---------------------------- MODULE RowMaskedRead ----------------------------
(***************************************************************************)
(* decode_chunk_row_masked_into: late materialisation of one chunk.  The   *)
(* caller hands in a packed bitmap over the chunk's rows; pages with no    *)
(* set bit are skipped without being decompressed, the rows that are set   *)
(* in the others are appended to `out'.  One step is one iteration of the  *)
(* page loop.                                                              *)
(*                                                                         *)
(* A bitmap is a sequence of booleans, a whole number of bytes long.  A    *)
(* page that cannot be decoded is one none of whose rows can be: whether a *)
(* bad index at a row that is not selected is noticed depends on the runs  *)
(* the encoder chose, which the model leaves out.                          *)
(***************************************************************************)
EXTENDS ChunkPages

CONSTANTS
  MaskedChunks,   \* [pages : Seq(Page), total : Nat]
  RowByte         \* rows per bitmap byte

ASSUME MaskedChunksAssumption == MaskedChunks \subseteq [pages : Seq(Page), total : Nat]
(* The rows of the data pages before each page, and behind the last one.   *)
RowsBefore(ps) ==
  RunningSum([k \in 1..Len(ps) |-> IF IsData(ps[k]) THEN Len(ps[k].vals) ELSE 0])

(* The footer counts every row of the pages, and the pages of a chunk it   *)
(* calls empty parse.                                                      *)
ASSUME RowsCountedAssumption ==
  \A c \in MaskedChunks :
    /\ RowsBefore(c.pages)[Len(c.pages)] <= c.total
    /\ c.total = 0 => \A k \in 1..Len(c.pages) : c.pages[k].kind # "bad"
ASSUME RowByteAssumption == RowByte \in Nat \ {0}

VARIABLES
  m_call,       \* [chunk, mask] of the call
  m_pc,         \* "idle", "walk", "done" or "failed"
  m_pos,        \* pages walked
  m_dict,
  row_cursor,   \* rows of the chunk before the next data page
  out

maskedVars == <<m_call, m_pc, m_pos, m_dict, row_cursor, out>>

NoCall == [chunk |-> [pages |-> << >>, total |-> 0], mask |-> << >>]

MaskedIdle ==
  /\ m_call = NoCall /\ m_pc = "idle" /\ m_pos = 0
  /\ m_dict = << >> /\ row_cursor = 0 /\ out = << >>

(* Undersized masks are refused before any page is read.                   *)
MaskFits(chunk, m) == Len(m) \div RowByte >= (chunk.total + RowByte - 1) \div RowByte

CallMasked(chunk, m) ==
  /\ m_pc = "idle"
  /\ m_call' = [chunk |-> chunk, mask |-> m]
  /\ m_pc' = IF MaskFits(chunk, m) THEN "walk" ELSE "failed"
  /\ UNCHANGED <<m_pos, m_dict, row_cursor, out>>

PageAt == m_call.chunk.pages[m_pos + 1]

AtPage(kinds) ==
  /\ m_pc = "walk" /\ m_pos < Len(m_call.chunk.pages)
  /\ PageAt.kind \in kinds

(* The rows of a page whose bit is set, given the rows before it.          *)
SetRows(page, before) ==
  {i \in 1..Len(page.vals) : m_call.mask[before + i]}

MaskedDictionary ==
  /\ AtPage({"dict"})
  /\ m_dict' = PageAt.vals /\ m_pos' = m_pos + 1
  /\ UNCHANGED <<m_call, m_pc, row_cursor, out>>

MaskedIndexPage ==
  /\ AtPage({"index"})
  /\ m_pos' = m_pos + 1
  /\ UNCHANGED <<m_call, m_pc, m_dict, row_cursor, out>>

(* Past a data page; the loop breaks when the cursor reaches the total.    *)
Advance ==
  /\ m_pos' = m_pos + 1
  /\ row_cursor' = row_cursor + Len(PageAt.vals)
  /\ m_pc' = IF row_cursor' >= m_call.chunk.total THEN "done" ELSE "walk"

(* A planted bug: a skipped page does not move the cursor.                 *)
SkipPage_KeepCursor ==
  /\ AtPage({"plain", "coded"}) /\ SetRows(PageAt, row_cursor) = {}
  /\ m_pos' = m_pos + 1
  /\ UNCHANGED <<m_call, m_pc, m_dict, row_cursor, out>>

SkipPage ==
  /\ AtPage({"plain", "coded"}) /\ SetRows(PageAt, row_cursor) = {}
  /\ Advance
  /\ UNCHANGED <<m_call, m_dict, out>>

Gathered(page, before) == Selected(PageRows(page, m_dict), SetRows(page, before))

GatherPage ==
  /\ AtPage({"plain", "coded"}) /\ SetRows(PageAt, row_cursor) # {}
  /\ Decodable(PageAt, m_dict)
  /\ out' = out \o Gathered(PageAt, row_cursor)
  /\ Advance
  /\ UNCHANGED <<m_call, m_dict>>

MaskedFails ==
  /\ \/ AtPage({"bad"})
     \/ /\ AtPage({"plain", "coded"}) /\ SetRows(PageAt, row_cursor) # {}
        /\ ~Decodable(PageAt, m_dict)
  /\ m_pc' = "failed"
  /\ UNCHANGED <<m_call, m_pos, m_dict, row_cursor, out>>

MaskedEnds ==
  /\ m_pc = "walk" /\ m_pos = Len(m_call.chunk.pages)
  /\ m_pc' = "done"
  /\ UNCHANGED <<m_call, m_pos, m_dict, row_cursor, out>>

MaskedStep ==
  \/ MaskedDictionary \/ MaskedIndexPage \/ SkipPage \/ GatherPage
  \/ MaskedFails \/ MaskedEnds

-----------------------------------------------------------------------------
(* Properties.                                                             *)

(* The chunk with every data page no bit selects replaced by a page that   *)
(* always decodes: what such a page holds is not the reader's business.    *)
Blanked ==
  LET ps == m_call.chunk.pages
  IN  [k \in 1..Len(ps) |->
         IF IsData(ps[k]) /\ SetRows(ps[k], RowsBefore(ps)[k - 1]) = {}
         THEN [kind |-> "plain", vals |-> ps[k].vals]
         ELSE ps[k]]

(* The rows of the chunk whose bit is set, decoded by the one-shot reader. *)
MaskedRows ==
  LET rows == OneShot(Blanked, m_call.chunk.total).out
  IN  Selected(rows, {i \in 1..Len(rows) : m_call.mask[i]})

SelectedReadable == ~OneShot(Blanked, m_call.chunk.total).err

(* Masking is filtering: the rows appended to `out' are those of the full  *)
(* decode whose bit is set, in row order, though whole pages are skipped,  *)
(* and the read fails exactly when the mask is short or a page holding a   *)
(* selected row cannot be read, whatever the pages it skips hold.          *)
MaskedIsFilter ==
  /\ m_pc = "done" => SelectedReadable /\ out = MaskedRows
  /\ m_pc = "failed" /\ MaskFits(m_call.chunk, m_call.mask) => ~SelectedReadable
=============================================================================
