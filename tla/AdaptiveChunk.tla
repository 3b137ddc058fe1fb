---------------------------- MODULE AdaptiveChunk ----------------------------
(***************************************************************************)
(* read_column_*_predicate_adaptive: pull_dict_chunk collects the          *)
(* dictionary and every data page of a chunk, build_dict_predicate_mask    *)
(* evaluates the predicate on the dictionary, and run_adaptive_dict_chunk  *)
(* probes the first pages with the fused kernel, commits to one of the two *)
(* output shapes and produces it.  One step is one iteration of a loop of  *)
(* the code.                                                               *)
(*                                                                         *)
(* A coded page carries the bit width of its first body byte beside its    *)
(* indices.  A bitmap is a sequence of booleans whose length is a multiple *)
(* of Byte: the code's bytes have 8 bits, small instances take fewer.      *)
(* Selectivities are compared as fractions; the rounding of f32 is left    *)
(* out.                                                                    *)
(***************************************************************************)
EXTENDS ChunkPages, FiniteSets

CONSTANTS
  DictChunks,   \* [pages : Seq(WidePage), total : Nat]
  Predicates,   \* sets of values: those on which the predicate holds
  Options,      \* AdaptiveDispatchOptions: threshold <<num, den>>, probe_pages
  Byte          \* rows per bitmap byte

WidePage == [kind : {"dict", "index", "plain", "coded", "bad"},
             vals : Seq(Int), width : Nat]

ASSUME DictChunksAssumption ==
  DictChunks \subseteq [pages : Seq(WidePage), total : Nat]
(* The format allows one dictionary page per chunk.                        *)
ASSUME OneDictionaryAssumption ==
  \A c \in DictChunks : \A j, k \in 1..Len(c.pages) :
    c.pages[j].kind = "dict" /\ c.pages[k].kind = "dict" => j = k
ASSUME OptionsAssumption ==
  \A o \in Options : /\ o.threshold[1] \in Nat /\ o.threshold[2] \in Nat \ {0}
                     /\ o.probe_pages \in Nat
ASSUME ByteAssumption == Byte \in Nat \ {0}

(* Widths above this one are BitWidthOutOfRange.                           *)
MaxWidth == 31

VARIABLES
  request,      \* the call's chunk, predicate and options; NoRequest before it
  f_pc,         \* "idle", "pull", "mask", "probe", "fused", "materialise",
                \* "done" or "failed"
  pos,          \* "pull": pages walked; later: collected pages processed
  has_dict, f_dict,  \* dict_decoded: whether it is Some, and its entries
  pages,        \* data pages collected
  bit_width,
  mask,         \* dict_mask: one boolean per index below 2^bit_width
  rows_in, rows_passed,
  bitmap, values,
  dispatch,     \* "none", "Fused" or "Materialized"
  reports       \* history: the telemetry calls

filterVars == <<request, f_pc, pos, has_dict, f_dict, pages, bit_width, mask,
                rows_in, rows_passed, bitmap, values, dispatch, reports>>

pulled == <<has_dict, f_dict, pages, bit_width>>

NoRequest == [chunk |-> [pages |-> << >>, total |-> 0], predicate |-> {},
              options |-> [threshold |-> <<0, 1>>, probe_pages |-> 0]]

ChunkPagesOf == request.chunk.pages
Threshold    == request.options.threshold

CeilBytes(n) == (n + Byte - 1) \div Byte

RowCount(ps) == RunningSum([k \in 1..Len(ps) |-> Len(ps[k].vals)])[Len(ps)]

Idle ==
  /\ request = NoRequest /\ f_pc = "idle" /\ pos = 0
  /\ has_dict = FALSE /\ f_dict = << >> /\ pages = << >> /\ bit_width = 0
  /\ mask = << >> /\ rows_in = 0 /\ rows_passed = 0
  /\ bitmap = << >> /\ values = << >> /\ dispatch = "none" /\ reports = << >>

(* The caller opens the chunk; read_chunk_raw returns its bytes.           *)
Call ==
  /\ f_pc = "idle"
  /\ \E c \in DictChunks, p \in Predicates, o \in Options :
       request' = [chunk |-> c, predicate |-> p, options |-> o]
  /\ f_pc' = "pull"
  /\ UNCHANGED <<pos, pulled, mask, rows_in, rows_passed, bitmap, values,
                 dispatch, reports>>

-----------------------------------------------------------------------------
(* pull_dict_chunk.                                                        *)

outputs == <<mask, rows_in, rows_passed, bitmap, values, dispatch, reports>>

Pulling(kinds) ==
  /\ f_pc = "pull" /\ pos < Len(ChunkPagesOf)
  /\ ChunkPagesOf[pos + 1].kind \in kinds

(* After every page: break once the footer's row count is collected.       *)
WalkOn(collected) ==
  /\ pos' = IF RowCount(collected) >= request.chunk.total THEN 0 ELSE pos + 1
  /\ f_pc'  = IF RowCount(collected) >= request.chunk.total THEN "mask" ELSE "pull"

PullDictionary ==
  /\ Pulling({"dict"})
  /\ has_dict' = TRUE /\ f_dict' = ChunkPagesOf[pos + 1].vals
  /\ WalkOn(pages)
  /\ UNCHANGED <<request, pages, bit_width, outputs>>

PullCoded ==
  /\ Pulling({"coded"}) /\ has_dict
  /\ pages' = Append(pages, ChunkPagesOf[pos + 1])
  /\ bit_width' = IF bit_width = 0 THEN ChunkPagesOf[pos + 1].width ELSE bit_width
  /\ WalkOn(pages')
  /\ UNCHANGED <<request, has_dict, f_dict, outputs>>

PullIndexPage ==
  /\ Pulling({"index"})
  /\ WalkOn(pages)
  /\ UNCHANGED <<request, pulled, outputs>>

(* A page that does not parse, a PLAIN page, a data page before the        *)
(* dictionary.                                                             *)
PullFails ==
  /\ \/ Pulling({"bad", "plain"})
     \/ Pulling({"coded"}) /\ ~has_dict
  /\ f_pc' = "failed"
  /\ UNCHANGED <<request, pos, pulled, outputs>>

(* The walker runs out of pages.                                           *)
WalkEnds ==
  /\ f_pc = "pull" /\ pos = Len(ChunkPagesOf)
  /\ pos' = 0 /\ f_pc' = "mask"
  /\ UNCHANGED <<request, pulled, outputs>>

-----------------------------------------------------------------------------
(* build_dict_predicate_mask, and the start of run_adaptive_dict_chunk.    *)

MaskBuilds ==
  /\ has_dict
  /\ bit_width \in 1..(MaxWidth + 1)
  /\ Len(f_dict) <= 2 ^ bit_width

BuildMask ==
  /\ f_pc = "mask" /\ MaskBuilds
  /\ mask' = [i \in 1..(2 ^ bit_width) |->
                i <= Len(f_dict) /\ f_dict[i] \in request.predicate]
  /\ f_pc' = "probe"
  /\ UNCHANGED <<request, pos, pulled, rows_in, rows_passed, bitmap, values,
                 dispatch, reports>>

MaskFails ==
  /\ f_pc = "mask" /\ ~MaskBuilds
  /\ f_pc' = "failed"
  /\ UNCHANGED <<request, pos, pulled, outputs>>

-----------------------------------------------------------------------------
(* decode_rle_dictionary_predicate_bitmap, for one page.                   *)

FusedReads(page) == page.width <= MaxWidth /\ 2 ^ page.width <= Len(mask)

(* A planted bug: the first row of a byte takes its highest bit.           *)
PageBits_HighFirst(page) ==
  [i \in 1..(CeilBytes(Len(page.vals)) * Byte) |->
     LET byte == (i - 1) \div Byte
         row  == (byte * Byte) + (Byte - ((i - 1) % Byte))
     IN row <= Len(page.vals) /\ mask[page.vals[row] + 1]]

(* One bit per row, padded with zeros to a whole number of bytes.          *)
PageBits(page) ==
  [i \in 1..(CeilBytes(Len(page.vals)) * Byte) |->
     i <= Len(page.vals) /\ mask[page.vals[i] + 1]]

PassingRows(page) == {i \in 1..Len(page.vals) : mask[page.vals[i] + 1]}

Passed(page) == Cardinality(PassingRows(page))

ProbeEnd ==
  IF request.options.probe_pages < Len(pages)
  THEN request.options.probe_pages ELSE Len(pages)

RunFused(page) ==
  /\ FusedReads(page)
  /\ bitmap' = bitmap \o PageBits(page)
  /\ rows_passed' = rows_passed + Passed(page)
  /\ pos' = pos + 1

(* An empty chunk: an empty bitmap, reported once.                         *)
EmptyChunk ==
  /\ f_pc = "probe" /\ RowCount(pages) = 0
  /\ dispatch' = "Fused"
  /\ reports' = Append(reports, [pages_probed |-> 0, rows_in |-> 0,
                                 rows_passed |-> 0, dispatch |-> "Fused"])
  /\ f_pc' = "done"
  /\ UNCHANGED <<request, pos, pulled, mask, rows_in, rows_passed, bitmap,
                 values>>

ProbePage ==
  /\ f_pc = "probe" /\ RowCount(pages) > 0 /\ pos < ProbeEnd
  /\ RunFused(pages[pos + 1])
  /\ rows_in' = rows_in + Len(pages[pos + 1].vals)
  /\ UNCHANGED <<request, f_pc, pulled, mask, values, dispatch, reports>>

(* selectivity() > threshold, with 0 for no rows.                          *)
DispatchFor ==
  IF rows_passed * Threshold[2] > rows_in * Threshold[1]
  THEN "Materialized" ELSE "Fused"

(* The decision, reported once; `restart' is where the next loop begins.   *)
CommitAt(restart) ==
  /\ f_pc = "probe" /\ RowCount(pages) > 0 /\ pos = ProbeEnd
  /\ dispatch' = DispatchFor
  /\ f_pc' = IF DispatchFor = "Fused" THEN "fused" ELSE "materialise"
  /\ pos' = restart
  /\ reports' = Append(reports,
                  [pages_probed |-> ProbeEnd, rows_in |-> rows_in,
                   rows_passed |-> rows_passed, dispatch |-> DispatchFor])
  /\ UNCHANGED <<request, pulled, mask, rows_in, rows_passed, bitmap, values>>

(* A planted bug: the materialised path starts after the probed pages.     *)
Commit_SkipProbed == CommitAt(pos)

(* A planted bug: the fused path runs over the probed pages again.         *)
Commit_FusedAgain == CommitAt(0)

Commit == CommitAt(IF DispatchFor = "Fused" THEN pos ELSE 0)

FusedPage ==
  /\ f_pc = "fused" /\ pos < Len(pages)
  /\ RunFused(pages[pos + 1])
  /\ UNCHANGED <<request, f_pc, pulled, mask, rows_in, values, dispatch,
                 reports>>

(* decode_rle_dictionary_into, then materialise_filter.                    *)
Materialises(page) ==
  /\ \A i \in 1..Len(page.vals) : page.vals[i] < Len(f_dict)
  /\ FusedReads(page)

MaterialisePage ==
  LET page == pages[pos + 1]
  IN /\ f_pc = "materialise" /\ pos < Len(pages)
     /\ Materialises(page)
     /\ values' = values \o Selected(PageRows(page, f_dict), PassingRows(page))
     /\ pos' = pos + 1
     /\ UNCHANGED <<request, f_pc, pulled, mask, rows_in, rows_passed, bitmap,
                    dispatch, reports>>

PageFails ==
  /\ \/ /\ f_pc = "probe" /\ RowCount(pages) > 0 /\ pos < ProbeEnd
        /\ ~FusedReads(pages[pos + 1])
     \/ f_pc = "fused" /\ pos < Len(pages) /\ ~FusedReads(pages[pos + 1])
     \/ f_pc = "materialise" /\ pos < Len(pages) /\ ~Materialises(pages[pos + 1])
  /\ f_pc' = "failed"
  /\ UNCHANGED <<request, pos, pulled, outputs>>

Return ==
  /\ f_pc \in {"fused", "materialise"} /\ pos = Len(pages)
  /\ f_pc' = "done"
  /\ UNCHANGED <<request, pos, pulled, outputs>>

Step ==
  \/ PullDictionary \/ PullCoded \/ PullIndexPage \/ PullFails \/ WalkEnds
  \/ BuildMask \/ MaskFails
  \/ EmptyChunk \/ ProbePage \/ Commit \/ FusedPage \/ MaterialisePage
  \/ PageFails \/ Return

-----------------------------------------------------------------------------
(* Properties.                                                             *)

(* The rows of the chunk as the one-shot reader decodes them.              *)
Rows == OneShot(ChunkPagesOf, request.chunk.total).out
RowsDecode == ~OneShot(ChunkPagesOf, request.chunk.total).err

Passing == Selected(Rows, {i \in 1..Len(Rows) : Rows[i] \in request.predicate})

(* "Values ... Length equals set_bits from the equivalent bitmap output":  *)
(* when every page decodes, the materialised answer is the chunk's passing *)
(* rows in row order and the fused answer counts exactly those rows,       *)
(* whichever pages were probed and wherever the threshold lies.            *)
AnswerIsFilter ==
  f_pc = "done" /\ RowsDecode =>
    \/ dispatch = "Materialized" /\ values = Passing
    \/ dispatch = "Fused" /\ rows_passed = Len(Passing)

(* "Bit i of byte k represents row 8k+i across the whole chunk": the       *)
(* bitmap marks the rows of the chunk on which the predicate holds.        *)
BitmapIsRowwise ==
  f_pc = "done" /\ dispatch = "Fused" /\ RowsDecode =>
    \A r \in 1..Len(Rows) : bitmap[r] <=> Rows[r] \in request.predicate

(* Every page but the last fills its bytes.                                *)
PagesFillBytes ==
  \A k \in 1..(Len(pages) - 1) : Len(pages[k].vals) % Byte = 0

(* The kernel appends a page's bits at the byte after the previous page's, *)
(* so the bitmap is what its documentation says if the pages leave no gap, *)
(* whichever of them were probed before the commit to the fused path.      *)
FilledBitmapIsRowwise == PagesFillBytes => BitmapIsRowwise
=============================================================================
