--------------------------- MODULE ColumnBatchIter ---------------------------
(***************************************************************************)
(* The streaming decoders of ematix-parquet-codec/src/read.rs:             *)
(* ColumnBatchIter<T, F> (Copy scalars) and ColumnByteArrayBatchIter       *)
(* (owned byte arrays).  A column chunk is a sequence of pages; the        *)
(* iterator pulls one data page at a time into `carry' and hands out       *)
(* slices of `batch_size' rows.  One step of the model is one iteration of *)
(* a loop of the code, so a page is consumed, a batch is emitted, or the   *)
(* stream ends in one step.                                                *)
(***************************************************************************)
EXTENDS ChunkPages

CONSTANTS
  Chunks,       \* [pages : Seq(Page), total : Nat]: total is num_values of the footer
  BatchSizes    \* the batch_size arguments callers pass, 0 among them

ASSUME ChunksAssumption == Chunks \subseteq [pages : Seq(Page), total : Nat]
ASSUME BatchSizesAssumption == BatchSizes \subseteq Nat

(* The value std::mem::take leaves behind in a slot of a Vec<Vec<u8>>.     *)
Taken == -1

VARIABLES
  chunk,             \* the chunk's bytes and its total_values
  batch_size,
  owned,             \* TRUE: ColumnByteArrayBatchIter, FALSE: ColumnBatchIter
  pc,                \* "new", "rejected", "idle" (the caller has control), "drain"
  walker_pos,        \* pages consumed so far
  dict,
  carry,
  carry_pos,
  emitted_to_carry,
  finished,
  errored,           \* history: next() has returned Some(Err)
  decoded,           \* history: every row decoded into carry, in order
  delivered          \* history: every row handed to the caller, in order

cfgVars  == <<chunk, batch_size, owned>>
iterVars == <<walker_pos, dict, carry, carry_pos, emitted_to_carry, finished>>
vars == <<cfgVars, pc, iterVars, errored, decoded, delivered>>

NumPages == Len(chunk.pages)
Pending  == Len(carry) - carry_pos

-----------------------------------------------------------------------------
(* The iterator.                                                           *)

Init ==
  /\ chunk \in Chunks /\ batch_size \in BatchSizes /\ owned \in BOOLEAN
  /\ pc = "new"
  /\ walker_pos = 0 /\ dict = << >>
  /\ carry = << >> /\ carry_pos = 0 /\ emitted_to_carry = 0
  /\ finished = FALSE
  /\ errored = FALSE /\ decoded = << >> /\ delivered = << >>

(* batch_iter_new / read_column_byte_array_batches.                        *)
Open ==
  /\ pc = "new"
  /\ pc' = IF batch_size = 0 THEN "rejected" ELSE "idle"
  /\ UNCHANGED <<cfgVars, iterVars, errored, decoded, delivered>>

(* The caller asks for the next batch; a finished iterator answers None.   *)
CallNext ==
  /\ pc = "idle" /\ ~finished
  /\ pc' = "drain"
  /\ UNCHANGED <<cfgVars, iterVars, errored, decoded, delivered>>

(* A planted bug: the loop reads ahead to the end of the chunk.            *)
WantsPage_Eager == pc = "drain" /\ emitted_to_carry < chunk.total

(* The condition of drain_one_batch's while loop.                          *)
WantsPage ==
  /\ pc = "drain"
  /\ Pending < batch_size
  /\ emitted_to_carry < chunk.total

Walking(kinds) ==
  /\ WantsPage
  /\ walker_pos < NumPages
  /\ chunk.pages[walker_pos + 1].kind \in kinds
  /\ walker_pos' = walker_pos + 1

FillDictionaryWith(d) ==
  /\ Walking({"dict"})
  /\ dict' = d
  /\ UNCHANGED <<cfgVars, pc, carry, carry_pos, emitted_to_carry, finished,
                 errored, decoded, delivered>>

(* A planted bug: the first dictionary of the chunk is kept.               *)
FillDictionary_KeepFirst ==
  FillDictionaryWith(IF dict = << >> THEN chunk.pages[walker_pos + 1].vals ELSE dict)

(* A dictionary page replaces the dictionary; the walk goes on.            *)
FillDictionary == FillDictionaryWith(chunk.pages[walker_pos + 1].vals)

(* A planted bug: the walk is restarted without moving past the page.      *)
SkipIndexPage_NoAdvance ==
  /\ WantsPage
  /\ walker_pos < NumPages
  /\ chunk.pages[walker_pos + 1].kind = "index"
  /\ UNCHANGED vars

SkipIndexPage ==
  /\ Walking({"index"})
  /\ UNCHANGED <<cfgVars, pc, dict, carry, carry_pos, emitted_to_carry, finished,
                 errored, decoded, delivered>>

FillData ==
  LET page == chunk.pages[walker_pos + 1]
      new  == PageRows(page, dict)
  IN /\ Walking({"plain", "coded"})
     /\ Decodable(page, dict)
     /\ carry' = carry \o new
     /\ emitted_to_carry' = emitted_to_carry + Len(new)
     /\ decoded' = decoded \o new
     /\ UNCHANGED <<cfgVars, pc, dict, carry_pos, finished, errored, delivered>>

(* Any error of fill_one_page ends the stream.  Rows waiting in carry are  *)
(* never handed out; what a failing page appended to it is never read.     *)
FillError ==
  /\ Walking({"plain", "coded", "bad"})
  /\ ~Decodable(chunk.pages[walker_pos + 1], dict)
  /\ finished' = TRUE /\ errored' = TRUE
  /\ pc' = "idle"
  /\ UNCHANGED <<cfgVars, dict, carry, carry_pos, emitted_to_carry, decoded, delivered>>

(* The loop is left: enough rows, all rows decoded, or no page left.       *)
LoopLeft == pc = "drain" /\ (~WantsPage \/ walker_pos = NumPages)

Finish ==
  /\ LoopLeft /\ Pending = 0
  /\ finished' = TRUE
  /\ pc' = "idle"
  /\ UNCHANGED <<cfgVars, walker_pos, dict, carry, carry_pos, emitted_to_carry,
                 errored, decoded, delivered>>

BatchLen == IF Pending < batch_size THEN Pending ELSE batch_size
Drained  == carry_pos + BatchLen = Len(carry)

(* What is left in carry when the batch has been copied, or moved, out.    *)
AfterTake ==
  [i \in 1..Len(carry) |->
     IF owned /\ i \in (carry_pos + 1)..(carry_pos + BatchLen) THEN Taken ELSE carry[i]]

EmitLeaving(rest, pos) ==
  /\ LoopLeft /\ Pending > 0
  /\ delivered' = delivered \o SubSeq(carry, carry_pos + 1, carry_pos + BatchLen)
  /\ carry' = rest /\ carry_pos' = pos
  /\ pc' = "idle"
  /\ UNCHANGED <<cfgVars, walker_pos, dict, emitted_to_carry, finished, errored, decoded>>

(* Planted bugs: the cursor survives the compaction; every emit compacts.  *)
EmitBatch_StaleCursor == EmitLeaving(IF Drained THEN << >> ELSE AfterTake, carry_pos + BatchLen)
EmitBatch_AlwaysClear == EmitLeaving(<< >>, 0)

(* The carry is compacted only when it is fully drained.                   *)
EmitBatch == EmitLeaving(IF Drained THEN << >> ELSE AfterTake,
                         IF Drained THEN 0 ELSE carry_pos + BatchLen)

(* next() on a finished iterator answers None and changes nothing; after a  *)
(* refused open there is no iterator.                                      *)
Ended ==
  /\ pc = "rejected" \/ (pc = "idle" /\ finished)
  /\ UNCHANGED vars

Fill == FillDictionary \/ SkipIndexPage \/ FillData \/ FillError
Next == Open \/ CallNext \/ Fill \/ Finish \/ EmitBatch \/ Ended

Spec == Init /\ [][Next]_vars

(* next() runs to its return, and this caller keeps calling next().        *)
FairSpec == Spec /\ WF_vars(Next)

-----------------------------------------------------------------------------
(* Properties.                                                             *)

(* Types, and the cursor of the carry buffer stays inside it: the slice    *)
(* carry[carry_pos..carry_pos + n] of drain_one_batch never panics.        *)
TypeOK ==
  /\ chunk \in [pages : Seq(Page), total : Nat] /\ batch_size \in Nat /\ owned \in BOOLEAN
  /\ pc \in {"new", "rejected", "idle", "drain"}
  /\ walker_pos \in 0..NumPages
  /\ dict \in Seq(Int)
  /\ carry \in Seq(Int) /\ carry_pos \in 0..Len(carry)
  /\ emitted_to_carry \in Nat
  /\ finished \in BOOLEAN /\ errored \in BOOLEAN
  /\ decoded \in Seq(Int) /\ delivered \in Seq(Int)

(* No row is lost, duplicated, reordered or handed out as the hole         *)
(* mem::take left: what the caller has is the front of what was decoded,   *)
(* and the rest of it is, slot for slot, what carry still holds after      *)
(* carry_pos.  emitted_to_carry counts exactly the rows decoded.           *)
CarryHoldsTheRest ==
  /\ emitted_to_carry = Len(decoded)
  /\ Len(decoded) = Len(delivered) + Pending
  /\ \A i \in 1..Len(delivered) : delivered[i] = decoded[i]
  /\ \A i \in 1..Pending : carry[carry_pos + i] = decoded[Len(delivered) + i]

(* n is at most `extra' more than the rows of some data page walked so far. *)
WithinAPage(n, extra) ==
  \E i \in 1..walker_pos :
     IsData(chunk.pages[i]) /\ n <= Len(chunk.pages[i].vals) + extra

(* Decode-ahead is bounded: the rows decoded and not yet handed out are    *)
(* fewer than a batch and a page, whatever the page and batch sizes.       *)
DecodeAheadBounded == Pending > 0 => WithinAPage(Pending, batch_size - 1)

(* A chunk that the footer says is empty holds no rows, and nothing that   *)
(* fails to decode: the one-shot reader looks at the first page before it  *)
(* counts, the stream counts first.                                        *)
EmptyIsEmpty ==
  \A ch \in Chunks : ch.total = 0 =>
    OneShot(ch.pages, 0).out = << >> /\ OneShot(ch.pages, 0).err = FALSE

(* The stream implements ChunkStream over the rows the one-shot reader     *)
(* decode_chunk_into produces from the same chunk.                         *)
Abstract ==
  INSTANCE ChunkStream WITH
    rows   <- OneShot(chunk.pages, chunk.total).out,
    broken <- OneShot(chunk.pages, chunk.total).err,
    batch  <- batch_size,
    status <- CASE pc = "rejected" \/ errored -> "failed"
                [] finished /\ ~errored       -> "done"
                [] OTHER                      -> "open"

Implements == Abstract!Spec

(* A caller that keeps calling next() reaches the end of every chunk.      *)
StreamEnds == <>(pc = "rejected" \/ finished)
=============================================================================
