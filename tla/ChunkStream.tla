----------------------------- MODULE ChunkStream -----------------------------
(***************************************************************************)
(* What a batched column reader promises its caller, with no pages, no     *)
(* dictionary and no carry buffer: the rows of the chunk are handed out    *)
(* front to back, `batch' at a time, each exactly once; a shorter batch    *)
(* is the last one; a chunk that cannot be decoded ends in an error that   *)
(* withholds fewer rows than one batch.  ColumnBatchIter is shown to       *)
(* implement it.                                                           *)
(***************************************************************************)
EXTENDS Integers, Sequences

VARIABLES
  rows,       \* the rows that decoding the chunk front to back produces
  broken,     \* TRUE iff decoding stops at a page that cannot be decoded
  batch,      \* rows per batch, chosen when the stream is opened
  delivered,  \* rows handed to the caller so far
  status      \* "open", "done" or "failed"

vars == <<rows, broken, batch, delivered, status>>

Init ==
  /\ rows \in Seq(Int) /\ broken \in BOOLEAN /\ batch \in Nat
  /\ delivered = << >>
  /\ status = "open"

Left == Len(rows) - Len(delivered)

(* The next `n' rows are handed out: a full batch, or what is left.        *)
Deliver ==
  /\ status = "open" /\ Left > 0
  /\ Left < batch => ~broken
  /\ delivered' = SubSeq(rows, 1, IF Left < batch THEN Len(rows)
                                                   ELSE Len(delivered) + batch)
  /\ UNCHANGED <<rows, broken, batch, status>>

End ==
  /\ status = "open" /\ Left = 0 /\ ~broken
  /\ status' = "done"
  /\ UNCHANGED <<rows, broken, batch, delivered>>

Fail ==
  /\ status = "open" /\ broken /\ Left < batch
  /\ status' = "failed"
  /\ UNCHANGED <<rows, broken, batch, delivered>>

(* A stream of batches of no rows at all is refused when it is opened.     *)
Refuse ==
  /\ status = "open" /\ batch = 0
  /\ status' = "failed"
  /\ UNCHANGED <<rows, broken, batch, delivered>>

Next == Deliver \/ End \/ Fail \/ Refuse

Spec == Init /\ [][Next]_vars
=============================================================================
