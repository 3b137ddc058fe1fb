---------------------------- MODULE MCChunkReaders ----------------------------
(***************************************************************************)
(* The readers of a column chunk in one run: the streaming iterators       *)
(* (MCColumnBatchIter), and the adaptive predicate reader with the masked  *)
(* reader (MCLateMaterialise).  They share no state, so a behaviour is one *)
(* of the ones or one of the others; a caller of the others has asked for  *)
(* a stream of batches of no rows, and been refused, before.               *)
(***************************************************************************)
EXTENDS MCColumnBatchIter, MCLateMaterialise

VARIABLE part    \* which of the two runs: "stream" or "late"

readerVars == <<part, vars, lateVars>>

NoStream == chunk = [pages |-> <<P("index", << >>)>>, total |-> 0] /\ batch_size = 0 /\ ~owned

ReadersInit ==
  /\ Init /\ LateInit
  /\ part = "stream" \/ (part = "late" /\ NoStream)

StreamStep == Next /\ UNCHANGED <<part, lateVars>>
LateStep == part = "late" /\ pc = "rejected" /\ LateNext /\ UNCHANGED <<part, vars>>

ReadersNext == StreamStep \/ LateStep

(* next() runs to its return, and the caller of a stream keeps calling it. *)
ReadersSpec == ReadersInit /\ [][ReadersNext]_readerVars /\ WF_vars(Next)
=============================================================================
