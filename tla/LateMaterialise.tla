--------------------------- MODULE LateMaterialise ---------------------------
(***************************************************************************)
(* What a query engine does with the two readers: filter one column of a   *)
(* row group with the adaptive predicate reader and, when the answer is a  *)
(* bitmap, hand it as the row mask of the masked reader of another column, *)
(* whose pages have other boundaries.  A caller may also build a mask of   *)
(* its own and run the masked reader alone.                                *)
(***************************************************************************)
EXTENDS AdaptiveChunk, RowMaskedRead

CONSTANT CallerMasks    \* masks a caller builds

lateVars == <<filterVars, maskedVars>>

LateInit == Idle /\ MaskedIdle

FilterCall == m_pc = "idle" /\ Call /\ UNCHANGED maskedVars

FilterStep == Step /\ UNCHANGED maskedVars

(* The bitmap of one column selects rows of another one of the row group.  *)
GatherCall ==
  /\ f_pc = "done" /\ dispatch = "Fused"
  /\ \E c \in MaskedChunks :
       /\ c.total = request.chunk.total
       /\ CallMasked(c, bitmap)
  /\ UNCHANGED filterVars

CallerMaskCall ==
  /\ f_pc = "idle"
  /\ \E c \in MaskedChunks, m \in CallerMasks : CallMasked(c, m)
  /\ UNCHANGED filterVars

GatherStep == MaskedStep /\ UNCHANGED filterVars

(* Both calls have returned.                                               *)
Returned ==
  /\ \/ m_pc \in {"done", "failed"}
     \/ f_pc = "failed" \/ (f_pc = "done" /\ dispatch = "Materialized")
     \/ f_pc = "done" /\ \A c \in MaskedChunks : c.total # request.chunk.total
  /\ UNCHANGED lateVars

LateNext ==
  \/ FilterCall \/ FilterStep \/ GatherCall \/ CallerMaskCall \/ GatherStep
  \/ Returned

LateSpec == LateInit /\ [][LateNext]_lateVars

-----------------------------------------------------------------------------
(* The predicate of one column selects the same rows of another one,       *)
(* across different page boundaries and skipped pages, as long as every    *)
(* page of the filtered column but the last holds whole bytes.             *)
SelectsSameRows ==
  f_pc = "done" /\ m_pc = "done" /\ RowsDecode /\ PagesFillBytes =>
    LET other == OneShot(Blanked, m_call.chunk.total).out
    IN  Len(other) = Len(Rows)
          => out = Selected(other, {i \in 1..Len(Rows) : Rows[i] \in request.predicate})
=============================================================================
