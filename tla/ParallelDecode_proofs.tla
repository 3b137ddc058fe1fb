------------------------- MODULE ParallelDecode_proofs -------------------------
(***************************************************************************)
(* For any number of workers, columns and targets: an Ok of                *)
(* read_columns_parallel is complete and in order, and all workers decode  *)
(* with one and the same metadata.                                         *)
(***************************************************************************)
EXTENDS ParallelDecode, TLAPS

(* Types, without the history of decode_one calls.                         *)
LEMMA InitTypeOK == Init => TypeOK
<1> SUFFICES ASSUME Init PROVE TypeOK
  OBVIOUS
<1>1. PICK n \in 0..MaxTargets : targets \in [1..n -> Columns]
  BY DEF Init
<1>2. targets \in Seq(Columns) /\ Len(targets) = n /\ Len(targets) <= MaxTargets
  BY <1>1, MaxTargetsAssumption
<1>3. MetaTypeOK
  BY DEF Init, MetaInit, MetaTypeOK
<1>4. QED
  BY <1>2, <1>3 DEF Init, TypeOK, Slots, Errors

USE DEF callVars, rayonVars, Become

LEMMA MetaStepType ==
  ASSUME MetaTypeOK, NEW w \in Threads,
         CallMetadata(w) \/ MetadataStep(w) \/ LeaveMetadata(w) \/ UNCHANGED metaVars
  PROVE  MetaTypeOK'
<1>1. CASE CallMetadata(w) \/ LeaveMetadata(w) \/ UNCHANGED metaVars
  BY <1>1 DEF MetaTypeOK, CallMetadata, LeaveMetadata, MetaStep, metaVars
<1>2. CASE GetHit(w) \/ GetMiss(w) \/ Parse(w)
  BY <1>2 DEF MetaTypeOK, GetHit, GetMiss, Parse, MetaStep
<1>3. CASE SetMeta(w) \/ ReGet(w)
  BY <1>3 DEF MetaTypeOK, SetMeta, ReGet, MetaStep
<1>4. QED
  BY <1>1, <1>2, <1>3 DEF MetadataStep

LEMMA NextTypeOK == TypeOK /\ [Next]_vars => TypeOK'
<1> SUFFICES ASSUME TypeOK, [Next]_vars PROVE TypeOK'
  OBVIOUS
<1>1. CASE Cancel
  BY <1>1 DEF Cancel, TypeOK, Slots, metaVars, MetaTypeOK
<1>2. ASSUME NEW w \in Threads, WorkerStep(w)
      PROVE  TypeOK'
  <2>1. MetaTypeOK'
    <3>1. CallMetadata(w) \/ MetadataStep(w) \/ LeaveMetadata(w) \/ UNCHANGED metaVars
      BY <1>2 DEF WorkerStep, Claim, RefuseCancelled, StartDecode, StartDecodeWhen,
                  DecodeMetadata, DecodeOk, DepositAt, DecodeErr, DecodeErrAs, KeepError, RaiseFull
    <3>2. QED
      BY <3>1, MetaStepType DEF TypeOK
  <2>2. CASE \E i \in Slots : Claim(w, i)
    BY <2>1, <2>2 DEF Claim, TypeOK, Slots
  <2>3. CASE RefuseCancelled(w)
    BY <2>1, <2>3 DEF RefuseCancelled, TypeOK, Slots, Errors
  <2>4. CASE StartDecode(w)
    <3>1. claim[w] \in Slots
      BY <2>4 DEF StartDecode, StartDecodeWhen, TypeOK
    <3>2. calls' \in [Slots' -> Nat]
      BY <2>4, <3>1 DEF StartDecode, StartDecodeWhen, TypeOK, Slots
    <3>3. QED
      BY <2>1, <2>4, <3>2 DEF StartDecode, StartDecodeWhen, TypeOK, Slots
  <2>5. CASE DecodeMetadata(w)
    BY <2>1, <2>5 DEF DecodeMetadata, TypeOK, Slots
  <2>6. CASE DecodeOk(w)
    <3>1. claim[w] \in Slots
      BY <2>6 DEF DecodeOk, DepositAt, TypeOK
    <3>2. targets[claim[w]] \in Columns
      BY <3>1 DEF TypeOK, Slots
    <3>3. out' \in [Slots' -> {NotYet} \cup {Result(c) : c \in Columns}]
      BY <2>6, <3>1, <3>2 DEF DecodeOk, DepositAt, TypeOK, Slots
    <3>4. QED
      BY <2>1, <2>6, <3>3 DEF DecodeOk, DepositAt, TypeOK, Slots
  <2>7. CASE DecodeErr(w)
    <3>1. claim[w] \in Slots
      BY <2>7 DEF DecodeErr, DecodeErrAs, TypeOK
    <3>2. Failed(claim[w]) \in Errors
      BY <3>1, MaxTargetsAssumption DEF Errors, TypeOK, Slots
    <3>3. error' \in [Threads -> Errors]
      BY <2>7, <3>2 DEF DecodeErr, DecodeErrAs, TypeOK
    <3>4. QED
      BY <2>1, <2>7, <3>3 DEF DecodeErr, DecodeErrAs, TypeOK, Slots
  <2>8. CASE KeepError(w)
    BY <2>1, <2>8 DEF KeepError, TypeOK, Slots
  <2>9. CASE RaiseFull(w)
    <3>1. error' \in [Threads -> Errors]
      BY <2>9 DEF RaiseFull, TypeOK, Errors
    <3>2. QED
      BY <2>1, <2>9, <3>1 DEF RaiseFull, TypeOK, Slots
  <2>10. QED
    BY <1>2, <2>2, <2>3, <2>4, <2>5, <2>6, <2>7, <2>8, <2>9 DEF WorkerStep
<1>3. CASE Return
  BY <1>3 DEF Return, ReturnWhen, TypeOK, Slots, metaVars, MetaTypeOK
<1>4. CASE Returned \/ UNCHANGED vars
  BY <1>4 DEF Returned, vars, TypeOK, Slots, metaVars, MetaTypeOK
<1>5. QED
  BY <1>1, <1>2, <1>3, <1>4 DEF Next

(* Types of the parallel reader's state; a worker holds a slot exactly     *)
(* while it is busy.                                                       *)
THEOREM TypeCorrect == Spec => []TypeOK
<1>1. QED
  BY InitTypeOK, NextTypeOK, PTL DEF Spec

-----------------------------------------------------------------------------
(* One metadata object.                                                    *)

LEMMA NextOneMetadata == TypeOK /\ OneMetadata /\ [Next]_vars => OneMetadata'
<1> SUFFICES ASSUME TypeOK, OneMetadata, [Next]_vars PROVE OneMetadata'
  OBVIOUS
<1> MetaTypeOK
  BY DEF TypeOK
<1>1. CASE UNCHANGED metaVars
  BY <1>1 DEF OneMetadata, metaVars
<1>2. ASSUME NEW w \in Threads, CallMetadata(w) \/ LeaveMetadata(w)
      PROVE  OneMetadata'
  BY <1>2 DEF OneMetadata, MetaTypeOK, CallMetadata, LeaveMetadata, MetaStep
<1>3. ASSUME NEW w \in Threads, MetadataStep(w)
      PROVE  OneMetadata'
  <2>1. CASE GetHit(w) \/ GetMiss(w)
    BY <2>1 DEF OneMetadata, MetaTypeOK, GetHit, GetMiss, MetaStep
  <2>2. CASE Parse(w)
    BY <2>2 DEF OneMetadata, MetaTypeOK, Parse, MetaStep
  <2>3. CASE SetMeta(w)
    BY <2>3, NobodyAssumption DEF OneMetadata, MetaTypeOK, SetMeta, MetaStep
  <2>4. CASE ReGet(w)
    BY <2>4 DEF OneMetadata, MetaTypeOK, ReGet, MetaStep
  <2>5. QED
    BY <1>3, <2>1, <2>2, <2>3, <2>4 DEF MetadataStep
<1>4. \/ UNCHANGED metaVars
      \/ \E w \in Threads : CallMetadata(w) \/ LeaveMetadata(w) \/ MetadataStep(w)
  BY DEF Next, WorkerStep, Cancel, Claim, RefuseCancelled, StartDecode, StartDecodeWhen,
         DecodeMetadata, DecodeOk, DepositAt, DecodeErr, DecodeErrAs, KeepError, RaiseFull,
         Return, ReturnWhen, Returned, vars
<1>5. QED
  BY <1>1, <1>2, <1>3, <1>4

(* Every worker that got metadata from cached_metadata has the one object  *)
(* in the OnceLock, for any number of racing workers.                      *)
THEOREM AllShareOneMetadata == Spec => []OneMetadata
<1>1. Init => OneMetadata
  BY DEF Init, MetaInit, OneMetadata
<1>2. QED
  BY <1>1, NextOneMetadata, TypeCorrect, PTL DEF Spec

-----------------------------------------------------------------------------
(* Every slot is accounted for.                                            *)

Accounted == EverySlotAccounted /\ LateIsNeverDecoded

LEMMA InitAccounted == Init => Accounted
  BY DEF Init, Accounted, EverySlotAccounted, LateIsNeverDecoded, Untouched

LEMMA NextAccounted == TypeOK /\ Accounted /\ [Next]_vars => Accounted'
<1> SUFFICES ASSUME TypeOK, Accounted, [Next]_vars PROVE Accounted'
  OBVIOUS
<1> USE DEF Accounted, EverySlotAccounted, LateIsNeverDecoded, Untouched, Decoded, InHand
<1>1. CASE Cancel
  BY <1>1 DEF Cancel, TypeOK, Slots
<1>2. ASSUME NEW w \in Threads, NEW i \in Slots, Claim(w, i)
      PROVE  Accounted'
  BY <1>2 DEF Claim, TypeOK, Slots
<1>3. ASSUME NEW w \in Threads, RefuseCancelled(w)
      PROVE  Accounted'
  BY <1>3 DEF RefuseCancelled, TypeOK, Slots, Cancelled, NoError
<1>4. ASSUME NEW w \in Threads, StartDecode(w)
      PROVE  Accounted'
  BY <1>4 DEF StartDecode, StartDecodeWhen, TypeOK, Slots
<1>5. ASSUME NEW w \in Threads, DecodeMetadata(w)
      PROVE  Accounted'
  BY <1>5 DEF DecodeMetadata, TypeOK, Slots
<1>6. ASSUME NEW w \in Threads, DecodeOk(w)
      PROVE  Accounted'
  BY <1>6 DEF DecodeOk, DepositAt, Decodes, TypeOK, Slots
<1>7. ASSUME NEW w \in Threads, DecodeErr(w)
      PROVE  Accounted'
  BY <1>7 DEF DecodeErr, DecodeErrAs, TypeOK, Slots, Failed, NoError
<1>8. ASSUME NEW w \in Threads, KeepError(w)
      PROVE  Accounted'
  BY <1>8 DEF KeepError, TypeOK, Slots
<1>9. ASSUME NEW w \in Threads, RaiseFull(w)
      PROVE  Accounted'
  BY <1>9 DEF RaiseFull, TypeOK, Slots
<1>10. CASE Return
  BY <1>10 DEF Return, ReturnWhen, TypeOK, Slots
<1>11. CASE Returned \/ UNCHANGED vars
  BY <1>11 DEF Returned, vars, Slots
<1>12. QED
  BY <1>1, <1>2, <1>3, <1>4, <1>5, <1>6, <1>7, <1>8, <1>9, <1>10, <1>11 DEF Next, WorkerStep

LEMMA AlwaysAccounted == Spec => []Accounted
<1>1. QED
  BY InitAccounted, NextAccounted, TypeCorrect, PTL DEF Spec

(* No target is lost between workers, for any number of workers and        *)
(* targets and any interleaving of claims, errors and cancellation.        *)
THEOREM SlotsAccounted == Spec => []EverySlotAccounted
<1>1. QED
  BY AlwaysAccounted, PTL DEF Accounted

(* A target claimed after cancel() is never handed to decode_one.          *)
THEOREM LateNeverDecoded == Spec => []LateIsNeverDecoded
<1>1. QED
  BY AlwaysAccounted, PTL DEF Accounted

(* Ok from read_columns_parallel: one result per target, in input order,   *)
(* each target decoded once, none refused.                                 *)
THEOREM OkComplete == Spec => []OkIsComplete
<1>1. TypeOK /\ EverySlotAccounted => OkIsComplete
  <2> SUFFICES ASSUME TypeOK, EverySlotAccounted, result = "ok", NEW i \in Slots
               PROVE  Decoded(i)
    BY DEF OkIsComplete, Decoded
  <2>1. saved = NoError /\ taken = Slots /\ \A w \in Threads : claim[w] = 0
    BY DEF EverySlotAccounted, TypeOK
  <2>2. ~Untouched(i)
    BY <2>1 DEF Untouched
  <2>3. \A w \in Threads : ~InHand(i, w)
    <3>1. i # 0
      BY DEF Slots, TypeOK
    <3>2. QED
      BY <2>1, <3>1 DEF InHand
  <2>4. QED
    BY <2>1, <2>2, <2>3 DEF EverySlotAccounted
<1>2. QED
  BY <1>1, TypeCorrect, SlotsAccounted, PTL

-----------------------------------------------------------------------------
(* The error is real.                                                      *)

(* What a worker may report: the token fired, or decode_one ran on slot i  *)
(* and could not succeed.                                                  *)
Real(e) ==
  \/ e = Cancelled /\ cancelled
  \/ \E i \in Slots : e = Failed(i) /\ calls[i] = 1 /\ (targets[i] \in bad \/ ~footer_ok)

ErrorsReal ==
  /\ \A w \in Threads : pc[w] \in {"failed", "stopping"} => Real(error[w])
  /\ \A w \in Threads : meta_pc[w] = "failed" => ~footer_ok
  /\ saved # NoError => Real(saved)
  /\ result = "err" => saved # NoError

LEMMA InitErrorsReal == Init => ErrorsReal
  BY DEF Init, MetaInit, ErrorsReal

(* A failed parse of the footer is the only way cached_metadata fails.     *)
LEMMA MetaFailedStep ==
  ASSUME MetaTypeOK, NEW w \in Threads,
         \A v \in Threads : meta_pc[v] = "failed" => ~footer_ok,
         CallMetadata(w) \/ MetadataStep(w) \/ LeaveMetadata(w) \/ UNCHANGED metaVars
  PROVE  footer_ok' = footer_ok /\ \A v \in Threads : meta_pc'[v] = "failed" => ~footer_ok
  BY DEF MetaTypeOK, CallMetadata, LeaveMetadata, MetadataStep, MetaStep, GetHit, GetMiss, Parse,
         SetMeta, ReGet, metaVars

(* decode_one runs once per slot, so a reported error stays real.          *)
LEMMA RealStays ==
  ASSUME TypeOK, Accounted, UNCHANGED <<targets, bad, footer_ok>>, cancelled => cancelled',
         \/ calls' = calls
         \/ \E w \in Threads : StartDecode(w)
  PROVE  \A e : Real(e) => Real(e)'
<1> SUFFICES ASSUME NEW e, Real(e) PROVE Real(e)'
  OBVIOUS
<1>1. CASE e = Cancelled /\ cancelled
  BY <1>1 DEF Real
<1>2. ASSUME NEW i \in Slots, e = Failed(i), calls[i] = 1, targets[i] \in bad \/ ~footer_ok
      PROVE  Real(e)'
  <2>1. calls'[i] = 1
    <3>1. ASSUME NEW w \in Threads, StartDecode(w) PROVE calls'[i] = 1
      <4>1. claim[w] \in Slots /\ calls[claim[w]] = 0
        BY <3>1 DEF StartDecode, StartDecodeWhen, TypeOK, Accounted, EverySlotAccounted, InHand
      <4>2. QED
        BY <3>1, <4>1, <1>2 DEF StartDecode, StartDecodeWhen, TypeOK
    <3>2. QED
      BY <3>1, <1>2
  <2>2. i \in Slots'
    BY DEF Slots
  <2>3. QED
    BY <1>2, <2>1, <2>2 DEF Real, Failed
<1>3. QED
  BY <1>1, <1>2 DEF Real

LEMMA NextErrorsReal == TypeOK /\ Accounted /\ ErrorsReal /\ [Next]_vars => ErrorsReal'
<1> SUFFICES ASSUME TypeOK, Accounted, ErrorsReal, [Next]_vars PROVE ErrorsReal'
  OBVIOUS
<1>1. CASE Cancel
  <2>1. \A e : Real(e) => Real(e)'
    BY <1>1, RealStays DEF Cancel, metaVars
  <2>2. QED
    BY <1>1, <2>1 DEF Cancel, ErrorsReal, metaVars
<1>2. ASSUME NEW w \in Threads, WorkerStep(w)
      PROVE  ErrorsReal'
  <2> USE DEF ErrorsReal
  <2>1. /\ footer_ok' = footer_ok
        /\ \A v \in Threads : meta_pc'[v] = "failed" => ~footer_ok
    <3>1. CallMetadata(w) \/ MetadataStep(w) \/ LeaveMetadata(w) \/ UNCHANGED metaVars
      BY <1>2 DEF WorkerStep, Claim, RefuseCancelled, StartDecode, StartDecodeWhen,
                  DecodeMetadata, DecodeOk, DepositAt, DecodeErr, DecodeErrAs, KeepError, RaiseFull
    <3>2. QED
      BY <3>1, MetaFailedStep DEF TypeOK
  <2>2. \A e : Real(e) => Real(e)'
    <3>1. /\ UNCHANGED <<targets, bad, cancelled>>
          /\ calls' = calls \/ StartDecode(w)
      BY <1>2 DEF WorkerStep, Claim, RefuseCancelled, StartDecode, StartDecodeWhen,
                  DecodeMetadata, DecodeOk, DepositAt, DecodeErr, DecodeErrAs, KeepError, RaiseFull
    <3>2. QED
      BY <2>1, <3>1, RealStays
  <2> HIDE DEF Real
  <2>3. CASE \E i \in Slots : Claim(w, i)
    BY <2>1, <2>2, <2>3 DEF Claim, TypeOK
  <2>4. CASE RefuseCancelled(w)
    <3>1. Real(Cancelled)'
      BY <2>4 DEF RefuseCancelled, Real
    <3>2. QED
      BY <2>1, <2>2, <2>4, <3>1 DEF RefuseCancelled, TypeOK
  <2>5. CASE StartDecode(w)
    BY <2>1, <2>2, <2>5 DEF StartDecode, StartDecodeWhen, TypeOK
  <2>6. CASE DecodeMetadata(w)
    BY <2>1, <2>2, <2>6 DEF DecodeMetadata, TypeOK
  <2>7. CASE DecodeOk(w)
    BY <2>1, <2>2, <2>7 DEF DecodeOk, DepositAt, TypeOK
  <2>8. CASE DecodeErr(w)
    <3>1. claim[w] \in Slots /\ calls[claim[w]] = 1
      BY <2>8 DEF DecodeErr, DecodeErrAs, TypeOK, Accounted, EverySlotAccounted, InHand
    <3>2. targets[claim[w]] \in bad \/ ~footer_ok
      BY <2>8 DEF DecodeErr, DecodeErrAs, Decodes
    <3>3. Real(Failed(claim[w]))
      BY <3>1, <3>2 DEF Real
    <3>4. Real(Failed(claim[w]))'
      BY <2>2, <2>8, <3>3, <3>1, <3>2 DEF DecodeErr, DecodeErrAs, Real, Slots, Failed
    <3>5. QED
      BY <2>1, <2>2, <2>8, <3>4 DEF DecodeErr, DecodeErrAs, TypeOK
  <2>9. CASE KeepError(w)
    <3>1. Real(error[w])'
      BY <2>2, <2>9 DEF KeepError, Real, Slots
    <3>2. QED
      BY <2>1, <2>2, <2>9, <3>1 DEF KeepError, TypeOK
  <2>10. CASE RaiseFull(w)
    BY <2>1, <2>2, <2>10 DEF RaiseFull, TypeOK
  <2>11. QED
    BY <1>2, <2>3, <2>4, <2>5, <2>6, <2>7, <2>8, <2>9, <2>10 DEF WorkerStep
<1>3. CASE Return \/ Returned \/ UNCHANGED vars
  <2>1. \A e : Real(e) => Real(e)'
    BY <1>3, RealStays DEF Return, ReturnWhen, Returned, vars, metaVars
  <2>2. QED
    BY <1>3, <2>1 DEF Return, ReturnWhen, Returned, vars, metaVars, ErrorsReal
<1>4. QED
  BY <1>1, <1>2, <1>3 DEF Next

(* An Err of read_columns_parallel names its cause: Cancelled only if the  *)
(* token fired, a decode error only of a slot whose decode_one ran and     *)
(* could not succeed, for any number of racing workers.                    *)
THEOREM ErrorReal == Spec => []ErrorIsReal
<1>1. ErrorsReal => ErrorIsReal
  BY DEF ErrorsReal, ErrorIsReal, Real
<1>2. QED
  BY <1>1, InitErrorsReal, NextErrorsReal, TypeCorrect, AlwaysAccounted, PTL DEF Spec

-----------------------------------------------------------------------------
(* Once published by cached_metadata's OnceLock::set, the metadata object  *)
(* is never replaced, whichever workers were still parsing.                *)
THEOREM MetadataStable == Spec => MetadataIsStable
<1>1. [Next]_vars => [cached_meta # Nobody => cached_meta' = cached_meta]_vars
  <2> SUFFICES ASSUME Next, cached_meta # Nobody PROVE cached_meta' = cached_meta
    OBVIOUS
  <2>1. \/ UNCHANGED metaVars
        \/ \E w \in Threads : CallMetadata(w) \/ LeaveMetadata(w) \/ MetadataStep(w)
    BY DEF Next, WorkerStep, Cancel, Claim, RefuseCancelled, StartDecode, StartDecodeWhen,
           DecodeMetadata, DecodeOk, DepositAt, DecodeErr, DecodeErrAs, KeepError, RaiseFull,
           Return, ReturnWhen, Returned, vars
  <2>2. QED
    BY <2>1 DEF metaVars, CallMetadata, LeaveMetadata, MetadataStep, GetHit, GetMiss, Parse,
                SetMeta, ReGet
<1>2. QED
  BY <1>1, PTL DEF Spec, MetadataIsStable
=============================================================================
