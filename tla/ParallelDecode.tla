---------------------------- MODULE ParallelDecode ----------------------------
(***************************************************************************)
(* read_columns_parallel (ematix-parquet-codec/src/parallel/mod.rs) over a *)
(* shared ParquetFile: rayon workers claim (row group, column) targets,    *)
(* check the CancellationToken, and run decode_one, which begins by asking *)
(* the file for its cached metadata (CachedMetadata).  Results are         *)
(* collected into a Result<Vec<T>>.                                        *)
(*                                                                         *)
(* rayon is not part of the repository.  Modelled of it, as the code uses  *)
(* it: an idle worker may take any target nobody took, unless a failed     *)
(* sibling has raised the shared `full' flag; an error is kept only if it  *)
(* is the first; the flag is raised after the error is kept; the call      *)
(* returns when no worker is busy and nothing is left to take; output slot *)
(* i holds the result of input i.                                          *)
(***************************************************************************)
EXTENDS Integers, Sequences, CachedMetadata

CONSTANTS
  Columns,      \* the (row group, column) pairs a target can name
  MaxTargets    \* bound: length of the target list

ASSUME MaxTargetsAssumption == MaxTargets \in Nat

(* Threads, of CachedMetadata, are the workers of the pool.                *)

VARIABLES
  targets,      \* the argument: a sequence of columns, repeats allowed
  bad,          \* the columns whose decode fails (out of range, corrupt)
  has_token,    \* opts.cancel is Some
  cancelled,    \* the token's flag
  pc,           \* each worker: "idle", "claimed", "decoding", "failed", "stopping"
  claim,        \* the slot each worker holds; 0 when it holds none
  error,        \* the error each worker is about to report
  taken,        \* slots claimed so far
  full,         \* rayon's flag: a sibling failed, take nothing more
  saved,        \* rayon's saved error
  out,          \* the collected results
  result,       \* "running", "ok" or "err": what the call returned
  calls,        \* history: how often decode_one ran on each slot
  late          \* history: slots claimed after the token fired

callVars  == <<targets, bad, has_token>>
rayonVars == <<taken, full, saved, out, result>>
vars == <<metaVars, callVars, cancelled, pc, claim, error, rayonVars, calls, late>>

Slots == 1..Len(targets)

NoError   == [kind |-> "none", slot |-> 0]
Cancelled == [kind |-> "cancelled", slot |-> 0]
Failed(i) == [kind |-> "decode", slot |-> i]
Errors    == {NoError, Cancelled} \cup {Failed(i) : i \in 1..MaxTargets}

NotYet == <<"no result">>
Result(c) == <<"decoded", c>>

Init ==
  /\ MetaInit
  /\ targets \in UNION {[1..n -> Columns] : n \in 0..MaxTargets}
  /\ bad \in SUBSET Columns /\ has_token \in BOOLEAN
  /\ cancelled = FALSE
  /\ pc = [w \in Threads |-> "idle"] /\ claim = [w \in Threads |-> 0]
  /\ error = [w \in Threads |-> NoError]
  /\ taken = {} /\ full = FALSE /\ saved = NoError
  /\ out = [i \in Slots |-> NotYet]
  /\ result = "running"
  /\ calls = [i \in Slots |-> 0] /\ late = {}

Become(w, from, to) ==
  /\ pc[w] = from
  /\ pc' = [pc EXCEPT ![w] = to]

-----------------------------------------------------------------------------

(* CancellationToken::cancel, from any thread, before, during or after the *)
(* call.  Idempotent.                                                      *)
Cancel ==
  /\ has_token /\ ~cancelled
  /\ cancelled' = TRUE
  /\ UNCHANGED <<metaVars, callVars, pc, claim, error, rayonVars, calls, late>>

(* rayon hands a target to an idle worker.                                 *)
Claim(w, i) ==
  /\ result = "running" /\ ~full
  /\ i \in Slots \ taken
  /\ Become(w, "idle", "claimed")
  /\ taken' = taken \cup {i}
  /\ claim' = [claim EXCEPT ![w] = i]
  /\ late' = IF cancelled THEN late \cup {i} ELSE late
  /\ UNCHANGED <<metaVars, callVars, cancelled, error, full, saved, out, result, calls>>

(* The closure saw the flag set, and returns Err(Cancelled).               *)
RefuseCancelled(w) ==
  /\ cancelled
  /\ Become(w, "claimed", "failed")
  /\ error' = [error EXCEPT ![w] = Cancelled]
  /\ UNCHANGED <<metaVars, callVars, cancelled, claim, rayonVars, calls, late>>

StartDecodeWhen(w, allowed) ==
  /\ allowed
  /\ Become(w, "claimed", "decoding")
  /\ CallMetadata(w)
  /\ calls' = [calls EXCEPT ![claim[w]] = @ + 1]
  /\ UNCHANGED <<callVars, cancelled, claim, error, rayonVars, late>>

(* A planted bug: the token is not looked at.                              *)
StartDecode_Unchecked(w) == StartDecodeWhen(w, TRUE)

(* The flag was not set when the closure looked: decode_one is called, and *)
(* runs to completion whatever happens to the flag.                        *)
StartDecode(w) == StartDecodeWhen(w, ~cancelled)

(* read_chunk_raw asks for the file's metadata.                            *)
DecodeMetadata(w) ==
  /\ pc[w] = "decoding"
  /\ MetadataStep(w)
  /\ UNCHANGED <<callVars, cancelled, pc, claim, error, rayonVars, calls, late>>

Decodes(w) == meta_pc[w] = "returned" /\ targets[claim[w]] \notin bad

DepositAt(w, i) ==
  /\ Decodes(w)
  /\ Become(w, "decoding", "idle")
  /\ LeaveMetadata(w)
  /\ out' = [out EXCEPT ![i] = Result(targets[claim[w]])]
  /\ claim' = [claim EXCEPT ![w] = 0]
  /\ UNCHANGED <<callVars, cancelled, error, taken, full, saved, result, calls, late>>

(* A planted bug: results land in the order in which they complete.        *)
DecodeOk_CompletionOrder(w) ==
  DepositAt(w, CHOOSE i \in Slots : out[i] = NotYet /\ \A j \in 1..(i - 1) : out[j] # NotYet)

(* decode_one returns Ok: the value lands in its own slot.                 *)
DecodeOk(w) == DepositAt(w, claim[w])

DecodeErrAs(w, e) ==
  /\ meta_pc[w] \in {"returned", "failed"} /\ ~Decodes(w)
  /\ Become(w, "decoding", "failed")
  /\ LeaveMetadata(w)
  /\ error' = [error EXCEPT ![w] = e]
  /\ UNCHANGED <<callVars, cancelled, claim, rayonVars, calls, late>>

(* A planted bug: a failed decode is taken for a refused one.              *)
DecodeErr_AsCancelled(w) == DecodeErrAs(w, Cancelled)

(* decode_one returns Err: no metadata, or the column does not decode.     *)
DecodeErr(w) == DecodeErrAs(w, Failed(claim[w]))

(* A planted bug: the error is dropped.                                    *)
KeepError_Forget(w) ==
  /\ Become(w, "failed", "stopping")
  /\ UNCHANGED <<metaVars, callVars, cancelled, claim, error, rayonVars, calls, late>>

(* rayon keeps the first error ...                                         *)
KeepError(w) ==
  /\ Become(w, "failed", "stopping")
  /\ saved' = IF saved = NoError THEN error[w] ELSE saved
  /\ UNCHANGED <<metaVars, callVars, cancelled, claim, error, taken, full, out, result,
                 calls, late>>

(* A planted bug: the worker keeps its claim on the failed slot.           *)
RaiseFull_KeepClaim(w) ==
  /\ Become(w, "stopping", "idle")
  /\ full' = TRUE
  /\ error' = [error EXCEPT ![w] = NoError]
  /\ UNCHANGED <<metaVars, callVars, cancelled, claim, taken, saved, out, result, calls, late>>

(* ... and then tells the other workers to stop.                           *)
RaiseFull(w) ==
  /\ Become(w, "stopping", "idle")
  /\ full' = TRUE
  /\ claim' = [claim EXCEPT ![w] = 0]
  /\ error' = [error EXCEPT ![w] = NoError]
  /\ UNCHANGED <<metaVars, callVars, cancelled, taken, saved, out, result, calls, late>>

ReturnWhen(nothingLeft) ==
  /\ result = "running"
  /\ \A w \in Threads : pc[w] = "idle"
  /\ nothingLeft
  /\ result' = IF saved = NoError THEN "ok" ELSE "err"
  /\ UNCHANGED <<metaVars, callVars, cancelled, pc, claim, error, taken, full, saved, out,
                 calls, late>>

(* A planted bug: the call waits for the targets nobody takes any more.    *)
Return_AwaitAll == ReturnWhen(taken = Slots)

(* The call returns: every worker is idle and there is nothing to take.    *)
(* An empty target list returns Ok(vec![]) without reaching rayon.         *)
Return == ReturnWhen(full \/ taken = Slots)

WorkerStep(w) ==
  \/ \E i \in Slots : Claim(w, i)
  \/ RefuseCancelled(w) \/ StartDecode(w) \/ DecodeMetadata(w)
  \/ DecodeOk(w) \/ DecodeErr(w) \/ KeepError(w) \/ RaiseFull(w)

Returned == result # "running" /\ UNCHANGED vars

Next == Cancel \/ (\E w \in Threads : WorkerStep(w)) \/ Return \/ Returned

Spec == Init /\ [][Next]_vars

(* A pool thread that has work is scheduled, and decode_one terminates; the *)
(* caller's thread returns once the pool is done.  Nothing says that       *)
(* anybody ever cancels.                                                   *)
FairSpec == Spec /\ (\A w \in Threads : WF_vars(WorkerStep(w))) /\ WF_vars(Return)

-----------------------------------------------------------------------------
(* Properties.                                                             *)

TypeOK ==
  /\ MetaTypeOK
  /\ targets \in Seq(Columns) /\ Len(targets) <= MaxTargets
  /\ bad \subseteq Columns /\ has_token \in BOOLEAN
  /\ cancelled \in BOOLEAN
  /\ pc \in [Threads -> {"idle", "claimed", "decoding", "failed", "stopping"}]
  /\ claim \in [Threads -> {0} \cup Slots]
  /\ \A w \in Threads : claim[w] = 0 <=> pc[w] = "idle"
  /\ error \in [Threads -> Errors]
  /\ taken \subseteq Slots /\ full \in BOOLEAN /\ saved \in Errors
  /\ out \in [Slots -> {NotYet} \cup {Result(c) : c \in Columns}]
  /\ result \in {"running", "ok", "err"}
  /\ calls \in [Slots -> Nat] /\ late \subseteq Slots

(* Where a slot's work stands: nobody took it, a worker has it, it is      *)
(* decoded in place, or it failed -- and then the error is on record.      *)
Untouched(i) == i \notin taken /\ calls[i] = 0 /\ i \notin late
Decoded(i)   == /\ i \in taken /\ calls[i] = 1 /\ i \notin late
                /\ out[i] = Result(targets[i]) /\ targets[i] \notin bad
InHand(i, w) ==
  /\ claim[w] = i /\ i \in taken
  /\ pc[w] = "claimed" => calls[i] = 0
  /\ pc[w] = "decoding" => calls[i] = 1 /\ i \notin late
  /\ pc[w] \in {"failed", "stopping"} => error[w] # NoError
  /\ pc[w] = "stopping" => saved # NoError

(* No target falls between two workers: each slot is untouched, in the     *)
(* hands of exactly one worker, decoded into its own place, or the reason  *)
(* why the call will fail.                                                 *)
EverySlotAccounted ==
  /\ \A i \in Slots :
       Untouched(i) \/ Decoded(i) \/ (\E w \in Threads : InHand(i, w))
       \/ (i \in taken /\ saved # NoError)
  /\ \A v, w \in Threads : claim[v] # 0 /\ claim[v] = claim[w] => v = w
  /\ \A w \in Threads : claim[w] # 0 => InHand(claim[w], w)
  /\ full => saved # NoError
  /\ result = "ok" => saved = NoError /\ taken = Slots
  /\ result # "running" => \A w \in Threads : pc[w] = "idle"

(* Ok means complete and in input order: every slot holds the decode of    *)
(* its own target, decode_one ran once per target, and none of the targets *)
(* was bad or refused.                                                     *)
OkIsComplete ==
  result = "ok" => \A i \in Slots :
    /\ out[i] = Result(targets[i]) /\ targets[i] \notin bad
    /\ calls[i] = 1 /\ i \notin late

(* The error the call returns is the error of this call: Cancelled only if *)
(* the token fired, a decode error only of a slot whose decode_one ran and *)
(* could not succeed.                                                      *)
ErrorIsReal ==
  result = "err" =>
    \/ saved = Cancelled /\ cancelled
    \/ \E i \in Slots : saved = Failed(i) /\ calls[i] = 1
                        /\ (targets[i] \in bad \/ ~footer_ok)

(* A target claimed after the token fired is never decoded, however the    *)
(* cancel interleaves with claims and checks.                              *)
LateIsNeverDecoded == late # {} => cancelled /\ \A i \in late : calls[i] = 0

(* The OnceLock never changes the metadata it has published.               *)
MetadataIsStable == [][cached_meta # Nobody => cached_meta' = cached_meta]_vars

(* The call returns, under every schedule of its workers and of cancel().  *)
CallReturns == <>(result # "running")
=============================================================================
