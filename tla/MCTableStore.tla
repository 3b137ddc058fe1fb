----------------------------- MODULE MCTableStore -----------------------------
(***************************************************************************)
(* The two ends of a table in one run: the call that writes it             *)
(* (MCTableWriter) and the handle that reads it, or whatever else a path   *)
(* names, from an object store (MCAsyncRead).  They share the layout of a  *)
(* file, TableFile, and no state, so a behaviour is one of the one or one  *)
(* of the other.                                                           *)
(***************************************************************************)
EXTENDS MCTableWriter, MCAsyncRead

VARIABLE part    \* which of the two runs: "writer" or "reader"

storeVars == <<part, writerVars, vars>>

StoreInit ==
  \/ part = "writer" /\ object = << >> /\ build = "release" /\ Init /\ WriterInit
  \/ part = "reader" /\ call \in NoColumns /\ WriterInit /\ Init

(* The open failed: the caller has no handle to go on with.                *)
NoHandle == part = "reader" /\ pc \in {"failed", "panicked"} /\ UNCHANGED storeVars

StoreNext ==
  \/ part = "writer" /\ WriterNext /\ UNCHANGED <<part, vars>>
  \/ part = "reader" /\ Next /\ UNCHANGED <<part, writerVars>>
  \/ NoHandle

StoreSpec == StoreInit /\ [][StoreNext]_storeVars
=============================================================================
