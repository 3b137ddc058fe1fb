------------------------------ MODULE MCDataset ------------------------------
(***************************************************************************)
(* The two halves of the index family in one run: a sidecar index beside   *)
(* its source (MCSidecarIndex), and the planner that prunes data files and *)
(* pairs them with their sidecars (MCFilePruning).  They share no state,   *)
(* so a behaviour is one of the one or one of the other.                   *)
(***************************************************************************)
EXTENDS MCSidecarIndex, MCFilePruning

VARIABLE part    \* which of the two runs: "index" or "planner"

datasetVars == <<part, indexVars, vars>>

DatasetInit ==
  /\ IndexInit /\ Init
  /\ part = "index" \/ (part = "planner" /\ hist = <<Empty>>)

DatasetNext ==
  \/ part = "index" /\ IndexNext /\ UNCHANGED <<part, vars>>
  \/ part = "planner" /\ Next /\ UNCHANGED <<part, indexVars>>

DatasetSpec == DatasetInit /\ [][DatasetNext]_datasetVars
=============================================================================
