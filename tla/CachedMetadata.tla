---------------------------- MODULE CachedMetadata ----------------------------
(***************************************************************************)
(* ParquetFile::cached_metadata (ematix-parquet-io/src/file.rs): the       *)
(* footer of an open file is parsed lazily, by whichever thread needs it   *)
(* first, and published through a OnceLock.  There is no lock around the   *)
(* parse: threads that find the cell empty all parse, one of them fills    *)
(* the cell, and every one of them reads the cell again before it returns. *)
(*                                                                         *)
(* A parsed FileMetaData is identified with the thread that parsed it, so  *)
(* that two parses of the same bytes are different objects.                *)
(***************************************************************************)
CONSTANTS
  Threads,
  Nobody        \* the empty cell; no thread

ASSUME NobodyAssumption == Nobody \notin Threads

VARIABLES
  footer_ok,    \* the footer bytes parse
  cached_meta,  \* the OnceLock: Nobody, or whose parse it holds
  meta_pc,      \* where each thread is inside cached_metadata
  md            \* the metadata each thread's call returned

metaVars == <<footer_ok, cached_meta, meta_pc, md>>

MetaInit ==
  /\ footer_ok \in BOOLEAN
  /\ cached_meta = Nobody
  /\ meta_pc = [t \in Threads |-> "out"]
  /\ md = [t \in Threads |-> Nobody]

MetaStep(t, from, to) ==
  /\ meta_pc[t] = from
  /\ meta_pc' = [meta_pc EXCEPT ![t] = to]
  /\ UNCHANGED footer_ok

CallMetadata(t) ==
  /\ MetaStep(t, "out", "get")
  /\ UNCHANGED <<cached_meta, md>>

(* self.cached_meta.get() finds a value ...                                *)
GetHit(t) ==
  /\ MetaStep(t, "get", "returned")
  /\ cached_meta # Nobody
  /\ md' = [md EXCEPT ![t] = cached_meta]
  /\ UNCHANGED cached_meta

(* ... or does not.                                                        *)
GetMiss(t) ==
  /\ MetaStep(t, "get", "parse")
  /\ cached_meta = Nobody
  /\ UNCHANGED <<cached_meta, md>>

(* read_file_metadata: an error returns at once and caches nothing.        *)
Parse(t) ==
  /\ MetaStep(t, "parse", IF footer_ok THEN "set" ELSE "failed")
  /\ UNCHANGED <<cached_meta, md>>

(* Planted bugs: the cell is overwritten; the thread returns its own parse. *)
SetMeta_Overwrite(t) ==
  /\ MetaStep(t, "set", "reget")
  /\ cached_meta' = t
  /\ UNCHANGED md

ReGet_OwnParse(t) ==
  /\ MetaStep(t, "reget", "returned")
  /\ md' = [md EXCEPT ![t] = t]
  /\ UNCHANGED cached_meta

(* OnceLock::set stores into an empty cell only; its result is ignored.    *)
SetMeta(t) ==
  /\ MetaStep(t, "set", "reget")
  /\ cached_meta' = IF cached_meta = Nobody THEN t ELSE cached_meta
  /\ UNCHANGED md

(* get().expect(..): the cell has been filled, by this thread or another.  *)
ReGet(t) ==
  /\ MetaStep(t, "reget", "returned")
  /\ md' = [md EXCEPT ![t] = cached_meta]
  /\ UNCHANGED cached_meta

MetadataStep(t) ==
  GetHit(t) \/ GetMiss(t) \/ Parse(t) \/ SetMeta(t) \/ ReGet(t)

(* The caller is done with the borrow, or has seen the error.              *)
LeaveMetadata(t) ==
  /\ meta_pc[t] \in {"returned", "failed"}
  /\ meta_pc' = [meta_pc EXCEPT ![t] = "out"]
  /\ md' = [md EXCEPT ![t] = Nobody]
  /\ UNCHANGED <<footer_ok, cached_meta>>

-----------------------------------------------------------------------------

MetaTypeOK ==
  /\ footer_ok \in BOOLEAN
  /\ cached_meta \in Threads \cup {Nobody}
  /\ meta_pc \in [Threads -> {"out", "get", "parse", "set", "reget", "returned", "failed"}]
  /\ md \in [Threads -> Threads \cup {Nobody}]

(* All borrows handed out, by whatever interleaving of the race in         *)
(* cached_metadata, are of one object, the one in the cell; a thread past  *)
(* set() finds the cell filled, so the expect() does not panic; and a      *)
(* footer that does not parse is never cached.                             *)
OneMetadata ==
  /\ \A t \in Threads :
       /\ meta_pc[t] = "returned" => md[t] = cached_meta /\ cached_meta # Nobody
       /\ meta_pc[t] = "reget" => cached_meta # Nobody
       /\ meta_pc[t] = "set" => footer_ok
  /\ cached_meta # Nobody => footer_ok

=============================================================================
