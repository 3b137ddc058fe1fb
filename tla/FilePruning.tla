----------------------------- MODULE FilePruning -----------------------------
(***************************************************************************)
(* The dataset layer over Iceberg: a data file carries, in its             *)
(* key_metadata, an extension with the path of its sidecar and a summary   *)
(* (name, min, max) per index; a planner collects the data files of the    *)
(* current snapshot, prunes them by a key or a range, and pairs what is    *)
(* left with their sidecars.                                               *)
(*                                                                         *)
(* A Vec of data files is the set of their positions in the manifests,     *)
(* whose order it keeps.  Key values of one type are integers: all the     *)
(* code asks of them is their order.  A text is a sequence of characters,  *)
(* told apart as far as the JSON reader and writer do.                     *)
(***************************************************************************)
EXTENDS Integers, Sequences

CONSTANTS
  Files,        \* the data files manifests may list
  Indexes,      \* the names of the indexes
  TypeOf,       \* the type of an index's column: "i64", "i32", "bytes"
  Keys,         \* the keys a query may ask for
  MaxManifests, \* bounds on the snapshot's manifests and on the entries of each
  MaxEntries

NoKey == [type |-> "none", v |-> 0]

-----------------------------------------------------------------------------
(* What to_json and from_json do to a text: the writer escapes quotes,     *)
(* line ends and the like ("quote") by two characters and other control    *)
(* characters ("control") by \u, which the reader refuses; the reader      *)
(* copies the text up to the first escape and takes every byte behind it   *)
(* for a character, which makes two of a non-ASCII one ("wide").           *)
Refused(text) == \E i \in DOMAIN text : text[i] = "control"

Stored(text) ==
  [i \in DOMAIN text |->
     IF text[i] = "wide" /\ \E j \in 1..(i - 1) : text[j] = "quote" THEN "mojibake" ELSE text[i]]

(* decode_key_metadata: nothing, somebody else's bytes, or the magic and   *)
(* an extension.                                                           *)
HasExtension(df) == df.keyMetadata = "EMTX"

Malformed(df) ==
  /\ HasExtension(df)
  /\ \/ Refused(df.sidecar.name)
     \/ \E i \in DOMAIN df.summaries : Refused(df.summaries[i].name)

(* EmatixDataFileExtension::summary: the first of that name.               *)
Named(df, index) == {i \in DOMAIN df.summaries : Stored(df.summaries[i].name) = index}
HasSummary(df, index) == HasExtension(df) /\ Named(df, index) # {}
Summary(df, index) ==
  df.summaries[CHOOSE i \in Named(df, index) : \A j \in Named(df, index) : i <= j]

-----------------------------------------------------------------------------
(* The two predicates of a summary, "error" on a key of another type.      *)

Lt(a, b) == a.type = b.type /\ a.v < b.v
Mismatch(bound, key) == bound # NoKey /\ key # NoKey /\ bound.type # key.type
Below(key, min) == min # NoKey /\ key # NoKey /\ Lt(key, min)
Above(key, max) == max # NoKey /\ key # NoKey /\ Lt(max, key)

(* A planted bug: a key equal to the minimum is out.                       *)
could_contain_eq_Strict(s, key) ==
  IF Mismatch(s.min, key) THEN "error"
  ELSE IF ~(s.min = NoKey \/ Lt(s.min, key)) THEN "no"
  ELSE IF Mismatch(s.max, key) THEN "error"
  ELSE IF Above(key, s.max) THEN "no" ELSE "yes"

could_contain_eq(s, key) ==
  IF Mismatch(s.min, key) THEN "error"
  ELSE IF Below(key, s.min) THEN "no"
  ELSE IF Mismatch(s.max, key) THEN "error"
  ELSE IF Above(key, s.max) THEN "no" ELSE "yes"

could_contain_range(s, low, high) ==
  IF Mismatch(s.min, high) THEN "error"
  ELSE IF Below(high, s.min) THEN "no"
  ELSE IF Mismatch(s.max, low) THEN "error"
  ELSE IF Above(low, s.max) THEN "no" ELSE "yes"

(* resolve_sidecar_uri.                                                    *)
NoDirectory == "none"
Resolve(path, sidecar) ==
  [dir  |-> IF sidecar.dir # NoDirectory THEN sidecar.dir ELSE path, name |-> Stored(sidecar.name)]

-----------------------------------------------------------------------------
VARIABLES
  manifests,   \* of the current snapshot: sequences of entries [alive, content, file]
  pc,          \* "write", "walk", "collected", "pruned", "paired", "failed"
  walked,      \* manifests loaded
  files,       \* positions collected
  query,       \* index, and the key (eq) or low and high (range)
  kept,        \* positions that survived the prune
  pairs        \* positions paired, with the URI of their sidecar

vars == <<manifests, pc, walked, files, query, kept, pairs>>

NoQuery == [kind |-> "none", index |-> << >>, low |-> NoKey, high |-> NoKey]

Init ==
  /\ manifests = << >> /\ pc = "write" /\ walked = 0
  /\ files = {} /\ query = NoQuery /\ kept = {} /\ pairs = << >>

(* The snapshot, as a writer leaves it: what Iceberg does, for all this    *)
(* crate knows.                                                            *)
AddManifest ==
  /\ pc = "write" /\ Len(manifests) < MaxManifests
  /\ manifests' = Append(manifests, << >>)
  /\ UNCHANGED <<pc, walked, files, query, kept, pairs>>

AddEntry ==
  /\ pc = "write" /\ manifests # << >> /\ Len(manifests[Len(manifests)]) < MaxEntries
  /\ \E f \in Files, alive \in BOOLEAN, content \in {"data", "deletes"} :
       manifests' = [manifests EXCEPT ![Len(manifests)] =
                       Append(@, [alive |-> alive, content |-> content, file |-> f])]
  /\ UNCHANGED <<pc, walked, files, query, kept, pairs>>

Positions == UNION {{m} \X (DOMAIN manifests[m]) : m \in DOMAIN manifests}
Entry(p) == manifests[p[1]][p[2]]
DataFile(p) == Entry(p).file
Listed(p) == Entry(p).alive /\ Entry(p).content = "data"

(* collect_data_files, one manifest per await.                             *)
StartWalk ==
  /\ pc = "write" /\ pc' = "walk"
  /\ UNCHANGED <<manifests, walked, files, query, kept, pairs>>

OfManifest(m) == {p \in {m} \X (DOMAIN manifests[m]) : Listed(p)}

LoadManifest ==
  /\ pc = "walk" /\ walked < Len(manifests)
  /\ walked' = walked + 1 /\ files' = files \cup OfManifest(walked + 1)
  /\ UNCHANGED <<manifests, pc, query, kept, pairs>>

LoadFails ==
  /\ pc = "walk" /\ walked < Len(manifests)
  /\ pc' = "failed" /\ files' = {}
  /\ UNCHANGED <<manifests, walked, query, kept, pairs>>

EndWalk ==
  /\ pc = "walk" /\ walked = Len(manifests) /\ pc' = "collected"
  /\ UNCHANGED <<manifests, walked, files, query, kept, pairs>>

-----------------------------------------------------------------------------
(* prune_data_files_eq and prune_data_files_range: files without a summary *)
(* are kept, and one error ends the call.                                  *)
Verdict(p, q) ==
  LET s == Summary(DataFile(p), q.index)
  IN  IF q.kind = "eq" THEN could_contain_eq(s, q.low) ELSE could_contain_range(s, q.low, q.high)

Prunes(p, q) ==
  IF Malformed(DataFile(p)) THEN "error"
  ELSE IF HasSummary(DataFile(p), q.index) THEN Verdict(p, q) ELSE "yes"

Prune(q) ==
  /\ pc = "collected" /\ query' = q
  /\ \/ /\ \A p \in files : Prunes(p, q) # "error"
        /\ pc' = "pruned" /\ kept' = {p \in files : Prunes(p, q) = "yes"}
     \/ /\ \E p \in files : Prunes(p, q) = "error"
        /\ pc' = "failed" /\ kept' = {}
  /\ UNCHANGED <<manifests, walked, files, pairs>>

PruneEq ==
  \E index \in Indexes, key \in Keys :
    Prune([kind |-> "eq", index |-> index, low |-> key, high |-> key])

PruneRange ==
  \E index \in Indexes, low, high \in Keys \cup {NoKey} :
    Prune([kind |-> "range", index |-> index, low |-> low, high |-> high])

(* Files without an extension are dropped.  (What prune let through has    *)
(* no malformed extension.)                                                *)
pair_with_extensions ==
  /\ pc = "pruned" /\ pc' = "paired"
  /\ pairs' = [p \in {p \in kept : HasExtension(DataFile(p))} |->
                 Resolve(DataFile(p).path, DataFile(p).sidecar)]
  /\ UNCHANGED <<manifests, walked, files, query, kept>>

Done == pc \in {"paired", "failed"} /\ UNCHANGED vars

Next ==
  \/ AddManifest \/ AddEntry
  \/ StartWalk \/ LoadManifest \/ LoadFails \/ EndWalk
  \/ PruneEq \/ PruneRange \/ pair_with_extensions
  \/ Done

Spec == Init /\ [][Next]_vars

-----------------------------------------------------------------------------
(* The producer's part, assumed: a summary bounds the rows of the column   *)
(* it is named for, and names of indexes are not mistaken for one another  *)
(* once they went through the text.                                        *)
Bounds(s, rows) ==
  /\ s.name \in Indexes
  /\ s.min # NoKey => s.min.type = TypeOf[s.name] /\ \A r \in rows[s.name] : s.min.v <= r
  /\ s.max # NoKey => s.max.type = TypeOf[s.name] /\ \A r \in rows[s.name] : r <= s.max.v

ASSUME FilesAssumption ==
  \A f \in Files :
    /\ \A x \in Indexes : \A r \in f.rows[x] : r \in Int
    /\ DOMAIN f.summaries \subseteq Nat
    /\ \A i \in DOMAIN f.summaries :
         /\ Bounds(f.summaries[i], f.rows)
         /\ f.summaries[i].min.v \in Int /\ f.summaries[i].max.v \in Int
ASSUME NamesAssumption == \A x, y \in Indexes : Stored(x) = y => x = y
ASSUME KeysAssumption == \A k \in Keys : k # NoKey /\ k.v \in Int

(* A row the query asks for.                                               *)
Answers(q, r) ==
  IF q.kind = "eq" THEN q.low.type = TypeOf[q.index] /\ q.low.v = r
  ELSE /\ q.low # NoKey => q.low.type = TypeOf[q.index] /\ q.low.v <= r
       /\ q.high # NoKey => q.high.type = TypeOf[q.index] /\ r <= q.high.v

Matches(df) == \E r \in df.rows[query.index] : Answers(query, r)

(* No false negative, end to end: a data file that is in the snapshot and  *)
(* holds a row the query asks for survives the prune; and, provided it has *)
(* an extension at all, it is paired, whether or not that extension says   *)
(* anything of the index, with a sidecar beside it unless the path is      *)
(* absolute.  Extensions may be missing, foreign, hold no summary or half  *)
(* of one, or have lost a name in the text.                                *)
Planned(p) ==
  HasExtension(DataFile(p)) =>
    /\ p \in DOMAIN pairs
    /\ pairs[p].dir \in {DataFile(p).path, DataFile(p).sidecar.dir}

NoMatchingFilePruned ==
  pc \in {"pruned", "paired"} =>
    \A p \in Positions :
      Listed(p) /\ Matches(DataFile(p)) => p \in kept /\ (pc = "paired" => Planned(p))
=============================================================================
