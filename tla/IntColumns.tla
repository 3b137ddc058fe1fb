------------------------------ MODULE IntColumns ------------------------------
(***************************************************************************)
(* The readers of integer columns that rely on what a file says of its     *)
(* values: reads that narrow to the width the statistics prove             *)
(* (read_column_i64_downcast), PLAIN decoders given a range by the caller, *)
(* with or without a frame of reference, and reads of a range that skip    *)
(* pages by the column index.  They share one loop over the pages of a     *)
(* chunk.  An INT32 source has the same decoders on its smaller range.  A  *)
(* request of kind "delta" is one to the decoders of DeltaStream, which    *)
(* stand alone.                                                            *)
(***************************************************************************)
EXTENDS ChunkPages, DeltaStream, FiniteSets

CONSTANTS Requests

(* Values, bounds and indices into a dictionary fit in an i64.             *)
ASSUME RequestsAssumption ==
  \A r \in Requests :
    /\ r.kind \in {"downcast", "auto", "frame", "range", "delta"}
    /\ r.pages \in Seq([kind : {"dict", "index", "plain", "coded", "bad"}, vals : Seq(Holds(I64))])
    /\ r.stats \in [min_value : Seq(Holds(I64)), max_value : Seq(Holds(I64)),
                    min : Seq(Holds(I64)), max : Seq(Holds(I64))]
    /\ r.unsigned \in BOOLEAN /\ r.min \in Holds(I64) /\ r.max \in Holds(I64)
    /\ r.index \in [null_pages : Seq(BOOLEAN), min_values : Seq(Seq(Holds(I64))),
                    max_values : Seq(Seq(Holds(I64)))]
    /\ r.indexed \in BOOLEAN /\ r.lo \in Holds(I64) /\ r.hi \in Holds(I64)

VARIABLES
  request,   \* pages and total of the chunk, and what its kind asks with
  build,     \* "debug" asserts that narrowing loses nothing, "release" wraps
  pc,        \* "call", "pages", "done", "failed", "panicked", "delta"
  frame,     \* what values are narrowed to: offset and target
  mask,      \* pages to keep, if the column has an index
  pos,       \* pages walked
  data_page_ix,
  dict,      \* the dictionary, narrowed
  out,       \* the values, narrowed
  taken      \* the rows they come from: page and place in it (history)

readVars == <<request, build, pc, frame, mask, pos, data_page_ix, dict, out, taken>>
vars == <<readVars, deltaVars>>

Pages == request.pages
NoFrame == [offset |-> 0, target |-> I64]
NoMask == [on |-> FALSE, keep |-> << >>]

Init ==
  /\ frame = NoFrame /\ mask = NoMask
  /\ pos = 0 /\ data_page_ix = 0 /\ dict = << >> /\ out = << >> /\ taken = << >>
  /\ request \in Requests
  /\ IF request.kind = "delta" THEN build = "release" /\ pc = "delta" /\ DeltaInit
     ELSE build \in {"debug", "release"} /\ pc = "call" /\ DeltaAtRest

-----------------------------------------------------------------------------
(* The calls.                                                              *)

Start(f, m) ==
  /\ pc' = "pages" /\ frame' = f /\ mask' = m
  /\ UNCHANGED <<request, build, pos, data_page_ix, dict, out, taken>>

Stop(how) ==
  /\ pc' = how
  /\ UNCHANGED <<request, build, frame, mask, pos, data_page_ix, dict, out, taken>>

read_column_i64_downcast ==
  /\ pc = "call" /\ request.kind = "downcast"
  /\ Start([offset |-> 0, target |-> column_narrow_target(request.stats)], NoMask)

decode_plain_auto ==
  /\ pc = "call" /\ request.kind = "auto"
  /\ Start([offset |-> 0, target |-> narrowest_int_target(request.min, request.max)], NoMask)

decode_plain_frame_auto ==
  /\ pc = "call" /\ request.kind = "frame"
  /\ Start(frame_of_reference_target(request.min, request.max), NoMask)

(* A column without an index is read whole.                                *)
read_column_with_range ==
  /\ pc = "call" /\ request.kind = "range"
  /\ IF ~request.indexed THEN Start(NoFrame, NoMask)
     ELSE IF request.lo > request.hi \/ Malformed(request.index) THEN Stop("failed")
     ELSE Start(NoFrame, [on |-> TRUE,
                 keep |-> select_pages_overlapping(request.index, request.lo, request.hi)])

-----------------------------------------------------------------------------
(* decode_chunk_into and decode_chunk_masked_into.  A page to be skipped   *)
(* is not looked into: a "bad" page is one whose header does not parse.    *)

AtPage == pc = "pages" /\ pos < Len(Pages)
page == Pages[pos + 1]

Narrow(vals) == [i \in DOMAIN vals |-> As(vals[i] - frame.offset, frame.target)]
Loses(vals) ==
  build = "debug" /\ \E i \in DOMAIN vals : vals[i] - frame.offset \notin Holds(frame.target)

(* Without a mask the walk ends once the chunk's total is out.             *)
NextPage(length) ==
  /\ pc' = IF ~mask.on /\ length >= request.total THEN "done" ELSE "pages"
  /\ pos' = pos + 1
  /\ UNCHANGED <<request, build, frame, mask>>

DictionaryPage ==
  /\ AtPage /\ page.kind = "dict"
  /\ IF Loses(page.vals) THEN Stop("panicked")
     ELSE /\ dict' = Narrow(page.vals) /\ NextPage(Len(out))
          /\ UNCHANGED <<data_page_ix, out, taken>>

IndexPage ==
  /\ AtPage /\ page.kind = "index" /\ NextPage(Len(out))
  /\ UNCHANGED <<data_page_ix, dict, out, taken>>

(* Pages beyond the index are kept.                                        *)
Keep ==
  mask.on /\ data_page_ix + 1 \in DOMAIN mask.keep => mask.keep[data_page_ix + 1]

(* A planted bug: the ordinal counts the pages read, not those seen.       *)
SkipPage_SameOrdinal ==
  /\ AtPage /\ IsData(page) /\ ~Keep
  /\ pos' = pos + 1
  /\ UNCHANGED <<request, build, pc, frame, mask, data_page_ix, dict, out, taken>>

SkipPage ==
  /\ AtPage /\ IsData(page) /\ ~Keep
  /\ pos' = pos + 1 /\ data_page_ix' = data_page_ix + 1
  /\ UNCHANGED <<request, build, pc, frame, mask, dict, out, taken>>

DataPage ==
  /\ AtPage /\ IsData(page) /\ Keep /\ Decodable(page, dict)
  /\ IF page.kind = "plain" /\ Loses(page.vals) THEN Stop("panicked")
     ELSE /\ data_page_ix' = data_page_ix + 1
          /\ out' = out \o (IF page.kind = "plain" THEN Narrow(page.vals) ELSE PageRows(page, dict))
          /\ taken' = taken \o [i \in DOMAIN page.vals |-> <<pos + 1, i>>]
          /\ NextPage(Len(out) + Len(page.vals)) /\ UNCHANGED dict

PageFails ==
  /\ AtPage
  /\ page.kind = "bad" \/ (IsData(page) /\ Keep /\ ~Decodable(page, dict))
  /\ Stop("failed")

LastPage == pc = "pages" /\ pos = Len(Pages) /\ Stop("done")

ReadNext ==
  \/ read_column_i64_downcast \/ decode_plain_auto
  \/ decode_plain_frame_auto \/ read_column_with_range
  \/ DictionaryPage \/ IndexPage \/ SkipPage \/ DataPage \/ PageFails \/ LastPage

Next ==
  \/ ReadNext /\ UNCHANGED deltaVars
  \/ pc = "delta" /\ DeltaNext /\ UNCHANGED readVars

Spec == Init /\ [][Next]_vars

-----------------------------------------------------------------------------
(* The rows of the chunk as a full-width reader resolves them.             *)
DictAt(k) ==
  IF \E j \in 1..(k - 1) : Pages[j].kind = "dict"
  THEN Pages[CHOOSE j \in 1..(k - 1) :
               /\ Pages[j].kind = "dict"
               /\ \A i \in (j + 1)..(k - 1) : Pages[i].kind # "dict"].vals
  ELSE << >>

Readable(k) == IsData(Pages[k]) /\ Decodable(Pages[k], DictAt(k))
Row(k, i) == PageRows(Pages[k], DictAt(k))[i]
RowsIn(ks) == UNION {{k} \X (DOMAIN Pages[k].vals) : k \in {j \in ks : Readable(j)}}
AllRows == RowsIn(DOMAIN Pages)

(* What the file says of the values holds: statistics in the order of the  *)
(* column's type (the deprecated pair in signed order), min and max        *)
(* together or neither; the caller's range; the index, in signed order,    *)
(* with nulls only where it says so.                                       *)
Between(min, v, max, unsigned) ==
  /\ Ranked(min, unsigned) <= Ranked(v, unsigned) /\ Ranked(v, unsigned) <= Ranked(max, unsigned)

StatsHold(s, unsigned) ==
  /\ s.min_value = << >> <=> s.max_value = << >>
  /\ Len(s.min_value) = 1 /\ Len(s.max_value) = 1 =>
       \A r \in AllRows : Between(s.min_value[1], Row(r[1], r[2]), s.max_value[1], unsigned)
  /\ s.min_value = << >> /\ Len(s.min) = 1 /\ Len(s.max) = 1 =>
       \A r \in AllRows : Between(s.min[1], Row(r[1], r[2]), s.max[1], FALSE)

Ordinal(k) == Cardinality({j \in 1..k : IsData(Pages[j])})

IndexHolds(index) ==
  \A r \in AllRows :
    LET n == Ordinal(r[1])
    IN  n \in DOMAIN index.null_pages =>
          ~index.null_pages[n] /\ Between(index.min_values[n][1], Row(r[1], r[2]),
                                          index.max_values[n][1], FALSE)

Honest ==
  /\ request.kind = "downcast" => StatsHold(request.stats, request.unsigned)
  /\ request.kind \in {"auto", "frame"} =>
       /\ request.min <= request.max
       /\ \A r \in AllRows : Between(request.min, Row(r[1], r[2]), request.max, FALSE)
  /\ request.kind = "range" /\ request.indexed =>
       Malformed(request.index) \/ IndexHolds(request.index)

(* Narrowing loses nothing: re-widened, each value is the row it was read  *)
(* from, whichever target was picked, whether its bounds are those of this *)
(* library's writer, wider, deprecated, absent, in another form, or in the *)
(* order of an unsigned column; and what an assertion stops in a debug     *)
(* build is only a dictionary entry that no row refers to.                 *)
Unused(k, i) ==
  \A p \in (k + 1)..Len(Pages) :
    DictAt(p) = Pages[k].vals /\ Readable(p) /\ Pages[p].kind = "coded" =>
      \A j \in DOMAIN Pages[p].vals : Pages[p].vals[j] + 1 # i

NarrowedIsLossless ==
  Honest =>
    /\ \A j \in DOMAIN out : out[j] + frame.offset = Row(taken[j][1], taken[j][2])
    /\ pc = "panicked" =>
         /\ build = "debug" /\ page.kind = "dict"
         /\ \A i \in DOMAIN page.vals : 
              page.vals[i] - frame.offset \notin Holds(frame.target) => Unused(pos + 1, i)

(* No row is lost or repeated: the rows taken are in file order, and they  *)
(* are all of the rows a range read asks for, though the index numbers     *)
(* data pages only, may be shorter than the chunk, or missing; and all of  *)
(* the rows of the pages walked if nothing is to be skipped.               *)
Asked(r) == request.kind = "range" => Row(r[1], r[2]) \in request.lo..request.hi

Before(r, s) == r[1] < s[1] \/ (r[1] = s[1] /\ r[2] < s[2])

EveryRowTaken ==
  Honest =>
    /\ \A i, j \in DOMAIN taken : i < j => Before(taken[i], taken[j])
    /\ pc = "done" =>
         \A r \in RowsIn(1..pos) : Asked(r) => \E j \in DOMAIN taken : taken[j] = r
=============================================================================
