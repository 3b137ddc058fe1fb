----------------------------- MODULE SidecarIndex -----------------------------
(* A sidecar index beside a source file: a builder that reads the source row
   group by row group and writes the sidecar, a reader that opens both and
   looks rows up, and a writer that replaces the source.  Files are rewritten
   the way this crate's writers do it, File::create: in place, truncating.

   A file handle caches the footer it read when it was opened; a range read
   through it sees the file's present bytes.  A handle is therefore the version
   of the source whose footer it holds, and a read through it is reliable only
   while the present file has that very footer.                              *)
EXTENDS SidecarBody

CONSTANTS Contents,    \* contents the source may have
          Kinds,       \* index kinds that are built
          Queries,     \* [op, x, y, tgt]
          MaxRewrites, \* bound on rewrites of the source
          MaxBuilds    \* bound on builds started

ASSUME KindsAssumption == Kinds \subseteq {"i64", "i32", "composite", "inverted", "bloom"}
ASSUME QueriesAssumption ==
    \A q \in Queries : /\ q.x \in Int /\ q.y \in Int
                       /\ q.op = "token" => q.x \in DOMAIN Tokenize

\* The columns of a row group have the same number of rows.
ASSUME ContentsAssumption ==
    \A c \in Contents :
        /\ c \in Seq([pages : Seq(Seq(Int)), b : Seq(Int)])
        /\ \A rg \in DOMAIN c : /\ Len(c[rg].b) = NumRows(c[rg])
                               /\ Range(ColumnA(c[rg])) \subseteq DOMAIN Tokenize

VARIABLES
    hist,    \* the source's contents so far; the last one is on disk
    builds,  \* builds started
    bld,     \* the builder
    side,    \* the sidecar file
    src,     \* the reader's source handle: a version, 0 for none
    idx,     \* the reader's index
    ans      \* what the reader's last call returned

indexVars == <<hist, builds, bld, side, src, idx, ans>>

Disk == hist[Len(hist)]
Reliable(h) == Footer(hist[h]) = Footer(Disk)

NoBuild == [pc |-> "idle", kind |-> "none", src |-> 0, next |-> 0, entries |-> {}]
NoSide  == [state |-> "absent", kind |-> "none", src |-> 0, groups |-> <<>>]
NoIndex == [mode |-> "none", kind |-> "none", groups |-> <<>>, swapped |-> FALSE]
NoAns   == [out |-> "none", q |-> <<>>, rows |-> <<>>]

Return(out, q, rows) == ans' = [out |-> out, q |-> q, rows |-> rows]

-----------------------------------------------------------------------------
IndexInit ==
    /\ \E c \in Contents : hist = <<c>>
    /\ builds = 0
    /\ bld = NoBuild /\ side = NoSide
    /\ src = 0 /\ idx = NoIndex /\ ans = NoAns

\* Another job replaces the source.
Rewrite(c) ==
    /\ Len(hist) <= MaxRewrites
    /\ hist' = Append(hist, c)
    /\ ans' = NoAns
    /\ UNCHANGED <<builds, bld, side, src, idx>>

(* The builder.                                                              *)

\* The builder's source handle is opened here, so this is the footer whose
\* fingerprint the manifest gets, whatever is read later.
BuildStart(kind) ==
    /\ bld.pc = "idle" /\ builds < MaxBuilds
    /\ builds' = builds + 1
    /\ bld' = [pc |-> "scan", kind |-> kind, src |-> Len(hist), next |-> 1, entries |-> {}]
    /\ ans' = NoAns
    /\ UNCHANGED <<hist, side, src, idx>>

\* Decode and bucket one row group.  Through a handle whose file was rewritten
\* with another footer the pages either do not parse or belong to another file.
BuildGroup ==
    /\ bld.pc = "scan" /\ bld.next <= Len(hist[bld.src])
    /\ \/ /\ bld.next <= Len(Disk)
          /\ bld' = [bld EXCEPT !.next = @ + 1,
                !.entries = @ \cup EntriesOf(bld.kind, Disk[bld.next], bld.next)]
       \/ /\ ~Reliable(bld.src)
          /\ bld' = NoBuild
    /\ ans' = NoAns
    /\ UNCHANGED <<hist, builds, side, src, idx>>

\* Planted bug: the source is opened again for its fingerprint after the scan.
BuildCreate_FreshFooter ==
    /\ bld.pc = "scan" /\ bld.next > Len(hist[bld.src])
    /\ bld' = [bld EXCEPT !.pc = "write"]
    /\ side' = [state |-> "torn", kind |-> bld.kind, src |-> Len(hist),
                groups |-> CutBody(bld.kind, SortEntries(bld.kind, bld.entries))]
    /\ ans' = NoAns
    /\ UNCHANGED <<hist, builds, src, idx>>

\* File::create: from here until its last byte is out the sidecar is torn, the
\* bytes of the old one gone and a growing part of the new one there.
BuildCreate ==
    /\ bld.pc = "scan" /\ bld.next > Len(hist[bld.src])
    /\ bld' = [bld EXCEPT !.pc = "write"]
    /\ side' = [state |-> "torn", kind |-> bld.kind, src |-> bld.src,
                groups |-> CutBody(bld.kind, SortEntries(bld.kind, bld.entries))]
    /\ ans' = NoAns
    /\ UNCHANGED <<hist, builds, src, idx>>

\* The trailing magic makes the file one that opens.
BuildFinish ==
    /\ bld.pc = "write"
    /\ side' = [side EXCEPT !.state = "complete"]
    /\ bld' = NoBuild
    /\ ans' = NoAns
    /\ UNCHANGED <<hist, builds, src, idx>>

BuildCrash ==
    /\ bld.pc # "idle"
    /\ bld' = NoBuild
    /\ ans' = NoAns
    /\ UNCHANGED <<hist, builds, side, src, idx>>

(* The reader.                                                               *)

\* A fresh source handle; an index belongs to the handle it was opened with.
OpenSource ==
    /\ src # Len(hist)
    /\ src' = Len(hist)
    /\ idx' = NoIndex /\ ans' = NoAns
    /\ UNCHANGED <<hist, builds, bld, side>>

\* Planted bug: the sidecar is bound to the file's identity, not to its footer.
Verified_SameFile == side.state = "complete" /\ side.src = src

\* The footer, the manifest in it and the fingerprint check: the whole of the
\* lazy open, and the first half of the eager one.
Verified == side.state = "complete" /\ Footer(hist[side.src]) = Footer(hist[src])

OpenIndex(mode) ==
    /\ src # 0 /\ idx = NoIndex
    /\ IF Verified
       THEN /\ idx' = [mode |-> mode, kind |-> side.kind, groups |-> side.groups,
                       swapped |-> FALSE]
            /\ ans' = NoAns
       ELSE Return("refused", <<>>, <<>>) /\ UNCHANGED idx
    /\ UNCHANGED <<hist, builds, bld, side, src>>

\* Body reads go to the present sidecar at the cached footer's offsets.  A build
\* is deterministic, so after a rebuild from the same source they find the same
\* bytes.  Otherwise they fail, unless the new body has the old one's shape.
NotRead == <<>>

SameBody == side.kind = idx.kind /\ side.groups = idx.groups
SameShape ==
    /\ side.kind = idx.kind
    /\ [i \in DOMAIN side.groups |-> Len(side.groups[i])]
         = [i \in DOMAIN idx.groups |-> Len(idx.groups[i])]

BodyRead ==
    IF SameBody /\ side.state = "complete" THEN {side.groups}
    ELSE IF SameShape THEN {NotRead, side.groups}
    ELSE {NotRead}

\* The second half of the eager open: every group decoded into memory.
LoadIndex ==
    /\ idx.mode = "loading"
    /\ \E groups \in BodyRead :
          IF groups = NotRead
          THEN idx' = NoIndex /\ Return("failed", <<>>, <<>>)
          ELSE /\ idx' = [idx EXCEPT !.mode = "eager", !.groups = groups,
                                     !.swapped = ~SameBody]
               /\ ans' = NoAns
    /\ UNCHANGED <<hist, builds, bld, side, src>>

\* The source is read through src: with a stale footer, anything may come back.
ReturnRows(q, rows) ==
    Return(IF Reliable(src) THEN "rows" ELSE "unreliable", q,
           IF Reliable(src) THEN rows ELSE <<>>)

EagerLookup(q) ==
    /\ idx.mode = "eager"
    /\ IF Accepts(idx.kind, q)
       THEN ReturnRows(q, EagerAnswer(Disk, idx.groups, q))
       ELSE Return("error", q, <<>>)
    /\ UNCHANGED <<hist, builds, bld, side, src, idx>>

\* Lazily only a sorted INT64 index answers, and only equality.
LazyLookup(q) ==
    /\ idx.mode = "lazy" /\ q.op = "eq"
    /\ \E groups \in BodyRead :
          IF idx.kind # "i64" \/ groups = NotRead
          THEN Return("error", q, <<>>) /\ UNCHANGED idx
          ELSE /\ ReturnRows(q, Materialise(Disk, LazyHits(groups, <<q.x>>)))
               /\ idx' = [idx EXCEPT !.swapped = ~SameBody]
    /\ UNCHANGED <<hist, builds, bld, side, src>>

CloseIndex ==
    /\ idx # NoIndex
    /\ idx' = NoIndex /\ ans' = NoAns
    /\ UNCHANGED <<hist, builds, bld, side, src>>

IndexNext ==
    \/ \E c \in Contents : Rewrite(c)
    \/ \E kind \in Kinds : BuildStart(kind)
    \/ BuildGroup
    \/ BuildCreate
    \/ BuildFinish
    \/ BuildCrash
    \/ OpenSource
    \/ \E mode \in {"loading", "lazy"} : OpenIndex(mode)
    \/ LoadIndex
    \/ \E q \in Queries : EagerLookup(q) \/ LazyLookup(q)
    \/ CloseIndex

IndexSpec == IndexInit /\ [][IndexNext]_indexVars

-----------------------------------------------------------------------------
(* Properties.                                                               *)

\* No two versions of the source share a footer, the assumption the
\* fingerprint rests on.
FootersDiffer ==
    \A i, j \in DOMAIN hist : i # j => Footer(hist[i]) # Footer(hist[j])

\* The page Bloom's convenience reader is only right on its own column.
OwnColumn(q) == q.op = "bloom_eq" => q.tgt = "a"

\* Rows an index returns are those of a full scan of the present file, in file
\* order: whatever was rewritten, rebuilt, crashed or torn before, however the
\* body is cut, on the eager and on the lazy path, for every kind.  It takes
\* that rewrites change the footer and that the sidecar's bytes are not
\* replaced between the open and the body read.
AnswerIsFullScan ==
    ans.out = "rows" /\ FootersDiffer /\ ~idx.swapped /\ OwnColumn(ans.q)
        => ans.rows = FullScan(Disk, ans.q)

\* A sidecar that a build of the present source completed is never refused,
\* and every lookup it supports is answered.
CurrentIsServed ==
    /\ ans.out \in {"refused", "error"}
    /\ side.state = "complete" /\ hist[side.src] = Disk
    /\ src # 0 /\ hist[src] = Disk
    => /\ ans.out = "error"
       /\ \/ ~Accepts(idx.kind, ans.q)
          \/ idx.mode = "lazy" /\ (idx.kind # "i64" \/ ~SameBody)

\* A loaded page Bloom never rules out a page that holds the key.
NoFalseNegative ==
    idx.mode = "eager" /\ idx.kind = "bloom" /\ FootersDiffer /\ ~idx.swapped /\ Reliable(src)
        => \A q \in Queries : \A rg \in DOMAIN Disk : \A p \in DOMAIN Disk[rg].pages :
              q.op = "bloom_eq" /\ q.x \in Range(Disk[rg].pages[p])
                => <<rg, p>> \in BloomProbe(FlattenSeq(idx.groups), q.x)

\* "The output is the same as what a sorted equality index would have
\* returned", whichever column is materialised.
BloomIsSortedAnswer ==
    ans.out = "rows" /\ ans.q.op = "bloom_eq" /\ FootersDiffer /\ ~idx.swapped
        => ans.rows = FullScan(Disk, ans.q)
=============================================================================
