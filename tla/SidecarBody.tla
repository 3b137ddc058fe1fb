----------------------------- MODULE SidecarBody -----------------------------
(* What a sidecar index holds and how a lookup reads it: the pure part of the
   index builder (index/builder.rs), of the rowset encoding (index/rowset.rs)
   and of the index reader (index/reader.rs).

   A source file's CONTENT is a sequence of row groups; a row group is a record
   with the data pages of the indexed column a and the values of a second
   column b.  Page boundaries of b never matter: rows of b are addressed
   through the masked reader, whose contract LateMaterialise checks.          *)
EXTENDS ChunkPages, FiniteSets, SequencesExt

CONSTANTS Byte,          \* bits of a bitmap byte (8 in the code)
          Word,          \* bytes of a sparse rowset's u32 (4 in the code)
          SidecarRgRows, \* index rows of one sidecar row group (256 Ki)
          Tokenize,      \* value -> the tokens its text splits into
          Bits           \* value -> the filter bits its hash sets

ASSUME SizesAssumption == Byte \in Nat \ {0} /\ SidecarRgRows \in Nat \ {0}
ASSUME TextAssumption == Tokenize \in [DOMAIN Tokenize -> Seq(Int)]

CeilDiv(n, d) == (n + d - 1) \div d

-----------------------------------------------------------------------------
(* The source file.                                                          *)
ColumnA(g) == FlattenSeq(g.pages)
NumRows(g) == Len(ColumnA(g))

\* The page walk: the row of the row group a data page starts at (from 0).
FirstRow(g, page) ==
    RunningSum([p \in DOMAIN g.pages |-> Len(g.pages[p])])[page - 1]

MinMax(s) == IF s = <<>> THEN <<>>
             ELSE LET S == Range(s) IN <<Min(S), Max(S)>>

\* What the footer says of a content, and so all that the fingerprint sees:
\* row and page counts (through the chunk sizes) and each chunk's statistics.
\* The CRC is taken to be injective on footers.
Footer(c) == [g \in DOMAIN c |->
                [rows |-> NumRows(c[g]), pages |-> Len(c[g].pages),
                 a |-> MinMax(ColumnA(c[g])), b |-> MinMax(c[g].b)]]

-----------------------------------------------------------------------------
(* Rowsets: the rows of one page, counted from 0.                            *)

BitmapOf(rows, n) ==
    [byte \in 0 .. CeilDiv(n, Byte) - 1 |->
        {bit \in 0 .. Byte - 1 : byte * Byte + bit \in rows}]

EncodeTagged(rows, n) ==
    IF 1 + 2 * Word + Word * Cardinality(rows) < 1 + CeilDiv(n, Byte)
    THEN [tag |-> "sparse", n |-> n, rows |-> rows, bytes |-> <<>>]
    ELSE [tag |-> "bitmap", n |-> 0, rows |-> {},   bytes |-> BitmapOf(rows, n)]

ToBitmap(rowset) ==
    IF rowset.tag = "sparse" THEN BitmapOf(rowset.rows, rowset.n)
    ELSE rowset.bytes

-----------------------------------------------------------------------------
(* The index body.  Every kind but the page Bloom is a table of entries
   (key, row group, page, rowset) sorted by that tuple.                      *)

\* The keys a row is filed under; a token repeated within a row counts once.
KeysOf(kind, a, b) ==
    CASE kind = "composite" -> {<<a, b>>}
      [] kind = "inverted"  -> {<<t>> : t \in Range(Tokenize[a])}
      [] OTHER              -> {<<a>>}

\* Bucketing one row group: an entry for each key of each page.
Buckets(kind, g, rg) ==
    UNION {LET first == FirstRow(g, p)
               page  == g.pages[p]
               KeysAt(r) == KeysOf(kind, page[r + 1], g.b[first + r + 1])
               rows  == 0 .. Len(page) - 1
           IN  {[key |-> k, rg |-> rg, page |-> p,
                 rowset |-> EncodeTagged({r \in rows : k \in KeysAt(r)}, Len(page))]
                   : k \in UNION {KeysAt(r) : r \in rows}}
              : p \in DOMAIN g.pages}

\* Planted bug: the dictionary page is counted in the page number.
PageBlooms_CountDict(g, rg) ==
    {[rg |-> rg, page |-> p + 1, bits |-> UNION {Bits[v] : v \in Range(g.pages[p])}]
        : p \in DOMAIN g.pages}

\* One filter per page, the union of the bits of the page's distinct values.
PageBlooms(g, rg) ==
    {[rg |-> rg, page |-> p, bits |-> UNION {Bits[v] : v \in Range(g.pages[p])}]
        : p \in DOMAIN g.pages}

EntriesOf(kind, g, rg) ==
    IF kind = "bloom" THEN PageBlooms(g, rg) ELSE Buckets(kind, g, rg)

Before(s, t) ==
    \E i \in DOMAIN s : s[i] < t[i] /\ \A j \in 1 .. i - 1 : s[j] = t[j]

SortKey(kind, e) ==
    IF kind = "bloom" THEN <<e.rg, e.page>> ELSE e.key \o <<e.rg, e.page>>

SortEntries(kind, E) ==
    LET Rank(e) == Cardinality({x \in E : Before(SortKey(kind, x), SortKey(kind, e))})
    IN  [i \in 1 .. Cardinality(E) |-> CHOOSE e \in E : Rank(e) = i - 1]

\* The writer cuts a sorted INT64 body into row groups; every other kind is
\* one row group.  No rows still make one (empty) row group.
CutBody(kind, s) ==
    LET size   == IF kind = "i64" THEN SidecarRgRows ELSE Max({Len(s), 1})
        groups == Max({CeilDiv(Len(s), size), 1})
    IN  [i \in 1 .. groups |->
            SubSeq(s, (i - 1) * size + 1, Min({i * size, Len(s)}))]

-----------------------------------------------------------------------------
(* Lookups.  A hit is an entry's page with its rowset as a packed bitmap.    *)

Hit(e) == [rg |-> e.rg, page |-> e.page, bitmap |-> ToBitmap(e.rowset)]

\* Binary search for any match, then the walk over its duplicates.
EqHits(s, key) ==
    LET matches == {i \in DOMAIN s : s[i].key = key}
    IN  IF matches = {} THEN {}
        ELSE LET pos == CHOOSE i \in matches : TRUE
                 Run(i) == \A j \in Min({i, pos}) .. Max({i, pos}) : s[j].key = key
             IN  {Hit(s[i]) : i \in {j \in DOMAIN s : Run(j)}}

\* The two partition points of a range on a key's n-th part.
RangeHits(s, n, lo, hi) ==
    LET start == Cardinality({i \in DOMAIN s : s[i].key[n] < lo})
        end   == Cardinality({i \in DOMAIN s : s[i].key[n] <= hi})
    IN  {Hit(s[i]) : i \in start + 1 .. end}

\* A composite key: the run of the leading value, then the trailing one in it.
CompositeHits(s, a, b) ==
    LET start == Cardinality({i \in DOMAIN s : s[i].key[1] < a})
        end   == Cardinality({i \in DOMAIN s : s[i].key[1] <= a})
    IN  RangeHits(SubSeq(s, start + 1, end), 2, b, b)

\* The lazy reader: groups whose footer bounds exclude the key are not read.
LazyHits(groups, key) ==
    UNION {LET keys == {e.key : e \in Range(groups[g])}
           IN  IF \/ \A k \in keys : Before(k, key)
                  \/ \A k \in keys : Before(key, k)
               THEN {} ELSE EqHits(groups[g], key)
              : g \in DOMAIN groups}

\* The chunk-wide row set of one row group, from its hits.
RowsHit(content, hits, rg) ==
    LET g == content[rg]
    IN  {row \in 0 .. NumRows(g) - 1 :
            \E h \in hits : /\ h.rg = rg
                            /\ \E byte \in DOMAIN h.bitmap : \E bit \in h.bitmap[byte] :
                                   row = FirstRow(g, h.page) + byte * Byte + bit}

\* Rows <<rg, row>> of a file: row groups in order, the chosen rows of each in order.
RowSeq(content, chosen) ==
    FlattenSeq([rg \in DOMAIN content |->
        SelectSeq([i \in 1 .. NumRows(content[rg]) |-> <<rg, i - 1>>],
                  LAMBDA r : r[2] \in chosen[rg])])

Materialise(content, hits) ==
    RowSeq(content, [rg \in DOMAIN content |-> RowsHit(content, hits, rg)])

ValueAt(content, row, tgt) ==
    IF tgt = "a" THEN ColumnA(content[row[1]])[row[2] + 1]
    ELSE content[row[1]].b[row[2] + 1]

\* Pages whose filter has every bit of the key.
BloomProbe(s, key) == {<<e.rg, e.page>> : e \in {x \in Range(s) : Bits[key] \subseteq x.bits}}

\* Every row of the candidate pages, then only the TARGET values equal to the key.
BloomEq(content, s, key, tgt) ==
    LET cand == BloomProbe(s, key)
        Masked(rg) == {r \in 0 .. NumRows(content[rg]) - 1 :
                          \E c \in cand : /\ c[1] = rg
                                          /\ r >= FirstRow(content[rg], c[2])
                                          /\ r < FirstRow(content[rg], c[2] + 1)}
    IN  RowSeq(content, [rg \in DOMAIN content |->
            {r \in Masked(rg) : ValueAt(content, <<rg, r>>, tgt) = key}])

-----------------------------------------------------------------------------
(* Queries: [op, x, y, tgt].                                                 *)

Supports(kind) ==
    CASE kind \in {"i64", "i32"} -> {"eq", "range"}
      [] kind = "composite"      -> {"composite_eq", "prefix"}
      [] kind = "inverted"       -> {"token"}
      [] kind = "bloom"          -> {"bloom_eq"}

\* A text query must be one token after the index's own tokenizer.
Accepts(kind, q) ==
    q.op \in Supports(kind) /\ (q.op = "token" => Len(Tokenize[q.x]) = 1)

EagerAnswer(content, groups, q) ==
    LET s == FlattenSeq(groups)
    IN  CASE q.op = "eq"    -> Materialise(content, EqHits(s, <<q.x>>))
          [] q.op = "token" -> Materialise(content, EqHits(s, Tokenize[q.x]))
          [] q.op = "range"  ->
                Materialise(content, IF q.x > q.y THEN {} ELSE RangeHits(s, 1, q.x, q.y))
          [] q.op = "composite_eq" -> Materialise(content, CompositeHits(s, q.x, q.y))
          [] q.op = "prefix"       -> Materialise(content, RangeHits(s, 1, q.x, q.x))
          [] q.op = "bloom_eq"     -> BloomEq(content, s, q.x, q.tgt)

\* The reference: the rows of a full scan that satisfy the query.
Satisfies(q, a, b) ==
    CASE q.op \in {"eq", "prefix", "bloom_eq"} -> a = q.x
      [] q.op = "range"        -> a >= q.x /\ a <= q.y
      [] q.op = "composite_eq" -> a = q.x /\ b = q.y
      [] q.op = "token"        -> Tokenize[q.x][1] \in Range(Tokenize[a])

FullScan(content, q) ==
    RowSeq(content, [rg \in DOMAIN content |->
        {r \in 0 .. NumRows(content[rg]) - 1 :
            Satisfies(q, ColumnA(content[rg])[r + 1], content[rg].b[r + 1])}])
=============================================================================
