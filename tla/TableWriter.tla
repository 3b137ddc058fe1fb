------------------------------ MODULE TableWriter ------------------------------
(***************************************************************************)
(* write_table_inner_full_v2: one action per page, filter and footer it    *)
(* writes.  `out' is everything handed to the sink so far; what has        *)
(* reached the disk at a crash, or when a write fails, is a prefix of it   *)
(* (BufWriter flushes in order), so a statement about every prefix is one  *)
(* about every crash.                                                      *)
(***************************************************************************)
EXTENDS TableFile

CONSTANTS
  Calls,        \* the calls made
  Unwritable    \* codecs that compress_body refuses

(* A call: the columns, and the options.  In an option that is a list,     *)
(* << >> stands for None; in blooms, TRUE for a rate, FALSE for None.      *)
Types == {"i32", "i64", "u64", "f64", "bool", "byte_array"}

ASSUME CallsAssumption ==
  \A k \in Calls : /\ k.columns \in Seq([type : Types, vals : Seq(Int)])
                   /\ k.rowGroupSize \in Nat

VARIABLES
  call,
  phase,      \* the next thing to write
  rowStart,
  groups,     \* prepared_groups
  prepared,   \* the PreparedColumns of the row group being written
  dictPage,   \* the dictionary page of the column chunk being written
  out,
  written,
  result      \* "none", "ok", an error, or "panic"

writerVars == <<call, phase, rowStart, groups, prepared, dictPage, out, written, result>>

NoPage == [at |-> NoOffset, raw |-> 0, size |-> 0]

columns == call.columns
TotalRows == Len(columns[1].vals)

WriterInit ==
  /\ call \in Calls
  /\ phase = "start" /\ rowStart = 0 /\ groups = << >> /\ prepared = << >>
  /\ dictPage = NoPage /\ out = << >> /\ written = 0 /\ result = "none"

-----------------------------------------------------------------------------
(* The checks that come before the first byte.                             *)

IsDict(c) == call.dicts # << >> /\ call.dicts[c]

InvalidInput ==
  \/ columns = << >>
  \/ call.rowGroupSize = 0
  \/ call.codecs # << >> /\ Len(call.codecs) # Len(columns)
  \/ call.dicts # << >> /\ Len(call.dicts) # Len(columns)

Unsupported ==
  \/ call.version = "v2" /\ \E c \in DOMAIN call.dicts : call.dicts[c]
  \/ \E c \in DOMAIN columns : IsDict(c) /\ columns[c].type = "bool"

Ragged == \E c \in DOMAIN columns : Len(columns[c].vals) # TotalRows

Refusal ==
  IF InvalidInput THEN "InvalidInput"
  ELSE IF Unsupported THEN "Unsupported"
  ELSE IF Ragged THEN "InvalidInput" ELSE "none"

Stop(r) == /\ phase' = "done" /\ result' = r
           /\ UNCHANGED <<call, rowStart, groups, prepared, dictPage, out, written>>

Refuse == phase = "start" /\ Refusal # "none" /\ Stop(Refusal)

(* A planted bug: no row group for an empty table.                         *)
Begin_NoEmptyGroup ==
  /\ phase = "start" /\ Refusal = "none"
  /\ out' = Magic /\ written' = Len(Magic)
  /\ phase' = IF TotalRows = 0 THEN "footer" ELSE "column"
  /\ UNCHANGED <<call, rowStart, groups, prepared, dictPage, result>>

Begin ==
  /\ phase = "start" /\ Refusal = "none"
  /\ out' = Magic /\ written' = Len(Magic) /\ phase' = "column"
  /\ UNCHANGED <<call, rowStart, groups, prepared, dictPage, result>>

-----------------------------------------------------------------------------
(* One column chunk of one row group.                                      *)

Smaller(a, b) == IF a < b THEN a ELSE b

rowEnd == Smaller(rowStart + call.rowGroupSize, TotalRows)
chunkRows == rowEnd - rowStart

col == Len(prepared) + 1
Slice(c) == SubSeq(columns[c].vals, rowStart + 1, rowEnd)
Codec(c) == IF call.codecs = << >> THEN call.defaultCodec ELSE call.codecs[c]

InColumn == phase = "column" /\ Len(prepared) < Len(columns)

(* Distinct values in order of first occurrence (build_dict_with, which    *)
(* DictPage looks at in detail).                                           *)
Firsts(vals) == {k \in DOMAIN vals : \A j \in 1..(k - 1) : vals[j] # vals[k]}

Dictionary(vals) ==
  [e \in 1..Cardinality(Firsts(vals)) |->
     vals[CHOOSE k \in Firsts(vals) : Cardinality(Firsts(vals) \cap (1..k)) = e]]

Indices(vals) ==
  [k \in DOMAIN vals |-> (CHOOSE e \in DOMAIN Dictionary(vals) : Dictionary(vals)[e] = vals[k]) - 1]

DictPageOf(vals) == [kind |-> "dict", vals |-> Dictionary(vals)]
DataPageOf(c, vals) == IF IsDict(c) THEN [kind |-> "coded", vals |-> Indices(vals)]
                       ELSE [kind |-> "plain", vals |-> vals]

(* The filter of a column chunk holds all its values.                      *)
Filter(c, vals) ==
  IF call.blooms # << >> /\ call.blooms[c] THEN Piece("filter", {vals[k] : k \in DOMAIN vals}, 2)
  ELSE << >>

Emit(units) == out' = out \o units /\ written' = written + Len(units)

(* encode_dict returns Some.                                               *)
DictEncodable(c) == columns[c].type \notin {"u64", "bool"}

(* Indexing a list of filters that is too short, and the expect() on what  *)
(* encode_dict returns.                                                    *)
Panics(c) ==
  \/ call.blooms # << >> /\ c > Len(call.blooms)
  \/ IsDict(c) /\ ~DictEncodable(c)

Panic == InColumn /\ Panics(col) /\ Stop("panic")

RefuseCodec ==
  /\ InColumn /\ ~Panics(col)
  /\ Codec(col) \in Unwritable
  /\ Stop("Unsupported")

CanWrite == InColumn /\ ~Panics(col) /\ Codec(col) \notin Unwritable

WriteDictPage ==
  /\ CanWrite /\ IsDict(col)
  /\ LET page == DictPageOf(Slice(col))
     IN  /\ Emit(PageUnits(page, Codec(col), "v1"))
         /\ dictPage' = [at |-> written, raw |-> 1 + BodyLen(page),
                         size |-> 1 + CompressedLen(BodyLen(page), Codec(col))]
  /\ phase' = "data"
  /\ UNCHANGED <<call, rowStart, groups, prepared, result>>

(* The PreparedColumn of a data page and a filter about to be written.     *)
Descriptor(page, units, filter) ==
  [dataAt       |-> written,
   dictAt       |-> dictPage.at,
   uncompressed |-> dictPage.raw + 1 + BodyLen(page),
   compressed   |-> dictPage.size + Len(units),
   filterAt     |-> IF filter = << >> THEN NoOffset ELSE written + Len(units),
   filterLen    |-> Len(filter)]

(* Planted bugs: the filter is counted into the chunk; the chunk's first   *)
(* page is taken for its data page.                                        *)
PreparedColumn_FilterInChunk(page, units, filter) ==
  [Descriptor(page, units, filter) EXCEPT !.compressed = @ + Len(filter)]

PreparedColumn_FirstPage(page, units, filter) ==
  [Descriptor(page, units, filter) EXCEPT !.dataAt = IF dictPage = NoPage THEN @ ELSE dictPage.at]

PreparedColumn(page, units, filter) == Descriptor(page, units, filter)

(* The data page, and the filter behind it.                                *)
WriteDataPage ==
  /\ \/ CanWrite /\ ~IsDict(col)
     \/ phase = "data"
  /\ LET page   == DataPageOf(col, Slice(col))
         units  == PageUnits(page, Codec(col), call.version)
         filter == Filter(col, Slice(col))
     IN  /\ Emit(units \o filter)
         /\ prepared' = Append(prepared, PreparedColumn(page, units, filter))
  /\ phase' = "column" /\ dictPage' = NoPage
  /\ UNCHANGED <<call, rowStart, groups, result>>

(* The bottom of the loop over row groups; an empty table has one, empty.  *)
EndGroup ==
  /\ phase = "column" /\ Len(prepared) = Len(columns)
  /\ groups' = Append(groups, [rows |-> chunkRows, cols |-> prepared])
  /\ prepared' = << >> /\ rowStart' = rowEnd
  /\ phase' = IF rowEnd < TotalRows THEN "column" ELSE "footer"
  /\ UNCHANGED <<call, dictPage, out, written, result>>

(* A planted bug: the codec of the table, not that of the column.          *)
ColumnMeta_TableCodec(c, rows, p) ==
  [dataAt |-> p.dataAt, dictAt |-> p.dictAt, compressed |-> p.compressed, rows |-> rows,
   filterAt |-> p.filterAt, filterLen |-> p.filterLen, codec |-> call.defaultCodec,
   levels |-> FALSE]

ColumnMeta(c, rows, p) ==
  [dataAt |-> p.dataAt, dictAt |-> p.dictAt, compressed |-> p.compressed, rows |-> rows,
   filterAt |-> p.filterAt, filterLen |-> p.filterLen, codec |-> Codec(c), levels |-> FALSE]

TableFooter ==
  [rows |-> TotalRows,
   groups |-> [g \in DOMAIN groups |->
     [rows |-> groups[g].rows,
      cols |-> [c \in DOMAIN columns |-> ColumnMeta(c, groups[g].rows, groups[g].cols[c])]]]]

(* A planted bug: the magic before the length.                             *)
Trailer_Swapped(len) == Magic \o Piece("length", len, 1)

Trailer(len) == Piece("length", len, 1) \o Magic

WriteFooter ==
  /\ phase = "footer"
  /\ LET len == FooterLen(TableFooter)
     IN  out' = out \o Piece("footer", TableFooter, len) \o Trailer(len)
  /\ phase' = "done" /\ result' = "ok"
  /\ UNCHANGED <<call, rowStart, groups, prepared, dictPage, written>>

(* The sink fails.                                                         *)
FailWrite == phase \notin {"start", "done"} /\ Stop("io")

Done == phase = "done" /\ UNCHANGED writerVars

WriterNext ==
  \/ Refuse \/ Begin
  \/ Panic \/ RefuseCodec \/ WriteDictPage \/ WriteDataPage
  \/ EndGroup \/ WriteFooter
  \/ FailWrite \/ Done

WriterSpec == WriterInit /\ [][WriterNext]_writerVars

-----------------------------------------------------------------------------
(* Properties.                                                             *)

(* The writer's counters stay in range, and nothing of one column chunk is *)
(* left over for the next.                                                 *)
TypeOK ==
  /\ phase \in {"start", "column", "data", "footer", "done"}
  /\ rowStart \in Nat /\ written \in Nat
  /\ phase \in {"column", "data", "footer"} =>
       /\ Refusal = "none" /\ rowStart \in 0..TotalRows
       /\ Len(prepared) \in 0..Len(columns)
  /\ phase = "column" => dictPage = NoPage
  /\ phase = "data" => IsDict(col) /\ Len(prepared) < Len(columns)

(* Where a column chunk begins, and where what belongs to it ends.         *)
ChunkEnd(p) == ChunkStart(p) + p.compressed + p.filterLen
EndOf(ps, start) == IF ps = << >> THEN start ELSE ChunkEnd(ps[Len(ps)])
GroupStart(g) == IF g = 1 THEN Len(Magic) ELSE EndOf(groups[g - 1].cols, NoOffset)

BackToBack(ps, start) ==
  \A c \in DOMAIN ps :
    /\ ChunkStart(ps[c]) = IF c = 1 THEN start ELSE ChunkEnd(ps[c - 1])
    /\ ps[c].filterLen > 0 => ps[c].filterAt = ChunkStart(ps[c]) + ps[c].compressed

(* The offsets and sizes recorded for the footer: chunks and filters lie   *)
(* back to back from the magic to the end of what has been written, with   *)
(* no gap and no overlap, whatever mix of dictionaries, filters and codecs *)
(* the columns ask for.                                                    *)
ChunksTile ==
  /\ \A g \in DOMAIN groups : BackToBack(groups[g].cols, GroupStart(g))
  /\ BackToBack(prepared, GroupStart(Len(groups) + 1))
  /\ phase \in {"column", "data", "footer"} =>
       /\ written = Len(out)
       /\ written = EndOf(prepared, GroupStart(Len(groups) + 1)) + dictPage.size

(* The rows of group g, all full but the last.                             *)
RowsOfGroup(g) ==
  [first |-> (g - 1) * call.rowGroupSize,
   rows  |-> Smaller(call.rowGroupSize, TotalRows - (g - 1) * call.rowGroupSize)]

GroupsCut ==
  \A g \in DOMAIN groups : /\ groups[g].rows = RowsOfGroup(g).rows
                           /\ groups[g].rows = 0 => TotalRows = 0

(* Row groups cut the table into runs of rowGroupSize rows, and only an    *)
(* empty table has an empty row group.                                     *)
RowsCut ==
  phase \in {"column", "data", "footer"} \/ result = "ok" =>
    /\ GroupsCut
    /\ rowStart = Smaller(Len(groups) * call.rowGroupSize, TotalRows)
    /\ phase = "footer" \/ result = "ok" => groups # << >> /\ rowStart = TotalRows

Rows(c, g) == SubSeq(columns[c].vals, RowsOfGroup(g).first + 1,
                     RowsOfGroup(g).first + RowsOfGroup(g).rows)

(* The bytes that the recorded offsets delimit are the pages and the       *)
(* filter of that column's rows in that row group.                         *)
Holds(p, c, vals) ==
  /\ Bytes(out, ChunkStart(p), p.compressed) =
       (IF IsDict(c) THEN PageUnits(DictPageOf(vals), Codec(c), "v1") ELSE << >>)
         \o PageUnits(DataPageOf(c, vals), Codec(c), call.version)
  /\ out[p.dataAt + 1] = PageUnits(DataPageOf(c, vals), Codec(c), call.version)[1]
  /\ p.filterAt # NoOffset <=> Filter(c, vals) # << >>
  /\ p.filterAt # NoOffset => Bytes(out, p.filterAt, p.filterLen) = Filter(c, vals)

ChunksHold ==
  /\ \A g \in DOMAIN groups : \A c \in DOMAIN columns : Holds(groups[g].cols[c], c, Rows(c, g))
  /\ \A c \in DOMAIN prepared : Holds(prepared[c], c, Slice(c))

(* A file opens if and only if the call that wrote it returned Ok: no      *)
(* prefix of it that a crash or a failed write leaves behind does.         *)
OpensIffComplete ==
  \A n \in 0..Len(out) : Opens(SubSeq(out, 1, n)) <=> result = "ok" /\ n = Len(out)

(* The pages of a column chunk whose sizes a page header can state.        *)
Statable(page, codec) ==
  BodyLen(page) < PageCap /\ CompressedLen(BodyLen(page), codec) < PageCap

(* read.rs has no reader for columns of booleans.                          *)
HasReader(c) == columns[c].type # "bool"

(* After Ok, the table is what the readers find through the footer, row    *)
(* group by row group, but for what a page header cannot state.  A chunk   *)
(* with a page whose size wraps is lost: reading it is an error.  Of a     *)
(* coded chunk of which only the number of rows wraps, reading it is an    *)
(* error or comes short, with Ok: it never gives other rows.               *)
ReadBack ==
  result = "ok" =>
    \A g \in DOMAIN Footer(out).groups : \A c \in DOMAIN columns :
      HasReader(c) =>
        LET vals  == Rows(c, g)
            pages == {DataPageOf(c, vals)} \cup (IF IsDict(c) THEN {DictPageOf(vals)} ELSE {})
            read  == ReadChunk(out, Footer(out).groups[g].cols[c])
        IN  IF \E page \in pages : ~Statable(page, Codec(c)) THEN read.err
            ELSE IF IsDict(c) /\ Len(vals) >= PageCap
            THEN \/ read.err
                 \/ \E n \in 0..(Len(vals) - 1) : read = [out |-> SubSeq(vals, 1, n), err |-> FALSE]
            ELSE read = [out |-> vals, err |-> FALSE]

(* The round-trip oracle, which reads what it wrote "with our own facade"  *)
(* and asserts equality, of every table: what reads back with Ok is what   *)
(* was written.                                                            *)
RoundTrip ==
  result = "ok" =>
    \A g \in DOMAIN Footer(out).groups : \A c \in DOMAIN columns :
      LET read == ReadChunk(out, Footer(out).groups[g].cols[c])
      IN  HasReader(c) => read.err \/ read.out = Rows(c, g)
=============================================================================
