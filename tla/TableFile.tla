------------------------------- MODULE TableFile -------------------------------
(***************************************************************************)
(* The layout of a Parquet file: what write.rs puts in it, and what        *)
(* ParquetFile, PageWalker and read_chunk_raw find in it.                  *)
(*                                                                         *)
(* A file is a sequence of units.  A unit is the smallest thing an offset  *)
(* can point at: the magic, the footer's length and a page header are one  *)
(* unit each, the bodies of pages, filters and footers as many as their    *)
(* size.  A unit says which piece it belongs to and where in it it lies,   *)
(* so that a read at a wrong offset is seen for what it is.                *)
(***************************************************************************)
EXTENDS ChunkPages, FiniteSets

CONSTANT PageCap  \* sizes in a page header are signed: 2^31 in the code

ASSUME PageCapAssumption == PageCap \in Nat /\ PageCap >= 3

(* An optional offset that is None.                                        *)
NoOffset == -1

AsI32(n) == ((n + PageCap) % (2 * PageCap)) - PageCap

Piece(kind, of, len) == [k \in 1..len |-> [piece |-> kind, of |-> of, at |-> k, len |-> len]]

Magic == Piece("magic", << >>, 1)

IsWhole(units, kind) ==
  /\ units # << >>
  /\ \A k \in DOMAIN units : /\ units[k].piece = kind /\ units[k].at = k
                             /\ units[k].len = Len(units) /\ units[k].of = units[1].of

(* File::create and the range reads of ParquetFile: len units from the     *)
(* 0-based offset off.                                                     *)
InFile(file, off, len) == off + len <= Len(file)
Bytes(file, off, len) == SubSeq(file, off + 1, off + len)

-----------------------------------------------------------------------------
(* Pages.                                                                  *)

(* Compressed bytes are not those of the value, and never empty.           *)
CompressedLen(n, codec) == IF codec = "plain" THEN n ELSE (n + 3) \div 2

(* encode_rle_bit_packed: a run of equal indices takes the same room       *)
(* however long it is, so that indices outgrow their count before the size *)
(* of their body.                                                          *)
Runs(vals) == {k \in 1..Len(vals) : k = 1 \/ vals[k - 1] # vals[k]}

BodyLen(page) ==
  IF page.kind = "coded" THEN 1 + Cardinality(Runs(page.vals)) ELSE Len(page.vals)

BadPage == [kind |-> "bad", vals |-> << >>]

(* A page as written: header, then body.  `v1' is a version 1 header;      *)
(* `packed' is is_compressed of a version 2 one, which version 1 lacks.    *)
(* In a version 1 body of another writer levels may come before the        *)
(* values: `page' is what a body reads as from its first byte on, `behind' *)
(* what it reads as behind the levels whose lengths it starts with.  This  *)
(* writer's columns are REQUIRED, its bodies start with the values.        *)
PageUnits(page, codec, version) ==
  LET raw    == BodyLen(page)
      size   == CompressedLen(raw, codec)
      header == [kind |-> page.kind, uncompressed |-> AsI32(raw), compressed |-> AsI32(size),
                 count |-> AsI32(Len(page.vals)), v1 |-> version = "v1",
                 packed |-> version = "v1" \/ codec # "plain"]
  IN  Piece("header", header, 1)
      \o Piece("body", [page |-> page, behind |-> BadPage, codec |-> codec], size)

(* decode_rle_dictionary_into stops behind as many indices as the header   *)
(* says, and fails when there are fewer, or when the count is negative.    *)
Counted(h, page) ==
  IF page.kind # "coded" THEN page
  ELSE IF h.count \in 0..Len(page.vals) THEN [page EXCEPT !.vals = SubSeq(@, 1, h.count)]
  ELSE BadPage

(* data_page_view and decompress_into: the codec is the one the footer     *)
(* names, and is not applied to a version 2 page marked as not compressed. *)
(* `strips': the reader looks for levels in front of the values of version *)
(* 1 data pages.  Indices have a width in front of them, even when none    *)
(* follows.                                                                *)
DecodePage(h, body, codec, strips) ==
  LET applied == IF h.packed THEN codec ELSE "plain"
      intact  == IsWhole(body, "body") /\ body[1].of.codec = applied
      levels  == strips /\ h.v1 /\ IsData(h)
  IN  IF h.uncompressed < 0 THEN BadPage
      ELSE IF body = << >>
        THEN IF levels \/ h.kind = "coded" THEN BadPage ELSE [kind |-> h.kind, vals |-> << >>]
      ELSE IF ~intact THEN BadPage
      ELSE Counted(h, IF levels THEN body[1].of.behind ELSE body[1].of.page)

(* PageWalker from a position to the end of the chunk, or to the first     *)
(* page it cannot take.                                                    *)
PageEnd(bytes, pos) == pos + 1 + bytes[pos + 1].of.compressed

Takes(bytes, pos) ==
  /\ bytes[pos + 1].piece = "header" /\ bytes[pos + 1].of.compressed >= 0
  /\ PageEnd(bytes, pos) <= Len(bytes)

PageAt(bytes, pos, codec, strips) ==
  DecodePage(bytes[pos + 1].of, SubSeq(bytes, pos + 2, PageEnd(bytes, pos)), codec, strips)

PagesFrom(bytes, codec, strips) ==
  LET pages[pos \in 0..Len(bytes)] ==
        IF pos = Len(bytes) THEN << >>
        ELSE IF ~Takes(bytes, pos) THEN <<BadPage>>
        ELSE <<PageAt(bytes, pos, codec, strips)>> \o pages[PageEnd(bytes, pos)]
  IN  pages

Walk(bytes, codec, strips) == PagesFrom(bytes, codec, strips)[0]

-----------------------------------------------------------------------------
(* The footer: FileMetaData with a RowGroup per row group and a            *)
(* ColumnMetaData per column chunk.                                        *)

FooterLen(md) == 1 + Len(md.groups)

(* read_file_metadata: the bytes start with a whole footer; it does not    *)
(* look at what comes behind.                                              *)
HoldsFooter(bytes) == \E n \in 1..Len(bytes) : IsWhole(SubSeq(bytes, 1, n), "footer")

(* ParquetFile::open.                                                      *)
FooterSize(file) == file[Len(file) - 1].of

Opens(file) ==
  /\ Len(file) >= 3
  /\ file[1].piece = "magic" /\ file[Len(file)].piece = "magic"
  /\ file[Len(file) - 1].piece = "length" /\ FooterSize(file) <= Len(file) - 3
  /\ HoldsFooter(Bytes(file, Len(file) - 2 - FooterSize(file), FooterSize(file)))

Footer(file) == file[Len(file) - 1 - FooterSize(file)].of

(* read_chunk_raw and decode_chunk_into.  `levels' of a column: the schema *)
(* has it OPTIONAL or nested, its maximum levels are not both 0.           *)
ChunkStart(cm) ==
  IF cm.dictAt # NoOffset /\ cm.dictAt < cm.dataAt THEN cm.dictAt ELSE cm.dataAt

Failed == [out |-> << >>, err |-> TRUE]

ReadChunk(file, cm) ==
  IF ~InFile(file, ChunkStart(cm), cm.compressed) THEN Failed
  ELSE LET r == OneShot(Walk(Bytes(file, ChunkStart(cm), cm.compressed), cm.codec, cm.levels),
                         cm.rows)
       IN  [out |-> r.out, err |-> r.err]
=============================================================================
