------------------------------ MODULE AsyncRead ------------------------------
(***************************************************************************)
(* AsyncParquetFile on an object store: the cold open of one or two GETs,  *)
(* column reads of one GET each, and the batched streams, while whoever    *)
(* owns the object replaces it with a PUT between any two of them.  A PUT  *)
(* is atomic and so is one GET; nothing ties two GETs to one version, and  *)
(* a handle may join what two versions say.                                *)
(*                                                                         *)
(* Objects are files as TableFile lays them out, or whatever else a path   *)
(* may name.  A trailer is two units (length and magic), the leading magic *)
(* is one.                                                                 *)
(***************************************************************************)
EXTENDS TableFile

CONSTANTS
  Objects,     \* what a PUT may store, a sequence of contents
  ColdOpen,    \* COLD_OPEN_SUFFIX_BYTES: 8192 in the code, a few units here
  Chunks,      \* the <<row group, column>> asked for
  Batches,     \* the batch sizes asked of a stream
  MaxPuts,     \* bound on the number of PUTs
  Word         \* usize holds Word values: 2^64 in the code

(* Objects are sequences that usize can index; a length is a u32, and a    *)
(* footer lies right before the trailer with its length: nobody writes one *)
(* anywhere else, cuts a file short behind it or appends to it.  Offsets   *)
(* and sizes in a footer are not negative, a page header names a page      *)
(* kind, and a page body holds a page.                                     *)
IsMeta(md) ==
  \A g \in DOMAIN md.groups : \A c \in DOMAIN md.groups[g].cols :
    LET cm == md.groups[g].cols[c]
    IN  cm.dataAt \in Nat /\ cm.dictAt \in Nat \cup {NoOffset} /\ cm.compressed \in Nat
        /\ cm.rows \in Nat /\ cm.levels \in BOOLEAN

IsContent(v) ==
  /\ Len(v) \in 0..(Word - 1) /\ v = [i \in 1..Len(v) |-> v[i]]
  /\ \A i \in 1..Len(v) :
       /\ v[i].piece = "length" => v[i].of \in Nat
       /\ v[i].piece = "header" => /\ v[i].of.kind \in PageKinds /\ v[i].of.compressed \in Int
                                   /\ v[i].of.uncompressed \in Int /\ v[i].of.count \in Int
       /\ v[i].piece = "body" => v[i].of.page \in Page /\ v[i].of.behind \in Page
       /\ v[i].piece = "footer" => /\ i = Len(v) - 2 - v[i].len + v[i].at
                                   /\ v[Len(v) - 1].piece = "length"
                                   /\ IsMeta(v[i].of)

ASSUME ObjectsAssumption == \A k \in DOMAIN Objects : IsContent(Objects[k])
ASSUME WordAssumption == Word \in Nat /\ Word >= 4
ASSUME BatchesAssumption == Batches \subseteq Nat
ASSUME ColdOpenAssumption == ColdOpen \in Nat /\ ColdOpen >= 2

VARIABLES
  object,      \* the object's content
  versions,    \* every content it has had since the open began (history)
  build,       \* "debug" checks integer overflow, "release" wraps
  pc,          \* "closed", "footer" (the second GET is due), "open", "failed", "panicked"
  file,        \* the AsyncParquetFile: its size, where its footer starts and how long
               \* it is, the footer's bytes
  answer,      \* the last chunk read: what was asked, rows, error, and which version
               \* served the GET (history)
  stream       \* the stream over it: batch size, cursor and what it yielded

vars == <<object, versions, build, pc, file, answer, stream>>

NoFile == [size |-> 0, at |-> 0, len |-> 0, bytes |-> << >>]
NoAnswer == [chunk |-> <<0, 0>>, out |-> << >>, err |-> FALSE, from |-> 0]
NoStream == [batch |-> 0, cursor |-> 0, yielded |-> << >>]

Init ==
  /\ \E k \in DOMAIN Objects : object = Objects[k]
  /\ versions = << >> /\ build \in {"debug", "release"}
  /\ pc = "closed" /\ file = NoFile /\ answer = NoAnswer /\ stream = NoStream

-----------------------------------------------------------------------------
(* The store.                                                              *)

Put ==
  /\ pc # "closed" /\ Len(versions) <= MaxPuts
  /\ \E k \in DOMAIN Objects : object' = Objects[k]
  /\ versions' = Append(versions, object')
  /\ UNCHANGED <<build, pc, file, answer, stream>>

Least(a, b) == IF a < b THEN a ELSE b

(* GetRange::Suffix and GetRange::Bounded: what lies beyond the object is  *)
(* cut off, a range that starts there or is empty is refused.              *)
GetSuffix(n) == SubSeq(object, Len(object) - Least(n, Len(object)) + 1, Len(object))
Refused(start, end) == start >= end \/ start >= Len(object)
GetBounded(start, end) == SubSeq(object, start + 1, Least(end, Len(object)))

-----------------------------------------------------------------------------
(* AsyncParquetFile::open.                                                 *)

(* A planted bug: a footer that fills the room is refused.                 *)
Room_Strict(size) == (size - 4) % Word

(* file_size - FOOTER_TRAILER_LEN - 4.                                     *)
Room(size) == (size - 3) % Word

(* A planted bug: the size of the response, not that of the object.        *)
SizeOf_Response(suffix) == Len(suffix)
SizeOf(suffix) == Len(object)

Covers(suffix, len) == Len(suffix) >= len + 2

OpenSuffix ==
  LET suffix == GetSuffix(ColdOpen)
      tail   == suffix[Len(suffix) - 1]
      size   == SizeOf(suffix)
      Outcome(to) == pc' = to /\ file' = NoFile
      Opened(to, len, bytes) ==
        /\ pc' = to
        /\ file' = [size |-> size, at |-> (size - 2 - len) % Word, len |-> len, bytes |-> bytes]
  IN
  /\ pc = "closed" /\ versions' = <<object>>
  /\ \/ Len(suffix) < 2 /\ Outcome("failed")
     \/ Len(suffix) >= 2 /\ suffix[Len(suffix)].piece # "magic" /\ Outcome("failed")
     \/ /\ Len(suffix) >= 2 /\ suffix[Len(suffix)].piece = "magic"
        /\ \E len \in (IF tail.piece = "length" THEN {tail.of} ELSE {0, Word \div 2}) :
             \/ size < 3 /\ build = "debug" /\ Outcome("panicked")
             \/ /\ size >= 3 \/ build = "release"
                /\ \/ len > Room(size) /\ Outcome("failed")
                   \/ /\ len <= Room(size) /\ Covers(suffix, len)
                      /\ Opened("open", len, SubSeq(suffix, Len(suffix) - 1 - len, Len(suffix) - 2))
                   \/ len <= Room(size) /\ ~Covers(suffix, len) /\ Opened("footer", len, << >>)
  /\ UNCHANGED <<object, build, answer, stream>>

(* The second GET of an open, for a footer the suffix did not cover.       *)
OpenFooter ==
  LET start == file.at
      end   == (file.at + file.len) % Word
      bytes == GetBounded(start, end)
  IN
  /\ pc = "footer"
  /\ \/ /\ ~Refused(start, end) /\ Len(bytes) = file.len
        /\ pc' = "open" /\ file' = [file EXCEPT !.bytes = bytes]
     \/ Refused(start, end) /\ pc' = "failed" /\ file' = NoFile
     \/ ~Refused(start, end) /\ Len(bytes) # file.len /\ pc' = "failed" /\ file' = NoFile
  /\ UNCHANGED <<object, versions, build, answer, stream>>

-----------------------------------------------------------------------------
(* Column reads.                                                           *)

(* metadata() decodes the cached bytes again at every call.                *)
Parses == HoldsFooter(file.bytes)
MetaData == file.bytes[1].of

HasChunk(ch) == /\ ch[1] \in DOMAIN MetaData.groups
                /\ ch[2] \in DOMAIN MetaData.groups[ch[1]].cols
ChunkMeta(ch) == MetaData.groups[ch[1]].cols[ch[2]]

(* decode_chunk_into over the bytes of one GET.  It has a data_page_view of *)
(* its own, which never looks for levels in a version 1 page.              *)
Decoded(bytes, cm) == OneShot(Walk(bytes, cm.codec, FALSE), cm.rows)

(* A planted bug: the dictionary page before the data pages is left out.   *)
ReadFrom_DataOnly(cm) ==
  LET end == cm.dataAt + cm.compressed
      r   == Decoded(IF cm.compressed = 0 THEN << >> ELSE GetBounded(cm.dataAt, end), cm)
  IN  IF end > file.size \/ (cm.compressed > 0 /\ Refused(cm.dataAt, end)) THEN Failed
      ELSE [out |-> r.out, err |-> r.err]

(* read_column_*_async as of the present content: read_range checks the    *)
(* range against the size seen at open and never looks at how much came.   *)
ReadFrom(cm) ==
  LET start == ChunkStart(cm)
      end   == start + cm.compressed
      r     == Decoded(IF cm.compressed = 0 THEN << >> ELSE GetBounded(start, end), cm)
  IN  IF end > file.size \/ (cm.compressed > 0 /\ Refused(start, end)) THEN Failed
      ELSE [out |-> r.out, err |-> r.err]

ReadColumn(ch) ==
  LET r == IF Parses /\ HasChunk(ch) THEN ReadFrom(ChunkMeta(ch)) ELSE Failed
  IN  [chunk |-> ch, out |-> r.out, err |-> r.err, from |-> Len(versions)]

Read ==
  /\ pc = "open" /\ stream = NoStream
  /\ \E ch \in Chunks : answer' = ReadColumn(ch)
  /\ UNCHANGED <<object, versions, build, pc, file, stream>>

(* read_column_*_async_stream polled for the first time: the whole chunk   *)
(* is read.                                                                *)
StartStream ==
  /\ pc = "open" /\ stream = NoStream
  /\ \E ch \in Chunks, n \in Batches \ {0} :
       /\ answer' = ReadColumn(ch)
       /\ stream' = [batch |-> n, cursor |-> 0, yielded |-> << >>]
  /\ UNCHANGED <<object, versions, build, pc, file>>

(* A batch size of zero is an error before anything is read.               *)
RefuseStream ==
  /\ pc = "open" /\ stream = NoStream /\ 0 \in Batches
  /\ \E ch \in Chunks : answer' = [NoAnswer EXCEPT !.chunk = ch, !.err = TRUE]
  /\ UNCHANGED <<object, versions, build, pc, file, stream>>

(* A planted bug: one row too many in every batch.                         *)
BatchEnd_Inclusive == Least(stream.cursor + stream.batch + 1, Len(answer.out))
BatchEnd == Least(stream.cursor + stream.batch, Len(answer.out))

(* Each further poll, unless the read failed.                              *)
NextBatch ==
  /\ stream # NoStream /\ ~answer.err /\ stream.cursor < Len(answer.out)
  /\ stream' = [stream EXCEPT !.cursor = BatchEnd,
                  !.yielded = Append(@, SubSeq(answer.out, stream.cursor + 1, BatchEnd))]
  /\ UNCHANGED <<object, versions, build, pc, file, answer>>

(* The stream ends or is dropped before its end.                           *)
DropStream ==
  /\ stream # NoStream /\ stream' = NoStream /\ answer' = NoAnswer
  /\ UNCHANGED <<object, versions, build, pc, file>>

Next ==
  \/ Put
  \/ OpenSuffix \/ OpenFooter
  \/ Read \/ StartStream \/ RefuseStream \/ NextBatch \/ DropStream

Spec == Init /\ [][Next]_vars

-----------------------------------------------------------------------------
(* Version v has the footer the handle decodes, all of it and right where  *)
(* the handle says it starts; so many units came along behind it.          *)
HasFooter(v, extra) ==
  /\ file.at + file.len + 2 = file.size /\ Len(v) = file.size - extra
  /\ IsWhole(SubSeq(file.bytes, 1, file.len - extra), "footer")
  /\ SubSeq(file.bytes, 1, file.len - extra) = Bytes(v, file.at, file.len - extra)

(* A handle decodes the whole footer of one version the object has had     *)
(* since the open began, and has that version's size, or one that is a     *)
(* trailer too large at most: an open of two GETs, with a PUT in between,  *)
(* takes the size from one version and the footer from a later one that    *)
(* begins at the same offset, is shorter and is padded by its own trailer. *)
FooterIsOneVersion ==
  pc = "open" /\ Parses =>
    \/ \E k \in DOMAIN versions : HasFooter(versions[k], 0)
    \/ /\ Len(versions[1]) = file.size /\ file.len + 2 > ColdOpen
       /\ \E k \in 2..Len(versions), extra \in 1..2 : HasFooter(versions[k], extra)

(* An object nobody replaces opens, and its metadata decodes, exactly when *)
(* ParquetFile::open takes the file, leading magic apart (which            *)
(* AsyncParquetFile::open does not look at): whatever the suffix covers,   *)
(* in both builds, and also for the objects on which                       *)
(* `file_size - FOOTER_TRAILER_LEN - 4` underflows.                        *)
Headed(v) == [v EXCEPT ![1] = Magic[1]]

OpensLikeSync ==
  Len(versions) = 1 /\ pc # "footer" =>
    LET v == versions[1]
    IN  pc = "open" /\ Parses <=> Len(v) >= 3 /\ Opens(Headed(v))

(* The version that served a column read has the footer the handle holds.  *)
(* (Two objects may have one footer and differ in size, as when the        *)
(* leading magic is cut off; the range check goes by the size seen at      *)
(* open, and only a chunk that ends between the two sizes tells.)          *)
SameFooter(v) == Len(v) >= 3 /\ Opens(Headed(v)) /\ Footer(v) = MetaData
SameBounds(v, cm) == (ChunkStart(cm) + cm.compressed <= file.size) = InFile(v, ChunkStart(cm), cm.compressed)

Current == answer.from > 0 /\ Parses /\ SameFooter(versions[answer.from])

ReadsAs(v, cm) ==
  SameBounds(v, cm) => LET r == ReadChunk(v, cm) IN answer.err = r.err /\ answer.out = r.out

(* A column whose values no reader has to look for behind levels: it has   *)
(* none, or no data page of its chunk is a version 1 page.                 *)
Bare(v, cm) ==
  cm.levels => \A i \in (ChunkStart(cm) + 1)..(ChunkStart(cm) + cm.compressed) :
                 i <= Len(v) /\ v[i].piece = "header" => ~(v[i].of.v1 /\ IsData(v[i].of))

(* A column read is the synchronous read of the version that served its    *)
(* GET whenever that version has the footer the handle holds, however many *)
(* PUTs came before or after, unless the column has levels in version 1    *)
(* pages.                                                                  *)
ReadIsSync ==
  Current =>
    LET v == versions[answer.from]
        ch == answer.chunk
    IN  /\ ~HasChunk(ch) => answer.err /\ answer.out = << >>
        /\ HasChunk(ch) /\ Bare(v, ChunkMeta(ch)) => ReadsAs(v, ChunkMeta(ch))

(* "Sync chunk decode that mirrors decode_chunk_into exactly", of every    *)
(* column: levels or not, the async and the synchronous reader of one      *)
(* chunk agree.                                                            *)
MirrorsSync ==
  Current /\ HasChunk(answer.chunk) => ReadsAs(versions[answer.from], ChunkMeta(answer.chunk))

Spelled(batches) ==
  LET cut[k \in 0..Len(batches)] == IF k = 0 THEN << >> ELSE cut[k - 1] \o batches[k]
  IN  cut[Len(batches)]

(* The batches of a stream spell, so far, rows of the one version that     *)
(* served its GET, though the object is replaced between two polls; none   *)
(* is empty, all but the last are of the size asked, and a stream whose    *)
(* read failed has none.                                                   *)
BatchesSpellRows ==
  /\ Spelled(stream.yielded) = SubSeq(answer.out, 1, stream.cursor)
  /\ \A k \in DOMAIN stream.yielded :
       /\ ~answer.err /\ Len(stream.yielded[k]) \in 1..stream.batch
       /\ k < Len(stream.yielded) => Len(stream.yielded[k]) = stream.batch
=============================================================================
