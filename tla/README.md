# A TLA+ specification of ematix-parquet

ematix-parquet is a Parquet library in seven layers (six Rust crates and the
sidecar index inside the codec crate).  Most of it is sequential code on
buffers.  What is hard is where state is carried from one call to the next
(streaming iterators, adaptive readers, masks over pages), where threads share
something (parallel decode, the metadata cache), where two things must agree
although nothing locks them (a source file and its sidecar index, two GETs of
one object, a data file and the summary in its manifest), and where one rule has
to hold for hundreds of hand-written kernels.

Paths below are relative to `src/crates/`; `codec` is `ematix-parquet-codec/src`.

## Inventory

| Component | State | Operations | Talks to | What is hard | What makes it correct |
|---|---|---|---|---|---|
| Thrift and footer formats (`ematix-parquet-format`) | none (a cursor) | decode and encode the footer, page headers, page indexes, bloom headers | everything | unknown fields, widths of varints | decode after encode is the identity; unknown fields are skipped whole |
| `ParquetFile`, `PageWalker` (`ematix-parquet-io`) | size, footer bytes, `OnceLock` of parsed metadata; walk position | open, `read_range`, `cached_metadata`, `next_page` | all readers | racing first parse; the file replaced under an open handle | one metadata object per handle, never replaced |
| One-shot readers (`codec/read.rs`) | local: dictionary, output | read a chunk, masked or not | walker, value codecs | early stop at the footer's row count, pages skipped by mask | output is the chunk's rows, or those of the mask |
| Streaming iterators (`codec/read.rs`) | carry, cursor, dictionary, position, flags | `next` | walker | batch sizes against page sizes | every row once, in order, bounded decode-ahead, an end |
| Parallel decode (`codec/parallel`) | cancel token; rayon's shared "full" flag and saved error | `read_columns_parallel`, `cancel` | readers, metadata cache | cancel and failure racing with claims | Ok is complete and in order, an error is one that happened |
| NUMA helpers (`codec/parallel/numa.rs`) | topology | detect, pin, allocate | rayon | operating system | - |
| Adaptive dictionary reader (`codec/adaptive.rs`, `dict.rs`) | probe counters, bitmap or values | predicate read | one-shot readers | switch of path in mid-chunk; byte-aligned page bitmaps | the passing rows, whatever the path |
| Lazy columns (`codec/column.rs`) | segments over a shared dictionary | filter, count, gather | dict | - | same as collecting first |
| Sidecar builder (`codec/index/builder.rs`) | buckets of the running build | `write_*` | readers, writer | source rewritten meanwhile, crash in mid-write | a sidecar speaks of the file its fingerprint names |
| Sidecar readers (`codec/index/reader.rs`) | manifest, loaded entries or row-group bounds | open (eager or lazy), lookups, materialise | masked readers | staleness, duplicates across row groups | every answer is that of a full scan |
| Sidecar manifest (`codec/index/manifest.rs`) | - | JSON and hex | builder, readers | three versions | round trip |
| Table writer (`codec/write.rs`) | output buffer, offsets | `write_table*` | codecs, format | offsets, counts, dictionary and bloom side by side; partial file on error | readers get back what was written |
| Value codecs (`plain`, `rle`, `dict`, `delta`, `levels`, `byte_stream_split`, `bitpack`) | none | encode, decode | readers, writer | run boundaries, widths, wrapping | decode after encode is the identity |
| SIMD kernels (`bitpack_neon`, `bitpack_avx2`) | none | unpack, gather, compare per width | dict | one kernel per width; loads wider than what they consume; unchecked gathers | same function as `bitpack.rs`, no access outside |
| Integer narrowing (`codec/downcast.rs`) | none | choose a width or a frame, narrow | plain, one-shot readers | sign and width boundaries, whose statistics they are | the values are kept |
| Bloom filters (`codec/bloom.rs`) | block words | insert, contains, size | writer, sidecar | - | no false negative |
| Page index (`codec/page_index.rs`) | none | select pages of a range | format, one-shot readers | null pages, an ordinal that counts data pages only | no page with a match is dropped |
| Compression (`codec/compression.rs`) | none | (de)compress with a cap | readers, writer | external libraries | - |
| Modular encryption (`codec/encrypted.rs`, `ematix-parquet-crypto`) | nonce source | seal, open, AAD | writer | nonces, module positions | a module opens only in its own place |
| Async facade (`ematix-parquet-async`) | cached footer | open, chunk read, stream | object store | object replaced between GETs | rows of one version |
| Iceberg (`ematix-iceberg`) | manifest entries | attach, extract, prune, pair | sidecar | stale or missing summaries | no file with a match is pruned |

## Modules

| Module | Models | Composed of |
|---|---|---|
| `ChunkStream` | abstract: what a batched reader promises | |
| `ChunkPages` | pages of a chunk, one page's decode, the one-shot reader | |
| `ColumnBatchIter` | the two streaming iterators; implements `ChunkStream` | `ChunkPages`, `ChunkStream` |
| `CachedMetadata` | the `OnceLock` metadata cache, per thread | |
| `ParallelDecode` | `read_columns_parallel` on a pool, with cancel and failures | `CachedMetadata` |
| `AdaptiveChunk` | the adaptive dictionary reader | `ChunkPages` |
| `RowMaskedRead` | the masked reader with page skip | `ChunkPages` |
| `LateMaterialise` | one column's bitmap used as another's mask | `AdaptiveChunk`, `RowMaskedRead` |
| `SidecarBody` | index entries, rowsets, lookups (pure) | `ChunkPages` |
| `SidecarIndex` | source, sidecar, builder, handles, readers | `SidecarBody` |
| `HybridRle` | bytes of the RLE / bit-packed hybrid and of varints (pure) | |
| `DictPage` | a dictionary-coded page: dictionary build, hybrid encoder, three readers | `HybridRle` |
| `TableFile` | the layout of a file and what its readers find in it (pure) | `ChunkPages` |
| `TableWriter` | the multi-column writer, write by write | `TableFile` |
| `KernelShape` | the vocabulary of a SIMD kernel: loads, lanes, stride (pure) | |
| `NeonKernels`, `Avx2Kernels` | every kernel of the two SIMD builds, as a table by width (pure) | `KernelShape` |
| `BitUnpack` | the entry points over the kernels: checks, blocks, tails, lookups, predicates | `NeonKernels`, `Avx2Kernels` |
| `AsyncRead` | `AsyncParquetFile`: cold open, column reads, streams, under PUTs | `TableFile` |
| `FilePruning` | data files of an Iceberg snapshot: walk, prune, pair | |
| `IntWidths` | integers by width, `as`, targets, frames, page selection (pure) | |
| `DeltaStream` | the decoders of DELTA_BINARY_PACKED and of the two byte-array encodings on it | `IntWidths` |
| `IntColumns` | readers that rely on bounds: narrowing reads and range reads | `ChunkPages`, `DeltaStream` |
| `ChunkPages_proofs` | lemmas on the recursive functions of `ChunkPages`: values, prefixes, running sums, selected rows | `ChunkPages` |
| `ChunkReaders_proofs` | theorems of the four chunk readers | `ColumnBatchIter`, `LateMaterialise`, `ChunkPages_proofs` |
| `TableFile_proofs` | theorems of the writer and of the async reader, over one layout | `TableWriter`, `AsyncRead`, `ChunkPages_proofs` |
| `Sidecar_proofs` | theorems of the index of a file and of the dataset layer above it | `SidecarIndex`, `FilePruning`, `ChunkPages_proofs` |
| `IntColumns_proofs` | theorems of the bounded readers and of the delta decoders | `IntColumns`, `ChunkPages_proofs` |
| other `*_proofs` | theorems of the module they are named after | |
| `MC*` | instances for TLC | |
| `MCChunkReaders`, `MCTableStore`, `MCDataset` | two instances each in one run, `part` says which a behaviour is of | two `MC*` modules each |

Definitions named `X_Something` beside a definition `X` are planted bugs: the
same definition as a plausible mistake would have it, used to see that a
property notices.  They take no part in the specifications.

### How the models correspond to the code

*ColumnBatchIter.*  The variables are the fields of the struct (`carry`,
`carry_pos`, `dict`, `walker_pos`, `emitted_to_carry`, `finished`).  `CallNext`
is the caller's `next()`; each `Fill*` action is one iteration of the loop of
`fill_one_page`; `EmitBatch` is the tail of `drain_one_batch`, compaction
included.  `owned` picks the byte-array iterator, which moves values out of
`carry` and leaves holes.  `decoded`, `delivered` and `errored` are history.

*ParallelDecode.*  A worker claims a slot of the target list, reads the cancel
flag, asks for the metadata, runs `decode_one` and puts the result in place; on
an error it saves the first one and raises rayon's full flag, after which no slot
is claimed.  Rayon is external and taken by that contract.  The metadata
steps are those of `cached_metadata`: look, parse outside any lock, set, get.

*AdaptiveChunk, RowMaskedRead.*  One action per page of each loop.  The SIMD
kernels stand as what they compute.  Bitmaps are sequences of booleans in whole
bytes, each page's behind the padding of the previous one; `Byte` is 8 in the code and 2
in the instance.  That bit r is row r of the chunk (`BitmapIsRowwise`, what the code's
documentation says) is true when no page but the last leaves a byte unfilled
(`PagesFillBytes`) and not otherwise.  `LateMaterialise` runs one
after the other as a query engine would.

*SidecarIndex.*  `hist` is every content the source file has had, in order;
handles keep the footer they cached.  A build is `BuildStart` (open and type
check), a `BuildGroup` per row group, then `BuildCreate` (fingerprint and
truncating create), `BuildFinish` (flush); `BuildCrash` can take the place of any
later step and leaves the torn file.  Rebuilds overwrite in place.  A reader opens
the source, verifies the sidecar, loads eagerly or keeps it lazy, and looks up.

*HybridRle, DictPage.*  The machine is the three loops a column goes through:
`Build*` is one value of `build_dict_with`, `EncodeRun` one turn of the outer loop of
`encode_rle_bit_packed` (find the run, then borrow and emit, or accumulate),
`DecodeRun` one run in a reader.  Readers are the fused one, the dict-preserved one
that checks indices last, and the `u8` one that refuses wide indices.  `out` is the
real bytes, in bytes of `Octet` bits (8 in the code); `runs` is history: what each
run stands for.

*TableFile, TableWriter.*  A file is a sequence of units, the smallest things an
offset points at; each unit names the piece it belongs to (magic, header, body,
filter, footer, length) and its place in it, so a read at a wrong offset is seen.
`Walk` and `ReadChunk` follow `PageWalker` and `read_chunk_raw` on such a file and
hand the pages to `OneShot` of `ChunkPages`.  The writer's actions are the stretches
of `write_table_inner_full_v2` between two writes: the checks (`Refuse`, `Begin`), a
dictionary page, a data page with the filter behind it, the end of a row group, the
footer; `Panic` is an index or an `expect` inside the loop, `FailWrite` a failing
sink.  `out` is all that has been handed to the sink; what a crash leaves on disk is a
prefix of it, so `OpensIffComplete` speaks of every prefix.  `PageCap` is the 2^31 at
which the `as i32` of a page header wraps, for the two sizes and for the number of values
alike.  A plain page outgrows its size before its count; the body of a coded page goes by
its runs of equal indices (`Runs`), so its count can wrap in a page whose sizes are right,
and a reader stops behind as many indices as the header says (`Counted`).  Columns of
booleans have no reader in `read.rs` (`HasReader`), so `ReadBack` says nothing of their
values.  A footer is decoded from the front and what lies behind its end is not looked at
(`HoldsFooter`).  The writer's columns are REQUIRED; a body of another writer may start
with levels, and what it reads as then depends on whether the reader looks for them:
`page` from the first byte on, `behind` after the levels, `strips` which of the two.

*KernelShape, NeonKernels, Avx2Kernels, BitUnpack.*  Data is symbolic: a value is named
by the first bit it is made of, and a register lane by its lowest source bit and how
many bits follow.  A kernel of the tables is what its loop does to one block: the byte
ranges it loads, the lanes it stores in order after its shuffles, shifts and masks, and
how far it advances.  `Safe` is `safe_full_blocks` and its relatives: all blocks, all but
one, or as many as fit, with the constant each kernel passes.  `BitUnpack` dispatches as
the entry points do (by build, width and dictionary size), runs block after block, then
the scalar tail; the portable build runs chunks of 32.  A lane with too few source bits
is `Garbage` and an element read behind the dictionary is `Wild`, so neither can pass for
a value.

*AsyncRead.*  `Put` replaces the object between any two steps; a PUT is atomic and so is
one GET.  `OpenSuffix` is the first GET and all `open` does with its answer, `OpenFooter`
the second GET if the footer was not covered.  A handle is immutable, so calls on it do
not interfere with each other, and one call at a time is enough; `versions` and
`answer.from` are history.  Column reads decode what came, by `Walk` and `OneShot` of
`TableFile` and `ChunkPages`, as the page decoder of this crate does: it never looks for
levels, where the synchronous one does for columns that have them (`levels`, in
`ReadChunk`).  A handle's metadata decodes when its bytes start with a footer (`Parses`),
so a handle can hold the size of one version and the shorter footer of the next; `at` and
`len` say where its bytes were taken from.  `build` is there because `file_size - 8 - 4` panics in a
debug build and wraps in a release build; `Word` is the range of `usize`.

*FilePruning.*  A vector of data files is the set of their positions.  `AddManifest` and
`AddEntry` write any snapshot, the walk (`LoadManifest`, which may fail) collects its live
data files, `PruneEq` and `PruneRange` keep what a summary cannot exclude,
`pair_with_extensions` resolves sidecars.  A text is a sequence of characters
of five kinds, because the JSON reader does not give all of them back.  What the producer
of a summary promises is an assumption: it bounds the column of its index.

*IntWidths, IntColumns, DeltaStream.*  `As` is Rust's `as` between integer types;
`build` tells a debug build, whose narrowing loops assert, from a release build, whose
loops wrap.  The four calls of `IntColumns` differ in the frame and the mask they start
with and then share the loop over pages of `decode_chunk_into` and
`decode_chunk_masked_into`.  `frame` is the offset and target; `taken` is history: the
place every value came from.  A delta payload is a sequence of units (a varint, a width
byte, a body byte that knows its mini-block, a data byte), written by an external writer
of any legal shape, or of an illegal one, and cut short or not; one action per step of
the decoder (header, block, mini-block, values, data).  The writer is what the format
describes (`Block`, `Bodies`, `Gaps`, `Width`; `Behind` lays pieces end to end), and an
illegal shape is one the decoder can tell (`Refused`): what it makes of a header that
divides evenly but not into bytes, and of bytes no writer writes behind it, says nothing.

## Runs

| Run | Bounds | What it shows |
|---|---|---|
| `chunk_readers` | streams: all chunks of 1-3 pages over 8 page templates (two dictionaries, index, bad, PLAIN of 3 and 2, coded of 3 and 1), footer total right or off by one, and four equal pages; batch 0, 1, 2, 4.  Adaptive and masked: dictionary chunks of up to 3 coded pages of 0-3 rows, four predicates, thresholds 0, 1/2, 1, probe budgets 0-2, 2-row bytes; seven gathered chunks, all masks of 2 and 4 bits | both iterators hand out the one-shot reader's rows, once, in order, in full batches, and end; decode-ahead stays under a page and a batch; either adaptive path answers the passing rows; the bitmap marks the rows, and selects the same rows of another column, when pages fill whole bytes |
| `bitmap_rows` (violation) | the adaptive and masked half of `chunk_readers` | behind a page that does not fill its last byte, a row has another bit than its own |
| `parallel_decode` | 2 workers, lists of up to 3 targets over 2 columns, any set of failing columns, footer good or not, cancel at any time | one metadata object; no slot lost; Ok is complete, errors are real; late targets are not decoded; the call returns |
| `dataset_index` | index: four contents, five kinds of index, one rewrite, two builds, one reader.  Planner: up to 2 manifests of one entry over 8 data files (no, foreign and four forms of extension), two indexes of which one has a name the text does not keep, every key and range | answers are the full scan's; current sidecars are served; no Bloom false negative; no live file with a matching row is pruned or, if it has an extension, left unpaired |
| `sidecar_bloom` (violation) | Bloom kind, no rewrite | the Bloom reader filters the wrong column |
| `dict_page` | `Octet` 3, `Threshold` 3, `u8` width 1; all columns of up to 7 values over 4 keys, all three-run columns with runs of 1-13, columns of 9 keys | read after write is the identity on the bytes, for every reader; runs neither overlap nor leave a gap |
| `table_store` | writer: `PageCap` 4; tables of one column (up to 5 values, or 4, 8 and 9 in two runs) and of two (up to 3), row groups of 0-9 rows, both page versions, three codecs (one of them unwritable), every mix of dictionaries and filters, option lists too short.  Reader: 20 objects, files of 0 to 3 row groups (footers shorter and longer than the suffix of 5 units), two pairs of one footer, files whose footers begin where that of the longest does and are one and two units shorter, OPTIONAL columns in both page versions, a coded page without a dictionary, no leading magic, and objects that are no files down to the empty one; 2 PUTs; three chunks; batches of 0 and 2; both builds | recorded offsets delimit exactly the pages and filters; rows are cut without loss; no partial file opens; a complete one reads back, but for what a page header cannot state; a footer that decodes is one version's; an undisturbed open accepts what the synchronous one does; reads are the synchronous reads of the version that served them, levels in version 1 pages apart; batches spell one read |
| `lost_rows` (violation) | the tables of `table_store` | a coded chunk whose count wraps reads back short, with Ok |
| `async_levels` (violation) | the objects of `table_store` | levels of an OPTIONAL column's version 1 page are handed out as values |
| `bit_unpack` | every width of all three builds and the 64-bit reader; 0 to 65 values around blocks of 8 and 32; slices from one byte short to 26 too long; dictionaries of 0, 2^w - 1 and 2^w entries with an index out of range in the first row, a block, a tail or nowhere | no load of a block leaves the slice; no gather leaves the dictionary; all builds give the reference's answer, or a refusal that is deserved |
| `kernel_loads` (violation) | NEON widths 5 and 21, 8 to 17 values, slices with at most 2 bytes to spare | the kept blocks load behind the slice |
| `int_columns` | integers of 1, 3, 5, 7 and 9 bits for 8 to 128; two- and three-row columns over all pairs of 17 boundary values, 6 forms of statistics, signed and unsigned, debug and release; ranges over up to 3 data pages and 4 or 5 forms of index; delta payloads of up to 6 values in 5 legal and 4 illegal shapes, cut by 0, 1 or 3 units | a narrowed value, widened, is its row; no row asked for is skipped; decoders give the integers written or fail where the payload is not valid |

Components that share no state are checked in one run where they belong together; `part`,
chosen at the start, says whose steps a behaviour takes, so nothing is multiplied.  In
`chunk_readers` the caller of the other readers has first asked for a stream of empty
batches and been refused, so that the fairness of `next()` holds in both.  The only state
in which `table_store` may stay for ever without an action of its modules is an open that
failed (`NoHandle`); a finished call stutters by `Done`.

Why the bounds are enough.  Iterators: the state that matters between calls is
the relation of batch size, page size and cursor; batches of 1, 2 and 4 against
pages of 1, 2 and 3 give exact, short and straddling batches in every order of
three pages, and the fourth page shows drift.  Parallel decode: every race is
between two workers, or a worker and cancel; three targets let one be claimed
while another runs and a third waits.  Adaptive: three pages let a probe budget
end before, at and after the last page; two-row bytes make pages of 1 and 3 rows
unaligned.  Sidecar: two row groups, duplicates across pages, row groups and the cut of the
body; a second build and one rewrite give every order of build, rewrite
and open.  Dictionary page: a group of 3 makes every remainder of the accumulator and every
borrow happen in columns of 7, runs of up to 13 need a two-byte header, and 9 keys make
an index two bytes wide; nothing in the code depends on 8 but by these three roles.
Table file: offsets are sums over columns and row groups, so two columns and three row
groups put every kind of piece before, between and behind every other; row groups of 1,
2, 3 and 9 rows cut 5 rows evenly, with a remainder, and not at all; pages of up to 5
values pass the cap of 4 plain, and stay below it compressed; coded columns of 4, 8 and 9
rows with two runs keep small sizes and have counts that wrap to less than 0, to 0, and to
a number less than the rows.  Kernels: a kernel treats
all its blocks alike, so what can differ is which block is the last one kept; three
blocks with every slack up to a load's width show all, all but one, and none kept, and
the widths are all there are.  Async: an open makes two GETs, so two PUTs put a third
version between any of them; the suffix covers, just misses and far misses the footers,
and a trailer is two units, so footers shorter by one and by two are all the mixtures that
decode.
Pruning: files are judged one by one, so one file per manifest and two manifests are
enough for the walk and the pairing.  Integers: every comparison of the code is with a
bound of a width or between a bound and a value, and the 17 values are on both sides of
each; three pages let the index end before the chunk, and be off by one behind it.

### Findings

`PROJECT.json` lists five disagreements between the code and its own documentation, each
with a run:

* `sidecar_bloom`: the Bloom reader filters the column it materialises, not the one it
  indexed (`codec/index/reader.rs:762` against its comment at 680-682).
* `kernel_loads`: the guard of two NEON kernels keeps blocks whose loads go past the slice
  (`codec/bitpack_neon.rs:3069`, `2975`).
* `bitmap_rows`: `codec/adaptive.rs:250-253` says that bit i of byte k is row 8k+i across
  the whole chunk; bits are aligned to bytes per page, so this fails behind a page whose
  row count is not a multiple of 8.
* `lost_rows`: `codec/write.rs:678` (and 652, 720, 742) narrows row counts with `as i32`;
  a dictionary-coded chunk of 2^32 + k rows in a small page states k and is read back as k
  rows, with Ok, against the round-trip oracle of `write.rs:19-20`.  (The run finds the
  shape with its scaled cap; a count that wraps to a negative number is an error.)
* `async_levels`: `ematix-parquet-async/src/read.rs:415-421` does not skip the levels of a
  version 1 page, as `codec/read.rs:1902-1911` does, though 339-340 and 397-398 say that it
  mirrors it exactly.

Other disagreements met while modelling; the models do what the code does:

* `codec/read.rs`: `carry` is compacted only when the cursor reaches its end, so
  delivered rows stay in it beyond the bound of the comment at `read.rs:2265-2269`.
* `codec/adaptive.rs`: some fully dictionary-encoded chunks (a later page wider than the
  mask) are refused.
* `codec/index/fingerprint.rs`: a rewrite of the source that keeps the footer's bytes is
  not noticed.
* `codec/write.rs`: a dictionary on a UINT_64 column passes the checks and panics at an
  `expect` in the loop.
* `ematix-parquet-async`: `file.rs:5-7` says the open mirrors the synchronous one, which
  also checks the leading magic.  An object replaced between the two GETs of an open by one
  whose footer starts at the same offset and is up to a trailer shorter gives a handle
  with the old size and the new footer.
* `codec/rle.rs:124-128` says a run of 8 or more always wins as RLE; at a bit width of 1
  it costs two bytes against one.
* `codec/bitpack.rs`: on a short slice the portable path panics where the SIMD paths
  return an error.
* `ematix-iceberg/src/extension.rs`, `codec/index/manifest.rs`: the JSON writer escapes
  control characters as `\u`, which the reader refuses, and the reader takes the bytes
  of a non-ASCII character behind an escape for characters of their own.
* `codec/page_index.rs:56`: bounds compare as signed, also for a UINT_64 column.
* `codec/downcast.rs`: a dictionary entry that no row refers to may lie outside the
  statistics; a debug build then stops at an assertion, a release build narrows the
  entry to a value nobody reads.

### Fairness

`ColumnBatchIter!FairSpec` has weak fairness on the whole next-state relation: it
is the liveness of one thread in a loop, with a caller that keeps calling.
`ParallelDecode!FairSpec` has weak fairness on each pool thread's step (the
operating system schedules a thread that can run; `decode_one` ends) and on the
caller's return; none on `Cancel`.  The other specifications state no fairness,
and no liveness is claimed of them.

## Proofs

TLAPS proves, for every value of the constants allowed by the named assumptions:

* `ChunkPages_proofs` has no theorem of a run; it is what the file and chunk readers
  rest on.  `After`, `OneShot`, running sums and the rows a set of positions selects are
  recursive functions; that each has a value of the right type, agrees with its
  one-step equation, and depends only on the pages before, is proved by least
  counterexample (`LeastNat`, `Climb`, `Recursion`), which needs no induction theorem.
* `ChunkReaders_proofs`, the streaming iterators: `TypeCorrect`; `NoRowLostOrRepeated`
  (`[]CarryHoldsTheRest`, inductive with `TypeOK`: what the caller has is a prefix of
  what was decoded, the rest is slot for slot in `carry` behind the cursor, even when
  `mem::take` left holes before it); `BoundedDecodeAhead`; `StreamImplements`: they
  refine `ChunkStream`, whose rows are those of the one-shot reader.  The mapping needs
  the invariant `Abreast` (after every page, what was decoded, the dictionary and the
  error are those of the one-shot reader at that page) and the hypothesis
  `EmptyIsEmpty`, that a footer total of zero is not false, which TLC evaluates on the
  instance (`EmptyChunks`).  Chunks and batch sizes may be any set, finite or not.
* `ChunkReaders_proofs`, masks: `MaskIsFilter` (`[]MaskedIsFilter`) for any chunk and
  mask.  The invariant `MaskedInv` relates each page of the walk to the one-shot reader
  of the chunk with unselected pages blanked: the cursor counts the rows before the
  page, skipped ones included, and `out` is what the mask leaves of the rows so far.
  `AdaptiveIsFilter` (`[]AnswerIsFilter`) and `RowwiseBitmap` (`[]FilledBitmapIsRowwise`)
  for any predicate, threshold and probe budget: by `FilterInv`, the pages pulled spell the
  rows of the one-shot reader, the fused path's bitmap holds one bit per row and whole
  bytes per page, and `values` are the passing rows of the pages behind the cursor,
  also of those decoded again when the path is switched.  `GatherSelectsSame`
  (`[]SelectsSameRows`) joins the two: when every page but the last fills its bytes, the
  bit of a row is at the row's own position, and page boundaries of the other column do
  not matter.  Assumptions: a chunk has at most one dictionary page
  (`OneDictionaryAssumption`), the footer of a masked chunk counts every row of its pages
  (`RowsCountedAssumption`), `OptionsAssumption`, `ByteAssumption`, `RowByteAssumption`.
* `ParallelDecode_proofs`: `TypeCorrect`; `AllShareOneMetadata`; `MetadataStable` (the
  action property `MetadataIsStable`); `SlotsAccounted`, with the inductive invariant
  `Accounted` (each slot is untouched, in one worker's hands, decoded in place, or the
  reason of the error; joined with "late is never decoded", on which the count of calls
  rests); `LateNeverDecoded`; `OkComplete` from it; `ErrorReal`: an error returned was
  raised by a target that could not be decoded, or by a cancel that happened.  Any number of
  threads, columns and targets.
* `TableFile_proofs`, the writer, for any set of calls: `WriterTypes`; `LayoutCorrect`
  (`[]ChunksTile`: chunks and filters lie back to back from the magic to the end of what
  is written); `RowGroupsCut` (`[]RowsCut`).  Their inductive invariant `WInv` adds that a
  dictionary page ends where the next write begins (else the chunk's start could not be
  told from its data page's), that finished row groups have at least one column (the
  next group starts where their last chunk ends), and that the loop is only entered with
  rows left, or for the first group.  `ChunksAreHeld` (`[]ChunksHold`), by `Held`: what
  an offset delimits was written whole, and writes only append.  `OnlyCompleteOpens`
  (`[]OpensIffComplete`), by `Sealed`: the magic is at the front and nowhere else until
  the last unit of an Ok result, so no proper prefix ends in it.  `TableReadsBack`
  (`[]ReadBack`): an Ok file has the footer of its row groups (`Footed`); the page walk
  from a chunk's start meets exactly the pages written, page by page, or stops at a header
  whose sizes wrapped, and then the one-shot reader fails.  Where the sizes are right and
  only the count of a coded page wraps, the reader fails or hands out the first of the
  rows; in every other case it hands out the rows.  So rows can be lost only as in
  `lost_rows`, and none is ever another row's.  `WrittenIsContent`: every Ok file shorter than the address space
  is an object in the sense of `AsyncRead`, so the theorems below speak of the files this
  writer makes.  Assumptions: columns are sequences of typed value sequences, the
  row-group size is a natural, `PageCap` is at least 3.
* `TableFile_proofs`, the async reader, for any objects, suffix length and number of
  PUTs: `OneVersion` (`[]FooterIsOneVersion`): a footer that decodes is, whole and at the
  handle's offset, the footer of one version; the handle has that version's size, or, after
  two GETs, that of the version before with at most a trailer more.  It rests on where a
  footer can begin: whatever starts at the offset asked and is a whole footer is followed
  by its own trailer.  The invariant adds that the history ends in the present content and
  that the range of the second GET is the one the trailer declared; `LikeSync` (`[]OpensLikeSync`), in both builds, wrapping subtraction
  included; `ReadsSync` (`[]ReadIsSync`), by `Served`: an answer is the walk of the version
  that served its one GET, at the offsets of the handle's footer, and a walk that looks for
  levels is one that does not when no version 1 data page has any (`Bare`); `StreamSpells`
  (`[]BatchesSpellRows`).  They rest on `ObjectsAssumption`: in every object a footer lies
  right before the trailer with its length (nobody writes one elsewhere, appends to a file
  or cuts it short).  Also `WordAssumption`, `BatchesAssumption`, `ColdOpenAssumption`.
* `DictPage_proofs`: `TypeCorrect`; `DictCorrect` (entries distinct, in order of
  first occurrence, every index leads back to its value) and `RunsCorrect` (the runs
  and the accumulator spell the indices, group borrowing included), for columns of
  any length, any group size and any threshold.  The inductive invariant adds to the
  two that runs form a chain (each starts where the previous one ends) and that
  runs written before the final flush are whole groups or RLE runs, which is
  why nothing but the last run can go past the end.
* `DictPage_proofs`, the bytes: `PageReadsBack` (`[]ReadBack`), write then read is the
  identity for every column, size of a byte, threshold and reader.  Two invariants carry
  it.  `PageInv`: behind the width byte the runs lie back to back in the page, each as its
  header and body (`Laid`), and every one can be told from its bytes (`Writable`: whole
  groups or one value, indices below 2^width).  `CursorInv`: a reader holds a prefix of
  the column and stands on the first byte of the run that continues it.  A reader's step
  is then four facts about `HybridRle`: a varint laid in the page reads as its value and
  ends where it ended (`UvarintReads`), the digits of a number are the number
  (`ValueOfDigits`, `DigitsOfValue`), regrouping numbers of w bits into bytes and bytes
  into numbers of w bits gives the numbers back (`RegroupBits`, `RegroupBack`), and the
  index width is the least that fits (`WidthCovers`, on which also the refusal of the
  `u8` reader rests).  Powers and digits are recursive functions; that they satisfy their
  one-step equations is proved by least counterexample.  Assumptions: a byte has at least
  two bits (`OctetAssumption`; with one, a varint would have no payload) and a varint of
  `VarintBytes` holds the header of a run as long as the column (`HeadersFit`; in the code
  70 payload bits for a `u64`).
* `BitUnpack_proofs`: `TypeCorrect`; `LoadsStayInside` (`[]LoadsInPacked`) and
  `GathersStayInside` (`[]GathersInDict`), for any number of values, slice and
  dictionary.  Their hypothesis `KernelsSound` says of each table entry that its stride
  is one block, its loads fit the rule that keeps its blocks, and its unchecked lookups
  begin at 2^w entries; TLC evaluates it (`TablesSound`) on every entry except NEON
  widths 5 and 21, where it is false (`kernel_loads`).  So the argument for all lengths
  is reduced to a finite table.  The invariant adds which checks have been passed where.
* `BitUnpack_proofs`, the answer: `OneStream` (`[]AnswerIsReference`) and `RefusedForCause`
  (`[]OutcomeDeserved`), for any number of values, slice and dictionary.  Their hypothesis
  `KernelsExact` says of each table entry that its blocks begin on a byte and that the
  lanes of one block take its w-bit fields in order; TLC evaluates it (`TablesExact`) on
  every entry, NEON 5 and 21 included: those load too far, but use the right bits.  The
  inductive invariant `AInv` says that what the blocks and the scalar tail have put out is
  a prefix of the reference as long as the values consumed, and which checks stand behind
  each outcome.
* `Sidecar_proofs`, the index of one file, for any contents, page and sidecar row-group
  sizes, kinds, tokenizer, filter bits and numbers of rewrites, builds and handles:
  `AnswersAreFullScans` (`[]AnswerIsFullScan`), `CurrentServed` (`[]CurrentIsServed`),
  `BloomsRuleNothingOut` (`[]NoFalseNegative`), from `IndexIsSound` (`[]IndexInv`).
  The three properties say nothing of which version of the file a body was built from, so
  none is inductive.  `IndexInv` adds it: what a build has collected is what its row groups
  hold, as long as the content it opened is the present one (`BuilderInv`); a sidecar with
  the fingerprint of the present source has the body of the present content, never without
  a row group (`SideInv`); an index that opened has a body built from a version
  whose footer the reader's handle cached (`ReaderInv`); and the shape of each variable.
  TLC agrees on the instance of `dataset_index`.  From a body of the
  right version to the answer there are three steps, one lemma each per kind of index:
  sorting the entries and cutting them into row groups loses none and leaves them in key
  order; a search of a key-ordered sequence, by row-group bounds (lazy) or over all of it
  (eager), hits exactly the entries of the key (`EqHitsAre`, `RangeHitsAre`,
  `CompositeHitsAre`, `LazyHitsAre`), also when a key's entries straddle a cut; and the
  rowsets of those entries read back as the rows filed under the key (`RowsetReads`,
  `FiledRows`), which are the rows of the scan.  A filter has the bits of every value of
  its page, so a value present is never ruled out.  What a property excludes is its own
  hypothesis: footers that differ between versions (`FootersDiffer`), no body swapped
  under a lazy reader, the index's own column.  Assumptions: sizes are positive
  (`SizesAssumption`), a text has a sequence of tokens (`TextAssumption`), kinds and keys
  are those of the code (`KindsAssumption`, `QueriesAssumption`), and the two columns of a
  row group have equally many rows (`ContentsAssumption`).
* `Sidecar_proofs`, the dataset layer: `NothingLost` (`[]NoMatchingFilePruned`) for any
  snapshot, files, indexes and keys; invariant: what is collected is what the manifests
  loaded so far list, what is kept is what the predicates let through, all of it that has
  an extension is paired.  Assumptions: summaries bound their columns (`FilesAssumption`),
  and names stay distinct through the text (`NamesAssumption`).
* `IntColumns_proofs`: `Lossless` (`[]NarrowedIsLossless`): the chosen target holds all
  that the bounds allow (also when the bounds are in the order of an unsigned column),
  every row is one the bounds allow, and `as` keeps what its target holds.  The
  inductive invariant says that the frame holds every row, that the dictionary is the
  narrowed one of the last dictionary page, and that each value is the narrowed row it
  was taken from.  `EveryRow` (`[]EveryRowTaken`): with it, the ordinal is the number of
  data pages walked, hence the page of the index asked, hence a page skipped has no row
  asked for.  Assumptions: widths at least double (`WidthsAssumption`), values and
  bounds fit in an i64 (`RequestsAssumption`); that bounds are true of the rows is the
  property's own hypothesis (`Honest`).
  `DeltaExact` (`[]DeltaReadsBack`): a delta payload is decoded to what was written, or
  it is one that the format does not allow, or units were lost.  Two numbers are `Near`
  when they differ by a multiple of the width: wrapped deltas are near the differences,
  what a mini-block stores plus its block's base is near the delta, and the accumulator,
  twice as wide and wrapping itself, stays near the value, so `as` gives it back.  The
  inductive invariant (`DInv`) says what is in front of the decoder: at a block, the
  writer's blocks from there on; at a mini-block, the bodies left of the block, then the
  blocks behind it; then the next stream, or the data; all of it when nothing was lost, a
  prefix otherwise.  What is decoded so far is the written prefix, byte arrays included.
  Assumptions: the range of a type twice as wide is a multiple of the type's
  (`WidthsAssumption`), and payloads are as said above (`PayloadsAssumption`).

Only model-checked: liveness (`StreamEnds`, `CallReturns`), which is out of the prover's
reach.

## Not modelled, and simplifications

* Formats and compression are stateless functions on a slice or wrappers of external
  libraries.  Encryption seals one page with one cipher call per module and keeps no
  state.  NUMA helpers are operating-system calls.  Lazy columns are loops over
  segments.  BYTE_STREAM_SPLIT, levels and PLAIN are loops over one slice; PLAIN and
  levels appear as the values of a page.
* A chunk with a bad page and a footer total of zero, and chunks whose masked
  total differs from its pages' rows, are left out: no writer makes them.
* The indices of a page that cannot be decoded are not looked at row by row.
* Selectivities are exact fractions; f32 rounding is left out.
* Sidecar: the CRC is taken as injective on footers; `SidecarRgRows`, `Byte` and
  `Word` are scaled down (2, 2, 1 for 256 Ki, 8, 4); a rewrite of the source is
  one atomic step, in place; reads through a handle whose cached footer no longer
  fits may fail or return anything; a torn sidecar never opens (it has no trailer);
  a body replaced between an open and its read is marked (`swapped`) and not
  judged; an index is used with the handle it was opened with.  `i32` stands for
  the two other single-column kinds.  The materialising read is taken by the
  contract that `chunk_readers` checks and `MaskIsFilter` proves (`MaskedIsFilter`).
* Table file: the single-column writers are the same layout with one column and one
  row group; encrypted writers, `total_byte_size` and ordinals are not modelled;
  statistics are (`compute_stats` of `IntWidths`), beside the file; values never spell
  the magic; `File::create` empties an existing file before the checks, so a refused
  call destroys it (only the new file is modelled).  A list of filters of the wrong
  length is let through by the code and panics in the loop, and so does the model.
* Kernels: a lane is right when its w bits are, so arithmetic inside a register (masks,
  narrowing) is taken by which bits it keeps; the two SIMD builds of a predicate compare
  through the mask they are given.  The 64-bit reader has only its portable form.
* Page headers: in the code a negative count of values panics in the reservation of the
  output; here it is an error.  Nulls are not modelled: the levels of an OPTIONAL column
  are all the same, and what a reader makes of them when it takes them for values is as
  wide as one value, which stands for the level runs of a long page.
* Async: a trailer is two units and a leading magic one; where a read meets a footer
  that does not decode it fails; only reads that do not cross a PUT inside one GET exist.
  Metadata is decoded when it is asked for, so an open whose footer does not decode is
  open, as in the code.
* Pruning: key values of one type are integers; a manifest that cannot be loaded fails
  the walk, whatever the reason.
* Integers: INT32 sources have the same decoders on a smaller range and are not a second
  model; the FLBA and INT96 readers do not narrow.

## Plan

Done: iterators, parallel decode, late materialisation, sidecar, dictionary page, table
file and writer, kernels, async, pruning, narrowing, range reads and delta decoding, with
theorems about every module that keeps state; of the properties the passing runs check,
only the two liveness properties have none.  What remains, in order:

1. Proofs: the lemmas on sequences laid end to end, on varints, digits and bit packing
   that `PageReadsBack` and `DeltaExact` rest on, moved to a module that all components use.
2. The byte-array readers (offsets, dictionary-preserved, predicate) as further
   instances of the page loop of `IntColumns` and `AdaptiveChunk`.
3. `EncryptedFile`: the encrypted single-column writer as another layout of `TableFile`,
   with the AAD of each module as part of its unit.
4. Remote scan and pruning read the files that `TableWriter` writes: compose the three,
   so that one run asks what a query gets to see.
