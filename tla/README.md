# A TLA+ development of Nimble

Nimble is a columnar file format: a writer turns batches of rows into streams,
chunks them, packs them into stripes and writes a self describing file; a reader
opens the file from its tail, finds the streams of a stripe, and rebuilds rows.
This directory holds the TLA+ modules that model it, the TLC configurations that
check them, and the TLAPS proofs about them. All paths below are relative to
`src/dwio/nimble/`.

## 1. Inventory

| Component | State | Operations | Talks to |
|---|---|---|---|
| Tablet writer (`tablet/TabletWriter`) | vectors of row counts, offsets, sizes and group indices per stripe; stream offsets and sizes of the open stripe group; sections; running checksum | `writeStripe`, `writeOptionalSection`, `close` | called by the Velox writer; appends to a `WriteFile`; asks the layout planner for an order |
| Tablet reader (`tablet/TabletReader`) | postscript, footer, stripes section; optional section cache | constructor, `load`, `getTotalStreamSize`, `loadOptionalSection`, `calculateChecksum` | `ReadFile`; shared by several Velox readers |
| Stripe group cache (`tablet/TabletReader.h`) | map from group to a locked weak pointer; `firstStripeGroup_` | `get`, eager load, release | all threads that read stripes of a file |
| Velox reader (`velox/VeloxReader`) | split `[firstStripe_, lastStripe_)`, `nextStripe_`, `rowsRemainingInStripe_`, `loadedStripe_`, decoders, root reader, cached estimate | `next`, `seekToRow`, `skipRows`, `loadStripeIfAny`, `estimatedRowSize`, `getRowNumber` | unit loader, tablet reader, field readers |
| Velox writer (`velox/VeloxWriter`) | row counters, memory figures, `lastException_`, streams of the stripe | `write`, `flush`, `close`; internally `writeChunk`, `writeStripe`, `tryWriteStripe` | field writers, flush policy, tablet writer |
| Stream data, chunked streams (`velox/StreamData`, `velox/ChunkedStream*`) | values, null bitmap with a lazily filled prefix; decoder position inside a chunk | `ensureNullsCapacity`, `materialize`, `reset`; `decode`, `skip`, `reset` | field writers and readers |
| Field writers and readers (`velox/FieldWriter.cpp`, `velox/FieldReader.cpp`) | per type: deduplication caches, offsets, in-map streams, key sets | `write`, `reset`, `next`, `skip` | stream data, decoders, schema builder |
| Schema (`velox/Schema*`) | tree of types, next stream offset | build, serialize, read | writers, readers, layout planner; shared by the threads of a write |
| Layout planner, layout trees (`velox/LayoutPlanner.cpp`, `velox/EncodingLayoutTree.cpp`) | configured feature order; captured encodings per type | `getLayout`; `serialize`, `create` | tablet writer; stream contexts of the Velox writer |
| Encodings (`encodings/`) | position inside an encoded block, runs and buffers read ahead | `encode`, `materialize`, `materializeNullable`, `skip`, `reset`, `readWithVisitor` | chunk encoder and decoder, selective readers |
| Encoding selection (`encodings/EncodingSelection*`, `encodings/Statistics.*`) | statistics of the data | `select`, `selectNullable`, `createImpl` | every encoder, for itself and its nested streams |
| Bits, varints, buffers (`common/`) | none, or a cursor | pack, unpack, grow | encodings |
| Tools (`tools/`) | none | print a file | reader |

**What is hard here.** There is no persistence protocol, network or crash
recovery. What is hard is long range bookkeeping: group indices recorded long
before the group is flushed, null streams that may be omitted from a chunk and
become necessary in a later one, offsets relative to the wrong base, caches keyed
by an index that is reused, a reader that may be moved anywhere by any mix of
calls; calls that fail half way; and two concurrent spots: the stripe group
cache, and field writers or encoders run on an executor, which share the schema
builder.

**What makes each component correct.**

* Tablet writer: the bytes of a stripe hold its streams and nothing else; the
  checksum covers the file; every recorded group index is the position of its
  group; a closed file passes the checks of the reader.
* Tablet reader: each stream and section reads back as written; a file opens
  unless the initial read misses its footer or its stripes section.
* Stripe group cache: `get` is atomic, one live object per group, no read of
  metadata somebody holds, every call returns.
* Velox reader: it implements a cursor over the rows of its split; splits that
  partition the file's bytes partition its stripes.
* Writer and field readers: rows read are the rows written, whatever the batches,
  chunks, stripes and skips.
* Schema: every stream has an offset of its own, for good, whatever the threads
  do; the schema in the footer reads back as the one built.
* Layout planner and trees: every stream is laid out once; a captured layout
  reaches the stream it was captured from, or none.
* Encodings and their selection: a chunk can be encoded, also by a layout that
  does not fit it, and reads back as it was, in any order of reads and skips.

## 2. Plan

1. `TabletWriter`, `TabletReader`: the layout of the file. *Done.*
2. `VeloxReader` refining `RowCursor`. *Done.*
3. `StripeGroupCache` refining `SharedObjects`. *Done, and proved.*
4. The write path: stream data, chunks, stripes and flushes of `VeloxWriter`
   refining `RowFile`, and `ChunkedStreamDecoder` refining `StreamCursor`.
   *Done for rows of nullable scalar columns, and proved.*
5. Field writers with state across batches, each with its reader: arrays with
   offsets, sliding window maps and flat maps. *Done.*
6. Schema builder and its serialization, layout planner, captured layouts.
   *Done.*
7. Encodings and their selection, varints. *Done, but for the packing of bits.*
8. Proofs: tablet writer and reader, stripe group cache, Velox reader, Velox
   writer and the decoder of chunked streams, with their four refinements,
   sliding window maps, deduplicated arrays and flat maps. *Done.*

Components that share a state space share a run: the tablet's writer and reader
do, whose writer's properties are proved for every value of the constants
anyway, and so do schema, planner and layouts, and all of the encodings. There is
one run per question.

## 3. Modules

### TabletWriter

The file is a sequence of extents, one per append, each with the offset and size
it was given and what it holds. The variables are the data members of
`TabletWriter` under their own names; `written` is history. `writeStripe` and
`close` are loops over appends and are one action per append: `WriteStripe`,
`WriteStream`*, `FinishStripe`; `CloseGroup`, `CloseStripes`, `CloseFooter`. `pc`
says which call is running. `Encodings(n)` gives the outcomes of `writeMetadata`:
below the threshold the bytes as they are, above it zstd if its result is not
larger. Sizes of flatbuffers are small linear formulas in what they contain: only
comparisons of sizes with thresholds and windows matter.

### TabletReader

Extends the writer: it opens what the writer closed. `MetadataBuffer` is a read
by offset, size and codec; one that does not hit exactly what an append wrote
yields `Garbage`, so any error in an offset shows. `OpenError` is the chain of
checks in the constructor. Indices of stripes count from 1 here.

### StripeGroupCache and SharedObjects

A thread in `get` goes through `entry` (lock of the map), `lock` (lock of the
entry), `lookup`, `build` (the read, which may throw), `publish`. Objects are
pairs of a group and a build number; an object is alive while a thread or
`firstStripeGroup_` holds it. `groups` are the stripe groups of the file, chosen
initially; only a file with one group may have it loaded eagerly.
`SharedObjects` does the same in one step.

### VeloxReader and RowCursor

`cursor` holds `nextStripe_`, `rowsRemainingInStripe_`, `loadedStripe_` and the
position of the root field reader, which is how a missed `reset` would show.
`range` is the split. A load fails in the calls named by `Failing`, leaving what
the code leaves. `RowCursor` has no stripes: a position, `Read`, `Seek`, `Skip`,
and `lost`, set when a seek or a skip throws and cleared by the next seek that
returns; while it is set nothing is promised about the rows.

### VeloxWriter and RowFile

`data` is a `StreamData` per stream: the null bitmap with its lazily filled
prefix (`Undef` stands for memory nobody wrote), and the values; the module
`StreamData` holds its methods and the rules by which `writeChunk` cuts it, and
is shared with flat maps; `RowSequences` has the null row and the operators on
rows, bitmaps and lengths that the modules of the fields share. `streams` are the
chunks of the open stripe. `Write` is the whole call: field writers, memory
accounting, the flush policy asked once, or again after a chunk, chunks and
stripe. The policy may answer anything: the policy is the user's.
`WriteFails`, `WriteFailsLater`, `FlushFails`, `CloseFails` leave what an
exception in a field writer (on an executor: any set of streams done), an
encoding, a stripe or the tablet leaves. `RowFile` promises that the stripes hold
a prefix of the accepted rows, and all of them once there is a footer.
`StripeRows` reads a stripe back the way the field readers do and is the
refinement mapping.

### ChunkedStreamDecoder and StreamCursor

`next` over chunks with and without a null bitmap: `ReadChunk` is one round of
its loop, `NullableMaterialize` and `TypedMaterialize` the two ways an encoding
delivers scattered rows; `Spread` moves the values to their slots in place, back
to front, one `SpreadStep` at a time. Memory nobody wrote is `Unwritten`, in the
buffer as in the bitmap. Buffers are functions on slots; a string is a view into
a chunk unless it was copied (`owned`). `StreamCursor` is what `Decoder.h`
promises: rows in order, in the slots a bitmap selects.

### ArrayWithOffsets

Writer and reader of deduplicated arrays over the same three streams (offsets,
lengths, elements). A call of write takes its rows one by one (`IngestRow`, the
`dedupProc` of the code); flat batches are compared by content, batches in
dictionary encoding by index. A chunk may be cut between any two batches, which
must not matter. The reader has a cached array that may be lazy: its length was
read by `skip` (`size`), its elements were not, and `cachedValue_` still has those
of the array cached before (`value`), which `CachedArray` cuts to the size.
`dropped` is history: the elements were thrown away unread. `Next` builds the `Dictionary` of the batch
(the arrays read now, the cached one behind them), takes every index relative to
the first (`Normalized`) and keeps the array at `IndexToCache`; a skip is a loop
of `SkipRound`s.

### SlidingWindowMap

Writer and reader of maps that repeat: an offset and a length per row, entries
stored once per run. A call of write takes its rows one by one (`ProcessRow`), as
`iterateNonNullIndices` does: a map is compared with the one before it, the first
of a call with the copy kept of the call before, which `writer.value` stands for
in both cases. The reader moves the readers of keys and values (`child`) to the
window of a batch with `Seek`, which trusts `cursorPos_` (`cursor`), and lays the
maps of the batch out in it one behind the other (`MapOf`): nothing but the sum of
the lengths says where in the window a map starts. Keys and values are written and
read in step, so one stream of entries stands for both.

### FlatMaps

A flat map column. The writer keeps for every key a stream that says which maps
have the key (in-map) and the stream of its values; a key that appears late is
back filled, in whichever stripe and after whichever chunks. `IngestMap` takes map
vectors, `IngestFlattenedMap` the row vectors with a column per key, which fix
the keys of the writer (`passthrough`). `MapsAt` are the maps a caller may pass: a
map has a non-empty sequence of values per key, longer than one if the caller
doubles the key; `rows` keeps the first, which is all that is promised. `FlushChunk` and `NextStripe` are the
Velox writer's part. `OpenStripe` makes one of the two readers, as a map or as a
struct, for a selection of keys; `NextRows`, `Skip` and `ResetReader` move the
nulls, the in-map and the value decoders. `DeliversMaps` compares what a call
returned with the maps written, restricted to the selection.

### SchemaTrees, LayoutPlanner, EncodingLayoutTrees, SchemaBuilder

`SchemaTrees` are the conversions as operators on trees: nodes of the footer
(`SchemaBuilder`, `SchemaSerialization`), the tree a reader makes of them
(`SchemaReader`), Velox types, stream labels. `LayoutPlanner` orders the streams
of a stripe. `EncodingLayoutTrees` turns captured layouts into bytes and back
and spreads them over the types of a new writer.

`SchemaBuilder` is the state machine: creating a field writer is a program of
steps (find the field, take `flatMapSchemaMutex` or not, load the offset counter,
store it, add the node, add it to its parent), which the threads of two columns
interleave. Whether a flattened map makes its keys or must find them is decided
once per call (`populate`), before its first key. A stripe is laid out with the schema of its time, the footer has the
schema of the end. `context` holds what the handlers of new streams and keys leave: captured
layouts and the marks of null streams.

### Varints, EncodingSelection, EncodingFactory, Decoders, DecoderVisitors, Encodings

The encodings as operators, and `Encodings`, the life of a chunk, as the state
machine over them. Encoded data is a tree: an encoding, its own values, a block of
data and the trees of its nested streams. `EncodingSelection` are the
statistics, size estimates and the three policies (manual, learned, replayed);
`EncodingFactory` every encoder, `encodeStream` with its retry without the
captured layout, and the capture of a layout; `debugBuild` says whether the build
checks `NIMBLE_DASSERT`. `Decoders` are the encoding classes:
a decoder is a value with a cursor, decoders of its nested streams and what it
has read ahead; `Materialize`, `Skip` and `Reset` return the decoder after the
call and what it delivered. `DecoderVisitors` is `readWithVisitor`,
with its slow and its fast paths. `Varints` are the scalar and both bulk
decoders, with the width of a group and of a word as constants; memory nobody
wrote is a value of the machine a chunk is read on.

## 4. Runs

| Run | Question | Bounds |
|---|---|---|
| `tablet` | does what is recorded match what is appended, and does every stream and every section read back | 3 stripes, streams {0, 2}, either missing, any id list of length up to 2 with an unknown id; one section, empty or large; thresholds between one and two narrow stripes, and between a small and a large section; three initial reads; two calls |
| `velox_reader` | is the reader a row cursor, also after failures | all files of up to 3 stripes of 1 or 3 rows with or without bytes, every split, loads fail in any call |
| `stripe_group_cache` | is the cache atomic and does it return | 2 threads, 2 groups, 2 calls each; one group, eager or not |
| `chunked_decoder` | is the decoder a cursor over all chunks | 3 chunks of 1 or 2 rows, requests of up to 3 slots |
| `velox_writer` | do the stripes hold the rows written | one column and the root's nulls, 3 rows, batches of up to 2, any flush decisions, `mayHaveNulls` also when there are none |
| `array_with_offsets` | do deduplicated arrays survive writing, skips and resets | 4 rows, 4 arrays of up to 2 elements, batches of 2, requests of 3 slots, skips in rounds of 2 |
| `sliding_window_map` | do repeated maps survive writing, skips and resets | 4 rows, 5 maps of up to 2 entries, batches of 2, requests of 3 slots |
| `flat_maps` | do the streams of the keys hold the maps, and do both readers deliver them | 2 keys and one never written, stripes of 3 rows in batches of 2, 8 maps per row (null, empty, a null value, a doubled key), flattened maps of any columns, 4 selections |
| `schema` | do schema, layout and captured encodings stay together while threads add keys | 5 columns of every kind, two of them flat maps (one nested), 2 keys, 2 batches, one key per column and batch, up to two in a flattened map, one stream without data per stripe; 3 writers: threads with a captured tree, one thread with a stale tree, one thread with flattened maps |
| `encodings` | does every chunk encode and read back | 3 types, chunks of up to 3 rows of 2 numbers and nulls, and selected ones up to 5; 6 policies that prefer different encodings, debug and release builds; 4 bitmaps of slots, 2 machines, read ahead of 2 rows, words of 3 bytes |
| `map_reset`, `passthrough_race` | statements of comments the code does not keep | as the run of the same module; see below |

Three stripes are enough for a group of several stripes followed by another, for
a narrow stripe between wide ones, and for a seek across a whole stripe in both
directions. Gaps between stream ids (0 and 2) make padding visible. Three chunks
give a plain chunk between nullable ones. Two streams that are flushed
independently (the root's nulls and one column) show what a third column could
only repeat. Four rows in batches of two let a row be equal to one of the batch
before, with a null or an empty one between, and let a read begin in the middle
of a run of equal rows. A flat map of three rows in two batches has a key that
appears after a chunk, one that disappears, and one that returns in the next
stripe (the writer keeps its keys across stripes). In `encodings` the read ahead
of two rows and the small words make runs, dictionaries and varints cross the
boundaries that the code has at 32 rows and 8 bytes; the policies are chosen so
that every encoding is picked, on its own and nested.

Deadlock is not checked where the system may stop: a closed file, a writer that
failed and a chunk that could not be encoded accept no more calls, and the number
of calls is bounded.

**Fairness.** Only the cache has liveness: a thread inside `get` keeps taking
steps (weak fairness). It is scheduled by the operating system and the read it
waits for returns or throws; the lock is not assumed to be fair.

**What the violation runs show.** `map_reset`: a reset leaves `cursorPos_`, so a
seek after it skips too little; `WindowsDeliverMaps` is what still holds.
`passthrough_race`: two columns that get their first flattened maps on two
threads create their keys without `flatMapSchemaMutex`, and two streams share an
offset; `OffsetsUnique` holds in the `schema` run, where flattened maps are
written by one thread.

**Disagreements that are not runs.** Met while modelling; the properties are
stated so that they hold in spite of them, each with its exception.

* `velox/VeloxReader.cpp:506`: after a load failed inside a seek or a skip, `next`
  serves rows of the stripe loaded before, although the comment at line 567 takes
  it for loaded. `RowCursor` calls this `lost`.
* `velox/VeloxReader.h:117`: `getRowNumber` returns the first row when the reader
  was moved to the end before it loaded a stripe.
* `velox/VeloxWriter.cpp:813`: the flush policy is told the size of what is buffered
  since the last chunk, `velox/FlushPolicy.h:24` says of the stripe. The policy is
  free in the model.
* `velox/FieldReader.cpp:983`: a batch of nulls after a skip drops the elements of the
  lazily cached array and keeps the cache, so of the rows `[2], [1], null, [1]` read
  by next(1), skip(1), next(1), next(1) the last comes back as `[2]`, where
  `velox/FieldReader.h:76` says that next places the next rows in the output.
  `DeliversArrays` names this case, and without it TLC shows these calls.
* `tablet/TabletReader.cpp:290`: the comment says that another read is done if the
  first one did not cover the footer; the constructor throws instead.
  `OpensUnlessMissed` says exactly when.
* `velox/SchemaBuilder.h:39`: the offsets of the builder are said to differ from the
  serialized ones, to which they are translated with the footer, in the order of
  the schema. They are written as they are (`SchemaBuilder.cpp:468` to `554`), which
  the tablet and `SchemaReadsBack` rely on: an in-map stream has a larger offset
  than the value that follows it in the tree.
* `encodings/EncodingFactory.cpp:277`: a captured Dictionary that is replayed on a
  chunk of nulls only, or on the other values of a constant, fails an assertion in
  debug builds, with an internal error that `encodeStreamTyped` does not retry;
  release builds encode the empty dictionary.
* `encodings/RleEncoding.h:236`: a captured RLE layout replayed on a chunk of
  Booleans without values reads the first of no runs, while
  `velox/VeloxWriter.cpp:178` expects an exception it can retry after;
  `EveryChunkEncodes` names this case and the one before.
* `encodings/VarintEncoding.h:175` and `186`: "Adding 7 bytes" in two comments;
  the code adds none. `ReservedIsWritten` follows the code.
* `velox/FieldWriter.cpp:795`: a key doubled in a map is noticed only while the
  in-map buffer holds the row's entry; line 917 says that flattened maps with
  other keys are refused, and one with fewer keys is not; one without columns
  leaves the mode open. `StreamsHoldMaps` promises nothing for keys damaged so.
* `velox/FieldReader.cpp:2303`: the estimate of a flat map read as a struct throws
  when its keys have different counts.
* `tablet/TabletWriter.cpp:266`: a stripe group may grow past the flush threshold,
  because only the last stripe's width is looked at; and `VeloxWriter.cpp:829`
  asks the policy again with a figure taken before the chunks. Neither changes
  what is written.
* `velox/StreamLabels.cpp`: the label of a row column does not name it, which is why
  `LabelsTellColumns` leaves rows out. `velox/VeloxWriter.cpp:432` wants two
  children of the captured tree of a deduplicated array, which has one type below
  it.

## 5. Proofs

`TabletProofs` proves of the writer, for all thresholds, stream sets and numbers of
stripes (from `ConstantsAssumption` alone):

* `TypeCorrect`: `TypeOK`, from the inductive `TypeInv == TypeOK /\ Shape`.
  `Shape` relates the streams still to be appended to the length of the row
  being filled; without it the write into the row is not within its domain.
* `GroupsCorrect`: `GroupsMatchStripes`, with `Counts` (lengths of the per stripe
  vectors in the middle of `writeStripe`).
* `ClosedFileCorrect`: `ClosedFileReadable`, a consequence of the two.
* `ChecksumCorrect`: `ChecksumCoversFile`, together with the fact that the extents
  tile the file (`FileTiled`), which the reader's proofs need.
* `StripesHoldStreamsCorrect`: `StripesHoldStreams`, from `Enclosed`, which adds
  what holds between the streams of a stripe: everything ends within the file, a
  finished stripe ends before the running one starts, and only the running
  stripe's extents come after its start. The size of a stripe is recorded at its
  end only, so without the last part nothing would be known of its range then.

It carries these invariants over to the reader, for any streams, sections,
thresholds, windows and any sequence of calls:

* `ReadsCorrect`: `ReadsReturnWritten`. `WriterInv` says of every entry of the
  metadata which extent of the file it names (the streams of a stripe in the rows
  of its group, the groups, the sections). As the extents tile the file and those
  recorded are not empty, one is found by its offset and size alone; without that a
  read would not be known to hit the append it was recorded for. Stripe offsets and
  stream offsets relative to them are tied to the extents here, which nothing in
  the writer's own invariants needs.
* `OpensCorrect`: `OpensUnlessMissed`, from the invariants of the closed file: the
  counts agree, so the checks on metadata cannot fire, and the sizes in the
  postscript and the footer are those of the extents, so the comparisons with the
  initial read say where it starts.

Of the cache of stripe groups, which the reader owns, the same module proves, for
any threads, groups and number of calls, `CacheTypeCorrect`, `OneLiveObjectCorrect`, `NoReadWhileHeldCorrect`,
`EagerGroupCorrect` and the refinement `CacheIsAtomic`, from

    CacheInv == CacheTypeOK /\ Locks /\ Built /\ Weak /\ Fresh /\ Eager

`Locks` says that a thread between lookup and publish holds the lock of its
entry, so nobody else looks the group up; `Built` that an object
outside the cache belongs to the thread about to publish it; `Weak` that every
object held is the one its entry points to, which is why an expired pointer means
that nobody holds the group; `Fresh` that this stays so until the thread that saw
it publishes; `Eager` that the eager object is of the file's only group. `OneLiveObject` alone is not inductive: a second object would appear if an
entry could forget a live one. The refinement maps a thread's holdings to what it
holds or is about to return; the step that publishes or finds the object is the
step of the abstract cache.

`VeloxReaderProofs` proves for files of any number of stripes, any split, and
loads that fail in any of the calls: the type invariant, `RootAtCursor`,
`RowNumberOnceLoaded`, `EstimateIsCurrent`, `SplitsPartition` and the refinement
`ImplementsRowCursor`. The inductive invariant `IInv` says that the split is one
that `SplitOf` finds, that the cursor is either between two stripes or inside the
stripe before `nextStripe_`, which is then loaded, and that the root reader has
consumed what `rowsRemainingInStripe_` says unless the reader is `lost`; the
properties alone are not inductive, because a skip that stays within the stripe
trusts the counters. A search for the stripe of a row is a search in a prefix
sum, and what is needed of it (`PrefixSumSearch`) is in `SequenceFacts`.

`VeloxWriterProofs` proves for any columns, batches, flush decisions, minimal
sizes of chunks and failures: `StreamsAligned`, `FinishedFileComplete` and the
refinement `ImplementsRowFile`. Neither property is inductive: lengths that agree
do not tell whether a reader would find the rows. `IInv` follows the rows instead.
`Held` says of one stream that the rows it took of the open stripe are those its
chunks read back as, followed by those its `StreamData` buffers, with a bitmap
that covers all of the buffered rows, or none because none of them is null;
`AllHeld` says so of all streams and the same rows, and `Progress` that the rows
written are those the stripes read back as, followed by these. The lemmas go the
way of the rows: a batch reaches the buffer (`HeldWrite`), a buffer becomes a
chunk whose rows are the rows buffered (`HeldEncode`), a stream that is left out of
a stripe had no nulls, or no values, to tell (`HeldEnds`), and the streams of a
stripe put together are its rows (`StripeReads`). Of a writer that failed the
invariant keeps only what stands behind a footer. The run `velox_writer` was also
made with `IInv` as an invariant.

`SlidingWindowMapProofs` proves, for any maps, batches and calls, the invariant
`StreamsHoldMaps` and the action property `WindowsDeliverMaps`: the reader is a
decoder of maps as long as `cursorPos_` is right. `Good` is the invariant of the
writer in the middle of a call, row by row: the streams hold the rows so far, and
the writer stands behind all entries, the last of which are those of the map it
compares with. Without that a map found equal would get a window that holds
another one. `ReaderInv` adds that the lengths consumed are those of the rows
consumed, without which an offset would be paired with the length of another row.
Delivery then rests on `Layout`: since windows of rows in a row are the same or
touch, the lengths of the distinct ones add up to the distance of a window from
the first one, which is what `next` takes for its offset. That `reset` leaves
`cursorPos_` behind is the hypothesis of `WindowsDeliverMaps`, and the run
`map_reset` shows that it is needed.

`ArrayWithOffsetsProofs` proves, for any arrays, batches, chunks, rounds of a skip
and calls, `WriterAligned`, `ReaderAligned` and the action property
`DeliversArrays`. None of them is inductive. On the side of the writer `Good` is
the invariant between two rows of a call: the streams hold the rows so far, the
offsets climb from 0 to the last array stored without a gap (`OffsetsClimb`), the
lengths add up to the elements, and the row the next one is compared with is the
last array stored; `WriterInv` is what is left of it between calls, with the cache
in the place of that row. That a batch in dictionary encoding compares indices and
not arrays is `KeysOK`: equal keys mean equal arrays. On the side of the reader
`ReaderAt` says that the array kept is that of the last row that was not null, that
the lengths consumed end with it, that the elements consumed do so too or lack
exactly those of a lazily cached array, and what the cache holds (`CacheHolds`):
the size of the array, and its elements unless they are still in the stream or were
dropped. `BatchFacts` is the step from one
to the other: the indices of a batch go on with the array kept or with the one
after it, so the number of changes among them is the number of arrays to be read,
less one if the batch begins with the cached one; `DictionaryShows` finds the array
of every index in the dictionary from that (`Shows`), or one of its length if its
elements were dropped. `ReaderInv`, the conjunction, was
checked by TLC on the instance of the run `array_with_offsets` before it was proved.
The second case of `Shows` is the batch of nulls after a skip of section 4; without
it the invariant does not hold.

`FlatMapsProofs` proves, for any keys, maps, selections, sizes of chunks and calls,
`StreamsHoldMaps` and the action property `DeliversMaps`, from the inductive
invariant `IInv == WriterInv /\ ReaderInv` (itself the theorem `FlatMapInvariant`).
`StripeHeld` is what `WriterInv` says while a stripe is written: the stream of
nulls holds the rows (`StreamHolds`, as for the Velox writer), and of every key
one of three things is known. A key nobody used has empty streams (`Untouched`);
this is what allows the back fill of a key that appears late to start from
nothing, whatever chunks the other streams have behind them. A key in use has an
in-map stream whose chunks and buffer are the flags of all maps of the stripe
(`FlagsHold`), or is empty because the key is one of an earlier stripe that no map
of this one has had so far (`writer.current` tells the two apart), and a value
stream that holds the values of the maps that have it (`KeyHeld`). Of a key that a caller damaged nothing is promised.
`StreamsHoldMaps` is not inductive, since it does not say which part of a stream is
buffered. `ReaderInv` keeps of that what the end of a stripe leaves (`Ended`,
`KeyEnded`: a stream without chunks tells nothing, so a projected key without
in-map chunks is in no map), and says where the decoders stand: the in-map decoder
of a node behind as many maps as the consumed rows have (`Rank` of the row among
those not null), its value decoder behind the rank of that among the maps with the
key. Delivery goes through `ChildFacts` (what a node reads for a row) and
`RowFacts` (the nodes of a row together are the row, through the selection).

`ChunkedStreamDecoderProofs` proves, for any chunks, slots, bitmaps and calls, the
refinement `ImplementsStreamCursor` and the action property
`StringsOutliveTheirChunk`. The state between two calls is simple: `IInv` says that
the chunks are chunks and that the decoder is `Placed`: a chunk with rows left is
the last one handed out, what its null bitmap has delivered and what remains are
its rows, and the values delivered are the rank of those rows among the ones that
are not null. The refinement does not follow from that; it follows from what
happens within one call, and the lemmas are layered like the code. `SpreadFacts`
is the in-place spreading: as long as a slot lies behind its value, the slots still
to be filled number as many as the values still to be moved (`Counts`), so no value
is overwritten before it has moved, and the loop stops because the two pointers
meet. `TypedFacts` and `NullableFacts` bring both ways of an encoding to one
statement (`ChunkRead`): the slots that take a value have it, and a bitmap is asked
for exactly if one of the slots is left without. `FillFacts` adds the part of the
bitmap that lies before the first chunk with nulls, `BufferFacts` the copied
strings.
`Reading` is the invariant of the loop of `next`: every slot before the offset
shows its row (`Filled`), its bit is written if any chunk so far had nulls, and a
string is copied unless it was read in the last round. `CountDown` bounds the number of
rounds: every chunk has a row, so the count falls in each of them.

`SequenceFacts` holds the lemmas all of these share: prefix sums, sums of slices
and searching them, rows without their nulls and ranks in a bitmap (`WithoutRank`:
the i-th row, if it is not null, is found at its rank among those kept;
`WithoutSlice`: the rows kept of a slice are a slice of the rows kept), flattening,
and what the operators of `StreamData` do to a stream that holds given rows
(`StreamHolds`), which the Velox writer and the flat maps have in common. The
library's induction theorems cannot be instantiated, so induction goes through
`LeastNat`: a set of numbers that has a member has a least one. For the same
reason `RowSequences` defines `Without` as a recursive function and not with
`SelectSeq`.

The proofs assume of the constants what the modules' ASSUMEs say. The bounds
`MaxRows`, `MaxBatch` and the numbers of calls are any natural numbers.

Only model-checked: liveness (`GetReturns`), which is out of the prover's reach, as
it rests on fairness; and the runs `schema` and `encodings`. `SchemaTrees`,
`LayoutPlanner`, `EncodingLayoutTrees`, `SchemaBuilder`, `Varints`,
`EncodingFactory`, `Decoders`, `DecoderVisitors` and `Encodings` follow trees with
recursive operators, which the prover cannot take, and stay with TLC.

## 6. Not modelled

* Writers and readers of plain arrays and maps and of rows below the root: they
  are the lengths and elements of the modelled ones without the deduplication.
  The size estimates and the conversions of scalars in the field readers.
* Decoding failures in the middle of a stripe load: the field readers then refer
  to destroyed decoders. Null rows above a flat map: its readers refuse them.
* Delta and Sentinel encodings, which no factory creates; the packing of
  `FixedBitArray` (packed numbers are sequences of numbers here) and memory
  buffers. Which blocks zstd makes smaller is a stand-in: those of one repeated
  value. The MetaInternal compressor is left out.
* `readWithVisitor` is checked for visits that start at the first row of one chunk
  (not `encodings/Encoding.h:430` and `476`, rows scanned in an earlier chunk), and
  without visitors that only filter; the visitor is Velox's. `ScanBits` uses
  `Materialize` for `materializeBoolsAsBits` (`RleEncoding.cpp:42`,
  `SparseBoolEncoding.cpp:72`, `TrivialEncoding.cpp:209`), and bits in words of
  Trivial Booleans are a slice of Booleans.
* Labels are sequences of parts where `velox/StreamLabels.cpp:109` concatenates
  strings, so two labels that differ only in where their parts end are told apart.
* The order of hash maps is some order. The bytes of chunk headers are left out.
* Raw size accounting (sums over vectors, no state), metrics, logging, checksums'
  arithmetic, memory pools, and the tools, which print what readers return.
