-------------------------- MODULE ArrayWithOffsets --------------------------
(***************************************************************************)
(* Deduplicated arrays: ArrayWithOffsetsFieldWriter stores equal neighbours *)
(* once, in three streams (an offset per row, a length and the elements per *)
(* stored array), and ArrayWithOffsetsFieldReader puts them back together. *)
(*                                                                         *)
(* The writer deduplicates across calls through a copy of the last array.  *)
(* The reader keeps the last array it met too: the next batch may begin    *)
(* with it, and its elements are gone from the stream by then.  A skip     *)
(* keeps only its length and leaves the elements to be read on demand; a   *)
(* call of next that has no use for them drops them, and the length then   *)
(* stands before the elements of the array that was cached earlier.        *)
(***************************************************************************)
EXTENDS RowSequences

CONSTANTS
    Arrays,     \* arrays, as sequences of elements
    MaxRows,    \* bound: rows of a stripe
    MaxBatch,   \* bound: rows of a call of write
    MaxSlots,   \* bound: slots of a call of next
    SkipBatch,  \* kSkipBatchSize
    Unread      \* what memory holds behind the elements of a vector

ASSUME ArraysAssumption ==
    /\ MaxRows \in Nat
    /\ MaxBatch \in Nat
    /\ MaxSlots \in Nat
    /\ SkipBatch \in Nat \ {0}
    /\ \A array \in Arrays :
         array \in Seq({array[i] : i \in DOMAIN array}) /\ array # Null
    /\ Null \notin Nat

VARIABLES
    rows,      \* history: the rows written to this stripe
    offsets,   \* offsetsStream_, Null for a null row
    lengths,   \* lengthsStream_
    elements,  \* the streams of elements_
    writer,    \* nextOffset_, cached_, cachedSize_, cachedValue_ and the
               \* lengths no chunk has taken yet
    reading,   \* the stripe is finished and being read
    reader,    \* positions in the streams, and the reader's cache: value is
               \* the elements of cachedValue_; dropped is history, a call
               \* of next has dropped the elements of the cached array
    out        \* what the last call returned: nothing, unless it was next

streams == <<offsets, lengths, elements>>
vars == <<rows, streams, writer, reading, reader, out>>

-----------------------------------------------------------------------------
(* The writer                                                              *)

NoWriterCache == [next |-> 0, cached |-> FALSE, size |-> 0, value |-> <<>>,
                  buffered |-> 0]

(* The array equals the cached one, in length and elements.                *)
EqualsCache(array) ==
    /\ writer.cached
    /\ Len(array) = writer.size
    /\ array = writer.value

(* One row of a batch, null or not.  s holds the streams, nextOffset_ and  *)
(* the last row that was not null, 0 before there is one: a row with the   *)
(* same key is a duplicate.  The first one is compared with the cache.     *)
IngestRow(s, batch, key, i) ==
    LET match == IF s.prev > 0 THEN key[i] = key[s.prev]
                 ELSE EqualsCache(batch[i])
        next == s.next + IF match THEN 0 ELSE 1
    IN  IF batch[i] = Null
        THEN [s EXCEPT !.rows = Append(@, Null), !.offsets = Append(@, Null)]
        ELSE [rows |-> Append(s.rows, batch[i]),
              offsets |-> Append(s.offsets, next - 1),
              lengths |-> IF match THEN s.lengths
                          ELSE Append(s.lengths, Len(batch[i])),
              elements |-> IF match THEN s.elements ELSE s.elements \o batch[i],
              next |-> next,
              prev |-> i]

Ingested(batch, key) ==
    LET after[i \in 0..Len(batch)] ==
          IF i = 0
          THEN [rows |-> rows, offsets |-> offsets, lengths |-> lengths,
                elements |-> elements, next |-> writer.next, prev |-> 0]
          ELSE IngestRow(after[i - 1], batch, key, i)
    IN  after[Len(batch)]

NewLengths(s) == Len(s.lengths) - Len(lengths)

(* The streams after a call, and the last array in the cache if it is to   *)
(* be copied.                                                              *)
Ingest(s, copied, value) ==
    /\ rows' = s.rows
    /\ offsets' = s.offsets
    /\ lengths' = s.lengths
    /\ elements' = s.elements
    /\ writer' = [next |-> s.next,
                  cached |-> copied \/ writer.cached,
                  size |-> IF copied THEN s.lengths[Len(s.lengths)]
                           ELSE writer.size,
                  value |-> IF copied THEN value ELSE writer.value,
                  buffered |-> writer.buffered + NewLengths(s)]

(* ingestLengthsOffsetsByElements: neighbours are compared by content.     *)
IngestLengthsOffsets(batch) ==
    LET s == Ingested(batch, batch)
    IN  Ingest(s, s.prev > 0 /\ writer.buffered + NewLengths(s) > 0,
               batch[s.prev])

(* Mutant: the array cached is that of the last row, null or not.          *)
IngestAlreadyEncoded_CacheLastRow(dictionary, index, batch) ==
    LET s == Ingested(batch, index)
    IN  Ingest(s, NewLengths(s) > 0, dictionary[index[Len(batch)]])

(* ingestLengthsOffsetsAlreadyEncoded: neighbours are compared by index.   *)
IngestAlreadyEncoded(dictionary, index, batch) ==
    LET s == Ingested(batch, index)
    IN  Ingest(s, NewLengths(s) > 0, dictionary[index[s.prev]])

CanWrite(n) == ~reading /\ Len(rows) + n <= MaxRows

WriteArrays(batch) ==
    /\ CanWrite(Len(batch))
    /\ IngestLengthsOffsets(batch)
    /\ UNCHANGED <<reading, reader, out>>

(* A batch in dictionary encoding is passed through if its indices, those  *)
(* of null rows included, never go down; otherwise it is decoded.          *)
WriteDictionary(dictionary, index, nulls) ==
    LET batch == [i \in DOMAIN index |->
                    IF nulls[i] THEN Null ELSE dictionary[index[i]]]
    IN  /\ CanWrite(Len(index))
        /\ IF \A i \in 2..Len(index) : index[i] >= index[i - 1]
           THEN IngestAlreadyEncoded(dictionary, index, batch)
           ELSE IngestLengthsOffsets(batch)
        /\ UNCHANGED <<reading, reader, out>>

(* A chunk takes the lengths buffered so far.                              *)
FlushChunk ==
    /\ ~reading
    /\ writer.buffered > 0
    /\ writer' = [writer EXCEPT !.buffered = 0]
    /\ UNCHANGED <<rows, streams, reading, reader, out>>

(* Mutant: the cache survives the stripe.                                  *)
Reset_KeepsCache ==
    /\ ~reading
    /\ rows' = <<>>
    /\ offsets' = <<>>
    /\ lengths' = <<>>
    /\ elements' = <<>>
    /\ writer' = [writer EXCEPT !.next = 0, !.buffered = 0]
    /\ UNCHANGED <<reading, reader, out>>

(* reset, at the end of a stripe: on to the next one.                      *)
Reset ==
    /\ ~reading
    /\ rows' = <<>>
    /\ offsets' = <<>>
    /\ lengths' = <<>>
    /\ elements' = <<>>
    /\ writer' = NoWriterCache
    /\ UNCHANGED <<reading, reader, out>>

-----------------------------------------------------------------------------
(* The reader                                                              *)

NewReader == [row |-> 0, length |-> 0, element |-> 0, cached |-> FALSE,
              index |-> 0, value |-> <<>>, size |-> 0, lazy |-> FALSE,
              lazyRows |-> 0, dropped |-> FALSE]

FinishStripe ==
    /\ ~reading
    /\ reading' = TRUE
    /\ reader' = NewReader
    /\ writer' = NoWriterCache
    /\ UNCHANGED <<rows, streams, out>>

LengthsSum(length, n) ==
    Total(SubSeq(lengths, length + 1, length + n))

(* The k-th of the arrays whose lengths are next, with the elements that   *)
(* follow element e: loadOffsets and the reader of the elements.           *)
NextArray(length, e, k) ==
    LET start == e + LengthsSum(length, k - 1)
    IN  SubSeq(elements, start + 1, start + lengths[length + k])

(* getIndicesDeduplicated: how often the index changes.                    *)
DedupCount(indices) ==
    Cardinality({i \in DOMAIN indices : i = 1 \/ indices[i] # indices[i - 1]})

(* The indices of the next n rows that are not null, and the first of      *)
(* them: -1 if there is none, which is no index that was cached.           *)
Indices(r, n) == NonNulls(SubSeq(offsets, r.row + 1, r.row + n))
BaseIndex(indices) == IF indices = <<>> THEN -1 ELSE indices[1]

(* The batch begins with the array the reader has kept.                    *)
CachedLocally(r, indices) == r.cached /\ BaseIndex(indices) = r.index

(* Mutant: a lazily cached array that is not needed keeps its elements in  *)
(* the stream.                                                             *)
AfterLazy_NoSkip(cachedLocally) ==
    IF reader.cached /\ reader.lazy /\ cachedLocally
    THEN reader.element + reader.lazyRows
    ELSE reader.element

(* Where the elements of the lazily cached array end, read or skipped.     *)
AfterLazy(cachedLocally) ==
    IF reader.cached /\ reader.lazy
    THEN reader.element + reader.lazyRows
    ELSE reader.element

(* The cached array, when it is needed: read from the stream if its        *)
(* elements are still there, and otherwise as many elements of             *)
(* cachedValue_ as its size says, whichever array they are of.             *)
CachedArray ==
    IF reader.cached /\ reader.lazy
    THEN SubSeq(elements, reader.element + 1, reader.element + reader.lazyRows)
    ELSE [i \in 1..reader.size |->
            IF i <= Len(reader.value) THEN reader.value[i] ELSE Unread]

(* The arrays that are not the cached one.                                 *)
Fresh(r, indices) ==
    DedupCount(indices) - IF CachedLocally(r, indices) THEN 1 ELSE 0

(* The dictionary of a batch: the arrays read now and, behind them, the    *)
(* cached one.                                                             *)
Dictionary(indices) ==
    LET cachedLocally == CachedLocally(reader, indices)
    IN  [k \in 1..DedupCount(indices) |->
            IF cachedLocally /\ k = DedupCount(indices)
            THEN CachedArray
            ELSE NextArray(reader.length, AfterLazy(cachedLocally), k)]

(* Where in the dictionary an index of the batch finds its array: indices  *)
(* are taken relative to the first.                                        *)
Normalized(indices, index) ==
    LET cachedLocally == CachedLocally(reader, indices)
        relative == index - BaseIndex(indices)
    IN  IF relative = 0 /\ cachedLocally THEN DedupCount(indices)
        ELSE relative + 1 - IF cachedLocally THEN 1 ELSE 0

(* idxToCache: the last array read, the cached one again if there is none. *)
IndexToCache(indices) ==
    IF Fresh(reader, indices) = 0 THEN 1 ELSE Fresh(reader, indices)

(* next: the slots that take a row, and what is read for them.  Without a  *)
(* row that is not null the cache stays, but for the elements a skip has   *)
(* left in the stream.                                                     *)
Next(bitmap) ==
    LET count == Cardinality(Selected(bitmap))
        index(i) == offsets[reader.row + Slot(bitmap, i)]
        indices == Indices(reader, count)
        any == DedupCount(indices) > 0
        cachedLocally == CachedLocally(reader, indices)
        kept == Dictionary(indices)[IndexToCache(indices)]
    IN  /\ reading
        /\ reader.row + count <= Len(rows)
        /\ out' = [i \in DOMAIN bitmap |->
                     IF ~bitmap[i] \/ index(i) = Null THEN Null
                     ELSE Dictionary(indices)[Normalized(indices, index(i))]]
        /\ reader' =
             [row |-> reader.row + count,
              length |-> reader.length + Fresh(reader, indices),
              element |-> AfterLazy(cachedLocally)
                            + LengthsSum(reader.length, Fresh(reader, indices)),
              cached |-> reader.cached \/ any,
              index |-> IF any THEN indices[Len(indices)] ELSE reader.index,
              value |-> IF any THEN kept ELSE reader.value,
              size |-> IF any THEN Len(kept) ELSE reader.size,
              lazy |-> reader.lazy /\ ~reader.cached /\ ~any,
              lazyRows |-> reader.lazyRows,
              dropped |-> /\ Fresh(reader, indices) = 0
                          /\ \/ reader.dropped
                             \/ reader.cached /\ reader.lazy /\ ~any]
        /\ UNCHANGED <<rows, streams, writer, reading>>

(* One round of skip: all new arrays but the last are skipped, of the last *)
(* only the length is read, and cachedValue_ keeps its elements.           *)
SkipRound(r, n) ==
    LET indices == Indices(r, n)
        fresh == Fresh(r, indices)
        lazy == IF r.cached /\ r.lazy THEN r.lazyRows ELSE 0
        last == lengths[r.length + fresh]
    IN  IF fresh = 0
        THEN [r EXCEPT !.row = @ + n]
        ELSE [row |-> r.row + n,
              length |-> r.length + fresh,
              element |-> r.element + lazy + LengthsSum(r.length, fresh - 1),
              cached |-> TRUE,
              index |-> indices[Len(indices)],
              value |-> r.value,
              size |-> last,
              lazy |-> TRUE,
              lazyRows |-> last,
              dropped |-> FALSE]

Skip(n) ==
    LET loop[k \in 0..n] ==
          IF k = 0 THEN [r |-> reader, left |-> n]
          ELSE LET s == loop[k - 1]
                   m == IF s.left < SkipBatch THEN s.left ELSE SkipBatch
               IN  IF s.left = 0 THEN s
                   ELSE [r |-> SkipRound(s.r, m), left |-> s.left - m]
    IN  /\ reading
        /\ reader.row + n <= Len(rows)
        /\ reader' = loop[n].r
        /\ out' = <<>>
        /\ UNCHANGED <<rows, streams, writer, reading>>

(* Mutant: the cached array survives the reset.                            *)
ResetReader_KeepsCache ==
    /\ reading
    /\ reader' = [reader EXCEPT !.row = 0, !.length = 0, !.element = 0]
    /\ out' = <<>>
    /\ UNCHANGED <<rows, streams, writer, reading>>

(* reset: cachedLazyLoad_ and the cached array stay behind, unused.        *)
ResetReader ==
    /\ reading
    /\ reader' = [reader EXCEPT !.row = 0, !.length = 0, !.element = 0,
                                !.cached = FALSE]
    /\ out' = <<>>
    /\ UNCHANGED <<rows, streams, writer, reading>>

-----------------------------------------------------------------------------
Init ==
    /\ rows = <<>>
    /\ offsets = <<>>
    /\ lengths = <<>>
    /\ elements = <<>>
    /\ writer = NoWriterCache
    /\ reading = FALSE
    /\ reader = NewReader
    /\ out = <<>>

Requests == UNION {[1..n -> BOOLEAN] : n \in 0..MaxSlots}

Step ==
    \/ \E n \in 1..MaxBatch :
         \/ \E batch \in [1..n -> Arrays \cup {Null}] : WriteArrays(batch)
         \/ \E dictionary \in [1..2 -> Arrays], index \in [1..n -> 1..2],
               nulls \in [1..n -> BOOLEAN] :
              WriteDictionary(dictionary, index, nulls)
    \/ FlushChunk
    \/ Reset
    \/ FinishStripe
    \/ \E bitmap \in Requests : Next(bitmap)
    \/ \E n \in 0..MaxRows : Skip(n)
    \/ ResetReader

Spec == Init /\ [][Step]_vars

-----------------------------------------------------------------------------
(* Properties                                                              *)

(* The array an offset stands for, read from the streams from the start.   *)
Stored(offset) == NextArray(offset, LengthsSum(0, offset), 1)

(* The three streams hold the rows written, whatever was found equal to    *)
(* what across calls, chunks and encodings of the batches; and they hold   *)
(* what the reader counts on: offsets that start at 0, stay or go up by 1, *)
(* and as many lengths as offsets in use.                                  *)
StreamsHoldRows ==
    LET used == NonNulls(offsets)
    IN  /\ Len(offsets) = Len(rows)
        /\ \A i \in DOMAIN rows :
             IF rows[i] = Null THEN offsets[i] = Null
             ELSE offsets[i] \in 0..(Len(lengths) - 1)
                  /\ rows[i] = Stored(offsets[i])
        /\ used # <<>> => used[1] = 0
        /\ \A k \in 2..Len(used) : used[k] - used[k - 1] \in {0, 1}
        /\ {used[k] : k \in DOMAIN used} = 0..(Len(lengths) - 1)

(* The writer's cache is the last array stored (the NIMBLE_ASSERT of       *)
(* ingestLengthsOffsetsByElements), however chunks were cut.               *)
CacheIsLastStored ==
    writer.cached => /\ writer.value = Stored(Len(lengths) - 1)
                     /\ writer.size = lengths[Len(lengths)]

(* What the writer has stored stands for the rows, and what it compares    *)
(* the next array with is the last one it stored.                          *)
WriterAligned == StreamsHoldRows /\ CacheIsLastStored

(* The lengths and elements the reader has consumed are those of the       *)
(* arrays its rows refer to; what a skip left in the stream of elements is *)
(* accounted for by the lazily cached array.                               *)
ReaderAligned ==
    LET used == NonNulls(SubSeq(offsets, 1, reader.row))
        pending == IF reader.cached /\ reader.lazy THEN reader.lazyRows ELSE 0
    IN  /\ reader.length = DedupCount(used)
        /\ reader.element + pending = LengthsSum(0, reader.length)

Cursor == INSTANCE StreamCursor WITH pos <- reader.row, result <- out

(* A call of next was for these slots, and but for the exceptions each     *)
(* holds its row.                                                          *)
Placed(bitmap, exceptions) ==
    /\ DOMAIN bitmap = DOMAIN out'
    /\ reader'.row = reader.row + Cardinality(Selected(bitmap))
    /\ \A i \in DOMAIN bitmap \ exceptions :
         out'[i] = Cursor!Delivered(bitmap)[i]

(* The slots for the cached array, if its elements were dropped.           *)
Lost(bitmap) ==
    {i \in Selected(bitmap) :
       /\ reader.cached /\ reader.dropped
       /\ offsets[reader.row + Slot(bitmap, i)] = reader.index}

(* Every slot of a call of next holds its row, over any mixture of calls,  *)
(* skips and resets.  The one exception: a call that found no row but null *)
(* ones dropped the elements of an array that a skip had cached; as long   *)
(* as no other array is met, the slots for that one have its length and    *)
(* the elements of an older array (FieldReader.cpp:983).                   *)
DeliversArrays ==
    [][reading /\ out' # <<>> =>
         \E bitmap \in Requests :
           /\ Placed(bitmap, Lost(bitmap))
           /\ \A i \in Lost(bitmap) :
                Len(out'[i]) = Len(Cursor!Delivered(bitmap)[i])]_vars
=============================================================================
