------------------------------ MODULE FlatMaps ------------------------------
(***************************************************************************)
(* A flat map column: FlatMapFieldWriter keeps for every key a stream that *)
(* says which maps have the key and the streams of its values, and         *)
(* StructFlatMapFieldReader and MergedFlatMapFieldReader put maps together *)
(* again.                                                                  *)
(*                                                                         *)
(* Keys appear while rows are written: in the middle of a stripe, after    *)
(* some streams were already flushed in chunks, or again in a later        *)
(* stripe.  The maps come as map vectors, or flattened into a row vector   *)
(* with one column per key.  Values are nullable scalars.                  *)
(***************************************************************************)
EXTENDS StreamData

CONSTANTS
    Keys,        \* keys callers write
    MapsAt(_),   \* the maps a caller may write in the n-th row of a stripe
    Selections,  \* flatMapFeatureSelector and readFlatMapFieldAsStruct
    ValueSize,   \* sizeof(T) of the values
    MaxRows,     \* bound: rows of a stripe
    MaxBatch     \* bound: rows of a call of write

(* A caller's map has a sequence of values for each of its keys: more than *)
(* one if it doubles the key.  The row it stands for has the first.        *)
FirstValues(map) == [k \in DOMAIN map |-> map[k][1]]

ASSUME FlatMapAssumption ==
    /\ IsFiniteSet(Keys)
    /\ Selections \subseteq [asStruct : BOOLEAN,
                             mode : {"All", "Include", "Exclude"},
                             features : SUBSET UNION {s.features :
                                                      s \in Selections}]
    /\ \A s \in Selections : s # Null /\ (s.asStruct => s.mode = "Include")
    /\ \A n \in 1..MaxRows : \A map \in MapsAt(n) \ {Null} :
         /\ DOMAIN map \subseteq Keys
         /\ \A k \in DOMAIN map :
              /\ map[k] \in Seq({map[k][i] : i \in DOMAIN map[k]})
              /\ map[k] # <<>>
         /\ FirstValues(map) # Null
    /\ ValueSize \in Nat \ {0}
    /\ MaxRows \in Nat
    /\ MaxBatch \in Nat

VARIABLES
    data,     \* StreamData of every stream
    streams,  \* the chunks of the open stripe, or of the one being read
    writer,   \* keys of currentValueFields_, allValueFields_ and
              \* currentPassthroughFields_, and nonNullCount_
    rows,     \* history: the rows of the stripe
    damaged,  \* history: keys whose contract a caller broke unnoticed
    failed,   \* a call of write threw
    reading,  \* the stripe is finished and being read
    reader,   \* the selection, and positions in the streams
    out       \* what the last call returned: nothing, unless it was next

vars == <<data, streams, writer, rows, damaged, failed, reading, reader, out>>

Nulls == <<"nulls">>
InMap(k) == <<"inMap", k>>
Value(k) == <<"value", k>>
Streams == {Nulls} \cup {InMap(k) : k \in Keys} \cup {Value(k) : k \in Keys}

NoData == [s \in Streams |-> EmptyData]
NoChunks == [s \in Streams |-> <<>>]
NewWriter == [current |-> {}, all |-> {}, passthrough |-> {}, count |-> 0]
NewReader ==
    [selection |-> Null, row |-> 0, inMap |-> [k \in Keys |-> 0],
     value |-> [k \in Keys |-> 0]]

-----------------------------------------------------------------------------
(* The writer                                                              *)

(* Every later call of the VeloxWriter throws: what is buffered is never   *)
(* written.                                                                *)
Throw ==
    /\ failed' = TRUE
    /\ UNCHANGED <<data, streams, writer, rows, damaged, reading, reader, out>>

CanWrite(batch) == ~reading /\ ~failed /\ Len(rows) + Len(batch) <= MaxRows

(* The value field of key k gets `present` behind its in-map stream, which *)
(* held `before`, and writes the values.                                   *)
WriteKey(k, before, present, values, mayHaveNulls) ==
    [InMap |-> [data[InMap(k)] EXCEPT !.values = before \o present],
     Value |-> IF values = <<>> THEN data[Value(k)]
               ELSE WriteColumn(data[Value(k)], values, mayHaveNulls)]

(* The streams after a call that wrote `fields`.                           *)
Written(batch, mayHaveNulls, fields) ==
    [s \in Streams |->
        IF s = Nulls THEN WriteField(data[s], batch, mayHaveNulls)
        ELSE IF s[2] \notin DOMAIN fields THEN data[s]
        ELSE IF s = InMap(s[2]) THEN fields[s[2]].InMap
        ELSE fields[s[2]].Value]

(* Mutant: a new key does not know of the maps before it.                  *)
Backfill_Nothing(k) == data[InMap(k)].values

(* getValueFieldWriter: a key that is new to this stripe was in none of    *)
(* the maps before, in whichever chunk they are.                           *)
Backfill(k) ==
    IF k \in writer.current THEN data[InMap(k)].values
    ELSE [i \in 1..writer.count |->
            i <= Len(data[InMap(k)].values) /\ data[InMap(k)].values[i]]

(* ingestMap.  A doubled key is noticed by add only where the in-map       *)
(* buffer is not empty.                                                    *)
IngestMap(batch) ==
    LET maps == NonNulls(batch)
        keys == UNION {DOMAIN maps[i] : i \in DOMAIN maps}
        fields == IF maps = <<>> THEN {} ELSE writer.current \cup keys
        doubled == {k \in keys : \E i \in DOMAIN maps :
                      k \in DOMAIN maps[i] /\ Len(maps[i][k]) > 1}
        values(k) == FlattenSeq([i \in DOMAIN maps |->
                       IF k \in DOMAIN maps[i] THEN maps[i][k] ELSE <<>>])
        present(k) == [i \in DOMAIN maps |-> k \in DOMAIN maps[i]]
        nullValues == \E k \in keys : \E i \in DOMAIN values(k) :
                        values(k)[i] = Null
    IN  /\ CanWrite(batch)
        /\ IF writer.passthrough # {} \/ \E k \in doubled : Backfill(k) # <<>>
           THEN Throw
           ELSE /\ data' = Written(batch, Len(maps) < Len(batch),
                     [k \in fields |->
                        WriteKey(k, Backfill(k), present(k), values(k),
                                 nullValues)])
                /\ writer' = [writer EXCEPT !.current = @ \cup keys,
                                            !.all = @ \cup keys,
                                            !.count = @ + Len(maps)]
                /\ rows' = rows \o [i \in DOMAIN batch |->
                             IF batch[i] = Null THEN Null
                             ELSE FirstValues(batch[i])]
                /\ damaged' = damaged \cup doubled
                /\ UNCHANGED <<streams, failed, reading, reader, out>>

(* Keys that some flattened maps of a stripe have and others do not.       *)
LeftOut(maps) ==
    {k \in Keys : \E i, j \in DOMAIN maps :
        /\ maps[i] # Null /\ k \in DOMAIN maps[i]
        /\ maps[j] # Null /\ k \notin DOMAIN maps[j]}

(* ingestFlattenedMap: every map has all columns.  The first call with a   *)
(* map makes the fields; later ones have to find theirs.                   *)
IngestFlattenedMap(columns, batch) ==
    LET maps == NonNulls(batch)
        values(k) == [i \in DOMAIN maps |-> maps[i][k]]
        hasNull(k) == \E i \in DOMAIN maps : maps[i][k] = Null
    IN  /\ CanWrite(batch)
        /\ IF \/ writer.all # {}
              \/ /\ maps # <<>> /\ writer.passthrough # {}
                 /\ ~(columns \subseteq writer.passthrough)
           THEN Throw
           ELSE /\ data' = Written(batch, Len(maps) < Len(batch),
                     [k \in IF maps = <<>> THEN {} ELSE columns |->
                        WriteKey(k, data[InMap(k)].values,
                                 AllTrue(Len(maps)), values(k),
                                 hasNull(k))])
                /\ writer' = [writer EXCEPT
                                !.passthrough = IF maps = <<>> THEN @
                                                ELSE @ \cup columns]
                /\ rows' = rows \o batch
                /\ damaged' = damaged \cup LeftOut(rows \o batch)
                /\ UNCHANGED <<streams, failed, reading, reader, out>>

-----------------------------------------------------------------------------
(* Chunks and stripes                                                      *)

SizeOf(s) == IF s[1] = "value" THEN ValueSize ELSE 1

Due(lastChunk) ==
    {s \in Streams :
        IsDue(s = Nulls, SizeOf(s), data[s], streams[s], lastChunk)}

Encoded(due) ==
    [s \in Streams |-> IF s \in due
                       THEN Append(streams[s], Chunk(s = Nulls, data[s]))
                       ELSE streams[s]]

(* writeChunk between two calls of write.                                  *)
FlushChunk ==
    /\ ~reading /\ ~failed
    /\ Due(FALSE) # {}
    /\ streams' = Encoded(Due(FALSE))
    /\ data' = [s \in Streams |-> IF s \in Due(FALSE) THEN EmptyData
                                  ELSE data[s]]
    /\ UNCHANGED <<writer, rows, damaged, failed, reading, reader, out>>

(* reset: the fields in use.                                               *)
ResetData ==
    [s \in Streams |->
        IF s = Nulls \/ s[2] \in writer.current \cup writer.passthrough
        THEN EmptyData ELSE data[s]]

(* The last chunk of a stripe, and on to the next stripe: the fields of    *)
(* all keys stay, those of flattened maps in use.                          *)
NextStripe ==
    /\ ~reading /\ ~failed
    /\ rows # <<>>
    /\ data' = ResetData
    /\ streams' = NoChunks
    /\ writer' = [writer EXCEPT !.current = {}, !.count = 0]
    /\ rows' = <<>>
    /\ damaged' = {}
    /\ UNCHANGED <<failed, reading, reader, out>>

-----------------------------------------------------------------------------
(* The readers                                                             *)

(* The children selected: from those of the schema, among which are all    *)
(* keys with a stream.                                                     *)
Projects(selection, k) ==
    CASE selection.mode = "All" -> TRUE
      [] selection.mode = "Include" -> k \in selection.features
      [] selection.mode = "Exclude" -> k \notin selection.features

(* createFlatMapReader: nodes of keys without an in-map stream are left    *)
(* out.                                                                    *)
Nodes ==
    {k \in Keys : Projects(reader.selection, k) /\ streams[InMap(k)] # <<>>}

(* The stripe is finished and opened for reading, through a selection that *)
(* leaves out damaged keys: their decoders run out of data.                *)
OpenStripe(selection) ==
    /\ ~reading /\ ~failed
    /\ rows # <<>>
    /\ ~\E k \in damaged : Projects(selection, k)
    /\ reading' = TRUE
    /\ streams' = Encoded(Due(TRUE))
    /\ reader' = [NewReader EXCEPT !.selection = selection]
    /\ data' = NoData
    /\ writer' = NewWriter
    /\ UNCHANGED <<rows, damaged, failed, out>>

Taken(s, from, n) == SubSeq(StreamRows(streams[s]), from + 1, from + n)

(* loadNulls: without the stream no map is null.                           *)
LoadNulls(n) ==
    IF streams[Nulls] = <<>> THEN AllTrue(n) ELSE Taken(Nulls, reader.row, n)

ReadInMapData(k, nonNull) == Taken(InMap(k), reader.inMap[k], nonNull)

(* A value reader without a stream is a NullColumnReader.                  *)
LoadValues(k, n) ==
    IF streams[Value(k)] = <<>> THEN [i \in 1..n |-> Null]
    ELSE Taken(Value(k), reader.value[k], n)

(* The decoders after n maps of which `nonNull` are not null.              *)
Advanced(n, nonNull) ==
    [reader EXCEPT
        !.row = @ + n,
        !.inMap = [k \in Keys |-> IF k \in Nodes THEN @[k] + nonNull ELSE @[k]],
        !.value = [k \in Keys |->
                     IF k \in Nodes
                     THEN @[k] + Rank(ReadInMapData(k, nonNull), nonNull)
                     ELSE @[k]]]

(* Mutant: in-map data is indexed by row, also behind a null map.          *)
ReadAsChild_ByRow(k, flags, inMap) ==
    LET values == LoadValues(k, Rank(inMap, Len(inMap)))
    IN  [i \in DOMAIN flags |->
            IF flags[i] /\ i <= Len(inMap) /\ inMap[i]
            THEN <<values[Rank(inMap, i)]>> ELSE <<>>]

(* mergeNulls and the scattered read of the values: what key k has in each *)
(* of the maps, nothing where the key is not in the map.                   *)
ReadAsChild(k, flags, inMap) ==
    LET values == LoadValues(k, Rank(inMap, Len(inMap)))
    IN  [i \in DOMAIN flags |->
            IF flags[i] /\ inMap[Rank(flags, i)]
            THEN <<values[Rank(inMap, Rank(flags, i))]>>
            ELSE <<>>]

(* A struct has every feature, with a null for a key that is missing; a    *)
(* merged map only the keys of the row.                                    *)
Row(children, i) ==
    IF reader.selection.asStruct
    THEN [k \in reader.selection.features |->
            IF k \in DOMAIN children /\ children[k][i] # <<>>
            THEN children[k][i][1] ELSE Null]
    ELSE [k \in {c \in DOMAIN children : children[c][i] # <<>>} |->
            children[k][i][1]]

(* next, of either reader.                                                 *)
Deliver(n, flags, nonNull) ==
    LET children == [k \in Nodes |->
                       ReadAsChild(k, flags, ReadInMapData(k, nonNull))]
    IN  /\ out' = [i \in 1..n |-> IF flags[i] THEN Row(children, i) ELSE Null]
        /\ reader' = Advanced(n, nonNull)

CanRead(n) == reading /\ reader.row + n <= Len(rows)

NextRows(n) ==
    /\ CanRead(n)
    /\ Deliver(n, LoadNulls(n), Rank(LoadNulls(n), n))
    /\ UNCHANGED <<data, streams, writer, rows, damaged, failed, reading>>

Skip(n) ==
    /\ CanRead(n)
    /\ reader' = Advanced(n, Rank(LoadNulls(n), n))
    /\ out' = <<>>
    /\ UNCHANGED <<data, streams, writer, rows, damaged, failed, reading>>

ResetReader ==
    /\ reading
    /\ reader' = [NewReader EXCEPT !.selection = reader.selection]
    /\ out' = <<>>
    /\ UNCHANGED <<data, streams, writer, rows, damaged, failed, reading>>

-----------------------------------------------------------------------------
Init ==
    /\ data = NoData
    /\ streams = NoChunks
    /\ writer = NewWriter
    /\ rows = <<>>
    /\ damaged = {}
    /\ failed = FALSE
    /\ reading = FALSE
    /\ reader = NewReader
    /\ out = <<>>

(* The values of a row: its number, so that rows differ.                   *)
FlattenedAt(columns, n) == {Null} \cup [columns -> {n, Null}]

(* The next k rows of a caller, out of At(n) for the n-th row.             *)
Batches(At(_), k) ==
    {b \in [1..k -> UNION {At(Len(rows) + i) : i \in 1..k}] :
        \A i \in 1..k : b[i] \in At(Len(rows) + i)}

Next ==
    \/ \E k \in 1..MaxBatch :
         \/ \E batch \in Batches(MapsAt, k) : IngestMap(batch)
         \/ \E columns \in (SUBSET Keys) \ {{}} :
              \E batch \in Batches(LAMBDA n : FlattenedAt(columns, n), k) :
                IngestFlattenedMap(columns, batch)
    \/ FlushChunk
    \/ NextStripe
    \/ \E selection \in Selections : OpenStripe(selection)
    \/ \E n \in 0..MaxRows : NextRows(n) \/ Skip(n)
    \/ ResetReader

Spec == Init /\ [][Next]_vars

-----------------------------------------------------------------------------
(* Properties                                                              *)

(* All rows of a stream, flushed or buffered.                              *)
Held(s) == StreamRows(streams[s]) \o ChunkRows(Chunk(s = Nulls, data[s]))

KeyHolds(k, flags, inMap, values) ==
    /\ inMap # <<>> => Len(inMap) = Rank(flags, Len(flags))
    /\ Len(values) = Rank(inMap, Len(inMap))
    /\ \A i \in DOMAIN rows : flags[i] =>
         /\ k \in DOMAIN rows[i] <=> inMap # <<>> /\ inMap[Rank(flags, i)]
         /\ k \in DOMAIN rows[i] =>
              rows[i][k] = values[Rank(inMap, Rank(flags, i))]

(* Chunk by chunk, the streams of a key say which of the maps have it and  *)
(* what their values are, whenever the key was first seen.  A caller that  *)
(* doubles a key in a map or leaves one out of a flattened map, and gets   *)
(* away with it, harms no other key.                                       *)
StreamsHoldMaps ==
    ~reading /\ ~failed =>
        /\ Len(Held(Nulls)) = Len(rows)
        /\ \A i \in DOMAIN rows : Held(Nulls)[i] <=> rows[i] # Null
        /\ \A k \in Keys \ damaged :
             KeyHolds(k, Held(Nulls), Held(InMap(k)), Held(Value(k)))

Projected(row) ==
    LET selection == reader.selection
    IN  IF row = Null \/ selection = Null THEN row
        ELSE IF selection.asStruct
        THEN [k \in selection.features |-> IF k \in DOMAIN row THEN row[k]
                                           ELSE Null]
        ELSE [k \in {c \in DOMAIN row : Projects(selection, c)} |-> row[k]]

Cursor == INSTANCE StreamCursor
            WITH rows <- [i \in DOMAIN rows |-> Projected(rows[i])],
                 pos <- reader.row, result <- out,
                 Requests <- {AllTrue(n) : n \in 0..MaxRows}

(* Through any selection, as a struct or as a map, the reader is a cursor  *)
(* over the maps written, in any order of next, skip and reset.            *)
DeliversMaps == [][reading => Cursor!Step]_vars
=============================================================================
