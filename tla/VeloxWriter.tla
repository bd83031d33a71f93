---------------------------- MODULE VeloxWriter ----------------------------
(***************************************************************************)
(* dwio/nimble/velox/VeloxWriter for a table of nullable scalar columns:   *)
(* batches of rows are split into streams (RowFieldWriter and              *)
(* SimpleFieldWriter over StreamData), streams are cut into chunks and     *)
(* chunks are collected into stripes, when the flush policy says so.       *)
(*                                                                         *)
(* The stream of the root's nulls and the streams of the columns are       *)
(* flushed independently: a stream that is short, or has no nulls yet, is  *)
(* kept back while the others go on.  Nothing is written for a stream of   *)
(* nulls without nulls nor for a column without values.                    *)
(***************************************************************************)
EXTENDS StreamData, FiniteSetsExt

CONSTANTS
    Columns,                \* the children of the root row
    Root,                   \* names the root's stream of nulls
    ValueSize,              \* sizeof(T) of a column's values
    EnableChunking,         \* options.enableChunking
    MaxRows,                \* bound: rows written to the file
    MaxBatch                \* bound: rows of a call of write

ASSUME WriterAssumption ==
    /\ IsFiniteSet(Columns)
    /\ Root \notin Columns
    /\ ValueSize \in Nat \ {0}
    /\ EnableChunking \in BOOLEAN
    /\ MaxRows \in Nat
    /\ MaxBatch \in Nat

VARIABLES
    data,           \* StreamData of every stream
    streams,        \* streams_: the chunks of the open stripe
    memoryUsed,     \* context_->memoryUsed: the flush policy's rawStripeSize
    rowsInStripe,   \* context_->rowsInStripe
    rowsInFile,     \* context_->rowsInFile
    rowsPerStripe,  \* context_->rowsPerStripe
    file,           \* file_ is "open" or "null"
    lastException,  \* lastException_ is set
    stripes,        \* what writer_ was given, stripe by stripe
    footer,         \* writer_.close() was reached
    written         \* history: rows of the calls of write that returned

context == <<memoryUsed, rowsInStripe, rowsInFile, rowsPerStripe>>
vars == <<data, streams, context, file, lastException, stripes, footer,
          written>>

Streams == {Root} \cup Columns

-----------------------------------------------------------------------------
MemoryUsed(d) == Len(d.values) * ValueSize + Len(d.nonNulls)

TotalMemory(buf) ==
    MapThenSumSet(LAMBDA s : MemoryUsed(buf.data[s]), Streams)

-----------------------------------------------------------------------------
(* Field writers                                                           *)

(* RowFieldWriter::write: the columns get the rows that are not null. The  *)
(* columns in `done` are written, all of them unless the call fails.       *)
WriteRows(batch, may, done) ==
    LET rows == NonNulls(batch)
        column(c) == [i \in DOMAIN rows |-> rows[i][c]]
    IN  [s \in Streams |->
            IF s = Root THEN WriteField(data[s], batch, may[s])
            ELSE IF s \in done THEN WriteColumn(data[s], column(s), may[s])
            ELSE data[s]]

-----------------------------------------------------------------------------
(* Chunks and stripes                                                      *)

(* buf holds the stream data and the chunks of the open stripe.            *)
Due(buf, lastChunk) ==
    {s \in Streams :
        IsDue(s = Root, ValueSize, buf.data[s], buf.streams[s], lastChunk)}

(* encode, for the streams in `done`.                                      *)
Encode(buf, done) ==
    [data |-> [s \in Streams |->
                 IF s \in done THEN EmptyData ELSE buf.data[s]],
     streams |-> [s \in Streams |->
                    IF s \in done
                    THEN Append(buf.streams[s], Chunk(s = Root, buf.data[s]))
                    ELSE buf.streams[s]]]

NoData == [s \in Streams |-> EmptyData]

(* writeChunk: the last one of a stripe resets all field writers, so that  *)
(* what was not due is gone.                                               *)
WriteChunk(buf, lastChunk) ==
    LET encoded == Encode(buf, Due(buf, lastChunk))
    IN  IF lastChunk THEN [encoded EXCEPT !.data = NoData] ELSE encoded

NoChunks == [s \in Streams |-> <<>>]

(* writeStripe, of r rows: only streams with chunks reach the tablet.      *)
Stripe(buf, r) ==
    [rowCount |-> r,
     streams |-> [s \in {t \in Streams : buf.streams[t] # <<>>} |->
                    buf.streams[s]]]

-----------------------------------------------------------------------------
(* Calls                                                                   *)

(* The exception is remembered and thrown by every later call.             *)
Threw(buf) ==
    /\ data' = buf.data
    /\ streams' = buf.streams
    /\ lastException' = TRUE
    /\ UNCHANGED <<rowsPerStripe, footer, written>>

(* The streams of a chunk are encoded one by one, or on an executor: some  *)
(* are done when one of them throws.                                       *)
FailChunk(buf, lastChunk) ==
    /\ \E done \in SUBSET Due(buf, lastChunk) :
         /\ done # Due(buf, lastChunk)
         /\ Threw(Encode(buf, done))
    /\ UNCHANGED stripes

(* The stripe of r rows in buf is written and the context starts over.     *)
EndStripe(buf, r) ==
    LET last == WriteChunk(buf, TRUE)
    IN  /\ data' = last.data
        /\ streams' = NoChunks
        /\ stripes' = Append(stripes, Stripe(last, r))
        /\ rowsPerStripe' = Append(rowsPerStripe, r)
        /\ memoryUsed' = 0
        /\ rowsInStripe' = 0

(* The tablet's writeStripe throws, or the check of the stripe's size      *)
(* after it; the streams were moved into the call.                         *)
FailStripe(buf, r) ==
    \/ FailChunk(buf, TRUE)
    \/ /\ Threw([data |-> NoData, streams |-> NoChunks])
       /\ stripes' \in {stripes,
                        Append(stripes, Stripe(WriteChunk(buf, TRUE), r))}

Keep(buf, r, m) ==
    /\ data' = buf.data
    /\ streams' = buf.streams
    /\ memoryUsed' = m
    /\ rowsInStripe' = r
    /\ UNCHANGED <<rowsPerStripe, stripes>>

CanCall == ~lastException

(* Values of a row: the row's number, so that all values differ.           *)
RowsAt(n) == {Null} \cup [Columns -> {Null, n}]
Batches ==
    UNION {{b \in [1..k -> UNION {RowsAt(rowsInFile + i) : i \in 1..k}] :
              \A i \in 1..k : b[i] \in RowsAt(rowsInFile + i)} :
           k \in 0..MaxBatch}

(* mayHaveNulls of the vectors of a batch: exact, or an over estimate.     *)
MayHaveNulls(batch) ==
    {may \in [Streams -> BOOLEAN] :
        \A s \in Streams :
          (\E i \in DOMAIN batch :
             IF s = Root THEN batch[i] = Null
             ELSE batch[i] # Null /\ batch[i][s] = Null) => may[s]}

(* write, from the field writers to tryWriteStripe.  first and second are  *)
(* the answers of the flush policy; it is asked again after a chunk.       *)
Write(batch, may, first, second) ==
    LET buf == [data |-> WriteRows(batch, may, Columns), streams |-> streams]
        m == TotalMemory(buf)
        r == rowsInStripe + Len(batch)
        chunked == first = "Chunk" /\ EnableChunking
        next == IF chunked
                THEN WriteChunk(buf, FALSE)
                ELSE buf
        decision == IF chunked THEN second ELSE first
    IN  /\ CanCall
        /\ file = "open"
        /\ rowsInFile + Len(batch) <= MaxRows
        /\ rowsInFile' = rowsInFile + Len(batch)
        /\ written' = written \o batch
        /\ IF r > 0 /\ decision = "Stripe"
           THEN EndStripe(next, r)
           ELSE Keep(IF r = 0 THEN buf ELSE next, r, m)
        /\ UNCHANGED <<file, lastException, footer>>

(* Mutant: an exception in a field writer is not remembered.               *)
WriteFails_Forgets(batch, may, done) ==
    /\ CanCall
    /\ file = "open"
    /\ rowsInFile + Len(batch) <= MaxRows
    /\ data' = WriteRows(batch, may, done)
    /\ UNCHANGED <<streams, context, file, lastException, stripes, footer,
                   written>>

(* A field writer throws: only some columns have the rows.                 *)
WriteFails(batch, may, done) ==
    /\ CanCall
    /\ file = "open"
    /\ rowsInFile + Len(batch) <= MaxRows
    /\ Threw([data |-> WriteRows(batch, may, done), streams |-> streams])
    /\ UNCHANGED <<memoryUsed, rowsInStripe, rowsInFile, file, stripes>>

(* Everything is buffered, but a chunk or the stripe fails.                *)
WriteFailsLater(batch, may, first, second) ==
    LET buf == [data |-> WriteRows(batch, may, Columns), streams |-> streams]
        m == TotalMemory(buf)
        r == rowsInStripe + Len(batch)
        chunked == first = "Chunk" /\ EnableChunking
        decision == IF chunked THEN second ELSE first
    IN  /\ CanCall
        /\ file = "open"
        /\ rowsInFile + Len(batch) <= MaxRows
        /\ r > 0
        /\ rowsInFile' = rowsInFile + Len(batch)
        /\ memoryUsed' = m
        /\ rowsInStripe' = r
        /\ \/ chunked /\ FailChunk(buf, FALSE)
           \/ /\ decision = "Stripe"
              /\ FailStripe(IF chunked
                            THEN WriteChunk(buf, FALSE)
                            ELSE buf, r)
        /\ UNCHANGED file

Buffered == [data |-> data, streams |-> streams]

(* flush forces a stripe, if there are rows for one.                       *)
Flush ==
    /\ CanCall
    /\ IF rowsInStripe > 0
       THEN EndStripe(Buffered, rowsInStripe)
       ELSE Keep(Buffered, rowsInStripe, memoryUsed)
    /\ UNCHANGED <<rowsInFile, file, lastException, footer, written>>

FlushFails ==
    /\ CanCall
    /\ rowsInStripe > 0
    /\ FailStripe(Buffered, rowsInStripe)
    /\ UNCHANGED <<memoryUsed, rowsInStripe, rowsInFile, file>>

(* close: flush, the sections, the footer.  A second call does nothing.    *)
Close ==
    /\ CanCall
    /\ IF file = "open" /\ rowsInStripe > 0
       THEN EndStripe(Buffered, rowsInStripe)
       ELSE Keep(Buffered, rowsInStripe, memoryUsed)
    /\ file' = "null"
    /\ footer' = TRUE
    /\ UNCHANGED <<rowsInFile, lastException, written>>

(* The flush of close fails, or a section, the tablet's close or the       *)
(* file's after it.                                                        *)
CloseFails ==
    /\ CanCall
    /\ file = "open"
    /\ file' = "null"
    /\ \/ /\ rowsInStripe > 0
          /\ FailStripe(Buffered, rowsInStripe)
          /\ UNCHANGED <<memoryUsed, rowsInStripe, rowsInFile>>
       \/ /\ IF rowsInStripe > 0
             THEN EndStripe(Buffered, rowsInStripe)
             ELSE Keep(Buffered, rowsInStripe, memoryUsed)
          /\ lastException' = TRUE
          /\ footer' \in BOOLEAN
          /\ UNCHANGED <<rowsInFile, written>>

FlushDecision == {"None", "Stripe", "Chunk"}
Answers(first) == IF first = "Chunk" THEN FlushDecision ELSE {first}

Init ==
    /\ data = NoData
    /\ streams = NoChunks
    /\ memoryUsed = 0
    /\ rowsInStripe = 0
    /\ rowsInFile = 0
    /\ rowsPerStripe = <<>>
    /\ file = "open"
    /\ lastException = FALSE
    /\ stripes = <<>>
    /\ footer = FALSE
    /\ written = <<>>

Next ==
    \/ \E batch \in Batches : \E may \in MayHaveNulls(batch) :
         \/ \E first \in FlushDecision : \E second \in Answers(first) :
              \/ Write(batch, may, first, second)
              \/ WriteFailsLater(batch, may, first, second)
         \/ \E done \in SUBSET Columns : WriteFails(batch, may, done)
    \/ Flush
    \/ FlushFails
    \/ Close
    \/ CloseFails

Spec == Init /\ [][Next]_vars

-----------------------------------------------------------------------------
(* What a reader makes of a stripe                                         *)

(* Which rows of a stripe are not null: without the stream, all.           *)
Flags(stripe) ==
    IF Root \in DOMAIN stripe.streams THEN StreamRows(stripe.streams[Root])
    ELSE AllTrue(stripe.rowCount)

NonNullCount(stripe) == Rank(Flags(stripe), Len(Flags(stripe)))

(* The rows of a column: without the stream, all null.                     *)
ColumnRows(stripe, c) ==
    IF c \in DOMAIN stripe.streams THEN StreamRows(stripe.streams[c])
    ELSE [i \in 1..NonNullCount(stripe) |-> Null]

(* Streams of a stripe that agree on its rows; a bitmap that agrees with   *)
(* the values under it.                                                    *)
WellFormed(stripe) ==
    /\ \A s \in DOMAIN stripe.streams :
         \A i \in DOMAIN stripe.streams[s] :
           LET ch == stripe.streams[s][i]
           IN  ch.nullable =>
                 Cardinality({j \in DOMAIN ch.nonNulls :
                                ch.nonNulls[j] = TRUE}) = Len(ch.values)
    /\ Len(Flags(stripe)) = stripe.rowCount
    /\ \A c \in Columns : Len(ColumnRows(stripe, c)) = NonNullCount(stripe)

StripeRows(stripe) ==
    IF WellFormed(stripe)
    THEN [i \in 1..stripe.rowCount |->
            IF Flags(stripe)[i]
            THEN [c \in Columns |->
                    ColumnRows(stripe, c)[Rank(Flags(stripe), i)]]
            ELSE Null]
    ELSE <<Undef>>

FileRows == FlattenSeq([i \in DOMAIN stripes |-> StripeRows(stripes[i])])

-----------------------------------------------------------------------------
(* Properties                                                              *)

(* While nothing failed, the streams of the open stripe stand at the same  *)
(* row, whichever of them were flushed in chunks, and every bitmap covers  *)
(* the rows buffered with it, or none of them.                             *)
StreamsAligned ==
    ~lastException =>
        LET held(s) == Len(StreamRows(streams[s])) + data[s].bufferedCount
            flags == StreamRows(streams[Root]) \o Materialize(data[Root])
        IN  /\ held(Root) = rowsInStripe
            /\ \A c \in Columns :
                 /\ held(c) = Rank(flags, Len(flags))
                 /\ Len(data[c].values) =
                      IF data[c].hasNulls
                      THEN Rank(data[c].nonNulls, Len(data[c].nonNulls))
                      ELSE data[c].bufferedCount
            /\ \A s \in Streams :
                 Len(data[s].nonNulls) =
                   IF data[s].hasNulls THEN data[s].bufferedCount ELSE 0

Status ==
    IF lastException THEN "failed" ELSE IF footer THEN "complete"
    ELSE "writing"

File == INSTANCE RowFile
          WITH accepted <- written, durable <- FileRows, status <- Status,
               Rows <- {Null} \cup [Columns -> {Null} \cup 1..MaxRows]

(* Rows survive the split into streams, chunks and stripes: the stripes    *)
(* read back as the first rows written, a stripe ends with the last row    *)
(* written, a successful close leaves all of them, and after a failure     *)
(* there is no more progress.                                              *)
ImplementsRowFile == File!Spec

(* A file with a footer holds exactly the rows of the calls of write that  *)
(* returned, even where a call failed before or close reported a failure.  *)
FinishedFileComplete == footer => FileRows = written
=============================================================================
