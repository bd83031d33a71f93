------------------------ MODULE ChunkedStreamDecoder ------------------------
(***************************************************************************)
(* dwio/nimble/velox/ChunkedStreamDecoder over an InMemoryChunkedStream:   *)
(* the rows of a stream, spread over chunks that were encoded one by one,  *)
(* some with a null bitmap and some without.                               *)
(*                                                                         *)
(* One call of next fills the caller's buffers chunk after chunk, in place *)
(* and back to front where slots have to stay free.  The bitmap of nulls   *)
(* is fetched from the caller only when a chunk needs it, with arbitrary   *)
(* contents: Unwritten.  Slots of buffers are numbered from 0, as in the   *)
(* code.                                                                   *)
(***************************************************************************)
EXTENDS RowSequences

CONSTANTS
    MaxChunks,      \* bound: chunks of the stream
    MaxRows,        \* bound: rows of a chunk
    MaxSlots,       \* bound: slots of a call of next
    ByteSize,       \* bits of a byte of a bitmap
    IsString,       \* values are views into the memory of their chunk
    Unwritten       \* memory nobody has written

(* A value: which one of which chunk, and whether its bytes were copied.   *)
Values == [chunk : 1..MaxChunks, index : 1..MaxRows, owned : BOOLEAN]

ASSUME DecoderAssumption ==
    /\ MaxChunks \in Nat
    /\ MaxRows \in Nat
    /\ MaxSlots \in Nat
    /\ ByteSize \in Nat \ {0}
    /\ IsString \in BOOLEAN
    /\ Null # Unwritten
    /\ Unwritten \notin BOOLEAN
    /\ {Null, Unwritten} \cap Values = {}

VARIABLES
    chunks,     \* the stream: nullable and non-null flags of every chunk
    nextChunk,  \* pos_ of the stream: chunks handed out
    remaining,  \* remaining_
    encoding,   \* encoding_: its chunk and the positions in nulls and values
    out         \* what the last call returned: nothing, unless it was next

vars == <<chunks, nextChunk, remaining, encoding, out>>

Slots == 0..(MaxSlots - 1)

RowCount(c) == Len(chunks[c].nonNull)

(* Rows of the first n chunks.                                             *)
RowsIn(n) == Total([c \in 1..n |-> RowCount(c)])

-----------------------------------------------------------------------------
(* The caller's buffers                                                    *)

(* The i-th value of chunk c, a view into its memory.                      *)
Value(c, i) == [chunk |-> c, index |-> i, owned |-> FALSE]

SetBits(bits, from, to, b) ==
    [i \in Slots |-> IF i >= from /\ i < to THEN b ELSE bits[i]]

(* BitmapBuilder::copy: whole bytes, so bits at and after `to` as well.    *)
CopyBits(bits, source, from, to) ==
    LET end == ((to + ByteSize - 1) \div ByteSize) * ByteSize
    IN  [i \in Slots |->
           IF i >= from /\ i < end
           THEN IF i < Len(source) THEN source[i + 1] ELSE Unwritten
           ELSE bits[i]]

(* The next n values of encoding e, at buffer[offset].                     *)
MaterializeValues(buffer, offset, e, n) ==
    [i \in Slots |->
        IF i >= offset /\ i < offset + n
        THEN Value(e.chunk, e.values + i - offset + 1)
        ELSE buffer[i]]

(* One value moves from `last` to `output`, if that slot takes one.        *)
SpreadStep(s, takes) ==
    IF s.output = s.last THEN s
    ELSE IF takes[s.output]
    THEN [buffer |-> [s.buffer EXCEPT ![s.output] = s.buffer[s.last]],
          output |-> s.output - 1, last |-> s.last - 1]
    ELSE [buffer |-> s.buffer, output |-> s.output - 1, last |-> s.last]

(* Spread the values that end at `last` over the slots up to `output`,     *)
(* back to front and in place, until the two meet; `takes` says which      *)
(* slots take a value.  Returns the buffer and the slot where they met.    *)
Spread(buffer, output, last, takes) ==
    LET st[k \in 0..(output + 1)] ==
          IF k = 0
          THEN [buffer |-> buffer, output |-> output, last |-> last]
          ELSE SpreadStep(st[k - 1], takes)
    IN  st[output + 1]

-----------------------------------------------------------------------------
(* The next n rows of encoding e, for the slots from s.offset up to end;   *)
(* scatter has a bit for every slot.                                       *)

(* TypedEncoding::materializeNullable                                      *)
TypedMaterialize(s, e, n, end, scatter) ==
    LET buffer == MaterializeValues(s.buffer, s.offset, e, n)
        takes == [i \in Slots |-> i < end /\ scatter[i + 1]]
    IN  IF end - s.offset = n
        THEN [buffer |-> buffer, bits |-> s.bits, asked |-> s.asked,
              nonNull |-> n]
        ELSE [buffer |-> Spread(buffer, end - 1, s.offset + n - 1,
                                takes).buffer,
              bits |-> CopyBits(s.bits, scatter, s.offset, end),
              asked |-> TRUE, nonNull |-> n]

(* NullableEncoding::materializeNullable                                   *)
NullableMaterialize(s, e, n, end, scatter) ==
    LET flags == chunks[e.chunk].nonNull
        m == Rank(flags, e.nulls + n) - Rank(flags, e.nulls)
        \* nonNullIt: the row a slot takes, counted from the end
        row(i) == e.nulls + n - (Rank(scatter, end) - Rank(scatter, i + 1))
        takes == [i \in Slots |-> /\ i >= s.offset /\ i < end
                                  /\ scatter[i + 1]
                                  /\ flags[row(i)]]
        buffer == MaterializeValues(s.buffer, s.offset, e, m)
        moved == Spread(buffer, end - 1, s.offset + m - 1, takes)
    IN  IF end - s.offset = m
        THEN [buffer |-> buffer, bits |-> s.bits, asked |-> s.asked,
              nonNull |-> m]
        ELSE [buffer |-> moved.buffer,
              bits |-> SetBits([i \in Slots |->
                                  IF i >= s.offset /\ i < end
                                  THEN i > moved.output /\ takes[i]
                                  ELSE s.bits[i]],
                               s.offset, moved.output + 1, TRUE),
              asked |-> TRUE, nonNull |-> m]

MaterializeNullable(s, e, n, end, scatter) ==
    IF chunks[e.chunk].nullable
    THEN NullableMaterialize(s, e, n, end, scatter)
    ELSE TypedMaterialize(s, e, n, end, scatter)

-----------------------------------------------------------------------------
(* ChunkedStreamDecoder                                                    *)

(* The position of the decoder: next, remaining, encoding.                 *)
EnsureLoaded(at) ==
    IF at.remaining = 0
    THEN [next |-> at.next + 1,
          remaining |-> RowCount(at.next + 1),
          encoding |-> [chunk |-> at.next + 1, nulls |-> 0, values |-> 0]]
    ELSE at

(* The encoding has gone on by n rows, and by the values of those rows     *)
(* that are not null.                                                      *)
Consumed(at, n, values) ==
    [next |-> at.next,
     remaining |-> at.remaining - n,
     encoding |-> [chunk |-> at.encoding.chunk,
                   nulls |-> at.encoding.nulls + n,
                   values |-> at.encoding.values + values]]

(* How many of count rows the loaded chunk has.                            *)
RowsToRead(count, at) ==
    IF count < at.remaining THEN count ELSE at.remaining

(* findSetBit: where the bitmap's n-th set bit from `begin` on is, or end. *)
FindSetBit(bitmap, begin, n) ==
    LET hits == {i \in begin..(Len(bitmap) - 1) :
                   /\ bitmap[i + 1]
                   /\ Rank(bitmap, i + 1) - Rank(bitmap, begin) = n}
    IN  IF hits = {} THEN Len(bitmap) ELSE CHOOSE i \in hits : TRUE

(* Mutant: the part of the bitmap before the first null is left as it is.  *)
FillNulls_NoBackFill(s, r, end) ==
    LET chunkHasNulls == r.nonNull # end - s.offset
    IN  IF s.hasNulls /\ ~chunkHasNulls
        THEN SetBits(r.bits, s.offset, end, TRUE)
        ELSE r.bits

(* The first chunk with nulls back fills the bitmap; a chunk without nulls *)
(* after it fills its own part.                                            *)
FillNulls(s, r, end) ==
    LET chunkHasNulls == r.nonNull # end - s.offset
        back == IF chunkHasNulls /\ ~s.hasNulls
                THEN SetBits(r.bits, 0, s.offset, TRUE)
                ELSE r.bits
    IN  IF s.hasNulls /\ ~chunkHasNulls
        THEN SetBits(back, s.offset, end, TRUE)
        ELSE back

(* Mutant: strings stay where they are.                                    *)
BufferStringContent_Never(buffer, bits, asked, from, to) == buffer

(* bufferStringContent: the strings of the slots that are not null are     *)
(* copied out of the chunk.                                                *)
BufferStringContent(buffer, bits, asked, from, to) ==
    [i \in Slots |->
        IF i >= from /\ i < to /\ (asked => bits[i] = TRUE)
        THEN [chunk |-> buffer[i].chunk, index |-> buffer[i].index,
              owned |-> TRUE]
        ELSE buffer[i]]

(* One iteration of next's loop: the rows of one chunk.                    *)
ReadChunk(s, scatter) ==
    LET at == EnsureLoaded(s.at)
        n == RowsToRead(s.count, at)
        end == FindSetBit(scatter, s.offset, n + 1)
        r == MaterializeNullable(s, at.encoding, n, end, scatter)
        bits == FillNulls(s, r, end)
    IN  [at |-> Consumed(at, n, r.nonNull),
         count |-> s.count - n,
         offset |-> end,
         buffer |-> IF IsString /\ n # s.count
                    THEN BufferStringContent(r.buffer, bits, r.asked,
                                             s.offset, end)
                    ELSE r.buffer,
         bits |-> bits,
         asked |-> r.asked,
         hasNulls |-> s.hasNulls \/ r.nonNull # end - s.offset,
         nonNull |-> s.nonNull + r.nonNull]

(* What the caller sees: the bitmap counts unless every slot is non-null.  *)
Visible(s, slots) ==
    [i \in 1..slots |->
        IF s.nonNull = slots \/ s.bits[i - 1] = TRUE THEN s.buffer[i - 1]
        ELSE IF s.bits[i - 1] = FALSE THEN Null
        ELSE Unwritten]

Here == [next |-> nextChunk, remaining |-> remaining, encoding |-> encoding]

(* The decoder moves, and a call returns.                                  *)
MoveTo(at, result) ==
    /\ nextChunk' = at.next
    /\ remaining' = at.remaining
    /\ encoding' = at.encoding
    /\ out' = result
    /\ UNCHANGED chunks

(* Rows that are left in the stream.                                       *)
Left == RowsIn(Len(chunks)) - RowsIn(nextChunk) + remaining

(* next: without a bitmap every slot takes a row.  No rows at all, and the *)
(* bitmap of nulls is cleared.                                             *)
Next(scatter) ==
    LET n == Rank(scatter, Len(scatter))
        start(bit) == [at |-> Here, count |-> n, offset |-> 0,
                       buffer |-> [i \in Slots |-> Unwritten],
                       bits |-> [i \in Slots |-> bit],
                       asked |-> FALSE, hasNulls |-> FALSE, nonNull |-> 0]
        loop[k \in 0..n] ==
          IF k = 0 THEN start(Unwritten)
          ELSE IF loop[k - 1].count = 0 THEN loop[k - 1]
          ELSE ReadChunk(loop[k - 1], scatter)
        end == IF n = 0 THEN start(FALSE) ELSE loop[n]
    IN  n <= Left /\ MoveTo(end.at, Visible(end, Len(scatter)))

(* One iteration of skip's loop: of the values, only those of rows that    *)
(* are not null are skipped.                                               *)
SkipChunk(s) ==
    LET at == EnsureLoaded(s.at)
        n == RowsToRead(s.count, at)
        e == at.encoding
        flags == chunks[e.chunk].nonNull
    IN  [at |-> Consumed(at, n, Rank(flags, e.nulls + n) - Rank(flags, e.nulls)),
         count |-> s.count - n]

(* skip                                                                    *)
Skip(n) ==
    LET loop[k \in 0..n] ==
          IF k = 0 THEN [at |-> Here, count |-> n]
          ELSE IF loop[k - 1].count = 0 THEN loop[k - 1]
          ELSE SkipChunk(loop[k - 1])
    IN  n <= Left /\ MoveTo(loop[n].at, <<>>)

(* reset: the loaded encoding stays behind, but is out of rows.            *)
Reset == MoveTo([next |-> 0, remaining |-> 0, encoding |-> encoding], <<>>)

(* ensureLoaded, as VeloxReader calls it when it loads a stripe.           *)
Load ==
    /\ remaining = 0 => nextChunk < Len(chunks)
    /\ MoveTo(EnsureLoaded(Here), <<>>)

-----------------------------------------------------------------------------
Flags(n) == UNION {[1..k -> BOOLEAN] : k \in 1..n}

(* A chunk has at least one row; without a null bitmap it has no nulls.    *)
EncodedChunk ==
    {c \in [nullable : BOOLEAN, nonNull : Flags(MaxRows)] :
        c.nullable \/ \A i \in DOMAIN c.nonNull : c.nonNull[i]}

Init ==
    /\ chunks \in UNION {[1..n -> EncodedChunk] : n \in 1..MaxChunks}
    /\ nextChunk = 0
    /\ remaining = 0
    /\ encoding = [chunk |-> 0, nulls |-> 0, values |-> 0]
    /\ out = <<>>

Requests == {<<>>} \cup Flags(MaxSlots)

Step ==
    \/ \E scatter \in Requests : Next(scatter)
    \/ \E n \in 0..(MaxChunks * MaxRows) : Skip(n)
    \/ Reset
    \/ Load

Spec == Init /\ [][Step]_vars

-----------------------------------------------------------------------------
(* Properties                                                              *)

(* All rows of the stream, in order.                                       *)
RowsOf(c) ==
    [i \in 1..RowCount(c) |->
        IF chunks[c].nonNull[i] THEN Value(c, Rank(chunks[c].nonNull, i))
        ELSE Null]

AllRows == FlattenSeq([c \in 1..Len(chunks) |-> RowsOf(c)])

(* What a slot shows, wherever the bytes of its value are.                 *)
Shown(cell) ==
    IF cell \in {Null, Unwritten} THEN cell ELSE Value(cell.chunk, cell.index)

Cursor == INSTANCE StreamCursor
            WITH rows <- AllRows,
                 pos <- RowsIn(nextChunk) - remaining,
                 result <- [i \in DOMAIN out |-> Shown(out[i])]

(* The decoder is a cursor over the rows of all chunks: whatever mix of    *)
(* nullable and plain chunks a call spans, wherever it starts and whatever *)
(* slots stay free, each slot holds its row and no bit or value the caller *)
(* looks at was left unwritten.                                            *)
ImplementsStreamCursor == Cursor!Spec

(* No string handed out points into a chunk that was dropped before next   *)
(* returned.                                                               *)
StringsOutliveTheirChunk ==
    [][IsString =>
         \A i \in DOMAIN out' :
           out'[i] \notin {Null, Unwritten} =>
             out'[i].owned \/ out'[i].chunk = encoding'.chunk]_vars
=============================================================================
