----------------------------- MODULE StreamData -----------------------------
(***************************************************************************)
(* velox/StreamData: what a field writer has buffered for one stream, the  *)
(* rules by which VeloxWriter::writeChunk cuts it into chunks, and the     *)
(* rows the chunks of a stream stand for.                                  *)
(***************************************************************************)
EXTENDS RowSequences

CONSTANTS
    MinStreamChunkRawSize,  \* options.minStreamChunkRawSize
    Undef                   \* memory nobody has written

ASSUME MinSizeAssumption == MinStreamChunkRawSize \in Nat

(* A NullsStreamData has no values, a ContentStreamData nothing else, a    *)
(* NullableContentStreamData both.                                         *)

EmptyData ==
    [nonNulls |-> <<>>, hasNulls |-> FALSE, bufferedCount |-> 0,
     values |-> <<>>]

AllTrue(n) == [i \in 1..n |-> TRUE]

(* The first n elements, whatever the buffer holds behind its size.        *)
UpdateSize(s, n) == [i \in 1..n |-> IF i <= Len(s) THEN s[i] ELSE Undef]

(* Mutant: the rows buffered before the first null stay as they are.       *)
EnsureNullsCapacity_NoBackFill(d, mayHaveNulls, size) ==
    LET newSize == d.bufferedCount + size
        filled == IF d.hasNulls /\ ~mayHaveNulls
                  THEN UpdateSize(d.nonNulls, d.bufferedCount)
                         \o AllTrue(size)
                  ELSE d.nonNulls
    IN  [d EXCEPT !.nonNulls = filled,
                  !.hasNulls = @ \/ mayHaveNulls,
                  !.bufferedCount = newSize]

(* ensureNullsCapacity: the first nulls back fill the bitmap; a batch      *)
(* without nulls after them fills its own part.                            *)
EnsureNullsCapacity(d, mayHaveNulls, size) ==
    LET back == IF mayHaveNulls /\ ~d.hasNulls
                THEN AllTrue(d.bufferedCount)
                ELSE d.nonNulls
        filled == IF d.hasNulls /\ ~mayHaveNulls
                  THEN UpdateSize(back, d.bufferedCount) \o AllTrue(size)
                  ELSE back
    IN  [nonNulls |-> filled,
         hasNulls |-> d.hasNulls \/ mayHaveNulls,
         bufferedCount |-> d.bufferedCount + size,
         values |-> d.values]

(* NullsStreamData::materialize                                            *)
Materialize(d) ==
    IF Len(d.nonNulls) < d.bufferedCount
    THEN d.nonNulls \o AllTrue(d.bufferedCount - Len(d.nonNulls))
    ELSE d.nonNulls

NotNull(x) == x # Null

(* iterateNonNulls: one flag for every row, one value for every row that   *)
(* is not null.                                                            *)
WriteField(d, rows, mayHaveNulls) ==
    LET e == EnsureNullsCapacity(d, mayHaveNulls, Len(rows))
    IN  [e EXCEPT !.nonNulls = IF mayHaveNulls
                               THEN @ \o [i \in DOMAIN rows |->
                                            NotNull(rows[i])]
                               ELSE @]

(* SimpleFieldWriter::write                                                *)
WriteColumn(d, rows, mayHaveNulls) ==
    [WriteField(d, rows, mayHaveNulls) EXCEPT
        !.values = @ \o NonNulls(rows)]

-----------------------------------------------------------------------------
(* Chunks                                                                  *)

(* Mutant: a stream that was kept back is dropped at the end of a stripe.  *)
IsDue_IgnoresEarlierChunks(isNullStream, size, d, content, lastChunk) ==
    LET min == IF lastChunk THEN 0 ELSE MinStreamChunkRawSize
    IN  IF isNullStream
        THEN d.hasNulls /\ Len(d.nonNulls) > min
        ELSE Len(d.values) * size > min

(* processStream: which streams are encoded now.  The last chunk of a      *)
(* stripe takes everything a stream with chunks still holds.               *)
IsDue(isNullStream, size, d, content, lastChunk) ==
    LET min == IF lastChunk THEN 0 ELSE MinStreamChunkRawSize
    IN  IF isNullStream
        THEN \/ d.hasNulls /\ Len(d.nonNulls) > min
             \/ /\ lastChunk
                /\ Len(d.nonNulls) > 0 \/ d.bufferedCount > 0
                /\ content # <<>>
        ELSE \/ Len(d.values) * size > min
             \/ lastChunk /\ Len(d.nonNulls) > 0 /\ content # <<>>

(* encodeStream: nulls become the data of their stream; a column has a     *)
(* nullable encoding when it has a bitmap.                                 *)
Chunk(isNullStream, d) ==
    IF isNullStream
    THEN [nullable |-> FALSE, nonNulls |-> <<>>, values |-> Materialize(d)]
    ELSE [nullable |-> d.hasNulls,
          nonNulls |-> IF d.hasNulls THEN d.nonNulls ELSE <<>>,
          values |-> d.values]

(* What a decoder makes of them.                                           *)
ChunkRows(ch) ==
    IF ch.nullable
    THEN [i \in DOMAIN ch.nonNulls |->
            IF ch.nonNulls[i] THEN ch.values[Rank(ch.nonNulls, i)] ELSE Null]
    ELSE ch.values

StreamRows(content) ==
    FlattenSeq([i \in DOMAIN content |-> ChunkRows(content[i])])
=============================================================================
