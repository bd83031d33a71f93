------------------------- MODULE VeloxWriterProofs -------------------------
(***************************************************************************)
(* Proofs about VeloxWriter: the streams of a stripe stay aligned however  *)
(* they are cut into chunks, a file with a footer reads back as the rows   *)
(* written, and the writer implements RowFile.                             *)
(*                                                                         *)
(* The invariant follows the rows: at any time the rows of the open stripe *)
(* that a stream has taken are those its chunks read back as, followed by  *)
(* those its StreamData buffers.                                           *)
(***************************************************************************)
EXTENDS VeloxWriter, SequenceFacts

Value == {Null} \cup 1..MaxRows
RowSet == {Null} \cup [Columns -> Value]


-----------------------------------------------------------------------------
(* The rows of a stripe and what its streams take of them                  *)

Column(rows, c) == [i \in DOMAIN NonNulls(rows) |-> NonNulls(rows)[i][c]]

(* The root takes all rows, a column its values of those that are there.   *)
Taken(s, rows) == IF s = Root THEN rows ELSE Column(rows, s)
Elements(s) == IF s = Root THEN RowSet ELSE Value

(* A column has a value or a null for every row that is there.             *)
LEMMA ColumnType ==
    ASSUME NEW rows \in Seq(RowSet), NEW c \in Columns
    PROVE  Column(rows, c) \in Seq(Value) /\ Len(Column(rows, c)) = Len(NonNulls(rows))
<1> DEFINE w == NonNulls(rows)
           n == Len(w)
<1>1. w \in Seq(RowSet)
  BY WithoutType DEF NonNulls
<1>2. \A k \in 1..n : \E i \in 1..Len(rows) : rows[i] # Null /\ w[k] = rows[i]
  BY WithoutElement DEF NonNulls
<1> HIDE DEF w
<1>3. ASSUME NEW k \in 1..n PROVE w[k][c] \in Value
  <2>1. PICK i \in 1..Len(rows) : rows[i] # Null /\ w[k] = rows[i]
    BY <1>2
  <2>2. rows[i] \in RowSet
    OBVIOUS
  <2>3. w[k] \in [Columns -> Value]
    BY <2>1, <2>2 DEF RowSet
  <2> QED  BY <2>3
<1>4. DOMAIN w = 1..n /\ n \in Nat
  BY <1>1
<1> HIDE DEF n
<1>5. Column(rows, c) \in [1..n -> Value]
  BY <1>3, <1>4 DEF Column, w
<1>. QED  BY <1>4, <1>5 DEF n, w

(* The column of more rows follows that of the first.                      *)
LEMMA ColumnConcat ==
    ASSUME NEW a \in Seq(RowSet), NEW b \in Seq(RowSet), NEW c \in Columns
    PROVE  Column(a \o b, c) = Column(a, c) \o Column(b, c)
<1> DEFINE v == NonNulls(a)
           w == NonNulls(b)
           ab == a \o b
           p == Column(a, c)
           q == Column(b, c)
           r == Column(ab, c)
<1>1. v \in Seq(RowSet) /\ w \in Seq(RowSet) /\ NonNulls(ab) = v \o w
  <2>1. v \in Seq(RowSet) /\ w \in Seq(RowSet)
    BY WithoutType DEF NonNulls
  <2>2. NonNulls(ab) = v \o w
    BY WithoutConcat DEF NonNulls
  <2> QED  BY <2>1, <2>2
<1>2. /\ p \in Seq(Value) /\ Len(p) = Len(v)
      /\ q \in Seq(Value) /\ Len(q) = Len(w)
  BY ColumnType
<1>3. ab \in Seq(RowSet)
  OBVIOUS
<1> HIDE DEF ab
<1>4. r \in Seq(Value) /\ Len(r) = Len(v \o w)
  BY <1>1, <1>3, ColumnType
<1>5. /\ \A i \in DOMAIN v : p[i] = v[i][c]
      /\ \A i \in DOMAIN w : q[i] = w[i][c]
      /\ \A i \in DOMAIN (v \o w) : r[i] = (v \o w)[i][c]
  BY <1>1 DEF Column
<1> HIDE DEF p, q, r, v, w
<1>6. Len(v) \in Nat /\ Len(w) \in Nat /\ Len(v \o w) = Len(v) + Len(w)
      /\ DOMAIN v = 1..Len(v) /\ DOMAIN w = 1..Len(w)
      /\ DOMAIN (v \o w) = 1..(Len(v) + Len(w))
  BY <1>1
<1> DEFINE pq == p \o q
<1>7. pq \in Seq(Value) /\ Len(pq) = Len(v) + Len(w)
  <2>1. p \in Seq(Value) /\ q \in Seq(Value)
    BY <1>2
  <2>2. pq \in Seq(Value) /\ Len(pq) = Len(p) + Len(q)
    BY <2>1, ConcatType
  <2> QED  BY <1>2, <2>2
<1>8. ASSUME NEW i \in 1..(Len(v) + Len(w)) PROVE r[i] = pq[i]
  <2>1. CASE i \in 1..Len(v)
    <3>1. (v \o w)[i] = v[i]
      BY <1>1, <2>1
    <3>2. pq[i] = p[i]
      BY <1>2, <1>6, <2>1
    <3> QED  BY <1>5, <1>6, <2>1, <3>1, <3>2
  <2>2. CASE i \notin 1..Len(v)
    <3>1. i - Len(v) \in 1..Len(w)
      BY <1>6, <2>2
    <3>2. (v \o w)[i] = w[i - Len(v)]
      BY <1>1, <1>6, <2>2
    <3>3. pq[i] = q[i - Len(v)]
      BY <1>2, <1>6, <2>2
    <3> QED  BY <1>5, <1>6, <3>1, <3>2, <3>3
  <2> QED  BY <2>1, <2>2
<1> HIDE DEF pq
<1>9. Len(r) = Len(pq) /\ \A i \in 1..Len(r) : r[i] = pq[i]
  BY <1>4, <1>6, <1>7, <1>8
<1>10. r = pq
  BY <1>4, <1>7, <1>9
<1>. QED  BY <1>10 DEF r, pq, p, q, ab

(* What a stream takes is a sequence of its elements.                      *)
LEMMA TakenType ==
    ASSUME NEW rows \in Seq(RowSet), NEW s \in Streams
    PROVE  Taken(s, rows) \in Seq(Elements(s))
<1>1. CASE s = Root
  BY <1>1 DEF Taken, Elements
<1>2. CASE s # Root
  <2>1. s \in Columns
    BY <1>2 DEF Streams
  <2> QED  BY <1>2, <2>1, ColumnType DEF Taken, Elements
<1>. QED  BY <1>1, <1>2

(* All streams have taken the same rows of the open stripe.                *)
AllHeld(buffered, chunks, rows) ==
    \A s \in Streams :
      StreamHolds(s = Root, Elements(s), buffered[s], chunks[s], Taken(s, rows))

(* At the start of a stripe they have taken none.                          *)
LEMMA NoneHeld ==
    AllHeld(NoData, NoChunks, <<>>)
<1> SUFFICES ASSUME NEW s \in Streams
             PROVE  StreamHolds(s = Root, Elements(s), NoData[s], NoChunks[s], Taken(s, <<>>))
  BY DEF AllHeld
<1>1. NoData[s] = EmptyData /\ NoChunks[s] = <<>>
  BY DEF NoData, NoChunks
<1>2. Taken(s, <<>>) = <<>>
  <2>1. NonNulls(<<>>) = <<>>
    BY WithoutEmpty DEF NonNulls
  <2> QED  BY <2>1 DEF Taken, Column
<1> DEFINE isNullStream == s = Root
<1>3. isNullStream \in BOOLEAN
  OBVIOUS
<1> HIDE DEF isNullStream
<1>4. StreamHolds(isNullStream, Elements(s), EmptyData, <<>>, <<>>)
  BY <1>3, HeldEmpty
<1>. QED  BY <1>1, <1>2, <1>4 DEF isNullStream

(* mayHaveNulls never says no where a stream gets a null.                  *)
LEMMA MayCovers ==
    ASSUME NEW batch \in Seq(RowSet), NEW may \in MayHaveNulls(batch),
           NEW s \in Streams
    PROVE  may[s] \in BOOLEAN /\ (may[s] \/ NoNulls(Taken(s, batch)))
<1>1. /\ may \in [Streams -> BOOLEAN]
      /\ (\E i \in DOMAIN batch :
             IF s = Root THEN batch[i] = Null
             ELSE batch[i] # Null /\ batch[i][s] = Null) => may[s]
  BY DEF MayHaveNulls
<1>2. may[s] \in BOOLEAN
  BY <1>1
<1>3. CASE s = Root
  BY <1>1, <1>2, <1>3 DEF NoNulls, Taken
<1>4. CASE s # Root
  <2> SUFFICES ASSUME ~may[s], NEW k \in DOMAIN Column(batch, s)
               PROVE  Column(batch, s)[k] # Null
    BY <1>2, <1>4 DEF NoNulls, Taken
  <2> DEFINE w == NonNulls(batch)
  <2>1. w \in Seq(RowSet)
    BY WithoutType DEF NonNulls
  <2>2. k \in DOMAIN w /\ Column(batch, s)[k] = w[k][s]
    BY DEF Column
  <2>3. \A j \in 1..Len(w) : \E i \in 1..Len(batch) : batch[i] # Null /\ w[j] = batch[i]
    BY WithoutElement DEF NonNulls
  <2> HIDE DEF w
  <2>4. k \in 1..Len(w)
    BY <2>1, <2>2
  <2>5. PICK i \in 1..Len(batch) : batch[i] # Null /\ w[k] = batch[i]
    BY <2>3, <2>4
  <2>6. i \in DOMAIN batch
    OBVIOUS
  <2> QED  BY <1>1, <1>4, <2>2, <2>5, <2>6
<1>. QED  BY <1>2, <1>3, <1>4

(* The field writers take a batch.                                         *)
LEMMA BatchHeld ==
    ASSUME NEW rows \in Seq(RowSet), NEW batch \in Seq(RowSet),
           NEW may \in MayHaveNulls(batch), AllHeld(data, streams, rows)
    PROVE  AllHeld(WriteRows(batch, may, Columns), streams, rows \o batch)
<1> SUFFICES ASSUME NEW s \in Streams
             PROVE  StreamHolds(s = Root, Elements(s), WriteRows(batch, may, Columns)[s],
                         streams[s], Taken(s, rows \o batch))
  BY DEF AllHeld
<1> DEFINE isNullStream == s = Root
           e == WriteRows(batch, may, Columns)[s]
           a == Taken(s, rows)
           b == Taken(s, batch)
<1>1. may[s] \in BOOLEAN /\ (may[s] \/ NoNulls(b))
  BY MayCovers
<1>2. a \in Seq(Elements(s)) /\ b \in Seq(Elements(s))
  BY TakenType
<1>3. StreamHolds(isNullStream, Elements(s), data[s], streams[s], a)
  BY DEF AllHeld
<1>4. Taken(s, rows \o batch) = a \o b
  <2>1. CASE s = Root
    BY <2>1 DEF Taken
  <2>2. CASE s # Root
    <3>1. s \in Columns
      BY <2>2 DEF Streams
    <3> QED  BY <2>2, <3>1, ColumnConcat DEF Taken
  <2> QED  BY <2>1, <2>2
<1>5. e = IF isNullStream THEN WriteField(data[s], b, may[s])
          ELSE WriteColumn(data[s], b, may[s])
  <2>1. CASE s = Root
    BY <2>1 DEF WriteRows, Taken
  <2>2. CASE s # Root
    <3>1. s \in Columns
      BY <2>2 DEF Streams
    <3> QED  BY <2>2, <3>1 DEF WriteRows, Taken, Column
  <2> QED  BY <2>1, <2>2
<1>6. isNullStream \in BOOLEAN
  OBVIOUS
<1> HIDE DEF isNullStream, e, a, b
<1>7. StreamHolds(isNullStream, Elements(s), e, streams[s], a \o b)
  BY <1>1, <1>2, <1>3, <1>5, <1>6, HeldWrite
<1>. QED  BY <1>4, <1>7 DEF isNullStream, e

(* Whichever streams are encoded, none loses a row.                        *)
LEMMA EncodeHeld ==
    ASSUME NEW rows \in Seq(RowSet), NEW buf, NEW done,
           AllHeld(buf.data, buf.streams, rows)
    PROVE  AllHeld(Encode(buf, done).data, Encode(buf, done).streams, rows)
<1> DEFINE e == Encode(buf, done)
<1> SUFFICES ASSUME NEW s \in Streams
             PROVE  StreamHolds(s = Root, Elements(s), e.data[s], e.streams[s], Taken(s, rows))
  BY DEF AllHeld
<1> DEFINE isNullStream == s = Root
<1>1. Taken(s, rows) \in Seq(Elements(s))
  BY TakenType
<1>2. StreamHolds(isNullStream, Elements(s), buf.data[s], buf.streams[s], Taken(s, rows))
  BY DEF AllHeld
<1>3. /\ e.data[s] = IF s \in done THEN EmptyData ELSE buf.data[s]
      /\ e.streams[s] = IF s \in done
                        THEN Append(buf.streams[s], Chunk(isNullStream, buf.data[s]))
                        ELSE buf.streams[s]
  BY DEF Encode
<1>4. isNullStream \in BOOLEAN
  OBVIOUS
<1> HIDE DEF isNullStream, e
<1>5. CASE s \in done
  <2> DEFINE d == buf.data[s]
             content == buf.streams[s]
             t == Taken(s, rows)
             E == Elements(s)
  <2>1. StreamHolds(isNullStream, E, d, content, t) /\ t \in Seq(E)
    BY <1>1, <1>2
  <2> HIDE DEF d, content, t, E
  <2>2. StreamHolds(isNullStream, E, EmptyData, Append(content, Chunk(isNullStream, d)), t)
    BY <1>4, <2>1, HeldEncode
  <2> QED  BY <1>3, <1>5, <2>2 DEF isNullStream, d, content, t, E
<1>6. CASE s \notin done
  BY <1>2, <1>3, <1>6 DEF isNullStream
<1>. QED  BY <1>5, <1>6

(* The last chunk of a stripe leaves its streams complete.                 *)
LEMMA StreamsEnd ==
    ASSUME NEW rows \in Seq(RowSet), NEW buf, AllHeld(buf.data, buf.streams, rows)
    PROVE  /\ WriteChunk(buf, TRUE).data = NoData
           /\ \A s \in Streams :
                Ended(s = Root, Elements(s), WriteChunk(buf, TRUE).streams[s], Taken(s, rows))
<1> DEFINE e == Encode(buf, Due(buf, TRUE))
           last == WriteChunk(buf, TRUE)
<1>1. last = [e EXCEPT !.data = NoData]
  BY DEF WriteChunk
<1>2. last.data = NoData /\ last.streams = e.streams
  BY <1>1 DEF Encode
<1> SUFFICES ASSUME NEW s \in Streams
             PROVE  Ended(s = Root, Elements(s), e.streams[s], Taken(s, rows))
  BY <1>2
<1> DEFINE isNullStream == s = Root
           d == buf.data[s]
           content == buf.streams[s]
           due == IsDue(isNullStream, ValueSize, d, content, TRUE)
<1>3. Taken(s, rows) \in Seq(Elements(s))
  BY TakenType
<1>4. StreamHolds(isNullStream, Elements(s), d, content, Taken(s, rows))
  BY DEF AllHeld
<1>5. s \in Due(buf, TRUE) <=> due
  BY DEF Due
<1>6. e.streams[s] = IF due THEN Append(content, Chunk(isNullStream, d)) ELSE content
  BY <1>5 DEF Encode
<1>7. isNullStream \in BOOLEAN /\ ValueSize \in Nat \ {0}
  BY WriterAssumption
<1> DEFINE t == Taken(s, rows)
           E == Elements(s)
           ended == IF due THEN Append(content, Chunk(isNullStream, d)) ELSE content
<1>8. StreamHolds(isNullStream, E, d, content, t) /\ t \in Seq(E)
  BY <1>3, <1>4
<1> HIDE DEF isNullStream, d, content, e, t, E
<1>9. Ended(isNullStream, E, ended, t)
  BY <1>7, <1>8, HeldEnds
<1>. QED  BY <1>6, <1>9 DEF isNullStream, t, E

-----------------------------------------------------------------------------
(* Reading a stripe back                                                   *)

(* The root's stream, or its absence, says which rows are there.           *)
LEMMA StripeFlags ==
    ASSUME NEW rows \in Seq(RowSet), NEW buf,
           \A s \in Streams : Ended(s = Root, Elements(s), buf.streams[s], Taken(s, rows))
    PROVE  /\ Flags(Stripe(buf, Len(rows))) = Present(rows, Null)
           /\ NonNullCount(Stripe(buf, Len(rows))) = Len(NonNulls(rows))
<1> DEFINE stripe == Stripe(buf, Len(rows))
           content == buf.streams[Root]
           p == Present(rows, Null)
<1>1. Root \in Streams /\ Taken(Root, rows) = rows /\ (Root = Root) = TRUE
  BY DEF Streams, Taken
<1>2. Ended(TRUE, Elements(Root), content, rows)
  BY <1>1
<1>3. /\ Root \in DOMAIN stripe.streams <=> content # <<>>
      /\ Root \in DOMAIN stripe.streams => stripe.streams[Root] = content
      /\ stripe.rowCount = Len(rows)
  BY <1>1 DEF Stripe
<1>4. Flags(stripe) = p
  <2> HIDE DEF stripe, content
  <2>1. CASE content # <<>>
    BY <1>2, <1>3, <2>1 DEF Flags, Ended, StreamTells
  <2>2. CASE content = <<>>
    <3>1. NoNulls(rows)
      BY <1>2, <2>2 DEF Ended
    <3>2. AllTrue(Len(rows)) = p
      BY <3>1, AllTruePresent
    <3> QED  BY <1>3, <2>2, <3>2 DEF Flags
  <2> QED  BY <2>1, <2>2
<1>5. Len(p) = Len(rows)
  BY PresentType
<1>6. Len(NonNulls(rows)) = Rank(p, Len(rows))
  BY WithoutRank DEF NonNulls
<1> HIDE DEF stripe, p
<1>7. NonNullCount(stripe) = Len(NonNulls(rows))
  BY <1>4, <1>5, <1>6 DEF NonNullCount
<1>. QED  BY <1>4, <1>7 DEF stripe, p

(* The stream of a column, or its absence, gives its values.               *)
LEMMA StripeColumn ==
    ASSUME NEW rows \in Seq(RowSet), NEW buf, NEW c \in Columns,
           \A s \in Streams : Ended(s = Root, Elements(s), buf.streams[s], Taken(s, rows))
    PROVE  ColumnRows(Stripe(buf, Len(rows)), c) = Column(rows, c)
<1> DEFINE stripe == Stripe(buf, Len(rows))
           content == buf.streams[c]
           col == Column(rows, c)
<1>1. c \in Streams /\ Taken(c, rows) = col /\ (c = Root) = FALSE
  BY WriterAssumption DEF Streams, Taken
<1>2. Ended(FALSE, Elements(c), content, col)
  BY <1>1
<1>3. /\ c \in DOMAIN stripe.streams <=> content # <<>>
      /\ c \in DOMAIN stripe.streams => stripe.streams[c] = content
  BY <1>1 DEF Stripe
<1>4. NonNullCount(stripe) = Len(NonNulls(rows))
  BY StripeFlags
<1>5. col \in Seq(Value) /\ Len(col) = Len(NonNulls(rows))
  BY ColumnType
<1> HIDE DEF stripe, content, col
<1>6. CASE content # <<>>
  BY <1>2, <1>3, <1>6 DEF ColumnRows, Ended, StreamTells, stripe, col
<1>7. CASE content = <<>>
  <2>1. AllNulls(col)
    BY <1>2, <1>7 DEF Ended
  <2>2. ColumnRows(stripe, c) = [i \in 1..Len(col) |-> Null]
    BY <1>3, <1>4, <1>5, <1>7 DEF ColumnRows
  <2>3. DOMAIN col = 1..Len(col) /\ col = [i \in 1..Len(col) |-> col[i]]
    BY <1>5
  <2>4. \A i \in 1..Len(col) : col[i] = Null
    BY <2>1, <2>3 DEF AllNulls
  <2> QED  BY <2>2, <2>3, <2>4 DEF stripe, col
<1>. QED  BY <1>6, <1>7

(* A stripe reads back as the rows its streams have taken.                 *)
LEMMA StripeReads ==
    ASSUME NEW rows \in Seq(RowSet), NEW buf,
           \A s \in Streams : Ended(s = Root, Elements(s), buf.streams[s], Taken(s, rows))
    PROVE  StripeRows(Stripe(buf, Len(rows))) = rows
<1> DEFINE stripe == Stripe(buf, Len(rows))
           p == Present(rows, Null)
           w == NonNulls(rows)
           n == Len(rows)
<1>1. Flags(stripe) = p /\ NonNullCount(stripe) = Len(w)
  BY StripeFlags
<1>2. \A c \in Columns : ColumnRows(stripe, c) = Column(rows, c)
  BY StripeColumn
<1>3. \A c \in Columns : Len(Column(rows, c)) = Len(w)
  BY ColumnType
<1>4. /\ p \in Seq(BOOLEAN) /\ Len(p) = n
      /\ \A i \in 1..n : p[i] = (rows[i] # Null)
  BY PresentType
<1>5. \A i \in 1..n : rows[i] # Null => Rank(p, i) \in 1..Len(w) /\ w[Rank(p, i)] = rows[i]
  BY WithoutRank DEF NonNulls
<1>6. w \in Seq(RowSet) /\ n \in Nat
  BY WithoutType DEF NonNulls
<1>7. stripe.rowCount = n
  BY DEF Stripe
<1>8. ASSUME NEW s \in DOMAIN stripe.streams, NEW i \in DOMAIN stripe.streams[s]
      PROVE  stripe.streams[s][i].nullable =>
               Cardinality({j \in DOMAIN stripe.streams[s][i].nonNulls :
                              stripe.streams[s][i].nonNulls[j] = TRUE}) =
                 Len(stripe.streams[s][i].values)
  <2>1. s \in Streams /\ stripe.streams[s] = buf.streams[s]
    BY DEF Stripe
  <2> DEFINE X == ChunkSet(s = Root, Elements(s))
             content == buf.streams[s]
  <2>2. content \in Seq(X)
    BY <2>1 DEF Ended
  <2> HIDE DEF X
  <2>3. content[i] \in X
    BY <2>1, <2>2
  <2> HIDE DEF stripe, content
  <2> DEFINE ch == content[i]
  <2>4. ch.nullable =>
          Cardinality({j \in DOMAIN ch.nonNulls : ch.nonNulls[j] = TRUE}) = Len(ch.values)
    BY <2>3 DEF X, ChunkSet
  <2>5. stripe.streams[s][i] = ch
    BY <2>1 DEF content
  <2> HIDE DEF ch
  <2> QED  BY <2>4, <2>5
<1> HIDE DEF stripe
<1>9. WellFormed(stripe)
  BY <1>1, <1>2, <1>3, <1>4, <1>7, <1>8 DEF WellFormed
<1>10. ASSUME NEW i \in 1..n
       PROVE  rows[i] = IF p[i] THEN [c \in Columns |-> Column(rows, c)[Rank(p, i)]]
                        ELSE Null
  <2>1. CASE rows[i] # Null
    <3>1. p[i] = TRUE /\ Rank(p, i) \in 1..Len(w) /\ w[Rank(p, i)] = rows[i]
      BY <1>4, <1>5, <2>1
    <3>2. Rank(p, i) \in DOMAIN w
      <4> HIDE DEF w
      <4> QED  BY <1>6, <3>1
    <3>3. \A c \in Columns : Column(rows, c)[Rank(p, i)] = rows[i][c]
      BY <3>1, <3>2 DEF Column
    <3>4. rows[i] \in RowSet
      OBVIOUS
    <3>5. rows[i] \in [Columns -> Value]
      BY <2>1, <3>4 DEF RowSet
    <3> QED  BY <3>1, <3>3, <3>5
  <2>2. CASE rows[i] = Null
    <3>1. p[i] = FALSE
      BY <1>4, <2>2
    <3> QED  BY <2>2, <3>1
  <2> QED  BY <2>1, <2>2
<1>11. StripeRows(stripe) =
         [i \in 1..n |-> IF p[i] THEN [c \in Columns |-> Column(rows, c)[Rank(p, i)]]
                         ELSE Null]
  <2> HIDE DEF p, n
  <2> QED  BY <1>1, <1>2, <1>7, <1>9 DEF StripeRows
<1>12. rows = [i \in 1..n |-> rows[i]]
  OBVIOUS
<1>. QED  BY <1>10, <1>11, <1>12 DEF stripe

-----------------------------------------------------------------------------
(* Reading the file back                                                   *)

RowsOf(strs) == FlattenSeq([i \in DOMAIN strs |-> StripeRows(strs[i])])

(* Stripes that read back as rows.                                         *)
IsStripes(strs) ==
    /\ Len(strs) \in Nat
    /\ strs = [i \in 1..Len(strs) |-> strs[i]]
    /\ \A i \in 1..Len(strs) : StripeRows(strs[i]) \in Seq(RowSet)

(* w was written: the stripes read back as its first rows, and the streams *)
(* have taken the other r.                                                 *)
Progress(w, r, strs, buffered, chunks) ==
    /\ w \in Seq(RowSet)
    /\ r \in 0..Len(w)
    /\ IsStripes(strs)
    /\ RowsOf(strs) = SubSeq(w, 1, Len(w) - r)
    /\ AllHeld(buffered, chunks, SubSeq(w, Len(w) - r + 1, Len(w)))

(* The inductive invariant.  Of a writer that failed, only a footer counts.*)
IInv ==
    /\ lastException \in BOOLEAN
    /\ footer \in BOOLEAN
    /\ ~lastException =>
         /\ Progress(written, rowsInStripe, stripes, data, streams)
         /\ rowsInFile = Len(written)
         /\ file = IF footer THEN "null" ELSE "open"
         /\ footer => rowsInStripe = 0
    /\ footer => RowsOf(stripes) = written

(* A file without stripes.                                                 *)
LEMMA NoStripes ==
    IsStripes(<<>>) /\ RowsOf(<<>>) = <<>>
<1>1. Len(<<>>) = 0 /\ 1..0 = {} /\ [i \in DOMAIN <<>> |-> StripeRows(<<>>[i])] = <<>>
  OBVIOUS
<1>2. <<>> = [i \in 1..0 |-> <<>>[i]]
  OBVIOUS
<1>3. IsStripes(<<>>)
  BY <1>1, <1>2 DEF IsStripes
<1>4. RowsOf(<<>>) = <<>>
  BY <1>1, FlattenEmpty DEF RowsOf
<1>. QED  BY <1>3, <1>4

(* One more stripe adds its rows.                                          *)
LEMMA RowsOfAppend ==
    ASSUME NEW strs, IsStripes(strs), NEW stripe, StripeRows(stripe) \in Seq(RowSet)
    PROVE  /\ IsStripes(Append(strs, stripe))
           /\ RowsOf(Append(strs, stripe)) = RowsOf(strs) \o StripeRows(stripe)
<1> DEFINE n == Len(strs)
           X == {strs[i] : i \in 1..n} \cup {stripe}
           Y == Seq(RowSet)
           g == [x \in X |-> StripeRows(x)]
           more == Append(strs, stripe)
<1>1. n \in Nat /\ strs \in [1..n -> X] /\ stripe \in X
  BY DEF IsStripes
<1>2. \A x \in X : StripeRows(x) \in Y
  BY DEF IsStripes
<1> HIDE DEF X, n, Y
<1>3. g \in [X -> Y] /\ \A x \in X : g[x] = StripeRows(x)
  BY <1>2
<1>4. strs \in Seq(X)
  BY <1>1
<1>5. more \in Seq(X) /\ Len(strs) \in Nat /\ Len(more) = Len(strs) + 1
  BY <1>1, <1>4
<1> HIDE DEF more, g
<1>6. /\ [i \in DOMAIN strs |-> StripeRows(strs[i])] = [i \in DOMAIN strs |-> g[strs[i]]]
      /\ [i \in DOMAIN more |-> StripeRows(more[i])] = [i \in DOMAIN more |-> g[more[i]]]
  <2>1. \A i \in DOMAIN strs : strs[i] \in X
    BY <1>4
  <2>2. \A i \in DOMAIN more : more[i] \in X
    BY <1>5
  <2> QED  BY <1>3, <2>1, <2>2
<1> DEFINE q == [i \in DOMAIN strs |-> g[strs[i]]]
<1>7. q \in Seq(Y) /\ [i \in DOMAIN more |-> g[more[i]]] = Append(q, g[stripe])
  BY <1>1, <1>3, <1>4, MapAppend DEF more
<1>8. g[stripe] = StripeRows(stripe) /\ g[stripe] \in Y
  BY <1>1, <1>2, <1>3
<1> HIDE DEF q
<1>9. FlattenSeq(Append(q, g[stripe])) = FlattenSeq(q) \o g[stripe]
  BY <1>7, <1>8, FlattenAppend DEF Y
<1>10. RowsOf(more) = RowsOf(strs) \o StripeRows(stripe)
  BY <1>6, <1>7, <1>8, <1>9 DEF RowsOf, q
<1>11. IsStripes(more)
  <2>1. \A i \in 1..Len(more) : more[i] \in X
    BY <1>5
  <2>2. more = [i \in 1..Len(more) |-> more[i]]
    BY <1>5
  <2> QED  BY <1>2, <1>5, <2>1, <2>2 DEF IsStripes, Y
<1>. QED  BY <1>10, <1>11 DEF more

(* Any two parts show progress.                                            *)
LEMMA ProgressParts ==
    ASSUME NEW D \in Seq(RowSet), NEW R \in Seq(RowSet), NEW strs, NEW buffered,
           NEW chunks, IsStripes(strs), RowsOf(strs) = D, AllHeld(buffered, chunks, R)
    PROVE  Progress(D \o R, Len(R), strs, buffered, chunks)
<1> DEFINE w == D \o R
<1>1. /\ w \in Seq(RowSet) /\ Len(w) = Len(D) + Len(R)
      /\ Len(D) \in Nat /\ Len(R) \in Nat
  OBVIOUS
<1>2. SubSeq(w, 1, Len(D)) = D /\ SubSeq(w, Len(D) + 1, Len(w)) = R
  BY ConcatSplit
<1> HIDE DEF w
<1>3. Len(w) - Len(R) = Len(D) /\ Len(R) \in 0..Len(w)
  BY <1>1
<1>4. Progress(w, Len(R), strs, buffered, chunks)
  BY <1>1, <1>2, <1>3 DEF Progress
<1>. QED  BY <1>4 DEF w

(* And there are two such parts.                                           *)
LEMMA PartsProgress ==
    ASSUME NEW w, NEW r, NEW strs, NEW buffered, NEW chunks,
           Progress(w, r, strs, buffered, chunks)
    PROVE  \E D, R \in Seq(RowSet) :
             /\ w = D \o R /\ Len(R) = r
             /\ IsStripes(strs) /\ RowsOf(strs) = D /\ AllHeld(buffered, chunks, R)
<1> DEFINE n == Len(w) - r
           D == SubSeq(w, 1, n)
           R == SubSeq(w, n + 1, Len(w))
<1>1. w \in Seq(RowSet) /\ r \in 0..Len(w)
  BY DEF Progress
<1>2. n \in 0..Len(w) /\ Len(w) - n = r
  BY <1>1
<1>3. IsStripes(strs) /\ RowsOf(strs) = D /\ AllHeld(buffered, chunks, R)
  BY DEF Progress
<1>4. D \in Seq(RowSet) /\ R \in Seq(RowSet) /\ Len(R) = Len(w) - n /\ w = D \o R
  <2> HIDE DEF n
  <2> QED  BY <1>1, <1>2, SplitConcat
<1> HIDE DEF D, R, n
<1>. QED  BY <1>2, <1>3, <1>4

-----------------------------------------------------------------------------
(* Steps                                                                   *)

(* Batches are rows; the bound on the file bounds their values.            *)
LEMMA BatchType ==
    ASSUME NEW batch \in Batches, rowsInFile \in Nat, rowsInFile + Len(batch) <= MaxRows
    PROVE  batch \in Seq(RowSet)
<1>1. PICK k \in 0..MaxBatch :
        /\ batch \in [1..k -> UNION {RowsAt(rowsInFile + i) : i \in 1..k}]
        /\ \A i \in 1..k : batch[i] \in RowsAt(rowsInFile + i)
  BY DEF Batches
<1>2. k \in Nat /\ MaxRows \in Nat
  BY WriterAssumption
<1>3. Len(batch) = k
  BY <1>1, <1>2
<1>4. ASSUME NEW i \in 1..k PROVE batch[i] \in RowSet
  <2>1. rowsInFile + i \in 1..MaxRows
    BY <1>2, <1>3
  <2>2. {Null, rowsInFile + i} \subseteq Value
    BY <2>1 DEF Value
  <2>3. batch[i] \in {Null} \cup [Columns -> {Null, rowsInFile + i}]
    BY <1>1 DEF RowsAt
  <2> QED  BY <2>2, <2>3 DEF RowSet
<1>5. batch \in [1..k -> RowSet]
  BY <1>1, <1>4
<1>. QED  BY <1>2, <1>5

(* A stripe ends: the file has all its rows.                               *)
LEMMA EndStripeProgress ==
    ASSUME NEW D \in Seq(RowSet), NEW R \in Seq(RowSet), NEW buf,
           IsStripes(stripes), RowsOf(stripes) = D,
           AllHeld(buf.data, buf.streams, R), EndStripe(buf, Len(R))
    PROVE  /\ Progress(D \o R, rowsInStripe', stripes', data', streams')
           /\ RowsOf(stripes') = D \o R /\ rowsInStripe' = 0
<1> DEFINE last == WriteChunk(buf, TRUE)
           stripe == Stripe(last, Len(R))
           w == D \o R
<1>1. /\ last.data = NoData
      /\ \A s \in Streams : Ended(s = Root, Elements(s), last.streams[s], Taken(s, R))
  BY StreamsEnd
<1> HIDE DEF last
<1>2. StripeRows(stripe) = R
  BY <1>1, StripeReads
<1>3. /\ data' = NoData /\ streams' = NoChunks /\ rowsInStripe' = 0
      /\ stripes' = Append(stripes, stripe)
  BY <1>1 DEF EndStripe, last
<1> HIDE DEF stripe
<1>4. IsStripes(stripes') /\ RowsOf(stripes') = w
  BY <1>2, <1>3, RowsOfAppend
<1>5. w \in Seq(RowSet) /\ <<>> \in Seq(RowSet) /\ w \o <<>> = w /\ Len(<<>>) = 0
  OBVIOUS
<1> HIDE DEF w
<1>6. AllHeld(data', streams', <<>>)
  BY <1>3, NoneHeld
<1>7. Progress(w \o <<>>, Len(<<>>), stripes', data', streams')
  BY <1>4, <1>5, <1>6, ProgressParts
<1>8. Progress(w, 0, stripes', data', streams')
  BY <1>5, <1>7
<1>. QED  BY <1>3, <1>4, <1>8 DEF w

(* Nothing is written to the file: the rows are where they were.           *)
LEMMA KeepProgress ==
    ASSUME NEW D \in Seq(RowSet), NEW R \in Seq(RowSet), NEW buf, NEW m,
           IsStripes(stripes), RowsOf(stripes) = D,
           AllHeld(buf.data, buf.streams, R), Keep(buf, Len(R), m)
    PROVE  /\ Progress(D \o R, rowsInStripe', stripes', data', streams')
           /\ RowsOf(stripes') = D /\ rowsInStripe' = Len(R)
<1>1. /\ data' = buf.data /\ streams' = buf.streams
      /\ rowsInStripe' = Len(R) /\ stripes' = stripes
  BY DEF Keep
<1>. QED  BY <1>1, ProgressParts

(* What write has before it asks the flush policy, and after a chunk.      *)
LEMMA WriteHeld ==
    ASSUME NEW R \in Seq(RowSet), NEW batch \in Seq(RowSet),
           NEW may \in MayHaveNulls(batch), AllHeld(data, streams, R)
    PROVE  LET buf == [data |-> WriteRows(batch, may, Columns), streams |-> streams]
               chunk == WriteChunk(buf, FALSE)
           IN  /\ AllHeld(buf.data, buf.streams, R \o batch)
               /\ AllHeld(chunk.data, chunk.streams, R \o batch)
<1> DEFINE buf == [data |-> WriteRows(batch, may, Columns), streams |-> streams]
           chunk == WriteChunk(buf, FALSE)
           rows == R \o batch
<1>1. AllHeld(WriteRows(batch, may, Columns), streams, rows) /\ rows \in Seq(RowSet)
  BY BatchHeld
<1>2. buf.data = WriteRows(batch, may, Columns) /\ buf.streams = streams
  OBVIOUS
<1> HIDE DEF buf, rows
<1>3. AllHeld(buf.data, buf.streams, rows)
  BY <1>1, <1>2
<1>4. chunk = Encode(buf, Due(buf, FALSE))
  BY DEF WriteChunk
<1>5. AllHeld(chunk.data, chunk.streams, rows)
  BY <1>1, <1>3, <1>4, EncodeHeld
<1>. QED  BY <1>3, <1>5 DEF buf, rows

(* write                                                                   *)
LEMMA WriteStep ==
    ASSUME IInv, NEW batch \in Batches, NEW may \in MayHaveNulls(batch),
           NEW first, NEW second, Write(batch, may, first, second)
    PROVE  /\ IInv'
           /\ ~lastException /\ ~footer /\ ~lastException' /\ ~footer'
           /\ batch \in Seq(RowSet) /\ written \in Seq(RowSet)
           /\ written' = written \o batch
           /\ RowsOf(stripes') \in {RowsOf(stripes), written'}
<1> DEFINE buf == [data |-> WriteRows(batch, may, Columns), streams |-> streams]
           m == TotalMemory(buf)
           r == rowsInStripe + Len(batch)
           chunked == first = "Chunk" /\ EnableChunking
           next == IF chunked THEN WriteChunk(buf, FALSE) ELSE buf
           decision == IF chunked THEN second ELSE first
           kept == IF r = 0 THEN buf ELSE next
<1>1. /\ ~lastException /\ file = "open" /\ rowsInFile + Len(batch) <= MaxRows
      /\ rowsInFile' = rowsInFile + Len(batch) /\ written' = written \o batch
      /\ file' = file /\ lastException' = lastException /\ footer' = footer
  BY DEF Write, CanCall
<1>2. IF r > 0 /\ decision = "Stripe" THEN EndStripe(next, r) ELSE Keep(kept, r, m)
  BY DEF Write
<1>3. /\ Progress(written, rowsInStripe, stripes, data, streams)
      /\ rowsInFile = Len(written) /\ ~footer /\ written \in Seq(RowSet)
  BY <1>1 DEF IInv, Progress
<1>4. batch \in Seq(RowSet)
  <2>1. rowsInFile \in Nat
    BY <1>3
  <2> QED  BY <1>1, <2>1, BatchType
<1>5. PICK D, R \in Seq(RowSet) :
        /\ written = D \o R /\ Len(R) = rowsInStripe
        /\ IsStripes(stripes) /\ RowsOf(stripes) = D /\ AllHeld(data, streams, R)
  BY <1>3, PartsProgress
<1> DEFINE rows == R \o batch
<1>6. rows \in Seq(RowSet) /\ Len(rows) = r /\ written' = D \o rows
      /\ Len(written') = rowsInFile'
  <2>1. rows \in Seq(RowSet) /\ Len(rows) = Len(R) + Len(batch)
    BY <1>4
  <2>2. (D \o R) \o batch = D \o rows
    BY <1>4
  <2>3. Len(written \o batch) = Len(written) + Len(batch)
    BY <1>3, <1>4
  <2> QED  BY <1>1, <1>3, <1>5, <2>1, <2>2, <2>3
<1>7. /\ AllHeld(buf.data, buf.streams, rows)
      /\ AllHeld(WriteChunk(buf, FALSE).data, WriteChunk(buf, FALSE).streams, rows)
  BY <1>4, <1>5, WriteHeld
<1> HIDE DEF buf, rows, m, chunked, decision, r
<1>8. AllHeld(next.data, next.streams, rows) /\ AllHeld(kept.data, kept.streams, rows)
  BY <1>7
<1> HIDE DEF next, kept
<1>9. /\ Progress(written', rowsInStripe', stripes', data', streams')
      /\ RowsOf(stripes') \in {RowsOf(stripes), written'}
  <2>1. CASE EndStripe(next, r)
    <3>1. EndStripe(next, Len(rows))
      BY <1>6, <2>1
    <3> QED  BY <1>5, <1>6, <1>8, <3>1, EndStripeProgress
  <2>2. CASE Keep(kept, r, m)
    <3>1. Keep(kept, Len(rows), m)
      BY <1>6, <2>2
    <3> QED  BY <1>5, <1>6, <1>8, <3>1, KeepProgress
  <2> QED  BY <1>2, <2>1, <2>2
<1>10. IInv'
  BY <1>1, <1>3, <1>6, <1>9 DEF IInv
<1>. QED  BY <1>1, <1>3, <1>4, <1>9, <1>10

(* flush or close, with rows for a stripe.                                 *)
LEMMA FlushProgress ==
    ASSUME IInv, ~lastException, EndStripe(Buffered, rowsInStripe)
    PROVE  /\ Progress(written, rowsInStripe', stripes', data', streams')
           /\ RowsOf(stripes') = written /\ rowsInStripe' = 0
<1>1. Progress(written, rowsInStripe, stripes, data, streams)
  BY DEF IInv
<1>2. PICK D, R \in Seq(RowSet) :
        /\ written = D \o R /\ Len(R) = rowsInStripe
        /\ IsStripes(stripes) /\ RowsOf(stripes) = D /\ AllHeld(data, streams, R)
  <2>1. written \in Seq(RowSet)
    BY <1>1 DEF Progress
  <2> QED  BY <1>1, <2>1, PartsProgress
<1>3. AllHeld(Buffered.data, Buffered.streams, R)
  BY <1>2 DEF Buffered
<1>4. EndStripe(Buffered, Len(R))
  BY <1>2
<1>. QED  BY <1>2, <1>3, <1>4, EndStripeProgress

(* Or without.                                                             *)
LEMMA StayProgress ==
    ASSUME IInv, ~lastException, Keep(Buffered, rowsInStripe, memoryUsed)
    PROVE  /\ Progress(written, rowsInStripe', stripes', data', streams')
           /\ stripes' = stripes /\ rowsInStripe' = rowsInStripe
           /\ rowsInStripe = 0 => RowsOf(stripes) = written
<1>1. Progress(written, rowsInStripe, stripes, data, streams)
  BY DEF IInv
<1>2. /\ data' = data /\ streams' = streams
      /\ rowsInStripe' = rowsInStripe /\ stripes' = stripes
  BY DEF Keep, Buffered
<1>3. ASSUME rowsInStripe = 0 PROVE RowsOf(stripes) = written
  <2>1. written \in Seq(RowSet) /\ RowsOf(stripes) = SubSeq(written, 1, Len(written) - 0)
    BY <1>1, <1>3 DEF Progress
  <2>2. SubSeq(written, 1, Len(written)) = written /\ Len(written) - 0 = Len(written)
    BY <2>1
  <2> QED  BY <2>1, <2>2
<1>. QED  BY <1>1, <1>2, <1>3

(* A call that fails leaves no footer, or one behind a complete file.      *)
LEMMA FailedStep ==
    ASSUME IInv, ~lastException, lastException' = TRUE, footer' \in BOOLEAN,
           footer' => RowsOf(stripes') = written'
    PROVE  IInv'
BY DEF IInv

(* flush, which after close finds nothing to do.                           *)
LEMMA FlushStep ==
    ASSUME IInv, Flush
    PROVE  /\ IInv' /\ ~lastException /\ ~lastException' /\ footer' = footer
           /\ written' = written
           /\ RowsOf(stripes') \in {RowsOf(stripes), written}
           /\ footer => RowsOf(stripes') = RowsOf(stripes)
<1>1. /\ ~lastException /\ lastException' = lastException /\ rowsInFile' = rowsInFile
      /\ file' = file /\ footer' = footer /\ written' = written
  BY DEF Flush, CanCall
<1>2. CASE rowsInStripe > 0
  <2>1. EndStripe(Buffered, rowsInStripe)
    BY <1>2 DEF Flush
  <2>2. /\ Progress(written, rowsInStripe', stripes', data', streams')
        /\ RowsOf(stripes') = written /\ rowsInStripe' = 0
    BY <1>1, <2>1, FlushProgress
  <2>3. footer => RowsOf(stripes) = written
    BY DEF IInv
  <2> QED  BY <1>1, <2>2, <2>3 DEF IInv
<1>3. CASE ~(rowsInStripe > 0)
  <2>1. Keep(Buffered, rowsInStripe, memoryUsed)
    BY <1>3 DEF Flush
  <2>2. /\ Progress(written, rowsInStripe', stripes', data', streams')
        /\ stripes' = stripes /\ rowsInStripe' = rowsInStripe
    BY <1>1, <2>1, StayProgress
  <2> QED  BY <1>1, <2>2 DEF IInv
<1>. QED  BY <1>2, <1>3

(* close, once or again: all rows are in stripes.                          *)
LEMMA CloseStep ==
    ASSUME IInv, Close
    PROVE  /\ IInv' /\ ~lastException /\ ~lastException' /\ footer' = TRUE
           /\ written' = written /\ RowsOf(stripes') = written
           /\ footer => RowsOf(stripes') = RowsOf(stripes)
<1>1. /\ ~lastException /\ lastException' = lastException /\ rowsInFile' = rowsInFile
      /\ file' = "null" /\ footer' = TRUE /\ written' = written
  BY DEF Close, CanCall
<1>2. footer => RowsOf(stripes) = written
  BY DEF IInv
<1>3. CASE file = "open" /\ rowsInStripe > 0
  <2>1. EndStripe(Buffered, rowsInStripe)
    BY <1>3 DEF Close
  <2>2. /\ Progress(written, rowsInStripe', stripes', data', streams')
        /\ RowsOf(stripes') = written /\ rowsInStripe' = 0
    BY <1>1, <2>1, FlushProgress
  <2> QED  BY <1>1, <1>2, <2>2 DEF IInv
<1>4. CASE ~(file = "open" /\ rowsInStripe > 0)
  <2>1. Keep(Buffered, rowsInStripe, memoryUsed)
    BY <1>4 DEF Close
  <2>2. /\ Progress(written, rowsInStripe', stripes', data', streams')
        /\ stripes' = stripes /\ rowsInStripe' = rowsInStripe
        /\ rowsInStripe = 0 => RowsOf(stripes) = written
    BY <1>1, <2>1, StayProgress
  <2>3. rowsInStripe = 0
    <3>1. CASE footer
      BY <1>1, <3>1 DEF IInv
    <3>2. CASE ~footer
      <4>1. file = "open" /\ rowsInStripe \in Nat
        BY <1>1, <3>2 DEF IInv, Progress
      <4> QED  BY <1>4, <4>1
    <3> QED  BY <3>1, <3>2
  <2> QED  BY <1>1, <1>2, <2>2, <2>3 DEF IInv
<1>. QED  BY <1>3, <1>4

(* A chunk or a stripe that fails.                                         *)
LEMMA FailedStripe ==
    ASSUME NEW buf, NEW r, NEW lastChunk, FailStripe(buf, r) \/ FailChunk(buf, lastChunk)
    PROVE  lastException' = TRUE /\ footer' = footer /\ written' = written
<1>1. ASSUME NEW b, Threw(b)
      PROVE  lastException' = TRUE /\ footer' = footer /\ written' = written
  BY <1>1 DEF Threw
<1>2. ASSUME NEW c, FailChunk(buf, c)
      PROVE  lastException' = TRUE /\ footer' = footer /\ written' = written
  <2>1. PICK done : Threw(Encode(buf, done))
    BY <1>2 DEF FailChunk
  <2> QED  BY <1>1, <2>1
<1>. QED  BY <1>1, <1>2 DEF FailStripe

(* The calls that fail.  Only close can leave a footer, behind the last    *)
(* stripe.                                                                 *)
LEMMA FailingSteps ==
    ASSUME IInv,
           \/ \E batch, may, done : WriteFails(batch, may, done)
           \/ \E batch, may, first, second : WriteFailsLater(batch, may, first, second)
           \/ FlushFails
           \/ CloseFails
    PROVE  IInv' /\ ~lastException /\ ~footer /\ lastException' /\ written' = written
<1>1. /\ ~lastException /\ ~footer /\ lastException' = TRUE /\ written' = written
      /\ footer' \in BOOLEAN /\ (footer' => RowsOf(stripes') = written')
  <2>1. CASE \E batch, may, done : WriteFails(batch, may, done)
    BY <2>1 DEF WriteFails, Threw, CanCall, IInv
  <2>2. CASE \E batch, may, first, second : WriteFailsLater(batch, may, first, second)
    <3>1. PICK batch, may, first, second : WriteFailsLater(batch, may, first, second)
      BY <2>2
    <3>2. ~lastException /\ file = "open" /\ footer = FALSE
      BY <3>1 DEF WriteFailsLater, CanCall, IInv
    <3>3. \E buf, r : FailStripe(buf, r) \/ FailChunk(buf, FALSE)
      BY <3>1 DEF WriteFailsLater
    <3>4. lastException' = TRUE /\ footer' = footer /\ written' = written
      BY <3>3, FailedStripe
    <3> QED  BY <3>2, <3>4
  <2>3. CASE FlushFails
    <3>1. ~lastException /\ footer = FALSE /\ FailStripe(Buffered, rowsInStripe)
      BY <2>3 DEF FlushFails, CanCall, IInv
    <3> QED  BY <3>1, FailedStripe
  <2>4. CASE CloseFails
    <3>1. ~lastException /\ file = "open" /\ footer = FALSE
      BY <2>4 DEF CloseFails, CanCall, IInv
    <3>2. CASE FailStripe(Buffered, rowsInStripe)
      BY <3>1, <3>2, FailedStripe
    <3>3. CASE /\ IF rowsInStripe > 0
                  THEN EndStripe(Buffered, rowsInStripe)
                  ELSE Keep(Buffered, rowsInStripe, memoryUsed)
               /\ lastException' = TRUE
               /\ footer' \in BOOLEAN
               /\ UNCHANGED <<rowsInFile, written>>
      <4>1. CASE EndStripe(Buffered, rowsInStripe)
        BY <3>1, <3>3, <4>1, FlushProgress
      <4>2. CASE ~(rowsInStripe > 0) /\ Keep(Buffered, rowsInStripe, memoryUsed)
        <5>1. rowsInStripe \in Nat
          BY <3>1 DEF IInv, Progress
        <5>2. rowsInStripe = 0
          BY <4>2, <5>1
        <5> QED  BY <3>1, <3>3, <4>2, <5>2, StayProgress
      <4> QED  BY <3>3, <4>1, <4>2
    <3> QED  BY <2>4, <3>2, <3>3 DEF CloseFails
  <2> QED  BY <2>1, <2>2, <2>3, <2>4
<1>. QED  BY <1>1, FailedStep

(* A step that changes nothing.                                            *)
LEMMA StutterStep ==
    ASSUME IInv, UNCHANGED vars
    PROVE  IInv'
BY DEF IInv, vars, context

-----------------------------------------------------------------------------
(* Alignment                                                               *)

(* A stream has told or buffers every row it took, and its bitmap covers   *)
(* all that is buffered or nothing.                                        *)
LEMMA HeldCounts ==
    ASSUME NEW S, NEW isNullStream \in BOOLEAN, NEW d, NEW content,
           NEW rows \in Seq(S), StreamHolds(isNullStream, S, d, content, rows)
    PROVE  /\ Len(StreamRows(content)) + d.bufferedCount = Len(rows)
           /\ Len(d.nonNulls) = IF d.hasNulls THEN d.bufferedCount ELSE 0
<1>1. PICK P, B \in Seq(S) :
        rows = P \o B /\ HeldAt(isNullStream, S, d, content, P, B)
  BY PartsHeld
<1>2. PICK h \in BOOLEAN : d = DataOf(isNullStream, h, B)
  BY <1>1 DEF HeldAt
<1>3. StreamRows(content) = StreamTells(isNullStream, P)
  BY <1>1 DEF HeldAt
<1>4. Len(StreamTells(isNullStream, P)) = Len(P)
  BY ToldConcat
<1>5. Len(rows) = Len(P) + Len(B)
  BY <1>1
<1>6. /\ d.nonNulls = (IF h THEN Present(B, Null) ELSE <<>>)
      /\ d.hasNulls = h /\ d.bufferedCount = Len(B)
  BY <1>2 DEF DataOf, Data
<1>7. Len(Present(B, Null)) = Len(B) /\ Len(<<>>) = 0
  BY PresentType
<1>8. Len(d.nonNulls) = IF d.hasNulls THEN d.bufferedCount ELSE 0
  BY <1>6, <1>7
<1>9. Len(StreamRows(content)) + d.bufferedCount = Len(rows)
  BY <1>3, <1>4, <1>5, <1>6
<1>. QED  BY <1>8, <1>9

(* The chunks of the root and its materialized bitmap flag the rows.       *)
LEMMA HeldFlags ==
    ASSUME NEW S, NEW d, NEW content, NEW rows \in Seq(S),
           StreamHolds(TRUE, S, d, content, rows)
    PROVE  StreamRows(content) \o Materialize(d) = Present(rows, Null)
<1>1. PICK P, B \in Seq(S) : rows = P \o B /\ HeldAt(TRUE, S, d, content, P, B)
  BY PartsHeld
<1>2. PICK h \in BOOLEAN : d = DataOf(TRUE, h, B) /\ (h \/ NoNulls(B))
  BY <1>1 DEF HeldAt
<1>3. StreamRows(content) = Present(P, Null)
  BY <1>1 DEF HeldAt, StreamTells
<1>4. Materialize(d) = Present(B, Null)
  BY <1>2, NullsChunk
<1>. QED  BY <1>1, <1>3, <1>4, PresentConcat, SMTT(30)

(* A column buffers a value for every row that is there.                   *)
LEMMA HeldValues ==
    ASSUME NEW S, NEW d, NEW content, NEW rows \in Seq(S),
           StreamHolds(FALSE, S, d, content, rows)
    PROVE  Len(d.values) = IF d.hasNulls THEN Rank(d.nonNulls, Len(d.nonNulls))
                           ELSE d.bufferedCount
<1>1. PICK P, B \in Seq(S) : rows = P \o B /\ HeldAt(FALSE, S, d, content, P, B)
  BY PartsHeld
<1>2. PICK h \in BOOLEAN : d = DataOf(FALSE, h, B) /\ (h \/ NoNulls(B))
  BY <1>1 DEF HeldAt
<1>3. /\ d.nonNulls = (IF h THEN Present(B, Null) ELSE <<>>)
      /\ d.hasNulls = h /\ d.bufferedCount = Len(B) /\ d.values = NonNulls(B)
  BY <1>2 DEF DataOf, Data
<1>4. Len(Present(B, Null)) = Len(B)
  BY PresentType
<1>5. Len(NonNulls(B)) = Rank(Present(B, Null), Len(B))
  BY WithoutRank DEF NonNulls
<1>6. ~h => NonNulls(B) = B
  BY <1>2, NonNullsNone
<1>. QED  BY <1>3, <1>4, <1>5, <1>6

(* The invariant aligns the streams: all have taken the same rows.         *)
LEMMA InvAligned ==
    ASSUME IInv
    PROVE  StreamsAligned
<1> SUFFICES ASSUME ~lastException
             PROVE  LET held(s) == Len(StreamRows(streams[s])) + data[s].bufferedCount
                        flags == StreamRows(streams[Root]) \o Materialize(data[Root])
                    IN  /\ held(Root) = rowsInStripe
                        /\ \A c \in Columns :
                             /\ held(c) = Rank(flags, Len(flags))
                             /\ Len(data[c].values) =
                                  IF data[c].hasNulls
                                  THEN Rank(data[c].nonNulls, Len(data[c].nonNulls))
                                  ELSE data[c].bufferedCount
                        /\ \A s \in Streams :
                             Len(data[s].nonNulls) =
                               IF data[s].hasNulls THEN data[s].bufferedCount ELSE 0
  BY DEF StreamsAligned
<1> DEFINE held(s) == Len(StreamRows(streams[s])) + data[s].bufferedCount
           flags == StreamRows(streams[Root]) \o Materialize(data[Root])
<1>1. Progress(written, rowsInStripe, stripes, data, streams)
  BY DEF IInv
<1>2. PICK D, R \in Seq(RowSet) :
        Len(R) = rowsInStripe /\ AllHeld(data, streams, R)
  BY <1>1, PartsProgress
<1>3. ASSUME NEW s \in Streams
      PROVE  /\ held(s) = Len(Taken(s, R))
             /\ Len(data[s].nonNulls) =
                  IF data[s].hasNulls THEN data[s].bufferedCount ELSE 0
  <2> DEFINE isNullStream == s = Root
  <2>1. isNullStream \in BOOLEAN
    OBVIOUS
  <2>2. StreamHolds(isNullStream, Elements(s), data[s], streams[s], Taken(s, R))
    BY <1>2 DEF AllHeld
  <2>3. Taken(s, R) \in Seq(Elements(s))
    BY TakenType
  <2> HIDE DEF isNullStream
  <2> QED  BY <2>1, <2>2, <2>3, HeldCounts
<1>4. Root \in Streams /\ Taken(Root, R) = R /\ Elements(Root) = RowSet
  BY DEF Streams, Taken, Elements
<1>5. flags = Present(R, Null)
  <2>1. StreamHolds(Root = Root, Elements(Root), data[Root], streams[Root], Taken(Root, R))
    BY <1>2, <1>4 DEF AllHeld
  <2>2. (Root = Root) = TRUE
    OBVIOUS
  <2>3. StreamHolds(TRUE, RowSet, data[Root], streams[Root], R)
    BY <1>4, <2>1, <2>2
  <2> QED  BY <2>3, HeldFlags
<1>6. Rank(flags, Len(flags)) = Len(NonNulls(R))
  <2>1. Len(Present(R, Null)) = Len(R)
    BY PresentType
  <2>2. Len(NonNulls(R)) = Rank(Present(R, Null), Len(R))
    BY WithoutRank DEF NonNulls
  <2> HIDE DEF flags
  <2> QED  BY <1>5, <2>1, <2>2
<1>7. ASSUME NEW c \in Columns
      PROVE  /\ held(c) = Rank(flags, Len(flags))
             /\ Len(data[c].values) =
                  IF data[c].hasNulls
                  THEN Rank(data[c].nonNulls, Len(data[c].nonNulls))
                  ELSE data[c].bufferedCount
  <2>1. c \in Streams /\ c # Root
    BY WriterAssumption DEF Streams
  <2>2. Taken(c, R) = Column(R, c) /\ Elements(c) = Value /\ (c = Root) = FALSE
    BY <2>1 DEF Taken, Elements
  <2>3. Column(R, c) \in Seq(Value) /\ Len(Column(R, c)) = Len(NonNulls(R))
    BY ColumnType
  <2>4. StreamHolds(c = Root, Elements(c), data[c], streams[c], Taken(c, R))
    BY <1>2, <2>1 DEF AllHeld
  <2>5. StreamHolds(FALSE, Value, data[c], streams[c], Column(R, c))
    BY <2>2, <2>4
  <2>6. Len(data[c].values) =
          IF data[c].hasNulls THEN Rank(data[c].nonNulls, Len(data[c].nonNulls))
          ELSE data[c].bufferedCount
    BY <2>3, <2>5, HeldValues
  <2>7. held(c) = Len(Taken(c, R))
    BY <1>3, <2>1
  <2> HIDE DEF held, flags
  <2>8. held(c) = Rank(flags, Len(flags))
    BY <1>6, <2>2, <2>3, <2>7
  <2> QED  BY <2>6, <2>8
<1>8. held(Root) = rowsInStripe
  <2>1. held(Root) = Len(Taken(Root, R))
    BY <1>3, <1>4
  <2> QED  BY <1>2, <1>4, <2>1
<1>. QED  BY <1>3, <1>7, <1>8

-----------------------------------------------------------------------------
(* Theorems                                                                *)

(* Whatever was written is in the stripes or, in the same order, in the    *)
(* streams of the open one; a footer stands behind all of it.              *)
THEOREM WriterInvariant == Spec => []IInv
<1>1. ASSUME Init PROVE IInv
  <2>1. /\ written = <<>> /\ rowsInStripe = 0 /\ stripes = <<>> /\ data = NoData
        /\ streams = NoChunks /\ rowsInFile = 0 /\ lastException = FALSE
        /\ footer = FALSE /\ file = "open"
    BY <1>1 DEF Init
  <2>2. <<>> \in Seq(RowSet) /\ <<>> \o <<>> = <<>> /\ Len(<<>>) = 0
    OBVIOUS
  <2>3. Progress(<<>> \o <<>>, Len(<<>>), <<>>, NoData, NoChunks)
    BY <2>2, NoStripes, NoneHeld, ProgressParts
  <2>4. Progress(written, rowsInStripe, stripes, data, streams)
    BY <2>1, <2>2, <2>3
  <2> QED  BY <2>1, <2>2, <2>4 DEF IInv
<1>2. ASSUME IInv, [Next]_vars PROVE IInv'
  <2>1. CASE Next
    <3>1. ASSUME NEW batch \in Batches, NEW may \in MayHaveNulls(batch),
                 NEW first \in FlushDecision, NEW second \in Answers(first),
                 Write(batch, may, first, second)
          PROVE  IInv'
      BY <1>2, <3>1, WriteStep
    <3> QED  BY <1>2, <2>1, <3>1, FailingSteps, FlushStep, CloseStep DEF Next
  <2>2. CASE UNCHANGED vars
    BY <1>2, <2>2, StutterStep
  <2> QED  BY <1>2, <2>1, <2>2
<1>. QED  BY <1>1, <1>2, PTL DEF Spec

(* A file with a footer holds the rows of the calls of write that          *)
(* returned, all of them and nothing else.                                 *)
THEOREM FinishedFilesComplete == Spec => []FinishedFileComplete
<1>1. IInv => FinishedFileComplete
  BY DEF IInv, FinishedFileComplete, FileRows, RowsOf
<1>. QED  BY <1>1, WriterInvariant, PTL

(* The streams of the open stripe stand at the same row, and their bitmaps *)
(* cover what is buffered or nothing.                                      *)
THEOREM WriterStreamsAligned == Spec => []StreamsAligned
<1>1. IInv => StreamsAligned
  BY InvAligned
<1>. QED  BY <1>1, WriterInvariant, PTL

-----------------------------------------------------------------------------
(* Refinement of RowFile                                                   *)

(* A call of write is a Write of the file, of no rows or of a batch.       *)
LEMMA WriteRefines ==
    ASSUME IInv, NEW batch \in Batches, NEW may \in MayHaveNulls(batch),
           NEW first, NEW second, Write(batch, may, first, second)
    PROVE  File!Write
<1>1. /\ ~lastException /\ ~footer /\ ~lastException' /\ ~footer'
      /\ batch \in Seq(RowSet) /\ written \in Seq(RowSet)
      /\ written' = written \o batch
      /\ RowsOf(stripes') \in {RowsOf(stripes), written'}
  BY WriteStep
<1>2. Status = "writing" /\ Status' = "writing"
  BY <1>1 DEF Status
<1>3. FileRows' \in {FileRows, written'}
  BY <1>1 DEF FileRows, RowsOf
<1>4. \/ written' = written
      \/ /\ Len(written') > Len(written)
         /\ SubSeq(written', 1, Len(written)) = written
         /\ \A i \in DOMAIN written' :
              written'[i] \in {Null} \cup [Columns -> {Null} \cup 1..MaxRows]
  <2>1. CASE Len(batch) = 0
    <3>1. batch = <<>>
      BY <1>1, <2>1
    <3> QED  BY <1>1, <3>1
  <2>2. CASE Len(batch) # 0
    <3>1. Len(batch) \in Nat /\ Len(written) \in Nat /\ written' \in Seq(RowSet)
          /\ Len(written') = Len(written) + Len(batch)
      BY <1>1, ConcatType
    <3>2. SubSeq(written', 1, Len(written)) = written
      BY <1>1, ConcatSplit
    <3>3. \A i \in DOMAIN written' : written'[i] \in RowSet
      BY <3>1
    <3> QED  BY <2>2, <3>1, <3>2, <3>3 DEF RowSet, Value
  <2> QED  BY <2>1, <2>2
<1>. QED  BY <1>2, <1>3, <1>4 DEF File!Write

(* A step of the writer is a step of the file, or none.                    *)
LEMMA NextRefines ==
    ASSUME IInv, Next
    PROVE  File!Next \/ UNCHANGED File!vars
<1>1. ASSUME NEW batch \in Batches, NEW may \in MayHaveNulls(batch),
             NEW first \in FlushDecision, NEW second \in Answers(first),
             Write(batch, may, first, second)
      PROVE  File!Next
  BY <1>1, WriteRefines DEF File!Next
<1>2. CASE Flush
  <2>1. /\ ~lastException /\ ~lastException' /\ footer' = footer
        /\ written' = written
        /\ RowsOf(stripes') \in {RowsOf(stripes), written}
        /\ footer => RowsOf(stripes') = RowsOf(stripes)
    BY <1>2, FlushStep
  <2>2. FileRows' \in {FileRows, written'} /\ (footer => FileRows' = FileRows)
    BY <2>1 DEF FileRows, RowsOf
  <2>3. CASE footer
    BY <2>1, <2>2, <2>3 DEF File!vars, Status
  <2>4. CASE ~footer
    <3>1. Status = "writing" /\ Status' = "writing"
      BY <2>1, <2>4 DEF Status
    <3> QED  BY <2>1, <2>2, <3>1 DEF File!Next, File!Write
  <2> QED  BY <2>3, <2>4
<1>3. CASE Close
  <2>1. /\ ~lastException /\ ~lastException' /\ footer' = TRUE
        /\ written' = written /\ RowsOf(stripes') = written
        /\ footer => RowsOf(stripes') = RowsOf(stripes)
    BY <1>3, CloseStep
  <2>2. FileRows' = written /\ (footer => FileRows' = FileRows)
    BY <2>1 DEF FileRows, RowsOf
  <2>3. Status' = "complete"
    BY <2>1 DEF Status
  <2>4. CASE footer
    <3>1. Status = "complete"
      BY <2>1, <2>4 DEF Status
    <3> QED  BY <2>1, <2>2, <2>3, <2>4, <3>1 DEF File!vars
  <2>5. CASE ~footer
    <3>1. Status = "writing"
      BY <2>1, <2>5 DEF Status
    <3> QED  BY <2>1, <2>2, <2>3, <3>1 DEF File!Next, File!Close
  <2> QED  BY <2>4, <2>5
<1>4. CASE \/ \E batch, may, done : WriteFails(batch, may, done)
           \/ \E batch, may, first, second : WriteFailsLater(batch, may, first, second)
           \/ FlushFails
           \/ CloseFails
  <2>1. ~lastException /\ ~footer /\ lastException' /\ written' = written
    BY <1>4, FailingSteps
  <2>2. Status = "writing" /\ Status' = "failed"
    BY <2>1 DEF Status
  <2> QED  BY <2>1, <2>2 DEF File!Next, File!Fail
<1>. QED  BY <1>1, <1>2, <1>3, <1>4 DEF Next

(* The writer keeps RowFile's promise: accepted rows reach the stripes in  *)
(* order, a close that returned leaves all of them in the file, and a      *)
(* writer that failed stays failed.                                        *)
THEOREM WriterImplementsRowFile == Spec => ImplementsRowFile
<1>1. Init => File!Init
  <2> SUFFICES ASSUME Init PROVE File!Init
    OBVIOUS
  <2>1. /\ written = <<>> /\ stripes = <<>>
        /\ lastException = FALSE /\ footer = FALSE
    BY DEF Init
  <2>2. FileRows = <<>>
    BY <2>1, NoStripes DEF FileRows, RowsOf
  <2>3. Status = "writing"
    BY <2>1 DEF Status
  <2> QED  BY <2>1, <2>2, <2>3 DEF File!Init
<1>2. IInv /\ [Next]_vars => [File!Next]_(File!vars)
  <2>1. ASSUME UNCHANGED vars PROVE UNCHANGED File!vars
    BY <2>1 DEF vars, context, File!vars, FileRows, StripeRows, Status
  <2> QED  BY <2>1, NextRefines
<1>. QED  BY <1>1, <1>2, WriterInvariant, PTL DEF Spec, ImplementsRowFile, File!Spec
=============================================================================
