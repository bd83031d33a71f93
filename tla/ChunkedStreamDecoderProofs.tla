--------------------- MODULE ChunkedStreamDecoderProofs ---------------------
(***************************************************************************)
(* Proofs about ChunkedStreamDecoder, for any number of chunks and slots,  *)
(* any bitmaps of nulls and any size of a byte: a decoder is a cursor over *)
(* the rows of all chunks, and strings outlive their chunks.               *)
(***************************************************************************)
EXTENDS ChunkedStreamDecoder, SequenceFacts

Cells == Values \cup {Unwritten}
Bit == BOOLEAN \cup {Unwritten}

-----------------------------------------------------------------------------
(* Spreading values over slots                                             *)

(* T[i] of the slots up to i, beginning with `from`, take a value.         *)
Counts(T, takes, from, to) ==
    /\ T \in [(from - 1)..(to - 1) -> Int]
    /\ T[from - 1] = 0
    /\ \A i \in from..(to - 1) : T[i] = T[i - 1] + (IF takes[i] THEN 1 ELSE 0)

(* At most all slots take one, and then each of them does.                 *)
LEMMA CountsBound ==
    ASSUME NEW from \in Nat, NEW to \in Nat, from <= to, NEW takes, NEW T,
           Counts(T, takes, from, to)
    PROVE  \A i \in (from - 1)..(to - 1) :
             /\ T[i] \in 0..(i - from + 1)
             /\ T[i] = i - from + 1 =>
                  \A j \in from..i : takes[j] /\ T[j] = j - from + 1
<1> DEFINE n == to - from
           Full(k) == \A j \in from..(from - 1 + k) : takes[j] /\ T[j] = j - from + 1
           P == {k \in 0..n : /\ T[from - 1 + k] \in 0..k
                              /\ T[from - 1 + k] = k => Full(k)}
<1>1. n \in Nat /\ from - 1 + 0 = from - 1 /\ from..(from - 1 + 0) = {}
  OBVIOUS
<1>2. 0 \in P
  <2>1. T[from - 1 + 0] = 0 /\ Full(0)
    BY <1>1 DEF Counts
  <2> QED  BY <1>1, <2>1
<1>3. ASSUME NEW k \in 1..n, k - 1 \in P PROVE k \in P
  <2> DEFINE i == from - 1 + k
  <2>1. i \in from..(to - 1) /\ i - 1 = from - 1 + (k - 1) /\ k - 1 \in Nat /\ k \in 0..n
    BY <1>1
  <2>2. T[i] = T[i - 1] + (IF takes[i] THEN 1 ELSE 0)
    BY <2>1 DEF Counts
  <2>3. T[i - 1] \in 0..(k - 1) /\ (T[i - 1] = k - 1 => Full(k - 1))
    BY <1>3, <2>1
  <2> HIDE DEF Full
  <2>4. T[i] \in 0..k
    BY <2>1, <2>2, <2>3
  <2>5. ASSUME T[i] = k PROVE Full(k)
    <3>1. takes[i] /\ T[i - 1] = k - 1
      BY <2>1, <2>2, <2>3, <2>5
    <3>2. Full(k - 1)
      BY <2>3, <3>1
    <3>3. ASSUME NEW j \in from..(from - 1 + k) PROVE takes[j] /\ T[j] = j - from + 1
      <4>1. CASE j = i
        BY <2>1, <2>5, <3>1, <4>1
      <4>2. CASE j # i
        <5>1. j \in from..(from - 1 + (k - 1))
          BY <2>1, <4>2
        <5> QED  BY <3>2, <5>1 DEF Full
      <4> QED  BY <4>1, <4>2
    <3> QED  BY <3>3 DEF Full
  <2> QED  BY <2>1, <2>4, <2>5
<1>4. 0..n \subseteq P
  <2> HIDE DEF P, n
  <2> QED  BY <1>1, <1>2, <1>3, Climb
<1>5. ASSUME NEW i \in (from - 1)..(to - 1)
      PROVE  /\ T[i] \in 0..(i - from + 1)
             /\ T[i] = i - from + 1 =>
                  \A j \in from..i : takes[j] /\ T[j] = j - from + 1
  <2> DEFINE k == i - from + 1
  <2>1. k \in 0..n /\ from - 1 + k = i
    BY <1>1
  <2>2. k \in P
    <3> HIDE DEF P
    <3> QED  BY <1>4, <2>1
  <2> QED  BY <2>1, <2>2
<1>. QED  BY <1>5

(* In the middle of spreading: the slots above `output` are done, the      *)
(* values up to `last` are still where they were.                          *)
Spreading(buffer, from, to, takes, T) ==
    {s \in [buffer : [Slots -> Cells], output : (from - 1)..(to - 1), last : Int] :
        /\ s.last = from - 1 + T[s.output]
        /\ \A i \in Slots : i <= s.output \/ i >= to => s.buffer[i] = buffer[i]
        /\ \A i \in (s.output + 1)..(to - 1) :
             takes[i] => s.buffer[i] = buffer[from - 1 + T[i]]}

(* One value moves.                                                        *)
LEMMA SpreadStepFacts ==
    ASSUME NEW from \in Nat, NEW to \in Nat, from <= to, to <= MaxSlots,
           NEW takes, NEW T, Counts(T, takes, from, to),
           NEW buffer \in [Slots -> Cells],
           NEW s \in Spreading(buffer, from, to, takes, T)
    PROVE  /\ SpreadStep(s, takes) \in Spreading(buffer, from, to, takes, T)
           /\ s.output # s.last => SpreadStep(s, takes).output = s.output - 1
           /\ s.output = s.last => SpreadStep(s, takes) = s
<1>1. CASE s.output = s.last
  BY <1>1 DEF SpreadStep
<1>2. CASE s.output # s.last
  <2> DEFINE o == s.output
             l == s.last
             t == SpreadStep(s, takes)
             b == [s.buffer EXCEPT ![o] = s.buffer[l]]
  <2>1. /\ s.buffer \in [Slots -> Cells] /\ o \in (from - 1)..(to - 1)
        /\ l = from - 1 + T[o]
        /\ \A i \in Slots : i <= o \/ i >= to => s.buffer[i] = buffer[i]
        /\ \A i \in (o + 1)..(to - 1) :
             takes[i] => s.buffer[i] = buffer[from - 1 + T[i]]
    BY DEF Spreading
  <2>2. T[from - 1] = 0 /\ MaxSlots \in Nat
    BY DecoderAssumption DEF Counts
  <2>3. o \in from..(to - 1) /\ o \in Slots /\ o - 1 \in (from - 1)..(to - 1)
    BY <1>2, <2>1, <2>2 DEF Slots
  <2>4. T[o] = T[o - 1] + (IF takes[o] THEN 1 ELSE 0)
    BY <2>3 DEF Counts
  <2>5. /\ T[o] \in 0..(o - from + 1) /\ T[o - 1] \in 0..(o - from)
    <3>1. (o - 1) - from + 1 = o - from
      BY <2>1
    <3> QED  BY <2>1, <2>3, <3>1, CountsBound
  <2>6. CASE takes[o]
    <3>1. t = [buffer |-> b, output |-> o - 1, last |-> l - 1]
      BY <1>2, <2>6 DEF SpreadStep
    <3>2. l \in Slots /\ l < o /\ l - 1 = from - 1 + T[o - 1]
      <4>1. T[o] = T[o - 1] + 1 /\ T[o - 1] \in Int /\ T[o] \in Int
        BY <2>4, <2>5, <2>6
      <4> DEFINE x == T[o]
                 y == T[o - 1]
      <4>2. x = y + 1 /\ y \in 0..(o - from) /\ x \in 0..(o - from + 1) /\ l = from - 1 + x
        BY <2>1, <2>5, <4>1
      <4>3. o # l /\ o \in from..(to - 1) /\ o \in 0..(MaxSlots - 1)
        BY <1>2, <2>3 DEF Slots
      <4> HIDE DEF x, y, o, l
      <4>4. l \in 0..(MaxSlots - 1) /\ l < o /\ l - 1 = from - 1 + y
        BY <2>2, <4>2, <4>3
      <4> QED  BY <4>4 DEF y, Slots
    <3>3. b \in [Slots -> Cells] /\ b[o] = buffer[from - 1 + T[o]]
      <4>1. s.buffer[l] = buffer[l] /\ s.buffer[l] \in Cells
        BY <2>1, <2>3, <3>2 DEF Slots
      <4>2. b \in [Slots -> Cells] /\ b[o] = s.buffer[l]
        BY <2>1, <2>3, <4>1
      <4> QED  BY <2>1, <4>1, <4>2
    <3>4. \A i \in Slots : i # o => b[i] = s.buffer[i]
      BY <2>1
    <3> HIDE DEF b
    <3>5. ASSUME NEW i \in Slots, i <= o - 1 \/ i >= to PROVE b[i] = buffer[i]
      <4>1. i # o /\ (i <= o \/ i >= to)
        BY <2>3, <3>5 DEF Slots
      <4> QED  BY <2>1, <3>4, <4>1
    <3>6. ASSUME NEW i \in ((o - 1) + 1)..(to - 1), takes[i]
          PROVE  b[i] = buffer[from - 1 + T[i]]
      <4>1. CASE i = o
        BY <3>3, <4>1
      <4>2. CASE i # o
        <5>1. i \in (o + 1)..(to - 1) /\ i \in Slots
          BY <2>1, <2>2, <2>3, <4>2 DEF Slots
        <5> QED  BY <2>1, <3>4, <3>6, <4>2, <5>1
      <4> QED  BY <4>1, <4>2
    <3>7. t.buffer = b /\ t.output = o - 1 /\ t.last = l - 1
      BY <3>1
    <3>8. t \in [buffer : [Slots -> Cells], output : (from - 1)..(to - 1), last : Int]
      BY <2>3, <3>1, <3>2, <3>3 DEF Slots
    <3> HIDE DEF t, o, l
    <3>9. t \in Spreading(buffer, from, to, takes, T)
      BY <3>2, <3>5, <3>6, <3>7, <3>8 DEF Spreading
    <3> QED  BY <1>2, <3>7, <3>9 DEF t, o, l
  <2>7. CASE ~takes[o]
    <3>1. t = [buffer |-> s.buffer, output |-> o - 1, last |-> l]
      BY <1>2, <2>7 DEF SpreadStep
    <3>2. l = from - 1 + T[o - 1]
      BY <2>1, <2>4, <2>5, <2>7
    <3>3. ASSUME NEW i \in Slots, i <= o - 1 \/ i >= to PROVE s.buffer[i] = buffer[i]
      <4>1. i <= o \/ i >= to
        BY <2>3, <3>3 DEF Slots
      <4> QED  BY <2>1, <4>1
    <3>4. ASSUME NEW i \in ((o - 1) + 1)..(to - 1), takes[i]
          PROVE  s.buffer[i] = buffer[from - 1 + T[i]]
      <4>1. i \in (o + 1)..(to - 1)
        BY <2>1, <2>7, <3>4
      <4> QED  BY <2>1, <3>4, <4>1
    <3>5. t.buffer = s.buffer /\ t.output = o - 1 /\ t.last = l
      BY <3>1
    <3>6. t \in [buffer : [Slots -> Cells], output : (from - 1)..(to - 1), last : Int]
      BY <2>1, <2>3, <2>5, <3>1
    <3> HIDE DEF t, o, l
    <3>7. t \in Spreading(buffer, from, to, takes, T)
      BY <3>2, <3>3, <3>4, <3>5, <3>6 DEF Spreading
    <3> QED  BY <1>2, <3>5, <3>7 DEF t, o, l
  <2> QED  BY <2>6, <2>7
<1>. QED  BY <1>1, <1>2

(* Every slot that takes a value gets the one counted for it, and no other *)
(* slot changes; below the slot where the ends met all slots take one.     *)
LEMMA SpreadFacts ==
    ASSUME NEW from \in Nat, NEW to \in Nat, from <= to, to <= MaxSlots,
           NEW takes, NEW T, Counts(T, takes, from, to),
           NEW buffer \in [Slots -> Cells]
    PROVE  LET r == Spread(buffer, to - 1, from - 1 + T[to - 1], takes)
           IN  /\ r.buffer \in [Slots -> Cells]
               /\ r.output \in (from - 1)..(to - 1)
               /\ \A i \in Slots : i < from \/ i >= to => r.buffer[i] = buffer[i]
               /\ \A i \in from..(to - 1) :
                    takes[i] => r.buffer[i] = buffer[from - 1 + T[i]]
               /\ \A i \in from..r.output : takes[i]
<1> DEFINE D == Spreading(buffer, from, to, takes, T)
           a == [buffer |-> buffer, output |-> to - 1, last |-> from - 1 + T[to - 1]]
           step == [i \in 1..to |-> [s \in D |-> SpreadStep(s, takes)]]
           IsFcn(h) == h = [k \in 0..to |-> IF k = 0 THEN a
                                            ELSE SpreadStep(h[k - 1], takes)]
           st == CHOOSE h : IsFcn(h)
<1>1. a \in D
  <2>1. to - 1 \in (from - 1)..(to - 1) /\ T[to - 1] \in Int
    BY CountsBound
  <2>2. a \in [buffer : [Slots -> Cells], output : (from - 1)..(to - 1), last : Int]
    BY <2>1
  <2>3. ((to - 1) + 1)..(to - 1) = {}
    OBVIOUS
  <2>4. a.buffer = buffer /\ a.output = to - 1 /\ a.last = from - 1 + T[to - 1]
    OBVIOUS
  <2> HIDE DEF a
  <2> QED  BY <2>2, <2>3, <2>4 DEF Spreading
<1>2. ASSUME NEW s \in D
      PROVE  /\ SpreadStep(s, takes) \in D
             /\ s.output # s.last => SpreadStep(s, takes).output = s.output - 1
             /\ s.output = s.last => SpreadStep(s, takes) = s
  <2> QED  BY SpreadStepFacts
<1> HIDE DEF D, a
<1>3. step \in [1..to -> [D -> D]]
  BY <1>2
<1>4. \A i \in 1..to : \A s \in D : step[i][s] = SpreadStep(s, takes)
  OBVIOUS
<1> HIDE DEF step
<1>5. PICK f \in [0..to -> D] : IsIteration(f, a, step, to)
  BY <1>1, <1>3, IterationExists
<1>6. IsFcn(f)
  <2>1. ASSUME NEW k \in 0..to
        PROVE  f[k] = IF k = 0 THEN a ELSE SpreadStep(f[k - 1], takes)
    <3>1. CASE k = 0
      BY <1>5, <3>1 DEF IsIteration
    <3>2. CASE k # 0
      <4>1. k \in 1..to /\ k - 1 \in 0..to
        BY <3>2
      <4>2. f[k] = step[k][f[k - 1]] /\ f[k - 1] \in D
        BY <1>5, <4>1 DEF IsIteration
      <4> QED  BY <1>4, <3>2, <4>1, <4>2
    <3> QED  BY <3>1, <3>2
  <2> QED  BY <2>1
<1>7. IsFcn(st)
  <2> HIDE DEF IsFcn
  <2> QED  BY <1>6
<1>8. Spread(buffer, to - 1, from - 1 + T[to - 1], takes) = st[to]
  <2>1. (to - 1) + 1 = to
    OBVIOUS
  <2> QED  BY <2>1 DEF Spread, a
<1> HIDE DEF st
<1>9. st[0] = a /\ \A k \in 1..to : st[k] = SpreadStep(st[k - 1], takes)
  BY <1>7
<1> DEFINE P == {k \in 0..to : /\ st[k] \in D
                               /\ \/ st[k].output = st[k].last
                                  \/ st[k].output = to - 1 - k}
<1>10. 0 \in P
  <2>1. a.output = to - 1 - 0
    BY DEF a
  <2> QED  BY <1>1, <1>9, <2>1
<1>11. ASSUME NEW k \in 1..to, k - 1 \in P PROVE k \in P
  <2> DEFINE s == st[k - 1]
  <2>1. s \in D /\ (s.output = s.last \/ s.output = to - 1 - (k - 1))
    BY <1>11
  <2>2. st[k] = SpreadStep(s, takes)
    BY <1>9
  <2> HIDE DEF s
  <2>3. CASE s.output = s.last
    BY <1>2, <2>1, <2>2, <2>3
  <2>4. CASE s.output # s.last
    <3>1. st[k] \in D /\ st[k].output = s.output - 1 /\ s.output = to - 1 - (k - 1)
      BY <1>2, <2>1, <2>2, <2>4
    <3>2. st[k].output = to - 1 - k
      BY <3>1
    <3> QED  BY <3>1, <3>2
  <2> QED  BY <2>3, <2>4
<1>12. to \in P
  <2>1. 0..to \subseteq P
    <3> HIDE DEF P
    <3> QED  BY <1>10, <1>11, Climb
  <2> QED  BY <2>1
<1> DEFINE r == st[to]
<1>13. r \in D /\ (r.output = r.last \/ r.output = to - 1 - to)
  BY <1>12
<1> HIDE DEF P, r
<1>14. /\ r.buffer \in [Slots -> Cells] /\ r.output \in (from - 1)..(to - 1)
       /\ r.last = from - 1 + T[r.output]
       /\ \A i \in Slots : i <= r.output \/ i >= to => r.buffer[i] = buffer[i]
       /\ \A i \in (r.output + 1)..(to - 1) :
            takes[i] => r.buffer[i] = buffer[from - 1 + T[i]]
  BY <1>13 DEF D, Spreading
<1>15. T[r.output] = r.output - from + 1
  <2>1. T[from - 1] = 0 /\ T[r.output] \in Int
    BY <1>14 DEF Counts
  <2>2. CASE r.output = r.last
    BY <1>14, <2>1, <2>2
  <2>3. CASE r.output = to - 1 - to
    <3>1. r.output = from - 1
      BY <1>14, <2>3
    <3> QED  BY <2>1, <3>1
  <2> QED  BY <1>13, <2>2, <2>3
<1>16. \A j \in from..r.output : takes[j] /\ T[j] = j - from + 1
  <2>1. \A i \in (from - 1)..(to - 1) :
          T[i] = i - from + 1 => \A j \in from..i : takes[j] /\ T[j] = j - from + 1
    BY CountsBound
  <2> QED  BY <1>14, <1>15, <2>1
<1>17. ASSUME NEW i \in Slots, i < from \/ i >= to PROVE r.buffer[i] = buffer[i]
  <2>1. CASE i >= to
    BY <1>14, <2>1
  <2>2. CASE i < from
    <3>1. i <= r.output
      BY <1>14, <1>17, <2>2 DEF Slots
    <3> QED  BY <1>14, <3>1
  <2> QED  BY <1>17, <2>1, <2>2
<1>18. ASSUME NEW i \in from..(to - 1), takes[i]
       PROVE  r.buffer[i] = buffer[from - 1 + T[i]]
  <2>1. i \in Slots
    BY DecoderAssumption DEF Slots
  <2>2. CASE i <= r.output
    <3>1. i \in from..r.output
      BY <1>14, <2>2
    <3>2. from - 1 + T[i] = i
      BY <1>16, <3>1
    <3> QED  BY <1>14, <2>1, <2>2, <3>2
  <2>3. CASE ~(i <= r.output)
    <3>1. i \in (r.output + 1)..(to - 1)
      BY <1>14, <2>3
    <3> QED  BY <1>14, <1>18, <3>1
  <2> QED  BY <2>2, <2>3
<1>. QED  BY <1>8, <1>14, <1>16, <1>17, <1>18 DEF r

-----------------------------------------------------------------------------
(* The rows of the stream                                                  *)

RowSet == Values \cup {Null}

ChunksOK == chunks \in Seq(EncodedChunk) /\ Len(chunks) <= MaxChunks

(* A chunk as a bitmap of rows that are not null.                          *)
LEMMA ChunkFacts ==
    ASSUME ChunksOK, NEW c \in 1..Len(chunks)
    PROVE  /\ chunks[c].nonNull \in Seq(BOOLEAN)
           /\ RowCount(c) \in 1..MaxRows /\ RowCount(c) \in Nat \ {0}
           /\ c \in 1..MaxChunks
           /\ ~chunks[c].nullable => \A i \in 1..RowCount(c) : chunks[c].nonNull[i]
<1> DEFINE ch == chunks[c]
           f == ch.nonNull
<1>1. ch \in EncodedChunk
  BY DEF ChunksOK
<1>2. MaxRows \in Nat /\ MaxChunks \in Nat
  BY DecoderAssumption
<1> HIDE DEF ch
<1>3. f \in Flags(MaxRows) /\ (ch.nullable \/ \A i \in DOMAIN f : f[i])
  BY <1>1 DEF EncodedChunk
<1>4. PICK k \in 1..MaxRows : f \in [1..k -> BOOLEAN]
  BY <1>3 DEF Flags
<1> HIDE DEF f
<1>5. f \in Seq(BOOLEAN) /\ Len(f) = k /\ DOMAIN f = 1..k /\ k \in Nat \ {0}
  BY <1>2, <1>4
<1>6. c \in 1..MaxChunks
  BY <1>2 DEF ChunksOK
<1>. QED  BY <1>3, <1>5, <1>6 DEF RowCount, f, ch

(* The rows of a chunk.                                                    *)
LEMMA RowsOfFacts ==
    ASSUME ChunksOK, NEW c \in 1..Len(chunks)
    PROVE  /\ RowsOf(c) \in Seq(RowSet) /\ Len(RowsOf(c)) = RowCount(c)
           /\ \A i \in 1..RowCount(c) :
                RowsOf(c)[i] = IF chunks[c].nonNull[i]
                               THEN Value(c, Rank(chunks[c].nonNull, i)) ELSE Null
           /\ \A i \in 1..RowCount(c) : chunks[c].nonNull[i] =>
                /\ Rank(chunks[c].nonNull, i) \in 1..MaxRows
                /\ Value(c, Rank(chunks[c].nonNull, i)) \in Values
<1> DEFINE f == chunks[c].nonNull
           n == RowCount(c)
           r == RowsOf(c)
<1>1. f \in Seq(BOOLEAN) /\ n = Len(f) /\ n \in Nat /\ n <= MaxRows /\ c \in 1..MaxChunks
  BY ChunkFacts, DecoderAssumption DEF RowCount
<1> HIDE DEF f, n
<1>2. ASSUME NEW i \in 1..n, f[i]
      PROVE  Rank(f, i) \in 1..MaxRows /\ Value(c, Rank(f, i)) \in Values
  <2>1. Rank(f, i) \in 1..Rank(f, n)
    BY <1>1, <1>2, RankSet
  <2>2. Rank(f, n) \in 0..n
    BY <1>1, RankFull
  <2>3. Rank(f, i) \in 1..MaxRows
    BY <1>1, <2>1, <2>2, DecoderAssumption
  <2> QED  BY <1>1, <2>3 DEF Value, Values
<1>3. r = [i \in 1..n |-> IF f[i] THEN Value(c, Rank(f, i)) ELSE Null]
  BY DEF RowsOf, f, n
<1> HIDE DEF r
<1>4. r \in [1..n -> RowSet]
  <2>1. ASSUME NEW i \in 1..n PROVE (IF f[i] THEN Value(c, Rank(f, i)) ELSE Null) \in RowSet
    BY <1>2 DEF RowSet
  <2> QED  BY <1>3, <2>1
<1>5. \A i \in 1..n : r[i] = IF f[i] THEN Value(c, Rank(f, i)) ELSE Null
  BY <1>3
<1>6. r \in Seq(RowSet) /\ Len(r) = n
  BY <1>1, <1>4
<1>. QED  BY <1>2, <1>5, <1>6 DEF r, n, f

(* The number of rows grows chunk by chunk.                                *)
LEMMA RowsInFacts ==
    ASSUME ChunksOK
    PROVE  /\ RowsIn(0) = 0
           /\ \A m \in 0..Len(chunks) :
                RowsIn(m) \in Nat /\ \A k \in m..Len(chunks) : RowsIn(m) <= RowsIn(k)
           /\ \A m \in 1..Len(chunks) : RowsIn(m) = RowsIn(m - 1) + RowCount(m)
<1> DEFINE n == Len(chunks)
           w == [c \in 1..n |-> RowCount(c)]
<1>1. n \in Nat
  BY DEF ChunksOK
<1>2. \A c \in 1..n : RowCount(c) \in Nat
  BY ChunkFacts
<1> HIDE DEF n
<1>3. w \in [1..n -> Nat] /\ \A c \in 1..n : w[c] = RowCount(c)
  BY <1>2
<1>4. \A m \in 0..n : [c \in 1..m |-> w[c]] = [c \in 1..m |-> RowCount(c)]
  BY <1>1
<1> HIDE DEF w
<1>5. PICK f : IsPrefixSum(f, w, n)
  BY <1>1, <1>3, PrefixSumExists
<1>6. ASSUME NEW m \in 0..n PROVE RowsIn(m) = f[m]
  <2>1. Total([c \in 1..m |-> w[c]]) = f[m]
    BY <1>1, <1>3, <1>5, TotalFirst
  <2> QED  BY <1>4, <2>1 DEF RowsIn
<1>7. /\ f[0] = 0 /\ \A m \in 0..n : f[m] \in Nat
      /\ \A m \in 1..n : f[m] = f[m - 1] + w[m]
  BY <1>5 DEF IsPrefixSum
<1>8. ASSUME NEW m \in 0..n, NEW k \in m..n PROVE f[m] <= f[k] /\ k \in 0..n
  BY <1>1, <1>3, <1>5, PrefixSumMonotonic
<1>9. \A m \in 1..n : m \in 0..n /\ m - 1 \in 0..n
  BY <1>1
<1>10. 0 \in 0..n
  BY <1>1
<1>. QED  BY <1>3, <1>6, <1>7, <1>8, <1>9, <1>10 DEF n

(* The j-th row of a chunk follows the rows of the chunks before.          *)
LEMMA AllRowsFacts ==
    ASSUME ChunksOK
    PROVE  /\ AllRows \in Seq(RowSet) /\ Len(AllRows) = RowsIn(Len(chunks))
           /\ \A c \in 1..Len(chunks) : \A j \in 1..RowCount(c) :
                AllRows[RowsIn(c - 1) + j] = RowsOf(c)[j]
<1> DEFINE n == Len(chunks)
           parts(m) == [c \in 1..m |-> RowsOf(c)]
           F(m) == FlattenSeq(parts(m))
           P == {m \in 0..n :
                  /\ F(m) \in Seq(RowSet) /\ Len(F(m)) = RowsIn(m)
                  /\ \A c \in 1..m : \A j \in 1..RowCount(c) :
                       F(m)[RowsIn(c - 1) + j] = RowsOf(c)[j]}
<1>1. n \in Nat
  BY DEF ChunksOK
<1>2. \A c \in 1..n : RowsOf(c) \in Seq(RowSet) /\ Len(RowsOf(c)) = RowCount(c)
  BY RowsOfFacts
<1>3. /\ RowsIn(0) = 0
      /\ \A m \in 0..n : RowsIn(m) \in Nat /\ \A k \in m..n : RowsIn(m) <= RowsIn(k)
      /\ \A m \in 1..n : RowsIn(m) = RowsIn(m - 1) + RowCount(m)
  BY RowsInFacts
<1>4. \A c \in 1..n : RowCount(c) \in Nat
  BY ChunkFacts
<1> HIDE DEF n
<1>5. 0 \in P
  <2>1. parts(0) = <<>>
    OBVIOUS
  <2>2. F(0) = <<>>
    BY <2>1, FlattenEmpty
  <2> HIDE DEF F
  <2>3. F(0) \in Seq(RowSet) /\ Len(F(0)) = 0 /\ 1..0 = {} /\ 0 \in 0..n
    <3>1. <<>> \in Seq(RowSet) /\ Len(<<>>) = 0
      OBVIOUS
    <3>2. F(0) \in Seq(RowSet) /\ Len(F(0)) = 0
      BY <2>2, <3>1, Zenon
    <3>3. 1..0 = {} /\ 0 \in 0..n
      BY <1>1
    <3> QED  BY <3>2, <3>3
  <2> QED  BY <1>3, <2>3
<1>6. ASSUME NEW m \in 1..n, m - 1 \in P PROVE m \in P
  <2> DEFINE a == F(m - 1)
             b == RowsOf(m)
             p == parts(m - 1)
  <2>1. m - 1 \in Nat /\ m \in Nat /\ m \in 0..n /\ m - 1 \in 0..n
    BY <1>1
  <2>2. p \in [1..(m - 1) -> Seq(RowSet)]
    BY <1>1, <1>2
  <2>3. p \in Seq(Seq(RowSet)) /\ Len(p) = m - 1
    <3> HIDE DEF p
    <3> QED  BY <2>1, <2>2
  <2>4. parts(m) = Append(p, b)
    <3>1. parts(m) \in [1..m -> Seq(RowSet)]
      BY <1>1, <1>2
    <3>2. parts(m) \in Seq(Seq(RowSet)) /\ Len(parts(m)) = m
      <4> HIDE DEF parts
      <4> QED  BY <2>1, <3>1
    <3>3. /\ \A i \in 1..(m - 1) : parts(m)[i] = p[i]
          /\ parts(m)[m] = b
      BY <2>1
    <3>4. b \in Seq(RowSet)
      BY <1>2
    <3> HIDE DEF parts, p, b
    <3> DEFINE q == parts(m)
               S == Seq(RowSet)
    <3>5. q \in Seq(S) /\ Len(q) = m /\ p \in Seq(S) /\ b \in S
          /\ (\A i \in 1..(m - 1) : q[i] = p[i]) /\ q[m] = b
      BY <2>3, <3>2, <3>3, <3>4
    <3> HIDE DEF q, S
    <3>6. q = Append(p, b)
      BY <2>1, <2>3, <3>5
    <3> QED  BY <3>6 DEF q
  <2>5. b \in Seq(RowSet) /\ Len(b) = RowCount(m)
    BY <1>2
  <2>6. F(m) = a \o b
    <3> HIDE DEF parts, p, b
    <3>1. FlattenSeq(Append(p, b)) = FlattenSeq(p) \o b
      BY <2>3, <2>5, FlattenAppend
    <3> QED  BY <2>4, <3>1 DEF p
  <2>7. /\ a \in Seq(RowSet) /\ Len(a) = RowsIn(m - 1)
        /\ \A c \in 1..(m - 1) : \A j \in 1..RowCount(c) :
             a[RowsIn(c - 1) + j] = RowsOf(c)[j]
    BY <1>6
  <2> HIDE DEF F, a, b, p
  <2>8. /\ a \o b \in Seq(RowSet) /\ Len(a \o b) = Len(a) + Len(b)
        /\ \A i \in 1..Len(a) : (a \o b)[i] = a[i]
        /\ \A i \in 1..Len(b) : (a \o b)[Len(a) + i] = b[i]
    <3>1. a \in Seq(RowSet) /\ b \in Seq(RowSet)
      BY <2>5, <2>7
    <3> QED  BY <3>1, ConcatElements
  <2>9. Len(F(m)) = RowsIn(m)
    BY <1>3, <2>1, <2>5, <2>6, <2>7, <2>8
  <2>10. ASSUME NEW c \in 1..m, NEW j \in 1..RowCount(c)
         PROVE  F(m)[RowsIn(c - 1) + j] = RowsOf(c)[j]
    <3>1. CASE c = m
      BY <2>5, <2>6, <2>7, <2>8, <3>1 DEF b
    <3>2. CASE c # m
      <4>1. c \in 1..(m - 1) /\ c \in 1..n
        BY <1>1, <3>2
      <4>2. RowsIn(c - 1) + j \in 1..Len(a)
        <5>1. RowsIn(c) <= RowsIn(m - 1)
          <6>1. c \in 0..n /\ m - 1 \in c..n
            BY <1>1, <4>1
          <6> QED  BY <1>3, <6>1
        <5>2. RowsIn(c) = RowsIn(c - 1) + RowCount(c) /\ RowsIn(c - 1) \in Nat
              /\ RowCount(c) \in Nat /\ RowsIn(m - 1) \in Nat
          <6>1. c - 1 \in 0..n /\ m - 1 \in 0..n
            BY <1>1, <4>1
          <6> QED  BY <1>3, <1>4, <4>1, <6>1
        <5> QED  BY <2>7, <5>1, <5>2
      <4> QED  BY <2>6, <2>7, <2>8, <4>1, <4>2
    <3> QED  BY <3>1, <3>2
  <2> QED  BY <2>1, <2>6, <2>8, <2>9, <2>10
<1>7. n \in P
  <2>1. 0..n \subseteq P
    <3> HIDE DEF P
    <3> QED  BY <1>1, <1>5, <1>6, Climb
  <2> QED  BY <1>1, <2>1
<1>8. AllRows = F(n)
  BY DEF AllRows, n
<1> HIDE DEF F
<1>. QED  BY <1>7, <1>8 DEF n

-----------------------------------------------------------------------------
(* Positions                                                               *)

Position ==
    [next : Nat, remaining : Nat, encoding : [chunk : Nat, nulls : Nat, values : Nat]]

(* A chunk with rows left is the last one handed out, and its child of     *)
(* values stands behind the rows consumed that are not null.  Of an        *)
(* encoding without rows nothing is known, and nothing is needed.          *)
Placed(at) ==
    /\ at \in Position
    /\ at.next <= Len(chunks)
    /\ at.remaining > 0 =>
         /\ at.next > 0 /\ at.encoding.chunk = at.next
         /\ at.encoding.nulls + at.remaining = RowCount(at.next)
         /\ at.encoding.values = Rank(chunks[at.next].nonNull, at.encoding.nulls)

PosOf(at) == RowsIn(at.next) - at.remaining

(* A decoder stands between two rows of the stream.                        *)
LEMMA PlacedPos ==
    ASSUME ChunksOK, NEW at, Placed(at)
    PROVE  PosOf(at) \in 0..RowsIn(Len(chunks))
<1> DEFINE k == at.next
           r == at.remaining
           e == at.encoding
<1>1. k \in 0..Len(chunks) /\ r \in Nat /\ e.nulls \in Nat /\ Len(chunks) \in k..Len(chunks)
  BY DEF Placed, Position, ChunksOK
<1>2. /\ RowsIn(k) \in Nat /\ RowsIn(Len(chunks)) \in Nat
      /\ RowsIn(k) <= RowsIn(Len(chunks))
  BY <1>1, RowsInFacts
<1>3. r > 0 => k \in 1..Len(chunks) /\ e.nulls + r = RowCount(k)
  BY <1>1 DEF Placed
<1> HIDE DEF k, r, e
<1>4. r <= RowsIn(k)
  <2>1. CASE r = 0
    BY <1>2, <2>1
  <2>2. CASE r # 0
    <3>1. k \in 1..Len(chunks) /\ e.nulls + r = RowCount(k)
      BY <1>1, <1>3, <2>2
    <3>2. RowsIn(k) = RowsIn(k - 1) + RowCount(k) /\ RowsIn(k - 1) \in Nat
      <4>1. k - 1 \in 0..Len(chunks)
        BY <3>1
      <4> QED  BY <3>1, <4>1, RowsInFacts
    <3>3. RowCount(k) \in Nat
      BY <3>1, ChunkFacts
    <3> QED  BY <1>1, <3>1, <3>2, <3>3
  <2> QED  BY <2>1, <2>2
<1>5. RowsIn(k) - r \in 0..RowsIn(Len(chunks))
  BY <1>1, <1>2, <1>4
<1>. QED  BY <1>5 DEF PosOf, k, r

(* ensureLoaded loads the next chunk if none has rows left, and stays      *)
(* where it is.                                                            *)
LEMMA LoadFacts ==
    ASSUME ChunksOK, NEW at, Placed(at), at.remaining = 0 => at.next < Len(chunks)
    PROVE  LET l == EnsureLoaded(at)
           IN  /\ Placed(l) /\ l \in Position /\ l.remaining > 0
               /\ PosOf(l) = PosOf(at)
               /\ l.encoding.chunk \in 1..Len(chunks)
               /\ l.encoding.chunk = l.next
               /\ l.encoding.nulls + l.remaining = RowCount(l.encoding.chunk)
               /\ l.encoding.values =
                    Rank(chunks[l.encoding.chunk].nonNull, l.encoding.nulls)
               /\ PosOf(l) = RowsIn(l.encoding.chunk - 1) + l.encoding.nulls
<1> DEFINE l == EnsureLoaded(at)
<1>1. at \in Position /\ at.next \in 0..Len(chunks) /\ Len(chunks) \in Nat
  BY DEF Placed, Position, ChunksOK
<1>2. Placed(l) /\ PosOf(l) = PosOf(at) /\ l.remaining > 0
  <2>1. CASE at.remaining # 0
    <3>1. l = at /\ at.remaining > 0
      BY <1>1, <2>1 DEF EnsureLoaded, Position
    <3> QED  BY <3>1
  <2>2. CASE at.remaining = 0
    <3> DEFINE k == at.next + 1
               z == 0
               e == [chunk |-> k, nulls |-> z, values |-> z]
    <3>1. k \in 1..Len(chunks) /\ k - 1 = at.next
      BY <1>1, <2>2
    <3>2. RowCount(k) \in Nat /\ RowCount(k) > 0
      BY <3>1, ChunkFacts
    <3>3. RowsIn(k) = RowsIn(at.next) + RowCount(k) /\ RowsIn(at.next) \in Nat
      BY <1>1, <3>1, RowsInFacts
    <3>4. Rank(chunks[k].nonNull, 0) = 0
      BY RankZero
    <3>5. l = [next |-> k, remaining |-> RowCount(k), encoding |-> e]
      BY <2>2 DEF EnsureLoaded
    <3>6. e.chunk = k /\ e.nulls = 0 /\ e.values = 0
          /\ e \in [chunk : Nat, nulls : Nat, values : Nat]
      BY <3>1
    <3> HIDE DEF k, e, l
    <3>7. l \in Position /\ l.next = k /\ l.remaining = RowCount(k) /\ l.encoding = e
      BY <3>1, <3>2, <3>5, <3>6 DEF Position
    <3>8. Placed(l)
      BY <1>1, <3>1, <3>2, <3>4, <3>6, <3>7 DEF Placed
    <3>9. PosOf(l) = PosOf(at)
      <4>1. PosOf(l) = RowsIn(k) - RowCount(k) /\ PosOf(at) = RowsIn(at.next) - 0
        BY <2>2, <3>7 DEF PosOf
      <4> QED  BY <3>2, <3>3, <4>1
    <3> QED  BY <3>2, <3>7, <3>8, <3>9
  <2> QED  BY <2>1, <2>2
<1> HIDE DEF l
<1>3. /\ l \in Position /\ l.next \in 1..Len(chunks) /\ l.encoding.chunk = l.next
      /\ l.encoding.nulls \in Nat /\ l.remaining \in Nat
      /\ l.encoding.nulls + l.remaining = RowCount(l.next)
      /\ l.encoding.values = Rank(chunks[l.next].nonNull, l.encoding.nulls)
  BY <1>1, <1>2 DEF Placed, Position
<1>4. RowsIn(l.next) = RowsIn(l.next - 1) + RowCount(l.next) /\ RowsIn(l.next - 1) \in Nat
  <2>1. l.next - 1 \in 0..Len(chunks)
    BY <1>3
  <2> QED  BY <1>3, <2>1, RowsInFacts
<1>5. PosOf(l) = RowsIn(l.next - 1) + l.encoding.nulls
  BY <1>3, <1>4 DEF PosOf
<1>. QED  BY <1>2, <1>3, <1>5 DEF l

(* There is a next chunk as long as there are rows.                        *)
LEMMA MoreRows ==
    ASSUME ChunksOK, NEW at, Placed(at), PosOf(at) < RowsIn(Len(chunks))
    PROVE  at.remaining = 0 => at.next < Len(chunks)
<1> SUFFICES ASSUME at.remaining = 0, ~(at.next < Len(chunks)) PROVE FALSE
  OBVIOUS
<1>1. at.next = Len(chunks) /\ Len(chunks) \in Nat
  BY DEF Placed, Position, ChunksOK
<1>2. RowsIn(Len(chunks)) \in Nat
  BY <1>1, RowsInFacts
<1>3. PosOf(at) = RowsIn(Len(chunks)) - 0
  BY <1>1 DEF PosOf
<1>. QED  BY <1>2, <1>3

(* Rows are consumed, together with their values.                          *)
LEMMA ConsumedFacts ==
    ASSUME ChunksOK, NEW at, Placed(at), at.remaining > 0, NEW n \in 0..at.remaining,
           NEW values,
           values = Rank(chunks[at.encoding.chunk].nonNull, at.encoding.nulls + n)
                      - Rank(chunks[at.encoding.chunk].nonNull, at.encoding.nulls)
    PROVE  /\ Placed(Consumed(at, n, values))
           /\ PosOf(Consumed(at, n, values)) = PosOf(at) + n
           /\ Consumed(at, n, values).encoding.chunk = at.encoding.chunk
<1> DEFINE k == at.next
           r == at.remaining
           e == at.encoding
           f == chunks[k].nonNull
           c == Consumed(at, n, values)
           d == [chunk |-> e.chunk, nulls |-> e.nulls + n, values |-> e.values + values]
<1>1. /\ k \in 1..Len(chunks) /\ r \in Nat /\ e.nulls \in Nat /\ e.values \in Nat
      /\ e.chunk = k /\ n \in Nat /\ n <= r /\ e.chunk \in Nat
      /\ e.nulls + r = RowCount(k) /\ e.values = Rank(f, e.nulls)
  BY DEF Placed, Position, ChunksOK
<1>2. f \in Seq(BOOLEAN) /\ Len(f) = RowCount(k)
  BY <1>1, ChunkFacts DEF RowCount
<1>3. values = Rank(f, e.nulls + n) - Rank(f, e.nulls)
  BY <1>1
<1>4. c = [next |-> k, remaining |-> r - n, encoding |-> d]
  BY DEF Consumed
<1> HIDE DEF k, r, e, f, c
<1>5. Rank(f, e.nulls) \in Nat /\ Rank(f, e.nulls + n) \in Nat
  <2>1. e.nulls + n \in Nat
    BY <1>1
  <2> QED  BY <1>1, <2>1, RankStep
<1>6. d.chunk = k /\ d.nulls = e.nulls + n /\ d.values = Rank(f, e.nulls + n)
  BY <1>1, <1>3, <1>5
<1>7. d \in [chunk : Nat, nulls : Nat, values : Nat]
  BY <1>1, <1>3, <1>5
<1> HIDE DEF d
<1>8. c \in Position /\ c.next = k /\ c.remaining = r - n /\ c.encoding = d
  BY <1>1, <1>4, <1>7 DEF Position
<1>9. Placed(c)
  BY <1>1, <1>6, <1>8 DEF Placed, f
<1>10. PosOf(c) = PosOf(at) + n
  <2>1. RowsIn(k) \in Nat
    <3>1. k \in 0..Len(chunks)
      BY <1>1
    <3> QED  BY <3>1, RowsInFacts
  <2>2. PosOf(c) = RowsIn(k) - (r - n) /\ PosOf(at) = RowsIn(k) - r
    BY <1>8 DEF PosOf, k, r
  <2> QED  BY <1>1, <2>1, <2>2
<1>. QED  BY <1>1, <1>6, <1>8, <1>9, <1>10 DEF c, e

(* The bits of a call that the rows of a chunk go to: those before the     *)
(* (n + 1)-th set one, or all that are left.                               *)
LEMMA FindFacts ==
    ASSUME NEW scatter \in Seq(BOOLEAN), NEW begin \in 0..Len(scatter), NEW n \in Nat,
           Rank(scatter, begin) + n <= Rank(scatter, Len(scatter))
    PROVE  LET end == FindSetBit(scatter, begin, n + 1)
           IN  /\ end \in begin..Len(scatter)
               /\ Rank(scatter, end) = Rank(scatter, begin) + n
               /\ Rank(scatter, begin) + n = Rank(scatter, Len(scatter)) =>
                    end = Len(scatter)
<1> DEFINE w == Len(scatter)
           R(i) == Rank(scatter, i)
           hits == {i \in begin..(w - 1) : scatter[i + 1] /\ R(i + 1) - R(begin) = n + 1}
           end == FindSetBit(scatter, begin, n + 1)
<1>1. w \in Nat /\ begin \in Nat /\ begin <= w
  OBVIOUS
<1>2. ASSUME NEW i \in Nat
      PROVE  R(i) \in Nat /\ R(i + 1) = R(i) + (IF scatter[i + 1] THEN 1 ELSE 0)
  BY RankStep
<1>3. \A i \in 0..w : R(i) <= R(w)
  <2>1. ASSUME NEW i \in 0..w PROVE R(i) <= R(w)
    <3>1. w \in i..w
      BY <1>1
    <3> QED  BY <2>1, <3>1, RankGrows
  <2> QED  BY <2>1
<1>4. end = IF hits = {} THEN w ELSE CHOOSE i \in hits : TRUE
  BY DEF FindSetBit
<1>5. R(begin) + n <= R(w)
  OBVIOUS
<1> HIDE DEF R, w, end
<1>6. CASE hits = {}
  <2>1. end = w
    BY <1>4, <1>6
  <2>2. ASSUME R(w) # R(begin) + n PROVE FALSE
    <3> DEFINE A == {j \in begin..w : R(j) >= R(begin) + n + 1}
    <3>1. w \in A
      <4>1. R(w) \in Nat /\ R(begin) \in Nat
        BY <1>1, <1>2
      <4>2. R(w) >= R(begin) + n + 1 /\ w \in begin..w
        BY <1>1, <1>5, <2>2, <4>1
      <4> QED  BY <4>2
    <3>2. A \in SUBSET Nat
      BY <1>1
    <3>3. PICK j \in A : \A x \in A : j <= x
      <4> HIDE DEF A
      <4> QED  BY <3>1, <3>2, LeastNat
    <3>4. j \in begin..w /\ R(j) >= R(begin) + n + 1
      OBVIOUS
    <3>5. R(begin) \in Nat
      BY <1>1, <1>2
    <3>6. j # begin
      BY <1>1, <3>4, <3>5
    <3>7. j - 1 \in begin..(w - 1) /\ j - 1 \in Nat /\ (j - 1) + 1 = j /\ j - 1 \notin A
      BY <1>1, <3>3, <3>4, <3>6
    <3>8. R(j - 1) \in Nat /\ R(j - 1) < R(begin) + n + 1
      <4>1. R(j - 1) \in Nat
        BY <1>2, <3>7
      <4>2. ~(R(j - 1) >= R(begin) + n + 1)
        BY <1>1, <3>7
      <4> QED  BY <3>5, <4>1, <4>2
    <3>9. R(j) = R(j - 1) + (IF scatter[j] THEN 1 ELSE 0)
      BY <1>2, <3>7
    <3>10. scatter[j] /\ R(j) = R(begin) + n + 1
      BY <3>4, <3>5, <3>8, <3>9
    <3>11. j - 1 \in hits
      BY <3>5, <3>7, <3>10
    <3> QED  BY <1>6, <3>11
  <2>3. w \in begin..w
    BY <1>1
  <2> QED  BY <2>1, <2>2, <2>3 DEF R, w, end
<1>7. CASE hits # {}
  <2>1. end \in hits
    BY <1>4, <1>7
  <2>2. end \in begin..(w - 1) /\ scatter[end + 1] /\ R(end + 1) - R(begin) = n + 1
    BY <2>1
  <2>3. end \in Nat /\ end \in begin..w /\ end + 1 \in 0..w
    BY <1>1, <2>2
  <2>4. R(end) \in Nat /\ R(end + 1) = R(end) + 1 /\ R(begin) \in Nat
    BY <1>1, <1>2, <2>2, <2>3
  <2>5. R(end) = R(begin) + n
    BY <2>2, <2>4
  <2>6. R(w) # R(begin) + n
    <3>1. R(end + 1) <= R(w) /\ R(w) \in Nat
      BY <1>1, <1>2, <1>3, <2>3
    <3> QED  BY <2>4, <2>5, <3>1
  <2> QED  BY <2>3, <2>5, <2>6 DEF R, w, end
<1>. QED  BY <1>6, <1>7

-----------------------------------------------------------------------------
(* The rows of one chunk                                                   *)

(* The next n rows of encoding e go to the slots that scatter selects from *)
(* `from` up to `to`.                                                      *)
InChunk(e, n, from, to, scatter) ==
    /\ e.chunk \in 1..Len(chunks) /\ e.nulls \in Nat
    /\ e.nulls + n <= RowCount(e.chunk)
    /\ e.values = Rank(chunks[e.chunk].nonNull, e.nulls)
    /\ from \in Nat /\ to \in Nat /\ from <= to
    /\ to <= Len(scatter) /\ Len(scatter) <= MaxSlots
    /\ Rank(scatter, to) = Rank(scatter, from) + n

(* The last row of the chunk that is needed for the slots up to i, and     *)
(* whether slot i takes a value.                                           *)
RowAt(e, from, scatter, i) == e.nulls + (Rank(scatter, i + 1) - Rank(scatter, from))

Takes(e, from, scatter, i) ==
    scatter[i + 1] /\ chunks[e.chunk].nonNull[RowAt(e, from, scatter, i)]

(* The values that the slots up to i take.                                 *)
Taken(e, from, to, scatter) ==
    [i \in (from - 1)..(to - 1) |->
        Rank(chunks[e.chunk].nonNull, RowAt(e, from, scatter, i))
          - Rank(chunks[e.chunk].nonNull, e.nulls)]

(* Slots selected take one row after the other.                            *)
LEMMA SlotRows ==
    ASSUME ChunksOK, NEW scatter \in Seq(BOOLEAN), NEW n \in Nat, NEW e, NEW from, NEW to,
           InChunk(e, n, from, to, scatter)
    PROVE  /\ \A i \in (from - 1)..(to - 1) :
                RowAt(e, from, scatter, i) \in e.nulls..(e.nulls + n)
           /\ RowAt(e, from, scatter, from - 1) = e.nulls
           /\ RowAt(e, from, scatter, to - 1) = e.nulls + n
           /\ \A i \in from..(to - 1) :
                /\ RowAt(e, from, scatter, i) =
                     RowAt(e, from, scatter, i - 1) + (IF scatter[i + 1] THEN 1 ELSE 0)
                /\ scatter[i + 1] => RowAt(e, from, scatter, i) \in 1..RowCount(e.chunk)
<1> DEFINE R(i) == Rank(scatter, i)
           row(i) == RowAt(e, from, scatter, i)
<1>1. /\ e.nulls \in Nat /\ e.nulls + n <= RowCount(e.chunk) /\ from \in Nat /\ to \in Nat
      /\ from <= to /\ to <= Len(scatter) /\ R(to) = R(from) + n
      /\ Len(scatter) \in Nat /\ e.chunk \in 1..Len(chunks)
  BY DEF InChunk
<1>2. RowCount(e.chunk) \in Nat
  BY <1>1, ChunkFacts
<1>3. ASSUME NEW i \in Nat
      PROVE  R(i) \in Nat /\ R(i + 1) = R(i) + (IF scatter[i + 1] THEN 1 ELSE 0)
  BY RankStep
<1>4. ASSUME NEW i \in from..to PROVE R(from) <= R(i) /\ R(i) <= R(to)
  <2>1. from \in 0..Len(scatter) /\ i \in from..Len(scatter) /\ i \in 0..Len(scatter)
        /\ to \in i..Len(scatter)
    BY <1>1
  <2> QED  BY <2>1, RankGrows
<1>5. \A i : row(i) = e.nulls + (R(i + 1) - R(from))
  BY DEF RowAt
<1> HIDE DEF R, row
<1>6. R(from) \in Nat
  BY <1>1, <1>3
<1>7. ASSUME NEW i \in (from - 1)..(to - 1) PROVE row(i) \in e.nulls..(e.nulls + n)
  <2>1. i + 1 \in from..to /\ i + 1 \in Nat
    BY <1>1
  <2>2. R(i + 1) \in Nat /\ R(from) <= R(i + 1) /\ R(i + 1) <= R(from) + n
    BY <1>1, <1>3, <1>4, <2>1
  <2>3. e.nulls \in Nat /\ row(i) = e.nulls + (R(i + 1) - R(from))
    BY <1>1, <1>5
  <2> DEFINE x == R(i + 1)
             y == R(from)
             u == e.nulls
  <2>4. x \in Nat /\ y \in Nat /\ y <= x /\ x <= y + n /\ u \in Nat /\ row(i) = u + (x - y)
    BY <1>6, <2>2, <2>3
  <2> HIDE DEF x, y, u
  <2>5. row(i) \in u..(u + n)
    BY <2>4
  <2> QED  BY <2>5 DEF u
<1>8. row(from - 1) = e.nulls /\ row(to - 1) = e.nulls + n
  <2>1. (from - 1) + 1 = from /\ (to - 1) + 1 = to
    BY <1>1
  <2>2. /\ row(from - 1) = e.nulls + (R(from) - R(from))
        /\ row(to - 1) = e.nulls + (R(to) - R(from))
    BY <1>5, <2>1
  <2> QED  BY <1>1, <1>6, <2>2
<1>9. ASSUME NEW i \in from..(to - 1)
      PROVE  /\ row(i) = row(i - 1) + (IF scatter[i + 1] THEN 1 ELSE 0)
             /\ scatter[i + 1] => row(i) \in 1..RowCount(e.chunk)
  <2>1. /\ i \in Nat /\ (i - 1) + 1 = i
        /\ i - 1 \in (from - 1)..(to - 1) /\ i \in (from - 1)..(to - 1)
    BY <1>1
  <2>2. R(i) \in Nat /\ R(i + 1) = R(i) + (IF scatter[i + 1] THEN 1 ELSE 0)
    BY <1>3, <2>1
  <2>3. row(i) = e.nulls + (R(i + 1) - R(from)) /\ row(i - 1) = e.nulls + (R(i) - R(from))
    BY <1>5, <2>1
  <2>4. row(i - 1) \in e.nulls..(e.nulls + n) /\ row(i) \in e.nulls..(e.nulls + n)
    BY <1>7, <2>1
  <2>5. CASE scatter[i + 1]
    <3>1. row(i) = row(i - 1) + 1
      BY <1>1, <1>6, <2>2, <2>3, <2>5
    <3> QED  BY <1>1, <1>2, <2>4, <2>5, <3>1
  <2>6. CASE ~scatter[i + 1]
    <3>1. row(i) = row(i - 1) + 0
      BY <1>1, <1>6, <2>2, <2>3, <2>6
    <3> QED  BY <2>6, <3>1
  <2> QED  BY <2>5, <2>6
<1>. QED  BY <1>7, <1>8, <1>9 DEF row

(* A slot takes a value for every row that is not null.                    *)
LEMMA TakenCounts ==
    ASSUME ChunksOK, NEW scatter \in Seq(BOOLEAN), NEW n \in Nat, NEW e, NEW from, NEW to,
           InChunk(e, n, from, to, scatter), NEW takes,
           \A i \in from..(to - 1) : takes[i] <=> Takes(e, from, scatter, i)
    PROVE  /\ Counts(Taken(e, from, to, scatter), takes, from, to)
           /\ Taken(e, from, to, scatter)[to - 1] =
                Rank(chunks[e.chunk].nonNull, e.nulls + n)
                  - Rank(chunks[e.chunk].nonNull, e.nulls)
           /\ \A i \in from..(to - 1) : takes[i] =>
                /\ Taken(e, from, to, scatter)[i] \in 1..Taken(e, from, to, scatter)[to - 1]
                /\ e.values + Taken(e, from, to, scatter)[i] =
                     Rank(chunks[e.chunk].nonNull, RowAt(e, from, scatter, i))
<1> DEFINE f == chunks[e.chunk].nonNull
           row(i) == RowAt(e, from, scatter, i)
           T == Taken(e, from, to, scatter)
<1>1. /\ e.nulls \in Nat /\ e.nulls + n <= RowCount(e.chunk) /\ from \in Nat /\ to \in Nat
      /\ from <= to /\ e.chunk \in 1..Len(chunks) /\ e.values = Rank(f, e.nulls)
  BY DEF InChunk
<1>2. f \in Seq(BOOLEAN) /\ Len(f) = RowCount(e.chunk) /\ Len(f) \in Nat
  BY <1>1, ChunkFacts DEF RowCount
<1>3. /\ \A i \in (from - 1)..(to - 1) : row(i) \in e.nulls..(e.nulls + n)
      /\ row(from - 1) = e.nulls /\ row(to - 1) = e.nulls + n
      /\ \A i \in from..(to - 1) : row(i) = row(i - 1) + (IF scatter[i + 1] THEN 1 ELSE 0)
  BY SlotRows
<1>4. \A i \in (from - 1)..(to - 1) : T[i] = Rank(f, row(i)) - Rank(f, e.nulls)
  BY DEF Taken
<1>5. \A i \in from..(to - 1) : takes[i] <=> scatter[i + 1] /\ f[row(i)]
  BY DEF Takes
<1>6. ASSUME NEW k \in Nat
      PROVE  Rank(f, k) \in Nat /\ Rank(f, k + 1) = Rank(f, k) + (IF f[k + 1] THEN 1 ELSE 0)
  BY RankStep
<1>7. T \in [(from - 1)..(to - 1) -> Int]
  <2>1. ASSUME NEW i \in (from - 1)..(to - 1)
        PROVE  Rank(f, row(i)) - Rank(f, e.nulls) \in Int
    <3>1. row(i) \in Nat
      <4>1. row(i) \in e.nulls..(e.nulls + n)
        BY <1>3
      <4> HIDE DEF row
      <4> QED  BY <1>1, <4>1
    <3>2. Rank(f, row(i)) \in Nat
      <4> HIDE DEF row, f
      <4> QED  BY <1>6, <3>1
    <3>3. e.nulls \in Nat
      BY <1>1
    <3>4. Rank(f, e.nulls) \in Nat
      <4> HIDE DEF f
      <4> QED  BY <1>6, <3>3
    <3> HIDE DEF row, f
    <3> QED  BY <3>2, <3>4
  <2> HIDE DEF row, f
  <2> QED  BY <2>1 DEF Taken, row, f
<1> HIDE DEF f, row, T
<1>8. T[from - 1] = 0
  <2>1. from - 1 \in (from - 1)..(to - 1) /\ e.nulls \in Nat
    BY <1>1
  <2>2. Rank(f, e.nulls) \in Nat
    BY <1>6, <2>1
  <2>3. T[from - 1] = Rank(f, e.nulls) - Rank(f, e.nulls)
    BY <1>3, <1>4, <2>1
  <2> QED  BY <2>2, <2>3
<1>9. ASSUME NEW i \in from..(to - 1) PROVE T[i] = T[i - 1] + (IF takes[i] THEN 1 ELSE 0)
  <2>1. i \in (from - 1)..(to - 1) /\ i - 1 \in (from - 1)..(to - 1)
    BY <1>1
  <2>2. row(i - 1) \in Nat /\ row(i) \in Nat
    <3>1. row(i - 1) \in e.nulls..(e.nulls + n) /\ row(i) \in e.nulls..(e.nulls + n)
      BY <1>3, <2>1
    <3>2. e.nulls \in Nat
      BY <1>1
    <3> QED  BY <3>1, <3>2
  <2>3. /\ T[i] = Rank(f, row(i)) - Rank(f, e.nulls)
        /\ T[i - 1] = Rank(f, row(i - 1)) - Rank(f, e.nulls)
    BY <1>4, <2>1
  <2>4. Rank(f, e.nulls) \in Nat /\ Rank(f, row(i - 1)) \in Nat /\ Rank(f, row(i)) \in Nat
    BY <1>1, <1>6, <2>2
  <2>5. CASE ~scatter[i + 1]
    <3>1. row(i) = row(i - 1) /\ ~takes[i]
      BY <1>3, <1>5, <2>2, <2>5
    <3> QED  BY <2>3, <2>4, <3>1
  <2>6. CASE scatter[i + 1] /\ f[row(i)]
    <3>1. row(i) = row(i - 1) + 1 /\ takes[i]
      BY <1>3, <1>5, <2>6
    <3>2. Rank(f, row(i)) = Rank(f, row(i - 1)) + 1
      BY <1>6, <2>2, <2>6, <3>1
    <3> QED  BY <2>3, <2>4, <3>1, <3>2
  <2>7. CASE scatter[i + 1] /\ ~f[row(i)]
    <3>1. row(i) = row(i - 1) + 1 /\ ~takes[i]
      BY <1>3, <1>5, <2>7
    <3>2. Rank(f, row(i)) = Rank(f, row(i - 1)) + 0
      BY <1>6, <2>2, <2>7, <3>1
    <3> QED  BY <2>3, <2>4, <3>1, <3>2
  <2> QED  BY <2>5, <2>6, <2>7
<1>10. Counts(T, takes, from, to)
  BY <1>7, <1>8, <1>9 DEF Counts
<1>11. T[to - 1] = Rank(f, e.nulls + n) - Rank(f, e.nulls)
  <2>1. to - 1 \in (from - 1)..(to - 1)
    BY <1>1
  <2> QED  BY <1>3, <1>4, <2>1
<1>12. ASSUME NEW i \in from..(to - 1), takes[i]
       PROVE  T[i] \in 1..T[to - 1] /\ e.values + T[i] = Rank(f, row(i))
  <2>1. i \in (from - 1)..(to - 1) /\ i - 1 \in (from - 1)..(to - 1)
    BY <1>1
  <2>2. T[i - 1] \in 0..((i - 1) - from + 1)
    BY <1>1, <1>10, <2>1, CountsBound
  <2>3. T[i] = T[i - 1] + 1 /\ T[i - 1] \in Nat
    BY <1>1, <1>9, <1>12, <2>2
  <2>4. Rank(f, row(i)) <= Rank(f, e.nulls + n) /\ Rank(f, row(i)) \in Nat
        /\ Rank(f, e.nulls + n) \in Nat /\ Rank(f, e.nulls) \in Nat
    <3>1. row(i) \in 0..Len(f) /\ e.nulls + n \in row(i)..Len(f) /\ e.nulls \in Nat
      <4>1. row(i) \in e.nulls..(e.nulls + n)
        BY <1>3, <2>1
      <4> QED  BY <1>1, <1>2, <4>1
    <3>2. e.nulls + n \in Nat
      BY <1>1
    <3> QED  BY <1>2, <1>6, <3>1, <3>2, RankGrows
  <2>5. T[i] = Rank(f, row(i)) - Rank(f, e.nulls)
    BY <1>4, <2>1
  <2> DEFINE x == Rank(f, row(i))
             y == Rank(f, e.nulls)
             z == Rank(f, e.nulls + n)
             t == T[i]
             u == T[i - 1]
             v == T[to - 1]
  <2>6. /\ t = u + 1 /\ u \in Nat /\ t = x - y /\ v = z - y /\ x <= z /\ e.values = y
        /\ x \in Nat /\ y \in Nat /\ z \in Nat
    BY <1>1, <1>11, <2>3, <2>4, <2>5
  <2> HIDE DEF x, y, z, t, u, v
  <2>7. t \in 1..v /\ e.values + t = x
    BY <2>6
  <2> QED  BY <2>7 DEF x, t, v
<1>. QED  BY <1>10, <1>11, <1>12 DEF T, f, row

(* The next values, in the slots from `from` on, spread or not: each slot  *)
(* that takes one has the value of its row.                                *)
LEMMA ValuesPlaced ==
    ASSUME ChunksOK, NEW scatter \in Seq(BOOLEAN), NEW n \in Nat, NEW e, NEW from, NEW to,
           InChunk(e, n, from, to, scatter), NEW takes,
           \A i \in from..(to - 1) : takes[i] <=> Takes(e, from, scatter, i),
           NEW buffer \in [Slots -> Cells]
    PROVE  LET f == chunks[e.chunk].nonNull
               m == Rank(f, e.nulls + n) - Rank(f, e.nulls)
               b == MaterializeValues(buffer, from, e, m)
               r == Spread(b, to - 1, from + m - 1, takes)
               V(i) == Value(e.chunk, Rank(f, RowAt(e, from, scatter, i)))
           IN  /\ m \in 0..(to - from)
               /\ b \in [Slots -> Cells] /\ r.buffer \in [Slots -> Cells]
               /\ \A i \in Slots : i < from => b[i] = buffer[i] /\ r.buffer[i] = buffer[i]
               /\ \A i \in from..(to - 1) : takes[i] => r.buffer[i] = V(i)
               /\ m = to - from => \A i \in from..(to - 1) : takes[i] /\ b[i] = V(i)
               /\ r.output \in (from - 1)..(to - 1)
               /\ \A i \in from..r.output : takes[i]
<1> DEFINE f == chunks[e.chunk].nonNull
           c == e.chunk
           v == e.values
           T == Taken(e, from, to, scatter)
           m == Rank(f, e.nulls + n) - Rank(f, e.nulls)
           b == MaterializeValues(buffer, from, e, m)
           r == Spread(b, to - 1, from + m - 1, takes)
           row(i) == RowAt(e, from, scatter, i)
<1>1. /\ e.nulls \in Nat /\ e.nulls + n <= RowCount(c) /\ from \in Nat /\ to \in Nat
      /\ from <= to /\ to <= MaxSlots /\ c \in 1..Len(chunks) /\ v = Rank(f, e.nulls)
      /\ MaxSlots \in Nat
  BY DecoderAssumption DEF InChunk
<1>2. /\ f \in Seq(BOOLEAN) /\ Len(f) = RowCount(c) /\ Len(f) \in Nat /\ Len(f) <= MaxRows
      /\ c \in 1..MaxChunks /\ MaxRows \in Nat
  BY <1>1, ChunkFacts, DecoderAssumption DEF RowCount
<1>3. /\ Counts(T, takes, from, to) /\ T[to - 1] = m
      /\ \A i \in from..(to - 1) : takes[i] => T[i] \in 1..m /\ v + T[i] = Rank(f, row(i))
  BY TakenCounts
<1>4. \A j \in Slots : b[j] = IF j >= from /\ j < from + m THEN Value(c, v + j - from + 1)
                              ELSE buffer[j]
  BY DEF MaterializeValues
<1>5. b = [j \in Slots |-> b[j]]
  BY DEF MaterializeValues
<1> HIDE DEF f, c, v, T, m, b, row
<1>6. /\ \A i \in (from - 1)..(to - 1) : T[i] \in 0..(i - from + 1)
      /\ \A i \in (from - 1)..(to - 1) : T[i] = i - from + 1 =>
           \A j \in from..i : takes[j] /\ T[j] = j - from + 1
  <2>1. from \in Nat /\ to \in Nat /\ from <= to /\ Counts(T, takes, from, to)
    BY <1>1, <1>3
  <2> QED  BY <2>1, CountsBound
<1>7. m \in 0..(to - from)
  <2>1. to - 1 \in (from - 1)..(to - 1) /\ (to - 1) - from + 1 = to - from
    BY <1>1
  <2> QED  BY <1>3, <1>6, <2>1
<1>8. m = Rank(f, e.nulls + n) - v /\ v \in Nat /\ Rank(f, e.nulls + n) \in 0..MaxRows
  <2>1. e.nulls \in Nat /\ e.nulls + n \in Nat
    BY <1>1
  <2>2. Rank(f, e.nulls) \in Nat /\ Rank(f, e.nulls + n) \in 0..(e.nulls + n)
    BY <2>1, RankStep, RankFull
  <2>3. m = Rank(f, e.nulls + n) - v
    BY <1>1 DEF m
  <2> DEFINE x == Rank(f, e.nulls + n)
             u == e.nulls + n
  <2>4. x \in 0..u /\ u \in Nat /\ u <= Len(f) /\ Len(f) \in Nat /\ Len(f) <= MaxRows
        /\ MaxRows \in Nat
    BY <1>1, <1>2, <2>1, <2>2
  <2> HIDE DEF x, u
  <2>5. x \in 0..MaxRows
    BY <2>4
  <2> QED  BY <1>1, <2>2, <2>3, <2>5 DEF x
<1>9. ASSUME NEW k \in 1..m PROVE Value(c, v + k) \in Cells
  <2>1. v + k \in 1..MaxRows
    <3> DEFINE x == Rank(f, e.nulls + n)
    <3>1. m = x - v /\ v \in Nat /\ x \in 0..MaxRows /\ MaxRows \in Nat
      BY <1>2, <1>8
    <3> HIDE DEF x
    <3> QED  BY <3>1
  <2> QED  BY <1>2, <2>1 DEF Value, Values, Cells
<1>10. ASSUME NEW j \in from..(from + m - 1)
       PROVE  j \in Slots /\ b[j] = Value(c, v + (j - from + 1)) /\ j - from + 1 \in 1..m
  <2>1. /\ j \in Slots /\ j >= from /\ j < from + m /\ j - from + 1 \in 1..m
        /\ v + j - from + 1 = v + (j - from + 1)
    <3>1. /\ from \in Nat /\ to \in Nat /\ from <= to /\ to <= MaxSlots /\ MaxSlots \in Nat
          /\ m \in 0..(to - from) /\ v \in Nat
      BY <1>1, <1>7, <1>8
    <3> QED  BY <3>1 DEF Slots
  <2>2. b[j] = Value(c, v + j - from + 1)
    BY <1>4, <2>1
  <2> QED  BY <2>1, <2>2
<1>11. b \in [Slots -> Cells]
  <2>1. ASSUME NEW j \in Slots PROVE b[j] \in Cells
    <3>1. CASE j >= from /\ j < from + m
      <4>1. j \in from..(from + m - 1)
        BY <1>1, <1>7, <3>1 DEF Slots
      <4> QED  BY <1>9, <1>10, <4>1
    <3>2. CASE ~(j >= from /\ j < from + m)
      BY <1>4, <3>2
    <3> QED  BY <3>1, <3>2
  <2> QED  BY <1>5, <2>1
<1>12. \A j \in Slots : j < from => b[j] = buffer[j]
  BY <1>1, <1>4, <1>7 DEF Slots
<1>13. /\ r.buffer \in [Slots -> Cells] /\ r.output \in (from - 1)..(to - 1)
       /\ \A i \in Slots : i < from \/ i >= to => r.buffer[i] = b[i]
       /\ \A i \in from..(to - 1) : takes[i] => r.buffer[i] = b[from - 1 + T[i]]
       /\ \A i \in from..r.output : takes[i]
  <2>1. from + m - 1 = from - 1 + T[to - 1]
    BY <1>1, <1>3, <1>7
  <2>2. r = Spread(b, to - 1, from - 1 + T[to - 1], takes)
    BY <2>1
  <2>3. LET q == Spread(b, to - 1, from - 1 + T[to - 1], takes)
        IN  /\ q.buffer \in [Slots -> Cells] /\ q.output \in (from - 1)..(to - 1)
            /\ \A i \in Slots : i < from \/ i >= to => q.buffer[i] = b[i]
            /\ \A i \in from..(to - 1) : takes[i] => q.buffer[i] = b[from - 1 + T[i]]
            /\ \A i \in from..q.output : takes[i]
    <3>1. from \in Nat /\ to \in Nat /\ from <= to /\ to <= MaxSlots
      BY <1>1
    <3> QED  BY <1>3, <1>11, <3>1, SpreadFacts
  <2> HIDE DEF r
  <2> QED  BY <2>2, <2>3
<1> HIDE DEF r
<1>14. ASSUME NEW i \in from..(to - 1), takes[i]
       PROVE  r.buffer[i] = Value(c, Rank(f, row(i)))
  <2>1. T[i] \in 1..m /\ v + T[i] = Rank(f, row(i))
    BY <1>3, <1>14
  <2> DEFINE j == from - 1 + T[i]
  <2>2. j \in from..(from + m - 1) /\ j - from + 1 = T[i]
    <3> DEFINE x == T[i]
    <3>1. x \in 1..m /\ m \in 0..(to - from) /\ from \in Nat /\ to \in Nat
      BY <1>1, <1>7, <2>1
    <3> HIDE DEF x
    <3>2. from - 1 + x \in from..(from + m - 1) /\ (from - 1 + x) - from + 1 = x
      BY <3>1
    <3> QED  BY <3>2 DEF x
  <2>3. r.buffer[i] = b[j]
    BY <1>13, <1>14
  <2> HIDE DEF j
  <2> QED  BY <1>10, <2>1, <2>2, <2>3
<1>15. ASSUME m = to - from, NEW i \in from..(to - 1)
       PROVE  takes[i] /\ b[i] = Value(c, Rank(f, row(i)))
  <2>1. to - 1 \in (from - 1)..(to - 1) /\ T[to - 1] = (to - 1) - from + 1
    BY <1>1, <1>3, <1>15
  <2>2. takes[i] /\ T[i] = i - from + 1
    BY <1>6, <2>1
  <2>3. i \in from..(from + m - 1)
    BY <1>1, <1>15
  <2>4. b[i] = Value(c, v + (i - from + 1)) /\ v + T[i] = Rank(f, row(i))
    BY <1>3, <1>10, <2>2, <2>3
  <2> QED  BY <2>2, <2>4
<1>16. \A i \in Slots : i < from => b[i] = buffer[i] /\ r.buffer[i] = buffer[i]
  BY <1>12, <1>13
<1>. QED  BY <1>7, <1>11, <1>13, <1>14, <1>15, <1>16 DEF r, b, m, row, f, c

(* What materializeNullable leaves: the values of the slots that take one, *)
(* and a bitmap unless all of them do.                                     *)
ChunkRead(s, e, n, to, scatter, r) ==
    LET f == chunks[e.chunk].nonNull
        from == s.offset
    IN  /\ r.nonNull = Rank(f, e.nulls + n) - Rank(f, e.nulls)
        /\ r.nonNull \in 0..(to - from)
        /\ r.buffer \in [Slots -> Cells] /\ r.bits \in [Slots -> Bit]
        /\ r.asked = (s.asked \/ r.nonNull # to - from)
        /\ \A i \in Slots : i < from => r.buffer[i] = s.buffer[i] /\ r.bits[i] = s.bits[i]
        /\ \A i \in from..(to - 1) : Takes(e, from, scatter, i) =>
             r.buffer[i] = Value(e.chunk, Rank(f, RowAt(e, from, scatter, i)))
        /\ IF r.nonNull = to - from
           THEN \A i \in from..(to - 1) : Takes(e, from, scatter, i)
           ELSE \A i \in from..(to - 1) : r.bits[i] = Takes(e, from, scatter, i)

(* Whole bytes are not less than the bits asked for.                       *)
LEMMA WholeBytes ==
    ASSUME NEW t \in Nat, NEW b \in Nat \ {0}
    PROVE  ((t + b - 1) \div b) * b >= t
<1> DEFINE x == t + b - 1
           q == x \div b
           r == x % b
<1>1. x \in Nat
  OBVIOUS
<1> HIDE DEF x
<1>2. x = b * q + r /\ r \in 0..(b - 1) /\ q \in Int
  BY <1>1, SMTT(30)
<1> HIDE DEF q, r
<1>3. b * q >= t
  <2> DEFINE p == b * q
  <2>1. p \in Int
    BY <1>2
  <2> HIDE DEF p
  <2>2. x = p + r
    BY <1>2 DEF p
  <2>3. p >= t
    BY <1>2, <2>1, <2>2 DEF x
  <2> QED  BY <2>3 DEF p
<1>4. b * q = q * b
  BY <1>2, SMTT(30)
<1>. QED  BY <1>3, <1>4 DEF q, x

(* An encoding without nulls: a bitmap is needed for free slots only.      *)
LEMMA TypedFacts ==
    ASSUME ChunksOK, NEW scatter \in Seq(BOOLEAN), NEW n \in Nat, NEW e, NEW s, NEW to,
           InChunk(e, n, s.offset, to, scatter), ~chunks[e.chunk].nullable,
           s.buffer \in [Slots -> Cells], s.bits \in [Slots -> Bit], s.asked \in BOOLEAN
    PROVE  ChunkRead(s, e, n, to, scatter, TypedMaterialize(s, e, n, to, scatter))
<1> DEFINE f == chunks[e.chunk].nonNull
           from == s.offset
           takes == [i \in Slots |-> i < to /\ scatter[i + 1]]
           b == MaterializeValues(s.buffer, from, e, n)
           moved == Spread(b, to - 1, from + n - 1, takes)
           bits == CopyBits(s.bits, scatter, from, to)
           r == TypedMaterialize(s, e, n, to, scatter)
           V(i) == Value(e.chunk, Rank(f, RowAt(e, from, scatter, i)))
<1>1. /\ e.nulls \in Nat /\ e.nulls + n <= RowCount(e.chunk) /\ from \in Nat /\ to \in Nat
      /\ from <= to /\ to <= Len(scatter) /\ Len(scatter) <= MaxSlots
      /\ e.chunk \in 1..Len(chunks) /\ MaxSlots \in Nat /\ Len(scatter) \in Nat
  BY DecoderAssumption DEF InChunk
<1>2. \A i \in from..(to - 1) :
        i \in Slots /\ i < to /\ i < Len(scatter) /\ i + 1 \in 1..Len(scatter)
  BY <1>1 DEF Slots
<1>3. RowCount(e.chunk) \in Nat /\ \A k \in 1..RowCount(e.chunk) : f[k]
  BY <1>1, ChunkFacts
<1>4. \A i \in from..(to - 1) : Takes(e, from, scatter, i) <=> scatter[i + 1]
  <2>1. \A i \in from..(to - 1) : scatter[i + 1] =>
          RowAt(e, from, scatter, i) \in 1..RowCount(e.chunk)
    BY SlotRows
  <2> QED  BY <1>3, <2>1 DEF Takes
<1>5. \A i \in from..(to - 1) : takes[i] <=> Takes(e, from, scatter, i)
  <2>1. ASSUME NEW i \in from..(to - 1) PROVE takes[i] <=> scatter[i + 1]
    <3>1. i \in Slots /\ i < to
      BY <1>2
    <3> HIDE DEF from
    <3> QED  BY <3>1
  <2> QED  BY <1>4, <2>1
<1>6. Rank(f, e.nulls + n) - Rank(f, e.nulls) = n
  <2>1. e.nulls + n \in Nat /\ e.nulls \in Nat
    BY <1>1
  <2>2. /\ \A k \in 1..(e.nulls + n) : f[k]
        /\ \A k \in 1..e.nulls : f[k]
    <3> HIDE DEF f
    <3> QED  BY <1>1, <1>3
  <2>3. Rank(f, e.nulls + n) = e.nulls + n /\ Rank(f, e.nulls) = e.nulls
    <3> HIDE DEF f
    <3> QED  BY <2>1, <2>2, RankAll
  <2> QED  BY <2>1, <2>3
<1>7. /\ n \in 0..(to - from)
      /\ b \in [Slots -> Cells] /\ moved.buffer \in [Slots -> Cells]
      /\ \A i \in Slots : i < from => b[i] = s.buffer[i] /\ moved.buffer[i] = s.buffer[i]
      /\ \A i \in from..(to - 1) : takes[i] => moved.buffer[i] = V(i)
      /\ n = to - from => \A i \in from..(to - 1) : takes[i] /\ b[i] = V(i)
  <2> DEFINE m == Rank(f, e.nulls + n) - Rank(f, e.nulls)
             bm == MaterializeValues(s.buffer, from, e, m)
             mm == Spread(bm, to - 1, from + m - 1, takes)
  <2> HIDE DEF takes
  <2>1. /\ m \in 0..(to - from)
        /\ bm \in [Slots -> Cells] /\ mm.buffer \in [Slots -> Cells]
        /\ \A i \in Slots : i < from => bm[i] = s.buffer[i] /\ mm.buffer[i] = s.buffer[i]
        /\ \A i \in from..(to - 1) : takes[i] => mm.buffer[i] = V(i)
        /\ m = to - from => \A i \in from..(to - 1) : takes[i] /\ bm[i] = V(i)
    BY <1>5, ValuesPlaced, SMTT(30)
  <2>2. m = n
    BY <1>6
  <2> QED  BY <2>1, <2>2
<1>8. /\ bits \in [Slots -> Bit]
      /\ \A i \in Slots : i < from => bits[i] = s.bits[i]
      /\ \A i \in from..(to - 1) : bits[i] = scatter[i + 1]
  <2> DEFINE stop == ((to + ByteSize - 1) \div ByteSize) * ByteSize
             source(i) == IF i < Len(scatter) THEN scatter[i + 1] ELSE Unwritten
  <2>1. stop >= to
    BY <1>1, WholeBytes, DecoderAssumption
  <2>2. bits = [i \in Slots |-> IF i >= from /\ i < stop THEN source(i) ELSE s.bits[i]]
    BY DEF CopyBits
  <2> HIDE DEF stop, bits, from
  <2>3. ASSUME NEW i \in Slots PROVE source(i) \in Bit /\ s.bits[i] \in Bit
    <3>1. CASE i < Len(scatter)
      <4>1. i + 1 \in 1..Len(scatter)
        BY <1>1, <3>1 DEF Slots
      <4> QED  BY <3>1, <4>1 DEF Bit
    <3>2. CASE ~(i < Len(scatter))
      BY <3>2 DEF Bit
    <3> QED  BY <3>1, <3>2
  <2>4. \A i \in from..(to - 1) : i >= from /\ source(i) = scatter[i + 1]
    BY <1>1, <1>2
  <2>5. stop \in Int
    BY <1>1, DecoderAssumption DEF stop
  <2>6. \A i \in from..(to - 1) : i < stop
    BY <1>1, <2>1, <2>5
  <2> HIDE DEF source
  <2>7. bits \in [Slots -> Bit]
    BY <2>2, <2>3
  <2>8. ASSUME NEW i \in Slots, i < from PROVE bits[i] = s.bits[i]
    BY <1>1, <2>2, <2>8 DEF Slots
  <2>9. ASSUME NEW i \in from..(to - 1) PROVE bits[i] = scatter[i + 1]
    <3>1. i \in Slots /\ i >= from /\ i < stop
      BY <1>2, <2>4, <2>6
    <3>2. bits[i] = source(i)
      BY <2>2, <3>1
    <3> QED  BY <2>4, <3>2
  <2> QED  BY <2>7, <2>8, <2>9
<1>9. CASE to - from = n
  <2>1. r = [buffer |-> b, bits |-> s.bits, asked |-> s.asked, nonNull |-> n]
    BY <1>9 DEF TypedMaterialize
  <2>2. r.buffer = b /\ r.bits = s.bits /\ r.asked = s.asked /\ r.nonNull = n
    BY <2>1
  <2>3. r.asked = (s.asked \/ r.nonNull # to - from)
    BY <1>9, <2>2
  <2> HIDE DEF r, b, takes, moved, bits
  <2>4. r.nonNull = Rank(f, e.nulls + n) - Rank(f, e.nulls) /\ r.nonNull \in 0..(to - from)
    BY <1>6, <1>7, <2>2
  <2>5. r.nonNull = to - from
    BY <1>9, <2>2
  <2>6. \A i \in from..(to - 1) : Takes(e, from, scatter, i) /\ r.buffer[i] = V(i)
    BY <1>5, <1>7, <1>9, <2>2
  <2>7. /\ r.buffer \in [Slots -> Cells] /\ r.bits \in [Slots -> Bit]
        /\ \A i \in Slots : i < from => r.buffer[i] = s.buffer[i] /\ r.bits[i] = s.bits[i]
    BY <1>7, <2>2
  <2>8. ChunkRead(s, e, n, to, scatter, r)
    BY <2>3, <2>4, <2>5, <2>6, <2>7, Zenon DEF ChunkRead
  <2> QED  BY <2>8 DEF r
<1>10. CASE to - from # n
  <2>1. r = [buffer |-> moved.buffer, bits |-> bits, asked |-> TRUE, nonNull |-> n]
    BY <1>10 DEF TypedMaterialize
  <2>2. r.buffer = moved.buffer /\ r.bits = bits /\ r.asked = TRUE /\ r.nonNull = n
    BY <2>1
  <2>3. r.asked = (s.asked \/ r.nonNull # to - from)
    BY <1>10, <2>2
  <2>4. ASSUME NEW i \in from..(to - 1) PROVE bits[i] = Takes(e, from, scatter, i)
    <3>1. scatter[i + 1] \in BOOLEAN
      BY <1>2
    <3>2. bits[i] = scatter[i + 1] /\ (Takes(e, from, scatter, i) <=> scatter[i + 1])
      BY <1>4, <1>8
    <3> QED  BY <3>1, <3>2, Zenon DEF Takes
  <2> HIDE DEF r, b, takes, moved, bits
  <2>5. r.nonNull = Rank(f, e.nulls + n) - Rank(f, e.nulls) /\ r.nonNull \in 0..(to - from)
    BY <1>6, <1>7, <2>2
  <2>6. r.nonNull # to - from
    BY <1>10, <2>2
  <2>7. \A i \in from..(to - 1) : Takes(e, from, scatter, i) => r.buffer[i] = V(i)
    BY <1>5, <1>7, <2>2
  <2>8. /\ r.buffer \in [Slots -> Cells] /\ r.bits \in [Slots -> Bit]
        /\ \A i \in Slots : i < from => r.buffer[i] = s.buffer[i] /\ r.bits[i] = s.bits[i]
    BY <1>7, <1>8, <2>2
  <2>9. \A i \in from..(to - 1) : r.bits[i] = Takes(e, from, scatter, i)
    BY <2>2, <2>4, Zenon
  <2>10. ChunkRead(s, e, n, to, scatter, r)
    BY <2>3, <2>5, <2>6, <2>7, <2>8, <2>9, Zenon DEF ChunkRead
  <2> QED  BY <2>10 DEF r
<1>. QED  BY <1>9, <1>10

(* An encoding with nulls.                                                 *)
LEMMA NullableFacts ==
    ASSUME ChunksOK, NEW scatter \in Seq(BOOLEAN), NEW n \in Nat, NEW e, NEW s, NEW to,
           InChunk(e, n, s.offset, to, scatter),
           s.buffer \in [Slots -> Cells], s.bits \in [Slots -> Bit], s.asked \in BOOLEAN
    PROVE  ChunkRead(s, e, n, to, scatter, NullableMaterialize(s, e, n, to, scatter))
<1> DEFINE f == chunks[e.chunk].nonNull
           from == s.offset
           m == Rank(f, e.nulls + n) - Rank(f, e.nulls)
           row(i) == e.nulls + n - (Rank(scatter, to) - Rank(scatter, i + 1))
           takes == [i \in Slots |-> /\ i >= from /\ i < to
                                     /\ scatter[i + 1]
                                     /\ f[row(i)]]
           b == MaterializeValues(s.buffer, from, e, m)
           moved == Spread(b, to - 1, from + m - 1, takes)
           some == [i \in Slots |-> IF i >= from /\ i < to
                                    THEN i > moved.output /\ takes[i] ELSE s.bits[i]]
           bits == SetBits(some, from, moved.output + 1, TRUE)
           r == NullableMaterialize(s, e, n, to, scatter)
           V(i) == Value(e.chunk, Rank(f, RowAt(e, from, scatter, i)))
<1>1. /\ e.nulls \in Nat /\ from \in Nat /\ to \in Nat
      /\ from <= to /\ to <= Len(scatter) /\ Len(scatter) <= MaxSlots
      /\ e.chunk \in 1..Len(chunks) /\ MaxSlots \in Nat /\ Len(scatter) \in Nat
      /\ Rank(scatter, to) = Rank(scatter, from) + n
  BY DecoderAssumption DEF InChunk
<1>2. \A i \in from..(to - 1) : i \in Slots /\ i >= from /\ i < to /\ i + 1 \in Nat
  BY <1>1 DEF Slots
<1>3. \A i \in from..(to - 1) : row(i) = RowAt(e, from, scatter, i)
  <2>1. ASSUME NEW i \in from..(to - 1) PROVE row(i) = RowAt(e, from, scatter, i)
    <3> DEFINE x == Rank(scatter, i + 1)
               y == Rank(scatter, from)
               z == Rank(scatter, to)
    <3>1. x \in Nat /\ y \in Nat
      <4>1. i + 1 \in Nat /\ from \in Nat
        BY <1>1, <1>2
      <4> QED  BY <4>1, RankStep
    <3>2. z = y + n /\ e.nulls \in Nat
      BY <1>1
    <3> HIDE DEF x, y, z
    <3>3. e.nulls + n - (z - x) = e.nulls + (x - y)
      BY <3>1, <3>2
    <3> QED  BY <3>3 DEF RowAt, x, y, z
  <2> QED  BY <2>1
<1>4. \A i \in from..(to - 1) : takes[i] <=> Takes(e, from, scatter, i)
  <2>1. ASSUME NEW i \in from..(to - 1) PROVE takes[i] <=> scatter[i + 1] /\ f[row(i)]
    <3>1. i \in Slots /\ i >= from /\ i < to
      BY <1>2
    <3> HIDE DEF from, f, row
    <3> QED  BY <3>1
  <2> HIDE DEF takes, row
  <2> QED  BY <1>3, <2>1 DEF Takes
<1>5. /\ m \in 0..(to - from)
      /\ b \in [Slots -> Cells] /\ moved.buffer \in [Slots -> Cells]
      /\ \A i \in Slots : i < from => b[i] = s.buffer[i] /\ moved.buffer[i] = s.buffer[i]
      /\ \A i \in from..(to - 1) : takes[i] => moved.buffer[i] = V(i)
      /\ m = to - from => \A i \in from..(to - 1) : takes[i] /\ b[i] = V(i)
      /\ moved.output \in (from - 1)..(to - 1)
      /\ \A i \in from..moved.output : takes[i]
  <2> HIDE DEF takes
  <2> QED  BY <1>4, ValuesPlaced, SMTT(30)
<1>6. \A i \in Slots : takes[i] \in BOOLEAN
  <2> HIDE DEF f, row, from
  <2> QED  OBVIOUS
<1>7. r = IF to - from = m
          THEN [buffer |-> b, bits |-> s.bits, asked |-> s.asked, nonNull |-> m]
          ELSE [buffer |-> moved.buffer, bits |-> bits, asked |-> TRUE, nonNull |-> m]
  BY DEF NullableMaterialize
<1> HIDE DEF takes, row, m, b, moved, r
<1>8. /\ bits \in [Slots -> Bit]
      /\ \A i \in Slots : i < from => bits[i] = s.bits[i]
      /\ \A i \in from..(to - 1) : bits[i] = takes[i]
  <2> DEFINE o == moved.output
  <2>1. o \in (from - 1)..(to - 1) /\ \A i \in from..o : takes[i]
    BY <1>5
  <2>2. bits = [i \in Slots |-> IF i >= from /\ i < o + 1 THEN TRUE ELSE some[i]]
    BY DEF SetBits
  <2>3. \A i \in Slots : s.bits[i] \in Bit
    OBVIOUS
  <2>4. \A i \in Slots :
          some[i] = IF i >= from /\ i < to THEN i > o /\ takes[i] ELSE s.bits[i]
    OBVIOUS
  <2> HIDE DEF some, bits, o, from
  <2>5. ASSUME NEW i \in Slots
        PROVE  (IF i >= from /\ i < o + 1 THEN TRUE ELSE some[i]) \in Bit
    <3>1. CASE i >= from /\ i < to
      <4>1. some[i] \in BOOLEAN
        <5>1. some[i] = (i > o /\ takes[i])
          BY <2>4, <3>1
        <5>2. (i > o /\ takes[i]) \in BOOLEAN
          OBVIOUS
        <5> QED  BY <5>1, <5>2, Zenon
      <4> QED  BY <4>1 DEF Bit
    <3>2. CASE ~(i >= from /\ i < to)
      <4>1. some[i] = s.bits[i]
        BY <2>4, <3>2
      <4> QED  BY <2>3, <4>1 DEF Bit
    <3> QED  BY <3>1, <3>2
  <2>6. bits \in [Slots -> Bit]
    BY <2>2, <2>5
  <2>7. ASSUME NEW i \in Slots, i < from PROVE bits[i] = s.bits[i]
    <3>1. ~(i >= from)
      BY <1>1, <2>7 DEF Slots
    <3> QED  BY <2>2, <2>4, <3>1
  <2>8. ASSUME NEW i \in from..(to - 1) PROVE bits[i] = takes[i]
    <3>1. i \in Slots /\ i >= from /\ i < to /\ takes[i] \in BOOLEAN
      BY <1>2, <1>6
    <3>2. CASE i < o + 1
      <4>1. bits[i] = TRUE
        BY <2>2, <3>1, <3>2
      <4>2. i \in from..o
        BY <1>1, <2>1, <3>1, <3>2
      <4>3. takes[i]
        BY <2>1, <4>2
      <4> QED  BY <3>1, <4>1, <4>3, Zenon
    <3>3. CASE ~(i < o + 1)
      <4>1. i > o
        BY <1>1, <2>1, <3>3
      <4>2. bits[i] = some[i]
        BY <2>2, <3>1, <3>3
      <4>3. some[i] = (i > o /\ takes[i])
        BY <2>4, <3>1
      <4> QED  BY <3>1, <4>1, <4>2, <4>3, Zenon
    <3> QED  BY <3>2, <3>3
  <2> QED  BY <2>6, <2>7, <2>8
<1>9. CASE to - from = m
  <2>1. r.buffer = b /\ r.bits = s.bits /\ r.asked = s.asked /\ r.nonNull = m
    BY <1>7, <1>9
  <2>2. r.asked = (s.asked \/ r.nonNull # to - from)
    BY <1>9, <2>1
  <2> HIDE DEF bits
  <2>3. r.nonNull = Rank(f, e.nulls + n) - Rank(f, e.nulls) /\ r.nonNull \in 0..(to - from)
    BY <1>5, <2>1 DEF m
  <2>4. r.nonNull = to - from
    BY <1>9, <2>1
  <2>5. \A i \in from..(to - 1) : Takes(e, from, scatter, i) /\ r.buffer[i] = V(i)
    BY <1>4, <1>5, <1>9, <2>1
  <2>6. /\ r.buffer \in [Slots -> Cells] /\ r.bits \in [Slots -> Bit]
        /\ \A i \in Slots : i < from => r.buffer[i] = s.buffer[i] /\ r.bits[i] = s.bits[i]
    BY <1>5, <2>1
  <2>7. ChunkRead(s, e, n, to, scatter, r)
    BY <2>2, <2>3, <2>4, <2>5, <2>6, Zenon DEF ChunkRead
  <2> QED  BY <2>7 DEF r
<1>10. CASE to - from # m
  <2>1. r.buffer = moved.buffer /\ r.bits = bits /\ r.asked = TRUE /\ r.nonNull = m
    BY <1>7, <1>10
  <2>2. r.asked = (s.asked \/ r.nonNull # to - from)
    BY <1>10, <2>1
  <2>3. ASSUME NEW i \in from..(to - 1) PROVE bits[i] = Takes(e, from, scatter, i)
    <3>1. takes[i] \in BOOLEAN
      BY <1>2, <1>6
    <3>2. bits[i] = takes[i] /\ (Takes(e, from, scatter, i) <=> takes[i])
      BY <1>4, <1>8
    <3> QED  BY <3>1, <3>2, Zenon DEF Takes
  <2> HIDE DEF bits
  <2>4. r.nonNull = Rank(f, e.nulls + n) - Rank(f, e.nulls) /\ r.nonNull \in 0..(to - from)
    BY <1>5, <2>1 DEF m
  <2>5. r.nonNull # to - from
    BY <1>10, <2>1
  <2>6. \A i \in from..(to - 1) : Takes(e, from, scatter, i) => r.buffer[i] = V(i)
    BY <1>4, <1>5, <2>1
  <2>7. /\ r.buffer \in [Slots -> Cells] /\ r.bits \in [Slots -> Bit]
        /\ \A i \in Slots : i < from => r.buffer[i] = s.buffer[i] /\ r.bits[i] = s.bits[i]
    BY <1>5, <1>8, <2>1
  <2>8. \A i \in from..(to - 1) : r.bits[i] = Takes(e, from, scatter, i)
    BY <2>1, <2>3, Zenon
  <2>9. ChunkRead(s, e, n, to, scatter, r)
    BY <2>2, <2>4, <2>5, <2>6, <2>7, <2>8, Zenon DEF ChunkRead
  <2> QED  BY <2>9 DEF r
<1>. QED  BY <1>9, <1>10 DEF r

(* Either way.                                                             *)
LEMMA MaterializeFacts ==
    ASSUME ChunksOK, NEW scatter \in Seq(BOOLEAN), NEW n \in Nat, NEW e, NEW s, NEW to,
           InChunk(e, n, s.offset, to, scatter),
           s.buffer \in [Slots -> Cells], s.bits \in [Slots -> Bit], s.asked \in BOOLEAN
    PROVE  ChunkRead(s, e, n, to, scatter, MaterializeNullable(s, e, n, to, scatter))
<1>1. CASE chunks[e.chunk].nullable
  BY <1>1, NullableFacts DEF MaterializeNullable
<1>2. CASE ~chunks[e.chunk].nullable
  BY <1>2, TypedFacts DEF MaterializeNullable
<1>. QED  BY <1>1, <1>2

-----------------------------------------------------------------------------
(* The loop of next                                                        *)

(* What slot i of a call that starts at row p of the stream must show.     *)
Wanted(scatter, p, i) ==
    IF scatter[i + 1] THEN AllRows[p + Rank(scatter, i + 1)] ELSE Null

(* The slots of one chunk take that chunk's rows.                          *)
LEMMA WantedFacts ==
    ASSUME ChunksOK, NEW scatter \in Seq(BOOLEAN), NEW n \in Nat, NEW e, NEW from, NEW to,
           InChunk(e, n, from, to, scatter), NEW p \in Nat,
           p + Rank(scatter, from) = RowsIn(e.chunk - 1) + e.nulls
    PROVE  \A i \in from..(to - 1) :
             /\ Takes(e, from, scatter, i) =>
                  LET v == Value(e.chunk, Rank(chunks[e.chunk].nonNull,
                                               RowAt(e, from, scatter, i)))
                  IN  v \in Values /\ Wanted(scatter, p, i) = v
             /\ ~Takes(e, from, scatter, i) => Wanted(scatter, p, i) = Null
<1> SUFFICES ASSUME NEW i \in from..(to - 1)
             PROVE  /\ Takes(e, from, scatter, i) =>
                         LET v == Value(e.chunk, Rank(chunks[e.chunk].nonNull,
                                                      RowAt(e, from, scatter, i)))
                         IN  v \in Values /\ Wanted(scatter, p, i) = v
                    /\ ~Takes(e, from, scatter, i) => Wanted(scatter, p, i) = Null
  OBVIOUS
<1> DEFINE c == e.chunk
           f == chunks[c].nonNull
           row == RowAt(e, from, scatter, i)
           v == Value(c, Rank(f, row))
<1>1. c \in 1..Len(chunks) /\ e.nulls \in Nat /\ from \in Nat /\ to \in Nat
  BY DEF InChunk
<1>2. CASE ~scatter[i + 1]
  BY <1>2 DEF Takes, Wanted
<1>3. CASE scatter[i + 1]
  <2>1. row \in 1..RowCount(c)
    BY <1>3, SlotRows
  <2>2. p + Rank(scatter, i + 1) = RowsIn(c - 1) + row
    <3> DEFINE x == Rank(scatter, i + 1)
               y == Rank(scatter, from)
               z == RowsIn(c - 1)
               u == e.nulls
    <3>1. x \in Nat /\ y \in Nat
      <4>1. i + 1 \in Nat /\ from \in Nat
        BY <1>1
      <4> QED  BY <4>1, RankStep
    <3>2. z \in Nat
      <4>1. c - 1 \in 0..Len(chunks)
        BY <1>1
      <4> QED  BY <4>1, RowsInFacts
    <3>3. p + y = z + u /\ row = u + (x - y) /\ u \in Nat
      BY <1>1 DEF RowAt
    <3> HIDE DEF x, y, z, u, row
    <3>4. p + x = z + row
      BY <3>1, <3>2, <3>3
    <3> QED  BY <3>4 DEF x, z
  <2>3. AllRows[RowsIn(c - 1) + row] = RowsOf(c)[row]
    <3> HIDE DEF row, c
    <3> QED  BY <1>1, <2>1, AllRowsFacts
  <2>4. /\ RowsOf(c)[row] = IF f[row] THEN v ELSE Null
        /\ f[row] => v \in Values
    <3> HIDE DEF row, c
    <3> QED  BY <1>1, <2>1, RowsOfFacts
  <2>5. Wanted(scatter, p, i) = RowsOf(c)[row]
    BY <1>3, <2>2, <2>3 DEF Wanted
  <2>6. Takes(e, from, scatter, i) <=> f[row]
    BY <1>3 DEF Takes
  <2> HIDE DEF row, f, v
  <2> QED  BY <2>4, <2>5, <2>6 DEF v, row, f, c
<1>. QED  BY <1>2, <1>3

(* A bitmap after a chunk: as before for the slots of earlier chunks, or   *)
(* set if there was none, and set for those of the chunk with a value.     *)
BitsTell(s, e, to, scatter, bits) ==
    /\ \A i \in 0..(s.offset - 1) : s.hasNulls => bits[i] = s.bits[i]
    /\ \A i \in 0..(s.offset - 1) : ~s.hasNulls => bits[i] = TRUE
    /\ \A i \in s.offset..(to - 1) :
         /\ Takes(e, s.offset, scatter, i) => bits[i] = TRUE
         /\ ~Takes(e, s.offset, scatter, i) => bits[i] = FALSE

(* The bitmap tells the nulls once one of the chunks needs it.             *)
LEMMA FillFacts ==
    ASSUME NEW scatter, NEW n, NEW e, NEW s, NEW to \in Nat, NEW r,
           s.offset \in 0..to, to <= MaxSlots, s.hasNulls \in BOOLEAN,
           ChunkRead(s, e, n, to, scatter, r),
           s.hasNulls \/ r.nonNull # to - s.offset
    PROVE  BitsTell(s, e, to, scatter, FillNulls(s, r, to))
<1> DEFINE from == s.offset
           bits == FillNulls(s, r, to)
<1>1. from \in Nat /\ from <= to /\ MaxSlots \in Nat /\ to \in Nat /\ to <= MaxSlots
  BY DecoderAssumption
<1>2. /\ \A i \in Slots : i < from => r.bits[i] = s.bits[i]
      /\ r.nonNull = to - from => \A i \in from..(to - 1) : Takes(e, from, scatter, i)
      /\ r.nonNull # to - from =>
           \A i \in from..(to - 1) : r.bits[i] = Takes(e, from, scatter, i)
  BY DEF ChunkRead
<1>3. \A i \in from..(to - 1) : i \in Slots /\ i >= from /\ i < to /\ ~(i < from)
  BY <1>1 DEF Slots
<1>4. \A i \in 0..(from - 1) : i \in Slots /\ i >= 0 /\ i < from /\ ~(i >= from)
  BY <1>1 DEF Slots
<1>5. \A i \in from..(to - 1) : r.nonNull # to - from =>
        /\ Takes(e, from, scatter, i) => r.bits[i] = TRUE
        /\ ~Takes(e, from, scatter, i) => r.bits[i] = FALSE
  BY <1>2, Zenon DEF Takes
<1> HIDE DEF from
<1>6. CASE r.nonNull = to - from
  <2>1. s.hasNulls
    BY <1>6 DEF from
  <2>2. bits = SetBits(r.bits, from, to, TRUE)
    BY <1>6, <2>1 DEF FillNulls, from
  <2>3. \A i \in Slots : bits[i] = IF i >= from /\ i < to THEN TRUE ELSE r.bits[i]
    BY <2>2 DEF SetBits
  <2> HIDE DEF bits
  <2>4. \A i \in from..(to - 1) : Takes(e, from, scatter, i)
    BY <1>2, <1>6
  <2>5. \A i \in from..(to - 1) : bits[i] = TRUE
    BY <1>3, <2>3
  <2>6. \A i \in 0..(from - 1) : bits[i] = s.bits[i]
    BY <1>2, <1>4, <2>3
  <2> QED  BY <2>1, <2>4, <2>5, <2>6 DEF BitsTell, bits, from
<1>7. CASE r.nonNull # to - from /\ s.hasNulls
  <2>1. bits = r.bits
    BY <1>7 DEF FillNulls, from
  <2>2. \A i \in 0..(from - 1) : bits[i] = s.bits[i]
    BY <1>2, <1>4, <2>1
  <2> HIDE DEF bits
  <2> QED  BY <1>5, <1>7, <2>1, <2>2 DEF BitsTell, bits, from
<1>8. CASE r.nonNull # to - from /\ ~s.hasNulls
  <2>1. bits = SetBits(r.bits, 0, from, TRUE)
    BY <1>8 DEF FillNulls, from
  <2>2. \A i \in Slots : bits[i] = IF i >= 0 /\ i < from THEN TRUE ELSE r.bits[i]
    BY <2>1 DEF SetBits
  <2> HIDE DEF bits
  <2>3. \A i \in from..(to - 1) : bits[i] = r.bits[i]
    BY <1>3, <2>2
  <2>4. \A i \in 0..(from - 1) : bits[i] = TRUE
    BY <1>4, <2>2
  <2> QED  BY <1>5, <1>8, <2>3, <2>4 DEF BitsTell, bits, from
<1>. QED  BY <1>6, <1>7, <1>8

(* It stays a bitmap.                                                      *)
LEMMA FillType ==
    ASSUME NEW s, NEW r, NEW to, r.bits \in [Slots -> Bit]
    PROVE  FillNulls(s, r, to) \in [Slots -> Bit]
<1>1. ASSUME NEW bits \in [Slots -> Bit], NEW a, NEW b
      PROVE  SetBits(bits, a, b, TRUE) \in [Slots -> Bit]
  <2>1. TRUE \in Bit
    BY DEF Bit
  <2> QED  BY <2>1 DEF SetBits
<1> DEFINE back == IF r.nonNull # to - s.offset /\ ~s.hasNulls
                   THEN SetBits(r.bits, 0, s.offset, TRUE) ELSE r.bits
<1>2. back \in [Slots -> Bit]
  BY <1>1
<1>3. SetBits(back, s.offset, to, TRUE) \in [Slots -> Bit]
  <2> HIDE DEF back
  <2> QED  BY <1>1, <1>2
<1>4. FillNulls(s, r, to) = IF s.hasNulls /\ ~(r.nonNull # to - s.offset)
                            THEN SetBits(back, s.offset, to, TRUE) ELSE back
  BY DEF FillNulls
<1> HIDE DEF back
<1>. QED  BY <1>2, <1>3, <1>4

(* The strings of the slots in T are copied, and no earlier slot changes.  *)
Copied(buffer, b, from, to, T) ==
    /\ \A i \in 0..(from - 1) : i \in Slots => b[i] = buffer[i]
    /\ \A i \in from..(to - 1) : i \in T =>
         /\ b[i] \in Values /\ b[i].owned
         /\ b[i].chunk = buffer[i].chunk /\ b[i].index = buffer[i].index

(* The strings of the slots that take a value are copied.                  *)
LEMMA BufferFacts ==
    ASSUME NEW buffer \in [Slots -> Cells], NEW bits, NEW asked \in BOOLEAN,
           NEW from \in Nat, NEW to \in Nat, to <= MaxSlots, NEW T,
           \A i \in from..(to - 1) : i \in T => buffer[i] \in Values,
           \A i \in from..(to - 1) : (asked => bits[i] = TRUE) <=> i \in T
    PROVE  LET b == BufferStringContent(buffer, bits, asked, from, to)
           IN  b \in [Slots -> Cells] /\ Copied(buffer, b, from, to, T)
<1> DEFINE b == BufferStringContent(buffer, bits, asked, from, to)
           copy(i) == [chunk |-> buffer[i].chunk, index |-> buffer[i].index, owned |-> TRUE]
<1>1. b = [i \in Slots |-> IF i >= from /\ i < to /\ (asked => bits[i] = TRUE)
                           THEN copy(i) ELSE buffer[i]]
  BY DEF BufferStringContent
<1>2. \A i \in from..(to - 1) : i \in Slots /\ i >= from /\ i < to
  BY DecoderAssumption DEF Slots
<1>3. ASSUME NEW i \in from..(to - 1), i \in T
      PROVE  /\ copy(i) \in Values /\ copy(i).owned
             /\ copy(i).chunk = buffer[i].chunk /\ copy(i).index = buffer[i].index
  <2>1. buffer[i] \in Values
    BY <1>3
  <2> QED  BY <2>1 DEF Values
<1> HIDE DEF b, copy
<1>4. ASSUME NEW i \in Slots PROVE b[i] \in Cells
  <2>1. CASE i >= from /\ i < to /\ (asked => bits[i] = TRUE)
    <3>1. i \in from..(to - 1)
      BY <2>1 DEF Slots
    <3>2. i \in T
      BY <2>1, <3>1
    <3>3. b[i] = copy(i)
      BY <1>1, <2>1
    <3> QED  BY <1>3, <3>1, <3>2, <3>3 DEF Cells
  <2>2. CASE ~(i >= from /\ i < to /\ (asked => bits[i] = TRUE))
    <3>1. b[i] = buffer[i]
      BY <1>1, <2>2
    <3> QED  BY <3>1
  <2> QED  BY <2>1, <2>2
<1>5. b \in [Slots -> Cells]
  BY <1>1, <1>4
<1>6. ASSUME NEW i \in 0..(from - 1), i \in Slots PROVE b[i] = buffer[i]
  BY <1>1, <1>6
<1>7. ASSUME NEW i \in from..(to - 1), i \in T PROVE b[i] = copy(i)
  BY <1>1, <1>2, <1>7
<1>. QED  BY <1>3, <1>5, <1>6, <1>7 DEF Copied, b

(* The buffers and counters of a call.                                     *)
LoopState ==
    [at : Position, count : Nat, offset : Nat, buffer : [Slots -> Cells],
     bits : [Slots -> Bit], asked : BOOLEAN, hasNulls : BOOLEAN, nonNull : Nat]

(* Slot i shows what is wanted: a string that will not go away with its    *)
(* chunk, a set bit if there is a bitmap; a null needs the bitmap.         *)
Filled(s, i, wanted) ==
    /\ wanted # Null =>
         /\ s.buffer[i] \in Values
         /\ Value(s.buffer[i].chunk, s.buffer[i].index) = wanted
         /\ IsString => \/ s.buffer[i].owned
                        \/ s.count = 0 /\ s.buffer[i].chunk = s.at.encoding.chunk
         /\ s.hasNulls => s.bits[i] = TRUE
    /\ wanted = Null => s.hasNulls /\ s.bits[i] = FALSE

(* In the middle of a call that started at row p: the slots before offset  *)
(* are filled, and count rows are still to be read for the others.         *)
Reading(scatter, p) ==
    {s \in LoopState :
        /\ Placed(s.at) /\ s.offset <= Len(scatter)
        /\ s.count + Rank(scatter, s.offset) = Rank(scatter, Len(scatter))
        /\ PosOf(s.at) = p + Rank(scatter, s.offset)
        /\ s.count = 0 => s.offset = Len(scatter)
        /\ s.asked <=> s.hasNulls
        /\ s.nonNull <= s.offset
        /\ s.hasNulls <=> s.nonNull # s.offset
        /\ \A i \in 0..(s.offset - 1) : Filled(s, i, Wanted(scatter, p, i))}

(* An iteration fills the slots that take the rows of one chunk.           *)
LEMMA ReadChunkFacts ==
    ASSUME ChunksOK, NEW scatter \in Seq(BOOLEAN), Len(scatter) <= MaxSlots, NEW p \in Nat,
           p + Rank(scatter, Len(scatter)) <= RowsIn(Len(chunks)),
           NEW s \in Reading(scatter, p), s.count > 0
    PROVE  /\ ReadChunk(s, scatter) \in Reading(scatter, p)
           /\ ReadChunk(s, scatter).count < s.count
<1> DEFINE w == Len(scatter)
           R(i) == Rank(scatter, i)
           at == EnsureLoaded(s.at)
           e == at.encoding
           n == RowsToRead(s.count, at)
           from == s.offset
           to == FindSetBit(scatter, from, n + 1)
           r == MaterializeNullable(s, e, n, to, scatter)
           bits == FillNulls(s, r, to)
           buffer == IF IsString /\ n # s.count
                     THEN BufferStringContent(r.buffer, bits, r.asked, from, to)
                     ELSE r.buffer
           nulls == s.hasNulls \/ r.nonNull # to - from
           next == Consumed(at, n, r.nonNull)
           f == chunks[e.chunk].nonNull
           V(i) == Value(e.chunk, Rank(f, RowAt(e, from, scatter, i)))
           t == ReadChunk(s, scatter)
<1>1. /\ s.at \in Position /\ s.count \in Nat /\ from \in Nat
      /\ s.buffer \in [Slots -> Cells] /\ s.bits \in [Slots -> Bit]
      /\ s.asked \in BOOLEAN /\ s.hasNulls \in BOOLEAN /\ s.nonNull \in Nat
      /\ Placed(s.at) /\ from <= w /\ s.count + R(from) = R(w)
      /\ PosOf(s.at) = p + R(from)
      /\ (s.asked <=> s.hasNulls) /\ s.nonNull <= from
      /\ (s.hasNulls <=> s.nonNull # from)
      /\ w \in Nat /\ MaxSlots \in Nat /\ w <= MaxSlots
  BY DecoderAssumption DEF Reading, LoopState
<1>2. \A i \in 0..(from - 1) : Filled(s, i, Wanted(scatter, p, i))
  BY DEF Reading
<1>3. R(from) \in Nat /\ R(w) \in Nat
  BY <1>1, RankStep
<1>4. PosOf(s.at) < RowsIn(Len(chunks))
  <2>1. RowsIn(Len(chunks)) \in Nat
    <3>1. Len(chunks) \in 0..Len(chunks)
      BY DEF ChunksOK
    <3> QED  BY <3>1, RowsInFacts
  <2> DEFINE x == R(from)
             y == R(w)
             z == RowsIn(Len(chunks))
             u == PosOf(s.at)
  <2>2. /\ x \in Nat /\ y \in Nat /\ z \in Nat /\ s.count \in Nat /\ s.count > 0
        /\ s.count + x = y /\ u = p + x /\ p + y <= z
    BY <1>1, <1>3, <2>1
  <2> HIDE DEF x, y, z, u
  <2>3. u < z
    BY <2>2
  <2> QED  BY <2>3 DEF u, z
<1>5. /\ Placed(at) /\ at \in Position /\ at.remaining > 0 /\ PosOf(at) = PosOf(s.at)
      /\ e.chunk \in 1..Len(chunks) /\ e.nulls + at.remaining = RowCount(e.chunk)
      /\ e.values = Rank(f, e.nulls) /\ PosOf(at) = RowsIn(e.chunk - 1) + e.nulls
  <2>1. s.at.remaining = 0 => s.at.next < Len(chunks)
    BY <1>1, <1>4, MoreRows
  <2> QED  BY <1>1, <2>1, LoadFacts
<1>6. e.nulls \in Nat /\ at.remaining \in Nat
  <2> HIDE DEF at
  <2> QED  BY <1>5 DEF Position
<1> HIDE DEF at
<1>7. n \in Nat /\ n > 0 /\ n <= s.count /\ n \in 0..at.remaining
  BY <1>1, <1>5, <1>6 DEF RowsToRead
<1> HIDE DEF n, e, f
<1>8. R(from) + n <= R(w) /\ (R(from) + n = R(w) <=> n = s.count)
  <2> HIDE DEF R, from, w
  <2> QED  BY <1>1, <1>3, <1>7
<1>9. to \in from..w /\ R(to) = R(from) + n /\ (R(from) + n = R(w) => to = w)
  <2>1. from \in 0..Len(scatter)
    BY <1>1
  <2> HIDE DEF from
  <2> QED  BY <1>7, <1>8, <2>1, FindFacts
<1> HIDE DEF to
<1>10. InChunk(e, n, from, to, scatter)
  <2>1. e.nulls + n <= RowCount(e.chunk)
    BY <1>5, <1>6, <1>7
  <2> QED  BY <1>1, <1>5, <1>6, <1>9, <2>1 DEF InChunk, f
<1>11. ChunkRead(s, e, n, to, scatter, r)
  BY <1>1, <1>7, <1>10, MaterializeFacts
<1> HIDE DEF r
<1>12. /\ r.nonNull = Rank(f, e.nulls + n) - Rank(f, e.nulls)
       /\ r.nonNull \in 0..(to - from)
       /\ r.buffer \in [Slots -> Cells] /\ r.bits \in [Slots -> Bit]
       /\ \A i \in Slots : i < from => r.buffer[i] = s.buffer[i]
       /\ \A i \in from..(to - 1) : Takes(e, from, scatter, i) => r.buffer[i] = V(i)
       /\ r.nonNull = to - from => \A i \in from..(to - 1) : Takes(e, from, scatter, i)
  BY <1>11 DEF ChunkRead, f
<1>13. r.asked \in BOOLEAN /\ (r.asked <=> nulls)
  <2>1. r.asked = (s.asked \/ r.nonNull # to - from)
    BY <1>11 DEF ChunkRead
  <2>2. (s.asked \/ r.nonNull # to - from) \in BOOLEAN
    OBVIOUS
  <2>3. r.asked \in BOOLEAN
    BY <2>1, <2>2, Zenon
  <2>4. r.asked <=> (s.asked \/ r.nonNull # to - from)
    BY <2>1, Zenon
  <2> QED  BY <1>1, <2>3, <2>4
<1>14. \A i \in from..(to - 1) :
         /\ Takes(e, from, scatter, i) => V(i) \in Values /\ Wanted(scatter, p, i) = V(i)
         /\ ~Takes(e, from, scatter, i) => Wanted(scatter, p, i) = Null
  <2>1. p + Rank(scatter, from) = RowsIn(e.chunk - 1) + e.nulls
    BY <1>1, <1>5
  <2> HIDE DEF from
  <2> QED  BY <1>7, <1>10, <2>1, WantedFacts DEF f
<1>15. /\ Placed(next) /\ next \in Position /\ PosOf(next) = PosOf(at) + n
       /\ next.encoding.chunk = e.chunk
  <2>1. /\ Placed(next) /\ PosOf(next) = PosOf(at) + n /\ next.encoding.chunk = e.chunk
    BY <1>5, <1>7, <1>12, ConsumedFacts DEF e, f
  <2> QED  BY <2>1 DEF Placed
<1>16. bits \in [Slots -> Bit]
  BY <1>12, FillType
<1>17. nulls =>
         /\ \A i \in 0..(from - 1) : s.hasNulls => bits[i] = s.bits[i]
         /\ \A i \in 0..(from - 1) : ~s.hasNulls => bits[i] = TRUE
         /\ \A i \in from..(to - 1) :
              /\ Takes(e, from, scatter, i) => bits[i] = TRUE
              /\ ~Takes(e, from, scatter, i) => bits[i] = FALSE
  <2> HAVE nulls
  <2>1. from \in 0..to /\ to \in Nat /\ to <= MaxSlots
    BY <1>1, <1>9
  <2>2. s.hasNulls \/ r.nonNull # to - from
    OBVIOUS
  <2>3. s.hasNulls \in BOOLEAN
    BY <1>1
  <2> HIDE DEF nulls, bits
  <2>4. BitsTell(s, e, to, scatter, FillNulls(s, r, to))
    BY <1>11, <2>1, <2>2, <2>3, FillFacts
  <2> QED  BY <2>4 DEF BitsTell, bits
<1>18. t = [at |-> next, count |-> s.count - n, offset |-> to, buffer |-> buffer,
            bits |-> bits, asked |-> r.asked, hasNulls |-> nulls,
            nonNull |-> s.nonNull + r.nonNull]
  BY DEF ReadChunk, at, e, n, to, r
<1> HIDE DEF next, bits, t
<1>19. /\ buffer \in [Slots -> Cells]
       /\ \A i \in 0..(from - 1) : buffer[i] = s.buffer[i]
       /\ \A i \in from..(to - 1) : Takes(e, from, scatter, i) =>
            /\ buffer[i] \in Values /\ buffer[i].chunk = e.chunk
            /\ Value(buffer[i].chunk, buffer[i].index) = V(i)
            /\ IsString => buffer[i].owned \/ n = s.count
  <2>1. \A i \in 0..(from - 1) : i \in Slots /\ i < from
    BY <1>1 DEF Slots
  <2>2. ASSUME NEW i \in from..(to - 1), Takes(e, from, scatter, i)
        PROVE  /\ r.buffer[i] \in Values /\ r.buffer[i].chunk = e.chunk
               /\ Value(r.buffer[i].chunk, r.buffer[i].index) = V(i)
    <3>1. r.buffer[i] = V(i) /\ V(i) \in Values
      BY <1>12, <1>14, <2>2
    <3> QED  BY <3>1 DEF Value
  <2>3. CASE ~(IsString /\ n # s.count)
    <3>1. buffer = r.buffer
      BY <2>3
    <3> HIDE DEF buffer, V, from
    <3> QED  BY <1>12, <2>1, <2>2, <2>3, <3>1
  <2>4. CASE IsString /\ n # s.count
    <3> DEFINE T == {i \in from..(to - 1) : Takes(e, from, scatter, i)}
    <3>1. buffer = BufferStringContent(r.buffer, bits, r.asked, from, to)
      BY <2>4
    <3>2. \A i \in from..(to - 1) : i \in T => r.buffer[i] \in Values
      BY <2>2
    <3>3. ASSUME NEW i \in from..(to - 1)
          PROVE  (r.asked => bits[i] = TRUE) <=> i \in T
      <4>1. i \in T <=> Takes(e, from, scatter, i)
        OBVIOUS
      <4>2. CASE ~nulls
        BY <1>12, <1>13, <4>1, <4>2
      <4>3. CASE nulls
        <5>1. /\ Takes(e, from, scatter, i) => bits[i] = TRUE
              /\ ~Takes(e, from, scatter, i) => bits[i] = FALSE
          BY <1>17, <4>3
        <5>2. r.asked
          BY <1>13, <4>3
        <5> HIDE DEF T
        <5> QED  BY <4>1, <5>1, <5>2, Zenon
      <4> QED  BY <4>2, <4>3
    <3>4. from \in Nat /\ to \in Nat /\ to <= MaxSlots
      BY <1>1, <1>9
    <3>5. \A i \in T : Takes(e, from, scatter, i)
      OBVIOUS
    <3>6. \A i \in from..(to - 1) : Takes(e, from, scatter, i) => i \in T
      OBVIOUS
    <3> HIDE DEF T, buffer, from
    <3> DEFINE b == BufferStringContent(r.buffer, bits, r.asked, from, to)
    <3>7. b \in [Slots -> Cells] /\ Copied(r.buffer, b, from, to, T)
      <4>1. r.buffer \in [Slots -> Cells] /\ r.asked \in BOOLEAN
        BY <1>12, <1>13
      <4>2. \A i \in from..(to - 1) : (r.asked => bits[i] = TRUE) <=> i \in T
        BY <3>3
      <4> QED  BY <3>2, <3>4, <4>1, <4>2, BufferFacts
    <3>8. /\ buffer \in [Slots -> Cells]
          /\ \A i \in 0..(from - 1) : i \in Slots => buffer[i] = r.buffer[i]
          /\ \A i \in from..(to - 1) : i \in T =>
               /\ buffer[i] \in Values /\ buffer[i].owned
               /\ buffer[i].chunk = r.buffer[i].chunk
               /\ buffer[i].index = r.buffer[i].index
      BY <3>1, <3>7 DEF Copied
    <3> HIDE DEF V
    <3> QED  BY <1>12, <2>1, <2>2, <3>6, <3>8
  <2> QED  BY <2>3, <2>4
<1> HIDE DEF buffer
<1>20. t \in LoopState
  <2>1. s.count - n \in Nat /\ to \in Nat /\ s.nonNull + r.nonNull \in Nat
    <3>1. s.count \in Nat /\ n \in Nat /\ n <= s.count /\ from \in Nat /\ to \in from..w
      BY <1>1, <1>7, <1>9
    <3>2. s.nonNull \in Nat /\ r.nonNull \in 0..(to - from) /\ w \in Nat
      BY <1>1, <1>12
    <3> HIDE DEF from, w
    <3> QED  BY <3>1, <3>2
  <2>2. nulls \in BOOLEAN
    OBVIOUS
  <2> HIDE DEF nulls
  <2> QED  BY <1>12, <1>13, <1>15, <1>16, <1>18, <1>19, <2>1, <2>2 DEF LoopState
<1>21. /\ t.at = next /\ t.count = s.count - n /\ t.offset = to /\ t.buffer = buffer
       /\ t.bits = bits /\ t.asked = r.asked /\ t.nonNull = s.nonNull + r.nonNull
  BY <1>18
<1>22. t.hasNulls = nulls
  BY <1>18
<1>23. t.hasNulls <=> nulls
  BY <1>22, Zenon
<1> HIDE DEF nulls
<1>24. ASSUME NEW i \in 0..(to - 1) PROVE Filled(t, i, Wanted(scatter, p, i))
  <2> DEFINE wanted == Wanted(scatter, p, i)
  <2>1. CASE i < from
    <3>1. i \in 0..(from - 1)
      BY <1>1, <1>9, <2>1
    <3>2. Filled(s, i, wanted) /\ buffer[i] = s.buffer[i]
      BY <1>2, <1>19, <3>1
    <3>3. CASE wanted # Null
      <4>1. /\ s.buffer[i] \in Values
            /\ Value(s.buffer[i].chunk, s.buffer[i].index) = wanted
            /\ IsString => s.buffer[i].owned
            /\ s.hasNulls => s.bits[i] = TRUE
        BY <3>2, <3>3 DEF Filled
      <4>2. nulls => bits[i] = TRUE
        BY <1>17, <3>1, <4>1
      <4> HIDE DEF wanted
      <4>3. Filled(t, i, wanted)
        BY <1>21, <1>23, <3>2, <3>3, <4>1, <4>2 DEF Filled
      <4> QED  BY <4>3 DEF wanted
    <3>4. CASE wanted = Null
      <4>1. s.hasNulls /\ s.bits[i] = FALSE
        BY <3>2, <3>4 DEF Filled
      <4>2. nulls
        BY <4>1 DEF nulls
      <4>3. bits[i] = FALSE
        BY <1>17, <3>1, <4>1, <4>2
      <4> HIDE DEF wanted
      <4>4. Filled(t, i, wanted)
        BY <1>21, <1>23, <3>4, <4>2, <4>3 DEF Filled
      <4> QED  BY <4>4 DEF wanted
    <3> QED  BY <3>3, <3>4
  <2>2. CASE ~(i < from)
    <3>1. i \in from..(to - 1)
      BY <1>1, <1>9, <2>2
    <3>2. CASE Takes(e, from, scatter, i)
      <4>1. wanted = V(i) /\ V(i) \in Values
        BY <1>14, <3>1, <3>2
      <4>2. wanted # Null
        BY <4>1, DecoderAssumption
      <4>3. /\ buffer[i] \in Values /\ buffer[i].chunk = e.chunk
            /\ Value(buffer[i].chunk, buffer[i].index) = wanted
            /\ IsString => buffer[i].owned \/ n = s.count
        BY <1>19, <3>1, <3>2, <4>1
      <4>4. nulls => bits[i] = TRUE
        BY <1>17, <3>1, <3>2
      <4>5. n = s.count => t.count = 0
        BY <1>1, <1>21
      <4> HIDE DEF wanted, V
      <4>6. Filled(t, i, wanted)
        BY <1>15, <1>21, <1>23, <4>2, <4>3, <4>4, <4>5 DEF Filled
      <4> QED  BY <4>6 DEF wanted
    <3>3. CASE ~Takes(e, from, scatter, i)
      <4>1. wanted = Null
        BY <1>14, <3>1, <3>3
      <4>2. nulls
        BY <1>12, <3>1, <3>3 DEF nulls
      <4>3. bits[i] = FALSE
        BY <1>17, <3>1, <3>3, <4>2
      <4> HIDE DEF wanted
      <4>4. Filled(t, i, wanted)
        BY <1>21, <1>23, <4>1, <4>2, <4>3 DEF Filled
      <4> QED  BY <4>4 DEF wanted
    <3> QED  BY <3>2, <3>3
  <2> QED  BY <2>1, <2>2
<1>25. /\ t.count + R(t.offset) = R(w) /\ PosOf(t.at) = p + R(t.offset)
       /\ t.count = 0 => t.offset = w
       /\ t.offset <= w /\ t.count < s.count
  <2> DEFINE x == R(from)
             y == R(to)
             z == R(w)
  <2>1. x \in Nat /\ z \in Nat /\ y = x + n /\ s.count + x = z /\ (y = z => to = w)
    BY <1>1, <1>3, <1>9
  <2>2. PosOf(t.at) = p + x + n
    BY <1>1, <1>5, <1>15, <1>21
  <2>3. s.count \in Nat /\ n \in Nat /\ n > 0 /\ n <= s.count /\ t.count = s.count - n
    BY <1>1, <1>7, <1>21
  <2>4. to <= w
    BY <1>1, <1>9
  <2> DEFINE k == t.count
             u == PosOf(t.at)
  <2>5. k = s.count - n /\ u = p + x + n
    BY <2>2, <2>3
  <2> HIDE DEF x, y, z, w, k, u
  <2>6. k + y = z /\ u = p + y /\ (k = 0 => to = w) /\ k < s.count
    BY <2>1, <2>3, <2>5
  <2> QED  BY <1>21, <2>4, <2>6 DEF y, z, w, k, u
<1>26. t.nonNull <= t.offset /\ (t.hasNulls <=> t.nonNull # t.offset)
  <2>1. /\ s.nonNull \in 0..from /\ r.nonNull \in 0..(to - from)
        /\ from \in Nat /\ to \in Nat
        /\ (s.hasNulls <=> s.nonNull # from)
    BY <1>1, <1>9, <1>12
  <2>2. nulls <=> (s.hasNulls \/ r.nonNull # to - from)
    BY DEF nulls
  <2> DEFINE a == s.nonNull
             b == r.nonNull
  <2>3. a \in 0..from /\ b \in 0..(to - from) /\ (nulls <=> (a # from \/ b # to - from))
    BY <2>1, <2>2
  <2> HIDE DEF a, b, from
  <2>4. a + b <= to /\ (nulls <=> a + b # to)
    BY <2>1, <2>3
  <2> QED  BY <1>21, <1>23, <2>4 DEF a, b
<1>27. t.asked <=> t.hasNulls
  BY <1>13, <1>21, <1>23
<1>28. Placed(t.at)
  BY <1>15, <1>21
<1>29. \A i \in 0..(t.offset - 1) : Filled(t, i, Wanted(scatter, p, i))
  BY <1>21, <1>24
<1>30. t \in Reading(scatter, p)
  BY <1>20, <1>25, <1>26, <1>27, <1>28, <1>29 DEF Reading
<1>. QED  BY <1>25, <1>30 DEF t
-----------------------------------------------------------------------------
(* Loops                                                                   *)

(* The iterations of a loop that starts with state a, and a body that      *)
(* counts down to 0 and then does nothing.                                 *)
Unrolls(loop, a, D, step, n) ==
    loop[0] = a /\ \A k \in 1..n : loop[k - 1] \in D => loop[k] = step[loop[k - 1]]

CountsDown(D, step) ==
    \A s \in D : /\ s.count \in Nat
                 /\ s.count = 0 => step[s] = s
                 /\ s.count # 0 => step[s].count < s.count

(* A loop can be unrolled,                                                 *)
LEMMA Unroll ==
    ASSUME NEW n \in Nat, NEW D, NEW a \in D, NEW step \in [D -> D]
    PROVE  \E f \in [0..n -> D] : Unrolls(f, a, D, step, n)
<1> DEFINE steps == [i \in 1..n |-> step]
<1>1. steps \in [1..n -> [D -> D]] /\ \A i \in 1..n : steps[i] = step
  OBVIOUS
<1> HIDE DEF steps
<1>2. PICK f \in [0..n -> D] : IsIteration(f, a, steps, n)
  BY <1>1, IterationExists
<1>3. f[0] = a /\ \A k \in 1..n : f[k] = step[f[k - 1]]
  BY <1>1, <1>2 DEF IsIteration
<1>. QED  BY <1>3 DEF Unrolls

(* and is done after as many iterations as it counts.                      *)
LEMMA CountDown ==
    ASSUME NEW n \in Nat, NEW D, NEW a \in D, NEW step \in [D -> D], a.count <= n,
           CountsDown(D, step), NEW loop, Unrolls(loop, a, D, step, n)
    PROVE  loop[n] \in D /\ loop[n].count = 0
<1> DEFINE P == {k \in 0..n : loop[k] \in D /\ loop[k].count <= n - k}
<1>1. 0 \in P
  BY DEF Unrolls
<1>2. ASSUME NEW k \in 1..n, k - 1 \in P PROVE k \in P
  <2> DEFINE s == loop[k - 1]
             t == loop[k]
  <2>1. s \in D /\ s.count <= n - (k - 1) /\ t = step[s] /\ s.count \in Nat
    BY <1>2 DEF Unrolls, CountsDown
  <2>2. t \in D /\ t.count \in Nat
    <3> HIDE DEF s, t
    <3> QED  BY <2>1 DEF CountsDown
  <2> HIDE DEF s, t
  <2>3. t.count <= n - k
    <3>1. CASE s.count = 0
      <4>1. t.count = 0
        BY <2>1, <3>1 DEF CountsDown
      <4> QED  BY <4>1
    <3>2. CASE s.count # 0
      <4>1. t.count < s.count
        BY <2>1, <3>2 DEF CountsDown
      <4> QED  BY <2>1, <2>2, <4>1
    <3> QED  BY <3>1, <3>2
  <2> QED  BY <2>2, <2>3 DEF t
<1>3. n \in P
  <2>1. 0..n \subseteq P
    <3> HIDE DEF P
    <3> QED  BY <1>1, <1>2, Climb
  <2> QED  BY <2>1
<1>4. loop[n] \in D /\ loop[n].count <= 0
  <2>1. n - n = 0
    OBVIOUS
  <2> QED  BY <1>3, <2>1
<1>. QED  BY <1>4 DEF CountsDown

(* What a caller of next finds in a slot.                                  *)
Answers(cell, wanted, at) ==
    IF wanted = Null THEN cell = Null
    ELSE /\ cell \in Values /\ Value(cell.chunk, cell.index) = wanted
         /\ IsString => cell.owned \/ cell.chunk = at.encoding.chunk

(* A call that has read all its rows shows what is wanted.                 *)
LEMMA VisibleFacts ==
    ASSUME NEW scatter \in Seq(BOOLEAN), NEW p, NEW s \in Reading(scatter, p), s.count = 0
    PROVE  \A i \in 1..Len(scatter) :
             Answers(Visible(s, Len(scatter))[i], Wanted(scatter, p, i - 1), s.at)
<1> SUFFICES ASSUME NEW i \in 1..Len(scatter)
             PROVE  Answers(Visible(s, Len(scatter))[i], Wanted(scatter, p, i - 1), s.at)
  OBVIOUS
<1> DEFINE w == Len(scatter)
           cell == Visible(s, w)[i]
           wanted == Wanted(scatter, p, i - 1)
<1>1. s.offset = w /\ (s.hasNulls <=> s.nonNull # w)
  BY DEF Reading
<1>2. \A j \in 0..(s.offset - 1) : Filled(s, j, Wanted(scatter, p, j))
  BY DEF Reading
<1>3. i - 1 \in 0..(s.offset - 1)
  BY <1>1
<1>4. Filled(s, i - 1, wanted)
  BY <1>2, <1>3
<1>5. cell = IF s.nonNull = w \/ s.bits[i - 1] = TRUE THEN s.buffer[i - 1]
             ELSE IF s.bits[i - 1] = FALSE THEN Null ELSE Unwritten
  BY DEF Visible
<1> HIDE DEF cell, wanted, w
<1>6. CASE wanted = Null
  <2>1. s.hasNulls /\ s.bits[i - 1] = FALSE
    BY <1>4, <1>6 DEF Filled
  <2>2. s.nonNull # w
    BY <1>1, <2>1
  <2>3. ~(s.bits[i - 1] = TRUE)
    BY <2>1, Zenon
  <2>4. cell = Null
    BY <1>5, <2>1, <2>2, <2>3, Zenon
  <2> QED  BY <1>6, <2>4 DEF Answers, cell, wanted, w
<1>7. CASE wanted # Null
  <2>1. /\ s.buffer[i - 1] \in Values
        /\ Value(s.buffer[i - 1].chunk, s.buffer[i - 1].index) = wanted
        /\ IsString => s.buffer[i - 1].owned \/ s.buffer[i - 1].chunk = s.at.encoding.chunk
        /\ s.hasNulls => s.bits[i - 1] = TRUE
    BY <1>4, <1>7 DEF Filled
  <2>2. cell = s.buffer[i - 1]
    BY <1>1, <1>5, <2>1
  <2>3. Answers(cell, wanted, s.at)
    BY <1>7, <2>1, <2>2 DEF Answers
  <2> QED  BY <2>3 DEF cell, wanted, w
<1>. QED  BY <1>6, <1>7

(* The rows of a call are there.                                           *)
LEMMA LeftFacts ==
    ASSUME ChunksOK, Placed(Here), NEW n \in Nat, n <= Left
    PROVE  /\ PosOf(Here) \in Nat
           /\ PosOf(Here) + n <= RowsIn(Len(chunks))
           /\ RowsIn(Len(chunks)) \in Nat
<1>1. Here.next = nextChunk /\ Here.remaining = remaining
  BY DEF Here
<1>2. nextChunk \in 0..Len(chunks) /\ remaining \in Nat /\ Len(chunks) \in 0..Len(chunks)
  BY <1>1 DEF Placed, Position, ChunksOK
<1>3. RowsIn(nextChunk) \in Nat /\ RowsIn(Len(chunks)) \in Nat
  BY <1>2, RowsInFacts
<1>4. PosOf(Here) \in 0..RowsIn(Len(chunks))
  BY PlacedPos
<1>5. PosOf(Here) = RowsIn(nextChunk) - remaining
  BY <1>1 DEF PosOf
<1>. QED  BY <1>2, <1>3, <1>4, <1>5 DEF Left
(* next goes on by the rows it read, and every slot shows what is wanted.  *)
LEMMA NextFacts ==
    ASSUME ChunksOK, Placed(Here), NEW scatter \in Seq(BOOLEAN), Len(scatter) <= MaxSlots,
           Next(scatter)
    PROVE  /\ Rank(scatter, Len(scatter)) <= Left
           /\ \E at \in Position :
                /\ Placed(at) /\ PosOf(at) = PosOf(Here) + Rank(scatter, Len(scatter))
                /\ \E v : /\ MoveTo(at, v) /\ v = [i \in 1..Len(scatter) |-> v[i]]
                          /\ \A i \in 1..Len(scatter) :
                               Answers(v[i], Wanted(scatter, PosOf(Here), i - 1), at)
<1> DEFINE w == Len(scatter)
           n == Rank(scatter, w)
           p == PosOf(Here)
           start(bit) == [at |-> Here, count |-> n, offset |-> 0,
                          buffer |-> [i \in Slots |-> Unwritten],
                          bits |-> [i \in Slots |-> bit],
                          asked |-> FALSE, hasNulls |-> FALSE, nonNull |-> 0]
           a == start(Unwritten)
           IsFcn(h) == h = [k \in 0..n |-> IF k = 0 THEN a
                                           ELSE IF h[k - 1].count = 0 THEN h[k - 1]
                                           ELSE ReadChunk(h[k - 1], scatter)]
           loop == CHOOSE h : IsFcn(h)
           end == IF n = 0 THEN start(FALSE) ELSE loop[n]
<1>1. w \in Nat /\ n \in Nat
  BY RankStep
<1>2. n <= Left /\ MoveTo(end.at, Visible(end, w))
  BY DEF Next
<1>3. p \in Nat /\ p + n <= RowsIn(Len(chunks))
  <2> HIDE DEF n
  <2> QED  BY <1>1, <1>2, LeftFacts
<1>4. Here \in Position
  BY DEF Placed
<1>5. CASE n = 0
  <2> DEFINE v == Visible(end, w)
  <2>1. end = start(FALSE)
    BY <1>5
  <2>2. end.at = Here /\ end.nonNull = 0 /\ end.bits = [i \in Slots |-> FALSE]
    <3> DEFINE cleared == [i \in Slots |-> FALSE]
    <3>1. start(FALSE).at = Here /\ start(FALSE).nonNull = 0 /\ start(FALSE).bits = cleared
      <4> HIDE DEF cleared
      <4> QED  BY DEF cleared
    <3> HIDE DEF start, end
    <3> QED  BY <2>1, <3>1
  <2> HIDE DEF end
  <2>3. v = [i \in 1..w |-> v[i]]
    BY DEF Visible
  <2>4. ASSUME NEW i \in 1..w PROVE Answers(v[i], Wanted(scatter, p, i - 1), Here)
    <3>1. ~scatter[i]
      <4>1. scatter[i] => Rank(scatter, i) \in 1..Rank(scatter, Len(scatter))
        BY RankSet
      <4>2. 1..n = {}
        BY <1>5
      <4> HIDE DEF n
      <4> QED  BY <4>1, <4>2 DEF n, w
    <3>2. Wanted(scatter, p, i - 1) = Null
      <4>1. (i - 1) + 1 = i
        BY <1>1
      <4> QED  BY <3>1, <4>1 DEF Wanted
    <3>3. i - 1 \in Slots /\ 0 # w
      BY <1>1, DecoderAssumption DEF Slots
    <3>4. end.bits[i - 1] = FALSE
      BY <2>2, <3>3
    <3>5. v[i] = IF end.nonNull = w \/ end.bits[i - 1] = TRUE THEN end.buffer[i - 1]
                 ELSE IF end.bits[i - 1] = FALSE THEN Null ELSE Unwritten
      BY DEF Visible
    <3>6. end.nonNull # w
      BY <2>2, <3>3
    <3> HIDE DEF v, w
    <3>7. v[i] = Null
      BY <3>4, <3>5, <3>6, Zenon
    <3> QED  BY <3>2, <3>7 DEF Answers
  <2>5. PosOf(Here) = p + n
    BY <1>3, <1>5
  <2>6. MoveTo(Here, v)
    BY <1>2, <2>2
  <2> HIDE DEF v, n
  <2> QED  BY <1>2, <1>4, <2>3, <2>4, <2>5, <2>6 DEF n
<1>6. CASE n # 0
  <2> DEFINE D == Reading(scatter, p)
             step == [s \in D |-> IF s.count = 0 THEN s ELSE ReadChunk(s, scatter)]
  <2>1. a \in D
    <3> DEFINE none == [i \in Slots |-> Unwritten]
               z == 0
    <3>1. none \in [Slots -> Cells] /\ none \in [Slots -> Bit]
      BY DEF Cells, Bit
    <3>2. a = [at |-> Here, count |-> n, offset |-> z, buffer |-> none, bits |-> none,
               asked |-> FALSE, hasNulls |-> FALSE, nonNull |-> z]
      OBVIOUS
    <3> HIDE DEF a, none, n, p
    <3>3. a \in LoopState
      BY <1>1, <1>4, <3>1, <3>2 DEF LoopState
    <3>4. /\ a.at = Here /\ a.count = n /\ a.offset = 0 /\ a.nonNull = 0
          /\ ~a.asked /\ ~a.hasNulls
      BY <3>2
    <3>5. Rank(scatter, 0) = 0
      BY RankZero
    <3>6. a.count + Rank(scatter, a.offset) = Rank(scatter, Len(scatter))
      BY <1>1, <3>4, <3>5 DEF n
    <3>7. PosOf(a.at) = p + Rank(scatter, a.offset)
      BY <1>3, <3>4, <3>5 DEF p
    <3>8. 0..(a.offset - 1) = {}
      BY <3>4
    <3> QED  BY <1>1, <1>6, <3>3, <3>4, <3>6, <3>7, <3>8 DEF Reading
  <2>2. ASSUME NEW s \in D
        PROVE  /\ s.count \in Nat
               /\ s.count # 0 => /\ ReadChunk(s, scatter) \in D
                                 /\ ReadChunk(s, scatter).count < s.count
    <3>1. s.count \in Nat
      BY DEF Reading, LoopState
    <3> HIDE DEF p
    <3>2. s.count > 0 => /\ ReadChunk(s, scatter) \in D
                         /\ ReadChunk(s, scatter).count < s.count
      BY <1>3, ReadChunkFacts
    <3> QED  BY <3>1, <3>2
  <2>3. a.count = n
    OBVIOUS
  <2> HIDE DEF D, a, n
  <2>4. /\ step \in [D -> D]
        /\ \A s \in D : step[s] = IF s.count = 0 THEN s ELSE ReadChunk(s, scatter)
    BY <2>2
  <2> HIDE DEF step
  <2>5. PICK f \in [0..n -> D] : Unrolls(f, a, D, step, n)
    BY <1>1, <2>1, <2>4, Unroll
  <2>6. IsFcn(f)
    <3>1. ASSUME NEW k \in 0..n
          PROVE  f[k] = IF k = 0 THEN a ELSE IF f[k - 1].count = 0 THEN f[k - 1]
                                          ELSE ReadChunk(f[k - 1], scatter)
      <4>1. CASE k = 0
        BY <2>5, <4>1 DEF Unrolls
      <4>2. CASE k # 0
        <5>1. k \in 1..n /\ k - 1 \in 0..n
          BY <1>1, <4>2
        <5>2. f[k] = step[f[k - 1]] /\ f[k - 1] \in D
          BY <2>5, <5>1 DEF Unrolls
        <5> QED  BY <2>4, <4>2, <5>2
      <4> QED  BY <4>1, <4>2
    <3> QED  BY <3>1
  <2>7. IsFcn(loop)
    <3> HIDE DEF IsFcn
    <3> QED  BY <2>6
  <2>8. end = loop[n]
    BY <1>6 DEF n
  <2> HIDE DEF loop
  <2>9. loop[0] = a
    BY <1>1, <2>7
  <2>10. ASSUME NEW k \in 1..n, loop[k - 1] \in D PROVE loop[k] = step[loop[k - 1]]
    <3>1. k \in 0..n /\ k # 0
      BY <1>1
    <3>2. loop[k] = IF loop[k - 1].count = 0 THEN loop[k - 1]
                    ELSE ReadChunk(loop[k - 1], scatter)
      BY <2>7, <3>1
    <3> QED  BY <2>4, <2>10, <3>2
  <2>11. CountsDown(D, step) /\ Unrolls(loop, a, D, step, n)
    BY <2>2, <2>4, <2>9, <2>10 DEF CountsDown, Unrolls
  <2>12. a.count <= n
    BY <1>1, <2>3
  <2>13. end \in D /\ end.count = 0
    <3>1. loop[n] \in D /\ loop[n].count = 0
      BY <1>1, <2>1, <2>4, <2>11, <2>12, CountDown
    <3> QED  BY <2>8, <3>1
  <2> HIDE DEF end, p
  <2> DEFINE v == Visible(end, w)
  <2>14. \A i \in 1..w : Answers(v[i], Wanted(scatter, p, i - 1), end.at)
    BY <2>13, VisibleFacts DEF D
  <2>15. v = [i \in 1..w |-> v[i]]
    BY DEF Visible
  <2>16. end.at \in Position /\ Placed(end.at) /\ PosOf(end.at) = p + n
    <3>1. /\ end.at \in Position /\ Placed(end.at) /\ end.offset = w
          /\ PosOf(end.at) = p + Rank(scatter, end.offset)
      BY <2>13 DEF D, Reading, LoopState
    <3> QED  BY <3>1 DEF n
  <2> HIDE DEF v, w
  <2>17. MoveTo(end.at, v)
    BY <1>2 DEF v
  <2>18. /\ n <= Left
         /\ \E at \in Position :
              /\ Placed(at) /\ PosOf(at) = p + n
              /\ \E u : /\ MoveTo(at, u) /\ u = [i \in 1..w |-> u[i]]
                        /\ \A i \in 1..w : Answers(u[i], Wanted(scatter, p, i - 1), at)
    BY <1>2, <2>14, <2>15, <2>16, <2>17
  <2> QED  BY <2>18 DEF n, p, w
<1>. QED  BY <1>5, <1>6

(* skip goes on by n rows.                                                 *)
LEMMA SkipFacts ==
    ASSUME ChunksOK, Placed(Here), NEW n \in Nat, Skip(n)
    PROVE  /\ PosOf(Here) + n <= RowsIn(Len(chunks))
           /\ \E at \in Position :
                Placed(at) /\ PosOf(at) = PosOf(Here) + n /\ MoveTo(at, <<>>)
<1> DEFINE a == [at |-> Here, count |-> n]
           q == PosOf(Here) + n
           IsFcn(h) == h = [k \in 0..n |-> IF k = 0 THEN a
                                           ELSE IF h[k - 1].count = 0 THEN h[k - 1]
                                           ELSE SkipChunk(h[k - 1])]
           loop == CHOOSE h : IsFcn(h)
           D == {s \in [at : Position, count : Nat] :
                  Placed(s.at) /\ PosOf(s.at) + s.count = q}
           step == [s \in D |-> IF s.count = 0 THEN s ELSE SkipChunk(s)]
<1>1. n <= Left /\ MoveTo(loop[n].at, <<>>)
  BY DEF Skip
<1>2. /\ PosOf(Here) \in Nat /\ q \in Nat /\ RowsIn(Len(chunks)) \in Nat
      /\ q <= RowsIn(Len(chunks))
  BY <1>1, LeftFacts
<1>3. a \in D /\ a.count = n
  <2>1. Here \in Position
    BY DEF Placed
  <2> QED  BY <2>1
<1> HIDE DEF q
<1>4. ASSUME NEW s \in D
      PROVE  /\ s.count \in Nat
             /\ s.count # 0 => SkipChunk(s) \in D /\ SkipChunk(s).count < s.count
  <2>1. s.at \in Position /\ s.count \in Nat /\ Placed(s.at) /\ PosOf(s.at) + s.count = q
    OBVIOUS
  <2>2. ASSUME s.count # 0
        PROVE  SkipChunk(s) \in D /\ SkipChunk(s).count < s.count
    <3> DEFINE at == EnsureLoaded(s.at)
               m == RowsToRead(s.count, at)
               e == at.encoding
               f == chunks[e.chunk].nonNull
               x == Rank(f, e.nulls + m) - Rank(f, e.nulls)
               c == Consumed(at, m, x)
               t == SkipChunk(s)
    <3>1. PosOf(s.at) \in Nat
      BY <2>1, PlacedPos, <1>2
    <3>2. PosOf(s.at) < RowsIn(Len(chunks))
      BY <1>2, <2>1, <2>2, <3>1
    <3>3. s.at.remaining = 0 => s.at.next < Len(chunks)
      BY <2>1, <3>2, MoreRows
    <3>4. Placed(at) /\ at \in Position /\ at.remaining > 0 /\ PosOf(at) = PosOf(s.at)
      BY <2>1, <3>3, LoadFacts
    <3>5. t = [at |-> c, count |-> s.count - m]
      BY DEF SkipChunk
    <3> HIDE DEF at, t
    <3>6. m \in 0..at.remaining /\ m \in Nat /\ m > 0 /\ m <= s.count
      BY <2>1, <2>2, <3>4 DEF RowsToRead, Position
    <3> HIDE DEF m
    <3>7. Placed(c) /\ PosOf(c) = PosOf(at) + m
      BY <3>4, <3>6, ConsumedFacts
    <3> HIDE DEF c
    <3>8. c \in Position
      BY <3>7 DEF Placed
    <3>9. t \in [at : Position, count : Nat] /\ t.at = c /\ t.count = s.count - m
      BY <2>1, <3>5, <3>6, <3>8
    <3>10. PosOf(t.at) + t.count = q
      BY <2>1, <3>1, <3>4, <3>6, <3>7, <3>9
    <3>11. t.count < s.count
      BY <2>1, <3>6, <3>9
    <3> QED  BY <3>7, <3>9, <3>10, <3>11 DEF t
  <2> QED  BY <2>1, <2>2
<1>5. \A s \in D : Placed(s.at) /\ s.at \in Position /\ PosOf(s.at) + s.count = q
  OBVIOUS
<1> HIDE DEF D, a
<1>6. /\ step \in [D -> D]
      /\ \A s \in D : step[s] = IF s.count = 0 THEN s ELSE SkipChunk(s)
  BY <1>4
<1> HIDE DEF step
<1>7. PICK f \in [0..n -> D] : Unrolls(f, a, D, step, n)
  BY <1>3, <1>6, Unroll
<1>8. IsFcn(f)
  <2>1. ASSUME NEW k \in 0..n
        PROVE  f[k] = IF k = 0 THEN a ELSE IF f[k - 1].count = 0 THEN f[k - 1]
                                        ELSE SkipChunk(f[k - 1])
    <3>1. CASE k = 0
      BY <1>7, <3>1 DEF Unrolls
    <3>2. CASE k # 0
      <4>1. k \in 1..n /\ k - 1 \in 0..n
        BY <3>2
      <4>2. f[k] = step[f[k - 1]] /\ f[k - 1] \in D
        BY <1>7, <4>1 DEF Unrolls
      <4> QED  BY <1>6, <3>2, <4>2
    <3> QED  BY <3>1, <3>2
  <2> QED  BY <2>1
<1>9. IsFcn(loop)
  <2> HIDE DEF IsFcn
  <2> QED  BY <1>8
<1> HIDE DEF loop
<1>10. loop[0] = a
  BY <1>9
<1>11. ASSUME NEW k \in 1..n, loop[k - 1] \in D PROVE loop[k] = step[loop[k - 1]]
  <2>1. k \in 0..n /\ k # 0
    OBVIOUS
  <2>2. loop[k] = IF loop[k - 1].count = 0 THEN loop[k - 1] ELSE SkipChunk(loop[k - 1])
    BY <1>9, <2>1
  <2> QED  BY <1>6, <1>11, <2>2
<1>12. CountsDown(D, step) /\ Unrolls(loop, a, D, step, n)
  BY <1>4, <1>6, <1>10, <1>11 DEF CountsDown, Unrolls
<1>13. loop[n] \in D /\ loop[n].count = 0
  <2>1. a.count <= n
    BY <1>3
  <2> QED  BY <1>3, <1>6, <1>12, <2>1, CountDown
<1>14. Placed(loop[n].at) /\ loop[n].at \in Position /\ PosOf(loop[n].at) + 0 = q
  BY <1>5, <1>13
<1>15. PosOf(loop[n].at) = q
  <2>1. PosOf(loop[n].at) \in 0..RowsIn(Len(chunks))
    BY <1>14, PlacedPos
  <2> QED  BY <1>2, <1>14, <2>1
<1>. QED  BY <1>1, <1>2, <1>14, <1>15 DEF q
-----------------------------------------------------------------------------
(* The decoder                                                             *)

IInv == ChunksOK /\ Placed(Here)

(* A call returns and the decoder stands somewhere else.                   *)
LEMMA MoveFacts ==
    ASSUME ChunksOK, NEW at \in Position, Placed(at), NEW v, MoveTo(at, v)
    PROVE  /\ IInv' /\ Here' = at /\ out' = v /\ AllRows' = AllRows
           /\ RowsIn(nextChunk)' - remaining' = PosOf(at)
           /\ encoding'.chunk = at.encoding.chunk
<1>1. /\ nextChunk' = at.next /\ remaining' = at.remaining /\ encoding' = at.encoding
      /\ out' = v /\ chunks' = chunks
  BY DEF MoveTo
<1>2. Here' = [next |-> at.next, remaining |-> at.remaining, encoding |-> at.encoding]
  BY <1>1 DEF Here
<1>3. Here' = at
  BY <1>2 DEF Position
<1>4. \A c : RowCount(c)' = RowCount(c)
  BY <1>1 DEF RowCount
<1>5. \A c : RowsOf(c)' = RowsOf(c)
  BY <1>1, <1>4 DEF RowsOf, RowCount
<1>6. AllRows' = AllRows
  BY <1>1, <1>5 DEF AllRows, RowsOf, RowCount
<1>7. RowsIn(nextChunk)' = RowsIn(at.next)
  BY <1>1 DEF RowsIn, RowCount
<1>8. ChunksOK'
  BY <1>1 DEF ChunksOK
<1>9. Placed(Here)'
  BY <1>1, <1>3 DEF Placed, RowCount
<1>. QED  BY <1>1, <1>3, <1>6, <1>7, <1>8, <1>9 DEF IInv, PosOf

(* The cursor counts as the decoder does.                                  *)
LEMMA CursorCounts ==
    ASSUME NEW S
    PROVE  Cursor!Cardinality(S) = Cardinality(S)
BY DEF Cursor!Cardinality, Cardinality

(* The rank of a slot, as the cursor counts it.                            *)
LEMMA CursorRank ==
    ASSUME NEW f \in Seq(BOOLEAN)
    PROVE  /\ Cursor!Cardinality(Cursor!Selected(f)) = Rank(f, Len(f))
           /\ \A i \in 1..Len(f) :
                Cursor!Cardinality({j \in Cursor!Selected(f) : j <= i}) = Rank(f, i)
<1>1. Cursor!Selected(f) = {j \in 1..Len(f) : f[j]}
  BY DEF Cursor!Selected
<1>2. ASSUME NEW i \in 1..Len(f)
      PROVE  {j \in Cursor!Selected(f) : j <= i} = {j \in 1..i : f[j]}
  BY <1>1
<1>. QED  BY <1>1, <1>2, CursorCounts DEF Rank

(* A bitmap of a request.                                                  *)
LEMMA RequestFacts ==
    ASSUME NEW scatter \in Requests
    PROVE  scatter \in Seq(BOOLEAN) /\ Len(scatter) <= MaxSlots
<1>1. MaxSlots \in Nat
  BY DecoderAssumption
<1>2. CASE scatter = <<>>
  BY <1>1, <1>2
<1>3. CASE scatter \in Flags(MaxSlots)
  <2>1. PICK k \in 1..MaxSlots : scatter \in [1..k -> BOOLEAN]
    BY <1>3 DEF Flags
  <2>2. k \in Nat /\ k <= MaxSlots
    BY <1>1
  <2> QED  BY <2>1, <2>2
<1>. QED  BY <1>2, <1>3 DEF Requests

(* The decoder starts before the first row.                                *)
LEMMA InitFacts ==
    ASSUME Init
    PROVE  IInv /\ Cursor!Init
<1> DEFINE z == 0
           e == [chunk |-> z, nulls |-> z, values |-> z]
<1>1. nextChunk = z /\ remaining = z /\ encoding = e /\ out = <<>>
  BY DEF Init
<1>2. ChunksOK
  <2>1. PICK n \in 1..MaxChunks : chunks \in [1..n -> EncodedChunk]
    BY DEF Init
  <2>2. n \in Nat /\ n <= MaxChunks
    BY DecoderAssumption
  <2> QED  BY <2>1, <2>2 DEF ChunksOK
<1>3. e \in [chunk : Nat, nulls : Nat, values : Nat]
  OBVIOUS
<1> HIDE DEF e
<1>4. Here = [next |-> z, remaining |-> z, encoding |-> e]
  BY <1>1 DEF Here
<1>5. Here \in Position /\ Here.next = 0 /\ Here.remaining = 0
  BY <1>3, <1>4 DEF Position
<1>6. Placed(Here)
  BY <1>2, <1>5 DEF Placed, ChunksOK
<1>7. RowsIn(nextChunk) - remaining = 0
  BY <1>1, <1>2, RowsInFacts
<1>8. [i \in DOMAIN out |-> Shown(out[i])] = <<>>
  <2>1. DOMAIN <<>> = {}
    OBVIOUS
  <2> QED  BY <1>1, <2>1
<1>. QED  BY <1>2, <1>6, <1>7, <1>8 DEF IInv, Cursor!Init

(* next is a step of the cursor, and its strings stay.                     *)
LEMMA NextStep ==
    ASSUME IInv, NEW scatter \in Requests, Next(scatter)
    PROVE  /\ IInv' /\ Cursor!Next(scatter)
           /\ IsString => \A i \in DOMAIN out' :
                out'[i] \notin {Null, Unwritten} =>
                  out'[i].owned \/ out'[i].chunk = encoding'.chunk
<1> DEFINE w == Len(scatter)
           n == Rank(scatter, w)
           p == PosOf(Here)
<1>1. scatter \in Seq(BOOLEAN) /\ w <= MaxSlots /\ w \in Nat
  BY RequestFacts
<1>2. PICK at \in Position :
        /\ Placed(at) /\ PosOf(at) = p + n
        /\ \E v : /\ MoveTo(at, v) /\ v = [i \in 1..w |-> v[i]]
                  /\ \A i \in 1..w : Answers(v[i], Wanted(scatter, p, i - 1), at)
  BY <1>1, NextFacts DEF IInv
<1>3. PICK v : /\ MoveTo(at, v) /\ v = [i \in 1..w |-> v[i]]
               /\ \A i \in 1..w : Answers(v[i], Wanted(scatter, p, i - 1), at)
  BY <1>2
<1>4. n <= Left /\ n \in Nat
  BY <1>1, NextFacts, RankStep DEF IInv
<1>5. /\ IInv' /\ out' = v /\ AllRows' = AllRows
      /\ RowsIn(nextChunk)' - remaining' = p + n
      /\ encoding'.chunk = at.encoding.chunk
  BY <1>2, <1>3, MoveFacts DEF IInv
<1>6. p + n <= Len(AllRows)
  BY <1>4, LeftFacts, AllRowsFacts DEF IInv
<1>7. p = RowsIn(nextChunk) - remaining
  BY DEF PosOf, Here
<1>8. ASSUME NEW i \in 1..w
      PROVE  /\ Shown(v[i]) = IF scatter[i] THEN AllRows[p + Rank(scatter, i)] ELSE Null
             /\ v[i] \notin {Null, Unwritten} => v[i] \in Values
             /\ v[i] \in Values /\ IsString => v[i].owned \/ v[i].chunk = at.encoding.chunk
  <2> DEFINE wanted == Wanted(scatter, p, i - 1)
  <2>1. wanted = IF scatter[i] THEN AllRows[p + Rank(scatter, i)] ELSE Null
    <3>1. (i - 1) + 1 = i
      BY <1>1
    <3> QED  BY <3>1 DEF Wanted
  <2>2. Answers(v[i], wanted, at)
    BY <1>3
  <2> HIDE DEF wanted
  <2>3. {Null, Unwritten} \cap Values = {}
    BY DecoderAssumption
  <2>4. CASE wanted = Null
    <3>1. v[i] = Null
      BY <2>2, <2>4 DEF Answers
    <3> QED  BY <2>1, <2>3, <2>4, <3>1 DEF Shown
  <2>5. CASE wanted # Null
    <3>1. /\ v[i] \in Values /\ Value(v[i].chunk, v[i].index) = wanted
          /\ IsString => v[i].owned \/ v[i].chunk = at.encoding.chunk
      BY <2>2, <2>5 DEF Answers
    <3> QED  BY <2>1, <2>3, <3>1 DEF Shown
  <2> QED  BY <2>4, <2>5
<1>9. DOMAIN v = 1..w
  BY <1>3
<1>10. [i \in DOMAIN v |-> Shown(v[i])]
         = [i \in 1..w |-> IF scatter[i] THEN AllRows[p + Rank(scatter, i)] ELSE Null]
  BY <1>8, <1>9
<1>11. Cursor!Delivered(scatter)
         = [i \in 1..w |-> IF scatter[i] THEN AllRows[p + Rank(scatter, i)] ELSE Null]
  <2>1. DOMAIN scatter = 1..w
    BY <1>1
  <2>2. \A i \in 1..w :
          Cursor!Cardinality({j \in Cursor!Selected(scatter) : j <= i}) = Rank(scatter, i)
    BY <1>1, CursorRank
  <2> DEFINE q == RowsIn(nextChunk) - remaining
             C(i) == Cursor!Cardinality({j \in Cursor!Selected(scatter) : j <= i})
  <2>3. Cursor!Delivered(scatter)
          = [i \in 1..w |-> IF scatter[i] THEN AllRows[q + C(i)] ELSE Null]
    BY <2>1 DEF Cursor!Delivered
  <2>4. q = p
    BY <1>7
  <2>5. \A i \in 1..w : C(i) = Rank(scatter, i)
    BY <2>2
  <2> HIDE DEF p, w, q, C
  <2> QED  BY <2>3, <2>4, <2>5
<1>12. Cursor!Cardinality(Cursor!Selected(scatter)) = n
  BY <1>1, CursorRank
<1>13. [i \in DOMAIN out |-> Shown(out[i])]' = [i \in DOMAIN v |-> Shown(v[i])]
  BY <1>5 DEF Shown, Value
<1>14. Cursor!Next(scatter)
  <2> DEFINE c == Cursor!Cardinality(Cursor!Selected(scatter))
             q == RowsIn(nextChunk) - remaining
  <2>1. c = n /\ q = p
    BY <1>7, <1>12
  <2>2. q + c <= Len(AllRows) /\ q' = q + c
    BY <1>5, <1>6, <2>1
  <2>3. [i \in DOMAIN out |-> Shown(out[i])]' = Cursor!Delivered(scatter)
    BY <1>10, <1>11, <1>13, Zenon
  <2> QED  BY <1>5, <2>2, <2>3 DEF Cursor!Next
<1>. QED  BY <1>5, <1>8, <1>9, <1>14

(* The calls that return nothing stand between two rows afterwards.        *)
LEMMA QuietMove ==
    ASSUME IInv, NEW at \in Position, Placed(at), MoveTo(at, <<>>),
           PosOf(at) >= PosOf(Here) \/ PosOf(at) = 0
    PROVE  IInv' /\ (Cursor!Skip \/ Cursor!Reset) /\ out' = <<>>
<1>1. /\ IInv' /\ out' = <<>> /\ AllRows' = AllRows
      /\ RowsIn(nextChunk)' - remaining' = PosOf(at)
  BY MoveFacts DEF IInv
<1>2. /\ PosOf(at) \in 0..RowsIn(Len(chunks)) /\ PosOf(Here) \in 0..RowsIn(Len(chunks))
      /\ Len(AllRows) = RowsIn(Len(chunks))
  BY PlacedPos, AllRowsFacts DEF IInv
<1>3. PosOf(Here) = RowsIn(nextChunk) - remaining
  BY DEF PosOf, Here
<1>4. [i \in DOMAIN out |-> Shown(out[i])]' = <<>>
  <2>1. DOMAIN <<>> = {}
    OBVIOUS
  <2> QED  BY <1>1, <2>1
<1>5. CASE PosOf(at) = 0
  BY <1>1, <1>4, <1>5 DEF Cursor!Reset
<1>6. CASE PosOf(at) >= PosOf(Here)
  <2>1. PosOf(at) \in PosOf(Here)..Len(AllRows)
    BY <1>2, <1>6
  <2> QED  BY <1>1, <1>3, <1>4, <2>1 DEF Cursor!Skip
<1>. QED  BY <1>1, <1>5, <1>6

(* Every step.                                                             *)
LEMMA StepFacts ==
    ASSUME IInv, Step
    PROVE  /\ IInv' /\ Cursor!Step
           /\ IsString => \A i \in DOMAIN out' :
                out'[i] \notin {Null, Unwritten} =>
                  out'[i].owned \/ out'[i].chunk = encoding'.chunk
<1>1. CASE \E scatter \in Requests : Next(scatter)
  BY <1>1, NextStep DEF Cursor!Step
<1>2. ASSUME IInv' /\ (Cursor!Skip \/ Cursor!Reset) /\ out' = <<>>
      PROVE  /\ IInv' /\ Cursor!Step
             /\ IsString => \A i \in DOMAIN out' :
                  out'[i] \notin {Null, Unwritten} =>
                    out'[i].owned \/ out'[i].chunk = encoding'.chunk
  <2>1. DOMAIN <<>> = {}
    OBVIOUS
  <2> QED  BY <1>2, <2>1 DEF Cursor!Step
<1>3. CASE \E n \in 0..(MaxChunks * MaxRows) : Skip(n)
  <2>1. PICK n \in Nat : Skip(n)
    BY <1>3, DecoderAssumption
  <2>2. PICK at \in Position : Placed(at) /\ PosOf(at) = PosOf(Here) + n /\ MoveTo(at, <<>>)
    BY <2>1, SkipFacts DEF IInv
  <2>3. PosOf(Here) \in 0..RowsIn(Len(chunks)) /\ RowsIn(Len(chunks)) \in Nat
    <3>1. Len(chunks) \in 0..Len(chunks)
      BY DEF IInv, ChunksOK
    <3> QED  BY <3>1, PlacedPos, RowsInFacts DEF IInv
  <2>4. PosOf(at) >= PosOf(Here)
    BY <2>2, <2>3
  <2> QED  BY <1>2, <2>2, <2>4, QuietMove
<1>4. CASE Reset
  <2> DEFINE z == 0
             at == [next |-> z, remaining |-> z, encoding |-> encoding]
  <2>1. encoding \in [chunk : Nat, nulls : Nat, values : Nat]
    BY DEF IInv, Placed, Here, Position
  <2>2. at \in Position /\ at.next = 0 /\ at.remaining = 0
    BY <2>1 DEF Position
  <2>3. MoveTo(at, <<>>)
    BY <1>4 DEF Reset
  <2> HIDE DEF at
  <2>4. Placed(at)
    BY <2>2 DEF IInv, Placed, ChunksOK
  <2>5. PosOf(at) = 0
    BY <2>2, RowsInFacts DEF IInv, PosOf
  <2> QED  BY <1>2, <2>2, <2>3, <2>4, <2>5, QuietMove
<1>5. CASE Load
  <2> DEFINE at == EnsureLoaded(Here)
  <2>1. Here.remaining = 0 => Here.next < Len(chunks)
    BY <1>5 DEF Load, Here
  <2>2. Placed(at) /\ at \in Position /\ PosOf(at) = PosOf(Here)
    BY <2>1, LoadFacts DEF IInv
  <2>3. MoveTo(at, <<>>)
    BY <1>5 DEF Load
  <2>4. PosOf(Here) \in 0..RowsIn(Len(chunks))
    BY PlacedPos DEF IInv
  <2> HIDE DEF at
  <2>5. PosOf(at) >= PosOf(Here)
    BY <2>2, <2>4
  <2> QED  BY <1>2, <2>2, <2>3, <2>5, QuietMove
<1>. QED  BY <1>1, <1>3, <1>4, <1>5 DEF Step

(* A step that changes nothing.                                            *)
LEMMA Stutter ==
    ASSUME UNCHANGED vars
    PROVE  (IInv => IInv') /\ UNCHANGED Cursor!vars
<1>1. /\ chunks' = chunks /\ nextChunk' = nextChunk /\ remaining' = remaining
      /\ encoding' = encoding /\ out' = out
  BY DEF vars
<1>2. IInv => IInv'
  BY <1>1 DEF IInv, ChunksOK, Placed, Here, RowCount
<1>3. AllRows' = AllRows
  BY <1>1 DEF AllRows, RowsOf, RowCount
<1>4. (RowsIn(nextChunk) - remaining)' = RowsIn(nextChunk) - remaining
  BY <1>1 DEF RowsIn, RowCount
<1>5. [i \in DOMAIN out |-> Shown(out[i])]' = [i \in DOMAIN out |-> Shown(out[i])]
  BY <1>1
<1>. QED  BY <1>2, <1>3, <1>4, <1>5 DEF Cursor!vars

(* The positions in the stream, in the chunk and in its values agree, in   *)
(* every state: remaining_ counts the rows of the loaded chunk that are    *)
(* left, and its values stand behind the rows consumed that are not null,  *)
(* after any mix of next, skip, reset and ensureLoaded.                    *)
THEOREM DecoderInvariant == Spec => []IInv
<1>1. Init => IInv
  BY InitFacts
<1>2. IInv /\ [Step]_vars => IInv'
  BY StepFacts, Stutter
<1>. QED  BY <1>1, <1>2, PTL DEF Spec

(* ChunkedStreamDecoder is a cursor over the rows of all chunks: every     *)
(* call of next delivers the rows that follow in the slots its bitmap      *)
(* selects and nulls in the others, over any mix of chunks with and        *)
(* without nulls; skip, reset and ensureLoaded only move.                  *)
THEOREM DecoderIsStreamCursor == Spec => ImplementsStreamCursor
<1>1. Init => Cursor!Init
  BY InitFacts
<1>2. IInv /\ [Step]_vars => [Cursor!Step]_(Cursor!vars)
  BY StepFacts, Stutter
<1>. QED  BY <1>1, <1>2, DecoderInvariant, PTL DEF Spec, ImplementsStreamCursor, Cursor!Spec

(* bufferStringContent copies every string that next leaves behind in a    *)
(* chunk it drops before it returns: a string handed out is a copy or      *)
(* lies in the chunk that is still loaded.                                 *)
THEOREM DecoderStringsOutlive == Spec => StringsOutliveTheirChunk
<1> DEFINE A == IsString =>
                  \A i \in DOMAIN out' :
                    out'[i] \notin {Null, Unwritten} =>
                      out'[i].owned \/ out'[i].chunk = encoding'.chunk
<1>1. IInv /\ [Step]_vars => [A]_vars
  BY StepFacts
<1>. QED  BY <1>1, DecoderInvariant, PTL DEF Spec, StringsOutliveTheirChunk
=============================================================================
