---------------------------- MODULE TabletProofs ----------------------------
(***************************************************************************)
(* Theorems about TabletWriter and TabletReader, for every set of streams, *)
(* thresholds, number of stripes, sections and initial reads: the metadata *)
(* a writer leaves behind describes the streams it was given, and what the *)
(* reader finds by offset and size is what the writer was given.  And      *)
(* about the stripe groups that threads share while they read.             *)
(***************************************************************************)
EXTENDS TabletReader, StripeGroupCache, SequenceFacts

-----------------------------------------------------------------------------
(* The writer: lemmas about the operators                                  *)

(* MaxOf (std::max_element) of a non-empty, bounded set of naturals.       *)
LEMMA MaxOfProperties ==
    ASSUME NEW S \in SUBSET Nat, S # {},
           NEW bound \in Nat, \A x \in S : x <= bound
    PROVE  /\ MaxOf(S) \in S
           /\ \A y \in S : y <= MaxOf(S)
<1>1. S \in SUBSET (0..bound)
  OBVIOUS
<1>2. \E x \in S : \A y \in S : y <= x
  BY <1>1, GreatestNat
<1>. QED  BY <1>2 DEF MaxOf

(* SumOf (std::accumulate over the row counts): the recursive function is  *)
(* defined and natural-valued.                                             *)
LEMMA SumOfNat ==
    ASSUME NEW seq \in Seq(Nat)
    PROVE  SumOf(seq) \in Nat
<1> DEFINE n == Len(seq)
           IsSum(h) ==
             h = [i \in 0..n |-> IF i = 0 THEN 0 ELSE h[i - 1] + seq[i]]
           s == CHOOSE h : IsSum(h)
<1>1. n \in Nat /\ seq \in [1..n -> Nat]
  OBVIOUS
<1>2. PICK f : IsPrefixSum(f, seq, n)
  <2> HIDE DEF n
  <2> QED  BY <1>1, PrefixSumExists
<1>3. IsSum(f)
  BY <1>1, <1>2 DEF IsPrefixSum
<1>4. IsSum(s)
  <2> HIDE DEF IsSum
  <2> QED  BY <1>3
<1>5. SumOf(seq) = s[n]
  BY DEF SumOf
<1> HIDE DEF s
<1> DEFINE T == {i \in 0..n : s[i] \in Nat}
<1>6. 0 \in T
  BY <1>1, <1>4
<1>7. ASSUME NEW i \in 1..n, i - 1 \in T PROVE i \in T
  <2>1. s[i - 1] \in Nat
    BY <1>7
  <2>2. seq[i] \in Nat
    BY <1>1
  <2>3. i \in 0..n /\ i # 0
    BY <1>1
  <2>4. s[i] = s[i - 1] + seq[i]
    BY <1>4, <2>3
  <2> QED  BY <2>1, <2>2, <2>3, <2>4
<1>8. 0..n \subseteq T
  <2> HIDE DEF T, n
  <2> QED  BY <1>1, <1>6, <1>7, Climb
<1>. QED  BY <1>1, <1>5, <1>8

-----------------------------------------------------------------------------
(* Types of what is appended                                               *)

ExtentType == [offset : Nat, size : Nat, payload : Payload, codec : Codec]

(* A function on 1..m is a sequence of length m.                           *)
LEMMA FcnIsSeq ==
    ASSUME NEW S, NEW m \in Nat, NEW f \in [1..m -> S]
    PROVE  f \in Seq(S) /\ Len(f) = m
OBVIOUS

(* Overwriting an element keeps a sequence's type and length.              *)
LEMMA ExceptIsSeq ==
    ASSUME NEW S, NEW q \in Seq(S), NEW j, NEW e \in S
    PROVE  /\ [q EXCEPT ![j] = e] \in Seq(S)
           /\ Len([q EXCEPT ![j] = e]) = Len(q)
           /\ \A i \in 1..Len(q) :
                [q EXCEPT ![j] = e][i] = IF i = j THEN e ELSE q[i]
<1>1. Len(q) \in Nat /\ q \in [1..Len(q) -> S]
  OBVIOUS
<1>2. [q EXCEPT ![j] = e] \in [1..Len(q) -> S]
  BY <1>1
<1>. QED  BY <1>1, <1>2, FcnIsSeq

(* The last element of a sequence after an append, and the others.         *)
LEMMA AppendIsSeq ==
    ASSUME NEW S, NEW q \in Seq(S), NEW e \in S
    PROVE  /\ Append(q, e) \in Seq(S)
           /\ Len(Append(q, e)) = Len(q) + 1
           /\ Append(q, e)[Len(q) + 1] = e
           /\ \A i \in 1..Len(q) : Append(q, e)[i] = q[i]
OBVIOUS

(* The last element of a non-empty sequence.                               *)
LEMMA LastOfSeq ==
    ASSUME NEW S, NEW q \in Seq(S), Len(q) > 0
    PROVE  Len(q) \in 1..Len(q) /\ q[Len(q)] \in S
OBVIOUS

(* Whatever writeMetadata decides, the stored size is a natural number.    *)
LEMMA EncodingsType ==
    ASSUME NEW raw \in Nat, NEW enc \in Encodings(raw)
    PROVE  enc \in [size : Nat, codec : Codec]
BY ConstantsAssumption DEF Encodings, Codec

(* A row of the flattened vectors exists for every entry.                  *)
LEMMA RowInRange ==
    ASSUME NEW n \in Nat, NEW c \in Nat, NEW k \in 1..(n * c)
    PROVE  /\ c > 0
           /\ (k - 1) \div c \in 0..(n - 1)
           /\ (k - 1) % c \in 0..(c - 1)
<1>1. c > 0
  <2> SUFFICES ASSUME c = 0 PROVE FALSE
    OBVIOUS
  <2>1. n * c = 0
    OBVIOUS
  <2> QED  BY <2>1
<1> DEFINE q == (k - 1) \div c
           r == (k - 1) % c
<1>2. q \in Int /\ r \in 0..(c - 1) /\ k - 1 = c * q + r
  BY <1>1
<1> HIDE DEF q, r
<1>3. k - 1 >= 0 /\ k - 1 < n * c /\ n * c \in Nat
  OBVIOUS
<1>4. q >= 0
  <2> SUFFICES ASSUME q <= -1 PROVE FALSE
    BY <1>2
  <2>1. c * q <= c * (-1)
    BY <1>1, <1>2
  <2> QED  BY <2>1, <1>2, <1>3
<1>5. q < n
  <2> SUFFICES ASSUME q >= n PROVE FALSE
    BY <1>2
  <2>1. c * q >= c * n
    BY <1>1, <1>2
  <2> QED  BY <2>1, <1>2, <1>3
<1>. QED  BY <1>1, <1>2, <1>4, <1>5 DEF q, r

(* createFlattenedVector returns a vector of naturals of the full length.  *)
LEMMA FlattenedType ==
    ASSUME NEW source \in Seq(Seq(Nat)), NEW c \in Nat
    PROVE  /\ CreateFlattenedVector(source, c) \in Seq(Nat)
           /\ Len(CreateFlattenedVector(source, c)) = Len(source) * c
<1> DEFINE n == Len(source)
<1>1. n \in Nat /\ n * c \in Nat
  OBVIOUS
<1>2. ASSUME NEW k \in 1..(n * c)
      PROVE  CreateFlattenedVector(source, c)[k] \in Nat
  <2> DEFINE row == source[((k - 1) \div c) + 1]
             i == ((k - 1) % c) + 1
  <2>1. ((k - 1) \div c) + 1 \in 1..n /\ i \in Nat \ {0}
    <3>1. (k - 1) \div c \in 0..(n - 1) /\ (k - 1) % c \in 0..(c - 1)
      BY <1>1, <1>2, RowInRange
    <3> HIDE DEF n
    <3> QED  BY <3>1, <1>1
  <2>2. row \in Seq(Nat)
    BY <2>1
  <2>3. CreateFlattenedVector(source, c)[k] =
          IF i <= Len(row) THEN row[i] ELSE 0
    BY DEF CreateFlattenedVector
  <2> HIDE DEF row, i
  <2> QED  BY <2>1, <2>2, <2>3
<1>3. CreateFlattenedVector(source, c) \in [1..(n * c) -> Nat]
  BY <1>2 DEF CreateFlattenedVector
<1> HIDE DEF n
<1>4. /\ CreateFlattenedVector(source, c) \in Seq(Nat)
      /\ Len(CreateFlattenedVector(source, c)) = n * c
  BY <1>1, <1>3, FcnIsSeq
<1>. QED  BY <1>4 DEF n

-----------------------------------------------------------------------------
(* Type correctness                                                        *)

(* What type correctness rests on: vectors are no longer than the largest  *)
(* stream offset allows, so that std::max_element has a maximum, and a     *)
(* running writeStripe has pushed the vectors it fills.                    *)
Shape ==
    /\ \A i \in 1..Len(streamOffsets) :
         Len(streamOffsets[i]) <= MaxStreamOffset + 1
    /\ pc = "stripe" => /\ Len(streamOffsets) > 0
                        /\ Len(streamSizes) > 0
                        /\ Len(stripeOffsets) > 0
                        /\ stripeOffsets[Len(stripeOffsets)] <= fileSize

TypeInv == TypeOK /\ Shape

(* A list of streams is a sequence, and its stream count is bounded.       *)
LEMMA StreamListsType ==
    ASSUME NEW streams \in StreamLists
    PROVE  /\ streams \in Seq(Stream)
           /\ StreamCount(streams) \in 0..(MaxStreamOffset + 1)
<1>1. PICK n \in 0..Cardinality(StreamIds) : streams \in [1..n -> Stream]
  BY DEF StreamLists
<1>2. n \in Nat
  BY <1>1
<1>3. streams \in Seq(Stream)
  BY <1>1, <1>2, FcnIsSeq
<1> DEFINE S == {streams[i].offset : i \in DOMAIN streams}
<1>4. \A i \in DOMAIN streams : streams[i].offset \in 0..MaxStreamOffset
  BY <1>1, ConstantsAssumption DEF Stream
<1>5. S \in SUBSET Nat /\ \A x \in S : x <= MaxStreamOffset
  BY <1>4
<1>6. ASSUME streams # <<>>
      PROVE  MaxOf(S) \in 0..MaxStreamOffset
  <2>1. S # {}
    <3>1. 1 \in DOMAIN streams
      BY <1>3, <1>6
    <3> QED  BY <3>1
  <2>2. MaxStreamOffset \in Nat
    BY ConstantsAssumption
  <2> HIDE DEF S
  <2>3. MaxOf(S) \in S
    BY <2>1, <2>2, <1>5, MaxOfProperties
  <2>4. MaxOf(S) \in Nat /\ MaxOf(S) <= MaxStreamOffset
    BY <2>3, <1>5
  <2> QED  BY <2>2, <2>4
<1>. QED  BY <1>3, <1>6, ConstantsAssumption DEF StreamCount

(* The width of a group's vectors.                                         *)
LEMMA MaxStreamCountBounds ==
    ASSUME NEW vectors \in Seq(Seq(Nat)), vectors # <<>>,
           \A i \in 1..Len(vectors) : Len(vectors[i]) <= MaxStreamOffset + 1
    PROVE  /\ MaxStreamCount(vectors) \in Nat
           /\ \A i \in 1..Len(vectors) :
                Len(vectors[i]) <= MaxStreamCount(vectors)
<1> DEFINE S == {Len(vectors[i]) : i \in DOMAIN vectors}
<1>1. 1 \in DOMAIN vectors
  OBVIOUS
<1>2. DOMAIN vectors = 1..Len(vectors)
  BY <1>1
<1>3. \A i \in DOMAIN vectors :
        /\ Len(vectors[i]) \in Nat
        /\ Len(vectors[i]) <= MaxStreamOffset + 1
  BY <1>1, <1>2
<1>4. /\ S \in SUBSET Nat
      /\ S # {}
      /\ MaxStreamOffset + 1 \in Nat
      /\ \A x \in S : x <= MaxStreamOffset + 1
  <2>1. Len(vectors[1]) \in S
    BY <1>1
  <2>2. ASSUME NEW x \in S
        PROVE  x \in Nat /\ x <= MaxStreamOffset + 1
    BY <1>3
  <2> HIDE DEF S
  <2> QED  BY <2>1, <2>2, ConstantsAssumption
<1>5. MaxOf(S) \in S /\ \A y \in S : y <= MaxOf(S)
  <2> HIDE DEF S
  <2> QED  BY <1>4, MaxOfProperties
<1>. QED  BY <1>2, <1>4, <1>5 DEF MaxStreamCount

(* The width of a stripe group that has stripes.                           *)
LEMMA MaxStreamCountType ==
    ASSUME TypeInv, streamOffsets # <<>>
    PROVE  MaxStreamCount(streamOffsets) \in Nat
<1>1. streamOffsets \in Seq(Seq(Nat))
  BY DEF TypeInv, TypeOK
<1>2. \A i \in 1..Len(streamOffsets) : Len(streamOffsets[i]) <= MaxStreamOffset + 1
  BY DEF TypeInv, Shape
<1>. QED  BY <1>1, <1>2, MaxStreamCountBounds

(* Appending keeps the file well-typed.                                    *)
LEMMA AppendType ==
    ASSUME TypeOK, NEW payload \in Payload, NEW size \in Nat,
           NEW codec \in Codec, WriteWithChecksum(payload, size, codec)
    PROVE  /\ file' \in Seq(ExtentType)
           /\ fileSize' \in Nat
           /\ checksum' \in Nat
           /\ fileSize' = fileSize + size
<1>0. [offset |-> fileSize, size |-> size, payload |-> payload,
       codec |-> codec] \in ExtentType
  BY DEF ExtentType, TypeOK
<1>1. Extent(payload, size, codec) \in Seq(ExtentType)
  <2> HIDE DEF ExtentType
  <2> QED  BY <1>0 DEF Extent
<1>2. file \in Seq(ExtentType) /\ fileSize \in Nat /\ checksum \in Nat
  BY DEF TypeOK, ExtentType
<1>. QED  BY <1>1, <1>2 DEF WriteWithChecksum

(* A stripe group's payload and its size before compression.               *)
LEMMA StripeGroupType ==
    ASSUME TypeInv, streamOffsets # <<>>
    PROVE  /\ StripeGroupRawSize(streamOffsets) \in Nat
           /\ StripeGroupPayload(streamOffsets, streamSizes) \in Payload
<1> DEFINE c == MaxStreamCount(streamOffsets)
<1>1. c \in Nat /\ Len(streamOffsets) \in Nat
  BY MaxStreamCountType DEF TypeInv, TypeOK
<1>2. /\ CreateFlattenedVector(streamOffsets, c) \in Seq(Nat)
      /\ CreateFlattenedVector(streamSizes, c) \in Seq(Nat)
  BY <1>1, FlattenedType DEF TypeInv, TypeOK
<1>3. StripeGroupRawSize(streamOffsets) \in Nat
  BY <1>1 DEF StripeGroupRawSize
<1>4. StripeGroupPayload(streamOffsets, streamSizes) \in Payload
  BY <1>1, <1>2 DEF StripeGroupPayload, Payload
<1>. QED  BY <1>3, <1>4

(* The footer's payload and its size before compression.                   *)
LEMMA FooterType ==
    ASSUME TypeInv
    PROVE  FooterRawSize \in Nat /\ FooterPayload \in Payload
<1>1. Cardinality({n \in SectionNames : optionalSections[n] # <<>>}) \in Nat
  BY ConstantsAssumption, FS_Subset, FS_CardinalityType
<1>2. FooterRawSize \in Nat
  <2>1. stripeGroups \in Seq(MetadataSection) /\ stripes \in Seq(MetadataSection)
    BY DEF TypeInv, TypeOK
  <2>2. Len(stripeGroups) \in Nat /\ Len(stripes) \in Nat
    BY <2>1
  <2> QED  BY <1>1, <2>2 DEF FooterRawSize
<1>3. SumOf(rowCounts) \in Nat
  BY SumOfNat DEF TypeInv, TypeOK
<1>4. FooterPayload \in Payload
  BY <1>3 DEF FooterPayload, Payload, TypeInv, TypeOK
<1>. QED  BY <1>2, <1>4

(* tryWriteStripeGroup, whether it flushes or not.                         *)
LEMMA TryWriteStripeGroupType ==
    ASSUME TypeInv, NEW force \in BOOLEAN, TryWriteStripeGroup(force)
    PROVE  /\ file' \in Seq(ExtentType)
           /\ fileSize' \in Nat
           /\ checksum' \in Nat
           /\ stripeGroups' \in Seq(MetadataSection)
           /\ stripeGroupIndex' \in Nat
           /\ streamOffsets' \in Seq(Seq(Nat))
           /\ streamSizes' \in Seq(Seq(Nat))
           /\ \A i \in 1..Len(streamOffsets') :
                Len(streamOffsets'[i]) <= MaxStreamOffset + 1
           /\ fileSize' >= fileSize
<1>1. CASE UNCHANGED <<fileVars, meta>>
  BY <1>1 DEF TypeInv, TypeOK, Shape, ExtentType, fileVars, meta
<1>2. CASE ~UNCHANGED <<fileVars, meta>>
  <2> DEFINE raw == StripeGroupRawSize(streamOffsets)
             payload == StripeGroupPayload(streamOffsets, streamSizes)
  <2>1. PICK enc \in Encodings(raw) :
          /\ CreateMetadataSection(payload, enc)
          /\ stripeGroups' = Append(stripeGroups, Section(enc))
          /\ stripeGroupIndex' = stripeGroupIndex + 1
          /\ streamOffsets' = <<>>
          /\ streamSizes' = <<>>
    BY <1>2 DEF TryWriteStripeGroup
  <2>2. streamOffsets # <<>>
    BY <1>2 DEF TryWriteStripeGroup
  <2>3. raw \in Nat /\ payload \in Payload
    BY <2>2, StripeGroupType
  <2>6. enc \in [size : Nat, codec : Codec]
    BY <2>1, <2>3, EncodingsType
  <2> HIDE DEF payload, raw
  <2>7. /\ file' \in Seq(ExtentType)
        /\ fileSize' \in Nat
        /\ checksum' \in Nat
        /\ fileSize' = fileSize + enc.size
    BY <2>1, <2>3, <2>6, AppendType DEF CreateMetadataSection, TypeInv
  <2>8. Section(enc) \in MetadataSection
    BY <2>6 DEF Section, MetadataSection, Codec, TypeInv, TypeOK
  <2>9. stripeGroups' \in Seq(MetadataSection) /\ stripeGroupIndex' \in Nat
    <3>1. stripeGroups \in Seq(MetadataSection) /\ stripeGroupIndex \in Nat
      BY DEF TypeInv, TypeOK
    <3> HIDE DEF MetadataSection
    <3> QED  BY <2>1, <2>8, <3>1
  <2>10. /\ streamOffsets' \in Seq(Seq(Nat))
         /\ streamSizes' \in Seq(Seq(Nat))
         /\ \A i \in 1..Len(streamOffsets') :
              Len(streamOffsets'[i]) <= MaxStreamOffset + 1
    BY <2>1
  <2>11. fileSize' >= fileSize
    <3>1. fileSize \in Nat
      BY DEF TypeInv, TypeOK
    <3>2. enc.size \in Nat
      BY <2>6
    <3> QED  BY <2>7, <3>1, <3>2
  <2> QED  BY <2>7, <2>9, <2>10, <2>11
<1>. QED  BY <1>1, <1>2

(* Every step of the writer preserves the types.                           *)
LEMMA TypeInvStep == TypeInv /\ [Next]_vars => TypeInv'
<1> SUFFICES ASSUME TypeInv, [Next]_vars PROVE TypeInv'
  OBVIOUS
<1>0. file \in Seq(ExtentType)
  BY DEF TypeInv, TypeOK, ExtentType
<1>1. ASSUME NEW rowCount \in RowCounts, NEW streams \in StreamLists,
             WriteStripe(rowCount, streams)
      PROVE  TypeInv'
  <2> DEFINE zeroes == [i \in 1..StreamCount(streams) |-> 0]
  <2>1. /\ streams \in Seq(Stream)
        /\ StreamCount(streams) \in 0..(MaxStreamOffset + 1)
    BY StreamListsType
  <2>2. zeroes \in Seq(Nat) /\ Len(zeroes) <= MaxStreamOffset + 1
    BY <2>1, FcnIsSeq, ConstantsAssumption
  <2>3. rowCount \in Nat
    BY ConstantsAssumption
  <2>4. {streams[i] : i \in DOMAIN streams} \in SUBSET Stream
    BY <2>1
  <2> HIDE DEF zeroes
  <2>5. /\ rowCounts' = Append(rowCounts, rowCount)
        /\ stripeOffsets' = Append(stripeOffsets, fileSize)
        /\ streamOffsets' = Append(streamOffsets, zeroes)
        /\ streamSizes' = Append(streamSizes, zeroes)
        /\ todo' = streams
        /\ written' = Append(written, {streams[i] : i \in DOMAIN streams})
        /\ pc' = "stripe"
        /\ UNCHANGED <<fileVars, stripeSizes, stripeGroupIndices,
                       stripeGroupIndex, stripeGroups, optionalSections,
                       stripes>>
    BY <1>1 DEF WriteStripe, zeroes
  <2>6. TypeOK'
    BY <2>1, <2>2, <2>3, <2>4, <2>5 DEF TypeInv, TypeOK, fileVars
  <2>7. Shape'
    <3>1. /\ streamOffsets \in Seq(Seq(Nat))
          /\ streamSizes \in Seq(Seq(Nat))
          /\ stripeOffsets \in Seq(Nat)
          /\ fileSize \in Nat
      BY DEF TypeInv, TypeOK
    <3>2. /\ Len(streamOffsets') = Len(streamOffsets) + 1
          /\ streamOffsets'[Len(streamOffsets) + 1] = zeroes
          /\ \A i \in 1..Len(streamOffsets) :
               streamOffsets'[i] = streamOffsets[i]
      BY <2>2, <2>5, <3>1, AppendIsSeq
    <3>3. Len(streamSizes') = Len(streamSizes) + 1
      BY <2>2, <2>5, <3>1, AppendIsSeq
    <3>4. /\ Len(stripeOffsets') = Len(stripeOffsets) + 1
          /\ stripeOffsets'[Len(stripeOffsets')] = fileSize
      BY <2>5, <3>1, AppendIsSeq
    <3>5. fileSize' = fileSize
      BY <2>5 DEF fileVars
    <3>6. /\ Len(streamOffsets) \in Nat
          /\ Len(streamSizes) \in Nat
          /\ Len(stripeOffsets) \in Nat
      BY <3>1
    <3>7. ASSUME NEW i \in 1..Len(streamOffsets')
          PROVE  Len(streamOffsets'[i]) <= MaxStreamOffset + 1
      <4>1. CASE i = Len(streamOffsets) + 1
        BY <4>1, <3>2, <2>2
      <4>2. CASE i \in 1..Len(streamOffsets)
        BY <4>2, <3>2 DEF TypeInv, Shape
      <4> QED  BY <4>1, <4>2, <3>2, <3>6
    <3> QED  BY <3>1, <3>2, <3>3, <3>4, <3>5, <3>6, <3>7 DEF Shape
  <2> QED  BY <2>6, <2>7 DEF TypeInv
<1>2. ASSUME WriteStream
      PROVE  TypeInv'
  <2> DEFINE stream == Head(todo)
             this == Len(streamOffsets)
             start == stripeOffsets[Len(stripeOffsets)]
             payload == [kind |-> "Stream", stripe |-> Len(stripeOffsets),
                         id |-> stream.offset]
             offsets == [streamOffsets[this] EXCEPT
                           ![stream.offset + 1] = fileSize - start]
  <2>1. stream \in Stream /\ Tail(todo) \in Seq(Stream)
    <3>1. todo \in Seq(Stream) /\ todo # <<>>
      BY <1>2 DEF WriteStream, TypeInv, TypeOK
    <3> QED  BY ONLY <3>1
  <2>2. stream.offset \in StreamIds /\ stream.size \in Nat
    BY <2>1, ConstantsAssumption DEF Stream
  <2>3. payload \in Payload
    BY <2>2 DEF Payload, TypeInv, TypeOK
  <2>4. /\ streamOffsets \in Seq(Seq(Nat))
        /\ streamSizes \in Seq(Seq(Nat))
        /\ stripeOffsets \in Seq(Nat)
        /\ fileSize \in Nat
        /\ Len(streamOffsets) > 0
        /\ Len(streamSizes) > 0
        /\ Len(stripeOffsets) > 0
        /\ start <= fileSize
    BY <1>2 DEF WriteStream, TypeInv, TypeOK, Shape
  <2>5. fileSize - start \in Nat
    <3>1. start \in Nat
      BY <2>4, LastOfSeq
    <3> HIDE DEF start
    <3> QED  BY ONLY <2>4, <3>1
  <2>6. this \in 1..Len(streamOffsets) /\ streamOffsets[this] \in Seq(Nat)
    BY <2>4, LastOfSeq
  <2>7. offsets \in Seq(Nat) /\ Len(offsets) = Len(streamOffsets[this])
    <3> DEFINE q == streamOffsets[this]
               e == fileSize - start
               j == stream.offset + 1
    <3>1. q \in Seq(Nat) /\ e \in Nat
      BY <2>5, <2>6
    <3> HIDE DEF q, e, j
    <3>2. [q EXCEPT ![j] = e] \in Seq(Nat)
      BY <3>1, ExceptIsSeq
    <3>3. Len([q EXCEPT ![j] = e]) = Len(q)
      BY <3>1, ExceptIsSeq
    <3> QED  BY <3>2, <3>3 DEF q, e, j
  <2> HIDE DEF start
  <2>8. streamSizes' \in Seq(Seq(Nat)) /\ Len(streamSizes') = Len(streamSizes)
    <3> DEFINE sizes == [streamSizes[this] EXCEPT
                           ![stream.offset + 1] = stream.size]
    <3>1. streamSizes' = [streamSizes EXCEPT ![this] = sizes]
      BY <1>2 DEF WriteStream
    <3>2. CASE this \in 1..Len(streamSizes)
      <4>1. streamSizes[this] \in Seq(Nat)
        BY <2>4, <3>2
      <4>2. sizes \in Seq(Nat)
        <5> DEFINE q == streamSizes[this]
        <5>1. q \in Seq(Nat)
          BY <4>1
        <5> HIDE DEF q
        <5>2. [q EXCEPT ![stream.offset + 1] = stream.size] \in Seq(Nat)
          BY <2>2, <5>1, ExceptIsSeq, ZenonT(30)
        <5> QED  BY <5>2 DEF q
      <4> HIDE DEF sizes, this
      <4>3. [streamSizes EXCEPT ![this] = sizes] \in Seq(Seq(Nat))
        BY <2>4, <4>2, ExceptIsSeq
      <4>4. Len([streamSizes EXCEPT ![this] = sizes]) = Len(streamSizes)
        BY <2>4, <4>2, ExceptIsSeq
      <4> QED  BY <3>1, <4>3, <4>4
    <3>3. CASE this \notin 1..Len(streamSizes)
      <4>1. streamSizes' = streamSizes
        BY <2>4, <3>1, <3>3
      <4> QED  BY <2>4, <4>1
    <3> QED  BY <3>2, <3>3
  <2>9. /\ WriteWithChecksum(payload, stream.size, "Uncompressed")
        /\ streamOffsets' = [streamOffsets EXCEPT ![this] = offsets]
        /\ todo' = Tail(todo)
        /\ UNCHANGED <<stripeVars, stripeGroupIndex, stripeGroups,
                       optionalSections, stripes, pc, written>>
    BY <1>2 DEF WriteStream, start
  <2> HIDE DEF payload, offsets
  <2>10. /\ file' \in Seq(ExtentType)
         /\ fileSize' \in Nat
         /\ checksum' \in Nat
         /\ fileSize' = fileSize + stream.size
    BY <2>2, <2>3, <2>9, AppendType DEF TypeInv, Codec
  <2>11. /\ streamOffsets' \in Seq(Seq(Nat))
         /\ Len(streamOffsets') = Len(streamOffsets)
         /\ \A i \in 1..Len(streamOffsets) : streamOffsets'[i] =
              IF i = this THEN offsets ELSE streamOffsets[i]
    BY <2>4, <2>7, <2>9, ExceptIsSeq
  <2>12. TypeOK'
    BY <2>1, <2>8, <2>9, <2>10, <2>11
       DEF TypeInv, TypeOK, stripeVars, ExtentType
  <2>13. Shape'
    <3>1. ASSUME NEW i \in 1..Len(streamOffsets')
          PROVE  Len(streamOffsets'[i]) <= MaxStreamOffset + 1
      <4>1. /\ i \in 1..Len(streamOffsets)
            /\ Len(streamOffsets[i]) <= MaxStreamOffset + 1
        BY <2>11 DEF TypeInv, Shape
      <4>2. CASE i = this
        BY <2>7, <2>11, <4>1, <4>2
      <4>3. CASE i # this
        BY <2>11, <4>1, <4>3
      <4> QED  BY <4>2, <4>3
    <3>2. /\ Len(stripeOffsets') > 0
          /\ Len(streamOffsets') > 0
          /\ Len(streamSizes') > 0
      BY <2>4, <2>8, <2>9, <2>11 DEF stripeVars
    <3>3. stripeOffsets'[Len(stripeOffsets')] <= fileSize'
      <4>1. stripeOffsets'[Len(stripeOffsets')] = start /\ start \in Nat
        BY <2>4, <2>9, LastOfSeq DEF stripeVars, start
      <4>2. start <= fileSize + stream.size
        <5> DEFINE size == stream.size
        <5>1. size \in Nat
          BY <2>2
        <5> HIDE DEF size
        <5>2. start <= fileSize + size
          BY <2>4, <4>1, <5>1
        <5> QED  BY <5>2 DEF size
      <4> QED  BY <2>10, <4>1, <4>2
    <3> QED  BY <3>1, <3>2, <3>3 DEF Shape
  <2> QED  BY <2>12, <2>13 DEF TypeInv
<1>3. ASSUME FinishStripe
      PROVE  TypeInv'
  <2>1. /\ stripeSizes' =
             Append(stripeSizes, fileSize - stripeOffsets[Len(stripeOffsets)])
        /\ stripeGroupIndices' = Append(stripeGroupIndices, stripeGroupIndex)
        /\ TryWriteStripeGroup(FALSE)
        /\ pc = "stripe"
        /\ pc' = "idle"
        /\ UNCHANGED <<rowCounts, stripeOffsets, optionalSections, stripes,
                       todo, written>>
    BY <1>3 DEF FinishStripe
  <2>2. fileSize - stripeOffsets[Len(stripeOffsets)] \in Nat
    <3>1. /\ stripeOffsets \in Seq(Nat)
          /\ Len(stripeOffsets) > 0
          /\ fileSize \in Nat
          /\ stripeOffsets[Len(stripeOffsets)] <= fileSize
      BY <2>1 DEF TypeInv, TypeOK, Shape
    <3>2. stripeOffsets[Len(stripeOffsets)] \in Nat
      BY <3>1, LastOfSeq
    <3> QED  BY <3>1, <3>2
  <2>3. /\ stripeSizes' \in Seq(Nat)
        /\ stripeGroupIndices' \in Seq(Nat)
    BY <2>1, <2>2, AppendIsSeq DEF TypeInv, TypeOK
  <2> QED  BY <2>1, <2>3, TryWriteStripeGroupType
           DEF TypeInv, TypeOK, Shape, ExtentType
<1>4. ASSUME NEW name \in SectionNames, NEW size \in SectionSizes,
             WriteOptionalSection(name, size)
      PROVE  TypeInv'
  <2> DEFINE payload == [kind |-> "Optional", name |-> name]
  <2>1. PICK enc \in Encodings(size) :
          /\ CreateMetadataSection(payload, enc)
          /\ optionalSections' =
               [optionalSections EXCEPT ![name] = <<Section(enc)>>]
    BY <1>4 DEF WriteOptionalSection
  <2>2. enc \in [size : Nat, codec : Codec]
    BY EncodingsType, ConstantsAssumption
  <2>3. payload \in Payload
    BY DEF Payload
  <2>4. Section(enc) \in MetadataSection
    BY <2>2 DEF Section, MetadataSection, Codec, TypeInv, TypeOK
  <2> HIDE DEF payload
  <2>5. /\ file' \in Seq(ExtentType)
        /\ fileSize' \in Nat
        /\ checksum' \in Nat
        /\ fileSize' = fileSize + enc.size
    BY <2>1, <2>2, <2>3, AppendType DEF CreateMetadataSection, TypeInv
  <2>6. optionalSections' \in SectionMaps
    BY <2>1, <2>4 DEF SectionMaps, TypeInv, TypeOK
  <2>7. /\ pc = "idle"
        /\ UNCHANGED <<meta, stripeVars, stripes, pc, todo, written>>
    BY <1>4 DEF WriteOptionalSection
  <2> QED  BY <2>5, <2>6, <2>7
           DEF TypeInv, TypeOK, Shape, ExtentType, meta, stripeVars
<1>5. ASSUME CloseGroup
      PROVE  TypeInv'
  <2>1. /\ TryWriteStripeGroup(TRUE)
        /\ pc' = "closeStripes"
        /\ UNCHANGED <<stripeVars, optionalSections, stripes, todo, written>>
    BY <1>5 DEF CloseGroup
  <2> QED  BY <2>1, TryWriteStripeGroupType
           DEF TypeInv, TypeOK, Shape, ExtentType, stripeVars
<1>6. ASSUME CloseStripes
      PROVE  TypeInv'
  <2>1. /\ pc' = "closeFooter"
        /\ UNCHANGED <<meta, stripeVars, optionalSections, todo, written>>
    BY <1>6 DEF CloseStripes
  <2>2. CASE UNCHANGED <<fileVars, stripes>>
    BY <2>1, <2>2 DEF TypeInv, TypeOK, Shape, meta, stripeVars, fileVars
  <2>3. CASE ~UNCHANGED <<fileVars, stripes>>
    <3>1. PICK enc \in Encodings(16 + 20 * Len(stripeOffsets)) :
            /\ CreateMetadataSection(StripesPayload, enc)
            /\ stripes' = <<Section(enc)>>
      BY <1>6, <2>3 DEF CloseStripes
    <3>2. 16 + 20 * Len(stripeOffsets) \in Nat
      BY DEF TypeInv, TypeOK
    <3>3. enc \in [size : Nat, codec : Codec]
      BY <3>2, EncodingsType
    <3>4. StripesPayload \in Payload
      BY DEF StripesPayload, Payload, TypeInv, TypeOK
    <3>5. Section(enc) \in MetadataSection
      BY <3>3 DEF Section, MetadataSection, Codec, TypeInv, TypeOK
    <3>6. /\ file' \in Seq(ExtentType)
          /\ fileSize' \in Nat
          /\ checksum' \in Nat
      BY <3>1, <3>3, <3>4, AppendType DEF CreateMetadataSection, TypeInv
    <3> QED  BY <2>1, <3>1, <3>5, <3>6
             DEF TypeInv, TypeOK, Shape, ExtentType, meta, stripeVars
  <2> QED  BY <2>2, <2>3
<1>7. ASSUME CloseFooter
      PROVE  TypeInv'
  <2> DEFINE Ps(enc) ==
               [kind |-> "Postscript", footerSize |-> enc.size,
                footerCompressionType |-> enc.codec,
                checksum |-> checksum + enc.size + kPostscriptChecksumedSize]
             Tailer(enc) ==
               [offset |-> fileSize + enc.size, size |-> kPostscriptSize,
                payload |-> Ps(enc), codec |-> "Uncompressed"]
             footer(enc) == Extent(FooterPayload, enc.size, enc.codec)
  <2>1. PICK enc \in Encodings(FooterRawSize) :
          /\ file' = file \o footer(enc) \o <<Tailer(enc)>>
          /\ fileSize' = fileSize + enc.size + kPostscriptSize
          /\ checksum' = checksum + enc.size + kPostscriptChecksumedSize
    BY <1>7 DEF CloseFooter
  <2>2. FooterRawSize \in Nat /\ FooterPayload \in Payload
    BY FooterType
  <2>3. enc \in [size : Nat, codec : Codec]
    BY <2>1, <2>2, EncodingsType
  <2>5. Ps(enc) \in Payload
    BY <2>3, SMTT(30) DEF Payload, TypeInv, TypeOK, kPostscriptChecksumedSize
  <2>6. footer(enc) \in Seq(ExtentType)
    <3>1. [offset |-> fileSize, size |-> enc.size, payload |-> FooterPayload,
           codec |-> enc.codec] \in ExtentType
      BY <2>2, <2>3 DEF ExtentType, TypeInv, TypeOK
    <3> HIDE DEF ExtentType
    <3> QED  BY <3>1 DEF Extent
  <2>7. Tailer(enc) \in ExtentType
    BY <2>3, <2>5, SMTT(30) DEF ExtentType, TypeInv, TypeOK, Codec, kPostscriptSize
  <2> HIDE DEF footer, Tailer
  <2>8. /\ file' \in Seq(ExtentType)
        /\ fileSize' \in Nat
        /\ checksum' \in Nat
    <3> HIDE DEF ExtentType
    <3>1. file \o footer(enc) \in Seq(ExtentType)
      BY <1>0, <2>6, ConcatProperties
    <3>2. <<Tailer(enc)>> \in Seq(ExtentType)
      BY <2>7
    <3>3. file' \in Seq(ExtentType)
      BY <2>1, <3>1, <3>2, ConcatProperties
    <3>4. enc.size \in Nat /\ fileSize \in Nat /\ checksum \in Nat
      BY <2>3 DEF TypeInv, TypeOK
    <3>5. /\ fileSize + enc.size + kPostscriptSize \in Nat
          /\ checksum + enc.size + kPostscriptChecksumedSize \in Nat
      BY <3>4 DEF kPostscriptSize, kPostscriptChecksumedSize
    <3> QED  BY <2>1, <3>3, <3>5
  <2>9. /\ pc' = "closed"
        /\ UNCHANGED <<meta, stripeVars, optionalSections, stripes, todo,
                       written>>
    BY <1>7 DEF CloseFooter
  <2> QED  BY <2>8, <2>9
           DEF TypeInv, TypeOK, Shape, ExtentType, meta, stripeVars
<1>8. CASE UNCHANGED vars
  BY <1>8 DEF vars, fileVars, meta, stripeVars, TypeInv, TypeOK, Shape
<1>. QED
  BY <1>1, <1>2, <1>3, <1>4, <1>5, <1>6, <1>7, <1>8 DEF Next

(* TabletWriter's state is well-typed in every reachable state.            *)
THEOREM TypeCorrect == Spec => []TypeOK
<1>1. Init => TypeInv
  BY ConstantsAssumption
     DEF Init, TypeInv, TypeOK, Shape, SectionMaps
<1>2. TypeInv => TypeOK
  BY DEF TypeInv
<1>. QED  BY <1>1, <1>2, TypeInvStep, PTL DEF Spec

-----------------------------------------------------------------------------
(* Stripe groups                                                           *)

(* writeStripe records the open group's index for its stripe.              *)
LEMMA GroupedAppend ==
    ASSUME NEW idx \in Seq(Nat), NEW p \in Nat, NEW g \in Nat,
           Grouped(idx, p, g)
    PROVE  Grouped(Append(idx, g), p + 1, g)
<1> DEFINE next == Append(idx, g)
           n == Len(idx)
<1>1. /\ n \in Nat
      /\ Len(next) = n + 1
      /\ next[n + 1] = g
      /\ \A i \in 1..n : next[i] = idx[i] /\ idx[i] \in Nat
  BY AppendIsSeq
<1>2. /\ p \in 0..n
      /\ \A i \in 1..n : IF i > n - p THEN idx[i] = g ELSE idx[i] < g
      /\ \A i, j \in 1..n : i <= j => idx[i] <= idx[j]
      /\ \A k \in 0..(g - 1) : \E i \in 1..n : idx[i] = k
  BY DEF Grouped
<1> HIDE DEF next, n
<1>3. \A i \in 1..n : next[i] <= g
  BY <1>1, <1>2
<1>4. ASSUME NEW i \in 1..(n + 1)
      PROVE  IF i > (n + 1) - (p + 1) THEN next[i] = g ELSE next[i] < g
  <2>1. CASE i = n + 1
    BY <1>1, <1>2, <2>1
  <2>2. CASE i \in 1..n
    BY <1>1, <1>2, <2>2
  <2> QED  BY <1>1, <2>1, <2>2
<1>5. ASSUME NEW i \in 1..(n + 1), NEW j \in 1..(n + 1), i <= j
      PROVE  next[i] <= next[j]
  <2>1. CASE j = n + 1
    BY <1>1, <1>3, <2>1
  <2>2. CASE j \in 1..n
    BY <1>1, <1>2, <1>5, <2>2
  <2> QED  BY <1>1, <2>1, <2>2
<1>6. ASSUME NEW k \in 0..(g - 1)
      PROVE  \E i \in 1..(n + 1) : next[i] = k
  <2>1. PICK i \in 1..n : idx[i] = k
    BY <1>2
  <2>2. i \in 1..(n + 1) /\ next[i] = k
    BY <1>1, <2>1
  <2> QED  BY <2>2
<1>7. p + 1 \in 0..(n + 1)
  BY <1>1, <1>2
<1>. QED  BY <1>1, <1>4, <1>5, <1>6, <1>7 DEF Grouped, next

(* Flushing a group that has stripes closes it.                            *)
LEMMA GroupedFlush ==
    ASSUME NEW idx \in Seq(Nat), NEW p \in Nat, NEW g \in Nat,
           Grouped(idx, p, g), p > 0
    PROVE  Grouped(idx, 0, g + 1)
<1> DEFINE n == Len(idx)
<1>1. n \in Nat /\ \A i \in 1..n : idx[i] \in Nat
  OBVIOUS
<1>2. /\ p \in 0..n
      /\ \A i \in 1..n : IF i > n - p THEN idx[i] = g ELSE idx[i] < g
      /\ \A i, j \in 1..n : i <= j => idx[i] <= idx[j]
      /\ \A k \in 0..(g - 1) : \E i \in 1..n : idx[i] = k
  BY DEF Grouped
<1> HIDE DEF n
<1>3. \A i \in 1..n : ~(i > n - 0) /\ idx[i] < g + 1
  BY <1>1, <1>2
<1>4. n \in 1..n /\ idx[n] = g
  BY <1>1, <1>2
<1>5. ASSUME NEW k \in 0..((g + 1) - 1)
      PROVE  \E i \in 1..n : idx[i] = k
  BY <1>2, <1>4
<1>6. 0 \in 0..n
  BY <1>1
<1>. QED  BY <1>2, <1>3, <1>5, <1>6 DEF Grouped, n

(* The vectors of the stripes section have one entry per stripe whose      *)
(* writeStripe has returned, and close leaves no group open.               *)
Counts ==
    /\ Len(stripeOffsets) = Len(rowCounts)
    /\ Len(stripeSizes) = Len(stripeGroupIndices)
    /\ Len(rowCounts) = Len(stripeSizes) + (IF pc = "stripe" THEN 1 ELSE 0)
    /\ pc \in {"closeStripes", "closeFooter", "closed"} => streamOffsets = <<>>

GroupInv == GroupsMatchStripes /\ Counts

(* tryWriteStripeGroup closes the open group or leaves it as it is, given  *)
(* the group indices of all stripes written so far.                        *)
LEMMA TryWriteStripeGroupGroups ==
    ASSUME TypeInv, NEW force \in BOOLEAN, TryWriteStripeGroup(force),
           Len(stripeGroups) = stripeGroupIndex,
           Len(streamOffsets) = Len(streamSizes),
           NEW idx \in Seq(Nat),
           Grouped(idx, Len(streamOffsets), stripeGroupIndex)
    PROVE  /\ Len(stripeGroups') = stripeGroupIndex'
           /\ Len(streamOffsets') = Len(streamSizes')
           /\ Grouped(idx, Len(streamOffsets'), stripeGroupIndex')
           /\ force => streamOffsets' = <<>>
<1>1. CASE UNCHANGED <<fileVars, meta>>
  <2>1. force => streamOffsets = <<>>
    <3> SUFFICES ASSUME force, streamOffsets # <<>> PROVE FALSE
      OBVIOUS
    <3>1. stripeGroupIndex' = stripeGroupIndex + 1
      BY DEF TryWriteStripeGroup
    <3> QED  BY <1>1, <3>1 DEF meta, TypeInv, TypeOK
  <2> QED  BY <1>1, <2>1 DEF meta
<1>2. CASE ~UNCHANGED <<fileVars, meta>>
  <2>1. /\ streamOffsets # <<>>
        /\ stripeGroupIndex' = stripeGroupIndex + 1
        /\ streamOffsets' = <<>>
        /\ streamSizes' = <<>>
        /\ \E sec : stripeGroups' = Append(stripeGroups, sec)
    BY <1>2 DEF TryWriteStripeGroup
  <2>2. Len(stripeGroups') = Len(stripeGroups) + 1
    <3>1. PICK sec : stripeGroups' = Append(stripeGroups, sec)
      BY <2>1
    <3>2. stripeGroups \in Seq(MetadataSection)
      BY DEF TypeInv, TypeOK
    <3> HIDE DEF MetadataSection
    <3> QED  BY <3>1, <3>2
  <2>3. Len(streamOffsets) \in Nat /\ Len(streamOffsets) > 0
    BY <2>1 DEF TypeInv, TypeOK
  <2>4. Grouped(idx, 0, stripeGroupIndex + 1)
    BY <2>3, GroupedFlush DEF TypeInv, TypeOK
  <2>5. Len(streamOffsets') = 0 /\ Len(streamSizes') = 0
    BY <2>1
  <2> QED  BY <2>1, <2>2, <2>4, <2>5
<1>. QED  BY <1>1, <1>2

(* Every step keeps stripes and groups matched.                            *)
LEMMA GroupInvStep == TypeInv /\ GroupInv /\ [Next]_vars => GroupInv'
<1> SUFFICES ASSUME TypeInv, GroupInv, [Next]_vars PROVE GroupInv'
  OBVIOUS
<1>0. /\ stripeGroupIndices \in Seq(Nat)
      /\ stripeSizes \in Seq(Nat)
      /\ rowCounts \in Seq(Nat)
      /\ stripeOffsets \in Seq(Nat)
      /\ streamOffsets \in Seq(Seq(Nat))
      /\ streamSizes \in Seq(Seq(Nat))
      /\ stripeGroupIndex \in Nat
      /\ fileSize \in Nat
  BY DEF TypeInv, TypeOK
<1>1. ASSUME NEW rowCount \in RowCounts, NEW streams \in StreamLists,
             WriteStripe(rowCount, streams)
      PROVE  GroupInv'
  <2> DEFINE zeroes == [i \in 1..StreamCount(streams) |-> 0]
  <2>1. zeroes \in Seq(Nat) /\ rowCount \in Nat
    BY StreamListsType, FcnIsSeq, ConstantsAssumption
  <2>2. /\ rowCounts' = Append(rowCounts, rowCount)
        /\ stripeOffsets' = Append(stripeOffsets, fileSize)
        /\ streamOffsets' = Append(streamOffsets, zeroes)
        /\ streamSizes' = Append(streamSizes, zeroes)
        /\ pc = "idle" /\ pc' = "stripe"
        /\ UNCHANGED <<stripeSizes, stripeGroupIndices, stripeGroupIndex,
                       stripeGroups>>
    BY <1>1 DEF WriteStripe
  <2> HIDE DEF zeroes
  <2>3. /\ Len(rowCounts') = Len(rowCounts) + 1
        /\ Len(stripeOffsets') = Len(stripeOffsets) + 1
        /\ Len(streamOffsets') = Len(streamOffsets) + 1
        /\ Len(streamSizes') = Len(streamSizes) + 1
        /\ Len(streamOffsets) \in Nat
    BY <1>0, <2>1, <2>2, AppendIsSeq
  <2>4. Pending' = Pending
    BY <2>2, <2>3 DEF Pending
  <2> QED  BY <1>0, <2>2, <2>3, <2>4 DEF GroupInv, GroupsMatchStripes, Counts
<1>2. ASSUME WriteStream
      PROVE  GroupInv'
  <2>1. /\ UNCHANGED <<stripeVars, stripeGroupIndex, stripeGroups, pc>>
        /\ pc = "stripe"
        /\ \E j, e : streamOffsets' = [streamOffsets EXCEPT ![j] = e]
        /\ \E j, e : streamSizes' = [streamSizes EXCEPT ![j] = e]
    BY <1>2 DEF WriteStream
  <2>2. Len(streamOffsets') = Len(streamOffsets)
    BY <1>0, <2>1
  <2>3. Len(streamSizes') = Len(streamSizes)
    BY <1>0, <2>1
  <2>4. Pending' = Pending
    BY <2>1, <2>2 DEF Pending
  <2> QED  BY <2>1, <2>2, <2>3, <2>4
           DEF GroupInv, GroupsMatchStripes, Counts, stripeVars
<1>3. ASSUME FinishStripe
      PROVE  GroupInv'
  <2> DEFINE size == fileSize - stripeOffsets[Len(stripeOffsets)]
  <2>1. /\ pc = "stripe" /\ pc' = "idle"
        /\ stripeSizes' = Append(stripeSizes, size)
        /\ stripeGroupIndices' = Append(stripeGroupIndices, stripeGroupIndex)
        /\ TryWriteStripeGroup(FALSE)
        /\ UNCHANGED <<rowCounts, stripeOffsets>>
    BY <1>3 DEF FinishStripe
  <2> HIDE DEF size
  <2>2. /\ Len(stripeSizes') = Len(stripeSizes) + 1
        /\ Len(stripeGroupIndices') = Len(stripeGroupIndices) + 1
        /\ stripeGroupIndices' \in Seq(Nat)
    BY <1>0, <2>1
  <2>3. Len(streamOffsets) \in Nat /\ Pending = Len(streamOffsets) - 1
    BY <1>0, <2>1 DEF Pending
  <2>4. Pending \in Nat /\ Grouped(stripeGroupIndices, Pending, stripeGroupIndex)
    BY DEF GroupInv, GroupsMatchStripes, Grouped
  <2>5. Grouped(stripeGroupIndices', Len(streamOffsets), stripeGroupIndex)
    <3>1. Grouped(stripeGroupIndices', Pending + 1, stripeGroupIndex)
      BY <1>0, <2>1, <2>4, GroupedAppend
    <3>2. Pending + 1 = Len(streamOffsets)
      BY <2>3
    <3> QED  BY <3>1, <3>2
  <2>6. /\ Len(stripeGroups') = stripeGroupIndex'
        /\ Len(streamOffsets') = Len(streamSizes')
        /\ Grouped(stripeGroupIndices', Len(streamOffsets'), stripeGroupIndex')
    BY <2>1, <2>2, <2>5, TryWriteStripeGroupGroups
       DEF GroupInv, GroupsMatchStripes
  <2>7. Pending' = Len(streamOffsets')
    <3>1. streamOffsets' \in Seq(Seq(Nat))
      BY <2>1, TryWriteStripeGroupType
    <3> QED  BY <2>1, <3>1 DEF Pending
  <2>8. Counts'
    BY <1>0, <2>1, <2>2 DEF Counts, GroupInv
  <2> QED  BY <2>6, <2>7, <2>8 DEF GroupInv, GroupsMatchStripes
<1>4. ASSUME NEW name \in SectionNames, NEW size \in SectionSizes,
             WriteOptionalSection(name, size)
      PROVE  GroupInv'
  BY <1>4 DEF WriteOptionalSection, GroupInv, GroupsMatchStripes, Counts,
              Pending, meta, stripeVars
<1>5. ASSUME CloseGroup
      PROVE  GroupInv'
  <2>1. /\ pc = "idle" /\ pc' = "closeStripes"
        /\ TryWriteStripeGroup(TRUE)
        /\ UNCHANGED stripeVars
    BY <1>5 DEF CloseGroup
  <2>2. Pending = Len(streamOffsets)
    BY <1>0, <2>1 DEF Pending
  <2>3. /\ Len(stripeGroups') = stripeGroupIndex'
        /\ Len(streamOffsets') = Len(streamSizes')
        /\ Grouped(stripeGroupIndices, Len(streamOffsets'), stripeGroupIndex')
        /\ streamOffsets' = <<>>
    BY <1>0, <2>1, <2>2, TryWriteStripeGroupGroups
       DEF GroupInv, GroupsMatchStripes
  <2>4. Pending' = Len(streamOffsets')
    BY <2>1, <2>3 DEF Pending
  <2> QED  BY <2>1, <2>3, <2>4
           DEF GroupInv, GroupsMatchStripes, Counts, stripeVars
<1>6. ASSUME CloseStripes
      PROVE  GroupInv'
  BY <1>6 DEF CloseStripes, GroupInv, GroupsMatchStripes, Counts, Pending,
              meta, stripeVars
<1>7. ASSUME CloseFooter
      PROVE  GroupInv'
  BY <1>7 DEF CloseFooter, GroupInv, GroupsMatchStripes, Counts, Pending,
              meta, stripeVars
<1>8. CASE UNCHANGED vars
  BY <1>8 DEF vars, meta, stripeVars, GroupInv, GroupsMatchStripes, Counts,
              Pending
<1>. QED
  BY <1>1, <1>2, <1>3, <1>4, <1>5, <1>6, <1>7, <1>8 DEF Next

(* In every reachable state the group index recorded for a stripe is the   *)
(* position of the group that holds, or will hold, its streams.            *)
THEOREM GroupsCorrect == Spec => []GroupsMatchStripes
<1>1. Init => TypeInv
  BY ConstantsAssumption DEF Init, TypeInv, TypeOK, Shape, SectionMaps
<1>2. Init => GroupInv
  BY DEF Init, GroupInv, GroupsMatchStripes, Grouped, Counts, Pending
<1>3. GroupInv => GroupsMatchStripes
  BY DEF GroupInv
<1>. QED  BY <1>1, <1>2, <1>3, TypeInvStep, GroupInvStep, PTL DEF Spec

(* Once close has flushed the last group, every stripe's group index is    *)
(* that of a flushed group.                                                *)
LEMMA ClosedStripes ==
    ASSUME TypeInv, GroupInv, pc \in {"closeStripes", "closeFooter", "closed"}
    PROVE  /\ ClosedFileReadable
           /\ Len(stripeGroups) = stripeGroupIndex
           /\ \A i \in 1..Len(rowCounts) :
                stripeGroupIndices[i] \in 0..(stripeGroupIndex - 1)
<1> DEFINE n == Len(rowCounts)
<1>1. /\ n \in Nat
      /\ Len(stripeOffsets) = n
      /\ Len(stripeSizes) = n
      /\ Len(stripeGroupIndices) = n
      /\ streamOffsets = <<>>
  BY DEF GroupInv, Counts, TypeInv, TypeOK
<1>2. Pending = 0
  BY <1>1 DEF Pending
<1> HIDE DEF n
<1>3. /\ \A i \in 1..n : stripeGroupIndices[i] < stripeGroupIndex
      /\ \A i, j \in 1..n :
           i <= j => stripeGroupIndices[i] <= stripeGroupIndices[j]
      /\ \A g \in 0..(stripeGroupIndex - 1) :
           \E i \in 1..n : stripeGroupIndices[i] = g
      /\ Len(stripeGroups) = stripeGroupIndex
      /\ stripeGroupIndex \in Nat
      /\ \A i \in 1..n : stripeGroupIndices[i] \in Nat
  <2>1. /\ Grouped(stripeGroupIndices, 0, stripeGroupIndex)
        /\ Len(stripeGroups) = stripeGroupIndex
        /\ stripeGroupIndex \in Nat
        /\ stripeGroupIndices \in Seq(Nat)
    BY <1>2 DEF GroupInv, GroupsMatchStripes, TypeInv, TypeOK
  <2>2. \A i \in 1..n : ~(i > n - 0)
    BY <1>1
  <2>3. \A i \in 1..n : stripeGroupIndices[i] \in Nat
    BY <1>1, <2>1
  <2> QED  BY <1>1, <2>1, <2>2, <2>3 DEF Grouped
<1>4. ASSUME n > 0
      PROVE  Len(stripeGroups) = stripeGroupIndices[n] + 1
  <2>1. n \in 1..n /\ stripeGroupIndices[n] < stripeGroupIndex
    BY <1>1, <1>3, <1>4
  <2>2. PICK i \in 1..n : stripeGroupIndices[i] = stripeGroupIndex - 1
    <3>1. stripeGroupIndex - 1 \in 0..(stripeGroupIndex - 1)
      BY <1>3, <2>1
    <3> QED  BY <1>3, <3>1
  <2>3. stripeGroupIndices[i] <= stripeGroupIndices[n]
    BY <1>1, <1>3, <2>1
  <2> QED  BY <1>3, <2>1, <2>2, <2>3
<1>5. \A i \in 1..n : stripeGroupIndices[i] \in 0..(stripeGroupIndex - 1)
  BY <1>3
<1>. QED  BY <1>1, <1>3, <1>4, <1>5 DEF ClosedFileReadable, n

(* Whatever close has written satisfies the checks of the reader's         *)
(* constructor: one entry per stripe in every vector, and as many groups   *)
(* as the last stripe's index says.                                        *)
THEOREM ClosedFileCorrect == Spec => []ClosedFileReadable
<1>1. Init => TypeInv
  BY ConstantsAssumption DEF Init, TypeInv, TypeOK, Shape, SectionMaps
<1>2. Init => GroupInv
  BY DEF Init, GroupInv, GroupsMatchStripes, Grouped, Counts, Pending
<1>3. TypeInv /\ GroupInv => ClosedFileReadable
  <2> SUFFICES ASSUME TypeInv, GroupInv,
                      pc \in {"closeStripes", "closeFooter", "closed"}
               PROVE  ClosedFileReadable
    BY DEF ClosedFileReadable
  <2> QED  BY ClosedStripes
<1>. QED  BY <1>1, <1>2, <1>3, TypeInvStep, GroupInvStep, PTL DEF Spec

-----------------------------------------------------------------------------
(* The file's extents                                                      *)

(* The extents of f follow one another without gap up to `size`: what the  *)
(* proofs about the checksum and about reading back by offset rest on.     *)
Tiles(f, size) ==
    /\ f = <<>> => size = 0
    /\ f # <<>> => /\ f[1].offset = 0
                  /\ f[Len(f)].offset + f[Len(f)].size = size
    /\ \A k \in 1..(Len(f) - 1) :
         f[k + 1].offset = f[k].offset + f[k].size

FileTiled == Tiles(file, fileSize)

(* Appending an extent at the end of the file.                             *)
LEMMA TilesAppend ==
    ASSUME NEW f \in Seq(ExtentType), NEW size \in Nat, Tiles(f, size),
           NEW e \in ExtentType, e.offset = size
    PROVE  Tiles(Append(f, e), size + e.size)
<1> DEFINE g == Append(f, e)
           n == Len(f)
<1>0. e.size \in Nat /\ e.offset \in Nat
  BY DEF ExtentType
<1> HIDE DEF ExtentType
<1>2. /\ n \in Nat
      /\ Len(g) = n + 1
      /\ g[n + 1] = e
      /\ \A i \in 1..n : g[i] = f[i]
  BY AppendIsSeq
<1>3. g # <<>>
  BY <1>2
<1>4. f = <<>> <=> n = 0
  OBVIOUS
<1>5. /\ n = 0 => size = 0
      /\ n # 0 => /\ f[1].offset = 0
                  /\ f[n].offset + f[n].size = size
      /\ \A k \in 1..(n - 1) : f[k + 1].offset = f[k].offset + f[k].size
  BY <1>4 DEF Tiles
<1> HIDE DEF g, n
<1>6. g[1].offset = 0
  <2>1. CASE n = 0
    BY <1>2, <1>5, <2>1
  <2>2. CASE n # 0
    BY <1>2, <1>5, <2>2
  <2> QED  BY <2>1, <2>2
<1>7. ASSUME NEW k \in 1..n
      PROVE  g[k + 1].offset = g[k].offset + g[k].size
  <2>1. CASE k = n
    BY <1>2, <1>5, <2>1
  <2>2. CASE k \in 1..(n - 1)
    <3>1. k + 1 \in 1..n
      BY <1>2, <2>2
    <3> QED  BY <1>2, <1>5, <2>2, <3>1
  <2> QED  BY <1>2, <2>1, <2>2
<1>8. g[Len(g)].offset + g[Len(g)].size = size + e.size
  BY <1>0, <1>2
<1>9. Len(g) - 1 = n
  BY <1>2
<1>. QED  BY <1>3, <1>6, <1>7, <1>8, <1>9 DEF Tiles, g

(* One append of the writer, empty payloads included, leaves the extents   *)
(* tiling the file.                                                        *)
LEMMA ExtentTiles ==
    ASSUME TypeOK, FileTiled, NEW payload \in Payload, NEW size \in Nat,
           NEW codec \in Codec
    PROVE  /\ Tiles(file \o Extent(payload, size, codec), fileSize + size)
           /\ file \o Extent(payload, size, codec) \in Seq(ExtentType)
<1> DEFINE e == [offset |-> fileSize, size |-> size, payload |-> payload,
                 codec |-> codec]
<1>1. e \in ExtentType /\ file \in Seq(ExtentType) /\ fileSize \in Nat
  BY DEF ExtentType, TypeOK
<1>2. e.offset = fileSize /\ e.size = size
  OBVIOUS
<1> HIDE DEF ExtentType
<1>3. CASE size = 0
  <2>1. file \o Extent(payload, size, codec) = file
    BY <1>1, <1>3 DEF Extent
  <2>2. fileSize + size = fileSize
    BY <1>1, <1>3
  <2> QED  BY <1>1, <2>1, <2>2 DEF FileTiled
<1>4. CASE size # 0
  <2>1. Extent(payload, size, codec) = <<e>>
    BY <1>4 DEF Extent
  <2> HIDE DEF e
  <2>2. file \o <<e>> = Append(file, e)
    BY <1>1
  <2>3. Tiles(Append(file, e), fileSize + size)
    BY <1>1, <1>2, TilesAppend DEF FileTiled
  <2>4. Append(file, e) \in Seq(ExtentType)
    BY <1>1
  <2> QED  BY <2>1, <2>2, <2>3, <2>4
<1>. QED  BY <1>3, <1>4

(* An append goes where the file ends, and the checksum takes it in.       *)
LEMMA AppendTiles ==
    ASSUME TypeOK, FileTiled, NEW payload \in Payload, NEW size \in Nat,
           NEW codec \in Codec, WriteWithChecksum(payload, size, codec),
           checksum = fileSize
    PROVE  FileTiled' /\ checksum' = fileSize'
<1>1. /\ file' = file \o Extent(payload, size, codec)
      /\ fileSize' = fileSize + size
      /\ checksum' = checksum + size
  BY DEF WriteWithChecksum
<1>2. Tiles(file', fileSize')
  BY <1>1, ExtentTiles
<1>. QED  BY <1>1, <1>2 DEF FileTiled

(* The checksum covers what has been appended, until the postscript.       *)
Covered == FileTiled /\ ChecksumCoversFile

(* Every step keeps the extents tiled and the checksum over all of them.   *)
LEMMA CoveredStep == TypeInv /\ Covered /\ [Next]_vars => Covered'
<1> SUFFICES ASSUME TypeInv, Covered, [Next]_vars PROVE Covered'
  OBVIOUS
<1> DEFINE Appended == FileTiled' /\ checksum' = fileSize'
<1>0. /\ TypeOK
      /\ FileTiled
      /\ pc # "closed" => checksum = fileSize
  BY DEF TypeInv, Covered, ChecksumCoversFile
<1>a. ASSUME Appended, pc' # "closed"
      PROVE  Covered'
  BY <1>a DEF Covered, ChecksumCoversFile
<1>b. ASSUME UNCHANGED fileVars, pc # "closed", pc' # "closed"
      PROVE  Covered'
  BY <1>0, <1>b DEF Covered, ChecksumCoversFile, FileTiled, fileVars
<1>c. ASSUME NEW force \in BOOLEAN, TryWriteStripeGroup(force),
             pc # "closed", pc' # "closed"
      PROVE  Covered'
  <2>1. CASE UNCHANGED <<fileVars, meta>>
    BY <1>b, <1>c, <2>1
  <2>2. CASE ~UNCHANGED <<fileVars, meta>>
    <3> DEFINE payload == StripeGroupPayload(streamOffsets, streamSizes)
               raw == StripeGroupRawSize(streamOffsets)
    <3>1. /\ streamOffsets # <<>>
          /\ \E enc \in Encodings(raw) : CreateMetadataSection(payload, enc)
      BY <1>c, <2>2 DEF TryWriteStripeGroup
    <3>2. raw \in Nat /\ payload \in Payload
      BY <3>1, StripeGroupType
    <3> HIDE DEF payload, raw
    <3>3. PICK enc \in Encodings(raw) : CreateMetadataSection(payload, enc)
      BY <3>1
    <3>4. enc.size \in Nat /\ enc.codec \in Codec
      BY <3>2, <3>3, EncodingsType
    <3>5. Appended
      BY <1>0, <1>c, <3>2, <3>3, <3>4, AppendTiles DEF CreateMetadataSection
    <3> QED  BY <1>a, <1>c, <3>5
  <2> QED  BY <2>1, <2>2
<1>1. ASSUME NEW rowCount \in RowCounts, NEW streams \in StreamLists,
             WriteStripe(rowCount, streams)
      PROVE  Covered'
  BY <1>b, <1>1 DEF WriteStripe
<1>2. ASSUME WriteStream
      PROVE  Covered'
  <2> DEFINE stream == Head(todo)
             payload == [kind |-> "Stream", stripe |-> Len(stripeOffsets),
                         id |-> stream.offset]
  <2>1. /\ WriteWithChecksum(payload, stream.size, "Uncompressed")
        /\ pc = "stripe" /\ pc' = pc
        /\ todo # <<>>
    BY <1>2 DEF WriteStream
  <2>2. stream \in Stream
    BY <2>1 DEF TypeInv, TypeOK
  <2>3. stream.size \in Nat /\ stream.offset \in StreamIds
    BY <2>2, ConstantsAssumption DEF Stream
  <2>4. payload \in Payload
    BY <2>3 DEF Payload, TypeInv, TypeOK
  <2> HIDE DEF payload
  <2>5. Appended
    BY <1>0, <2>1, <2>3, <2>4, AppendTiles DEF Codec
  <2> QED  BY <1>a, <2>1, <2>5
<1>3. ASSUME FinishStripe
      PROVE  Covered'
  BY <1>c, <1>3 DEF FinishStripe
<1>4. ASSUME NEW name \in SectionNames, NEW size \in SectionSizes,
             WriteOptionalSection(name, size)
      PROVE  Covered'
  <2> DEFINE payload == [kind |-> "Optional", name |-> name]
  <2>1. PICK enc \in Encodings(size) : CreateMetadataSection(payload, enc)
    BY <1>4 DEF WriteOptionalSection
  <2>2. enc.size \in Nat /\ enc.codec \in Codec
    BY <2>1, EncodingsType, ConstantsAssumption
  <2>3. payload \in Payload
    BY DEF Payload
  <2> HIDE DEF payload
  <2>4. pc = "idle" /\ pc' = pc
    BY <1>4 DEF WriteOptionalSection
  <2>5. Appended
    BY <1>0, <2>1, <2>2, <2>3, <2>4, AppendTiles DEF CreateMetadataSection
  <2> QED  BY <1>a, <2>4, <2>5
<1>5. ASSUME CloseGroup
      PROVE  Covered'
  BY <1>c, <1>5 DEF CloseGroup
<1>6. ASSUME CloseStripes
      PROVE  Covered'
  <2>1. pc = "closeStripes" /\ pc' = "closeFooter"
    BY <1>6 DEF CloseStripes
  <2>2. CASE stripeOffsets = <<>>
    BY <1>6, <1>b, <2>1, <2>2 DEF CloseStripes
  <2>3. CASE stripeOffsets # <<>>
    <3> DEFINE raw == 16 + 20 * Len(stripeOffsets)
    <3>1. PICK enc \in Encodings(raw) :
            CreateMetadataSection(StripesPayload, enc)
      BY <1>6, <2>3 DEF CloseStripes
    <3>2. raw \in Nat
      BY DEF TypeInv, TypeOK
    <3> HIDE DEF raw
    <3>3. enc.size \in Nat /\ enc.codec \in Codec
      BY <3>1, <3>2, EncodingsType
    <3>4. StripesPayload \in Payload
      BY DEF StripesPayload, Payload, TypeInv, TypeOK
    <3>5. Appended
      BY <1>0, <2>1, <3>1, <3>3, <3>4, AppendTiles DEF CreateMetadataSection
    <3> QED  BY <1>a, <2>1, <3>5
  <2> QED  BY <2>2, <2>3
<1>7. ASSUME CloseFooter
      PROVE  Covered'
  <2> DEFINE Ps(enc) ==
               [kind |-> "Postscript", footerSize |-> enc.size,
                footerCompressionType |-> enc.codec,
                checksum |-> checksum + enc.size + kPostscriptChecksumedSize]
             Tailer(enc) ==
               [offset |-> fileSize + enc.size, size |-> kPostscriptSize,
                payload |-> Ps(enc), codec |-> "Uncompressed"]
             footer(enc) == Extent(FooterPayload, enc.size, enc.codec)
  <2>1. PICK enc \in Encodings(FooterRawSize) :
          /\ file' = (file \o footer(enc)) \o <<Tailer(enc)>>
          /\ fileSize' = fileSize + enc.size + kPostscriptSize
          /\ checksum' = checksum + enc.size + kPostscriptChecksumedSize
    BY <1>7 DEF CloseFooter
  <2>2. pc = "closeFooter" /\ pc' = "closed"
    BY <1>7 DEF CloseFooter
  <2>3. FooterRawSize \in Nat /\ FooterPayload \in Payload
    BY FooterType
  <2>4. enc \in [size : Nat, codec : Codec] /\ enc.size \in Nat
        /\ enc.codec \in Codec
    BY <2>1, <2>3, EncodingsType
  <2>5. /\ Tiles(file \o footer(enc), fileSize + enc.size)
        /\ file \o footer(enc) \in Seq(ExtentType)
    BY <1>0, <2>3, <2>4, ExtentTiles
  <2>6. Ps(enc) \in Payload
    BY <2>4, SMTT(30) DEF Payload, TypeInv, TypeOK, kPostscriptChecksumedSize
  <2>7. /\ Tailer(enc) \in ExtentType
        /\ Tailer(enc).offset = fileSize + enc.size
        /\ Tailer(enc).size = kPostscriptSize
        /\ Tailer(enc).payload.checksum =
             checksum + enc.size + kPostscriptChecksumedSize
        /\ fileSize + enc.size \in Nat
    BY <2>4, <2>6, SMTT(30) DEF ExtentType, TypeInv, TypeOK, Codec, kPostscriptSize
  <2> DEFINE f == file \o footer(enc)
             e == Tailer(enc)
  <2> HIDE DEF f, e, footer, Tailer, ExtentType
  <2>8. /\ f \in Seq(ExtentType) /\ e \in ExtentType
        /\ file' = f \o <<e>>
    BY <2>1, <2>5, <2>7 DEF f, e
  <2>9. file' = Append(f, e) /\ file'[Len(file')] = e
    BY <2>8, AppendIsSeq
  <2>10. FileTiled'
    <3>1. Tiles(Append(f, e), fileSize + enc.size + e.size)
      BY <2>5, <2>7, <2>8, TilesAppend DEF f, e
    <3> QED  BY <2>1, <2>7, <2>9, <3>1 DEF FileTiled, e
  <2>11. /\ checksum' = fileSize' - kPostscriptSize + kPostscriptChecksumedSize
         /\ e.payload.checksum = checksum'
    <3>1. enc.size \in Nat /\ fileSize \in Nat /\ checksum = fileSize
      BY <1>0, <2>2, <2>4 DEF TypeOK
    <3>2. fileSize' - kPostscriptSize = fileSize + enc.size
      BY <2>1, <3>1 DEF kPostscriptSize
    <3> QED  BY <2>1, <2>7, <3>1, <3>2 DEF e
  <2> QED  BY <2>2, <2>9, <2>10, <2>11 DEF Covered, ChecksumCoversFile
<1>8. CASE UNCHANGED vars
  BY <1>8 DEF vars, fileVars, Covered, FileTiled, ChecksumCoversFile
<1>. QED
  BY <1>1, <1>2, <1>3, <1>4, <1>5, <1>6, <1>7, <1>8 DEF Next

(* In every reachable state the checksum covers every byte the reader's    *)
(* calculateChecksum will read.                                            *)
THEOREM ChecksumCorrect == Spec => []ChecksumCoversFile
<1>1. Init => TypeInv
  BY ConstantsAssumption DEF Init, TypeInv, TypeOK, Shape, SectionMaps
<1>2. Init => Covered
  BY DEF Init, Covered, FileTiled, Tiles, ChecksumCoversFile
<1>3. Covered => ChecksumCoversFile
  BY DEF Covered
<1>. QED  BY <1>1, <1>2, <1>3, TypeInvStep, CoveredStep, PTL DEF Spec

-----------------------------------------------------------------------------
(* The bytes of a stripe                                                   *)

(* StripesHoldStreams with what makes it inductive: everything ends within *)
(* the file, a finished stripe ends before the running one starts, and of  *)
(* the extents only those of the running stripe (at = "stripe") come after *)
(* its start.                                                              *)
Enclosed(f, size, starts, sizes, at) ==
    /\ \A k \in DOMAIN f :
         /\ f[k].offset + f[k].size <= size
         /\ f[k].payload.kind = "Stream" =>
              f[k].payload.stripe \in 1..Len(starts)
    /\ \A s \in DOMAIN sizes :
         starts[s] + sizes[s] <= IF at = "stripe" THEN starts[Len(starts)]
                                 ELSE size
    /\ at = "stripe" =>
         /\ starts[Len(starts)] <= size
         /\ \A k \in DOMAIN f : IF OfStripe(f[k], Len(starts))
                                THEN starts[Len(starts)] <= f[k].offset
                                ELSE f[k].offset + f[k].size
                                       <= starts[Len(starts)]
    /\ \A s \in DOMAIN sizes, k \in DOMAIN f :
         IF OfStripe(f[k], s)
         THEN Within(f[k], starts[s], sizes[s])
         ELSE Apart(f[k], starts[s], sizes[s])

StripesEnclosed == Enclosed(file, fileSize, stripeOffsets, stripeSizes, pc)

(* One entry of stripeOffsets_ more than of stripeSizes_ while a stripe is *)
(* being written.                                                          *)
Paired(starts, sizes, at) ==
    Len(starts) = Len(sizes) + (IF at = "stripe" THEN 1 ELSE 0)

(* Numbers of an extent, and of a vector.                                  *)
LEMMA ExtentNumbers ==
    ASSUME NEW f \in Seq(ExtentType), NEW k \in DOMAIN f
    PROVE  f[k].offset \in Nat /\ f[k].size \in Nat
<1>1. f[k] \in ExtentType
  <2> HIDE DEF ExtentType
  <2> QED  OBVIOUS
<1>. QED  BY <1>1 DEF ExtentType

(* An append keeps every stripe around its streams: a stream belongs to    *)
(* the running stripe, and other payloads come between stripes.            *)
LEMMA EnclosedAppend ==
    ASSUME NEW f \in Seq(ExtentType), NEW size \in Nat, NEW starts \in Seq(Nat),
           NEW sizes \in Seq(Nat), NEW at, Paired(starts, sizes, at),
           Enclosed(f, size, starts, sizes, at),
           NEW e \in ExtentType, e.offset = size,
           IF at = "stripe" THEN OfStripe(e, Len(starts))
           ELSE e.payload.kind # "Stream"
    PROVE  Enclosed(Append(f, e), size + e.size, starts, sizes, at)
<1> DEFINE g == Append(f, e)
           n == Len(f)
           m == Len(starts)
<1>0. size \in Nat
  OBVIOUS
<1>1. e.size \in Nat
  BY DEF ExtentType
<1>2. \A k \in DOMAIN f : f[k].offset \in Nat /\ f[k].size \in Nat
  BY ExtentNumbers
<1>3. /\ n \in Nat /\ DOMAIN f = 1..n /\ DOMAIN g = 1..(n + 1)
      /\ g[n + 1] = e /\ \A k \in 1..n : g[k] = f[k]
  <2> HIDE DEF ExtentType
  <2> QED  BY AppendIsSeq
<1>4. /\ m \in Nat /\ DOMAIN sizes = 1..Len(sizes) /\ Len(sizes) \in Nat
      /\ at = "stripe" => m = Len(sizes) + 1
      /\ at # "stripe" => m = Len(sizes)
      /\ \A s \in 1..m : starts[s] \in Nat
      /\ \A s \in DOMAIN sizes : sizes[s] \in Nat
  BY DEF Paired
<1> HIDE DEF g, n, m, ExtentType
<1>5. ASSUME NEW k \in DOMAIN g
      PROVE  /\ g[k].offset + g[k].size <= size + e.size
             /\ g[k].payload.kind = "Stream" => g[k].payload.stripe \in 1..m
  <2>1. CASE k = n + 1
    BY <1>1, <1>3, <1>4, <2>1 DEF OfStripe, m
  <2>2. CASE k \in 1..n
    <3>1. /\ f[k].offset + f[k].size <= size
          /\ f[k].payload.kind = "Stream" => f[k].payload.stripe \in 1..m
      BY <1>3, <2>2 DEF Enclosed, m
    <3>2. f[k].offset \in Nat /\ f[k].size \in Nat /\ g[k] = f[k]
      BY <1>2, <1>3, <2>2
    <3> QED  BY ONLY <1>0, <1>1, <3>1, <3>2
  <2> QED  BY <1>3, <2>1, <2>2
<1>6. ASSUME NEW s \in DOMAIN sizes
      PROVE  /\ starts[s] + sizes[s] <= IF at = "stripe" THEN starts[m]
                                        ELSE size + e.size
             /\ starts[s] + sizes[s] <= size
             /\ starts[s] \in Nat /\ sizes[s] \in Nat
             /\ at = "stripe" => s # m
  <2>1. /\ starts[s] + sizes[s] <= IF at = "stripe" THEN starts[m] ELSE size
        /\ at = "stripe" => starts[m] <= size
    BY DEF Enclosed, m
  <2>2. starts[s] \in Nat /\ sizes[s] \in Nat
    BY <1>4
  <2>3. at = "stripe" => s # m /\ starts[m] \in Nat
    BY <1>4
  <2>4. CASE at = "stripe"
    BY ONLY <1>0, <2>1, <2>2, <2>3, <2>4
  <2>5. CASE at # "stripe"
    BY ONLY <1>0, <1>1, <2>1, <2>2, <2>5
  <2> QED  BY <2>4, <2>5
<1>7. ASSUME at = "stripe"
      PROVE  /\ starts[m] <= size + e.size
             /\ \A k \in DOMAIN g : IF OfStripe(g[k], m)
                                    THEN starts[m] <= g[k].offset
                                    ELSE g[k].offset + g[k].size <= starts[m]
  <2>1. starts[m] <= size /\ starts[m] \in Nat
    BY <1>4, <1>7 DEF Enclosed, m
  <2>2. ASSUME NEW k \in DOMAIN g
        PROVE  IF OfStripe(g[k], m) THEN starts[m] <= g[k].offset
               ELSE g[k].offset + g[k].size <= starts[m]
    <3>1. CASE k = n + 1
      BY <1>3, <1>7, <2>1, <3>1 DEF m
    <3>2. CASE k \in 1..n
      BY <1>3, <1>7, <3>2 DEF Enclosed, m
    <3> QED  BY <1>3, <3>1, <3>2
  <2> QED  BY <1>1, <2>1, <2>2
<1>8. ASSUME NEW s \in DOMAIN sizes, NEW k \in DOMAIN g
      PROVE  IF OfStripe(g[k], s) THEN Within(g[k], starts[s], sizes[s])
             ELSE Apart(g[k], starts[s], sizes[s])
  <2>1. CASE k = n + 1
    <3>1. ~OfStripe(e, s)
      BY <1>6 DEF OfStripe, m
    <3>2. Apart(e, starts[s], sizes[s])
      BY <1>6 DEF Apart
    <3> QED  BY <1>3, <2>1, <3>1, <3>2
  <2>2. CASE k \in 1..n
    BY <1>3, <2>2 DEF Enclosed
  <2>3. k = n + 1 \/ k \in 1..n
    BY ONLY <1>3, k \in DOMAIN g
  <2> QED  BY <2>1, <2>2, <2>3
<1>. QED  BY <1>5, <1>6, <1>7, <1>8 DEF Enclosed, g, m

(* The same for an append of the writer, which may be empty.               *)
LEMMA EnclosedExtent ==
    ASSUME TypeOK, NEW starts \in Seq(Nat), NEW sizes \in Seq(Nat), NEW at,
           Paired(starts, sizes, at),
           Enclosed(file, fileSize, starts, sizes, at),
           NEW payload \in Payload, NEW size \in Nat, NEW codec \in Codec,
           IF at = "stripe"
           THEN payload.kind = "Stream" /\ payload.stripe = Len(starts)
           ELSE payload.kind # "Stream"
    PROVE  /\ Enclosed(file \o Extent(payload, size, codec), fileSize + size,
                       starts, sizes, at)
           /\ file \o Extent(payload, size, codec) \in Seq(ExtentType)
<1> DEFINE e == [offset |-> fileSize, size |-> size, payload |-> payload,
                 codec |-> codec]
<1>1. e \in ExtentType /\ file \in Seq(ExtentType) /\ fileSize \in Nat
  BY DEF ExtentType, TypeOK
<1>2. e.offset = fileSize /\ e.size = size /\ e.payload = payload
  OBVIOUS
<1> HIDE DEF ExtentType
<1>3. CASE size = 0
  <2>1. file \o Extent(payload, size, codec) = file
    BY <1>1, <1>3 DEF Extent
  <2>2. fileSize + size = fileSize
    BY <1>1, <1>3
  <2> QED  BY <1>1, <2>1, <2>2
<1>4. CASE size # 0
  <2>1. Extent(payload, size, codec) = <<e>>
    BY <1>4 DEF Extent
  <2> HIDE DEF e
  <2>2. file \o <<e>> = Append(file, e)
    BY <1>1
  <2>3. IF at = "stripe" THEN OfStripe(e, Len(starts))
        ELSE e.payload.kind # "Stream"
    BY <1>2 DEF OfStripe
  <2>4. Enclosed(Append(file, e), fileSize + e.size, starts, sizes, at)
    BY <1>1, <1>2, <2>3, EnclosedAppend
  <2>5. Append(file, e) \in Seq(ExtentType)
    BY <1>1
  <2> QED  BY <1>2, <2>1, <2>2, <2>4, <2>5
<1>. QED  BY <1>3, <1>4

(* writeStripe begins: everything written so far lies before the stripe.   *)
LEMMA EnclosedOpen ==
    ASSUME NEW f \in Seq(ExtentType), NEW size \in Nat, NEW starts \in Seq(Nat),
           NEW sizes \in Seq(Nat), NEW at, at # "stripe",
           Paired(starts, sizes, at), Enclosed(f, size, starts, sizes, at)
    PROVE  Enclosed(f, size, Append(starts, size), sizes, "stripe")
<1> DEFINE g == Append(starts, size)
           m == Len(starts)
<1>1. /\ m \in Nat /\ Len(g) = m + 1 /\ g[m + 1] = size
      /\ \A s \in 1..m : g[s] = starts[s]
      /\ DOMAIN sizes = 1..m
  BY AppendIsSeq DEF Paired
<1>2. /\ \A k \in DOMAIN f :
           /\ f[k].offset + f[k].size <= size
           /\ f[k].payload.kind = "Stream" => f[k].payload.stripe \in 1..m
      /\ \A s \in DOMAIN sizes : starts[s] + sizes[s] <= size
      /\ \A s \in DOMAIN sizes, k \in DOMAIN f :
           IF OfStripe(f[k], s) THEN Within(f[k], starts[s], sizes[s])
           ELSE Apart(f[k], starts[s], sizes[s])
  BY DEF Enclosed
<1> HIDE DEF g, m, ExtentType
<1>3. \A k \in DOMAIN f : ~OfStripe(f[k], m + 1)
  BY <1>1, <1>2 DEF OfStripe
<1>4. \A k \in DOMAIN f :
        f[k].payload.kind = "Stream" => f[k].payload.stripe \in 1..(m + 1)
  BY <1>1, <1>2
<1>. QED  BY <1>1, <1>2, <1>3, <1>4 DEF Enclosed, g

(* writeStripe ends: the stripe is what was appended since it began.       *)
LEMMA EnclosedFinish ==
    ASSUME NEW f \in Seq(ExtentType), NEW size \in Nat, NEW starts \in Seq(Nat),
           NEW sizes \in Seq(Nat), Paired(starts, sizes, "stripe"),
           Enclosed(f, size, starts, sizes, "stripe")
    PROVE  Enclosed(f, size, starts, Append(sizes, size - starts[Len(starts)]),
                    "idle")
<1> DEFINE m == Len(starts)
           z == size - starts[m]
           g == Append(sizes, z)
<1>0. size \in Nat
  OBVIOUS
<1>1. m \in Nat /\ m = Len(sizes) + 1 /\ starts[m] \in Nat /\ starts[m] <= size
  BY DEF Paired, Enclosed
<1>2. z \in Nat /\ starts[m] + z = size
  BY <1>1
<1>3. /\ DOMAIN g = 1..m /\ g[m] = z
      /\ \A s \in 1..(m - 1) : g[s] = sizes[s]
      /\ DOMAIN sizes = 1..(m - 1)
      /\ \A s \in 1..(m - 1) : starts[s] \in Nat /\ sizes[s] \in Nat
  <2> HIDE DEF z, m
  <2>1. /\ Len(g) = Len(sizes) + 1 /\ g[Len(sizes) + 1] = z
        /\ \A s \in 1..Len(sizes) : g[s] = sizes[s]
    BY <1>2, AppendIsSeq
  <2>2. DOMAIN g = 1..Len(g) /\ DOMAIN sizes = 1..Len(sizes)
    BY <1>2
  <2> HIDE DEF g
  <2>3. m - 1 = Len(sizes)
    BY <1>1
  <2>4. \A s \in 1..(m - 1) : starts[s] \in Nat /\ sizes[s] \in Nat
    <3>1. 1..(m - 1) \subseteq 1..Len(starts) /\ 1..(m - 1) \subseteq 1..Len(sizes)
      BY <1>1, <2>3 DEF m
    <3>2. /\ \A s \in 1..Len(starts) : starts[s] \in Nat
          /\ \A s \in 1..Len(sizes) : sizes[s] \in Nat
      OBVIOUS
    <3> QED  BY ONLY <3>1, <3>2
  <2> QED  BY <1>1, <2>1, <2>2, <2>3, <2>4
<1>4. \A k \in DOMAIN f : f[k].offset \in Nat /\ f[k].size \in Nat
  BY ExtentNumbers
<1> HIDE DEF g, m, z, ExtentType
<1>5. ASSUME NEW s \in 1..m
      PROVE  starts[s] + g[s] <= size
  <2>1. CASE s = m
    BY <1>1, <1>2, <1>3, <2>1
  <2>2. CASE s \in 1..(m - 1)
    <3>1. starts[s] + sizes[s] <= starts[m]
      BY <1>3, <2>2 DEF Enclosed, m
    <3>2. g[s] = sizes[s] /\ starts[s] \in Nat /\ sizes[s] \in Nat
      BY <1>3, <2>2
    <3> DEFINE a == starts[s]
               b == sizes[s]
               c == starts[m]
    <3>3. a \in Nat /\ b \in Nat /\ c \in Nat /\ a + b <= c /\ c <= size
      BY <1>1, <3>1, <3>2
    <3> HIDE DEF a, b, c
    <3>4. a + b <= size
      BY ONLY <1>0, <3>3
    <3> QED  BY <3>2, <3>4 DEF a, b
  <2> QED  BY <1>1, <2>1, <2>2
<1>6. ASSUME NEW s \in 1..m, NEW k \in DOMAIN f
      PROVE  IF OfStripe(f[k], s) THEN Within(f[k], starts[s], g[s])
             ELSE Apart(f[k], starts[s], g[s])
  <2>1. CASE s = m
    <3>1. /\ f[k].offset + f[k].size <= size
          /\ IF OfStripe(f[k], m) THEN starts[m] <= f[k].offset
             ELSE f[k].offset + f[k].size <= starts[m]
      BY DEF Enclosed, m
    <3> QED  BY <1>2, <1>3, <2>1, <3>1 DEF Within, Apart
  <2>2. CASE s \in 1..(m - 1)
    BY <1>3, <2>2 DEF Enclosed
  <2> QED  BY <1>1, <2>1, <2>2
<1>7. \A k \in DOMAIN f :
        /\ f[k].offset + f[k].size <= size
        /\ f[k].payload.kind = "Stream" => f[k].payload.stripe \in 1..m
  BY DEF Enclosed, m
<1>. QED  BY <1>3, <1>5, <1>6, <1>7 DEF Enclosed, g, z, m

(* Every step keeps the stripes around their streams.                      *)
LEMMA StripesEnclosedStep ==
    TypeInv /\ GroupInv /\ StripesEnclosed /\ [Next]_vars => StripesEnclosed'
<1> SUFFICES ASSUME TypeInv, GroupInv, StripesEnclosed, [Next]_vars
             PROVE  StripesEnclosed'
  OBVIOUS
<1>0. /\ TypeOK /\ Paired(stripeOffsets, stripeSizes, pc)
      /\ file \in Seq(ExtentType) /\ fileSize \in Nat
      /\ stripeOffsets \in Seq(Nat) /\ stripeSizes \in Seq(Nat)
  BY DEF TypeInv, TypeOK, ExtentType, GroupInv, Counts, Paired
<1>1. ASSUME NEW starts \in Seq(Nat), NEW sizes \in Seq(Nat), NEW at,
             Paired(starts, sizes, at),
             Enclosed(file, fileSize, starts, sizes, at),
             NEW payload \in Payload, NEW enc \in [size : Nat, codec : Codec],
             CreateMetadataSection(payload, enc),
             at # "stripe", payload.kind # "Stream"
      PROVE  Enclosed(file', fileSize', starts, sizes, at)
  <2>1. enc.size \in Nat /\ enc.codec \in Codec
    OBVIOUS
  <2>2. /\ file' = file \o Extent(payload, enc.size, enc.codec)
        /\ fileSize' = fileSize + enc.size
    BY <1>1 DEF CreateMetadataSection, WriteWithChecksum
  <2> QED  BY <1>0, <1>1, <2>1, <2>2, EnclosedExtent
<1>2. ASSUME NEW force \in BOOLEAN, TryWriteStripeGroup(force),
             NEW sizes \in Seq(Nat), NEW at, at # "stripe",
             Paired(stripeOffsets, sizes, at),
             Enclosed(file, fileSize, stripeOffsets, sizes, at)
      PROVE  Enclosed(file', fileSize', stripeOffsets, sizes, at)
  <2>1. CASE UNCHANGED <<fileVars, meta>>
    BY <1>2, <2>1 DEF fileVars
  <2>2. CASE ~UNCHANGED <<fileVars, meta>>
    <3> DEFINE payload == StripeGroupPayload(streamOffsets, streamSizes)
               raw == StripeGroupRawSize(streamOffsets)
    <3>1. /\ streamOffsets # <<>>
          /\ \E enc \in Encodings(raw) : CreateMetadataSection(payload, enc)
      BY <1>2, <2>2 DEF TryWriteStripeGroup
    <3>2. raw \in Nat /\ payload \in Payload
      BY <3>1, StripeGroupType
    <3>3. payload.kind # "Stream"
      BY DEF StripeGroupPayload
    <3> HIDE DEF payload, raw
    <3>4. PICK enc \in Encodings(raw) : CreateMetadataSection(payload, enc)
      BY <3>1
    <3>5. enc \in [size : Nat, codec : Codec]
      BY <3>2, <3>4, EncodingsType
    <3> QED  BY <1>0, <1>1, <1>2, <3>2, <3>3, <3>4, <3>5
  <2> QED  BY <2>1, <2>2
<1>3. ASSUME NEW rowCount \in RowCounts, NEW streams \in StreamLists,
             WriteStripe(rowCount, streams)
      PROVE  StripesEnclosed'
  <2>1. /\ pc = "idle" /\ pc' = "stripe" /\ UNCHANGED <<file, fileSize, stripeSizes>>
        /\ stripeOffsets' = Append(stripeOffsets, fileSize)
    BY <1>3 DEF WriteStripe, fileVars
  <2>2. Enclosed(file, fileSize, Append(stripeOffsets, fileSize), stripeSizes,
                 "stripe")
    BY <1>0, <2>1, EnclosedOpen DEF StripesEnclosed
  <2> QED  BY <2>1, <2>2 DEF StripesEnclosed
<1>4. ASSUME WriteStream
      PROVE  StripesEnclosed'
  <2> DEFINE stream == Head(todo)
             payload == [kind |-> "Stream", stripe |-> Len(stripeOffsets),
                         id |-> stream.offset]
  <2>1. /\ WriteWithChecksum(payload, stream.size, "Uncompressed")
        /\ pc = "stripe" /\ pc' = pc /\ UNCHANGED <<stripeOffsets, stripeSizes>>
        /\ todo # <<>>
    BY <1>4 DEF WriteStream, stripeVars
  <2>2. stream \in Stream
    BY <2>1 DEF TypeInv, TypeOK
  <2>3. stream.size \in Nat /\ stream.offset \in StreamIds
    BY <2>2, ConstantsAssumption DEF Stream
  <2>4. /\ payload \in Payload
        /\ payload.kind = "Stream" /\ payload.stripe = Len(stripeOffsets)
    BY <2>3 DEF Payload, TypeInv, TypeOK
  <2>5. /\ file' = file \o Extent(payload, stream.size, "Uncompressed")
        /\ fileSize' = fileSize + stream.size
    BY <2>1 DEF WriteWithChecksum
  <2> HIDE DEF payload, stream
  <2>6. "Uncompressed" \in Codec
    BY DEF Codec
  <2>7. Enclosed(file', fileSize', stripeOffsets, stripeSizes, pc)
    BY <1>0, <2>1, <2>3, <2>4, <2>5, <2>6, EnclosedExtent DEF StripesEnclosed
  <2> QED  BY <2>1, <2>7 DEF StripesEnclosed
<1>5. ASSUME FinishStripe
      PROVE  StripesEnclosed'
  <2> DEFINE last == Append(stripeSizes, fileSize - stripeOffsets[Len(stripeOffsets)])
  <2>1. /\ pc = "stripe" /\ pc' = "idle" /\ UNCHANGED stripeOffsets
        /\ stripeSizes' = last /\ TryWriteStripeGroup(FALSE)
    BY <1>5 DEF FinishStripe
  <2>2. Enclosed(file, fileSize, stripeOffsets, last, "idle")
    BY <1>0, <2>1, EnclosedFinish DEF StripesEnclosed
  <2>3. last \in Seq(Nat) /\ Paired(stripeOffsets, last, "idle")
    <3>1. fileSize - stripeOffsets[Len(stripeOffsets)] \in Nat
      <4>1. stripeOffsets[Len(stripeOffsets)] \in Nat
        BY <1>0, <2>1 DEF Paired
      <4> QED  BY <1>0, <2>1, <4>1 DEF TypeInv, Shape
    <3> QED  BY <1>0, <2>1, <3>1 DEF Paired
  <2> HIDE DEF last
  <2>4. Enclosed(file', fileSize', stripeOffsets, last, "idle")
    BY <1>2, <2>1, <2>2, <2>3
  <2> QED  BY <2>1, <2>4 DEF StripesEnclosed
<1>6. ASSUME NEW name \in SectionNames, NEW size \in SectionSizes,
             WriteOptionalSection(name, size)
      PROVE  StripesEnclosed'
  <2> DEFINE payload == [kind |-> "Optional", name |-> name]
  <2>1. /\ pc = "idle" /\ UNCHANGED <<pc, stripeOffsets, stripeSizes>>
        /\ \E enc \in Encodings(size) : CreateMetadataSection(payload, enc)
    BY <1>6 DEF WriteOptionalSection, stripeVars
  <2>2. PICK enc \in Encodings(size) : CreateMetadataSection(payload, enc)
    BY <2>1
  <2>3. enc \in [size : Nat, codec : Codec]
    BY <2>2, EncodingsType, ConstantsAssumption
  <2>4. payload \in Payload /\ payload.kind # "Stream"
    BY DEF Payload
  <2> HIDE DEF payload
  <2>5. Enclosed(file', fileSize', stripeOffsets, stripeSizes, pc)
    BY <1>0, <1>1, <2>1, <2>2, <2>3, <2>4 DEF StripesEnclosed
  <2> QED  BY <2>1, <2>5 DEF StripesEnclosed
<1>7. ASSUME CloseGroup
      PROVE  StripesEnclosed'
  <2>1. /\ pc = "idle" /\ pc' = "closeStripes" /\ TryWriteStripeGroup(TRUE)
        /\ UNCHANGED <<stripeOffsets, stripeSizes>>
    BY <1>7 DEF CloseGroup, stripeVars
  <2>2. Enclosed(file', fileSize', stripeOffsets, stripeSizes, pc)
    BY <1>0, <1>2, <2>1 DEF StripesEnclosed
  <2> QED  BY <2>1, <2>2 DEF StripesEnclosed, Enclosed
<1>8. ASSUME CloseStripes
      PROVE  StripesEnclosed'
  <2>1. /\ pc = "closeStripes" /\ pc' = "closeFooter"
        /\ UNCHANGED <<stripeOffsets, stripeSizes>>
    BY <1>8 DEF CloseStripes, stripeVars
  <2>2. Enclosed(file', fileSize', stripeOffsets, stripeSizes, pc)
    <3>1. CASE stripeOffsets = <<>>
      BY <1>8, <3>1 DEF CloseStripes, fileVars, StripesEnclosed
    <3>2. CASE stripeOffsets # <<>>
      <4> DEFINE raw == 16 + 20 * Len(stripeOffsets)
      <4>1. PICK enc \in Encodings(raw) :
              CreateMetadataSection(StripesPayload, enc)
        BY <1>8, <3>2 DEF CloseStripes
      <4>2. raw \in Nat
        BY <1>0
      <4> HIDE DEF raw
      <4>3. enc \in [size : Nat, codec : Codec]
        BY <4>1, <4>2, EncodingsType
      <4>4. StripesPayload \in Payload /\ StripesPayload.kind # "Stream"
        BY DEF StripesPayload, Payload, TypeInv, TypeOK
      <4> QED  BY <1>0, <1>1, <2>1, <4>1, <4>3, <4>4 DEF StripesEnclosed
    <3> QED  BY <3>1, <3>2
  <2> QED  BY <2>1, <2>2 DEF StripesEnclosed, Enclosed
<1>9. ASSUME CloseFooter
      PROVE  StripesEnclosed'
  <2> DEFINE Ps(enc) ==
               [kind |-> "Postscript", footerSize |-> enc.size,
                footerCompressionType |-> enc.codec,
                checksum |-> checksum + enc.size + kPostscriptChecksumedSize]
             Tailer(enc) ==
               [offset |-> fileSize + enc.size, size |-> kPostscriptSize,
                payload |-> Ps(enc), codec |-> "Uncompressed"]
             footer(enc) == Extent(FooterPayload, enc.size, enc.codec)
  <2>1. PICK enc \in Encodings(FooterRawSize) :
          /\ file' = (file \o footer(enc)) \o <<Tailer(enc)>>
          /\ fileSize' = fileSize + enc.size + kPostscriptSize
    BY <1>9 DEF CloseFooter
  <2>2. /\ pc = "closeFooter" /\ pc' = "closed"
        /\ UNCHANGED <<stripeOffsets, stripeSizes>>
    BY <1>9 DEF CloseFooter, stripeVars
  <2>3. /\ FooterRawSize \in Nat /\ FooterPayload \in Payload
        /\ FooterPayload.kind # "Stream"
    BY FooterType DEF FooterPayload
  <2>4. enc.size \in Nat /\ enc.codec \in Codec
    BY <2>1, <2>3, EncodingsType
  <2>12. pc # "stripe"
    BY <2>2
  <2> DEFINE f == file \o footer(enc)
             e == Tailer(enc)
  <2>5. /\ Enclosed(f, fileSize + enc.size, stripeOffsets, stripeSizes, pc)
        /\ f \in Seq(ExtentType)
    <3>1. Enclosed(file, fileSize, stripeOffsets, stripeSizes, pc)
      BY DEF StripesEnclosed
    <3> QED  BY ONLY <1>0, <2>3, <2>4, <2>12, <3>1, EnclosedExtent
  <2>6. Ps(enc) \in Payload
    BY <2>4, SMTT(30) DEF Payload, TypeInv, TypeOK, kPostscriptChecksumedSize
  <2>7. /\ e \in ExtentType
        /\ e.offset = fileSize + enc.size
        /\ e.size = kPostscriptSize
        /\ e.payload.kind # "Stream"
        /\ fileSize + enc.size \in Nat
    BY <1>0, <2>4, <2>6, SMTT(30) DEF ExtentType, Codec, kPostscriptSize
  <2>8. file' = f \o <<e>>
    BY <2>1
  <2> HIDE DEF f, e, footer, Tailer, ExtentType
  <2>9. file' = Append(f, e)
    BY <2>5, <2>7, <2>8
  <2>10. Enclosed(Append(f, e), fileSize + enc.size + e.size, stripeOffsets,
                  stripeSizes, pc)
    BY <1>0, <2>2, <2>5, <2>7, EnclosedAppend
  <2>11. Enclosed(file', fileSize', stripeOffsets, stripeSizes, pc)
    BY <2>1, <2>7, <2>9, <2>10
  <2> QED  BY <2>2, <2>11 DEF StripesEnclosed, Enclosed
<1>10. CASE UNCHANGED vars
  BY <1>10 DEF vars, fileVars, stripeVars, StripesEnclosed
<1>. QED
  BY <1>3, <1>4, <1>5, <1>6, <1>7, <1>8, <1>9, <1>10 DEF Next

(* In every reachable state the bytes the stripes section gives a stripe   *)
(* hold the stripe's streams and nothing else, whatever is flushed between *)
(* stripes.                                                                *)
THEOREM StripesHoldStreamsCorrect == Spec => []StripesHoldStreams
<1>1. Init => TypeInv
  BY ConstantsAssumption DEF Init, TypeInv, TypeOK, Shape, SectionMaps
<1>2. Init => GroupInv
  BY DEF Init, GroupInv, GroupsMatchStripes, Counts, Pending, Grouped
<1>3. Init => StripesEnclosed
  BY DEF Init, StripesEnclosed, Enclosed
<1>4. StripesEnclosed => StripesHoldStreams
  BY DEF StripesEnclosed, Enclosed, StripesHoldStreams
<1>. QED  BY <1>1, <1>2, <1>3, <1>4, TypeInvStep, GroupInvStep,
             StripesEnclosedStep, PTL DEF Spec

-----------------------------------------------------------------------------
(* The reader: what the file holds                                         *)

(* An extent of the file f is described by a section and holds p.          *)
Held(f, section, p) ==
    \E k \in DOMAIN f :
        f[k] = [offset |-> section.offset, size |-> section.size,
                payload |-> p, codec |-> section.codec]

NonEmpty(f) == \A k \in DOMAIN f : f[k].size > 0

StreamPayload(i, id) == [kind |-> "Stream", stripe |-> i, id |-> id]

At(start, offset, size) ==
    [offset |-> start + offset, size |-> size, codec |-> "Uncompressed"]

(* The vectors of stripe i, which starts at `start`: all its streams but   *)
(* those `left` have their size there, the other entries are 0, and the    *)
(* offset of an entry leads to the stream's bytes.                         *)
RowHeld(f, i, start, streams, offsets, sizes, left) ==
    /\ offsets \in Seq(Nat) /\ sizes \in Seq(Nat)
    /\ Len(offsets) = Len(sizes)
    /\ \A s \in streams : s.offset < Len(sizes)
    /\ \A s \in streams \ left : sizes[s.offset + 1] = s.size
    /\ \A e \in 1..Len(sizes) : sizes[e] # 0 =>
         /\ \E s \in streams \ left : s.offset = e - 1
         /\ Held(f, At(start, offsets[e], sizes[e]), StreamPayload(i, e - 1))

(* The stripes whose group index is g are consecutive, and `section` holds *)
(* their vectors.                                                          *)
GroupHeldAs(f, starts, streams, indices, g, section, begin, offsets, sizes) ==
    /\ offsets \in Seq(Seq(Nat)) /\ sizes \in Seq(Seq(Nat))
    /\ Len(offsets) > 0 /\ Len(offsets) = Len(sizes)
    /\ \A r \in 1..Len(offsets) : Len(offsets[r]) <= MaxStreamOffset + 1
    /\ begin \in Nat \ {0}
    /\ {i \in 1..Len(indices) : indices[i] = g}
         = begin..(begin + Len(offsets) - 1)
    /\ section.size > 0
    /\ Held(f, section, StripeGroupPayload(offsets, sizes))
    /\ \A r \in 1..Len(offsets) :
         RowHeld(f, begin + r - 1, starts[begin + r - 1],
                 streams[begin + r - 1], offsets[r], sizes[r], {})

GroupHeld(f, starts, streams, indices, g, section) ==
    \E begin, offsets, sizes :
        GroupHeldAs(f, starts, streams, indices, g, section,
                    begin, offsets, sizes)

(* The streams of a stripe have different offsets.                         *)
Distinct(streams) ==
    \A s, t \in streams : s.offset = t.offset => s = t

(* The streams writeStripe has still to append for the r-th stripe of the  *)
(* open group.                                                             *)
Left(r) ==
    IF pc = "stripe" /\ r = Len(streamOffsets)
    THEN {todo[j] : j \in DOMAIN todo} ELSE {}

Before == Len(stripeOffsets) - Len(streamOffsets)

WrittenOK ==
    /\ Len(written) = Len(stripeOffsets)
    /\ \A i \in 1..Len(written) : Distinct(written[i])
    /\ pc = "stripe" =>
         /\ \A j \in DOMAIN todo : todo[j] \in written[Len(written)]
         /\ \A i, j \in DOMAIN todo : todo[i].offset = todo[j].offset => i = j

OpenRowsHeld ==
    \A r \in 1..Len(streamOffsets) :
        RowHeld(file, Before + r, stripeOffsets[Before + r],
                written[Before + r], streamOffsets[r], streamSizes[r], Left(r))

GroupsHeld ==
    \A g \in 0..(stripeGroupIndex - 1) :
        GroupHeld(file, stripeOffsets, written, stripeGroupIndices, g,
                  stripeGroups[g + 1])

OptionalPayload(name) == [kind |-> "Optional", name |-> name]

SectionsHeld ==
    \A name \in SectionNames :
        optionalSections[name] # <<>> /\ optionalSections[name][1].size > 0 =>
            Held(file, optionalSections[name][1], OptionalPayload(name))

StripesHeld ==
    IF pc \in {"closeFooter", "closed"} /\ stripeOffsets # <<>>
    THEN /\ stripes # <<>>
         /\ stripes[1].size > 0
         /\ Held(file, stripes[1], StripesPayload)
    ELSE stripes = <<>>

(* The last bytes of a file of `size` bytes are ps, and before them comes  *)
(* the footer ps describes.                                                *)
PostscriptHeldAs(f, size, footer, ps) ==
    /\ Held(f, [offset |-> size - kPostscriptSize,
                size |-> kPostscriptSize, codec |-> "Uncompressed"], ps)
    /\ ps.footerSize \in Nat \ {0}
    /\ size >= kPostscriptSize + ps.footerSize
    /\ Held(f, [offset |-> size - kPostscriptSize - ps.footerSize,
                size |-> ps.footerSize,
                codec |-> ps.footerCompressionType], footer)
    /\ f[Len(f) - 1].offset = size - kPostscriptSize - ps.footerSize

PostscriptHeld ==
    pc = "closed" =>
        \E ps : PostscriptHeldAs(file, fileSize, FooterPayload, ps)

Content ==
    /\ NonEmpty(file)
    /\ WrittenOK
    /\ OpenRowsHeld
    /\ GroupsHeld
    /\ SectionsHeld
    /\ StripesHeld
    /\ PostscriptHeld

WriterInv == TypeInv /\ GroupInv /\ Covered /\ Content

-----------------------------------------------------------------------------
(* The file only grows                                                     *)

(* An append leaves every extent where it is.                              *)
LEMMA HeldGrows ==
    ASSUME NEW f \in Seq(ExtentType), NEW x \in Seq(ExtentType),
           NEW section, NEW p, Held(f, section, p)
    PROVE  Held(f \o x, section, p)
<1>1. PICK k \in DOMAIN f :
        f[k] = [offset |-> section.offset, size |-> section.size,
                payload |-> p, codec |-> section.codec]
  BY DEF Held
<1> HIDE DEF ExtentType
<1>2. k \in DOMAIN (f \o x) /\ (f \o x)[k] = f[k]
  OBVIOUS
<1>. QED  BY <1>1, <1>2 DEF Held

(* And so every stream of a stripe.                                        *)
LEMMA RowGrows ==
    ASSUME NEW f \in Seq(ExtentType), NEW x \in Seq(ExtentType),
           NEW i, NEW start, NEW streams, NEW offsets, NEW sizes, NEW left,
           RowHeld(f, i, start, streams, offsets, sizes, left)
    PROVE  RowHeld(f \o x, i, start, streams, offsets, sizes, left)
<1>1. ASSUME NEW e \in 1..Len(sizes), sizes[e] # 0
      PROVE  Held(f \o x, At(start, offsets[e], sizes[e]), StreamPayload(i, e - 1))
  <2>1. Held(f, At(start, offsets[e], sizes[e]), StreamPayload(i, e - 1))
    BY <1>1 DEF RowHeld
  <2> QED  BY <2>1, HeldGrows
<1>. QED  BY <1>1 DEF RowHeld

(* A flushed group stays as it is when the file grows, more stripes are    *)
(* written, and they get other group indices.                              *)
LEMMA GroupGrows ==
    ASSUME NEW f \in Seq(ExtentType), NEW x \in Seq(ExtentType),
           NEW starts \in Seq(Nat), NEW starts2 \in Seq(Nat),
           NEW streams, NEW streams2, NEW indices \in Seq(Nat),
           NEW indices2 \in Seq(Nat), NEW g, NEW section,
           GroupHeld(f, starts, streams, indices, g, section),
           Len(indices) <= Len(starts), Len(indices) <= Len(indices2),
           \A i \in 1..Len(starts) : starts2[i] = starts[i]
                                     /\ streams2[i] = streams[i],
           \A i \in 1..Len(indices) : indices2[i] = indices[i],
           \A i \in 1..Len(indices2) : i > Len(indices) => indices2[i] # g
    PROVE  GroupHeld(f \o x, starts2, streams2, indices2, g, section)
<1>1. PICK begin, offsets, sizes :
        GroupHeldAs(f, starts, streams, indices, g, section, begin, offsets, sizes)
  BY DEF GroupHeld
<1> DEFINE last == begin + Len(offsets) - 1
<1>2. /\ offsets \in Seq(Seq(Nat)) /\ sizes \in Seq(Seq(Nat))
      /\ Len(offsets) > 0 /\ Len(offsets) = Len(sizes)
      /\ \A r \in 1..Len(offsets) : Len(offsets[r]) <= MaxStreamOffset + 1
      /\ begin \in Nat \ {0}
      /\ {i \in 1..Len(indices) : indices[i] = g} = begin..last
      /\ section.size > 0
      /\ Held(f, section, StripeGroupPayload(offsets, sizes))
      /\ \A r \in 1..Len(offsets) :
           RowHeld(f, begin + r - 1, starts[begin + r - 1],
                   streams[begin + r - 1], offsets[r], sizes[r], {})
  BY <1>1 DEF GroupHeldAs
<1>3. Len(indices) \in Nat /\ Len(indices2) \in Nat /\ Len(starts) \in Nat
      /\ Len(offsets) \in Nat
  BY <1>2
<1>4. {i \in 1..Len(indices2) : indices2[i] = g} = {i \in 1..Len(indices) : indices[i] = g}
  <2> SUFFICES ASSUME NEW i
               PROVE  i \in 1..Len(indices2) /\ indices2[i] = g
                        <=> i \in 1..Len(indices) /\ indices[i] = g
    OBVIOUS
  <2>1. CASE i \in 1..Len(indices)
    <3>1. i \in 1..Len(indices2)
      BY <1>3, <2>1
    <3>2. indices2[i] = indices[i]
      BY <2>1
    <3> QED  BY <2>1, <3>1, <3>2
  <2>2. CASE i \in 1..Len(indices2) /\ i \notin 1..Len(indices)
    <3>1. i > Len(indices)
      BY <1>3, <2>2
    <3> QED  BY <2>2, <3>1
  <2> QED  BY <2>1, <2>2
<1>5. Held(f \o x, section, StripeGroupPayload(offsets, sizes))
  BY <1>2, HeldGrows
<1>6. ASSUME NEW r \in 1..Len(offsets)
      PROVE  RowHeld(f \o x, begin + r - 1, starts2[begin + r - 1],
                     streams2[begin + r - 1], offsets[r], sizes[r], {})
  <2>1. begin + r - 1 \in begin..last
    BY <1>2, <1>3
  <2>2. begin + r - 1 \in 1..Len(indices)
    BY <1>2, <2>1
  <2>3. begin + r - 1 \in 1..Len(starts)
    BY <1>3, <2>2
  <2>4. starts2[begin + r - 1] = starts[begin + r - 1]
        /\ streams2[begin + r - 1] = streams[begin + r - 1]
    BY <2>3
  <2>5. RowHeld(f, begin + r - 1, starts[begin + r - 1],
                streams[begin + r - 1], offsets[r], sizes[r], {})
    BY <1>2
  <2>6. RowHeld(f \o x, begin + r - 1, starts[begin + r - 1],
                streams[begin + r - 1], offsets[r], sizes[r], {})
    BY <2>5, RowGrows
  <2> QED  BY <2>4, <2>6
<1>7. GroupHeldAs(f \o x, starts2, streams2, indices2, g, section,
                  begin, offsets, sizes)
  BY <1>2, <1>4, <1>5, <1>6 DEF GroupHeldAs
<1>. QED  BY <1>7 DEF GroupHeld

(* One append.                                                             *)
LEMMA AppendHeld ==
    ASSUME TypeOK, NEW payload \in Payload, NEW size \in Nat, NEW codec \in Codec,
           NonEmpty(file)
    PROVE  LET x == Extent(payload, size, codec)
               f == file \o x
           IN  /\ x \in Seq(ExtentType) /\ file \in Seq(ExtentType)
               /\ f \in Seq(ExtentType)
               /\ NonEmpty(f)
               /\ size > 0 => Held(f, [offset |-> fileSize, size |-> size,
                                       codec |-> codec], payload)
<1> DEFINE x == Extent(payload, size, codec)
           e == [offset |-> fileSize, size |-> size, payload |-> payload,
                 codec |-> codec]
           f == file \o x
<1>1. e \in ExtentType /\ file \in Seq(ExtentType)
  BY DEF ExtentType, TypeOK
<1>2. e.size = size
  OBVIOUS
<1> HIDE DEF ExtentType
<1>3. CASE size = 0
  <2>1. x = <<>>
    BY <1>3 DEF Extent
  <2>2. f = file /\ x \in Seq(ExtentType)
    BY <1>1, <2>1
  <2> HIDE DEF x, f
  <2>3. NonEmpty(f) /\ f \in Seq(ExtentType)
    BY <1>1, <2>2
  <2> QED  BY <1>1, <1>3, <2>2, <2>3 DEF x, f
<1>4. CASE size # 0
  <2>1. x = <<e>>
    BY <1>4 DEF Extent
  <2> HIDE DEF x
  <2>2. f = Append(file, e) /\ x \in Seq(ExtentType) /\ f \in Seq(ExtentType)
    <3> HIDE DEF e
    <3> QED  BY <1>1, <2>1
  <2>3. /\ Len(f) = Len(file) + 1 /\ f[Len(file) + 1] = e
        /\ \A i \in 1..Len(file) : f[i] = file[i]
        /\ DOMAIN f = 1..Len(f) /\ DOMAIN file = 1..Len(file) /\ Len(file) \in Nat
    <3> HIDE DEF e
    <3> QED  BY <1>1, <2>2
  <2> HIDE DEF f
  <2>4. NonEmpty(f)
    <3> HIDE DEF e
    <3>1. ASSUME NEW k \in DOMAIN f PROVE f[k].size > 0
      <4>1. CASE k = Len(file) + 1
        BY <1>2, <1>4, <2>3, <4>1
      <4>2. CASE k \in DOMAIN file
        BY <2>3, <4>2 DEF NonEmpty
      <4> QED  BY <2>3, <4>1, <4>2
    <3> QED  BY <3>1 DEF NonEmpty
  <2>5. Held(f, [offset |-> fileSize, size |-> size, codec |-> codec], payload)
    <3>1. Len(file) + 1 \in DOMAIN f
      BY <2>3
    <3> QED  BY <2>3, <3>1 DEF Held
  <2> QED  BY <1>1, <2>2, <2>4, <2>5 DEF f, x
<1>. QED  BY <1>3, <1>4

(* What a metadata section records leads to its payload.                   *)
LEMMA SectionHeld ==
    ASSUME TypeOK, NonEmpty(file), NEW payload \in Payload, NEW raw \in Nat,
           NEW enc \in Encodings(raw), CreateMetadataSection(payload, enc)
    PROVE  /\ \E x \in Seq(ExtentType) : file' = file \o x
           /\ file \in Seq(ExtentType)
           /\ NonEmpty(file')
           /\ Section(enc).size = enc.size
           /\ enc.size \in Nat
           /\ raw > 0 => enc.size > 0
           /\ enc.size > 0 => Held(file', Section(enc), payload)
           /\ Section(enc) \in MetadataSection
           /\ fileSize' = fileSize + enc.size
<1>1. enc.size \in Nat /\ enc.codec \in Codec
  BY EncodingsType
<1>2. raw > 0 => enc.size > 0
  BY ConstantsAssumption DEF Encodings
<1>3. file' = file \o Extent(payload, enc.size, enc.codec)
      /\ fileSize' = fileSize + enc.size
  BY DEF CreateMetadataSection, WriteWithChecksum
<1>4. Section(enc) = [offset |-> fileSize, size |-> enc.size, codec |-> enc.codec]
  BY DEF Section
<1>5. Section(enc) \in MetadataSection /\ Section(enc).size = enc.size
  BY <1>1, <1>4 DEF MetadataSection, TypeOK, Codec
<1>. QED  BY <1>1, <1>2, <1>3, <1>4, <1>5, AppendHeld

(* The groups flushed so far stay readable.                                *)
LEMMA GroupsKept ==
    ASSUME WriterInv, NEW x \in Seq(ExtentType), file' = file \o x,
           stripeOffsets' \in Seq(Nat), stripeGroupIndices' \in Seq(Nat),
           \A i \in 1..Len(stripeOffsets) :
               stripeOffsets'[i] = stripeOffsets[i] /\ written'[i] = written[i],
           Len(stripeGroupIndices) <= Len(stripeGroupIndices'),
           \A i \in 1..Len(stripeGroupIndices) :
               stripeGroupIndices'[i] = stripeGroupIndices[i],
           \A i \in 1..Len(stripeGroupIndices') :
               i > Len(stripeGroupIndices) => stripeGroupIndices'[i] = stripeGroupIndex,
           \A g \in 0..(stripeGroupIndex - 1) : stripeGroups'[g + 1] = stripeGroups[g + 1]
    PROVE  \A g \in 0..(stripeGroupIndex - 1) :
               GroupHeld(file', stripeOffsets', written', stripeGroupIndices', g,
                         stripeGroups'[g + 1])
<1> TAKE g \in 0..(stripeGroupIndex - 1)
<1>1. /\ stripeGroupIndex \in Nat /\ stripeOffsets \in Seq(Nat)
      /\ stripeGroupIndices \in Seq(Nat) /\ file \in Seq(ExtentType)
  BY DEF WriterInv, TypeInv, TypeOK, ExtentType
<1>2. GroupHeld(file, stripeOffsets, written, stripeGroupIndices, g, stripeGroups[g + 1])
  BY DEF WriterInv, Content, GroupsHeld
<1>3. Len(stripeGroupIndices) <= Len(stripeOffsets)
  BY DEF WriterInv, GroupInv, Counts, TypeInv, TypeOK
<1>4. \A i \in 1..Len(stripeGroupIndices') :
        i > Len(stripeGroupIndices) => stripeGroupIndices'[i] # g
  BY <1>1
<1>5. stripeGroups'[g + 1] = stripeGroups[g + 1]
  OBVIOUS
<1> DEFINE so == stripeOffsets'
           wr == written'
           gi == stripeGroupIndices'
           sec == stripeGroups[g + 1]
<1>6. /\ so \in Seq(Nat) /\ gi \in Seq(Nat)
      /\ \A i \in 1..Len(stripeOffsets) : so[i] = stripeOffsets[i] /\ wr[i] = written[i]
      /\ Len(stripeGroupIndices) <= Len(gi)
      /\ \A i \in 1..Len(stripeGroupIndices) : gi[i] = stripeGroupIndices[i]
      /\ \A i \in 1..Len(gi) : i > Len(stripeGroupIndices) => gi[i] # g
  BY <1>4
<1> HIDE DEF so, wr, gi, sec
<1>7. GroupHeld(file, stripeOffsets, written, stripeGroupIndices, g, sec)
  BY <1>2 DEF sec
<1>8. GroupHeld(file \o x, so, wr, gi, g, sec)
  BY <1>1, <1>3, <1>6, <1>7, GroupGrows
<1>. QED  BY <1>5, <1>8 DEF so, wr, gi, sec

-----------------------------------------------------------------------------
(* Every step of the writer keeps the content                              *)

(* The parts of the type invariant used below.                             *)
LEMMA WriterTypes ==
    ASSUME TypeInv
    PROVE  /\ file \in Seq(ExtentType) /\ fileSize \in Nat
           /\ stripeOffsets \in Seq(Nat) /\ stripeGroupIndices \in Seq(Nat)
           /\ streamOffsets \in Seq(Seq(Nat)) /\ streamSizes \in Seq(Seq(Nat))
           /\ stripeGroupIndex \in Nat /\ stripeGroups \in Seq(MetadataSection)
           /\ todo \in Seq(Stream) /\ written \in Seq(SUBSET Stream)
           /\ stripes \in Seq(MetadataSection)
           /\ optionalSections \in SectionMaps
           /\ Len(stripeOffsets) \in Nat /\ Len(streamOffsets) \in Nat
           /\ Len(stripeGroupIndices) \in Nat /\ Len(written) \in Nat
           /\ Len(streamSizes) \in Nat
BY DEF TypeInv, TypeOK, ExtentType

(* The stripes of the open group are the last ones written.                *)
LEMMA BeforeNat ==
    ASSUME TypeInv, GroupInv
    PROVE  /\ Before \in Nat
           /\ Len(streamOffsets) = Len(streamSizes)
           /\ Before + Len(streamOffsets) = Len(stripeOffsets)
<1>1. /\ Len(stripeOffsets) \in Nat /\ Len(streamOffsets) \in Nat
      /\ Len(stripeGroupIndices) \in Nat
  BY WriterTypes
<1>2. /\ Len(streamOffsets) = Len(streamSizes)
      /\ Pending \in 0..Len(stripeGroupIndices)
      /\ Len(stripeOffsets) = Len(stripeGroupIndices) + (IF pc = "stripe" THEN 1 ELSE 0)
  BY DEF GroupInv, GroupsMatchStripes, Grouped, Counts
<1>. QED  BY <1>1, <1>2 DEF Pending, Before

(* The vectors of a stripe have an entry for each of its streams.          *)
LEMMA StreamCountBounds ==
    ASSUME NEW streams \in StreamLists
    PROVE  /\ streams \in Seq(Stream)
           /\ StreamCount(streams) \in Nat
           /\ \A j \in DOMAIN streams : streams[j].offset < StreamCount(streams)
           /\ \A i, j \in DOMAIN streams : streams[i].offset = streams[j].offset => i = j
<1>1. streams \in Seq(Stream) /\ StreamCount(streams) \in Nat
  BY StreamListsType
<1>2. \A i, j \in DOMAIN streams : streams[i].offset = streams[j].offset => i = j
  BY DEF StreamLists
<1> DEFINE S == {streams[i].offset : i \in DOMAIN streams}
<1>3. ASSUME NEW j \in DOMAIN streams PROVE streams[j].offset < StreamCount(streams)
  <2>1. \A i \in DOMAIN streams : streams[i].offset \in 0..MaxStreamOffset
    <3>1. \A i \in DOMAIN streams : streams[i] \in Stream
      BY <1>1
    <3> QED  BY <3>1, ConstantsAssumption DEF Stream
  <2>2. S \in SUBSET Nat /\ S # {} /\ (\A x \in S : x <= MaxStreamOffset)
    BY <1>3, <2>1
  <2>3. streams[j].offset \in S
    BY <1>3
  <2>4. streams # <<>>
    BY <1>3
  <2>5. StreamCount(streams) = MaxOf(S) + 1
    BY <2>4 DEF StreamCount
  <2>6. MaxOf(S) \in S /\ (\A y \in S : y <= MaxOf(S))
    <3>1. MaxStreamOffset \in Nat
      BY ConstantsAssumption
    <3> HIDE DEF S
    <3> QED  BY <2>2, <3>1, MaxOfProperties
  <2>7. MaxOf(S) \in Nat /\ streams[j].offset \in Nat /\ streams[j].offset <= MaxOf(S)
    <3> HIDE DEF S
    <3> QED  BY <2>2, <2>3, <2>6
  <2> HIDE DEF S
  <2> QED  BY <2>5, <2>7
<1>. QED  BY <1>1, <1>2, <1>3

(* The same when the step leaves stripes and groups alone.                 *)
LEMMA GroupsKeptAlone ==
    ASSUME WriterInv, NEW x \in Seq(ExtentType), file' = file \o x,
           UNCHANGED <<stripeOffsets, written, stripeGroupIndices,
                       stripeGroupIndex, stripeGroups>>
    PROVE  GroupsHeld'
<1>1. stripeOffsets \in Seq(Nat) /\ stripeGroupIndices \in Seq(Nat)
      /\ Len(stripeGroupIndices) \in Nat
  BY WriterTypes DEF WriterInv
<1>2. \A i \in 1..Len(stripeGroupIndices') : ~(i > Len(stripeGroupIndices))
  BY <1>1
<1>3. /\ stripeOffsets' \in Seq(Nat) /\ stripeGroupIndices' \in Seq(Nat)
      /\ \A i \in 1..Len(stripeOffsets) :
           stripeOffsets'[i] = stripeOffsets[i] /\ written'[i] = written[i]
      /\ Len(stripeGroupIndices) <= Len(stripeGroupIndices')
      /\ \A i \in 1..Len(stripeGroupIndices) :
           stripeGroupIndices'[i] = stripeGroupIndices[i]
      /\ \A g \in 0..(stripeGroupIndex - 1) : stripeGroups'[g + 1] = stripeGroups[g + 1]
  BY <1>1
<1>4. \A g \in 0..(stripeGroupIndex - 1) :
        GroupHeld(file', stripeOffsets', written', stripeGroupIndices', g,
                  stripeGroups'[g + 1])
  BY <1>2, <1>3, GroupsKept
<1>. QED  BY <1>4 DEF GroupsHeld

(* The optional sections outlive an append.                                *)
LEMMA SectionsKept ==
    ASSUME WriterInv, NEW x \in Seq(ExtentType), file' = file \o x,
           UNCHANGED optionalSections
    PROVE  SectionsHeld'
<1>1. SectionsHeld /\ file \in Seq(ExtentType)
  BY WriterTypes DEF WriterInv, Content
<1>2. ASSUME NEW name \in SectionNames, optionalSections[name] # <<>>,
             optionalSections[name][1].size > 0
      PROVE  Held(file', optionalSections[name][1], OptionalPayload(name))
  <2>1. Held(file, optionalSections[name][1], OptionalPayload(name))
    BY <1>1, <1>2 DEF SectionsHeld
  <2> QED  BY <1>1, <2>1, HeldGrows
<1>. QED  BY <1>2 DEF SectionsHeld

(* The streams still to be appended: the next one and the rest.            *)
LEMMA HeadAndTail ==
    ASSUME NEW S, NEW q \in Seq(S), q # <<>>
    PROVE  /\ Len(q) \in Nat /\ Len(q) > 0 /\ DOMAIN q = 1..Len(q)
           /\ Head(q) \in S /\ Head(q) = q[1]
           /\ Tail(q) \in Seq(S) /\ Len(Tail(q)) = Len(q) - 1
           /\ DOMAIN Tail(q) = 1..Len(Tail(q))
           /\ \A j \in 1..Len(Tail(q)) : Tail(q)[j] = q[j + 1]
<1>1. Len(q) \in Nat /\ Len(q) > 0 /\ DOMAIN q = 1..Len(q)
  OBVIOUS
<1>2. Head(q) \in S /\ Head(q) = q[1]
  BY HeadTailProperties
<1>3. Tail(q) \in Seq(S) /\ Len(Tail(q)) = Len(q) - 1
  BY HeadTailProperties
<1>4. DOMAIN Tail(q) = 1..Len(Tail(q))
  BY <1>3
<1>5. \A j \in 1..Len(Tail(q)) : Tail(q)[j] = q[j + 1]
  BY <1>1, <1>3
<1>. QED  BY <1>1, <1>2, <1>3, <1>4, <1>5

(* The fields of a stream.                                                 *)
LEMMA StreamFields ==
    ASSUME NEW t \in Stream
    PROVE  t.offset \in Nat /\ t.size \in Nat /\ t.offset \in StreamIds
<1>1. t.offset \in StreamIds /\ t.size \in StreamSizes
  BY DEF Stream
<1>2. MaxStreamOffset \in Nat /\ StreamIds \subseteq 0..MaxStreamOffset
      /\ StreamSizes \subseteq Nat
  BY ConstantsAssumption
<1> HIDE DEF Stream
<1>3. t.offset \in 0..MaxStreamOffset
  BY <1>1, <1>2
<1>4. t.offset \in Nat
  BY <1>2, <1>3
<1>5. t.size \in Nat
  BY <1>1, <1>2
<1>. QED  BY <1>1, <1>4, <1>5

(* One more stream of a stripe.                                            *)
LEMMA RowWritten ==
    ASSUME NEW f \in Seq(ExtentType), NEW x \in Seq(ExtentType),
           NEW i, NEW start, NEW streams \in SUBSET Stream, Distinct(streams),
           NEW offsets, NEW sizes, NEW left,
           RowHeld(f, i, start, streams, offsets, sizes, left),
           NEW s \in streams, NEW off \in Nat,
           s.size > 0 => Held(f \o x, At(start, off, s.size), StreamPayload(i, s.offset))
    PROVE  RowHeld(f \o x, i, start, streams,
                   [offsets EXCEPT ![s.offset + 1] = off],
                   [sizes EXCEPT ![s.offset + 1] = s.size], left \ {s})
<1> DEFINE j == s.offset + 1
           o2 == [offsets EXCEPT ![j] = off]
           z == s.size
           s2 == [sizes EXCEPT ![j] = z]
<1>1. RowHeld(f \o x, i, start, streams, offsets, sizes, left)
  BY RowGrows
<1>2. \A t \in streams : t.offset \in Nat /\ t.size \in Nat
  BY StreamFields
<1>3. /\ offsets \in Seq(Nat) /\ sizes \in Seq(Nat)
      /\ Len(offsets) = Len(sizes) /\ Len(sizes) \in Nat
      /\ \A t \in streams : t.offset < Len(sizes)
      /\ \A t \in streams \ left : sizes[t.offset + 1] = t.size
      /\ \A e \in 1..Len(sizes) : sizes[e] # 0 =>
           /\ \E t \in streams \ left : t.offset = e - 1
           /\ Held(f \o x, At(start, offsets[e], sizes[e]), StreamPayload(i, e - 1))
  BY <1>1 DEF RowHeld
<1>4. j \in 1..Len(sizes) /\ s.size \in Nat /\ s.offset \in Nat
  BY <1>2, <1>3
<1>5. /\ o2 \in Seq(Nat) /\ s2 \in Seq(Nat)
      /\ Len(o2) = Len(sizes) /\ Len(s2) = Len(sizes)
      /\ \A e \in 1..Len(sizes) :
           /\ o2[e] = IF e = j THEN off ELSE offsets[e]
           /\ s2[e] = IF e = j THEN s.size ELSE sizes[e]
  <2> HIDE DEF j
  <2>1. offsets \in Seq(Nat) /\ sizes \in Seq(Nat) /\ z \in Nat
    BY <1>3, <1>4
  <2> HIDE DEF z
  <2>2. ASSUME NEW q \in Seq(Nat), NEW v \in Nat
        PROVE  /\ [q EXCEPT ![j] = v] \in Seq(Nat)
               /\ Len([q EXCEPT ![j] = v]) = Len(q)
               /\ \A e \in 1..Len(q) :
                    [q EXCEPT ![j] = v][e] = IF e = j THEN v ELSE q[e]
    <3>1. Len(q) \in Nat /\ q \in [1..Len(q) -> Nat]
      BY ONLY <2>2
    <3>2. [q EXCEPT ![j] = v] \in [1..Len(q) -> Nat]
      BY ONLY <2>2, <3>1
    <3> QED  BY ONLY <3>1, <3>2, FcnIsSeq
  <2>3. /\ o2 \in Seq(Nat) /\ Len(o2) = Len(offsets)
        /\ \A e \in 1..Len(offsets) : o2[e] = IF e = j THEN off ELSE offsets[e]
    BY ONLY <2>1, <2>2, off \in Nat, Zenon
  <2>4. /\ s2 \in Seq(Nat) /\ Len(s2) = Len(sizes)
        /\ \A e \in 1..Len(sizes) : s2[e] = IF e = j THEN z ELSE sizes[e]
    BY ONLY <2>1, <2>2, Zenon
  <2> HIDE DEF o2, s2
  <2> USE DEF z
  <2> QED  BY <1>3, <2>3, <2>4
<1> HIDE DEF o2, s2
<1>6. ASSUME NEW t \in streams \ (left \ {s}) PROVE s2[t.offset + 1] = t.size
  <2>1. t.offset + 1 \in 1..Len(sizes)
    BY <1>2, <1>3
  <2>2. CASE t = s
    BY <1>5, <2>1, <2>2
  <2>3. CASE t # s
    <3>1. t.offset # s.offset /\ t \in streams \ left
      BY <2>3 DEF Distinct
    <3>2. t.offset + 1 # j
      BY <1>2, <1>4, <3>1
    <3> QED  BY <1>3, <1>5, <2>1, <3>1, <3>2
  <2> QED  BY <2>2, <2>3
<1>7. ASSUME NEW e \in 1..Len(sizes), s2[e] # 0
      PROVE  /\ \E t \in streams \ (left \ {s}) : t.offset = e - 1
             /\ Held(f \o x, At(start, o2[e], s2[e]), StreamPayload(i, e - 1))
  <2>1. CASE e = j
    <3>1. s2[e] = s.size /\ o2[e] = off
      BY <1>5, <2>1
    <3>2. e - 1 = s.offset
      BY <1>4, <2>1
    <3>3. s.size > 0
      BY <1>4, <1>7, <3>1
    <3>4. s \in streams \ (left \ {s})
      OBVIOUS
    <3> QED  BY <3>1, <3>2, <3>3, <3>4
  <2>2. CASE e # j
    <3>1. s2[e] = sizes[e] /\ o2[e] = offsets[e]
      BY <1>5, <2>2
    <3>2. PICK t \in streams \ left : t.offset = e - 1
      BY <1>3, <1>7, <3>1
    <3>3. t \in streams \ (left \ {s})
      OBVIOUS
    <3> QED  BY <1>3, <1>7, <3>1, <3>2, <3>3
  <2> QED  BY <2>1, <2>2
<1>8. RowHeld(f \o x, i, start, streams, o2, s2, left \ {s})
  BY <1>3, <1>5, <1>6, <1>7 DEF RowHeld
<1>. QED  BY <1>8 DEF o2, s2

(* writeStripe begins: the vectors of the stripe are 0, all streams are    *)
(* left.                                                                   *)
LEMMA WriteStripeContent ==
    ASSUME WriterInv, NEW rowCount \in RowCounts, NEW streams \in StreamLists,
           WriteStripe(rowCount, streams)
    PROVE  Content'
<1> DEFINE zeroes == [i \in 1..StreamCount(streams) |-> 0]
           mine == {streams[i] : i \in DOMAIN streams}
           n == Len(streamOffsets)
           m == Len(stripeOffsets)
<1>1. TypeInv /\ GroupInv /\ Content
  BY DEF WriterInv
<1>2. /\ stripeOffsets' = Append(stripeOffsets, fileSize)
      /\ streamOffsets' = Append(streamOffsets, zeroes)
      /\ streamSizes' = Append(streamSizes, zeroes)
      /\ todo' = streams
      /\ written' = Append(written, mine)
      /\ pc = "idle" /\ pc' = "stripe"
      /\ file' = file /\ fileSize' = fileSize
      /\ UNCHANGED <<stripeGroupIndices, stripeGroupIndex, stripeGroups,
                     optionalSections, stripes>>
  BY DEF WriteStripe, fileVars
<1>3. /\ streams \in Seq(Stream) /\ StreamCount(streams) \in Nat
      /\ \A j \in DOMAIN streams : streams[j].offset < StreamCount(streams)
      /\ \A i, j \in DOMAIN streams : streams[i].offset = streams[j].offset => i = j
  BY StreamCountBounds
<1>4. /\ zeroes \in Seq(Nat) /\ Len(zeroes) = StreamCount(streams)
      /\ \A e \in 1..Len(zeroes) : zeroes[e] = 0
  BY <1>3
<1>5. mine \in SUBSET Stream
  BY <1>3
<1>6. /\ file \in Seq(ExtentType) /\ fileSize \in Nat
      /\ stripeOffsets \in Seq(Nat) /\ written \in Seq(SUBSET Stream)
      /\ streamOffsets \in Seq(Seq(Nat)) /\ streamSizes \in Seq(Seq(Nat))
      /\ stripeGroupIndices \in Seq(Nat)
      /\ n \in Nat /\ m \in Nat /\ Len(written) = m
      /\ Len(streamSizes) = n /\ Before \in Nat /\ Before + n = m
      /\ stripeGroupIndex \in Nat /\ Len(stripeGroupIndices) \in Nat
  BY <1>1, WriterTypes, BeforeNat DEF Content, WrittenOK
<1> HIDE DEF zeroes
<1>7. /\ Len(stripeOffsets') = m + 1 /\ stripeOffsets'[m + 1] = fileSize
      /\ \A i \in 1..m : stripeOffsets'[i] = stripeOffsets[i]
      /\ Len(written') = m + 1 /\ written'[m + 1] = mine
      /\ \A i \in 1..m : written'[i] = written[i]
      /\ stripeOffsets' \in Seq(Nat)
  <2> HIDE DEF mine
  <2> QED  BY <1>2, <1>5, <1>6, AppendIsSeq
<1>8. /\ Len(streamOffsets') = n + 1 /\ streamOffsets'[n + 1] = zeroes
      /\ \A i \in 1..n : streamOffsets'[i] = streamOffsets[i]
      /\ Len(streamSizes') = n + 1 /\ streamSizes'[n + 1] = zeroes
      /\ \A i \in 1..n : streamSizes'[i] = streamSizes[i]
  BY <1>2, <1>4, <1>6, AppendIsSeq
<1>9. Before' = Before
  BY <1>6, <1>7, <1>8 DEF Before
<1>10. NonEmpty(file)'
  BY <1>1, <1>2 DEF Content, NonEmpty
<1>11. WrittenOK'
  <2>1. Distinct(mine)
    BY <1>3 DEF Distinct
  <2>2. \A i \in 1..m : Distinct(written[i])
    BY <1>1, <1>6 DEF Content, WrittenOK
  <2>3. \A i \in 1..Len(written') : Distinct(written'[i])
    <3> HIDE DEF mine, m
    <3> SUFFICES ASSUME NEW i \in 1..(m + 1) PROVE Distinct(written'[i])
      BY <1>7
    <3>1. i = m + 1 \/ i \in 1..m
      BY <1>6
    <3> QED  BY <1>7, <2>1, <2>2, <3>1
  <2>4. \A j \in DOMAIN todo' : todo'[j] \in written'[Len(written')]
    BY <1>2, <1>7
  <2>5. \A i, j \in DOMAIN todo' : todo'[i].offset = todo'[j].offset => i = j
    BY <1>2, <1>3
  <2>6. Len(written') = Len(stripeOffsets')
    BY <1>7
  <2> QED  BY <2>3, <2>4, <2>5, <2>6 DEF WrittenOK, Distinct
<1>12. OpenRowsHeld'
  <2>1. ASSUME NEW r \in 1..(n + 1)
        PROVE  RowHeld(file', Before + r, stripeOffsets'[Before + r],
                       written'[Before + r], streamOffsets'[r], streamSizes'[r],
                       Left(r)')
    <3>1. CASE r \in 1..n
      <4>1. Left(r) = {} /\ Left(r)' = {}
        BY <1>2, <1>6, <1>8, <3>1 DEF Left
      <4>2. RowHeld(file, Before + r, stripeOffsets[Before + r],
                    written[Before + r], streamOffsets[r], streamSizes[r], {})
        BY <1>1, <3>1, <4>1 DEF Content, OpenRowsHeld
      <4>3. Before + r \in 1..m
        BY <1>6, <3>1
      <4> HIDE DEF mine
      <4> QED  BY <1>2, <1>7, <1>8, <3>1, <4>1, <4>2, <4>3
    <3>2. CASE r = n + 1
      <4>1. Left(r)' = mine
        BY <1>2, <1>8, <3>2 DEF Left
      <4>2. \A s \in mine : s.offset < Len(zeroes)
        BY <1>3, <1>4
      <4>3. RowHeld(file', m + 1, fileSize, mine, zeroes, zeroes, mine)
        <5> HIDE DEF mine
        <5> QED  BY <1>4, <4>2 DEF RowHeld
      <4>4. Before + r = m + 1
        <5> HIDE DEF n, m
        <5> QED  BY <1>6, <3>2
      <4> HIDE DEF mine
      <4> QED  BY <1>7, <1>8, <3>2, <4>1, <4>3, <4>4
    <3> QED  BY <1>6, <3>1, <3>2
  <2> QED  BY <1>8, <1>9, <2>1 DEF OpenRowsHeld
<1>13. GroupsHeld'
  <2>1. file' = file \o <<>> /\ <<>> \in Seq(ExtentType)
    <3> HIDE DEF ExtentType
    <3> QED  BY <1>2, <1>6
  <2>2. \A i \in 1..Len(stripeGroupIndices') : ~(i > Len(stripeGroupIndices))
    BY <1>2, <1>6
  <2>3. \A i \in 1..Len(stripeOffsets) :
          stripeOffsets'[i] = stripeOffsets[i] /\ written'[i] = written[i]
    BY <1>7
  <2>4. /\ stripeGroupIndices' \in Seq(Nat)
        /\ Len(stripeGroupIndices) <= Len(stripeGroupIndices')
        /\ \A i \in 1..Len(stripeGroupIndices) :
             stripeGroupIndices'[i] = stripeGroupIndices[i]
        /\ \A g \in 0..(stripeGroupIndex - 1) : stripeGroups'[g + 1] = stripeGroups[g + 1]
    BY <1>2, <1>6
  <2>5. \A g \in 0..(stripeGroupIndex - 1) :
          GroupHeld(file', stripeOffsets', written', stripeGroupIndices', g,
                    stripeGroups'[g + 1])
    BY <1>7, <2>1, <2>2, <2>3, <2>4, GroupsKept
  <2> QED  BY <1>2, <2>5 DEF GroupsHeld
<1>14. SectionsHeld'
  BY <1>1, <1>2 DEF Content, SectionsHeld
<1>15. StripesHeld' /\ PostscriptHeld'
  BY <1>1, <1>2 DEF Content, StripesHeld, PostscriptHeld
<1>. QED  BY <1>10, <1>11, <1>12, <1>13, <1>14, <1>15 DEF Content

(* writeStripe appends a stream: its entry leads to the new extent.        *)
LEMMA WriteStreamContent ==
    ASSUME WriterInv, WriteStream
    PROVE  Content'
<1> DEFINE s == Head(todo)
           n == Len(streamOffsets)
           m == Len(stripeOffsets)
           start == stripeOffsets[m]
           payload == StreamPayload(m, s.offset)
           x == Extent(payload, s.size, "Uncompressed")
<1>1. TypeInv /\ GroupInv /\ Content /\ TypeOK
  BY DEF WriterInv, TypeInv
<1>2. /\ pc = "stripe" /\ pc' = "stripe" /\ todo # <<>>
      /\ file' = file \o x /\ fileSize' = fileSize + s.size
      /\ streamOffsets' = [streamOffsets EXCEPT
           ![n] = [@ EXCEPT ![s.offset + 1] = fileSize - start]]
      /\ streamSizes' = [streamSizes EXCEPT
           ![n] = [@ EXCEPT ![s.offset + 1] = s.size]]
      /\ todo' = Tail(todo)
      /\ UNCHANGED <<stripeOffsets, stripeGroupIndices, stripeGroupIndex,
                     stripeGroups, optionalSections, stripes, written>>
  BY DEF WriteStream, WriteWithChecksum, stripeVars, StreamPayload
<1>3. /\ file \in Seq(ExtentType) /\ fileSize \in Nat
      /\ stripeOffsets \in Seq(Nat) /\ written \in Seq(SUBSET Stream)
      /\ streamOffsets \in Seq(Seq(Nat)) /\ streamSizes \in Seq(Seq(Nat))
      /\ todo \in Seq(Stream)
      /\ n \in Nat /\ m \in Nat /\ Len(written) = m
      /\ Len(streamSizes) = n /\ Before \in Nat /\ Before + n = m
  BY <1>1, WriterTypes, BeforeNat DEF Content, WrittenOK
<1>4. n > 0 /\ m > 0 /\ start \in Nat /\ start <= fileSize
  <2>1. pc = "stripe"
    BY <1>2
  <2>2. n > 0 /\ m > 0 /\ start <= fileSize
    BY <1>1, <2>1 DEF TypeInv, Shape
  <2>3. m \in 1..Len(stripeOffsets) /\ stripeOffsets \in Seq(Nat)
    BY <1>3, <2>2
  <2>4. start \in Nat
    BY <2>3
  <2> QED  BY <2>2, <2>4
<1>5. /\ s \in Stream /\ s.size \in Nat /\ s.offset \in Nat
      /\ s.offset \in StreamIds /\ s = todo[1]
      /\ Tail(todo) \in Seq(Stream)
      /\ Len(todo) \in Nat /\ Len(Tail(todo)) = Len(todo) - 1
      /\ \A j \in 1..Len(Tail(todo)) : Tail(todo)[j] = todo[j + 1]
      /\ DOMAIN todo = 1..Len(todo) /\ DOMAIN Tail(todo) = 1..Len(Tail(todo))
      /\ Len(todo) > 0
  <2> HIDE DEF s
  <2>1. /\ Tail(todo) \in Seq(Stream) /\ Len(todo) > 0
        /\ Len(todo) \in Nat /\ Len(Tail(todo)) = Len(todo) - 1
        /\ \A j \in 1..Len(Tail(todo)) : Tail(todo)[j] = todo[j + 1]
        /\ DOMAIN todo = 1..Len(todo) /\ DOMAIN Tail(todo) = 1..Len(Tail(todo))
    BY <1>2, <1>3, HeadAndTail
  <2>2. s \in Stream /\ s = todo[1]
    BY <1>2, <1>3, HeadAndTail DEF s
  <2>3. s.size \in Nat /\ s.offset \in Nat /\ s.offset \in StreamIds
    BY <2>2, StreamFields
  <2> QED  BY <2>1, <2>2, <2>3
<1>6. payload \in Payload /\ "Uncompressed" \in Codec
  BY <1>3, <1>5 DEF Payload, StreamPayload, Codec
<1>7. /\ x \in Seq(ExtentType) /\ NonEmpty(file \o x)
      /\ s.size > 0 => Held(file \o x, [offset |-> fileSize, size |-> s.size,
                                        codec |-> "Uncompressed"], payload)
  <2>1. NonEmpty(file)
    BY <1>1 DEF Content
  <2> HIDE DEF payload, s
  <2> QED  BY <1>1, <1>5, <1>6, <2>1, AppendHeld
<1> HIDE DEF x, s
<1>8. /\ WrittenOK /\ OpenRowsHeld /\ StripesHeld
  BY <1>1 DEF Content
<1>9. /\ s \in written[m] /\ Distinct(written[m]) /\ written[m] \in SUBSET Stream
      /\ \A j \in DOMAIN todo : todo[j] \in written[m]
      /\ \A i, j \in DOMAIN todo : todo[i].offset = todo[j].offset => i = j
  <2>1. m \in 1..Len(written)
    BY <1>3, <1>4
  <2>2. written[m] \in SUBSET Stream
    <3> HIDE DEF m
    <3> QED  BY <1>3, <2>1
  <2>3. Distinct(written[m])
    BY <1>8, <2>1 DEF WrittenOK
  <2>4. /\ \A j \in DOMAIN todo : todo[j] \in written[m]
        /\ \A i, j \in DOMAIN todo : todo[i].offset = todo[j].offset => i = j
    BY <1>2, <1>3, <1>8 DEF WrittenOK
  <2>5. s \in written[m]
    BY <1>5, <2>4
  <2> QED  BY <2>2, <2>3, <2>4, <2>5
<1>10. WrittenOK'
  <2>1. \A j \in 1..Len(Tail(todo)) : j + 1 \in DOMAIN todo
    BY <1>5
  <2>2. \A j \in DOMAIN todo' : todo'[j] \in written'[m]
    BY <1>2, <1>5, <1>9, <2>1
  <2>3. ASSUME NEW i \in DOMAIN todo', NEW j \in DOMAIN todo',
               todo'[i].offset = todo'[j].offset
        PROVE  i = j
    <3>1. i \in Nat /\ j \in Nat /\ i + 1 \in DOMAIN todo /\ j + 1 \in DOMAIN todo
      BY <1>2, <1>5, <2>1, <2>3
    <3>2. todo'[i] = todo[i + 1] /\ todo'[j] = todo[j + 1]
      BY <1>2, <1>5, <2>3
    <3>3. i + 1 = j + 1
      BY <1>9, <2>3, <3>1, <3>2
    <3> QED  BY <3>1, <3>3
  <2> QED  BY <1>2, <1>3, <1>8, <2>2, <2>3 DEF WrittenOK, Distinct
<1>11. Left(n)' = Left(n) \ {s} /\ Left(n) = {todo[j] : j \in DOMAIN todo}
  <2>1. n = Len(streamOffsets')
    BY <1>2, <1>3
  <2>2. Left(n) = {todo[j] : j \in DOMAIN todo}
    BY <1>2 DEF Left
  <2>3. Left(n)' = {Tail(todo)[j] : j \in DOMAIN Tail(todo)}
    BY <1>2, <2>1 DEF Left
  <2>4. ASSUME NEW t \in {Tail(todo)[j] : j \in DOMAIN Tail(todo)}
        PROVE  t \in {todo[j] : j \in DOMAIN todo} \ {s}
    <3>1. PICK j \in 1..Len(Tail(todo)) : t = todo[j + 1]
      BY <1>5, <2>4
    <3>2. j + 1 \in DOMAIN todo /\ 1 \in DOMAIN todo /\ j + 1 # 1
      BY <1>5, <3>1
    <3>3. t # s
      BY <1>5, <1>9, <3>1, <3>2
    <3> QED  BY <3>1, <3>2, <3>3
  <2>5. ASSUME NEW t \in {todo[j] : j \in DOMAIN todo} \ {s}
        PROVE  t \in {Tail(todo)[j] : j \in DOMAIN Tail(todo)}
    <3>1. PICK j \in DOMAIN todo : t = todo[j]
      BY <2>5
    <3>2. j # 1
      BY <1>5, <2>5, <3>1
    <3>3. j - 1 \in 1..Len(Tail(todo)) /\ (j - 1) + 1 = j
      BY <1>5, <3>1, <3>2
    <3>4. Tail(todo)[j - 1] = t
      BY <1>5, <3>1, <3>3
    <3> QED  BY <1>5, <3>3, <3>4
  <2> QED  BY <2>2, <2>3, <2>4, <2>5
<1>12. OpenRowsHeld'
  <2>1. Len(streamOffsets') = n /\ Before' = Before
    BY <1>2, <1>3 DEF Before
  <2>2. ASSUME NEW r \in 1..n
        PROVE  RowHeld(file', Before + r, stripeOffsets[Before + r],
                       written[Before + r], streamOffsets'[r], streamSizes'[r],
                       Left(r)')
    <3>1. RowHeld(file, Before + r, stripeOffsets[Before + r],
                  written[Before + r], streamOffsets[r], streamSizes[r], Left(r))
      BY <1>8, <2>2 DEF OpenRowsHeld
    <3>2. CASE r # n
      <4>1. Left(r) = {} /\ Left(r)' = {}
        BY <2>1, <3>2 DEF Left
      <4>2. streamOffsets'[r] = streamOffsets[r] /\ streamSizes'[r] = streamSizes[r]
        BY <1>2, <1>3, <2>2, <3>2
      <4>3. RowHeld(file \o x, Before + r, stripeOffsets[Before + r],
                    written[Before + r], streamOffsets[r], streamSizes[r], Left(r))
        BY <1>3, <1>7, <3>1, RowGrows
      <4> QED  BY <1>2, <4>1, <4>2, <4>3
    <3>3. CASE r = n
      <4>1. Before + r = m
        BY <1>3, <3>3
      <4>2. /\ streamOffsets'[n] =
                 [streamOffsets[n] EXCEPT ![s.offset + 1] = fileSize - start]
            /\ streamSizes'[n] = [streamSizes[n] EXCEPT ![s.offset + 1] = s.size]
        <5>1. n \in DOMAIN streamOffsets
          BY <1>3, <1>4, SMTT(30)
        <5>2. n \in DOMAIN streamSizes
          BY <1>3, <1>4
        <5> HIDE DEF n, start
        <5>3. streamOffsets'[n] =
                [streamOffsets[n] EXCEPT ![s.offset + 1] = fileSize - start]
          BY <1>2, <5>1
        <5>4. streamSizes'[n] = [streamSizes[n] EXCEPT ![s.offset + 1] = s.size]
          BY <1>2, <5>2
        <5> QED  BY <5>3, <5>4
      <4>3. RowHeld(file, m, start, written[m], streamOffsets[n], streamSizes[n], Left(n))
        BY <3>1, <3>3, <4>1
      <4>4. /\ fileSize - start \in Nat
            /\ s.size > 0 => Held(file \o x, At(start, fileSize - start, s.size),
                                  StreamPayload(m, s.offset))
        <5> HIDE DEF start, m
        <5>1. fileSize - start \in Nat /\ start + (fileSize - start) = fileSize
          BY <1>3, <1>4
        <5> QED  BY <1>7, <5>1 DEF At, payload
      <4> DEFINE off == fileSize - start
                 a == streamOffsets[n]
                 b == streamSizes[n]
                 w == written[m]
                 l == Left(n)
      <4> HIDE DEF m, start, off, a, b, w, l
      <4>5. RowHeld(file \o x, m, start, w, [a EXCEPT ![s.offset + 1] = off],
                    [b EXCEPT ![s.offset + 1] = s.size], l \ {s})
        BY <1>3, <1>7, <1>9, <4>3, <4>4, RowWritten DEF off, a, b, w, l
      <4>6. /\ streamOffsets'[r] = [a EXCEPT ![s.offset + 1] = off]
            /\ streamSizes'[r] = [b EXCEPT ![s.offset + 1] = s.size]
        BY <3>3, <4>2 DEF off, a, b
      <4>7. stripeOffsets[Before + r] = start /\ written[Before + r] = w
        BY <4>1 DEF start, w
      <4>8. Left(r)' = l \ {s}
        BY <1>11, <3>3, <2>1 DEF l, Left
      <4> QED  BY <1>2, <4>1, <4>5, <4>6, <4>7, <4>8
    <3> QED  BY <3>2, <3>3
  <2> QED  BY <1>2, <2>1, <2>2 DEF OpenRowsHeld
<1>13. GroupsHeld' /\ SectionsHeld'
  BY <1>2, <1>7, GroupsKeptAlone, SectionsKept
<1>14. StripesHeld' /\ PostscriptHeld'
  BY <1>2, <1>8 DEF StripesHeld, PostscriptHeld
<1>. QED  BY <1>2, <1>7, <1>10, <1>12, <1>13, <1>14 DEF Content, NonEmpty

(* tryWriteStripeGroup, called with the stripes of the open group complete *)
(* and `idx` the group indices recorded by then: the group it closes can   *)
(* be read back through its section.                                       *)
LEMMA FlushContent ==
    ASSUME WriterInv, NEW force, TryWriteStripeGroup(force),
           pc \in {"idle", "stripe"}, pc = "stripe" => todo = <<>>,
           pc' \in {"idle", "closeStripes"},
           UNCHANGED <<stripeOffsets, written, optionalSections, stripes>>,
           stripeGroupIndices' \in Seq(Nat),
           Len(stripeGroupIndices') = Len(stripeOffsets),
           Len(stripeGroupIndices) <= Len(stripeGroupIndices'),
           \A i \in 1..Len(stripeGroupIndices) :
               stripeGroupIndices'[i] = stripeGroupIndices[i],
           \A i \in 1..Len(stripeGroupIndices') :
               i > Len(stripeGroupIndices) => stripeGroupIndices'[i] = stripeGroupIndex,
           Grouped(stripeGroupIndices', Len(streamOffsets), stripeGroupIndex)
    PROVE  Content'
<1> DEFINE n == Len(streamOffsets)
<1>1. TypeInv /\ GroupInv /\ Content /\ TypeOK /\ NonEmpty(file)
      /\ WrittenOK /\ OpenRowsHeld /\ StripesHeld
  BY DEF WriterInv, TypeInv, Content
<1>2. /\ file \in Seq(ExtentType) /\ fileSize \in Nat
      /\ stripeOffsets \in Seq(Nat) /\ stripeGroups \in Seq(MetadataSection)
      /\ streamOffsets \in Seq(Seq(Nat)) /\ streamSizes \in Seq(Seq(Nat))
      /\ n \in Nat /\ Len(streamSizes) = n /\ Before \in Nat
      /\ Before + n = Len(stripeOffsets) /\ Len(stripeOffsets) \in Nat
      /\ stripeGroupIndex \in Nat
  BY <1>1, WriterTypes, BeforeNat
<1>3. Len(stripeGroups) = stripeGroupIndex
  BY <1>1 DEF GroupInv, GroupsMatchStripes
<1>4. \A r : Left(r) = {} /\ Left(r)' = {}
  BY DEF Left
<1>5. ASSUME NEW r \in 1..n
      PROVE  RowHeld(file, Before + r, stripeOffsets[Before + r],
                     written[Before + r], streamOffsets[r], streamSizes[r], {})
  BY <1>1, <1>4 DEF OpenRowsHeld
<1>6. WrittenOK'
  BY <1>1 DEF WrittenOK, Distinct
<1>7. StripesHeld' /\ PostscriptHeld'
  BY <1>1 DEF StripesHeld, PostscriptHeld
<1>8. ASSUME NEW x \in Seq(ExtentType), file' = file \o x,
             \A g \in 0..(stripeGroupIndex - 1) : stripeGroups'[g + 1] = stripeGroups[g + 1]
      PROVE  /\ \A g \in 0..(stripeGroupIndex - 1) :
                  GroupHeld(file', stripeOffsets', written', stripeGroupIndices', g,
                            stripeGroups'[g + 1])
             /\ SectionsHeld'
  <2>1. /\ stripeOffsets' \in Seq(Nat)
        /\ \A i \in 1..Len(stripeOffsets) :
             stripeOffsets'[i] = stripeOffsets[i] /\ written'[i] = written[i]
    BY <1>2
  <2> QED  BY <1>8, <2>1, GroupsKept, SectionsKept
<1>9. CASE UNCHANGED <<fileVars, meta>>
  <2>1. file' = file \o <<>> /\ <<>> \in Seq(ExtentType)
    <3> HIDE DEF ExtentType
    <3> QED  BY <1>2, <1>9 DEF fileVars
  <2>2. GroupsHeld' /\ SectionsHeld'
    BY <1>8, <1>9, <2>1 DEF GroupsHeld, meta
  <2>3. OpenRowsHeld'
    BY <1>4, <1>5, <1>9 DEF OpenRowsHeld, Before, fileVars, meta
  <2> QED  BY <1>1, <1>6, <1>7, <1>9, <2>2, <2>3 DEF Content, fileVars, NonEmpty
<1>10. CASE ~UNCHANGED <<fileVars, meta>>
  <2> DEFINE payload == StripeGroupPayload(streamOffsets, streamSizes)
             raw == StripeGroupRawSize(streamOffsets)
  <2>1. PICK enc \in Encodings(raw) :
          /\ CreateMetadataSection(payload, enc)
          /\ stripeGroups' = Append(stripeGroups, Section(enc))
    BY <1>10 DEF TryWriteStripeGroup
  <2>2. /\ streamOffsets # <<>> /\ stripeGroupIndex' = stripeGroupIndex + 1
        /\ streamOffsets' = <<>> /\ streamSizes' = <<>>
    BY <1>10 DEF TryWriteStripeGroup
  <2>3. raw \in Nat /\ raw > 0 /\ payload \in Payload
    <3>1. raw \in Nat /\ payload \in Payload
      BY <1>1, <2>2, StripeGroupType
    <3>2. MaxStreamCount(streamOffsets) \in Nat
      BY <1>1, <2>2, MaxStreamCountType
    <3>3. raw > 0
      <4>1. n * MaxStreamCount(streamOffsets) \in Nat
        BY <1>2, <3>2
      <4> QED  BY <1>2, <3>2, <4>1 DEF StripeGroupRawSize
    <3> QED  BY <3>1, <3>3
  <2> HIDE DEF payload, raw
  <2>4. /\ \E x \in Seq(ExtentType) : file' = file \o x
        /\ NonEmpty(file')
        /\ Section(enc).size > 0
        /\ Held(file', Section(enc), payload)
        /\ Section(enc) \in MetadataSection
    BY <1>1, <2>1, <2>3, SectionHeld
  <2>5. PICK x \in Seq(ExtentType) : file' = file \o x
    BY <2>4
  <2>6. /\ stripeGroups'[stripeGroupIndex + 1] = Section(enc)
        /\ \A g \in 0..(stripeGroupIndex - 1) : stripeGroups'[g + 1] = stripeGroups[g + 1]
    <3> HIDE DEF MetadataSection
    <3> QED  BY <1>2, <1>3, <2>1, <2>4, AppendIsSeq
  <2>7. /\ \A g \in 0..(stripeGroupIndex - 1) :
             GroupHeld(file', stripeOffsets', written', stripeGroupIndices', g,
                       stripeGroups'[g + 1])
        /\ SectionsHeld'
    BY <1>8, <2>5, <2>6
  <2>8. OpenRowsHeld'
    BY <2>2 DEF OpenRowsHeld
  <2>9. GroupHeld(file', stripeOffsets', written', stripeGroupIndices',
                  stripeGroupIndex, Section(enc))
    <3> DEFINE idx == stripeGroupIndices'
               begin == Before + 1
    <3>1. n > 0 /\ begin \in Nat \ {0}
      BY <1>2, <2>2, SMTT(30)
    <3>2. \A r \in 1..n : Len(streamOffsets[r]) <= MaxStreamOffset + 1
      BY <1>1 DEF TypeInv, Shape
    <3>3. {i \in 1..Len(idx) : idx[i] = stripeGroupIndex} = begin..(begin + n - 1)
      <4>1. \A i \in 1..Len(idx) : IF i > Len(idx) - n THEN idx[i] = stripeGroupIndex
                                                       ELSE idx[i] < stripeGroupIndex
        BY DEF Grouped
      <4>2. Len(idx) = Before + n /\ (\A i \in 1..Len(idx) : idx[i] \in Nat)
        <5>1. Len(idx) = Before + n
          BY <1>2
        <5>2. idx \in Seq(Nat)
          OBVIOUS
        <5> HIDE DEF idx, n
        <5> QED  BY <5>1, <5>2
      <4> HIDE DEF idx, n
      <4>3. ASSUME NEW i \in 1..Len(idx), idx[i] = stripeGroupIndex
            PROVE  i \in begin..(begin + n - 1)
        <5>1. i > Len(idx) - n
          BY <1>2, <4>1, <4>2, <4>3
        <5> QED  BY <1>2, <4>2, <5>1
      <4>4. ASSUME NEW i \in begin..(begin + n - 1)
            PROVE  i \in 1..Len(idx) /\ idx[i] = stripeGroupIndex
        <5>1. i \in 1..Len(idx) /\ i > Len(idx) - n
          BY <1>2, <4>2
        <5> QED  BY <4>1, <5>1
      <4> QED  BY <4>3, <4>4
    <3>4. ASSUME NEW r \in 1..n
          PROVE  RowHeld(file', begin + r - 1, stripeOffsets'[begin + r - 1],
                         written'[begin + r - 1], streamOffsets[r], streamSizes[r], {})
      <4>1. begin + r - 1 = Before + r
        BY <1>2
      <4>2. RowHeld(file \o x, Before + r, stripeOffsets[Before + r],
                    written[Before + r], streamOffsets[r], streamSizes[r], {})
        BY <1>2, <1>5, RowGrows
      <4> QED  BY <2>5, <4>1, <4>2
    <3> HIDE DEF idx, begin
    <3>5. GroupHeldAs(file', stripeOffsets', written', idx, stripeGroupIndex,
                      Section(enc), begin, streamOffsets, streamSizes)
      BY <1>2, <2>4, <3>1, <3>2, <3>3, <3>4 DEF GroupHeldAs, payload
    <3> QED  BY <3>5 DEF GroupHeld, idx
  <2>10. GroupsHeld'
    <3> SUFFICES ASSUME NEW g \in 0..stripeGroupIndex
                 PROVE  GroupHeld(file', stripeOffsets', written', stripeGroupIndices', g,
                                  stripeGroups'[g + 1])
      BY <1>2, <2>2 DEF GroupsHeld
    <3>1. g \in 0..(stripeGroupIndex - 1) \/ g = stripeGroupIndex
      BY <1>2
    <3> QED  BY <2>6, <2>7, <2>9, <3>1
  <2> QED  BY <1>6, <1>7, <2>4, <2>7, <2>8, <2>10 DEF Content, NonEmpty
<1>. QED  BY <1>9, <1>10

(* writeStripe ends: the group may be flushed.                             *)
LEMMA FinishStripeContent ==
    ASSUME WriterInv, FinishStripe
    PROVE  Content'
<1>1. TypeInv /\ GroupInv
  BY DEF WriterInv
<1>2. /\ pc = "stripe" /\ todo = <<>> /\ pc' = "idle" /\ TryWriteStripeGroup(FALSE)
      /\ stripeGroupIndices' = Append(stripeGroupIndices, stripeGroupIndex)
      /\ UNCHANGED <<stripeOffsets, written, optionalSections, stripes>>
  BY DEF FinishStripe
<1>3. /\ stripeGroupIndices \in Seq(Nat) /\ stripeGroupIndex \in Nat
      /\ Len(stripeGroupIndices) \in Nat /\ Len(stripeOffsets) \in Nat
      /\ Len(streamOffsets) \in Nat
  BY <1>1, WriterTypes
<1>4. /\ Grouped(stripeGroupIndices, Pending, stripeGroupIndex)
      /\ Len(stripeOffsets) = Len(stripeGroupIndices) + 1
      /\ Pending = Len(streamOffsets) - 1 /\ Pending \in Nat
  <2>1. /\ Grouped(stripeGroupIndices, Pending, stripeGroupIndex)
        /\ Len(stripeOffsets) = Len(stripeGroupIndices) + 1
        /\ Pending = Len(streamOffsets) - 1
    BY <1>1, <1>2 DEF GroupInv, GroupsMatchStripes, Counts, Pending
  <2> QED  BY <1>3, <2>1 DEF Grouped
<1>5. Grouped(stripeGroupIndices', Len(streamOffsets), stripeGroupIndex)
  <2>1. Grouped(Append(stripeGroupIndices, stripeGroupIndex), Pending + 1, stripeGroupIndex)
    BY <1>3, <1>4, GroupedAppend
  <2>2. Pending + 1 = Len(streamOffsets)
    BY <1>3, <1>4
  <2> QED  BY <1>2, <2>1, <2>2
<1>6. /\ stripeGroupIndices' \in Seq(Nat)
      /\ Len(stripeGroupIndices') = Len(stripeGroupIndices) + 1
      /\ stripeGroupIndices'[Len(stripeGroupIndices) + 1] = stripeGroupIndex
      /\ \A i \in 1..Len(stripeGroupIndices) :
            stripeGroupIndices'[i] = stripeGroupIndices[i]
  BY <1>2, <1>3, AppendIsSeq
<1>7. /\ Len(stripeGroupIndices') = Len(stripeOffsets)
      /\ Len(stripeGroupIndices) <= Len(stripeGroupIndices')
      /\ \A i \in 1..Len(stripeGroupIndices') :
            i > Len(stripeGroupIndices) => stripeGroupIndices'[i] = stripeGroupIndex
  BY <1>3, <1>4, <1>6
<1>. QED  BY <1>2, <1>5, <1>6, <1>7, FlushContent

(* close flushes the last group.                                           *)
LEMMA CloseGroupContent ==
    ASSUME WriterInv, CloseGroup
    PROVE  Content'
<1>1. TypeInv /\ GroupInv
  BY DEF WriterInv
<1>2. /\ pc = "idle" /\ pc' = "closeStripes" /\ TryWriteStripeGroup(TRUE)
      /\ UNCHANGED <<stripeGroupIndices, stripeOffsets, written, optionalSections,
                     stripes>>
  BY DEF CloseGroup, stripeVars
<1>3. /\ stripeGroupIndices \in Seq(Nat) /\ Len(stripeGroupIndices) \in Nat
      /\ Len(streamOffsets) \in Nat
  BY <1>1, WriterTypes
<1>4. /\ Grouped(stripeGroupIndices, Len(streamOffsets), stripeGroupIndex)
      /\ Len(stripeOffsets) = Len(stripeGroupIndices)
  BY <1>1, <1>2, <1>3 DEF GroupInv, GroupsMatchStripes, Counts, Pending
<1>5. \A i \in 1..Len(stripeGroupIndices) : ~(i > Len(stripeGroupIndices))
  BY <1>3
<1>6. /\ stripeGroupIndices' \in Seq(Nat)
      /\ Len(stripeGroupIndices') = Len(stripeOffsets)
      /\ Len(stripeGroupIndices) <= Len(stripeGroupIndices')
      /\ \A i \in 1..Len(stripeGroupIndices) :
            stripeGroupIndices'[i] = stripeGroupIndices[i]
      /\ \A i \in 1..Len(stripeGroupIndices') :
            i > Len(stripeGroupIndices) => stripeGroupIndices'[i] = stripeGroupIndex
      /\ Grouped(stripeGroupIndices', Len(streamOffsets), stripeGroupIndex)
  BY <1>2, <1>3, <1>4, <1>5
<1>. QED  BY <1>2, <1>6, FlushContent

(* Between stripes, an append leaves the open group as it is.              *)
LEMMA OpenRowsKept ==
    ASSUME WriterInv, NEW x \in Seq(ExtentType), file' = file \o x,
           UNCHANGED <<stripeOffsets, written, streamOffsets, streamSizes>>,
           pc # "stripe", pc' # "stripe"
    PROVE  OpenRowsHeld'
<1>1. OpenRowsHeld /\ file \in Seq(ExtentType) /\ Len(streamOffsets') = Len(streamOffsets)
      /\ Before' = Before
  BY WriterTypes DEF WriterInv, Content, Before
<1>2. \A r : Left(r) = {} /\ Left(r)' = {}
  BY DEF Left
<1>3. ASSUME NEW r \in 1..Len(streamOffsets)
      PROVE  RowHeld(file', Before + r, stripeOffsets[Before + r],
                     written[Before + r], streamOffsets[r], streamSizes[r], {})
  <2>1. RowHeld(file, Before + r, stripeOffsets[Before + r],
                written[Before + r], streamOffsets[r], streamSizes[r], {})
    BY <1>1, <1>2 DEF OpenRowsHeld
  <2> QED  BY <1>1, <2>1, RowGrows
<1>. QED  BY <1>1, <1>2, <1>3 DEF OpenRowsHeld

(* writeOptionalSection: the section holds what it was given.              *)
LEMMA WriteOptionalSectionContent ==
    ASSUME WriterInv, NEW name \in SectionNames, NEW size \in SectionSizes,
           WriteOptionalSection(name, size)
    PROVE  Content'
<1> DEFINE payload == OptionalPayload(name)
<1>1. PICK enc \in Encodings(size) :
        /\ CreateMetadataSection(payload, enc)
        /\ optionalSections' = [optionalSections EXCEPT ![name] = <<Section(enc)>>]
  BY DEF WriteOptionalSection, OptionalPayload
<1>2. /\ pc = "idle" /\ pc' = "idle"
      /\ UNCHANGED <<stripeGroupIndex, stripeGroups, streamOffsets, streamSizes,
                     stripeOffsets, stripeGroupIndices, stripes, todo, written>>
  BY DEF WriteOptionalSection, meta, stripeVars
<1>3. TypeOK /\ NonEmpty(file) /\ WrittenOK /\ SectionsHeld /\ StripesHeld
      /\ optionalSections \in SectionMaps
  BY DEF WriterInv, TypeInv, TypeOK, Content
<1>4. size \in Nat /\ payload \in Payload
  BY ConstantsAssumption DEF Payload, OptionalPayload
<1> HIDE DEF payload
<1>5. /\ \E x \in Seq(ExtentType) : file' = file \o x
      /\ NonEmpty(file')
      /\ Section(enc).size = enc.size
      /\ enc.size > 0 => Held(file', Section(enc), payload)
      /\ file \in Seq(ExtentType)
  BY <1>1, <1>3, <1>4, SectionHeld
<1>6. PICK x \in Seq(ExtentType) : file' = file \o x
  BY <1>5
<1>7. OpenRowsHeld' /\ GroupsHeld'
  BY <1>2, <1>6, OpenRowsKept, GroupsKeptAlone
<1>8. SectionsHeld'
  <2> SUFFICES ASSUME NEW other \in SectionNames, optionalSections'[other] # <<>>,
                      optionalSections'[other][1].size > 0
               PROVE  Held(file', optionalSections'[other][1], OptionalPayload(other))
    BY DEF SectionsHeld
  <2>1. CASE other = name
    <3>1. optionalSections'[name] = <<Section(enc)>>
      BY <1>1, <1>3 DEF SectionMaps
    <3> HIDE DEF Section
    <3>2. optionalSections'[name][1] = Section(enc)
      BY <3>1
    <3> QED  BY <1>5, <2>1, <3>2 DEF payload
  <2>2. CASE other # name
    <3>1. optionalSections'[other] = optionalSections[other]
      BY <1>1, <1>3, <2>2 DEF SectionMaps
    <3>2. Held(file, optionalSections[other][1], OptionalPayload(other))
      BY <1>3, <3>1 DEF SectionsHeld
    <3> QED  BY <1>5, <1>6, <3>1, <3>2, HeldGrows
  <2> QED  BY <2>1, <2>2
<1>9. WrittenOK' /\ StripesHeld' /\ PostscriptHeld'
  BY <1>2, <1>3 DEF WrittenOK, Distinct, StripesHeld, PostscriptHeld
<1>. QED  BY <1>5, <1>7, <1>8, <1>9 DEF Content, NonEmpty

(* The payload of the stripes section has its type.                        *)
LEMMA StripesType ==
    ASSUME TypeInv
    PROVE  StripesPayload \in Payload
BY DEF StripesPayload, Payload, TypeInv, TypeOK

(* close writes the stripes section, if there are stripes.                 *)
LEMMA CloseStripesContent ==
    ASSUME WriterInv, CloseStripes
    PROVE  Content'
<1>1. /\ pc = "closeStripes" /\ pc' = "closeFooter"
      /\ UNCHANGED <<stripeGroupIndex, stripeGroups, streamOffsets, streamSizes,
                     rowCounts, stripeSizes, stripeOffsets, stripeGroupIndices,
                     optionalSections, todo, written>>
  BY DEF CloseStripes, meta, stripeVars
<1>2. /\ TypeInv /\ TypeOK /\ NonEmpty(file) /\ WrittenOK /\ stripes = <<>>
      /\ file \in Seq(ExtentType) /\ stripeOffsets \in Seq(Nat)
  BY <1>1, WriterTypes DEF WriterInv, TypeInv, Content, StripesHeld
<1>3. ASSUME NEW x \in Seq(ExtentType), file' = file \o x
      PROVE  OpenRowsHeld' /\ GroupsHeld' /\ SectionsHeld'
  BY <1>1, <1>3, OpenRowsKept, GroupsKeptAlone, SectionsKept
<1>4. WrittenOK' /\ PostscriptHeld' /\ StripesPayload' = StripesPayload
  BY <1>1, <1>2 DEF WrittenOK, Distinct, PostscriptHeld, StripesPayload
<1>5. CASE stripeOffsets = <<>>
  <2>1. file' = file /\ stripes' = stripes
    BY <1>5 DEF CloseStripes, fileVars
  <2>2. file' = file \o <<>> /\ <<>> \in Seq(ExtentType)
    <3> HIDE DEF ExtentType
    <3> QED  BY <1>2, <2>1
  <2>3. StripesHeld'
    BY <1>1, <1>2, <1>5, <2>1 DEF StripesHeld
  <2> QED  BY <1>2, <1>3, <1>4, <2>1, <2>2, <2>3 DEF Content, NonEmpty
<1>6. CASE stripeOffsets # <<>>
  <2> DEFINE raw == 16 + 20 * Len(stripeOffsets)
  <2>1. PICK enc \in Encodings(raw) :
          CreateMetadataSection(StripesPayload, enc) /\ stripes' = <<Section(enc)>>
    BY <1>6 DEF CloseStripes
  <2>2. raw \in Nat /\ raw > 0
    BY <1>2
  <2> HIDE DEF raw
  <2>3. /\ \E x \in Seq(ExtentType) : file' = file \o x
        /\ NonEmpty(file')
        /\ Section(enc).size > 0
        /\ Held(file', Section(enc), StripesPayload)
    BY <1>2, <2>1, <2>2, SectionHeld, StripesType
  <2>4. stripes' # <<>> /\ stripes'[1] = Section(enc)
    <3> HIDE DEF Section
    <3> QED  BY <2>1
  <2>5. StripesHeld'
    BY <1>1, <1>4, <1>6, <2>3, <2>4 DEF StripesHeld
  <2> QED  BY <1>3, <1>4, <2>3, <2>5 DEF Content, NonEmpty
<1>. QED  BY <1>5, <1>6

(* close writes footer and postscript, the last bytes of the file.         *)
LEMMA CloseFooterContent ==
    ASSUME WriterInv, CloseFooter
    PROVE  Content'
<1>1. /\ pc = "closeFooter" /\ pc' = "closed"
      /\ UNCHANGED <<stripeGroupIndex, stripeGroups, streamOffsets, streamSizes,
                     rowCounts, stripeSizes, stripeOffsets, stripeGroupIndices,
                     optionalSections, stripes, todo, written>>
  BY DEF CloseFooter, meta, stripeVars
<1>2. /\ TypeInv /\ TypeOK /\ NonEmpty(file) /\ WrittenOK /\ StripesHeld
      /\ file \in Seq(ExtentType) /\ fileSize \in Nat /\ checksum \in Nat
  BY WriterTypes DEF WriterInv, TypeInv, TypeOK, Content
<1>3. PICK enc \in Encodings(FooterRawSize) :
        LET summed == checksum + enc.size + kPostscriptChecksumedSize
            ps == [kind |-> "Postscript",
                   footerSize |-> enc.size,
                   footerCompressionType |-> enc.codec,
                   checksum |-> summed]
        IN  /\ file' = file
                 \o Extent(FooterPayload, enc.size, enc.codec)
                 \o <<[offset |-> fileSize + enc.size,
                       size |-> kPostscriptSize,
                       payload |-> ps, codec |-> "Uncompressed"]>>
            /\ fileSize' = fileSize + enc.size + kPostscriptSize
  BY DEF CloseFooter
<1> DEFINE x == Extent(FooterPayload, enc.size, enc.codec)
           ps == [kind |-> "Postscript",
                  footerSize |-> enc.size,
                  footerCompressionType |-> enc.codec,
                  checksum |-> checksum + enc.size + kPostscriptChecksumedSize]
           e == [offset |-> fileSize + enc.size, size |-> kPostscriptSize,
                 payload |-> ps, codec |-> "Uncompressed"]
           f == file \o x
<1>4. file' = f \o <<e>> /\ fileSize' = fileSize + enc.size + kPostscriptSize
  BY <1>3
<1>5. FooterRawSize \in Nat /\ FooterPayload \in Payload
  BY <1>2, FooterType
<1>6. FooterRawSize > 0
  <2>1. Cardinality({n \in SectionNames : optionalSections[n] # <<>>}) \in Nat
    BY ConstantsAssumption, FS_Subset, FS_CardinalityType
  <2> QED  BY <1>2, <2>1, SMTT(30) DEF FooterRawSize, TypeInv, TypeOK
<1>7. enc.size \in Nat /\ enc.codec \in Codec /\ enc.size > 0
  <2>1. enc \in [size : Nat, codec : Codec]
    BY <1>5, EncodingsType
  <2>2. enc.size > 0
    BY <1>5, <1>6, ConstantsAssumption DEF Encodings
  <2> QED  BY <2>1, <2>2
<1>8. /\ x \in Seq(ExtentType) /\ f \in Seq(ExtentType) /\ NonEmpty(f)
      /\ Held(f, [offset |-> fileSize, size |-> enc.size, codec |-> enc.codec],
              FooterPayload)
  BY <1>2, <1>5, <1>7, AppendHeld
<1>16. Len(f) >= 1 /\ f[Len(f)].offset = fileSize
  <2> DEFINE y == [offset |-> fileSize, size |-> enc.size,
                   payload |-> FooterPayload, codec |-> enc.codec]
  <2>1. x = <<y>> /\ y.offset = fileSize
    BY <1>7 DEF Extent
  <2>2. y \in ExtentType
    BY <1>2, <1>5, <1>7 DEF ExtentType
  <2> HIDE DEF y, x, ExtentType
  <2>3. f = Append(file, y)
    BY <1>2, <2>1, <2>2
  <2>4. Len(f) = Len(file) + 1 /\ f[Len(f)] = y /\ Len(file) \in Nat
    BY <1>2, <2>2, <2>3, AppendIsSeq
  <2> QED  BY <2>1, <2>4
<1>9. e \in ExtentType /\ e.size = 20
  <2>1. ps \in [kind : {"Postscript"}, footerSize : Nat,
                footerCompressionType : Codec, checksum : Nat]
    BY <1>2, <1>7 DEF kPostscriptChecksumedSize
  <2>2. ps \in Payload
    <3> HIDE DEF ps
    <3> QED  BY <2>1 DEF Payload
  <2> HIDE DEF ps
  <2> QED  BY <1>2, <1>7, <2>2 DEF ExtentType, Codec, kPostscriptSize
<1> HIDE DEF x, f, e
<1>10. /\ file' = file \o (x \o <<e>>) /\ x \o <<e>> \in Seq(ExtentType)
       /\ <<e>> \in Seq(ExtentType)
       /\ Len(file') = Len(f) + 1 /\ file'[Len(f) + 1] = e
       /\ \A i \in 1..Len(f) : file'[i] = f[i]
       /\ DOMAIN file' = 1..(Len(f) + 1) /\ Len(f) \in Nat /\ DOMAIN f = 1..Len(f)
  <2> HIDE DEF ExtentType
  <2>1. <<e>> \in Seq(ExtentType)
    BY <1>9
  <2>2. file' = file \o (x \o <<e>>)
    BY <1>2, <1>4, <1>8, <2>1, ConcatAssociative, SMTT(30) DEF f
  <2>3. x \o <<e>> \in Seq(ExtentType)
    BY <1>8, <2>1
  <2>4. /\ Len(file') = Len(f) + 1 /\ file'[Len(f) + 1] = e
        /\ \A i \in 1..Len(f) : file'[i] = f[i]
        /\ DOMAIN file' = 1..(Len(f) + 1) /\ Len(f) \in Nat /\ DOMAIN f = 1..Len(f)
    BY <1>4, <1>8, <2>1
  <2> QED  BY <2>1, <2>2, <2>3, <2>4
<1>11. OpenRowsHeld' /\ GroupsHeld' /\ SectionsHeld'
  BY <1>1, <1>10, OpenRowsKept, GroupsKeptAlone, SectionsKept
<1>12. NonEmpty(file)'
  <2>1. ASSUME NEW k \in DOMAIN file' PROVE file'[k].size > 0
    <3>1. CASE k = Len(f) + 1
      BY <1>9, <1>10, <3>1
    <3>2. CASE k \in 1..Len(f)
      BY <1>8, <1>10, <3>2 DEF NonEmpty
    <3> QED  BY <1>10, <3>1, <3>2
  <2> QED  BY <2>1 DEF NonEmpty
<1>13. WrittenOK'
  BY <1>1, <1>2 DEF WrittenOK, Distinct
<1>14. StripesHeld'
  <2>1. StripesPayload' = StripesPayload
    BY <1>1 DEF StripesPayload
  <2>2. CASE stripeOffsets = <<>>
    BY <1>1, <1>2, <2>2 DEF StripesHeld
  <2>3. CASE stripeOffsets # <<>>
    <3>1. stripes # <<>> /\ stripes[1].size > 0 /\ Held(file, stripes[1], StripesPayload)
      BY <1>1, <1>2, <2>3 DEF StripesHeld
    <3>2. Held(file', stripes[1], StripesPayload)
      BY <1>2, <1>10, <3>1, HeldGrows
    <3> QED  BY <1>1, <2>1, <2>3, <3>1, <3>2 DEF StripesHeld
  <2> QED  BY <2>2, <2>3
<1>15. PostscriptHeld'
  <2>1. FooterPayload' = FooterPayload
    BY <1>1 DEF FooterPayload
  <2>2. /\ fileSize' - kPostscriptSize = fileSize + enc.size
        /\ fileSize' - kPostscriptSize - enc.size = fileSize
        /\ fileSize' >= kPostscriptSize + enc.size
    BY <1>2, <1>4, <1>7 DEF kPostscriptSize
  <2>3. Held(file', [offset |-> fileSize + enc.size, size |-> kPostscriptSize,
                     codec |-> "Uncompressed"], ps)
    <3>1. Len(f) + 1 \in DOMAIN file'
      BY <1>10
    <3> QED  BY <1>10, <3>1 DEF Held, e
  <2>4. Held(file', [offset |-> fileSize, size |-> enc.size, codec |-> enc.codec],
             FooterPayload)
    BY <1>4, <1>8, <1>10, HeldGrows
  <2>5. ps.footerSize = enc.size /\ ps.footerCompressionType = enc.codec
    OBVIOUS
  <2> HIDE DEF ps
  <2>6. PostscriptHeldAs(file', fileSize', FooterPayload', ps)
    <3>1. Held(file', [offset |-> fileSize' - kPostscriptSize,
                       size |-> kPostscriptSize, codec |-> "Uncompressed"], ps)
      BY <2>2, <2>3
    <3>2. ps.footerSize \in Nat \ {0} /\ fileSize' >= kPostscriptSize + ps.footerSize
      BY <1>7, <2>2, <2>5
    <3>3. Held(file', [offset |-> fileSize' - kPostscriptSize - ps.footerSize,
                       size |-> ps.footerSize,
                       codec |-> ps.footerCompressionType], FooterPayload')
      BY <2>1, <2>2, <2>4, <2>5
    <3>4. file'[Len(file') - 1].offset = fileSize' - kPostscriptSize - ps.footerSize
      <4>1. Len(file') - 1 = Len(f) /\ Len(f) \in 1..Len(f)
        BY <1>10, <1>16
      <4>2. file'[Len(file') - 1] = f[Len(f)]
        BY <1>10, <4>1
      <4> QED  BY <1>16, <2>2, <2>5, <4>2
    <3> QED  BY <3>1, <3>2, <3>3, <3>4 DEF PostscriptHeldAs
  <2> QED  BY <2>6 DEF PostscriptHeld
<1>. QED  BY <1>11, <1>12, <1>13, <1>14, <1>15 DEF Content

(* A step that changes nothing.                                            *)
LEMMA ContentStutters ==
    ASSUME Content, UNCHANGED vars
    PROVE  Content'
<1>1. UNCHANGED <<file, fileSize, rowCounts, stripeOffsets, stripeSizes,
                  stripeGroupIndices, streamOffsets, streamSizes, stripeGroupIndex,
                  stripeGroups, optionalSections, stripes, pc, todo, written>>
  BY DEF vars, fileVars, meta, stripeVars
<1>2. NonEmpty(file)' /\ WrittenOK' /\ SectionsHeld' /\ GroupsHeld'
  BY <1>1 DEF Content, NonEmpty, WrittenOK, Distinct, SectionsHeld, GroupsHeld
<1>3. OpenRowsHeld'
  BY <1>1 DEF Content, OpenRowsHeld, Before, Left
<1>4. StripesPayload' = StripesPayload /\ FooterPayload' = FooterPayload
  BY <1>1 DEF StripesPayload, FooterPayload
<1>5. StripesHeld' /\ PostscriptHeld'
  BY <1>1, <1>4 DEF Content, StripesHeld, PostscriptHeld
<1>. QED  BY <1>2, <1>3, <1>5 DEF Content

(* The empty file.                                                         *)
LEMMA WriterInvInit == Init => WriterInv
<1> SUFFICES ASSUME Init PROVE WriterInv
  OBVIOUS
<1>1. TypeInv
  BY ConstantsAssumption DEF Init, TypeInv, TypeOK, Shape, SectionMaps
<1>2. GroupInv
  BY DEF Init, GroupInv, GroupsMatchStripes, Grouped, Counts, Pending
<1>3. Covered
  BY DEF Init, Covered, FileTiled, Tiles, ChecksumCoversFile
<1>4. /\ NonEmpty(file) /\ WrittenOK /\ OpenRowsHeld /\ GroupsHeld
      /\ SectionsHeld /\ StripesHeld /\ PostscriptHeld
  BY DEF Init, NonEmpty, WrittenOK, OpenRowsHeld, GroupsHeld, SectionsHeld,
         StripesHeld, PostscriptHeld
<1>. QED  BY <1>1, <1>2, <1>3, <1>4 DEF WriterInv, Content

(* Every step of the writer.                                               *)
LEMMA WriterInvStep == WriterInv /\ [Next]_vars => WriterInv'
<1> SUFFICES ASSUME WriterInv, [Next]_vars PROVE WriterInv'
  OBVIOUS
<1>1. TypeInv' /\ GroupInv' /\ Covered'
  BY TypeInvStep, GroupInvStep, CoveredStep DEF WriterInv
<1>2. Content'
  <2>1. ASSUME NEW rowCount \in RowCounts, NEW streams \in StreamLists,
               WriteStripe(rowCount, streams)
        PROVE  Content'
    BY <2>1, WriteStripeContent
  <2>2. CASE WriteStream
    BY <2>2, WriteStreamContent
  <2>3. CASE FinishStripe
    BY <2>3, FinishStripeContent
  <2>4. ASSUME NEW name \in SectionNames, NEW size \in SectionSizes,
               WriteOptionalSection(name, size)
        PROVE  Content'
    BY <2>4, WriteOptionalSectionContent
  <2>5. CASE CloseGroup
    BY <2>5, CloseGroupContent
  <2>6. CASE CloseStripes
    BY <2>6, CloseStripesContent
  <2>7. CASE CloseFooter
    BY <2>7, CloseFooterContent
  <2>8. CASE UNCHANGED vars
    BY <2>8, ContentStutters DEF WriterInv
  <2> QED  BY <2>1, <2>2, <2>3, <2>4, <2>5, <2>6, <2>7, <2>8 DEF Next
<1>. QED  BY <1>1, <1>2 DEF WriterInv

-----------------------------------------------------------------------------
(* Reading the file                                                        *)

(* Extents that tile the file and are not empty have different offsets.    *)
LEMMA OffsetsIncrease ==
    ASSUME NEW f \in Seq(ExtentType), NEW size, Tiles(f, size), NonEmpty(f),
           NEW j \in DOMAIN f, NEW k \in DOMAIN f, j < k
    PROVE  f[j].offset < f[k].offset
<1>1. \A i \in DOMAIN f : f[i].offset \in Nat /\ f[i].size \in Nat
  <2>1. \A i \in DOMAIN f : f[i] \in ExtentType
    <3> HIDE DEF ExtentType
    <3> QED  OBVIOUS
  <2> QED  BY <2>1 DEF ExtentType
<1>2. Len(f) \in Nat /\ DOMAIN f = 1..Len(f)
  <2> HIDE DEF ExtentType
  <2> QED  OBVIOUS
<1>3. \A i \in 1..(Len(f) - 1) :
        f[i + 1].offset = f[i].offset + f[i].size /\ f[i].size > 0
  <2>1. \A i \in 1..(Len(f) - 1) : i \in DOMAIN f
    BY <1>2
  <2> QED  BY <2>1 DEF Tiles, NonEmpty
<1> DEFINE T == {m \in Nat : j + m + 1 <= Len(f) => f[j].offset < f[j + m + 1].offset}
<1>4. 0 \in T
  <2>1. ASSUME j + 1 <= Len(f) PROVE f[j].offset < f[j + 1].offset
    <3>1. j \in 1..(Len(f) - 1)
      BY <1>2, <2>1
    <3>2. f[j + 1].offset = f[j].offset + f[j].size /\ f[j].size > 0
      BY <1>3, <3>1
    <3> QED  BY <1>1, <3>2
  <2>2. j + 0 + 1 = j + 1
    BY <1>2
  <2> QED  BY <2>1, <2>2
<1>5. ASSUME NEW m \in 1..Len(f), m - 1 \in T
      PROVE  m \in T
  <2> SUFFICES ASSUME j + m + 1 <= Len(f) PROVE f[j].offset < f[j + m + 1].offset
    OBVIOUS
  <2>1. j + (m - 1) + 1 = j + m /\ j + m <= Len(f) /\ j + m \in 1..(Len(f) - 1)
        /\ j + m \in DOMAIN f /\ j + m + 1 \in DOMAIN f
    BY <1>2
  <2>2. f[j].offset < f[j + m].offset
    BY <1>5, <2>1
  <2>3. f[j + m + 1].offset = f[j + m].offset + f[j + m].size /\ f[j + m].size > 0
    BY <1>3, <2>1
  <2>4. /\ f[j].offset \in Nat /\ f[j + m].offset \in Nat
        /\ f[j + m].size \in Nat
    BY <1>1, <2>1
  <2> QED  BY <2>2, <2>3, <2>4, SMTT(30)
<1>6. 0..Len(f) \subseteq T
  <2> HIDE DEF T
  <2> QED  BY <1>2, <1>4, <1>5, Climb
<1>7. k - j - 1 \in 0..Len(f) /\ j + (k - j - 1) + 1 = k
  BY <1>2
<1>8. k - j - 1 \in T
  BY <1>6, <1>7
<1>. QED  BY <1>2, <1>7, <1>8

(* A section that describes what one append wrote reads as it was written. *)
LEMMA HeldReads ==
    ASSUME WriterInv, NEW section, NEW p, Held(file, section, p),
           section.size # 0
    PROVE  MetadataBuffer(section) = p
<1>1. PICK k \in DOMAIN file :
        file[k] = [offset |-> section.offset, size |-> section.size,
                   payload |-> p, codec |-> section.codec]
  BY DEF Held
<1>2. /\ file \in Seq(ExtentType) /\ Tiles(file, fileSize) /\ NonEmpty(file)
  BY WriterTypes DEF WriterInv, Content, Covered, FileTiled
<1> DEFINE hits == {j \in DOMAIN file : /\ file[j].offset = section.offset
                                        /\ file[j].size = section.size
                                        /\ file[j].codec = section.codec}
<1>3. k \in hits
  BY <1>1
<1>4. ASSUME NEW j \in hits PROVE j = k
  <2>1. file[j].offset = file[k].offset
    BY <1>1, <1>4
  <2>2. file[k].offset \in Nat
    <3>1. file[k] \in ExtentType
      <4> HIDE DEF ExtentType
      <4> QED  BY <1>2
    <3> QED  BY <3>1 DEF ExtentType
  <2>3. j \in Int /\ k \in Int
    <3> HIDE DEF ExtentType
    <3> QED  BY <1>2
  <2>4. CASE j < k
    <3>1. file[j].offset < file[k].offset
      BY <1>2, <2>4, OffsetsIncrease
    <3> QED  BY <2>1, <2>2, <3>1
  <2>5. CASE k < j
    <3>1. file[k].offset < file[j].offset
      BY <1>2, <2>5, OffsetsIncrease
    <3> QED  BY <2>1, <2>2, <3>1
  <2> QED  BY <2>3, <2>4, <2>5
<1>5. (CHOOSE j \in hits : TRUE) = k
  BY <1>3, <1>4
<1>6. MetadataBuffer(section) = file[CHOOSE j \in hits : TRUE].payload
  BY <1>3 DEF MetadataBuffer
<1>7. file[k].payload = p
  BY <1>1
<1> HIDE DEF hits
<1>. QED  BY <1>5, <1>6, <1>7

(* The constructor finds the footer and the stripes section of a closed    *)
(* file.                                                                   *)
LEMMA FooterReads ==
    ASSUME WriterInv, pc = "closed"
    PROVE  /\ Footer = FooterPayload
           /\ Postscript.footerSize \in Nat
           /\ fileSize \in Nat
           /\ fileSize >= kPostscriptSize + Postscript.footerSize
           /\ file[Len(file) - 1].offset =
                fileSize - kPostscriptSize - Postscript.footerSize
           /\ Footer.stripes = stripes
           /\ Footer.stripe_groups = stripeGroups
           /\ Footer.optional_sections = optionalSections
           /\ stripes = <<>> <=> stripeOffsets = <<>>
           /\ stripeOffsets # <<>> => Stripes = StripesPayload
<1>1. PICK ps : PostscriptHeldAs(file, fileSize, FooterPayload, ps)
  BY DEF WriterInv, Content, PostscriptHeld
<1>2. Postscript = ps
  <2>1. kPostscriptSize # 0
    BY DEF kPostscriptSize
  <2> QED  BY <1>1, <2>1, HeldReads DEF Postscript, PostscriptHeldAs
<1>3. Footer = FooterPayload
  <2>1. ps.footerSize # 0
    BY <1>1 DEF PostscriptHeldAs
  <2> QED  BY <1>1, <1>2, <2>1, HeldReads DEF Footer, PostscriptHeldAs
<1>4. /\ Footer.stripes = stripes
      /\ Footer.stripe_groups = stripeGroups
      /\ Footer.optional_sections = optionalSections
  BY <1>3 DEF FooterPayload
<1>5. /\ fileSize \in Nat /\ Postscript.footerSize \in Nat
      /\ fileSize >= kPostscriptSize + Postscript.footerSize
      /\ file[Len(file) - 1].offset =
           fileSize - kPostscriptSize - Postscript.footerSize
  <2>1. fileSize \in Nat
    BY WriterTypes DEF WriterInv
  <2> QED  BY <1>1, <1>2, <2>1 DEF PostscriptHeldAs, kPostscriptSize
<1>6. StripesHeld
  BY DEF WriterInv, Content
<1>7. stripes = <<>> <=> stripeOffsets = <<>>
  BY <1>6 DEF StripesHeld
<1>8. ASSUME stripeOffsets # <<>> PROVE Stripes = StripesPayload
  <2>1. stripes[1].size > 0 /\ Held(file, stripes[1], StripesPayload)
    BY <1>6, <1>8 DEF StripesHeld
  <2>2. stripes[1].size # 0
    BY <2>1
  <2> QED  BY <1>4, <2>1, <2>2, HeldReads DEF Stripes
<1>. QED  BY <1>3, <1>4, <1>5, <1>7, <1>8

(* The consistency checks of the constructor do not fire, and the others   *)
(* fire when the initial read of `window` bytes starts behind the footer   *)
(* or behind the stripes section.                                          *)
LEMMA OpenErrors ==
    ASSUME WriterInv, pc = "closed", NEW window \in FooterWindows
    PROVE  OpenError(window) =
             IF file[Len(file) - 1].offset + window < fileSize
             THEN "Unexpected footer size"
             ELSE IF stripes # <<>> /\ stripes[1].offset + window < fileSize
             THEN "Incomplete stripes metadata."
             ELSE "none"
<1> DEFINE footerAt == file[Len(file) - 1].offset
           footerSize == Postscript.footerSize
           read == ReadSize(window)
<1>1. /\ Footer.stripes = stripes /\ Footer.stripe_groups = stripeGroups
      /\ stripes = <<>> <=> stripeOffsets = <<>>
      /\ stripeOffsets # <<>> => Stripes = StripesPayload
      /\ fileSize \in Nat /\ footerSize \in Nat
      /\ fileSize >= 20 + footerSize
      /\ footerAt = fileSize - 20 - footerSize
  BY FooterReads DEF kPostscriptSize
<1>2. window \in Nat /\ window >= 20
  BY ReaderAssumption DEF kPostscriptSize
<1>3. read = IF window <= fileSize THEN window ELSE fileSize
  BY DEF ReadSize
<1> HIDE DEF footerAt, footerSize, read
<1>4. /\ ~(read < 20)
      /\ footerSize + 20 > read <=> footerAt + window < fileSize
  BY <1>1, <1>2, <1>3
<1>5. CASE footerAt + window < fileSize
  BY <1>4, <1>5 DEF OpenError, kPostscriptSize, footerAt, footerSize, read
<1>6. CASE ~(footerAt + window < fileSize)
  <2> SUFFICES OpenError(window) =
                 IF stripes # <<>> /\ stripes[1].offset + window < fileSize
                 THEN "Incomplete stripes metadata."
                 ELSE "none"
    BY <1>6 DEF footerAt
  <2>1. ~(read < 20) /\ ~(footerSize + 20 > read)
    BY <1>4, <1>6
  <2>2. CASE stripes = <<>>
    BY <1>1, <2>1, <2>2 DEF OpenError, kPostscriptSize, footerSize, read
  <2>3. CASE stripes # <<>>
    <3> DEFINE n == Len(rowCounts)
    <3>1. /\ Len(stripeOffsets) = n /\ Len(stripeSizes) = n
          /\ Len(stripeGroupIndices) = n
          /\ n > 0 => Len(stripeGroups) = stripeGroupIndices[n] + 1
      BY ClosedStripes DEF WriterInv, ClosedFileReadable
    <3>2. n \in Nat /\ n > 0
      BY <1>1, <2>3, <3>1 DEF WriterInv, TypeInv, TypeOK
    <3>3. /\ Stripes.row_counts = rowCounts /\ Stripes.offsets = stripeOffsets
          /\ Stripes.sizes = stripeSizes /\ Stripes.group_indices = stripeGroupIndices
      BY <1>1, <2>3 DEF StripesPayload
    <3>4. stripeGroupIndices[n] \in Nat
      <4>1. stripeGroupIndices \in Seq(Nat)
        BY WriterTypes DEF WriterInv
      <4> HIDE DEF n
      <4> QED  BY <3>1, <3>2, <4>1
    <3>5. stripeGroups # <<>>
      BY <3>1, <3>2, <3>4
    <3>6. Fetched(Footer.stripes[1], window)
          <=> ~(stripes[1].offset + window < fileSize)
      <4>1. stripes[1].offset \in Nat
        <5>1. stripes \in Seq(MetadataSection)
          BY DEF WriterInv, TypeInv, TypeOK
        <5>2. stripes[1] \in MetadataSection
          BY <2>3, <5>1
        <5> QED  BY <5>2 DEF MetadataSection
      <4>2. Fetched(Footer.stripes[1], window)
            <=> stripes[1].offset + read >= fileSize
        BY <1>1 DEF Fetched, read
      <4> QED  BY <1>1, <1>2, <1>3, <4>1, <4>2
    <3>8. /\ Footer.stripes # <<>>
          /\ Footer.stripe_groups # <<>>
          /\ Len(Footer.stripe_groups) =
               Stripes.group_indices[Len(Stripes.group_indices)] + 1
          /\ Len(Stripes.row_counts) # 0
          /\ Len(Stripes.row_counts) = Len(Stripes.offsets)
          /\ Len(Stripes.row_counts) = Len(Stripes.sizes)
          /\ Len(Stripes.row_counts) = Len(Stripes.group_indices)
      BY <1>1, <2>3, <3>1, <3>2, <3>3, <3>5
    <3>9. ~(ReadSize(window) < 20) /\ ~(Postscript.footerSize + 20 > ReadSize(window))
      BY <2>1 DEF footerSize, read
    <3>7. OpenError(window) =
            IF ~Fetched(Footer.stripes[1], window)
            THEN "Incomplete stripes metadata." ELSE "none"
      BY ONLY <3>8, <3>9 DEF OpenError, kPostscriptSize
    <3> QED  BY <2>3, <3>6, <3>7
  <2> QED  BY <2>2, <2>3
<1>. QED  BY <1>5, <1>6

-----------------------------------------------------------------------------
(* Reading a stripe group                                                  *)

(* Multiplication by a natural number keeps the order.                     *)
LEMMA TimesMonotonic ==
    ASSUME NEW a \in Int, NEW b \in Int, NEW c \in Nat, a <= b
    PROVE  a * c <= b * c
<1>1. b - a \in Nat
  OBVIOUS
<1>2. (b - a) * c \in Nat
  BY <1>1
<1>3. (b - a) * c = b * c - a * c
  OBVIOUS
<1>. QED  BY <1>2, <1>3

(* Row and column of an entry of a flattened matrix.                       *)
LEMMA DivMod ==
    ASSUME NEW c \in Nat \ {0}, NEW q \in Nat, NEW i \in 0..(c - 1)
    PROVE  (q * c + i) \div c = q /\ (q * c + i) % c = i
<1> DEFINE a == q * c + i
           d == a \div c
           m == a % c
<1>1. a \in Nat /\ d \in Int /\ m \in 0..(c - 1) /\ a = c * d + m
  <2>1. a \in Nat
    OBVIOUS
  <2> HIDE DEF a
  <2> QED  BY <2>1
<1> HIDE DEF d, m
<1>2. c * d + m = c * q + i
  BY <1>1
<1>3. d = q
  <2>1. CASE d <= q - 1
    <3>1. c * d <= c * (q - 1)
      BY <1>1, <2>1
    <3>2. c * (q - 1) = c * q - c
      OBVIOUS
    <3> HIDE DEF a
    <3> QED  BY <1>1, <1>2, <3>1, <3>2
  <2>2. CASE d >= q + 1
    <3>1. c * d >= c * (q + 1)
      BY <1>1, <2>2
    <3>2. c * (q + 1) = c * q + c
      OBVIOUS
    <3> HIDE DEF a
    <3> QED  BY <1>1, <1>2, <3>1, <3>2
  <2> QED  BY <1>1, <2>1, <2>2
<1>4. m = i
  BY <1>1, <1>2, <1>3
<1>. QED  BY <1>3, <1>4 DEF d, m

(* Where createFlattenedVector puts an entry, and what it puts there.      *)
LEMMA FlattenRow ==
    ASSUME NEW source \in Seq(Seq(Nat)), NEW c \in Nat \ {0},
           NEW r \in 1..Len(source), NEW id \in 0..(c - 1)
    PROVE  CreateFlattenedVector(source, c)[(r - 1) * c + id + 1] =
               IF id < Len(source[r]) THEN source[r][id + 1] ELSE 0
<1> DEFINE k == (r - 1) * c + id + 1
           n == Len(source)
<1>1. n \in Nat /\ r - 1 \in Nat /\ (r - 1) * c \in Nat
  OBVIOUS
<1>2. k \in 1..(n * c)
  <2> DEFINE above == r * c
             all == n * c
             below == (r - 1) * c
  <2>1. r <= n
    OBVIOUS
  <2> HIDE DEF n
  <2>2. above <= all /\ all \in Int
    BY <1>1, <2>1, TimesMonotonic
  <2>3. below = above - c /\ below \in Nat /\ above \in Int
    BY <1>1
  <2> HIDE DEF above, all, below
  <2>4. below + id + 1 \in 1..all
    BY <2>2, <2>3
  <2> QED  BY <2>4 DEF all, below
<1>3. k - 1 = (r - 1) * c + id
  BY <1>1
<1>4. (k - 1) \div c = r - 1 /\ (k - 1) % c = id
  <2>1. ((r - 1) * c + id) \div c = r - 1 /\ ((r - 1) * c + id) % c = id
    BY <1>1, DivMod
  <2> QED  BY <1>3, <2>1
<1>5. ((k - 1) \div c) + 1 = r /\ ((k - 1) % c) + 1 = id + 1
  <2> HIDE DEF k
  <2> QED  BY <1>1, <1>4
<1>6. CreateFlattenedVector(source, c)[k] =
        IF id + 1 <= Len(source[r]) THEN source[r][id + 1] ELSE 0
  <2> HIDE DEF k
  <2> QED  BY <1>2, <1>5 DEF CreateFlattenedVector
<1>7. id + 1 <= Len(source[r]) <=> id < Len(source[r])
  <2>1. Len(source[r]) \in Nat
    OBVIOUS
  <2> QED  BY <2>1
<1>. QED  BY <1>6, <1>7

(* The first stripe of a group.                                            *)
LEMMA MinOfRange ==
    ASSUME NEW a \in Nat, NEW b \in Nat, a <= b
    PROVE  MinOf(a..b) = a
<1>1. a \in a..b /\ (\A y \in a..b : a <= y)
  OBVIOUS
<1>2. \A x \in a..b : (\A y \in a..b : x <= y) => x = a
  OBVIOUS
<1>. QED  BY <1>1, <1>2 DEF MinOf

(* What the reader finds in the group of a stripe: the row the writer put  *)
(* there for this stripe, whichever stripes share the group.               *)
RowRead(group, stripe, offsets, sizes) ==
    /\ RowHeld(file, stripe, stripeOffsets[stripe], written[stripe],
               offsets, sizes, {})
    /\ group.streamCount \in Nat
    /\ Len(sizes) <= group.streamCount
    /\ \A id \in Nat : id < group.streamCount =>
         /\ group.streamOffsets[EntryOf(group, stripe, id)] =
              IF id < Len(offsets) THEN offsets[id + 1] ELSE 0
         /\ group.streamSizes[EntryOf(group, stripe, id)] =
              IF id < Len(sizes) THEN sizes[id + 1] ELSE 0

(* The stripes section of a closed file reads as it was written.           *)
LEMMA StripesRead ==
    ASSUME WriterInv, pc = "closed", NEW stripe \in 1..Len(rowCounts)
    PROVE  /\ Stripes = StripesPayload
           /\ Stripes.group_indices = stripeGroupIndices
           /\ Stripes.offsets = stripeOffsets
           /\ stripe \in 1..Len(stripeOffsets)
           /\ stripe \in 1..Len(stripeGroupIndices)
           /\ stripe \in 1..Len(written)
<1>1. Len(stripeOffsets) = Len(rowCounts) /\ Len(stripeGroupIndices) = Len(rowCounts)
  BY ClosedStripes DEF WriterInv, ClosedFileReadable
<1>2. Len(written) = Len(stripeOffsets)
  BY DEF WriterInv, Content, WrittenOK
<1>3. stripeOffsets # <<>>
  BY <1>1
<1>4. Stripes = StripesPayload
  BY <1>3, FooterReads
<1>. QED  BY <1>1, <1>2, <1>4 DEF StripesPayload

(* The group a stripe names has the stripe's vectors at the stripe's row.  *)
LEMMA GroupReads ==
    ASSUME WriterInv, pc = "closed", NEW stripe \in 1..Len(rowCounts)
    PROVE  \E offsets, sizes :
               RowRead(StripeGroup(Stripes.group_indices[stripe]), stripe,
                       offsets, sizes)
<1> DEFINE g == stripeGroupIndices[stripe]
           group == StripeGroup(g)
<1>1. Stripes.group_indices = stripeGroupIndices /\ stripe \in 1..Len(stripeGroupIndices)
      /\ stripeGroupIndices \in Seq(Nat)
  BY StripesRead, WriterTypes DEF WriterInv
<1>2. g \in 0..(stripeGroupIndex - 1)
  BY ClosedStripes DEF WriterInv
<1>3. GroupHeld(file, stripeOffsets, written, stripeGroupIndices, g, stripeGroups[g + 1])
  BY <1>2 DEF WriterInv, Content, GroupsHeld
<1>4. PICK begin, offsets, sizes :
        GroupHeldAs(file, stripeOffsets, written, stripeGroupIndices, g,
                    stripeGroups[g + 1], begin, offsets, sizes)
  BY <1>3 DEF GroupHeld
<1> DEFINE n == Len(offsets)
           c == MaxStreamCount(offsets)
           section == stripeGroups[g + 1]
           payload == StripeGroupPayload(offsets, sizes)
<1>5. /\ offsets \in Seq(Seq(Nat)) /\ sizes \in Seq(Seq(Nat))
      /\ n \in Nat /\ n > 0 /\ Len(sizes) = n
      /\ \A r \in 1..n : Len(offsets[r]) <= MaxStreamOffset + 1
      /\ begin \in Nat \ {0}
      /\ {i \in 1..Len(stripeGroupIndices) : stripeGroupIndices[i] = g}
            = begin..(begin + n - 1)
      /\ section.size > 0 /\ Held(file, section, payload)
      /\ \A r \in 1..n :
            RowHeld(file, begin + r - 1, stripeOffsets[begin + r - 1],
                    written[begin + r - 1], offsets[r], sizes[r], {})
  BY <1>4 DEF GroupHeldAs
<1> HIDE DEF g, section
<1>6. c \in Nat /\ (\A r \in 1..n : Len(offsets[r]) <= c)
  <2>1. offsets # <<>>
    BY <1>5
  <2> QED  BY <1>5, <2>1, MaxStreamCountBounds
<1>7. MetadataBuffer(Footer.stripe_groups[g + 1]) = payload
  <2>1. Footer.stripe_groups[g + 1] = section
    BY FooterReads DEF section
  <2>2. section.size # 0
    BY <1>5
  <2> HIDE DEF payload
  <2> QED  BY <1>5, <2>1, <2>2, HeldReads
<1>8. /\ payload.stripe_count = n
      /\ payload.stream_offsets = CreateFlattenedVector(offsets, c)
      /\ payload.stream_sizes = CreateFlattenedVector(sizes, c)
      /\ Len(payload.stream_offsets) = n * c
  <2>1. Len(CreateFlattenedVector(offsets, c)) = n * c
    <3> HIDE DEF c
    <3> QED  BY <1>5, <1>6, FlattenedType
  <2> HIDE DEF n
  <2> QED  BY <2>1 DEF StripeGroupPayload, n
<1>9. {i \in DOMAIN Stripes.group_indices : Stripes.group_indices[i] = g}
        = begin..(begin + n - 1)
  <2>1. DOMAIN stripeGroupIndices = 1..Len(stripeGroupIndices)
    BY <1>1
  <2> HIDE DEF n
  <2> QED  BY <1>1, <1>5, <2>1
<1>10. MinOf(begin..(begin + n - 1)) = begin
  <2>1. begin + n - 1 \in Nat /\ begin <= begin + n - 1
    BY <1>5
  <2> HIDE DEF n
  <2> QED  BY <1>5, <2>1, MinOfRange
<1>11. (n * c) \div n = c
  <2>1. n * c = c * n + 0 /\ 0 \in 0..(n - 1) /\ n \in Nat \ {0}
    <3> HIDE DEF n, c
    <3> QED  BY <1>5, <1>6
  <2>2. (c * n + 0) \div n = c
    <3> HIDE DEF n, c
    <3> QED  BY <1>6, <2>1, DivMod
  <2> QED  BY <2>1, <2>2
<1>12. /\ group.streamCount = c /\ group.firstStripe = begin
       /\ group.streamOffsets = CreateFlattenedVector(offsets, c)
       /\ group.streamSizes = CreateFlattenedVector(sizes, c)
  <2> HIDE DEF payload, c, n
  <2> QED  BY <1>7, <1>8, <1>9, <1>10, <1>11 DEF StripeGroup
<1> HIDE DEF group, payload
<1> DEFINE r == stripe - begin + 1
<1>13. r \in 1..n /\ begin + r - 1 = stripe /\ stripe - begin = r - 1
  <2>1. stripe \in begin..(begin + n - 1)
    <3>1. stripe \in {i \in 1..Len(stripeGroupIndices) : stripeGroupIndices[i] = g}
      BY <1>1 DEF g
    <3> QED  BY <1>5, <3>1
  <2> HIDE DEF n
  <2> QED  BY <1>5, <2>1
<1> HIDE DEF r, n, c
<1>14. RowHeld(file, stripe, stripeOffsets[stripe], written[stripe],
               offsets[r], sizes[r], {})
  BY <1>5, <1>13
<1>15. Len(sizes[r]) <= c /\ Len(offsets[r]) = Len(sizes[r])
  BY <1>6, <1>13, <1>14 DEF RowHeld
<1>16. ASSUME NEW id \in Nat, id < c
       PROVE  /\ group.streamOffsets[EntryOf(group, stripe, id)] =
                    IF id < Len(offsets[r]) THEN offsets[r][id + 1] ELSE 0
              /\ group.streamSizes[EntryOf(group, stripe, id)] =
                    IF id < Len(sizes[r]) THEN sizes[r][id + 1] ELSE 0
  <2>1. EntryOf(group, stripe, id) = (r - 1) * c + id + 1
    BY <1>12, <1>13 DEF EntryOf
  <2>2. id \in 0..(c - 1) /\ c \in Nat \ {0} /\ r \in 1..Len(offsets) /\ r \in 1..Len(sizes)
    BY <1>5, <1>6, <1>13, <1>16 DEF n
  <2>3. CreateFlattenedVector(offsets, c)[(r - 1) * c + id + 1] =
          IF id < Len(offsets[r]) THEN offsets[r][id + 1] ELSE 0
    BY <1>5, <2>2, FlattenRow
  <2>4. CreateFlattenedVector(sizes, c)[(r - 1) * c + id + 1] =
          IF id < Len(sizes[r]) THEN sizes[r][id + 1] ELSE 0
    BY <1>5, <2>2, FlattenRow
  <2> QED  BY <1>12, <2>1, <2>3, <2>4
<1>17. RowRead(group, stripe, offsets[r], sizes[r])
  BY <1>6, <1>12, <1>14, <1>15, <1>16 DEF RowRead
<1>18. StripeGroup(Stripes.group_indices[stripe]) = group
  BY <1>1 DEF group, g
<1>. QED  BY <1>17, <1>18

(* The written streams of a stripe, and the entry of each in its row.      *)
LEMMA StreamRead ==
    ASSUME WriterInv, pc = "closed", NEW stripe \in 1..Len(rowCounts),
           NEW id \in Nat,
           NEW offsets, NEW sizes,
           RowRead(StripeGroup(Stripes.group_indices[stripe]), stripe, offsets, sizes)
    PROVE  LoadStream(stripe, id) = WrittenStream(stripe, id)
<1> DEFINE group == StripeGroup(Stripes.group_indices[stripe])
           entry == EntryOf(group, stripe, id)
<1>1. /\ offsets \in Seq(Nat) /\ sizes \in Seq(Nat) /\ Len(offsets) = Len(sizes)
      /\ \A s \in written[stripe] : s.offset < Len(sizes)
      /\ \A s \in written[stripe] : sizes[s.offset + 1] = s.size
      /\ \A e \in 1..Len(sizes) : sizes[e] # 0 =>
            /\ \E s \in written[stripe] : s.offset = e - 1
            /\ Held(file, At(stripeOffsets[stripe], offsets[e], sizes[e]),
                    StreamPayload(stripe, e - 1))
  BY DEF RowRead, RowHeld
<1>2. Len(sizes) \in Nat /\ group.streamCount \in Nat /\ Len(sizes) <= group.streamCount
  BY <1>1 DEF RowRead
<1>3. \A s \in written[stripe] : s.offset \in Nat /\ s.size \in Nat
  <2>1. written[stripe] \in SUBSET Stream
    <3>1. written \in Seq(SUBSET Stream) /\ stripe \in 1..Len(written)
      BY StripesRead, WriterTypes DEF WriterInv
    <3> QED  BY <3>1
  <2> QED  BY <2>1, StreamFields
<1>4. id < group.streamCount =>
        /\ group.streamOffsets[entry] = IF id < Len(offsets) THEN offsets[id + 1] ELSE 0
        /\ group.streamSizes[entry] = IF id < Len(sizes) THEN sizes[id + 1] ELSE 0
  BY DEF RowRead
<1> HIDE DEF group
<1>5. CASE id < Len(sizes) /\ sizes[id + 1] # 0
  <2>1. /\ id < group.streamCount /\ id + 1 \in 1..Len(sizes) /\ (id + 1) - 1 = id
    BY <1>2, <1>5
  <2>2. group.streamSizes[entry] = sizes[id + 1] /\ group.streamOffsets[entry] = offsets[id + 1]
    BY <1>1, <1>4, <1>5, <2>1
  <2>3. PICK s \in written[stripe] : s.offset = id
    BY <1>1, <1>5, <2>1
  <2>4. s.size > 0
    <3>1. sizes[id + 1] = s.size
      BY <1>1, <2>3
    <3>2. s.size \in Nat
      BY <1>3
    <3> QED  BY <1>5, <3>1, <3>2
  <2>5. WrittenStream(stripe, id) = StreamPayload(stripe, id)
    BY <2>3, <2>4 DEF WrittenStream, StreamPayload
  <2> DEFINE where == At(stripeOffsets[stripe], offsets[id + 1], sizes[id + 1])
  <2>6. Held(file, where, StreamPayload(stripe, id)) /\ where.size # 0
    <3>1. Held(file, where, StreamPayload(stripe, (id + 1) - 1))
      BY <1>1, <1>5, <2>1
    <3>2. where.size = sizes[id + 1]
      BY DEF At
    <3> QED  BY <1>5, <2>1, <3>1, <3>2
  <2>7. MetadataBuffer(where) = StreamPayload(stripe, id)
    <3> HIDE DEF where
    <3> QED  BY <2>6, HeldReads
  <2>8. ~(id >= group.streamCount)
    BY <1>2, <2>1
  <2>9. LoadStream(stripe, id) = MetadataBuffer(where)
    <3>1. Stripes.offsets[stripe] = stripeOffsets[stripe]
      BY StripesRead
    <3> HIDE DEF entry
    <3> QED  BY <1>5, <2>2, <2>8, <3>1 DEF LoadStream, At, group, entry
  <2> QED  BY <2>5, <2>7, <2>9
<1>6. CASE ~(id < Len(sizes) /\ sizes[id + 1] # 0)
  <2>1. id >= group.streamCount \/ group.streamSizes[entry] = 0
    <3>1. CASE id < group.streamCount
      BY <1>4, <1>6, <3>1
    <3> QED  BY <1>2, <3>1
  <2>2. LoadStream(stripe, id) = NullPtr
    BY <2>1 DEF LoadStream, group, entry
  <2>3. ASSUME NEW s \in written[stripe], s.offset = id, s.size > 0
        PROVE  FALSE
    <3>1. s.offset < Len(sizes) /\ sizes[s.offset + 1] = s.size
      BY <1>1
    <3>2. s.size # 0
      BY <1>3, <2>3
    <3> QED  BY <1>6, <2>3, <3>1, <3>2
  <2>4. WrittenStream(stripe, id) = NullPtr
    BY <2>3 DEF WrittenStream
  <2> QED  BY <2>2, <2>4
<1>. QED  BY <1>5, <1>6

(* The size getTotalStreamSize adds for one id.                            *)
LEMMA SizeRead ==
    ASSUME WriterInv, pc = "closed", NEW stripe \in 1..Len(rowCounts),
           NEW id \in Nat,
           NEW offsets, NEW sizes,
           RowRead(StripeGroup(Stripes.group_indices[stripe]), stripe, offsets, sizes)
    PROVE  LET group == StripeGroup(Stripes.group_indices[stripe])
               mine == {x \in written[stripe] : x.offset = id}
           IN  (IF id >= group.streamCount THEN 0
                ELSE group.streamSizes[EntryOf(group, stripe, id)])
                 = IF mine = {} THEN 0 ELSE (CHOOSE x \in mine : TRUE).size
<1> DEFINE group == StripeGroup(Stripes.group_indices[stripe])
           mine == {x \in written[stripe] : x.offset = id}
           found == IF id >= group.streamCount THEN 0
                    ELSE group.streamSizes[EntryOf(group, stripe, id)]
           given == IF mine = {} THEN 0 ELSE (CHOOSE x \in mine : TRUE).size
<1>1. /\ sizes \in Seq(Nat) /\ Len(sizes) \in Nat
      /\ \A s \in written[stripe] : s.offset < Len(sizes)
      /\ \A s \in written[stripe] : sizes[s.offset + 1] = s.size
      /\ \A e \in 1..Len(sizes) : sizes[e] # 0 =>
            \E s \in written[stripe] : s.offset = e - 1
  BY DEF RowRead, RowHeld
<1>2. /\ group.streamCount \in Nat /\ Len(sizes) <= group.streamCount
      /\ id < group.streamCount =>
           group.streamSizes[EntryOf(group, stripe, id)] =
             IF id < Len(sizes) THEN sizes[id + 1] ELSE 0
  BY DEF RowRead
<1> HIDE DEF group
<1>3. found = IF id < Len(sizes) THEN sizes[id + 1] ELSE 0
  <2>1. CASE id < group.streamCount
    <3>1. ~(id >= group.streamCount)
      BY <1>2, <2>1
    <3> QED  BY <1>2, <2>1, <3>1
  <2>2. CASE id >= group.streamCount
    <3>1. ~(id < Len(sizes))
      BY <1>1, <1>2, <2>2
    <3> QED  BY <2>2, <3>1
  <2> QED  BY <1>2, <2>1, <2>2
<1> HIDE DEF found
<1>4. CASE mine # {}
  <2>1. PICK s : s = (CHOOSE x \in mine : TRUE) /\ s \in mine
    BY <1>4
  <2>2. id < Len(sizes) /\ sizes[id + 1] = s.size
    BY <1>1, <2>1
  <2> QED  BY <1>3, <1>4, <2>1, <2>2 DEF found, group
<1>5. CASE mine = {}
  <2>1. ASSUME id < Len(sizes) PROVE sizes[id + 1] = 0
    <3>1. id + 1 \in 1..Len(sizes) /\ (id + 1) - 1 = id
      BY <1>1, <2>1
    <3>2. \A s \in written[stripe] : s.offset # id
      BY <1>5
    <3> QED  BY <1>1, <3>1, <3>2
  <2> QED  BY <1>3, <1>5, <2>1 DEF found, group
<1>. QED  BY <1>4, <1>5

(* A load of a closed file returns what was written.                       *)
LEMMA LoadReads ==
    ASSUME WriterInv, pc = "closed", NEW stripe \in 1..Len(rowCounts),
           NEW ids \in IdLists
    PROVE  /\ \A i \in DOMAIN ids :
                LoadStream(stripe, ids[i]) = WrittenStream(stripe, ids[i])
           /\ GetTotalStreamSize(stripe, ids) =
                SumOf([i \in DOMAIN ids |->
                    LET s == {x \in written[stripe] : x.offset = ids[i]}
                    IN  IF s = {} THEN 0 ELSE (CHOOSE x \in s : TRUE).size])
<1>1. \A i \in DOMAIN ids : ids[i] \in Nat
  <2>1. MaxStreamOffset \in Nat /\ StreamIds \subseteq 0..MaxStreamOffset
        /\ UnknownStream \in Nat
    BY ConstantsAssumption, ReaderAssumption
  <2>2. StreamIds \cup {UnknownStream} \subseteq Nat
    BY <2>1
  <2>3. PICK n \in 0..2 : ids \in [1..n -> StreamIds \cup {UnknownStream}]
    BY DEF IdLists
  <2> QED  BY <2>2, <2>3
<1>2. PICK offsets, sizes :
        RowRead(StripeGroup(Stripes.group_indices[stripe]), stripe, offsets, sizes)
  BY GroupReads
<1>3. \A i \in DOMAIN ids :
        LoadStream(stripe, ids[i]) = WrittenStream(stripe, ids[i])
  BY <1>1, <1>2, StreamRead
<1> DEFINE group == StripeGroup(Stripes.group_indices[stripe])
           Found(id) == IF id >= group.streamCount THEN 0
                        ELSE group.streamSizes[EntryOf(group, stripe, id)]
           Given(id) == LET s == {x \in written[stripe] : x.offset = id}
                        IN  IF s = {} THEN 0 ELSE (CHOOSE x \in s : TRUE).size
<1>4. \A i \in DOMAIN ids : Found(ids[i]) = Given(ids[i])
  BY <1>1, <1>2, SizeRead
<1>5. GetTotalStreamSize(stripe, ids) = SumOf([i \in DOMAIN ids |-> Found(ids[i])])
  BY DEF GetTotalStreamSize
<1> HIDE DEF Found, Given
<1>6. [i \in DOMAIN ids |-> Found(ids[i])] = [i \in DOMAIN ids |-> Given(ids[i])]
  BY <1>4
<1>7. GetTotalStreamSize(stripe, ids) = SumOf([i \in DOMAIN ids |-> Given(ids[i])])
  BY <1>5, <1>6
<1>. QED  BY <1>3, <1>7 DEF Given

(* What an optional section reads as, cached or not.                       *)
SectionGiven(name) ==
    IF optionalSections[name][1].size = 0 THEN Empty ELSE OptionalPayload(name)

(* A section the footer names reads as it was written.                     *)
LEMMA SectionReads ==
    ASSUME WriterInv, pc = "closed", NEW name
    PROVE  /\ HasSection(name) <=> /\ name \in SectionNames
                                   /\ optionalSections[name] # <<>>
           /\ HasSection(name) =>
                MetadataBuffer(Footer.optional_sections[name][1]) = SectionGiven(name)
<1>1. Footer.optional_sections = optionalSections
  BY FooterReads
<1>2. HasSection(name) <=> name \in SectionNames /\ optionalSections[name] # <<>>
  BY <1>1 DEF HasSection
<1>3. ASSUME name \in SectionNames, optionalSections[name] # <<>>
      PROVE  MetadataBuffer(optionalSections[name][1]) = SectionGiven(name)
  <2> DEFINE section == optionalSections[name][1]
  <2>1. section.size \in Nat
    <3>1. optionalSections[name] \in Seq(MetadataSection)
      BY <1>3, WriterTypes DEF WriterInv, SectionMaps
    <3>2. section \in MetadataSection
      <4> HIDE DEF MetadataSection
      <4> QED  BY <1>3, <3>1
    <3> QED  BY <3>2 DEF MetadataSection
  <2>2. CASE section.size = 0
    BY <2>2 DEF MetadataBuffer, SectionGiven
  <2>3. CASE section.size # 0
    <3>1. section.size > 0
      BY <2>1, <2>3
    <3>2. Held(file, section, OptionalPayload(name))
      BY <1>3, <3>1 DEF WriterInv, Content, SectionsHeld
    <3> QED  BY <2>3, <3>2, HeldReads DEF SectionGiven
  <2> QED  BY <2>2, <2>3
<1>. QED  BY <1>1, <1>2, <1>3

-----------------------------------------------------------------------------
(* The reader                                                              *)

(* Once the file is closed, nothing the reader looks at changes.           *)
LEMMA ClosedStays == pc = "closed" => ~Next
BY DEF Next, WriteStripe, WriteStream, FinishStripe, WriteOptionalSection,
       CloseGroup, CloseStripes, CloseFooter

(* The reader is opened on a closed file, the cache holds what the         *)
(* sections hold, and the last result is what was written.                 *)
OpenOnClosed ==
    /\ reader.status # "unopened" => pc = "closed"
    /\ reader.status = "unopened" =>
         result.call = "none" /\ DOMAIN optionalSectionsCache = {}

CacheHeld ==
    \A name \in DOMAIN optionalSectionsCache :
        /\ name \in SectionNames
        /\ optionalSections[name] # <<>>
        /\ optionalSectionsCache[name] = SectionGiven(name)

ReaderInv ==
    /\ WriterInv
    /\ OpenOnClosed
    /\ CacheHeld
    /\ OpensUnlessMissed
    /\ ReadsReturnWritten

(* Before the writer has written and the reader has opened anything.       *)
LEMMA ReaderInvInit == ReaderInit => ReaderInv
<1> SUFFICES ASSUME ReaderInit PROVE ReaderInv
  OBVIOUS
<1>1. WriterInv
  BY WriterInvInit DEF ReaderInit
<1>2. OpenOnClosed /\ CacheHeld /\ OpensUnlessMissed /\ ReadsReturnWritten
  BY DEF ReaderInit, OpenOnClosed, CacheHeld, OpensUnlessMissed,
         ReadsReturnWritten, LoadReturnsWritten, TotalSizeIsWritten,
         SectionReturnsWritten
<1>. QED  BY <1>1, <1>2 DEF ReaderInv

(* A step of the reader leaves the file and the writer's state alone.      *)
LEMMA WriterIdle ==
    ASSUME WriterInv, UNCHANGED vars
    PROVE  /\ WriterInv'
           /\ UNCHANGED <<pc, written, optionalSections, file, fileSize, stripes>>
BY WriterInvStep DEF vars, fileVars

(* What was returned stays right while nothing is written.                 *)
LEMMA ResultKept ==
    ASSUME ReadsReturnWritten, UNCHANGED <<result, written, optionalSections>>
    PROVE  ReadsReturnWritten'
<1>1. LoadReturnsWritten'
  BY DEF ReadsReturnWritten, LoadReturnsWritten, WrittenStream
<1>2. TotalSizeIsWritten'
  BY DEF ReadsReturnWritten, TotalSizeIsWritten
<1>3. SectionReturnsWritten'
  BY DEF ReadsReturnWritten, SectionReturnsWritten
<1>. QED  BY <1>1, <1>2, <1>3 DEF ReadsReturnWritten

(* The writer goes on; the reader is not open then.                        *)
LEMMA WriterStep ==
    ASSUME ReaderInv, Next, UNCHANGED readerVars
    PROVE  ReaderInv'
<1>1. WriterInv'
  BY WriterInvStep DEF ReaderInv
<1>2. UNCHANGED <<reader, optionalSectionsCache, result>>
  BY DEF readerVars
<1>3. reader.status = "unopened"
  BY ClosedStays DEF ReaderInv, OpenOnClosed
<1>4. result.call = "none" /\ DOMAIN optionalSectionsCache = {}
  BY <1>3 DEF ReaderInv, OpenOnClosed
<1>5. OpenOnClosed' /\ CacheHeld' /\ OpensUnlessMissed'
  BY <1>2, <1>3, <1>4 DEF ReaderInv, OpenOnClosed, CacheHeld, OpensUnlessMissed
<1>6. ReadsReturnWritten'
  BY <1>2, <1>4 DEF ReadsReturnWritten, LoadReturnsWritten, TotalSizeIsWritten,
                    SectionReturnsWritten
<1>. QED  BY <1>1, <1>5, <1>6 DEF ReaderInv

(* The constructor, which may preload sections.                            *)
LEMMA OpenStep ==
    ASSUME ReaderInv, NEW window \in FooterWindows, NEW preload,
           Open(window, preload)
    PROVE  ReaderInv'
<1>1. pc = "closed" /\ reader.status = "unopened" /\ UNCHANGED vars
      /\ result' = result /\ WriterInv
  BY DEF Open, ReaderInv
<1>2. WriterInv' /\ UNCHANGED <<pc, written, optionalSections, file, fileSize,
                             stripes>>
  BY <1>1, WriterIdle
<1>3. OpenError(window) =
        IF file[Len(file) - 1].offset + window < fileSize
        THEN "Unexpected footer size"
        ELSE IF stripes # <<>> /\ stripes[1].offset + window < fileSize
        THEN "Incomplete stripes metadata."
        ELSE "none"
  BY <1>1, OpenErrors
<1>7. reader'.error = OpenError(window) /\ reader'.window = window
  BY DEF Open
<1>8. OpensUnlessMissed'
  BY <1>2, <1>3, <1>7 DEF OpensUnlessMissed, FooterMissed, StripesMissed
<1>4. ReadsReturnWritten'
  BY <1>1, <1>2, ResultKept DEF ReaderInv
<1>5. CASE OpenError(window) # "none"
  <2>1. /\ reader'.status = "failed"
        /\ optionalSectionsCache' = optionalSectionsCache
    BY <1>5 DEF Open
  <2>3. OpenOnClosed'
    BY <1>1, <1>2, <2>1 DEF OpenOnClosed
  <2>4. CacheHeld'
    BY <1>2, <2>1 DEF ReaderInv, CacheHeld, SectionGiven
  <2> QED  BY <1>2, <1>4, <1>8, <2>3, <2>4 DEF ReaderInv
<1>6. CASE OpenError(window) = "none"
  <2>1. reader'.status = "open"
    BY <1>6 DEF Open
  <2>2. optionalSectionsCache' =
          [n \in {m \in preload : HasSection(m)} |->
             MetadataBuffer(Footer.optional_sections[n][1])]
    BY <1>6 DEF Open
  <2>3. OpenOnClosed'
    BY <1>1, <1>2, <2>1 DEF OpenOnClosed
  <2>4. ASSUME NEW name \in DOMAIN optionalSectionsCache'
        PROVE  /\ name \in SectionNames
               /\ optionalSections'[name] # <<>>
               /\ optionalSectionsCache'[name] = SectionGiven(name)'
    <3>1. HasSection(name)
          /\ optionalSectionsCache'[name] =
               MetadataBuffer(Footer.optional_sections[name][1])
      BY <2>2, <2>4
    <3>2. /\ name \in SectionNames /\ optionalSections[name] # <<>>
          /\ MetadataBuffer(Footer.optional_sections[name][1]) = SectionGiven(name)
      BY <1>1, <3>1, SectionReads
    <3>3. SectionGiven(name)' = SectionGiven(name)
      BY <1>2 DEF SectionGiven
    <3> QED  BY <1>2, <3>1, <3>2, <3>3
  <2>5. CacheHeld'
    BY <2>4 DEF CacheHeld
  <2> QED  BY <1>2, <1>4, <1>8, <2>3, <2>5 DEF ReaderInv
<1>. QED  BY <1>5, <1>6

(* load, of any stripe and any list of streams.                            *)
LEMMA LoadStep ==
    ASSUME ReaderInv, NEW stripe, NEW ids \in IdLists, Load(stripe, ids)
    PROVE  ReaderInv'
<1>1. reader.status = "open" /\ UNCHANGED <<vars, reader, optionalSectionsCache>>
      /\ stripe \in 1..Len(rowCounts) /\ WriterInv
  BY DEF Load, ReaderInv
<1>2. pc = "closed"
  BY <1>1 DEF ReaderInv, OpenOnClosed
<1>3. WriterInv' /\ UNCHANGED <<pc, written, optionalSections, file, fileSize,
                             stripes>>
  BY <1>1, WriterIdle
<1>4. /\ result'.call = "load" /\ result'.stripe = stripe /\ result'.ids = ids
      /\ result'.streams = [i \in DOMAIN ids |-> LoadStream(stripe, ids[i])]
      /\ result'.total = GetTotalStreamSize(stripe, ids)
  BY DEF Load
<1>5. /\ \A i \in DOMAIN ids :
           LoadStream(stripe, ids[i]) = WrittenStream(stripe, ids[i])
      /\ GetTotalStreamSize(stripe, ids) =
           SumOf([i \in DOMAIN ids |->
               LET s == {x \in written[stripe] : x.offset = ids[i]}
               IN  IF s = {} THEN 0 ELSE (CHOOSE x \in s : TRUE).size])
  BY <1>1, <1>2, LoadReads
<1>6. LoadReturnsWritten'
  BY <1>3, <1>4, <1>5 DEF LoadReturnsWritten, WrittenStream
<1>7. TotalSizeIsWritten'
  BY <1>3, <1>4, <1>5 DEF TotalSizeIsWritten
<1>8. SectionReturnsWritten'
  BY <1>4 DEF SectionReturnsWritten
<1>9. OpenOnClosed' /\ CacheHeld' /\ OpensUnlessMissed'
  BY <1>1, <1>2, <1>3 DEF ReaderInv, OpenOnClosed, CacheHeld, OpensUnlessMissed,
                          FooterMissed, StripesMissed,
                          SectionGiven
<1>. QED  BY <1>3, <1>6, <1>7, <1>8, <1>9 DEF ReaderInv, ReadsReturnWritten

(* loadOptionalSection, from the cache or from the file.                   *)
LEMMA LoadOptionalSectionStep ==
    ASSUME ReaderInv, NEW name \in SectionNames \cup {UnknownSection},
           NEW keepCache, LoadOptionalSection(name, keepCache)
    PROVE  ReaderInv'
<1>1. reader.status = "open" /\ UNCHANGED <<vars, reader>> /\ WriterInv
  BY DEF LoadOptionalSection, Call, ReaderInv
<1>2. pc = "closed"
  BY <1>1 DEF ReaderInv, OpenOnClosed
<1>3. WriterInv' /\ UNCHANGED <<pc, written, optionalSections, file, fileSize,
                             stripes>>
  BY <1>1, WriterIdle
<1>4. OpenOnClosed' /\ OpensUnlessMissed'
  BY <1>1, <1>2, <1>3 DEF ReaderInv, OpenOnClosed, OpensUnlessMissed,
                          FooterMissed, StripesMissed
<1>5. CacheHeld'
  <2>1. /\ DOMAIN optionalSectionsCache' \subseteq DOMAIN optionalSectionsCache
        /\ \A n \in DOMAIN optionalSectionsCache' :
             optionalSectionsCache'[n] = optionalSectionsCache[n]
    BY DEF LoadOptionalSection
  <2> QED  BY <1>3, <2>1 DEF ReaderInv, CacheHeld, SectionGiven
<1>6. result'.call = "section" /\ result'.name = name
  BY DEF LoadOptionalSection
<1>7. result'.section = IF name \in SectionNames /\ optionalSections[name] # <<>>
                        THEN SectionGiven(name) ELSE NullOpt
  <2>1. CASE name \in DOMAIN optionalSectionsCache
    <3>1. result'.section = optionalSectionsCache[name]
      BY <2>1 DEF LoadOptionalSection
    <3> QED  BY <2>1, <3>1 DEF ReaderInv, CacheHeld
  <2>2. CASE name \notin DOMAIN optionalSectionsCache
    <3>1. result'.section =
            IF HasSection(name)
            THEN MetadataBuffer(Footer.optional_sections[name][1]) ELSE NullOpt
      BY <2>2 DEF LoadOptionalSection
    <3> QED  BY <1>1, <1>2, <3>1, SectionReads
  <2> QED  BY <2>1, <2>2
<1>8. SectionReturnsWritten'
  <2>1. UnknownSection \notin SectionNames
    BY ReaderAssumption
  <2> QED  BY <1>3, <1>6, <1>7, <2>1 DEF SectionReturnsWritten, SectionGiven,
                                        OptionalPayload
<1>9. LoadReturnsWritten' /\ TotalSizeIsWritten'
  BY <1>6 DEF LoadReturnsWritten, TotalSizeIsWritten
<1>. QED  BY <1>3, <1>4, <1>5, <1>8, <1>9 DEF ReaderInv, ReadsReturnWritten

(* In every reachable state of writer and reader: the file holds what the  *)
(* vectors of the writer describe, the cache holds what the file holds,    *)
(* and the last result is what was written.                                *)
THEOREM ReaderInvariant == ReaderSpec => []ReaderInv
<1>1. ReaderInv /\ [ReaderNext]_<<vars, readerVars>> => ReaderInv'
  <2> SUFFICES ASSUME ReaderInv, [ReaderNext]_<<vars, readerVars>> PROVE ReaderInv'
    OBVIOUS
  <2>1. CASE Next /\ UNCHANGED readerVars
    BY <2>1, WriterStep
  <2>2. ASSUME NEW window \in FooterWindows,
               NEW preload \in SUBSET (SectionNames \cup {UnknownSection}),
               Open(window, preload)
        PROVE  ReaderInv'
    BY <2>2, OpenStep
  <2>3. ASSUME NEW stripe \in 1..MaxStripes, NEW ids \in IdLists, Load(stripe, ids)
        PROVE  ReaderInv'
    BY <2>3, LoadStep
  <2>4. ASSUME NEW name \in SectionNames \cup {UnknownSection},
               NEW keepCache \in BOOLEAN, LoadOptionalSection(name, keepCache)
        PROVE  ReaderInv'
    BY <2>4, LoadOptionalSectionStep
  <2>5. CASE UNCHANGED <<vars, readerVars>>
    <3>1. WriterInv' /\ UNCHANGED <<pc, written, optionalSections, file, fileSize,
                             stripes>>
      BY <2>5, WriterIdle DEF ReaderInv
    <3>2. UNCHANGED <<reader, optionalSectionsCache, result>>
      BY <2>5 DEF readerVars
    <3>3. ReadsReturnWritten'
      BY <3>1, <3>2, ResultKept DEF ReaderInv
    <3>4. OpenOnClosed' /\ CacheHeld' /\ OpensUnlessMissed'
      BY <3>1, <3>2 DEF ReaderInv, OpenOnClosed, CacheHeld, OpensUnlessMissed,
                          FooterMissed, StripesMissed,
                        SectionGiven
    <3> QED  BY <3>1, <3>3, <3>4 DEF ReaderInv
  <2> QED  BY <2>1, <2>2, <2>3, <2>4, <2>5 DEF ReaderNext
<1>. QED  BY <1>1, ReaderInvInit, PTL DEF ReaderSpec

(* load, getTotalStreamSize and loadOptionalSection return what            *)
(* writeStripe and writeOptionalSection were given, for every file the     *)
(* writer can produce.                                                     *)
THEOREM ReadsCorrect == ReaderSpec => []ReadsReturnWritten
<1>1. ReaderInv => ReadsReturnWritten
  BY DEF ReaderInv
<1>. QED  BY <1>1, ReaderInvariant, PTL

(* The constructor refuses a file the writer closed if and only if the     *)
(* initial read starts behind its footer or behind its stripes section.    *)
THEOREM OpensCorrect == ReaderSpec => []OpensUnlessMissed
<1>1. ReaderInv => OpensUnlessMissed
  BY DEF ReaderInv
<1>. QED  BY <1>1, ReaderInvariant, PTL

-----------------------------------------------------------------------------
(***************************************************************************)
(* The stripe groups that the threads reading one file share, for any set  *)
(* of threads and any finite set of groups.  The invariant: the steps from *)
(* lookup to publish are exclusive per group (Locks); an object outside    *)
(* the cache belongs to the thread that is about to publish it (Built);    *)
(* all other objects are the ones the weak pointers refer to (Weak); and a *)
(* thread that found the pointer expired can rely on that until it         *)
(* publishes (Fresh).                                                      *)
(***************************************************************************)

InGet == {"lookup", "build", "publish"}

Locks == \A t \in Threads : place[t] \in InGet => lock[key[t]] = t

Built ==
    \A t \in Threads :
        element[t] = IF place[t] = "publish" THEN {<<key[t], builds[key[t]]>>}
                     ELSE {}

Weak ==
    /\ \A o \in first : o[2] = weak[o[1]]
    /\ \A t \in Threads : \A o \in held[t] : o[2] = weak[o[1]]

Fresh ==
    \A t \in Threads : place[t] \in {"build", "publish"} =>
        /\ \A o \in first : o[1] # key[t]
        /\ \A u \in Threads : \A o \in held[u] : o[1] # key[t]

Eager == first # {} => \A g \in groups : \E o \in first : o[1] = g

CacheInv == CacheTypeOK /\ Locks /\ Built /\ Weak /\ Fresh /\ Eager

-----------------------------------------------------------------------------
(* Live objects are those of the reader, of a caller, or of a builder.     *)
LEMMA LiveMember ==
    ASSUME NEW o
    PROVE  o \in Live <=> \/ o \in first
                          \/ \E t \in Threads : o \in held[t]
                          \/ \E t \in Threads : o \in element[t]
BY DEF Live

(* An object is a pair.                                                    *)
LEMMA ObjectIsPair ==
    ASSUME NEW o \in Objects
    PROVE  o = <<o[1], o[2]>> /\ o[1] \in Groups
BY DEF Objects

(* Initially no thread is inside get, and an eager group is the only one.  *)
LEMMA CacheInitInv == CacheInit => CacheInv
<1> SUFFICES ASSUME CacheInit PROVE CacheInv
    OBVIOUS
<1>1. PICK eager \in SUBSET groups :
          /\ eager # {} => Cardinality(groups) = 1
          /\ first = {<<g, 1>> : g \in eager}
          /\ entries = eager
          /\ weak = [g \in Groups |-> IF g \in eager THEN 1 ELSE 0]
          /\ builds = weak
    BY DEF CacheInit
<1>2. CacheTypeOK
    BY <1>1 DEF CacheInit, CacheTypeOK, Objects
<1>3. Locks /\ Built /\ Fresh
    BY DEF CacheInit, Locks, Built, Fresh, InGet
<1>4. Weak
    BY <1>1 DEF CacheInit, Weak
<1>5. Eager
  <2> SUFFICES ASSUME first # {}, NEW g \in groups
               PROVE  \E o \in first : o[1] = g
      BY DEF Eager
  <2>1. PICK h \in eager : TRUE
      BY <1>1
  <2>2. PICK x : groups = {x}
      BY <1>1, <1>2, <2>1, CacheAssumption, FS_Singleton, FS_Subset DEF CacheTypeOK
  <2>3. g = h
      BY <2>1, <2>2
  <2>4. <<g, 1>> \in first
      BY <1>1, <2>3
  <2> QED BY <2>4
<1> QED BY <1>2, <1>3, <1>4, <1>5 DEF CacheInv

(* Two threads between lookup and publish ask for different groups.        *)
LEMMA Exclusive ==
    ASSUME Locks, NEW t \in Threads, NEW u \in Threads, t # u,
           place[t] \in InGet, place[u] \in InGet
    PROVE  key[t] # key[u]
BY DEF Locks

-----------------------------------------------------------------------------
(* Every step preserves the invariant.                                     *)
LEMMA CacheNextInv == CacheInv /\ [CacheNext]_getVars => CacheInv'
<1> SUFFICES ASSUME CacheInv, [CacheNext]_getVars PROVE CacheInv'
    OBVIOUS
<1> USE DEF CacheInv
<1>0. CASE UNCHANGED getVars
  <2>1. CacheTypeOK' BY <1>0 DEF CacheTypeOK, getVars, cacheVars
  <2>2. Locks' BY <1>0 DEF Locks, getVars, cacheVars
  <2>3. Built' BY <1>0 DEF Built, getVars, cacheVars
  <2>4. Weak' BY <1>0 DEF Weak, getVars, cacheVars
  <2>5. Fresh' BY <1>0 DEF Fresh, getVars, cacheVars
  <2>6. Eager' BY <1>0 DEF Eager, getVars, cacheVars
  <2> QED BY <2>1, <2>2, <2>3, <2>4, <2>5, <2>6
<1>1. ASSUME NEW t \in Threads, NEW g \in groups, GetStripeIdentifier(t, g)
      PROVE  CacheInv'
  <2> USE <1>1 DEF GetStripeIdentifier, Goto, cacheVars
  <2>1. CacheTypeOK' BY DEF CacheTypeOK
  <2>2. Locks' BY DEF Locks, CacheTypeOK, InGet
  <2>3. Built' BY DEF Built, CacheTypeOK
  <2>4. Weak' BY DEF Weak
  <2>5. Fresh' BY DEF Fresh, CacheTypeOK
  <2>6. Eager' BY DEF Eager
  <2> QED BY <2>1, <2>2, <2>3, <2>4, <2>5, <2>6
<1>2. ASSUME NEW t \in Threads, GetCacheEntry(t)
      PROVE  CacheInv'
  <2> USE <1>2 DEF GetCacheEntry, Goto
  <2>1. CacheTypeOK' BY DEF CacheTypeOK
  <2>2. Locks' BY DEF Locks, CacheTypeOK, InGet
  <2>3. Built' BY DEF Built, CacheTypeOK
  <2>4. Weak' BY DEF Weak
  <2>5. Fresh' BY DEF Fresh, CacheTypeOK
  <2>6. Eager' BY DEF Eager
  <2> QED BY <2>1, <2>2, <2>3, <2>4, <2>5, <2>6
<1>3. ASSUME NEW t \in Threads, LockEntry(t)
      PROVE  CacheInv'
  <2> USE <1>3 DEF LockEntry, Goto
  <2>1. CacheTypeOK' BY DEF CacheTypeOK
  <2>2. Locks'
    <3> SUFFICES ASSUME NEW u \in Threads, place'[u] \in InGet
                 PROVE  lock'[key'[u]] = u
        BY DEF Locks
    <3>1. CASE u = t
        BY <3>1 DEF CacheTypeOK
    <3>2. CASE u # t
      <4>1. place[u] \in InGet /\ lock[key[u]] = u
          BY <3>2 DEF CacheTypeOK, Locks
      <4>2. key[u] # key[t]
          BY <4>1, NoThreadAssumption
      <4> QED BY <4>1, <4>2 DEF CacheTypeOK
    <3> QED BY <3>1, <3>2
  <2>3. Built' BY DEF Built, CacheTypeOK
  <2>4. Weak' BY DEF Weak
  <2>5. Fresh' BY DEF Fresh, CacheTypeOK
  <2>6. Eager' BY DEF Eager
  <2> QED BY <2>1, <2>2, <2>3, <2>4, <2>5, <2>6
<1>4. ASSUME NEW t \in Threads, Hit(t)
      PROVE  CacheInv'
  <2> DEFINE o == <<key[t], weak[key[t]]>>
  <2> USE <1>4 DEF Hit, Goto
  <2>0. place[t] \in InGet
      BY DEF InGet
  <2>1. CacheTypeOK'
    <3>1. o \in Objects
      <4>1. o \in first \/ \E u \in Threads : o \in held[u] \cup element[u]
          BY LiveMember
      <4> QED BY <4>1 DEF CacheTypeOK
    <3>2. held' \in [Threads -> SUBSET Objects]
        BY <3>1 DEF CacheTypeOK
    <3> QED BY <3>2 DEF CacheTypeOK
  <2>2. Locks'
    <3> SUFFICES ASSUME NEW u \in Threads, place'[u] \in InGet
                 PROVE  lock'[key'[u]] = u
        BY DEF Locks
    <3>1. u # t /\ place[u] \in InGet
        BY DEF CacheTypeOK, InGet
    <3>2. key[u] # key[t]
        BY <2>0, <3>1, Exclusive
    <3>3. lock[key[u]] = u
        BY <3>1 DEF Locks
    <3> QED BY <3>2, <3>3 DEF CacheTypeOK
  <2>3. Built' BY DEF Built, CacheTypeOK
  <2>4. Weak'
    <3> SUFFICES ASSUME NEW u \in Threads, NEW p \in held'[u]
                 PROVE  p[2] = weak[p[1]]
        BY DEF Weak
    <3>1. p \in held[u] \/ p = o
        BY DEF CacheTypeOK
    <3> QED BY <3>1 DEF Weak
  <2>5. Fresh'
    <3> SUFFICES ASSUME NEW u \in Threads, place'[u] \in {"build", "publish"}
                 PROVE  /\ \A p \in first : p[1] # key[u]
                        /\ \A v \in Threads : \A p \in held'[v] :
                              p[1] # key[u]
        BY DEF Fresh
    <3>1. u # t /\ place[u] \in {"build", "publish"}
        BY DEF CacheTypeOK
    <3>2. key[u] # key[t]
        BY <2>0, <3>1, Exclusive DEF InGet
    <3>3. /\ \A p \in first : p[1] # key[u]
          /\ \A v \in Threads : \A p \in held[v] : p[1] # key[u]
        BY <3>1 DEF Fresh
    <3>4. ASSUME NEW v \in Threads, NEW p \in held'[v]
          PROVE  p[1] # key[u]
      <4>1. p \in held[v] \/ p = o
          BY DEF CacheTypeOK
      <4> QED BY <3>2, <3>3, <4>1
    <3> QED BY <3>3, <3>4
  <2>6. Eager' BY DEF Eager
  <2> QED BY <2>1, <2>2, <2>3, <2>4, <2>5, <2>6
<1>5. ASSUME NEW t \in Threads, Miss(t)
      PROVE  CacheInv'
  <2> USE <1>5 DEF Miss, Goto, cacheVars
  <2>1. CacheTypeOK' BY DEF CacheTypeOK
  <2>2. Locks' BY DEF Locks, CacheTypeOK, InGet
  <2>3. Built' BY DEF Built, CacheTypeOK
  <2>4. Weak' BY DEF Weak
  <2>5. Fresh'
    <3>1. \A o \in first : o[1] # key[t]
      <4> SUFFICES ASSUME NEW o \in first, o[1] = key[t] PROVE FALSE
          OBVIOUS
      <4>1. o \in Live
          BY LiveMember
      <4>2. o = <<o[1], o[2]>>
          BY ObjectIsPair DEF CacheTypeOK
      <4>3. o[2] = weak[key[t]]
          BY DEF Weak
      <4> QED BY <4>1, <4>2, <4>3
    <3>2. \A u \in Threads : \A o \in held[u] : o[1] # key[t]
      <4> SUFFICES ASSUME NEW u \in Threads, NEW o \in held[u], o[1] = key[t]
                   PROVE  FALSE
          OBVIOUS
      <4>1. o \in Live
          BY LiveMember
      <4>2. o = <<o[1], o[2]>>
          BY ObjectIsPair DEF CacheTypeOK
      <4>3. o[2] = weak[key[t]]
          BY DEF Weak
      <4> QED BY <4>1, <4>2, <4>3
    <3> QED BY <3>1, <3>2 DEF Fresh, CacheTypeOK
  <2>6. Eager' BY DEF Eager
  <2> QED BY <2>1, <2>2, <2>3, <2>4, <2>5, <2>6
<1>6. ASSUME NEW t \in Threads, LoadStripeGroup(t)
      PROVE  CacheInv'
  <2> USE <1>6 DEF LoadStripeGroup, Goto
  <2>0. place[t] \in InGet
      BY DEF InGet
  <2>1. CacheTypeOK'
    <3>1. <<key[t], builds[key[t]] + 1>> \in Objects
        BY DEF CacheTypeOK, Objects
    <3>2. element' \in [Threads -> SUBSET Objects]
        BY <3>1 DEF CacheTypeOK
    <3>3. builds' \in [Groups -> Nat]
        BY DEF CacheTypeOK
    <3> QED BY <3>2, <3>3 DEF CacheTypeOK
  <2>2. Locks' BY DEF Locks, CacheTypeOK, InGet
  <2>3. Built'
    <3> SUFFICES ASSUME NEW u \in Threads
                 PROVE  element'[u] = IF place'[u] = "publish"
                                      THEN {<<key[u], builds'[key[u]]>>}
                                      ELSE {}
        BY DEF Built
    <3>1. CASE u = t
        BY <3>1 DEF CacheTypeOK
    <3>2. CASE u # t
      <4>1. element'[u] = element[u] /\ place'[u] = place[u]
          BY <3>2 DEF CacheTypeOK
      <4>2. CASE place[u] = "publish"
        <5>1. key[u] # key[t]
            BY <2>0, <3>2, <4>2, Exclusive DEF InGet
        <5>2. builds'[key[u]] = builds[key[u]]
            BY <5>1 DEF CacheTypeOK
        <5> QED BY <4>1, <4>2, <5>2 DEF Built
      <4>3. CASE place[u] # "publish"
          BY <4>1, <4>3 DEF Built
      <4> QED BY <4>2, <4>3
    <3> QED BY <3>1, <3>2
  <2>4. Weak' BY DEF Weak
  <2>5. Fresh' BY DEF Fresh, CacheTypeOK
  <2>6. Eager' BY DEF Eager
  <2> QED BY <2>1, <2>2, <2>3, <2>4, <2>5, <2>6
<1>7. ASSUME NEW t \in Threads, ReadFails(t)
      PROVE  CacheInv'
  <2> USE <1>7 DEF ReadFails, Goto
  <2>0. place[t] \in InGet
      BY DEF InGet
  <2>1. CacheTypeOK' BY DEF CacheTypeOK
  <2>2. Locks'
    <3> SUFFICES ASSUME NEW u \in Threads, place'[u] \in InGet
                 PROVE  lock'[key'[u]] = u
        BY DEF Locks
    <3>1. u # t /\ place[u] \in InGet
        BY DEF CacheTypeOK, InGet
    <3>2. key[u] # key[t]
        BY <2>0, <3>1, Exclusive
    <3>3. lock[key[u]] = u
        BY <3>1 DEF Locks
    <3> QED BY <3>2, <3>3 DEF CacheTypeOK
  <2>3. Built' BY DEF Built, CacheTypeOK
  <2>4. Weak' BY DEF Weak
  <2>5. Fresh' BY DEF Fresh, CacheTypeOK
  <2>6. Eager' BY DEF Eager
  <2> QED BY <2>1, <2>2, <2>3, <2>4, <2>5, <2>6
<1>8. ASSUME NEW t \in Threads, Publish(t)
      PROVE  CacheInv'
  <2> DEFINE new == <<key[t], builds[key[t]]>>
  <2> USE <1>8 DEF Publish, Goto
  <2>0. place[t] \in InGet /\ element[t] = {new}
      BY DEF InGet, Built
  <2>1. CacheTypeOK'
    <3>1. held' \in [Threads -> SUBSET Objects]
        BY DEF CacheTypeOK
    <3>2. element' \in [Threads -> SUBSET Objects]
        BY DEF CacheTypeOK
    <3> QED BY <3>1, <3>2 DEF CacheTypeOK
  <2>2. Locks'
    <3> SUFFICES ASSUME NEW u \in Threads, place'[u] \in InGet
                 PROVE  lock'[key'[u]] = u
        BY DEF Locks
    <3>1. u # t /\ place[u] \in InGet
        BY DEF CacheTypeOK, InGet
    <3>2. key[u] # key[t]
        BY <2>0, <3>1, Exclusive
    <3>3. lock[key[u]] = u
        BY <3>1 DEF Locks
    <3> QED BY <3>2, <3>3 DEF CacheTypeOK
  <2>3. Built' BY DEF Built, CacheTypeOK
  <2>4. Weak'
    <3>1. ASSUME NEW o \in first PROVE o[2] = weak'[o[1]]
      <4>1. o[1] # key[t] /\ o[2] = weak[o[1]] /\ o[1] \in Groups
          BY ObjectIsPair DEF Fresh, Weak, CacheTypeOK
      <4> QED BY <4>1 DEF CacheTypeOK
    <3>2. ASSUME NEW u \in Threads, NEW o \in held'[u]
          PROVE  o[2] = weak'[o[1]]
      <4>1. CASE o \in held[u]
        <5>1. o[1] # key[t] /\ o[2] = weak[o[1]] /\ o[1] \in Groups
            BY <4>1, ObjectIsPair DEF Fresh, Weak, CacheTypeOK
        <5> QED BY <5>1 DEF CacheTypeOK
      <4>2. CASE o = new
          BY <4>2 DEF CacheTypeOK
      <4> QED BY <2>0, <4>1, <4>2 DEF CacheTypeOK
    <3> QED BY <3>1, <3>2 DEF Weak
  <2>5. Fresh'
    <3> SUFFICES ASSUME NEW u \in Threads, place'[u] \in {"build", "publish"}
                 PROVE  /\ \A p \in first : p[1] # key[u]
                        /\ \A v \in Threads : \A p \in held'[v] :
                              p[1] # key[u]
        BY DEF Fresh
    <3>1. u # t /\ place[u] \in {"build", "publish"}
        BY DEF CacheTypeOK
    <3>2. key[u] # key[t]
        BY <2>0, <3>1, Exclusive DEF InGet
    <3>3. /\ \A p \in first : p[1] # key[u]
          /\ \A v \in Threads : \A p \in held[v] : p[1] # key[u]
        BY <3>1 DEF Fresh
    <3>4. ASSUME NEW v \in Threads, NEW p \in held'[v]
          PROVE  p[1] # key[u]
      <4>1. p \in held[v] \/ p = new
          BY <2>0 DEF CacheTypeOK
      <4> QED BY <3>2, <3>3, <4>1
    <3> QED BY <3>3, <3>4
  <2>6. Eager' BY DEF Eager
  <2> QED BY <2>1, <2>2, <2>3, <2>4, <2>5, <2>6
<1>9. ASSUME NEW t \in Threads, Release(t)
      PROVE  CacheInv'
  <2> USE <1>9 DEF Release, cacheVars
  <2>0. PICK o \in held[t] : held' = [held EXCEPT ![t] = @ \ {o}]
      OBVIOUS
  <2>1. CacheTypeOK' BY <2>0 DEF CacheTypeOK
  <2>2. Locks' BY DEF Locks
  <2>3. Built' BY DEF Built
  <2>4. \A u \in Threads : held'[u] \subseteq held[u]
      BY <2>0 DEF CacheTypeOK
  <2>5. Weak' BY <2>4 DEF Weak
  <2>6. Fresh' BY <2>4 DEF Fresh
  <2>7. Eager' BY DEF Eager
  <2> QED BY <2>1, <2>2, <2>3, <2>5, <2>6, <2>7
<1> QED BY <1>0, <1>1, <1>2, <1>3, <1>4, <1>5, <1>6, <1>7, <1>8, <1>9
        DEF CacheNext, Step

(* The invariant holds in every state.                                     *)
LEMMA CacheInvariant == CacheSpec => []CacheInv
<1> QED BY CacheInitInv, CacheNextInv, PTL DEF CacheSpec

-----------------------------------------------------------------------------
(* CacheTypeOK holds in every state.                                            *)
THEOREM CacheTypeCorrect == CacheSpec => []CacheTypeOK
<1>1. CacheInv => CacheTypeOK
    BY DEF CacheInv
<1> QED BY <1>1, CacheInvariant, PTL

(* Live objects of one group are equal.                                    *)
LEMMA OneObject == CacheInv => OneLiveObject
<1> SUFFICES ASSUME CacheInv, NEW o \in Live, NEW p \in Live, o[1] = p[1]
             PROVE  o = p
    BY DEF OneLiveObject
<1> USE DEF CacheInv
<1> DEFINE Shared(x) == x \in first \/ \E t \in Threads : x \in held[t]
           Private(x) == \E t \in Threads : x \in element[t]
<1>1. (Shared(o) \/ Private(o)) /\ (Shared(p) \/ Private(p))
    BY LiveMember
<1>2. ASSUME NEW x, Shared(x) PROVE x = <<x[1], weak[x[1]]>>
  <2>1. x \in Objects
      BY <1>2 DEF CacheTypeOK
  <2>2. x[2] = weak[x[1]]
      BY <1>2 DEF Weak
  <2> QED BY <2>1, <2>2, ObjectIsPair
<1>3. ASSUME NEW x, NEW y, Shared(x), Private(y) PROVE x[1] # y[1]
  <2>1. PICK t \in Threads : y \in element[t]
      BY <1>3
  <2>2. place[t] = "publish" /\ y = <<key[t], builds[key[t]]>>
      BY <2>1 DEF Built
  <2> QED BY <1>3, <2>2 DEF Fresh
<1>4. ASSUME Private(o), Private(p) PROVE o = p
  <2>1. PICK t \in Threads : o \in element[t]
      BY <1>4
  <2>2. PICK u \in Threads : p \in element[u]
      BY <1>4
  <2>3. place[t] = "publish" /\ o = <<key[t], builds[key[t]]>>
      BY <2>1 DEF Built
  <2>4. place[u] = "publish" /\ p = <<key[u], builds[key[u]]>>
      BY <2>2 DEF Built
  <2>5. t = u
      BY <2>3, <2>4, Exclusive DEF InGet
  <2> QED BY <2>3, <2>4, <2>5
<1> QED BY <1>1, <1>2, <1>3, <1>4

(* Nobody ever holds two objects of one group, nor do two threads.         *)
THEOREM OneLiveObjectCorrect == CacheSpec => []OneLiveObject
<1> QED BY OneObject, CacheInvariant, PTL

(* While a thread reads a group, no live object of the group exists: the   *)
(* fact behind the theorems below.                                         *)
LEMMA BuildsAlone ==
    ASSUME CacheInv, NEW t \in Threads, LoadStripeGroup(t)
    PROVE  \A o \in Live : o[1] # key[t]
<1> SUFFICES ASSUME NEW o \in Live PROVE o[1] # key[t]
    OBVIOUS
<1> USE DEF CacheInv
<1>1. place[t] = "build"
    BY DEF LoadStripeGroup, Goto
<1>2. CASE o \in first \/ \E u \in Threads : o \in held[u]
    BY <1>1, <1>2 DEF Fresh
<1>3. ASSUME NEW u \in Threads, o \in element[u] PROVE o[1] # key[t]
  <2>1. place[u] = "publish" /\ o = <<key[u], builds[key[u]]>>
      BY <1>3 DEF Built
  <2>2. u # t
      BY <1>1, <2>1
  <2> QED BY <1>1, <2>1, <2>2, Exclusive DEF InGet
<1> QED BY <1>2, <1>3, LiveMember

(* Only loadStripeGroup builds, and only it changes firstStripeGroup_.     *)
LEMMA OnlyLoadBuilds ==
    ASSUME [CacheNext]_getVars
    PROVE  \/ UNCHANGED <<first, builds>>
           \/ \E t \in Threads : LoadStripeGroup(t)
BY DEF CacheNext, Step, getVars, cacheVars, GetStripeIdentifier, GetCacheEntry, LockEntry, Hit, Miss,
       ReadFails, Publish, Release

(* A group is read only while nobody holds it.                             *)
THEOREM NoReadWhileHeldCorrect == CacheSpec => NoReadWhileHeld
<1>1. CacheInv /\ [CacheNext]_getVars =>
        [\A g \in Groups : builds'[g] # builds[g] =>
            \A o \in Live : o[1] # g]_getVars
  <2> SUFFICES ASSUME CacheInv, [CacheNext]_getVars, NEW g \in Groups,
                      builds'[g] # builds[g]
               PROVE  \A o \in Live : o[1] # g
      OBVIOUS
  <2>1. PICK t \in Threads : LoadStripeGroup(t)
      BY OnlyLoadBuilds
  <2>2. g = key[t]
      BY <2>1 DEF LoadStripeGroup, CacheInv, CacheTypeOK
  <2> QED BY <2>1, <2>2, BuildsAlone
<1> QED BY <1>1, CacheInvariant, PTL DEF CacheSpec, NoReadWhileHeld

(* The eagerly loaded only group is never read again.                      *)
THEOREM EagerGroupCorrect == CacheSpec => EagerGroupStays
<1>1. CacheInv /\ [CacheNext]_getVars =>
        [first # {} => UNCHANGED <<first, builds>>]_getVars
  <2> SUFFICES ASSUME CacheInv, [CacheNext]_getVars, first # {},
                      NEW t \in Threads, LoadStripeGroup(t)
               PROVE  FALSE
      BY OnlyLoadBuilds
  <2>1. key[t] \in groups
      BY DEF CacheInv, CacheTypeOK
  <2>2. PICK o \in first : o[1] = key[t]
      BY <2>1 DEF CacheInv, Eager
  <2> QED BY <2>2, BuildsAlone, LiveMember
<1> QED BY <1>1, CacheInvariant, PTL DEF CacheSpec, EagerGroupStays

-----------------------------------------------------------------------------
(* The refinement                                                          *)

(* What the mapping makes of a thread's objects.                           *)
Mapped == [t \in Threads |-> held[t] \cup element[t]]

(* The abstract cache and this one agree on which objects live.            *)
LEMMA SameLive == ASSUME NEW o PROVE o \in Atomic!Live <=> o \in Live
BY DEF Atomic!Live, Live

(* Initial states map to initial states.                                   *)
LEMMA CacheInitRefines == CacheInit => Atomic!Init
<1> SUFFICES ASSUME CacheInit PROVE Atomic!Init
    OBVIOUS
<1>1. PICK eager \in SUBSET groups :
          /\ first = {<<g, 1>> : g \in eager}
          /\ weak = [g \in Groups |-> IF g \in eager THEN 1 ELSE 0]
          /\ builds = weak
    BY DEF CacheInit
<1>2. ASSUME NEW g \in Groups
      PROVE  (\E o \in first : o[1] = g) <=> g \in eager
  <2>1. ASSUME g \in eager PROVE \E o \in first : o[1] = g
    <3>1. <<g, 1>> \in first /\ <<g, 1>>[1] = g
        BY <1>1, <2>1
    <3> QED BY <3>1
  <2>2. ASSUME NEW o \in first, o[1] = g PROVE g \in eager
      BY <1>1, <2>2
  <2> QED BY <2>1, <2>2
<1>3. builds = [k \in Groups |-> IF \E o \in first : o[1] = k THEN 1 ELSE 0]
    BY <1>1, <1>2
<1>4. [t \in Threads |-> held[t] \cup element[t]] = [t \in Threads |-> {}]
    BY DEF CacheInit
<1> QED BY <1>3, <1>4 DEF Atomic!Init

(* Every step maps to one step of the atomic cache, or to none.            *)
LEMMA CacheNextRefines == CacheInv /\ [CacheNext]_getVars => [Atomic!Next]_(Atomic!vars)
<1> SUFFICES ASSUME CacheInv, [CacheNext]_getVars PROVE [Atomic!Next]_(Atomic!vars)
    OBVIOUS
<1>0. ASSUME UNCHANGED <<held, element, first, builds>>
      PROVE  UNCHANGED Atomic!vars
    BY <1>0 DEF Atomic!vars
<1>1. ASSUME NEW t \in Threads, NEW k \in Groups, k = key[t], Hit(t)
      PROVE  Atomic!Share(t, k)
  <2> DEFINE o == <<key[t], weak[key[t]]>>
  <2>1. o \in Atomic!Live /\ o[1] = k
      BY <1>1, SameLive DEF Hit
  <2>2. Mapped' = [Mapped EXCEPT ![t] = @ \cup {o}]
      BY <1>1 DEF Hit, Mapped, CacheInv, CacheTypeOK
  <2>3. UNCHANGED <<first, builds>>
      BY <1>1 DEF Hit
  <2> QED BY <2>1, <2>2, <2>3 DEF Atomic!Share, Mapped
<1>2. ASSUME NEW t \in Threads, NEW k \in Groups, k = key[t],
             LoadStripeGroup(t)
      PROVE  Atomic!Build(t, k)
  <2>1. \A o \in Atomic!Live : o[1] # k
      BY <1>2, SameLive, BuildsAlone
  <2>2. element[t] = {}
      BY <1>2 DEF LoadStripeGroup, Goto, CacheInv, Built
  <2>3. Mapped' = [Mapped EXCEPT ![t] =
                     @ \cup {<<k, builds[k] + 1>>}]
      BY <1>2, <2>2 DEF LoadStripeGroup, Mapped, CacheInv, CacheTypeOK
  <2>4. /\ builds' = [builds EXCEPT ![k] = @ + 1]
        /\ first' = {}
      BY <1>2 DEF LoadStripeGroup
  <2> QED BY <2>1, <2>3, <2>4 DEF Atomic!Build, Mapped
<1>3. ASSUME NEW t \in Threads, Publish(t)
      PROVE  UNCHANGED Atomic!vars
  <2>1. Mapped' = Mapped
      BY <1>3 DEF Publish, Mapped, CacheInv, CacheTypeOK
  <2>2. UNCHANGED <<first, builds>>
      BY <1>3 DEF Publish
  <2> QED BY <2>1, <2>2 DEF Atomic!vars, Mapped
<1>4. ASSUME NEW t \in Threads, Release(t)
      PROVE  Atomic!Drop(t)
  <2>1. PICK o \in held[t] : held' = [held EXCEPT ![t] = @ \ {o}]
      BY <1>4 DEF Release
  <2>2. element[t] = {} /\ UNCHANGED <<element, first, builds>>
      BY <1>4 DEF Release, cacheVars, CacheInv, Built
  <2>3. Mapped' = [Mapped EXCEPT ![t] = @ \ {o}] /\ o \in Mapped[t]
      BY <2>1, <2>2 DEF Mapped, CacheInv, CacheTypeOK
  <2> QED BY <2>2, <2>3 DEF Atomic!Drop, Mapped
<1>5. ASSUME NEW t \in Threads,
             \/ \E g \in groups : GetStripeIdentifier(t, g)
             \/ GetCacheEntry(t) \/ LockEntry(t) \/ Miss(t) \/ ReadFails(t)
      PROVE  UNCHANGED <<held, element, first, builds>>
    BY <1>5 DEF GetStripeIdentifier, GetCacheEntry, LockEntry, Miss, ReadFails, cacheVars
<1>6. UNCHANGED getVars => UNCHANGED <<held, element, first, builds>>
    BY DEF getVars, cacheVars
<1>7. \A t \in Threads : key[t] \in Groups
    BY DEF CacheInv, CacheTypeOK
<1>8. CASE UNCHANGED getVars
    BY <1>0, <1>6, <1>8
<1>9. ASSUME NEW t \in Threads,
             \/ \E g \in groups : GetStripeIdentifier(t, g)
             \/ Step(t)
             \/ Release(t)
      PROVE  [Atomic!Next]_(Atomic!vars)
  <2>1. CASE Hit(t)
    <3>1. PICK k \in Groups : k = key[t]
        BY <1>7
    <3>2. Atomic!Share(t, k)
        BY <1>1, <2>1, <3>1
    <3> QED BY <3>2 DEF Atomic!Next
  <2>2. CASE LoadStripeGroup(t)
    <3>1. PICK k \in Groups : k = key[t]
        BY <1>7
    <3>2. Atomic!Build(t, k)
        BY <1>2, <2>2, <3>1
    <3> QED BY <3>2 DEF Atomic!Next
  <2>3. CASE Publish(t)
      BY <1>3, <2>3
  <2>4. CASE Release(t)
      BY <1>4, <2>4 DEF Atomic!Next
  <2> QED BY <1>0, <1>5, <1>9, <2>1, <2>2, <2>3, <2>4 DEF Step
<1> QED BY <1>8, <1>9 DEF CacheNext

(* The cache with its locks implements the cache whose get is atomic.      *)
THEOREM CacheIsAtomic == CacheSpec => ImplementsSharedObjects
<1> QED BY CacheInitRefines, CacheNextRefines, CacheInvariant, PTL
        DEF CacheSpec, ImplementsSharedObjects, Atomic!Spec
=============================================================================
