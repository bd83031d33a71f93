----------------------- MODULE ArrayWithOffsetsProofs -----------------------
(***************************************************************************)
(* Proofs about ArrayWithOffsets, for any arrays, batches and calls: the   *)
(* three streams hold the rows written, the reader's positions in them     *)
(* agree, and every slot holds its row unless its elements were dropped.   *)
(***************************************************************************)
EXTENDS ArrayWithOffsets, SequenceFacts

Element == UNION {{array[i] : i \in DOMAIN array} : array \in Arrays}
RowType == Arrays \cup {Null}
OffsetType == Nat \cup {Null}

StateType ==
    [rows : Seq(RowType), offsets : Seq(OffsetType), lengths : Seq(Nat),
     elements : Seq(Element), next : Nat, prev : Nat]

(* Where the elements of a stored array start, and the array.              *)
Start(lens, o) == Total(SubSeq(lens, 1, o))
ArrayAt(lens, els, o) ==
    SubSeq(els, Start(lens, o) + 1, Start(lens, o) + lens[o + 1])

(* Every row that is not null has the offset of its array.                 *)
RowsHeld(rs, os, lens, els) ==
    /\ Len(os) = Len(rs)
    /\ \A i \in 1..Len(rs) :
         \/ rs[i] = Null /\ os[i] = Null
         \/ /\ rs[i] # Null /\ os[i] \in 0..(Len(lens) - 1)
            /\ rs[i] = ArrayAt(lens, els, os[i])

(* The offsets of n stored arrays start at 0, stay or go up by 1, and end  *)
(* with the last one.                                                      *)
OffsetsClimb(used, n) ==
    /\ \A k \in 1..Len(used) : used[k] \in 0..(n - 1)
    /\ \A o \in 0..(n - 1) : \E k \in 1..Len(used) : used[k] = o
    /\ Len(used) > 0 => used[1] = 0 /\ used[Len(used)] = n - 1
    /\ \A k \in 2..Len(used) : used[k] = used[k - 1] \/ used[k] = used[k - 1] + 1

StreamsOK(rs, os, lens, els) ==
    /\ RowsHeld(rs, os, lens, els)
    /\ OffsetsClimb(NonNulls(os), Len(lens))
    /\ Start(lens, Len(lens)) = Len(els)

(* The state in the middle of a call: the last row that was not null is    *)
(* the last array stored, and as long as there is none, nothing was.       *)
Good(s, batch) ==
    /\ s \in StateType
    /\ StreamsOK(s.rows, s.offsets, s.lengths, s.elements)
    /\ s.next = Len(s.lengths)
    /\ s.prev \in 0..Len(batch)
    /\ s.prev > 0 =>
         /\ batch[s.prev] # Null
         /\ Len(s.lengths) > 0
         /\ batch[s.prev] = ArrayAt(s.lengths, s.elements, Len(s.lengths) - 1)
    /\ Len(s.lengths) >= Len(lengths)
    /\ s.prev = 0 \/ Len(s.lengths) = Len(lengths) =>
         s.lengths = lengths /\ s.elements = elements

(* What the writer's cache holds.                                          *)
CacheOK(w, lens, els) ==
    w.cached => /\ Len(lens) > 0
                /\ w.value = ArrayAt(lens, els, Len(lens) - 1)
                /\ w.size = lens[Len(lens)]

-----------------------------------------------------------------------------
(* Stored arrays                                                           *)

(* An array is a sequence of elements, and different from null.            *)
LEMMA ArrayType ==
    ASSUME NEW array \in Arrays
    PROVE  array \in Seq(Element) /\ array # Null /\ Len(array) \in Nat
<1> DEFINE E == {array[i] : i \in DOMAIN array}
<1>1. array \in Seq(E) /\ array # Null
  BY ArraysAssumption
<1>2. E \subseteq Element
  BY DEF Element
<1> HIDE DEF E
<1>3. array \in Seq(Element)
  BY <1>1, <1>2
<1>. QED  BY <1>1, <1>3

(* Starts are the prefix sums of the lengths.                              *)
LEMMA StartSums ==
    ASSUME NEW lens \in Seq(Nat)
    PROVE  \E f : /\ IsPrefixSum(f, lens, Len(lens))
                  /\ \A o \in 0..Len(lens) : Start(lens, o) = f[o]
<1>1. Len(lens) \in Nat /\ lens \in [1..Len(lens) -> Nat]
  OBVIOUS
<1>2. PICK f : IsPrefixSum(f, lens, Len(lens))
  BY <1>1, PrefixSumExists
<1>3. ASSUME NEW o \in 0..Len(lens) PROVE Start(lens, o) = f[o]
  <2>1. 0 \in 0..Len(lens) /\ o \in 0..Len(lens) /\ o \in Nat
    BY <1>1
  <2>2. Total(SubSeq(lens, 0 + 1, o)) = f[o] - f[0]
    BY <1>2, <2>1, TotalSlice
  <2>3. f[0] = 0 /\ f[o] \in Nat
    BY <1>2, <2>1 DEF IsPrefixSum
  <2> QED  BY <2>2, <2>3 DEF Start
<1>. QED  BY <1>2, <1>3

(* The next array starts where this one ends.                              *)
LEMMA StartFacts ==
    ASSUME NEW lens \in Seq(Nat)
    PROVE  /\ Start(lens, 0) = 0
           /\ \A o \in 0..Len(lens) : Start(lens, o) \in Nat
           /\ \A o \in 0..(Len(lens) - 1) :
                Start(lens, o + 1) = Start(lens, o) + lens[o + 1]
<1>1. PICK f : /\ IsPrefixSum(f, lens, Len(lens))
               /\ \A o \in 0..Len(lens) : Start(lens, o) = f[o]
  BY StartSums
<1>2. Len(lens) \in Nat
  OBVIOUS
<1>3. /\ f[0] = 0 /\ \A o \in 0..Len(lens) : f[o] \in Nat
      /\ \A i \in 1..Len(lens) : f[i] = f[i - 1] + lens[i]
  BY <1>1 DEF IsPrefixSum
<1>4. 0 \in 0..Len(lens)
  BY <1>2
<1>5. ASSUME NEW o \in 0..(Len(lens) - 1)
      PROVE  Start(lens, o + 1) = Start(lens, o) + lens[o + 1]
  <2>1. o \in 0..Len(lens) /\ o + 1 \in 0..Len(lens) /\ o + 1 \in 1..Len(lens)
        /\ (o + 1) - 1 = o
    BY <1>2
  <2>2. f[o + 1] = f[(o + 1) - 1] + lens[o + 1]
    BY <1>3, <2>1
  <2> QED  BY <1>1, <2>1, <2>2
<1>. QED  BY <1>1, <1>3, <1>4, <1>5

(* The lengths between two offsets add up to the distance of their starts. *)
LEMMA StartSlice ==
    ASSUME NEW lens \in Seq(Nat), NEW a \in 0..Len(lens), NEW b \in a..Len(lens)
    PROVE  /\ Total(SubSeq(lens, a + 1, b)) = Start(lens, b) - Start(lens, a)
           /\ Start(lens, a) <= Start(lens, b)
<1>1. PICK f : /\ IsPrefixSum(f, lens, Len(lens))
               /\ \A o \in 0..Len(lens) : Start(lens, o) = f[o]
  BY StartSums
<1>2. Len(lens) \in Nat /\ lens \in [1..Len(lens) -> Nat]
  OBVIOUS
<1>3. Total(SubSeq(lens, a + 1, b)) = f[b] - f[a]
  BY <1>1, TotalSlice
<1>4. f[a] <= f[b]
  BY <1>1, <1>2, PrefixSumMonotonic
<1>5. a \in 0..Len(lens) /\ b \in 0..Len(lens)
  BY <1>2
<1>. QED  BY <1>1, <1>3, <1>4, <1>5

(* A stored array lies within the elements.                                *)
LEMMA ArrayInside ==
    ASSUME NEW lens \in Seq(Nat), NEW els \in Seq(Element),
           Start(lens, Len(lens)) = Len(els), NEW o \in 0..(Len(lens) - 1)
    PROVE  /\ Start(lens, o) \in Nat /\ lens[o + 1] \in Nat
           /\ Start(lens, o) + lens[o + 1] <= Len(els)
           /\ Len(ArrayAt(lens, els, o)) = lens[o + 1]
<1>1. Len(lens) \in Nat /\ Len(els) \in Nat
  OBVIOUS
<1>2. o \in 0..Len(lens) /\ o + 1 \in 0..Len(lens) /\ o + 1 \in 1..Len(lens)
      /\ Len(lens) \in (o + 1)..Len(lens)
  BY <1>1
<1>3. Start(lens, o) \in Nat /\ Start(lens, o + 1) = Start(lens, o) + lens[o + 1]
  BY <1>2, StartFacts
<1>4. lens[o + 1] \in Nat
  BY <1>2
<1>5. Start(lens, o + 1) <= Start(lens, Len(lens))
  <2> DEFINE a == o + 1
  <2> HIDE DEF a
  <2>1. a \in 0..Len(lens) /\ Len(lens) \in a..Len(lens)
    BY <1>2 DEF a
  <2>2. Start(lens, a) <= Start(lens, Len(lens))
    BY <2>1, StartSlice
  <2> QED  BY <2>2 DEF a
<1>6. Start(lens, o) + lens[o + 1] <= Len(els)
  BY <1>3, <1>5
<1> DEFINE x == Start(lens, o)
           l == lens[o + 1]
<1>7. Len(SubSeq(els, x + 1, x + l)) = l
  <2>1. x \in Nat /\ l \in Nat /\ x + l <= Len(els)
    BY <1>3, <1>4, <1>6
  <2> HIDE DEF x, l
  <2>2. x \in 0..Len(els) /\ x + l \in x..Len(els)
    BY <1>1, <2>1
  <2>3. Len(SubSeq(els, x + 1, x + l)) = (x + l) - x
    <3> DEFINE b == x + l
    <3> HIDE DEF b
    <3>1. b \in x..Len(els)
      BY <2>2 DEF b
    <3>2. Len(SubSeq(els, x + 1, b)) = b - x
      BY <2>2, <3>1, SliceFacts
    <3> QED  BY <3>2 DEF b
  <2> QED  BY <2>1, <2>3
<1>. QED  BY <1>3, <1>4, <1>6, <1>7 DEF ArrayAt

(* One more array, behind the others, which stay what they were.           *)
LEMMA StoreAppend ==
    ASSUME NEW lens \in Seq(Nat), NEW els \in Seq(Element), NEW a \in Seq(Element),
           Start(lens, Len(lens)) = Len(els)
    PROVE  LET l2 == Append(lens, Len(a))
               e2 == els \o a
           IN  /\ l2 \in Seq(Nat) /\ Len(l2) = Len(lens) + 1
               /\ e2 \in Seq(Element)
               /\ \A o \in 0..(Len(lens) - 1) : ArrayAt(l2, e2, o) = ArrayAt(lens, els, o)
               /\ ArrayAt(l2, e2, Len(lens)) = a
               /\ Start(l2, Len(l2)) = Len(e2)
<1> DEFINE l2 == Append(lens, Len(a))
           e2 == els \o a
           n == Len(lens)
<1>1. n \in Nat /\ Len(a) \in Nat /\ Len(els) \in Nat
  OBVIOUS
<1>2. /\ l2 \in Seq(Nat) /\ Len(l2) = n + 1 /\ l2[n + 1] = Len(a)
      /\ \A k \in 1..n : l2[k] = lens[k]
  BY <1>1
<1>3. e2 \in Seq(Element) /\ Len(e2) = Len(els) + Len(a)
  BY ConcatType
<1>4. ASSUME NEW o \in 0..n PROVE Start(l2, o) = Start(lens, o)
  <2>1. SubSeq(l2, 1, o) = SubSeq(lens, 1, o)
    BY <1>1
  <2> QED  BY <2>1 DEF Start
<1> HIDE DEF l2
<1>5. ASSUME NEW o \in 0..(n - 1) PROVE ArrayAt(l2, e2, o) = ArrayAt(lens, els, o)
  <2> DEFINE x == Start(lens, o)
             l == lens[o + 1]
  <2>1. x \in Nat /\ l \in Nat /\ x + l <= Len(els)
    BY ArrayInside
  <2>2. o \in 0..n /\ o + 1 \in 1..n
    BY <1>1
  <2>3. Start(l2, o) = x /\ l2[o + 1] = l
    BY <1>2, <1>4, <2>2
  <2> HIDE DEF x, l
  <2>4. SubSeq(e2, x + 1, x + l) = SubSeq(els, x + 1, x + l)
    BY <2>1
  <2> HIDE DEF e2
  <2> QED  BY <2>3, <2>4 DEF ArrayAt, x, l
<1>6. Start(l2, n) = Len(els)
  <2>1. n \in 0..n
    BY <1>1
  <2> QED  BY <1>4, <2>1
<1>7. ArrayAt(l2, e2, n) = a
  <2>1. SubSeq(e2, Len(els) + 1, Len(e2)) = a
    BY ConcatSplit
  <2> HIDE DEF e2
  <2> QED  BY <1>2, <1>3, <1>6, <2>1 DEF ArrayAt
<1>8. Start(l2, Len(l2)) = Len(e2)
  <2>1. n \in 0..(Len(l2) - 1)
    BY <1>1, <1>2
  <2>2. Start(l2, n + 1) = Start(l2, n) + l2[n + 1]
    BY <1>2, <2>1, StartFacts
  <2> HIDE DEF e2
  <2> QED  BY <1>2, <1>3, <1>6, <2>2
<1>. QED  BY <1>2, <1>3, <1>5, <1>7, <1>8 DEF l2, e2, n

(* One more row, null or of a stored array.                                *)
LEMMA RowsHeldAppend ==
    ASSUME NEW rs \in Seq(RowType), NEW os \in Seq(OffsetType),
           NEW lens \in Seq(Nat), NEW els, RowsHeld(rs, os, lens, els),
           NEW l2 \in Seq(Nat), NEW e2, Len(lens) <= Len(l2),
           \A o \in 0..(Len(lens) - 1) : ArrayAt(l2, e2, o) = ArrayAt(lens, els, o),
           NEW r \in RowType, NEW x \in OffsetType,
           \/ r = Null /\ x = Null
           \/ r # Null /\ x \in 0..(Len(l2) - 1) /\ r = ArrayAt(l2, e2, x)
    PROVE  RowsHeld(Append(rs, r), Append(os, x), l2, e2)
<1> DEFINE a == Append(rs, r)
           b == Append(os, x)
           n == Len(rs)
<1>1. n \in Nat /\ Len(os) = n /\ Len(lens) \in Nat /\ Len(l2) \in Nat
  BY DEF RowsHeld
<1>2. /\ Len(a) = n + 1 /\ Len(b) = n + 1 /\ a[n + 1] = r /\ b[n + 1] = x
      /\ \A i \in 1..n : a[i] = rs[i] /\ b[i] = os[i]
  BY <1>1
<1> HIDE DEF a, b
<1>3. ASSUME NEW i \in 1..Len(a)
      PROVE  \/ a[i] = Null /\ b[i] = Null
             \/ /\ a[i] # Null /\ b[i] \in 0..(Len(l2) - 1)
                /\ a[i] = ArrayAt(l2, e2, b[i])
  <2>1. CASE i = n + 1
    BY <1>2, <2>1
  <2>2. CASE i # n + 1
    <3>1. i \in 1..n
      <4> HIDE DEF n
      <4> QED  BY <1>1, <1>2, <2>2
    <3>2. \/ rs[i] = Null /\ os[i] = Null
          \/ /\ rs[i] # Null /\ os[i] \in 0..(Len(lens) - 1)
             /\ rs[i] = ArrayAt(lens, els, os[i])
      BY <3>1 DEF RowsHeld
    <3>3. \A o \in 0..(Len(lens) - 1) : o \in 0..(Len(l2) - 1)
      BY <1>1
    <3> QED  BY <1>2, <3>1, <3>2, <3>3
  <2> QED  BY <2>1, <2>2
<1>4. RowsHeld(a, b, l2, e2)
  BY <1>2, <1>3 DEF RowsHeld
<1>. QED  BY <1>4 DEF a, b

(* One more offset, that of the last array or of a new one.                *)
LEMMA ClimbAppend ==
    ASSUME NEW used \in Seq(OffsetType), NEW n \in Nat, OffsetsClimb(used, n),
           NEW m \in Nat, NEW x \in Nat,
           \/ m = n /\ n > 0 /\ x = n - 1
           \/ m = n + 1 /\ x = n
    PROVE  OffsetsClimb(Append(used, x), m)
<1> DEFINE u == Append(used, x)
           c == Len(used)
<1>1. c \in Nat /\ x \in OffsetType /\ x = m - 1
  BY DEF OffsetType
<1>2. /\ Len(u) = c + 1 /\ u[c + 1] = x /\ \A k \in 1..c : u[k] = used[k]
  BY <1>1
<1> HIDE DEF u
<1>3. /\ \A k \in 1..c : used[k] \in 0..(n - 1)
      /\ \A o \in 0..(n - 1) : \E k \in 1..c : used[k] = o
      /\ c > 0 => used[1] = 0 /\ used[c] = n - 1
      /\ \A k \in 2..c : used[k] = used[k - 1] \/ used[k] = used[k - 1] + 1
  BY DEF OffsetsClimb
<1>4. ASSUME NEW k \in 1..Len(u) PROVE u[k] \in 0..(m - 1)
  <2>1. CASE k = c + 1
    BY <1>1, <1>2, <2>1
  <2>2. CASE k # c + 1
    <3>1. k \in 1..c
      BY <1>1, <1>2, <2>2
    <3>2. used[k] \in 0..(n - 1)
      BY <1>3, <3>1
    <3> QED  BY <1>2, <3>1, <3>2
  <2> QED  BY <2>1, <2>2
<1>5. ASSUME NEW o \in 0..(m - 1) PROVE \E k \in 1..Len(u) : u[k] = o
  <2>1. CASE o = x
    <3>1. c + 1 \in 1..Len(u)
      BY <1>1, <1>2
    <3> QED  BY <1>2, <2>1, <3>1
  <2>2. CASE o # x
    <3>1. o \in 0..(n - 1)
      BY <1>1, <2>2
    <3>2. PICK k \in 1..c : used[k] = o
      BY <1>3, <3>1
    <3>3. k \in 1..Len(u) /\ u[k] = o
      BY <1>1, <1>2, <3>2
    <3> QED  BY <3>3
  <2> QED  BY <2>1, <2>2
<1>6. u[1] = 0
  <2>1. CASE c = 0
    <3>1. n = 0
      <4> SUFFICES ASSUME n # 0 PROVE FALSE
        OBVIOUS
      <4>1. 0 \in 0..(n - 1)
        OBVIOUS
      <4>2. PICK k \in 1..c : used[k] = 0
        BY <1>3, <4>1
      <4> QED  BY <2>1, <4>2
    <3> QED  BY <1>2, <2>1, <3>1
  <2>2. CASE c # 0
    <3>1. c > 0 /\ 1 \in 1..c
      BY <1>1, <2>2
    <3> QED  BY <1>2, <1>3, <3>1
  <2> QED  BY <2>1, <2>2
<1>7. ASSUME NEW k \in 2..Len(u) PROVE u[k] = u[k - 1] \/ u[k] = u[k - 1] + 1
  <2>1. CASE k = c + 1
    <3>1. c > 0 /\ c \in 1..c /\ k - 1 = c
      BY <1>1, <2>1
    <3>2. u[k - 1] = n - 1
      BY <1>2, <1>3, <3>1
    <3> QED  BY <1>2, <2>1, <3>2
  <2>2. CASE k # c + 1
    <3>1. k \in 2..c /\ k \in 1..c /\ k - 1 \in 1..c
      BY <1>1, <1>2, <2>2
    <3>2. used[k] = used[k - 1] \/ used[k] = used[k - 1] + 1
      BY <1>3, <3>1
    <3> QED  BY <1>2, <3>1, <3>2
  <2> QED  BY <2>1, <2>2
<1>8. u[Len(u)] = m - 1
  BY <1>1, <1>2
<1>9. OffsetsClimb(u, m)
  BY <1>4, <1>5, <1>6, <1>7, <1>8 DEF OffsetsClimb
<1>. QED  BY <1>9 DEF u

-----------------------------------------------------------------------------
(* Writing                                                                 *)

(* The fields of a good state.                                             *)
LEMMA GoodFields ==
    ASSUME NEW batch, NEW s, Good(s, batch)
    PROVE  /\ s.rows \in Seq(RowType) /\ s.offsets \in Seq(OffsetType)
           /\ s.lengths \in Seq(Nat) /\ s.elements \in Seq(Element)
           /\ s.next \in Nat /\ s.prev \in Nat
           /\ NonNulls(s.offsets) \in Seq(OffsetType)
           /\ Len(s.lengths) \in Nat
           /\ s = [rows |-> s.rows, offsets |-> s.offsets, lengths |-> s.lengths,
                   elements |-> s.elements, next |-> s.next, prev |-> s.prev]
<1>1. /\ s.rows \in Seq(RowType) /\ s.offsets \in Seq(OffsetType)
      /\ s.lengths \in Seq(Nat) /\ s.elements \in Seq(Element)
      /\ s.next \in Nat /\ s.prev \in Nat
      /\ s = [rows |-> s.rows, offsets |-> s.offsets, lengths |-> s.lengths,
              elements |-> s.elements, next |-> s.next, prev |-> s.prev]
  BY DEF Good, StateType
<1>2. NonNulls(s.offsets) \in Seq(OffsetType)
  BY <1>1, WithoutType DEF NonNulls
<1>. QED  BY <1>1, <1>2

(* A null row has a null offset and moves nothing else.                    *)
LEMMA NullRowGood ==
    ASSUME NEW batch, NEW key, NEW i, NEW s, Good(s, batch), batch[i] = Null
    PROVE  Good(IngestRow(s, batch, key, i), batch)
<1> DEFINE t == IngestRow(s, batch, key, i)
           rs == Append(s.rows, Null)
           os == Append(s.offsets, Null)
<1>0. /\ s.rows \in Seq(RowType) /\ s.offsets \in Seq(OffsetType)
      /\ s.lengths \in Seq(Nat) /\ s.elements \in Seq(Element)
      /\ s.next \in Nat /\ s.prev \in Nat /\ Len(s.lengths) \in Nat
      /\ s = [rows |-> s.rows, offsets |-> s.offsets, lengths |-> s.lengths,
              elements |-> s.elements, next |-> s.next, prev |-> s.prev]
  BY GoodFields
<1>1. t = [rows |-> rs, offsets |-> os, lengths |-> s.lengths,
           elements |-> s.elements, next |-> s.next, prev |-> s.prev]
  <2>1. t = [s EXCEPT !.rows = rs, !.offsets = os]
    BY DEF IngestRow
  <2> HIDE DEF t, rs, os
  <2> QED  BY <1>0, <2>1
<1>2. /\ t.rows = rs /\ t.offsets = os /\ t.lengths = s.lengths
      /\ t.elements = s.elements /\ t.next = s.next /\ t.prev = s.prev
  BY <1>1
<1>3. Null \in RowType /\ Null \in OffsetType
  BY DEF RowType, OffsetType
<1>4. NonNulls(os) = NonNulls(s.offsets)
  BY <1>0, <1>3, WithoutAppend DEF NonNulls
<1>5. RowsHeld(rs, os, s.lengths, s.elements)
  <2>1. RowsHeld(s.rows, s.offsets, s.lengths, s.elements)
    BY DEF Good, StreamsOK
  <2> HIDE DEF rs, os
  <2>2. Len(s.lengths) <= Len(s.lengths)
    BY <1>0
  <2> QED  BY <1>0, <1>3, <2>1, <2>2, RowsHeldAppend DEF rs, os
<1>6. rs \in Seq(RowType) /\ os \in Seq(OffsetType)
  BY <1>0, <1>3
<1> HIDE DEF t, rs, os
<1>7. t \in StateType
  BY <1>0, <1>1, <1>6 DEF StateType
<1>8. StreamsOK(t.rows, t.offsets, t.lengths, t.elements)
  BY <1>2, <1>4, <1>5 DEF Good, StreamsOK
<1>9. Good(t, batch)
  BY <1>2, <1>7, <1>8 DEF Good
<1>. QED  BY <1>9 DEF t

(* Rows with the same key are the same array.                              *)
KeysOK(batch, key) ==
    \A i, j \in 1..Len(batch) :
      batch[i] # Null /\ batch[j] # Null /\ key[i] = key[j] => batch[i] = batch[j]

(* An array is found equal to the last one stored, or stored behind it.    *)
LEMMA ArrayRowGood ==
    ASSUME CacheOK(writer, lengths, elements),
           NEW batch \in Seq(RowType), NEW key, KeysOK(batch, key),
           NEW i \in 1..Len(batch), batch[i] # Null,
           NEW s, Good(s, batch)
    PROVE  Good(IngestRow(s, batch, key, i), batch)
<1> DEFINE a == batch[i]
           t == IngestRow(s, batch, key, i)
           match == IF s.prev > 0 THEN key[i] = key[s.prev] ELSE EqualsCache(a)
           n == Len(s.lengths)
           l2 == IF match THEN s.lengths ELSE Append(s.lengths, Len(a))
           e2 == IF match THEN s.elements ELSE s.elements \o a
           m == n + IF match THEN 0 ELSE 1
           rs == Append(s.rows, a)
           os == Append(s.offsets, m - 1)
<1>0. /\ s.rows \in Seq(RowType) /\ s.offsets \in Seq(OffsetType)
      /\ s.lengths \in Seq(Nat) /\ s.elements \in Seq(Element)
      /\ s.next \in Nat /\ s.prev \in Nat /\ n \in Nat
      /\ NonNulls(s.offsets) \in Seq(OffsetType)
  BY GoodFields
<1>1. /\ RowsHeld(s.rows, s.offsets, s.lengths, s.elements)
      /\ OffsetsClimb(NonNulls(s.offsets), n)
      /\ Start(s.lengths, n) = Len(s.elements)
      /\ s.next = n
      /\ s.prev \in 0..Len(batch)
      /\ s.prev > 0 => /\ batch[s.prev] # Null /\ n > 0
                       /\ batch[s.prev] = ArrayAt(s.lengths, s.elements, n - 1)
      /\ n >= Len(lengths)
      /\ s.prev = 0 \/ n = Len(lengths) => s.lengths = lengths /\ s.elements = elements
  BY DEF Good, StreamsOK
<1>2. a \in Arrays /\ a \in RowType /\ a \in Seq(Element)
  <2>1. a \in RowType
    OBVIOUS
  <2>2. a \in Arrays
    BY <2>1 DEF RowType
  <2> QED  BY <2>1, <2>2, ArrayType
<1>3. t = [rows |-> rs, offsets |-> os, lengths |-> l2, elements |-> e2,
           next |-> m, prev |-> i]
  BY <1>1 DEF IngestRow
<1> HIDE DEF t
<1>4. match => n > 0 /\ a = ArrayAt(s.lengths, s.elements, n - 1)
  <2> SUFFICES ASSUME match PROVE n > 0 /\ a = ArrayAt(s.lengths, s.elements, n - 1)
    OBVIOUS
  <2>1. CASE s.prev > 0
    <3>1. key[i] = key[s.prev] /\ s.prev \in 1..Len(batch)
      BY <1>0, <1>1, <2>1
    <3>2. a = batch[s.prev]
      BY <1>1, <2>1, <3>1 DEF KeysOK
    <3> QED  BY <1>1, <2>1, <3>2
  <2>2. CASE ~(s.prev > 0)
    <3>1. s.prev = 0 /\ EqualsCache(a)
      BY <1>0, <2>2
    <3>2. writer.cached /\ a = writer.value
      BY <3>1 DEF EqualsCache
    <3>3. s.lengths = lengths /\ s.elements = elements
      BY <1>1, <3>1
    <3> QED  BY <3>2, <3>3 DEF CacheOK
  <2> QED  BY <2>1, <2>2
<1> HIDE DEF match
<1>5. /\ l2 \in Seq(Nat) /\ Len(l2) = m /\ e2 \in Seq(Element) /\ m \in Nat /\ m > 0
      /\ n <= m
      /\ \A o \in 0..(n - 1) : ArrayAt(l2, e2, o) = ArrayAt(s.lengths, s.elements, o)
      /\ ArrayAt(l2, e2, m - 1) = a
      /\ Start(l2, m) = Len(e2)
  <2>1. CASE match
    BY <1>0, <1>1, <1>4, <2>1
  <2>2. CASE ~match
    <3> DEFINE L == Append(s.lengths, Len(a))
               E == s.elements \o a
    <3>1. /\ L \in Seq(Nat) /\ Len(L) = n + 1 /\ E \in Seq(Element)
          /\ \A o \in 0..(n - 1) : ArrayAt(L, E, o) = ArrayAt(s.lengths, s.elements, o)
          /\ ArrayAt(L, E, n) = a /\ Start(L, Len(L)) = Len(E)
      <4> DEFINE ls == s.lengths
                 es == s.elements
      <4>1. ls \in Seq(Nat) /\ es \in Seq(Element) /\ Start(ls, Len(ls)) = Len(es)
        BY <1>0, <1>1
      <4> HIDE DEF a, ls, es
      <4>2. LET A == Append(ls, Len(a))
                B == es \o a
            IN  /\ A \in Seq(Nat) /\ Len(A) = Len(ls) + 1 /\ B \in Seq(Element)
                /\ \A o \in 0..(Len(ls) - 1) : ArrayAt(A, B, o) = ArrayAt(ls, es, o)
                /\ ArrayAt(A, B, Len(ls)) = a /\ Start(A, Len(A)) = Len(B)
        BY <1>2, <4>1, StoreAppend
      <4> QED  BY <4>2 DEF ls, es
    <3>2. l2 = L /\ e2 = E /\ m = n + 1
      BY <2>2
    <3> HIDE DEF L, E, l2, e2, m, n
    <3>3. m \in Nat /\ m > 0 /\ n <= m /\ m - 1 = n
      BY <1>0, <3>2
    <3> QED  BY <3>1, <3>2, <3>3
  <2> QED  BY <2>1, <2>2
<1>6. (l2 = s.lengths /\ e2 = s.elements /\ m = n) \/ m = n + 1
  <2>1. CASE match
    BY <1>0, <2>1
  <2>2. CASE ~match
    BY <2>2
  <2> QED  BY <2>1, <2>2
<1> HIDE DEF l2, e2, m
<1> DEFINE x == m - 1
<1>7. /\ x \in Nat /\ x \in 0..(m - 1) /\ x \in OffsetType /\ x # Null
  <2>1. x \in Nat /\ x \in 0..(m - 1)
    BY <1>5
  <2> HIDE DEF x
  <2> QED  BY <2>1, ArraysAssumption DEF OffsetType
<1>8. RowsHeld(rs, os, l2, e2)
  <2> HIDE DEF x
  <2>1. RowsHeld(Append(s.rows, a), Append(s.offsets, x), l2, e2)
    <3>1. a # Null /\ x \in 0..(Len(l2) - 1) /\ a = ArrayAt(l2, e2, x)
      BY <1>5, <1>7 DEF x
    <3> HIDE DEF a
    <3> QED  BY <1>0, <1>1, <1>2, <1>5, <1>7, <3>1, RowsHeldAppend
  <2> QED  BY <2>1 DEF x
<1>9. NonNulls(os) = Append(NonNulls(s.offsets), x)
  BY <1>0, <1>7, WithoutAppend DEF NonNulls
<1>10. OffsetsClimb(NonNulls(os), m)
  <2>1. \/ m = n /\ n > 0 /\ x = n - 1
        \/ m = n + 1 /\ x = n
    BY <1>0, <1>5, <1>6
  <2> DEFINE u == NonNulls(s.offsets)
  <2> HIDE DEF x, u, n
  <2>2. OffsetsClimb(Append(u, x), m)
    BY <1>0, <1>1, <1>5, <1>7, <2>1, ClimbAppend DEF u
  <2> QED  BY <1>9, <2>2 DEF u
<1>11. /\ t.rows = rs /\ t.offsets = os /\ t.lengths = l2 /\ t.elements = e2
       /\ t.next = m /\ t.prev = i
  BY <1>3
<1>12. t \in StateType
  <2>1. rs \in Seq(RowType)
    <3> HIDE DEF a
    <3> QED  BY <1>0, <1>2
  <2>2. os \in Seq(OffsetType)
    BY <1>0, <1>7
  <2>3. i \in Nat
    OBVIOUS
  <2> HIDE DEF rs, os
  <2> QED  BY <1>3, <1>5, <2>1, <2>2, <2>3 DEF StateType
<1> HIDE DEF rs, os, a
<1>13. StreamsOK(t.rows, t.offsets, t.lengths, t.elements)
  BY <1>5, <1>8, <1>10, <1>11 DEF StreamsOK
<1>14. Len(t.lengths) >= Len(lengths)
  BY <1>0, <1>1, <1>5, <1>11
<1>15. Len(t.lengths) = Len(lengths) => t.lengths = lengths /\ t.elements = elements
  <2> SUFFICES ASSUME m = Len(lengths) PROVE l2 = lengths /\ e2 = elements
    BY <1>5, <1>11
  <2>1. m # n + 1 /\ m = n
    BY <1>0, <1>1, <1>5, <1>6
  <2>2. l2 = s.lengths /\ e2 = s.elements
    BY <1>6, <2>1
  <2> QED  BY <1>1, <2>1, <2>2
<1>16. t.prev \in 0..Len(batch) /\ t.prev > 0 /\ t.prev # 0
  BY <1>11
<1>17. /\ batch[t.prev] # Null /\ Len(t.lengths) > 0
       /\ batch[t.prev] = ArrayAt(t.lengths, t.elements, Len(t.lengths) - 1)
  BY <1>5, <1>11 DEF a
<1>18. t.next = Len(t.lengths)
  BY <1>5, <1>11
<1>. QED  BY <1>12, <1>13, <1>14, <1>15, <1>16, <1>17, <1>18 DEF Good, t

(* What a call of write starts with.                                       *)
Held == [rows |-> rows, offsets |-> offsets, lengths |-> lengths,
         elements |-> elements, next |-> writer.next, prev |-> 0]

(* All rows of a batch.                                                    *)
LEMMA BatchGood ==
    ASSUME CacheOK(writer, lengths, elements),
           NEW batch \in Seq(RowType), NEW key, KeysOK(batch, key),
           Good(Held, batch)
    PROVE  Good(Ingested(batch, key), batch)
<1> DEFINE n == Len(batch)
           D == {s \in StateType : Good(s, batch)}
           Row(s, i) == IngestRow(s, batch, key, i)
           step == [i \in 1..n |-> [s \in D |-> Row(s, i)]]
           IsFcn(h) == h = [i \in 0..n |-> IF i = 0 THEN Held ELSE Row(h[i - 1], i)]
           after == CHOOSE h : IsFcn(h)
<1>1. n \in Nat
  OBVIOUS
<1>2. Held \in D
  BY DEF Good
<1>3. \A i \in 1..n : \A s \in D : Row(s, i) \in D
  <2> SUFFICES ASSUME NEW i \in 1..n, NEW s \in D PROVE Row(s, i) \in D
    OBVIOUS
  <2>1. Good(Row(s, i), batch)
    <3>1. CASE batch[i] = Null
      BY <3>1, NullRowGood
    <3>2. CASE batch[i] # Null
      BY <3>2, ArrayRowGood
    <3> QED  BY <3>1, <3>2
  <2> QED  BY <2>1 DEF Good
<1> HIDE DEF D, n, Row
<1>4. step \in [1..n -> [D -> D]]
  BY <1>3
<1>5. \A i \in 1..n : \A s \in D : step[i][s] = Row(s, i)
  OBVIOUS
<1> HIDE DEF step
<1>6. PICK f \in [0..n -> D] : IsIteration(f, Held, step, n)
  BY <1>1, <1>2, <1>4, IterationExists
<1>7. IsFcn(f)
  <2>1. f[0] = Held /\ \A i \in 1..n : f[i] = step[i][f[i - 1]]
    BY <1>6 DEF IsIteration
  <2>2. \A i \in 1..n : f[i] = Row(f[i - 1], i)
    <3> TAKE i \in 1..n
    <3>1. i - 1 \in 0..n
      BY <1>1
    <3>2. f[i - 1] \in D
      BY <3>1
    <3> QED  BY <1>5, <2>1, <3>2
  <2>3. \A i \in 0..n : f[i] = IF i = 0 THEN Held ELSE Row(f[i - 1], i)
    <3> TAKE i \in 0..n
    <3>1. CASE i = 0
      BY <2>1, <3>1
    <3>2. CASE i # 0
      <4>1. i \in 1..n
        BY <1>1, <3>2
      <4> QED  BY <2>2, <3>2, <4>1
    <3> QED  BY <3>1, <3>2
  <2> QED  BY <2>3
<1>8. IsFcn(after)
  BY <1>7
<1> HIDE DEF after
<1>9. after[0] = Held /\ \A i \in 1..n : after[i] = Row(after[i - 1], i)
  <2>1. \A i \in 0..n : after[i] = IF i = 0 THEN Held ELSE Row(after[i - 1], i)
    BY <1>8
  <2>2. 0 \in 0..n /\ \A i \in 1..n : i \in 0..n /\ i # 0
    BY <1>1
  <2> QED  BY <2>1, <2>2
<1> HIDE DEF IsFcn
<1>10. 0..n \subseteq {i \in 0..n : after[i] \in D}
  <2> DEFINE T == {i \in 0..n : after[i] \in D}
  <2>1. 0 \in T
    BY <1>1, <1>2, <1>9
  <2>2. \A i \in 1..n : i - 1 \in T => i \in T
    <3> SUFFICES ASSUME NEW i \in 1..n, i - 1 \in T PROVE i \in T
      OBVIOUS
    <3>1. after[i] \in D
      BY <1>3, <1>9
    <3>2. i \in 0..n
      BY <1>1
    <3> QED  BY <3>1, <3>2
  <2> HIDE DEF T
  <2>3. 0..n \subseteq T
    BY <1>1, <2>1, <2>2, Climb
  <2> QED  BY <2>3 DEF T
<1>11. n \in 0..n
  BY <1>1
<1>12. after[n] \in D
  BY <1>10, <1>11
<1>13. Ingested(batch, key) = after[n]
  BY DEF Ingested, after, IsFcn, n, Held, Row
<1>. QED  BY <1>12, <1>13 DEF D

-----------------------------------------------------------------------------
(* The invariant of the writer                                             *)

WriterType == [next : Nat, cached : BOOLEAN, size : Nat, value : Seq(Element),
               buffered : Nat]

(* The streams hold the rows, the cache is the last array stored, and      *)
(* until the stripe is finished nextOffset_ counts the arrays stored.      *)
WriterInv ==
    /\ rows \in Seq(RowType) /\ offsets \in Seq(OffsetType)
    /\ lengths \in Seq(Nat) /\ elements \in Seq(Element)
    /\ StreamsOK(rows, offsets, lengths, elements)
    /\ writer \in WriterType
    /\ CacheOK(writer, lengths, elements)
    /\ ~reading => writer.next = Len(lengths)

(* A call starts with a good state.                                        *)
LEMMA HeldGood ==
    ASSUME WriterInv, ~reading, NEW batch \in Seq(RowType)
    PROVE  Good(Held, batch)
<1>1. /\ rows \in Seq(RowType) /\ offsets \in Seq(OffsetType)
      /\ lengths \in Seq(Nat) /\ elements \in Seq(Element)
      /\ StreamsOK(rows, offsets, lengths, elements)
      /\ writer \in WriterType /\ writer.next = Len(lengths)
  BY DEF WriterInv
<1>2. /\ Held.rows = rows /\ Held.offsets = offsets /\ Held.lengths = lengths
      /\ Held.elements = elements /\ Held.next = writer.next /\ Held.prev = 0
  BY DEF Held
<1>3. writer.next \in Nat /\ Len(lengths) \in Nat /\ Len(batch) \in Nat
  BY <1>1 DEF WriterType
<1>4. Held \in StateType
  BY <1>1, <1>3 DEF Held, StateType
<1>5. 0 \in 0..Len(batch) /\ Len(lengths) >= Len(lengths) /\ ~(0 > 0)
  BY <1>3
<1>. QED  BY <1>1, <1>2, <1>4, <1>5 DEF Good

(* A call ends with one, and has only added lengths.                       *)
LEMMA CallGood ==
    ASSUME WriterInv, ~reading, NEW batch \in Seq(RowType), NEW key,
           KeysOK(batch, key), NEW s, s = Ingested(batch, key)
    PROVE  /\ Good(s, batch) /\ s.prev \in Nat /\ NewLengths(s) \in Nat
           /\ writer.buffered \in Nat
           /\ NewLengths(s) = 0 => Len(s.lengths) = Len(lengths)
           /\ s.prev = 0 => NewLengths(s) = 0
<1>1. CacheOK(writer, lengths, elements) /\ lengths \in Seq(Nat) /\ writer \in WriterType
  BY DEF WriterInv
<1>2. Good(s, batch)
  BY <1>1, HeldGood, BatchGood
<1>3. Len(lengths) \in Nat /\ Len(s.lengths) \in Nat /\ Len(s.lengths) >= Len(lengths)
      /\ s.prev \in Nat /\ (s.prev = 0 => s.lengths = lengths)
  BY <1>1, <1>2, GoodFields DEF Good
<1>4. writer.buffered \in Nat
  BY <1>1 DEF WriterType
<1>. QED  BY <1>2, <1>3, <1>4 DEF NewLengths

(* A call of write, whichever way it compares rows.                        *)
LEMMA IngestStep ==
    ASSUME WriterInv, ~reading, reading' = reading,
           NEW batch \in Seq(RowType), NEW key, KeysOK(batch, key),
           NEW s, s = Ingested(batch, key),
           NEW copied \in BOOLEAN, NEW value, Ingest(s, copied, value),
           copied => s.prev > 0 /\ value = batch[s.prev],
           ~copied => s.prev = 0 \/ NewLengths(s) = 0
    PROVE  WriterInv'
<1>1. /\ rows \in Seq(RowType) /\ offsets \in Seq(OffsetType)
      /\ lengths \in Seq(Nat) /\ elements \in Seq(Element)
      /\ StreamsOK(rows, offsets, lengths, elements)
      /\ writer \in WriterType /\ CacheOK(writer, lengths, elements)
      /\ writer.next = Len(lengths)
  BY DEF WriterInv
<1>3. Good(s, batch)
  BY CallGood
<1>4. /\ s.rows \in Seq(RowType) /\ s.offsets \in Seq(OffsetType)
      /\ s.lengths \in Seq(Nat) /\ s.elements \in Seq(Element)
      /\ s.next \in Nat /\ s.prev \in Nat /\ Len(s.lengths) \in Nat
  BY <1>3, GoodFields
<1>5. /\ StreamsOK(s.rows, s.offsets, s.lengths, s.elements)
      /\ s.next = Len(s.lengths) /\ s.prev \in 0..Len(batch)
      /\ s.prev > 0 => /\ batch[s.prev] # Null /\ Len(s.lengths) > 0
                       /\ batch[s.prev] = ArrayAt(s.lengths, s.elements, Len(s.lengths) - 1)
      /\ Len(s.lengths) >= Len(lengths)
      /\ s.prev = 0 \/ Len(s.lengths) = Len(lengths) =>
           s.lengths = lengths /\ s.elements = elements
  BY <1>3 DEF Good
<1>6. /\ rows' = s.rows /\ offsets' = s.offsets /\ lengths' = s.lengths
      /\ elements' = s.elements
      /\ writer' = [next |-> s.next, cached |-> copied \/ writer.cached,
                    size |-> IF copied THEN s.lengths[Len(s.lengths)] ELSE writer.size,
                    value |-> IF copied THEN value ELSE writer.value,
                    buffered |-> writer.buffered + NewLengths(s)]
  BY DEF Ingest
<1>7. NewLengths(s) \in Nat /\ (NewLengths(s) = 0 => Len(s.lengths) = Len(lengths))
  BY CallGood
<1>8. copied => /\ s.lengths[Len(s.lengths)] \in Nat /\ value \in Seq(Element)
                /\ Len(s.lengths) > 0
                /\ value = ArrayAt(s.lengths, s.elements, Len(s.lengths) - 1)
  <2> SUFFICES ASSUME copied
               PROVE  /\ s.lengths[Len(s.lengths)] \in Nat /\ value \in Seq(Element)
                      /\ Len(s.lengths) > 0
                      /\ value = ArrayAt(s.lengths, s.elements, Len(s.lengths) - 1)
    OBVIOUS
  <2>1. s.prev > 0 /\ value = batch[s.prev]
    OBVIOUS
  <2>2. /\ batch[s.prev] # Null /\ Len(s.lengths) > 0 /\ s.prev \in 1..Len(batch)
        /\ value = ArrayAt(s.lengths, s.elements, Len(s.lengths) - 1)
    BY <1>4, <1>5, <2>1
  <2>3. value \in Arrays
    <3> DEFINE p == s.prev
    <3> HIDE DEF p
    <3>1. p \in 1..Len(batch) /\ batch[p] # Null /\ value = batch[p]
      BY <2>1, <2>2 DEF p
    <3>2. batch[p] \in RowType
      BY <3>1
    <3> QED  BY <3>1, <3>2 DEF RowType
  <2>4. Len(s.lengths) \in 1..Len(s.lengths)
    BY <1>4, <2>2
  <2> DEFINE ls == s.lengths
  <2> HIDE DEF ls
  <2>5. ls[Len(ls)] \in Nat
    BY <1>4, <2>4 DEF ls
  <2> QED  BY <2>2, <2>3, <2>5, ArrayType DEF ls
<1>9. writer.cached \in BOOLEAN /\ writer.size \in Nat /\ writer.value \in Seq(Element)
      /\ writer.buffered \in Nat
  BY <1>1 DEF WriterType
<1>10. writer' \in WriterType
  <2> DEFINE c == copied \/ writer.cached
             z == IF copied THEN s.lengths[Len(s.lengths)] ELSE writer.size
             v == IF copied THEN value ELSE writer.value
             b == writer.buffered + NewLengths(s)
  <2>1. c \in BOOLEAN /\ z \in Nat /\ v \in Seq(Element) /\ b \in Nat
    BY <1>7, <1>8, <1>9
  <2> HIDE DEF c, z, v, b
  <2>2. writer' = [next |-> s.next, cached |-> c, size |-> z, value |-> v, buffered |-> b]
    BY <1>6 DEF c, z, v, b
  <2> QED  BY <1>4, <2>1, <2>2 DEF WriterType
<1>11. CacheOK(writer', lengths', elements')
  <2>1. CASE copied
    <3>1. /\ writer'.value = value /\ writer'.size = s.lengths[Len(s.lengths)]
      BY <1>6, <2>1
    <3> QED  BY <1>6, <1>8, <2>1, <3>1 DEF CacheOK
  <2>2. CASE ~copied
    <3>1. s.lengths = lengths /\ s.elements = elements
      BY <1>5, <1>7, <2>2
    <3>2. /\ writer'.value = writer.value /\ writer'.size = writer.size
          /\ writer'.cached => writer.cached
      BY <1>6, <2>2
    <3> QED  BY <1>1, <1>6, <3>1, <3>2 DEF CacheOK
  <2> QED  BY <2>1, <2>2
<1>12. writer'.next = Len(lengths')
  BY <1>5, <1>6
<1>13. StreamsOK(rows', offsets', lengths', elements')
  BY <1>5, <1>6
<1>14. /\ rows' \in Seq(RowType) /\ offsets' \in Seq(OffsetType)
       /\ lengths' \in Seq(Nat) /\ elements' \in Seq(Element)
  BY <1>4, <1>6
<1>. QED  BY <1>10, <1>11, <1>12, <1>13, <1>14 DEF WriterInv, StreamsOK, CacheOK

(* Rows compared by content.                                               *)
LEMMA ContentStep ==
    ASSUME WriterInv, ~reading, reading' = reading,
           NEW batch \in Seq(RowType), IngestLengthsOffsets(batch)
    PROVE  WriterInv'
<1> DEFINE s == Ingested(batch, batch)
           copied == s.prev > 0 /\ writer.buffered + NewLengths(s) > 0
           value == batch[s.prev]
<1>1. KeysOK(batch, batch)
  BY DEF KeysOK
<1>3. Ingest(s, copied, value)
  BY DEF IngestLengthsOffsets
<1>4. s.prev \in Nat /\ NewLengths(s) \in Nat /\ writer.buffered \in Nat
  BY <1>1, CallGood
<1> HIDE DEF s
<1>5. copied \in BOOLEAN /\ (~copied => s.prev = 0 \/ NewLengths(s) = 0)
  BY <1>4
<1>6. copied => s.prev > 0 /\ value = batch[s.prev]
  OBVIOUS
<1> HIDE DEF copied, value
<1>. QED  BY <1>1, <1>3, <1>5, <1>6, IngestStep DEF s

(* Rows compared by the index of their array in a dictionary.              *)
LEMMA EncodedStep ==
    ASSUME WriterInv, ~reading, reading' = reading,
           NEW n \in Nat, NEW dictionary, NEW index \in Seq(Nat), Len(index) = n,
           NEW batch \in Seq(RowType), Len(batch) = n,
           \A i \in 1..n : batch[i] = Null \/ batch[i] = dictionary[index[i]],
           IngestAlreadyEncoded(dictionary, index, batch)
    PROVE  WriterInv'
<1> DEFINE s == Ingested(batch, index)
           copied == NewLengths(s) > 0
           value == dictionary[index[s.prev]]
<1>1. KeysOK(batch, index)
  BY DEF KeysOK
<1>2. Ingest(s, copied, value)
  BY DEF IngestAlreadyEncoded
<1>3. /\ Good(s, batch) /\ s.prev \in Nat /\ NewLengths(s) \in Nat
      /\ s.prev = 0 => NewLengths(s) = 0
  BY <1>1, CallGood
<1> HIDE DEF s
<1>4. copied \in BOOLEAN /\ (~copied => NewLengths(s) = 0)
  BY <1>3
<1>5. copied => s.prev > 0 /\ value = batch[s.prev]
  <2> SUFFICES ASSUME copied PROVE s.prev > 0 /\ value = batch[s.prev]
    OBVIOUS
  <2>1. s.prev > 0 /\ s.prev \in 1..Len(batch) /\ batch[s.prev] # Null
    BY <1>3 DEF Good
  <2> QED  BY <2>1
<1> HIDE DEF copied, value
<1>. QED  BY <1>1, <1>2, <1>4, <1>5, IngestStep DEF s

(* write, of arrays as they are.                                           *)
LEMMA WriteArraysStep ==
    ASSUME WriterInv, NEW n \in Nat, NEW batch \in [1..n -> Arrays \cup {Null}],
           WriteArrays(batch)
    PROVE  WriterInv'
<1>1. ~reading /\ reading' = reading /\ IngestLengthsOffsets(batch)
  BY DEF WriteArrays, CanWrite
<1>2. batch \in Seq(RowType)
  BY DEF RowType
<1>. QED  BY <1>1, <1>2, ContentStep

(* write, of a dictionary, passed through or decoded.                      *)
LEMMA WriteDictionaryStep ==
    ASSUME WriterInv, NEW n \in Nat, NEW m \in Nat, NEW dictionary \in [1..m -> Arrays],
           NEW index \in [1..n -> 1..m], NEW nulls \in [1..n -> BOOLEAN],
           WriteDictionary(dictionary, index, nulls)
    PROVE  WriterInv'
<1> DEFINE row(i) == IF nulls[i] THEN Null ELSE dictionary[index[i]]
           batch == [i \in 1..n |-> row(i)]
<1>1. DOMAIN index = 1..n /\ index \in Seq(Nat) /\ Len(index) = n
  OBVIOUS
<1>2. /\ ~reading /\ reading' = reading
      /\ \/ IngestAlreadyEncoded(dictionary, index, batch)
         \/ IngestLengthsOffsets(batch)
  BY <1>1 DEF WriteDictionary, CanWrite
<1>3. \A i \in 1..n : row(i) \in RowType /\ (row(i) = Null \/ row(i) = dictionary[index[i]])
  <2> TAKE i \in 1..n
  <2>1. index[i] \in 1..m
    OBVIOUS
  <2>2. dictionary[index[i]] \in Arrays
    BY <2>1
  <2> QED  BY <2>2 DEF RowType
<1> HIDE DEF row
<1>4. batch \in Seq(RowType) /\ Len(batch) = n
      /\ \A i \in 1..n : batch[i] = Null \/ batch[i] = dictionary[index[i]]
  BY <1>3
<1> HIDE DEF batch
<1>5. CASE IngestAlreadyEncoded(dictionary, index, batch)
  BY <1>1, <1>2, <1>4, <1>5, EncodedStep
<1>6. CASE IngestLengthsOffsets(batch)
  BY <1>2, <1>4, <1>6, ContentStep
<1>. QED  BY <1>2, <1>5, <1>6

(* Streams without rows.                                                   *)
LEMMA EmptyStreams ==
    /\ StreamsOK(<<>>, <<>>, <<>>, <<>>)
    /\ NoWriterCache \in WriterType
    /\ ~NoWriterCache.cached /\ NoWriterCache.next = 0
    /\ Len(<<>>) = 0
    /\ \A S : <<>> \in Seq(S)
<1>1. Len(<<>>) = 0 /\ NonNulls(<<>>) = <<>>
  BY WithoutEmpty DEF NonNulls
<1>2. RowsHeld(<<>>, <<>>, <<>>, <<>>)
  BY <1>1 DEF RowsHeld
<1>3. OffsetsClimb(<<>>, 0)
  BY <1>1 DEF OffsetsClimb
<1>4. <<>> \in Seq(Nat) /\ <<>> \in Seq(Element)
  OBVIOUS
<1>5. Start(<<>>, 0) = 0
  BY <1>4, StartFacts
<1>6. NoWriterCache \in WriterType /\ ~NoWriterCache.cached /\ NoWriterCache.next = 0
  BY <1>4 DEF NoWriterCache, WriterType
<1>7. \A S : <<>> \in Seq(S)
  OBVIOUS
<1>. QED  BY <1>1, <1>2, <1>3, <1>5, <1>6, <1>7 DEF StreamsOK

(* A new stripe.                                                           *)
LEMMA ResetStep ==
    ASSUME rows' = <<>>, offsets' = <<>>, lengths' = <<>>, elements' = <<>>,
           writer' = NoWriterCache
    PROVE  WriterInv'
<1>1. StreamsOK(rows', offsets', lengths', elements')
  BY EmptyStreams
<1>2. CacheOK(writer', lengths', elements')
  BY EmptyStreams DEF CacheOK
<1>3. writer' \in WriterType /\ writer'.next = Len(lengths')
  BY EmptyStreams
<1>4. /\ rows' \in Seq(RowType) /\ offsets' \in Seq(OffsetType)
      /\ lengths' \in Seq(Nat) /\ elements' \in Seq(Element)
  BY EmptyStreams
<1>. QED  BY <1>1, <1>2, <1>3, <1>4 DEF WriterInv, StreamsOK, CacheOK

(* A chunk that is cut changes nothing the writer compares with.           *)
LEMMA FlushStep ==
    ASSUME WriterInv, FlushChunk
    PROVE  WriterInv'
<1>1. /\ writer' = [writer EXCEPT !.buffered = 0]
      /\ UNCHANGED <<rows, offsets, lengths, elements, reading>>
  BY DEF FlushChunk, streams
<1>2. writer \in WriterType
  BY DEF WriterInv
<1>3. /\ writer' \in WriterType /\ writer'.next = writer.next
      /\ writer'.cached = writer.cached /\ writer'.size = writer.size
      /\ writer'.value = writer.value
  BY <1>1, <1>2 DEF WriterType
<1>. QED  BY <1>1, <1>3 DEF WriterInv, StreamsOK, CacheOK

(* The stripe is finished: its streams are what the reader will see.       *)
LEMMA FinishStep ==
    ASSUME WriterInv, FinishStripe
    PROVE  WriterInv'
<1>1. /\ reading' = TRUE /\ writer' = NoWriterCache
      /\ UNCHANGED <<rows, offsets, lengths, elements>>
  BY DEF FinishStripe, streams
<1>2. CacheOK(writer', lengths', elements') /\ writer' \in WriterType
  BY <1>1, EmptyStreams DEF CacheOK
<1>. QED  BY <1>1, <1>2 DEF WriterInv, StreamsOK, CacheOK

(* Reading leaves the streams alone.                                       *)
LEMMA WriterStays ==
    ASSUME WriterInv, UNCHANGED <<rows, offsets, lengths, elements, writer, reading>>
    PROVE  WriterInv'
BY DEF WriterInv, StreamsOK, CacheOK

(* Every step keeps the writer's invariant.                                *)
LEMMA WriterInvStep ==
    ASSUME WriterInv, [Step]_vars
    PROVE  WriterInv'
<1>1. ASSUME NEW n \in 1..MaxBatch, NEW batch \in [1..n -> Arrays \cup {Null}],
             WriteArrays(batch)
      PROVE  WriterInv'
  <2>1. n \in Nat
    BY ArraysAssumption
  <2> QED  BY <1>1, <2>1, WriteArraysStep
<1>2. ASSUME NEW n \in 1..MaxBatch, NEW dictionary \in [1..2 -> Arrays],
             NEW index \in [1..n -> 1..2], NEW nulls \in [1..n -> BOOLEAN],
             WriteDictionary(dictionary, index, nulls)
      PROVE  WriterInv'
  <2>1. n \in Nat /\ 2 \in Nat
    BY ArraysAssumption
  <2> QED  BY <1>2, <2>1, WriteDictionaryStep
<1>3. CASE FlushChunk
  BY <1>3, FlushStep
<1>4. CASE Reset
  BY <1>4, ResetStep DEF Reset
<1>5. CASE FinishStripe
  BY <1>5, FinishStep
<1>6. ASSUME NEW bitmap \in Requests, Next(bitmap) PROVE WriterInv'
  BY <1>6, WriterStays DEF Next, streams
<1>7. ASSUME NEW n \in 0..MaxRows, Skip(n) PROVE WriterInv'
  BY <1>7, WriterStays DEF Skip, streams
<1>8. CASE ResetReader
  BY <1>8, WriterStays DEF ResetReader, streams
<1>9. CASE UNCHANGED vars
  BY <1>9, WriterStays DEF vars, streams
<1>. QED  BY <1>1, <1>2, <1>3, <1>4, <1>5, <1>6, <1>7, <1>8, <1>9 DEF Step

LEMMA InitWriterInv == Init => WriterInv
<1> SUFFICES ASSUME Init PROVE WriterInv
  OBVIOUS
<1>1. /\ rows = <<>> /\ offsets = <<>> /\ lengths = <<>> /\ elements = <<>>
      /\ writer = NoWriterCache
  BY DEF Init
<1>2. StreamsOK(rows, offsets, lengths, elements) /\ CacheOK(writer, lengths, elements)
  BY <1>1, EmptyStreams DEF CacheOK
<1>. QED  BY <1>1, <1>2, EmptyStreams DEF WriterInv

-----------------------------------------------------------------------------
(* Reading from the streams                                                *)

(* The lengths of n arrays add up to the distance of their starts.         *)
LEMMA LengthsSumFacts ==
    ASSUME lengths \in Seq(Nat), NEW a \in 0..Len(lengths), NEW n \in 0..(Len(lengths) - a)
    PROVE  /\ LengthsSum(a, n) = Start(lengths, a + n) - Start(lengths, a)
           /\ Start(lengths, a) <= Start(lengths, a + n)
           /\ Start(lengths, a) \in Nat /\ Start(lengths, a + n) \in Nat
           /\ a + n \in 0..Len(lengths)
<1> DEFINE b == a + n
<1>1. Len(lengths) \in Nat
  OBVIOUS
<1>2. b \in a..Len(lengths) /\ b \in 0..Len(lengths)
  BY <1>1
<1> HIDE DEF b
<1>3. Total(SubSeq(lengths, a + 1, b)) = Start(lengths, b) - Start(lengths, a)
      /\ Start(lengths, a) <= Start(lengths, b)
  BY <1>2, StartSlice
<1>4. Start(lengths, a) \in Nat /\ Start(lengths, b) \in Nat
  BY <1>2, StartFacts
<1>. QED  BY <1>2, <1>3, <1>4 DEF b, LengthsSum

(* The k-th array behind the first a ones.                                 *)
LEMMA NextArrayFacts ==
    ASSUME lengths \in Seq(Nat), NEW a \in 0..Len(lengths), NEW k \in 1..(Len(lengths) - a)
    PROVE  NextArray(a, Start(lengths, a), k) = ArrayAt(lengths, elements, a + k - 1)
<1> DEFINE n == k - 1
<1>1. Len(lengths) \in Nat /\ n \in 0..(Len(lengths) - a) /\ a + k - 1 = a + n
      /\ (a + n) + 1 = a + k
  OBVIOUS
<1> HIDE DEF n
<1>2. LengthsSum(a, n) = Start(lengths, a + n) - Start(lengths, a)
      /\ Start(lengths, a) \in Nat /\ Start(lengths, a + n) \in Nat
  BY <1>1, LengthsSumFacts
<1>3. Start(lengths, a) + LengthsSum(a, n) = Start(lengths, a + n)
  BY <1>2
<1>4. NextArray(a, Start(lengths, a), k) =
        SubSeq(elements, Start(lengths, a + n) + 1, Start(lengths, a + n) + lengths[a + k])
  BY <1>3 DEF NextArray, n
<1>. QED  BY <1>1, <1>4 DEF ArrayAt

(* The array an offset stands for.                                         *)
LEMMA StoredFacts ==
    ASSUME lengths \in Seq(Nat), NEW o \in 0..(Len(lengths) - 1)
    PROVE  Stored(o) = ArrayAt(lengths, elements, o)
<1>1. Len(lengths) \in Nat
  OBVIOUS
<1>2. /\ 0 \in 0..Len(lengths) /\ o \in 0..(Len(lengths) - 0) /\ o \in 0..Len(lengths)
      /\ 1 \in 1..(Len(lengths) - o) /\ 0 + o = o /\ o + 1 - 1 = o
  BY <1>1
<1>3. LengthsSum(0, o) = Start(lengths, 0 + o) - Start(lengths, 0)
      /\ Start(lengths, 0 + o) \in Nat
  BY <1>2, LengthsSumFacts
<1>4. Start(lengths, 0) = 0
  BY StartFacts
<1>5. LengthsSum(0, o) = Start(lengths, o)
  BY <1>2, <1>3, <1>4
<1>6. NextArray(o, Start(lengths, o), 1) = ArrayAt(lengths, elements, o + 1 - 1)
  BY <1>2, NextArrayFacts
<1>. QED  BY <1>2, <1>5, <1>6 DEF Stored

(* For any arrays and batches: the three streams hold the rows written,    *)
(* with the offsets the reader counts on, and the writer's cache is the    *)
(* last array stored.                                                      *)
THEOREM ArraysStored == Spec => []WriterAligned
<1>1. WriterInv => WriterAligned
  <2> SUFFICES ASSUME WriterInv PROVE WriterAligned
    OBVIOUS
  <2> DEFINE used == NonNulls(offsets)
  <2>1. /\ rows \in Seq(RowType) /\ offsets \in Seq(OffsetType) /\ lengths \in Seq(Nat)
        /\ RowsHeld(rows, offsets, lengths, elements)
        /\ OffsetsClimb(used, Len(lengths))
        /\ CacheOK(writer, lengths, elements)
    BY DEF WriterInv, StreamsOK
  <2>2. used \in Seq(OffsetType) /\ Len(lengths) \in Nat
    BY <2>1, WithoutType DEF NonNulls
  <2>3. ASSUME NEW i \in DOMAIN rows
        PROVE  IF rows[i] = Null THEN offsets[i] = Null
               ELSE offsets[i] \in 0..(Len(lengths) - 1) /\ rows[i] = Stored(offsets[i])
    <3>1. i \in 1..Len(rows)
      BY <2>1
    <3>2. \/ rows[i] = Null /\ offsets[i] = Null
          \/ /\ rows[i] # Null /\ offsets[i] \in 0..(Len(lengths) - 1)
             /\ rows[i] = ArrayAt(lengths, elements, offsets[i])
      BY <2>1, <3>1 DEF RowsHeld
    <3>3. offsets[i] \in 0..(Len(lengths) - 1) =>
            Stored(offsets[i]) = ArrayAt(lengths, elements, offsets[i])
      BY <2>1, StoredFacts
    <3> QED  BY <3>2, <3>3
  <2> HIDE DEF used
  <2>4. /\ \A k \in 1..Len(used) : used[k] \in 0..(Len(lengths) - 1)
        /\ \A o \in 0..(Len(lengths) - 1) : \E k \in 1..Len(used) : used[k] = o
        /\ Len(used) > 0 => used[1] = 0
        /\ \A k \in 2..Len(used) : used[k] = used[k - 1] \/ used[k] = used[k - 1] + 1
    BY <2>1 DEF OffsetsClimb
  <2>5. DOMAIN used = 1..Len(used) /\ Len(used) \in Nat /\ (used # <<>> => Len(used) > 0)
    BY <2>2
  <2>6. {used[k] : k \in DOMAIN used} = 0..(Len(lengths) - 1)
    BY <2>4, <2>5
  <2>7. ASSUME NEW k \in 2..Len(used) PROVE used[k] - used[k - 1] \in {0, 1}
    <3>1. k \in 1..Len(used) /\ k - 1 \in 1..Len(used)
      BY <2>5
    <3>2. used[k] \in Int /\ used[k - 1] \in Int
      BY <2>4, <3>1
    <3>3. used[k] = used[k - 1] \/ used[k] = used[k - 1] + 1
      BY <2>4
    <3> QED  BY <3>2, <3>3
  <2>8. StreamsHoldRows
    <3>1. Len(offsets) = Len(rows)
      BY <2>1 DEF RowsHeld
    <3> QED  BY <2>3, <2>4, <2>5, <2>6, <2>7, <3>1 DEF StreamsHoldRows, used
  <2>9. CacheIsLastStored
    <3> SUFFICES ASSUME writer.cached
                 PROVE  /\ writer.value = Stored(Len(lengths) - 1)
                        /\ writer.size = lengths[Len(lengths)]
      BY DEF CacheIsLastStored
    <3>1. /\ Len(lengths) > 0 /\ writer.size = lengths[Len(lengths)]
          /\ writer.value = ArrayAt(lengths, elements, Len(lengths) - 1)
      BY <2>1 DEF CacheOK
    <3>2. Len(lengths) - 1 \in 0..(Len(lengths) - 1)
      BY <2>2, <3>1
    <3>3. Stored(Len(lengths) - 1) = ArrayAt(lengths, elements, Len(lengths) - 1)
      <4> DEFINE o == Len(lengths) - 1
      <4> HIDE DEF o
      <4>1. o \in 0..(Len(lengths) - 1)
        BY <3>2 DEF o
      <4>2. Stored(o) = ArrayAt(lengths, elements, o)
        BY <2>1, <4>1, StoredFacts
      <4> QED  BY <4>2 DEF o
    <3> QED  BY <3>1, <3>3
  <2> QED  BY <2>8, <2>9 DEF WriterAligned
<1>2. WriterInv /\ [Step]_vars => WriterInv'
  BY WriterInvStep
<1>. QED  BY <1>1, <1>2, InitWriterInv, PTL DEF Spec

-----------------------------------------------------------------------------
(* Runs of indices                                                         *)

(* Indices that stay or go up by 1 change as often as they go up.          *)
LEMMA DedupClimb ==
    ASSUME NEW q \in Seq(Nat), Len(q) > 0,
           \A k \in 2..Len(q) : q[k] = q[k - 1] \/ q[k] = q[k - 1] + 1
    PROVE  /\ DedupCount(q) = q[Len(q)] - q[1] + 1
           /\ \A k \in 1..Len(q) : q[1] <= q[k] /\ q[k] <= q[Len(q)]
<1> DEFINE n == Len(q)
           changes(i) == i = 1 \/ q[i] # q[i - 1]
           flags == [i \in 1..n |-> changes(i)]
<1>1. n \in Nat /\ n > 0 /\ DOMAIN q = 1..n /\ \A k \in 1..n : q[k] \in Nat
  OBVIOUS
<1>2. DedupCount(q) = Rank(flags, n)
  <2>1. {i \in 1..n : flags[i]} = {i \in 1..n : changes(i)}
    OBVIOUS
  <2> QED  BY <1>1, <2>1 DEF DedupCount, Rank
<1>3. \A i \in 1..n : flags[i] <=> changes(i)
  OBVIOUS
<1> HIDE DEF flags
<1>4. \A i \in 1..n : Rank(flags, i) = q[i] - q[1] + 1
  <2> DEFINE T == {i \in 0..n : i = 0 \/ Rank(flags, i) = q[i] - q[1] + 1}
  <2>1. 0 \in T
    BY <1>1
  <2>2. ASSUME NEW i \in 1..n, i - 1 \in T PROVE i \in T
    <3> DEFINE j == i - 1
    <3>1. j \in Nat /\ j + 1 = i
      BY <1>1
    <3> HIDE DEF j
    <3>2. Rank(flags, j) \in Nat
          /\ Rank(flags, j + 1) = Rank(flags, j) + (IF flags[j + 1] THEN 1 ELSE 0)
      BY <3>1, RankStep
    <3>3. CASE i = 1
      <4>1. j = 0 /\ Rank(flags, 0) = 0
        BY <3>1, <3>3, RankZero
      <4>2. changes(1)
        OBVIOUS
      <4>3. flags[i]
        BY <1>3, <3>3, <4>2
      <4>4. Rank(flags, i) = 1 /\ q[1] \in Nat
        BY <1>1, <3>1, <3>2, <4>1, <4>3
      <4> QED  BY <1>1, <3>3, <4>4
    <3>4. CASE i # 1
      <4>1. i \in 2..n /\ i - 1 \in 1..n /\ i - 1 # 0 /\ i - 1 = j /\ 1 \in 1..n
        BY <1>1, <3>1, <3>4
      <4>2. Rank(flags, j) = q[j] - q[1] + 1
        BY <2>2, <4>1
      <4>3. flags[i] <=> q[i] # q[j]
        BY <1>3, <3>4, <4>1
      <4>4. q[i] = q[j] \/ q[i] = q[j] + 1
        BY <4>1
      <4>5. q[i] \in Nat /\ q[j] \in Nat /\ q[1] \in Nat
        BY <1>1, <4>1
      <4>6. Rank(flags, i) = q[i] - q[1] + 1
        <5>1. CASE flags[i]
          <6>1. q[i] = q[j] + 1
            BY <4>3, <4>4, <5>1
          <6>2. Rank(flags, i) = Rank(flags, j) + 1
            BY <3>1, <3>2, <5>1
          <6> QED  BY <4>2, <4>5, <6>1, <6>2
        <5>2. CASE ~flags[i]
          <6>1. q[i] = q[j]
            BY <4>3, <5>2
          <6>2. (IF flags[i] THEN 1 ELSE 0) = 0
            BY <5>2
          <6>3. Rank(flags, i) = Rank(flags, j) + 0
            BY <3>1, <3>2, <6>2
          <6>4. Rank(flags, i) = Rank(flags, j)
            BY <3>2, <6>3
          <6> QED  BY <4>2, <6>1, <6>4
        <5> QED  BY <5>1, <5>2
      <4> QED  BY <1>1, <4>6
    <3> QED  BY <3>3, <3>4
  <2> HIDE DEF T
  <2>3. 0..n \subseteq T
    BY <1>1, <2>1, <2>2, Climb
  <2> TAKE i \in 1..n
  <2>4. i \in T /\ i # 0
    BY <1>1, <2>3
  <2> QED  BY <2>4 DEF T
<1>5. ASSUME NEW k \in 1..n, NEW d \in Nat, k + d \in 1..n PROVE q[k] <= q[k + d]
  <2> DEFINE T == {e \in 0..d : q[k] <= q[k + e]}
  <2>1. 0 \in T
    BY <1>1
  <2>2. ASSUME NEW e \in 1..d, e - 1 \in T PROVE e \in T
    <3>1. /\ k + e \in 2..n /\ k + e \in 1..n /\ (k + e) - 1 \in 1..n
          /\ k + (e - 1) = (k + e) - 1
      BY <1>1, <1>5
    <3>2. q[k + e] = q[(k + e) - 1] \/ q[k + e] = q[(k + e) - 1] + 1
      BY <3>1
    <3>3. q[k] <= q[(k + e) - 1]
      BY <2>2, <3>1
    <3>4. q[k] \in Nat /\ q[k + e] \in Nat /\ q[(k + e) - 1] \in Nat
      BY <1>1, <3>1
    <3>5. q[k] <= q[k + e]
      BY <3>2, <3>3, <3>4
    <3> QED  BY <3>5
  <2> HIDE DEF T
  <2>3. 0..d \subseteq T
    BY <2>1, <2>2, Climb
  <2>4. d \in T
    BY <2>3
  <2> QED  BY <2>4 DEF T
<1>6. ASSUME NEW k \in 1..n PROVE q[1] <= q[k] /\ q[k] <= q[n]
  <2> DEFINE d == k - 1
             e == n - k
  <2>1. d \in Nat /\ 1 + d = k /\ e \in Nat /\ k + e = n /\ 1 \in 1..n /\ n \in 1..n
    BY <1>1
  <2> HIDE DEF d, e, n
  <2>2. q[1] <= q[1 + d]
    BY <1>5, <2>1
  <2>3. q[k] <= q[k + e]
    BY <1>5, <2>1
  <2> QED  BY <2>1, <2>2, <2>3
<1>7. n \in 1..n
  BY <1>1
<1>. QED  BY <1>2, <1>4, <1>6, <1>7

-----------------------------------------------------------------------------
(* The reader                                                              *)

ValueType == Seq(Element \cup {Unread})
ReaderType == [row : Nat, length : Nat, element : Nat, cached : BOOLEAN, index : Nat,
               value : ValueType, size : Nat, lazy : BOOLEAN, lazyRows : Nat,
               dropped : BOOLEAN]

(* The rows before a row that are not null.                                *)
UsedBefore(row) == Len(NonNulls(SubSeq(offsets, 1, row)))

(* The elements a skip has left in the stream.                             *)
Pending(r) == IF r.cached /\ r.lazy THEN r.lazyRows ELSE 0

(* A stored array, or only one of its length if its elements are lost.     *)
Shows(v, o, lost) ==
    /\ v \in ValueType
    /\ Len(v) = lengths[o + 1]
    /\ lost \/ v = ArrayAt(lengths, elements, o)

(* The reader keeps an array of which a call of next dropped the elements. *)
LostAt(o) == reader.cached /\ reader.dropped /\ o = reader.index

(* The cache has the size of the last array; it has its elements too,      *)
(* unless they are still in the stream or were dropped.                    *)
CacheHolds(r) ==
    r.cached =>
      /\ r.size = lengths[r.index + 1]
      /\ r.lazy => r.lazyRows = lengths[r.length] /\ ~r.dropped
      /\ ~r.lazy /\ ~r.dropped => r.value = ArrayAt(lengths, elements, r.index)

(* The reader has consumed the arrays of its rows, up to the one it keeps. *)
ReaderAt(r) ==
    /\ r \in ReaderType
    /\ r.row <= Len(rows)
    /\ r.cached <=> UsedBefore(r.row) > 0
    /\ r.cached => /\ r.index = NonNulls(offsets)[UsedBefore(r.row)]
                   /\ r.length = r.index + 1
    /\ ~r.cached => r.length = 0
    /\ r.element + Pending(r) = Start(lengths, r.length)
    /\ CacheHolds(r)

ReaderInv ==
    /\ WriterInv
    /\ ~reading => reader = NewReader
    /\ ReaderAt(reader)

(* What the reader knows of the streams.                                   *)
LEMMA StreamFacts ==
    ASSUME WriterInv
    PROVE  /\ rows \in Seq(RowType) /\ offsets \in Seq(OffsetType)
           /\ lengths \in Seq(Nat) /\ elements \in Seq(Element)
           /\ Len(offsets) = Len(rows) /\ Len(rows) \in Nat /\ Len(lengths) \in Nat
           /\ NonNulls(offsets) \in Seq(OffsetType)
           /\ OffsetsClimb(NonNulls(offsets), Len(lengths))
           /\ Start(lengths, Len(lengths)) = Len(elements)
<1>1. /\ rows \in Seq(RowType) /\ offsets \in Seq(OffsetType)
      /\ lengths \in Seq(Nat) /\ elements \in Seq(Element)
      /\ Len(offsets) = Len(rows)
      /\ OffsetsClimb(NonNulls(offsets), Len(lengths))
      /\ Start(lengths, Len(lengths)) = Len(elements)
  BY DEF WriterInv, StreamsOK, RowsHeld
<1>2. NonNulls(offsets) \in Seq(OffsetType)
  BY <1>1, WithoutType DEF NonNulls
<1>. QED  BY <1>1, <1>2

(* The indices of the next rows go on where those before them ended: with  *)
(* the array the reader keeps, or with the next one.                       *)
LEMMA BatchFacts ==
    ASSUME WriterInv, NEW r, ReaderAt(r), NEW n \in Nat, r.row + n <= Len(rows)
    PROVE  LET indices == Indices(r, n)
               c == Len(indices)
               last == indices[c]
           IN  /\ indices \in Seq(OffsetType) /\ c \in Nat
               /\ UsedBefore(r.row) \in Nat
               /\ UsedBefore(r.row + n) = UsedBefore(r.row) + c
               /\ c = 0 => /\ DedupCount(indices) = 0
                           /\ ~CachedLocally(r, indices)
                           /\ Fresh(r, indices) = 0
               /\ c > 0 => /\ last \in 0..(Len(lengths) - 1)
                           /\ NonNulls(offsets)[UsedBefore(r.row + n)] = last
                           /\ \A k \in 1..c : indices[k] \in indices[1]..last
                           /\ indices[1] \in Nat
                           /\ BaseIndex(indices) = indices[1]
                           /\ DedupCount(indices) = last - indices[1] + 1
                           /\ indices[1] =
                                r.length - IF CachedLocally(r, indices) THEN 1 ELSE 0
                           /\ Fresh(r, indices) = last + 1 - r.length
                           /\ Fresh(r, indices) \in Nat
<1> DEFINE indices == Indices(r, n)
           c == Len(indices)
           last == indices[c]
           all == NonNulls(offsets)
           a == r.row
           b == r.row + n
           m == UsedBefore(r.row)
<1>1. /\ offsets \in Seq(OffsetType) /\ Len(offsets) = Len(rows) /\ Len(rows) \in Nat
      /\ Len(lengths) \in Nat /\ all \in Seq(OffsetType)
      /\ OffsetsClimb(all, Len(lengths))
  BY StreamFacts
<1>2. /\ r.row \in Nat /\ r.length \in Nat /\ r.index \in Nat /\ r.cached \in BOOLEAN
      /\ r.row <= Len(rows) /\ (r.cached <=> m > 0)
      /\ r.cached => r.index = all[m] /\ r.length = r.index + 1
      /\ ~r.cached => r.length = 0
  BY DEF ReaderAt, ReaderType
<1>3. a \in 0..Len(offsets) /\ b \in a..Len(offsets)
  BY <1>1, <1>2
<1>4. /\ indices \in Seq(OffsetType) /\ m \in Nat /\ UsedBefore(b) = m + c
      /\ m + c <= Len(all) /\ \A k \in 1..c : all[m + k] = indices[k]
  <2> HIDE DEF a, b
  <2> DEFINE slice == Without(SubSeq(offsets, a + 1, b), Null)
             before == Len(Without(SubSeq(offsets, 1, a), Null))
  <2>1. /\ slice \in Seq(OffsetType) /\ before \in Nat
        /\ Len(Without(SubSeq(offsets, 1, b), Null)) = before + Len(slice)
        /\ before + Len(slice) <= Len(Without(offsets, Null))
        /\ \A k \in 1..Len(slice) : Without(offsets, Null)[before + k] = slice[k]
    BY <1>1, <1>3, WithoutSlice
  <2>2. slice = indices /\ before = m /\ all = Without(offsets, Null)
    BY DEF Indices, UsedBefore, NonNulls, a, b
  <2> HIDE DEF slice, before, indices, m, all
  <2> QED  BY <2>1, <2>2 DEF UsedBefore, NonNulls
<1>5. c \in Nat /\ Len(all) \in Nat
  BY <1>1, <1>4
<1>6. CASE c = 0
  <2>1. indices = <<>>
    BY <1>4, <1>6
  <2>2. DedupCount(indices) = 0
    <3>1. {i \in DOMAIN indices : i = 1 \/ indices[i] # indices[i - 1]} = {}
      BY <2>1
    <3> QED  BY <3>1, FS_EmptySet DEF DedupCount
  <2>3. ~CachedLocally(r, indices)
    BY <1>2, <2>1 DEF CachedLocally, BaseIndex
  <2>4. Fresh(r, indices) = 0
    <3>1. (IF CachedLocally(r, indices) THEN 1 ELSE 0) = 0
      BY <2>3
    <3>2. Fresh(r, indices) = DedupCount(indices) - (IF CachedLocally(r, indices) THEN 1 ELSE 0)
      BY Zenon DEF Fresh
    <3>3. 0 - 0 = 0
      OBVIOUS
    <3> QED  BY <2>2, <3>1, <3>2, <3>3, Zenon
  <2> HIDE DEF indices
  <2> QED  BY <1>4, <1>5, <1>6, <2>2, <2>3, <2>4 DEF indices
<1>7. CASE c # 0
  <2> HIDE DEF indices, m, all
  <2>1. c > 0 /\ 1 \in 1..c /\ c \in 1..c
    BY <1>5, <1>7
  <2>2. /\ \A k \in 1..Len(all) : all[k] \in 0..(Len(lengths) - 1)
        /\ Len(all) > 0 => all[1] = 0
        /\ \A k \in 2..Len(all) : all[k] = all[k - 1] \/ all[k] = all[k - 1] + 1
    BY <1>1 DEF OffsetsClimb
  <2>3. \A k \in 1..c : indices[k] \in 0..(Len(lengths) - 1) /\ indices[k] \in Nat
    <3> TAKE k \in 1..c
    <3>1. m + k \in 1..Len(all)
      BY <1>4, <1>5
    <3>2. all[m + k] = indices[k]
      BY <1>4
    <3>3. all[m + k] \in 0..(Len(lengths) - 1)
      BY <2>2, <3>1
    <3> QED  BY <1>1, <3>2, <3>3
  <2>4. indices \in Seq(Nat)
    <3>1. indices \in [1..c -> OffsetType]
      BY <1>4
    <3>2. indices \in [1..c -> Nat]
      <4> HIDE DEF c
      <4> QED  BY <2>3, <3>1
    <3> HIDE DEF c
    <3> QED  BY <1>5, <3>2
  <2>5. \A k \in 2..c : indices[k] = indices[k - 1] \/ indices[k] = indices[k - 1] + 1
    <3> TAKE k \in 2..c
    <3>1. m + k \in 2..Len(all) /\ k \in 1..c /\ k - 1 \in 1..c /\ (m + k) - 1 = m + (k - 1)
      BY <1>4, <1>5
    <3>2. all[m + k] = all[(m + k) - 1] \/ all[m + k] = all[(m + k) - 1] + 1
      BY <2>2, <3>1
    <3>3. all[m + k] = indices[k] /\ all[m + (k - 1)] = indices[k - 1]
      BY <1>4, <3>1
    <3> QED  BY <3>1, <3>2, <3>3
  <2>6. /\ DedupCount(indices) = last - indices[1] + 1
        /\ \A k \in 1..c : indices[1] <= indices[k] /\ indices[k] <= last
    BY <2>1, <2>4, <2>5, DedupClimb
  <2>7. last \in 0..(Len(lengths) - 1) /\ last \in Nat /\ indices[1] \in Nat
    BY <2>1, <2>3
  <2>8. all[UsedBefore(b)] = last
    BY <1>4, <2>1
  <2>9. \A k \in 1..c : indices[k] \in indices[1]..last
    BY <2>3, <2>6, <2>7
  <2>10. indices # <<>> /\ BaseIndex(indices) = indices[1]
    <3>1. indices # <<>>
      BY <2>1
    <3> QED  BY <3>1 DEF BaseIndex
  <2>11. CachedLocally(r, indices) <=> r.cached /\ indices[1] = r.index
    BY <2>10 DEF CachedLocally
  <2>12. indices[1] = r.length - IF CachedLocally(r, indices) THEN 1 ELSE 0
    <3>1. CASE r.cached
      <4>1. m > 0 /\ r.index = all[m] /\ r.length = r.index + 1
        BY <1>2, <3>1
      <4>2. m + 1 \in 2..Len(all) /\ (m + 1) - 1 = m
        BY <1>4, <1>5, <2>1, <4>1
      <4>3. all[m + 1] = all[m] \/ all[m + 1] = all[m] + 1
        BY <2>2, <4>2
      <4>4. all[m + 1] = indices[1]
        BY <1>4, <2>1
      <4>5. indices[1] = r.index \/ indices[1] = r.index + 1
        BY <4>1, <4>3, <4>4
      <4> QED  BY <1>2, <2>11, <3>1, <4>1, <4>5
    <3>2. CASE ~r.cached
      <4>1. r.length = 0 /\ m = 0
        BY <1>2, <1>4, <3>2
      <4>2. all[m + 1] = indices[1] /\ Len(all) > 0
        BY <1>4, <1>5, <2>1, <4>1
      <4> QED  BY <2>2, <2>11, <3>2, <4>1, <4>2
    <3> QED  BY <1>2, <3>1, <3>2
  <2>13. Fresh(r, indices) = last + 1 - r.length /\ Fresh(r, indices) \in Nat
    <3>1. indices[1] <= last
      BY <2>1, <2>6
    <3> DEFINE hit == IF CachedLocally(r, indices) THEN 1 ELSE 0
               first == indices[1]
               d == DedupCount(indices)
    <3>2. hit \in Int /\ (hit = 0 \/ hit = 1)
      OBVIOUS
    <3>3. first = r.length - hit /\ d = last - first + 1 /\ Fresh(r, indices) = d - hit
      BY <2>6, <2>12 DEF Fresh
    <3>4. first \in Nat /\ last \in Nat /\ first <= last /\ r.length \in Nat
      BY <1>2, <2>7, <3>1
    <3> DEFINE len == r.length
               fresh == Fresh(r, indices)
    <3> HIDE DEF hit, first, d, last, len, fresh
    <3>5. /\ first = len - hit /\ d = last - first + 1 /\ fresh = d - hit
          /\ first \in Nat /\ last \in Nat /\ first <= last /\ len \in Nat
      BY <3>3, <3>4 DEF len, fresh
    <3>6. fresh = last + 1 - len /\ fresh \in Nat
      BY ONLY <3>2, <3>5
    <3> QED  BY <3>6 DEF len, fresh
  <2> QED  BY <1>4, <1>5, <1>7, <2>1, <2>6, <2>7, <2>8, <2>9, <2>10, <2>12, <2>13
             DEF indices, m, all
<1>. QED  BY <1>6, <1>7

(* The lengths consumed are lengths of the stream, and the array the       *)
(* reader keeps is the last of them.                                       *)
LEMMA ReaderFacts ==
    ASSUME WriterInv, NEW r, ReaderAt(r)
    PROVE  /\ r \in ReaderType
           /\ r.length \in 0..Len(lengths) /\ Len(lengths) \in Nat
           /\ r.cached => /\ r.index \in 0..(Len(lengths) - 1)
                          /\ r.length = r.index + 1
<1> DEFINE all == NonNulls(offsets)
           m == UsedBefore(r.row)
<1>1. /\ offsets \in Seq(OffsetType) /\ Len(offsets) = Len(rows) /\ Len(rows) \in Nat
      /\ Len(lengths) \in Nat /\ all \in Seq(OffsetType) /\ OffsetsClimb(all, Len(lengths))
  BY StreamFacts
<1>2. /\ r \in ReaderType /\ r.row <= Len(rows) /\ (r.cached <=> m > 0)
      /\ r.cached => r.index = all[m] /\ r.length = r.index + 1
      /\ ~r.cached => r.length = 0
  BY DEF ReaderAt
<1>3. r.row \in Nat
  BY <1>2 DEF ReaderType
<1>4. m \in Nat /\ m <= Len(all)
  <2> DEFINE a == r.row
             b == Len(offsets)
  <2>1. a \in 0..Len(offsets) /\ b \in a..Len(offsets)
    BY <1>1, <1>2, <1>3
  <2> HIDE DEF a, b
  <2> DEFINE slice == Without(SubSeq(offsets, a + 1, b), Null)
             before == Len(Without(SubSeq(offsets, 1, a), Null))
  <2>2. /\ slice \in Seq(OffsetType) /\ before \in Nat
        /\ before + Len(slice) <= Len(Without(offsets, Null))
    BY <1>1, <2>1, WithoutSlice
  <2>3. Len(slice) \in Nat /\ Len(Without(offsets, Null)) \in Nat
    BY <1>1, <2>2 DEF NonNulls
  <2>4. before <= Len(Without(offsets, Null))
    BY <2>2, <2>3
  <2> QED  BY <2>2, <2>4 DEF UsedBefore, NonNulls, a
<1>5. r.cached => r.index \in 0..(Len(lengths) - 1)
  <2> SUFFICES ASSUME r.cached PROVE r.index \in 0..(Len(lengths) - 1)
    OBVIOUS
  <2>1. m > 0 /\ r.index = all[m]
    BY <1>2
  <2> HIDE DEF m, all
  <2>2. Len(all) \in Nat
    BY <1>1
  <2>3. m \in 1..Len(all)
    BY <1>4, <2>1, <2>2
  <2> QED  BY <1>1, <2>1, <2>3 DEF OffsetsClimb
<1>6. r.length \in 0..Len(lengths)
  <2>1. CASE r.cached
    <3>1. r.index \in 0..(Len(lengths) - 1) /\ r.length = r.index + 1
      BY <1>2, <1>5, <2>1
    <3> QED  BY <1>1, <3>1
  <2>2. CASE ~r.cached
    BY <1>1, <1>2, <2>2
  <2> QED  BY <2>1, <2>2
<1>. QED  BY <1>1, <1>2, <1>5, <1>6

(* A stored array is a sequence of its length.                             *)
LEMMA StoredShows ==
    ASSUME WriterInv, NEW o \in 0..(Len(lengths) - 1), NEW v,
           v = ArrayAt(lengths, elements, o), NEW lost
    PROVE  Shows(v, o, lost)
<1>1. /\ lengths \in Seq(Nat) /\ elements \in Seq(Element)
      /\ Start(lengths, Len(lengths)) = Len(elements)
  BY StreamFacts
<1> DEFINE x == Start(lengths, o)
           l == lengths[o + 1]
<1>2. /\ x \in Nat /\ l \in Nat /\ x + l <= Len(elements) /\ Len(elements) \in Nat
      /\ Len(v) = lengths[o + 1]
  BY <1>1, ArrayInside
<1>3. v = SubSeq(elements, x + 1, x + l)
  BY DEF ArrayAt
<1> DEFINE b == x + l
<1>4. x \in 0..Len(elements) /\ b \in x..Len(elements)
  BY <1>2
<1>5. v = SubSeq(elements, x + 1, b)
  BY <1>3
<1> HIDE DEF x, l, b
<1>6. v \in Seq(Element)
  BY <1>1, <1>4, <1>5, SliceFacts
<1>7. v \in ValueType
  BY <1>6 DEF ValueType
<1>. QED  BY <1>2, <1>7 DEF Shows

(* What a skip left in the stream is the array the reader keeps, read or   *)
(* skipped before anything else is; an array that is kept is shown, or     *)
(* its length is.                                                          *)
LEMMA CacheShows ==
    ASSUME WriterInv, ReaderAt(reader), NEW cachedLocally \in BOOLEAN
    PROVE  /\ AfterLazy(cachedLocally) = Start(lengths, reader.length)
           /\ reader.cached => Shows(CachedArray, reader.index, reader.dropped)
<1>1. /\ lengths \in Seq(Nat) /\ elements \in Seq(Element)
      /\ Start(lengths, Len(lengths)) = Len(elements)
  BY StreamFacts
<1>2. /\ reader.length \in 0..Len(lengths) /\ Len(lengths) \in Nat
      /\ reader.cached => /\ reader.index \in 0..(Len(lengths) - 1)
                          /\ reader.length = reader.index + 1
      /\ reader \in ReaderType
  BY ReaderFacts
<1>3. /\ reader.element \in Nat /\ reader.lazyRows \in Nat /\ reader.value \in ValueType
      /\ reader.size \in Nat
      /\ reader.cached \in BOOLEAN /\ reader.lazy \in BOOLEAN /\ reader.dropped \in BOOLEAN
  BY <1>2 DEF ReaderType
<1>4. /\ reader.element + Pending(reader) = Start(lengths, reader.length)
      /\ CacheHolds(reader)
  BY DEF ReaderAt
<1>5. CASE reader.cached /\ reader.lazy
  <2> DEFINE o == reader.index
             x == reader.element
             l == reader.lazyRows
  <2>1. AfterLazy(cachedLocally) = x + l /\ Pending(reader) = l
    BY <1>5 DEF AfterLazy, Pending
  <2>2. o \in 0..(Len(lengths) - 1) /\ reader.length = o + 1 /\ l = lengths[o + 1]
    BY <1>2, <1>4, <1>5 DEF CacheHolds
  <2>3. x + l = Start(lengths, o + 1)
    BY <1>4, <2>1, <2>2
  <2>4. x \in Nat /\ l \in Nat
    BY <1>3
  <2> HIDE DEF o, x, l
  <2>5. Start(lengths, o + 1) = Start(lengths, o) + lengths[o + 1]
    BY <1>1, <2>2, StartFacts
  <2>6. Start(lengths, o) \in Nat
    <3>1. o \in 0..Len(lengths)
      BY <1>2, <2>2
    <3> QED  BY <1>1, <3>1, StartFacts
  <2>7. x = Start(lengths, o)
    BY <2>2, <2>3, <2>4, <2>5, <2>6
  <2>8. CachedArray = SubSeq(elements, x + 1, x + l)
    BY <1>5 DEF CachedArray, x, l
  <2>9. CachedArray = ArrayAt(lengths, elements, o)
    BY <2>2, <2>7, <2>8 DEF ArrayAt
  <2>10. Shows(CachedArray, o, reader.dropped)
    BY <2>2, <2>9, StoredShows
  <2> QED  BY <2>1, <2>2, <2>3, <2>10 DEF o
<1>6. CASE ~(reader.cached /\ reader.lazy)
  <2>1. AfterLazy(cachedLocally) = reader.element /\ Pending(reader) = 0
    BY <1>6 DEF AfterLazy, Pending
  <2>2. reader.element = Start(lengths, reader.length)
    BY <1>3, <1>4, <2>1
  <2>3. ASSUME reader.cached PROVE Shows(CachedArray, reader.index, reader.dropped)
    <3> DEFINE size == reader.size
               value == reader.value
               o == reader.index
               shown == [i \in 1..size |-> IF i <= Len(value) THEN value[i] ELSE Unread]
    <3>1. CachedArray = shown
      BY <1>6 DEF CachedArray
    <3>2. /\ size = lengths[o + 1] /\ o \in 0..(Len(lengths) - 1)
          /\ ~reader.dropped => value = ArrayAt(lengths, elements, o)
      BY <1>2, <1>4, <1>6, <2>3 DEF CacheHolds
    <3>3. size \in Nat /\ value \in Seq(Element \cup {Unread})
      BY <1>3 DEF ValueType
    <3> HIDE DEF size, value, o
    <3>4. shown \in Seq(Element \cup {Unread}) /\ Len(shown) = size
      <4>1. Len(value) \in Nat /\ \A i \in 1..Len(value) : value[i] \in Element \cup {Unread}
        BY <3>3
      <4>2. \A i \in 1..size : (IF i <= Len(value) THEN value[i] ELSE Unread)
                                 \in Element \cup {Unread}
        BY <3>3, <4>1
      <4>3. shown \in [1..size -> Element \cup {Unread}]
        BY <4>2
      <4> HIDE DEF shown
      <4> QED  BY <3>3, <4>3
    <3>5. CASE reader.dropped
      <4> HIDE DEF shown
      <4> QED  BY <3>1, <3>2, <3>4, <3>5 DEF Shows, ValueType, o
    <3>6. CASE ~reader.dropped
      <4>1. value = ArrayAt(lengths, elements, o) /\ Len(value) = size
        <5>1. Len(ArrayAt(lengths, elements, o)) = lengths[o + 1]
          BY <1>1, <3>2, ArrayInside
        <5> QED  BY <3>2, <3>6, <5>1
      <4>2. shown = value
        BY <3>3, <4>1
      <4>3. Shows(CachedArray, o, reader.dropped)
        BY <3>1, <3>2, <4>1, <4>2, StoredShows
      <4> QED  BY <4>3 DEF o
    <3> QED  BY <1>3, <3>5, <3>6
  <2> QED  BY <2>1, <2>2, <2>3
<1>. QED  BY <1>5, <1>6

(* The dictionary of a batch shows, for every index of it, the array the   *)
(* index stands for; the one kept is that of the last index.               *)
LEMMA DictionaryShows ==
    ASSUME WriterInv, ReaderAt(reader), NEW n \in Nat, reader.row + n <= Len(rows),
           NEW indices, indices = Indices(reader, n), Len(indices) > 0,
           NEW o \in indices[1]..indices[Len(indices)]
    PROVE  /\ Shows(Dictionary(indices)[Normalized(indices, o)], o, LostAt(o))
           /\ IndexToCache(indices) = Normalized(indices, indices[Len(indices)])
<1> DEFINE c == Len(indices)
           first == indices[1]
           last == indices[c]
           local == CachedLocally(reader, indices)
           hit == IF local THEN 1 ELSE 0
           dedup == DedupCount(indices)
           fresh == Fresh(reader, indices)
           length == reader.length
           k == Normalized(indices, o)
<1>1. /\ last \in 0..(Len(lengths) - 1) /\ first \in Nat
      /\ BaseIndex(indices) = first
      /\ dedup = last - first + 1
      /\ first = length - hit
      /\ fresh = last + 1 - length /\ fresh \in Nat
  BY BatchFacts
<1>2. /\ length \in 0..Len(lengths) /\ Len(lengths) \in Nat
      /\ reader.cached => reader.index \in 0..(Len(lengths) - 1)
  BY ReaderFacts
<1>3. last \in Nat /\ o \in Nat /\ o \in 0..(Len(lengths) - 1) /\ first <= o /\ o <= last
      /\ length \in Nat
  BY <1>1, <1>2
<1>4. local => reader.cached /\ first = reader.index
  BY <1>1 DEF CachedLocally
<1>5. local \in BOOLEAN
  BY DEF CachedLocally
<1>6. /\ AfterLazy(local) = Start(lengths, length)
      /\ reader.cached => Shows(CachedArray, reader.index, reader.dropped)
  BY <1>5, CacheShows
<1>7. hit \in Nat /\ (local => hit = 1) /\ (~local => hit = 0)
  OBVIOUS
<1>8. /\ o - first = 0 /\ local => k = dedup
      /\ ~(o - first = 0 /\ local) => k = o - first + 1 - hit
  BY <1>1 DEF Normalized
<1>9. \A j \in 1..dedup :
        /\ local /\ j = dedup => Dictionary(indices)[j] = CachedArray
        /\ ~(local /\ j = dedup) =>
             Dictionary(indices)[j] = NextArray(length, AfterLazy(local), j)
  BY DEF Dictionary
<1>10. IndexToCache(indices) = (IF fresh = 0 THEN 1 ELSE fresh)
  BY DEF IndexToCache
<1>11. /\ last - first = 0 /\ local => Normalized(indices, last) = dedup
       /\ ~(last - first = 0 /\ local) => Normalized(indices, last) = last - first + 1 - hit
  BY <1>1 DEF Normalized
<1> HIDE DEF first, last, local, hit, dedup, fresh, length, k, c
<1>12. ASSUME o - first = 0, local PROVE Shows(Dictionary(indices)[k], o, LostAt(o))
  <2>1. k = dedup /\ dedup \in 1..dedup
    <3>1. dedup = last - first + 1 /\ first \in Nat /\ last \in Nat /\ o \in Nat
          /\ first <= o /\ o <= last
      BY <1>1, <1>3
    <3>2. dedup \in 1..dedup
      BY ONLY <3>1
    <3> QED  BY <1>8, <1>12, <3>2
  <2>2. Dictionary(indices)[k] = CachedArray
    BY <1>9, <1>12, <2>1
  <2>3. o = first
    BY <1>1, <1>3, <1>12
  <2>4. o = reader.index /\ reader.cached
    BY <1>4, <1>12, <2>3
  <2>5. Shows(CachedArray, o, reader.dropped)
    BY <1>6, <2>4
  <2> QED  BY <2>2, <2>4, <2>5 DEF Shows, LostAt
<1>13. ASSUME ~(o - first = 0 /\ local)
       PROVE  Shows(Dictionary(indices)[k], o, LostAt(o))
  <2>1. k = o - first + 1 - hit
    BY <1>8, <1>13
  <2>2. /\ k \in 1..dedup /\ ~(local /\ k = dedup)
        /\ k \in 1..(Len(lengths) - length) /\ length + k - 1 = o
    <3>1. CASE local
      <4>1. hit = 1 /\ o > first
        BY <1>1, <1>3, <1>7, <1>13, <3>1
      <4> QED  BY <1>1, <1>2, <1>3, <2>1, <4>1
    <3>2. CASE ~local
      <4>1. hit = 0
        BY <1>7, <3>2
      <4> QED  BY <1>1, <1>2, <1>3, <2>1, <3>2, <4>1
    <3> QED  BY <3>1, <3>2
  <2>3. Dictionary(indices)[k] = NextArray(length, AfterLazy(local), k)
    BY <1>9, <2>2
  <2>4. NextArray(length, Start(lengths, length), k) =
          ArrayAt(lengths, elements, length + k - 1)
    BY <1>2, <2>2, StreamFacts, NextArrayFacts
  <2>5. Dictionary(indices)[k] = ArrayAt(lengths, elements, o)
    BY <1>6, <2>2, <2>3, <2>4
  <2> QED  BY <1>3, <2>5, StoredShows
<1>14. IndexToCache(indices) = Normalized(indices, last)
  <2>1. CASE last - first = 0 /\ local
    <3>1. dedup = 1 /\ fresh = 0
      BY <1>1, <1>3, <1>7, <2>1
    <3> QED  BY <1>10, <1>11, <2>1, <3>1
  <2>2. CASE ~(last - first = 0 /\ local)
    <3>1. fresh = last - first + 1 - hit /\ fresh # 0
      <4>1. CASE local
        <5>1. hit = 1 /\ last - first # 0
          BY <1>7, <2>2, <4>1
        <5> QED  BY <1>1, <1>3, <5>1
      <4>2. CASE ~local
        <5>1. hit = 0
          BY <1>7, <4>2
        <5> QED  BY <1>1, <1>3, <5>1
      <4> QED  BY <4>1, <4>2
    <3> QED  BY <1>10, <1>11, <2>2, <3>1
  <2> QED  BY <2>1, <2>2
<1>. QED  BY <1>12, <1>13, <1>14 DEF k, last, c

(* Where a reader stands that has gone n rows on.                          *)
LEMMA StandsAfter ==
    ASSUME WriterInv, NEW r, ReaderAt(r), NEW n \in Nat, r.row + n <= Len(rows),
           NEW indices, indices = Indices(r, n),
           NEW s \in ReaderType, s.row = r.row + n,
           Len(indices) > 0 => /\ s.cached /\ s.index = indices[Len(indices)]
                               /\ s.length = r.length + Fresh(r, indices),
           Len(indices) = 0 => /\ s.cached = r.cached /\ s.index = r.index
                               /\ s.length = r.length,
           s.element + Pending(s) = Start(lengths, s.length),
           CacheHolds(s)
    PROVE  ReaderAt(s)
<1> DEFINE c == Len(indices)
           m == UsedBefore(r.row)
           m2 == UsedBefore(s.row)
<1>1. /\ c \in Nat /\ m \in Nat /\ m2 = m + c
      /\ c > 0 => /\ indices[c] \in 0..(Len(lengths) - 1)
                  /\ NonNulls(offsets)[m2] = indices[c]
                  /\ Fresh(r, indices) = indices[c] + 1 - r.length
  BY BatchFacts
<1>2. /\ r.row \in Nat /\ r.length \in Nat /\ (r.cached <=> m > 0)
      /\ r.cached => r.index = NonNulls(offsets)[m] /\ r.length = r.index + 1
      /\ ~r.cached => r.length = 0
  BY DEF ReaderAt, ReaderType
<1> HIDE DEF m, m2
<1>3. CASE c > 0
  <2>1. s.cached /\ m2 > 0 /\ s.index = NonNulls(offsets)[m2]
    BY <1>1, <1>3
  <2>2. s.length = s.index + 1
    <3>1. indices[c] \in Int /\ s.index = indices[c]
          /\ s.length = r.length + (indices[c] + 1 - r.length)
      BY <1>1, <1>3, StreamFacts
    <3> QED  BY <1>2, <3>1
  <2> QED  BY <2>1, <2>2 DEF ReaderAt, m2
<1>4. CASE c = 0
  <2>1. m2 = m /\ s.cached = r.cached /\ s.index = r.index /\ s.length = r.length
    BY <1>1, <1>4
  <2>2. /\ s.cached <=> m2 > 0
        /\ s.cached => s.index = NonNulls(offsets)[m2] /\ s.length = s.index + 1
        /\ ~s.cached => s.length = 0
    BY <1>2, <2>1
  <2> QED  BY <2>2 DEF ReaderAt, m2
<1>. QED  BY <1>1, <1>3, <1>4

(* The streams do not change while they are read.                          *)
LEMMA ReaderStays ==
    ASSUME WriterInv, ReaderAt(reader'), reading,
           UNCHANGED <<rows, offsets, lengths, elements, writer, reading>>
    PROVE  ReaderInv'
<1>1. WriterInv'
  BY WriterStays
<1>2. ReaderAt(reader)'
  BY DEF ReaderAt, UsedBefore, NonNulls, Pending, CacheHolds, ArrayAt, Start
<1>. QED  BY <1>1, <1>2 DEF ReaderInv

(* A bitmap of a call of next.                                             *)
LEMMA RequestType ==
    ASSUME NEW bitmap \in Requests
    PROVE  \E n \in Nat : bitmap \in [1..n -> BOOLEAN]
BY ArraysAssumption DEF Requests

(* next leaves the reader behind the rows it took, with the last array.    *)
LEMMA NextStands ==
    ASSUME ReaderInv, NEW bitmap \in Requests, Next(bitmap)
    PROVE  ReaderInv'
<1> DEFINE count == Cardinality(Selected(bitmap))
           indices == Indices(reader, count)
           c == Len(indices)
           any == DedupCount(indices) > 0
           local == CachedLocally(reader, indices)
           fresh == Fresh(reader, indices)
           last == indices[c]
           kept == Dictionary(indices)[IndexToCache(indices)]
           value == IF any THEN kept ELSE reader.value
           size == IF any THEN Len(kept) ELSE reader.size
           dropped == /\ fresh = 0
                      /\ \/ reader.dropped
                         \/ reader.cached /\ reader.lazy /\ ~any
           index == IF any THEN last ELSE reader.index
           element == AfterLazy(local) + LengthsSum(reader.length, fresh)
           length == reader.length + fresh
           lazy == reader.lazy /\ ~reader.cached /\ ~any
           cached == reader.cached \/ any
<1>1. /\ WriterInv /\ ReaderAt(reader) /\ reading
      /\ reader.row + count <= Len(rows)
      /\ reader' = [row |-> reader.row + count, length |-> length, element |-> element,
                    cached |-> cached, index |-> index, value |-> value, size |-> size,
                    lazy |-> lazy, lazyRows |-> reader.lazyRows, dropped |-> dropped]
      /\ UNCHANGED <<rows, offsets, lengths, elements, writer, reading>>
  BY DEF Next, streams, ReaderInv
<1>2. count \in Nat
  <2>1. PICK n \in Nat : bitmap \in [1..n -> BOOLEAN]
    BY RequestType
  <2> QED  BY <2>1, SlotFacts
<1>3. /\ reader \in ReaderType /\ reader.length \in 0..Len(lengths)
      /\ Len(lengths) \in Nat /\ lengths \in Seq(Nat)
      /\ reader.cached => /\ reader.index \in 0..(Len(lengths) - 1)
                          /\ reader.length = reader.index + 1
      /\ CacheHolds(reader)
  BY <1>1, ReaderFacts, StreamFacts DEF ReaderAt
<1>4. /\ reader.row \in Nat /\ reader.length \in Nat /\ reader.index \in Nat
      /\ reader.cached \in BOOLEAN /\ reader.lazy \in BOOLEAN /\ reader.lazyRows \in Nat
      /\ reader.value \in ValueType /\ reader.size \in Nat /\ reader.dropped \in BOOLEAN
  BY <1>3 DEF ReaderType
<1> HIDE DEF count
<1>5. /\ c \in Nat
      /\ c = 0 => ~any /\ ~local /\ fresh = 0
      /\ c > 0 => /\ last \in 0..(Len(lengths) - 1) /\ any
                  /\ fresh = last + 1 - reader.length /\ fresh \in Nat
                  /\ indices[1] \in Nat /\ last \in indices[1]..last
  <2>1. /\ c \in Nat
        /\ c = 0 => DedupCount(indices) = 0 /\ ~local /\ fresh = 0
        /\ c > 0 => /\ last \in 0..(Len(lengths) - 1)
                    /\ \A k \in 1..c : indices[k] \in indices[1]..last
                    /\ indices[1] \in Nat
                    /\ DedupCount(indices) = last - indices[1] + 1
                    /\ fresh = last + 1 - reader.length /\ fresh \in Nat
    BY <1>1, <1>2, BatchFacts
  <2> HIDE DEF indices, local, fresh
  <2>2. CASE c = 0
    BY <2>1, <2>2
  <2>3. CASE c > 0
    <3>1. c \in 1..c
      BY <2>1, <2>3
    <3>2. last \in indices[1]..last /\ last \in Nat /\ indices[1] \in Nat
      BY <1>3, <2>1, <2>3, <3>1
    <3>3. DedupCount(indices) > 0
      <4> DEFINE x == indices[1]
      <4>1. x <= last /\ x \in Nat /\ last \in Nat /\ DedupCount(indices) = last - x + 1
        BY <2>1, <2>3, <3>2
      <4> HIDE DEF x, last
      <4> QED  BY <4>1
    <3> QED  BY <2>1, <2>3, <3>2, <3>3
  <2> QED  BY <2>1, <2>2, <2>3
<1>6. local \in BOOLEAN
  BY DEF CachedLocally
<1>7. AfterLazy(local) = Start(lengths, reader.length)
  BY <1>1, <1>6, CacheShows
<1>8. c > 0 => Shows(kept, last, LostAt(last))
  <2> SUFFICES ASSUME c > 0 PROVE Shows(kept, last, LostAt(last))
    OBVIOUS
  <2> DEFINE q == indices
             o == last
  <2>1. q = Indices(reader, count) /\ Len(q) > 0 /\ o = q[Len(q)] /\ o \in q[1]..o
    BY <1>5
  <2> HIDE DEF q, o
  <2>2. /\ Shows(Dictionary(q)[Normalized(q, o)], o, LostAt(o))
        /\ IndexToCache(q) = Normalized(q, q[Len(q)])
    BY <1>1, <1>2, <2>1, DictionaryShows
  <2>3. Shows(Dictionary(q)[IndexToCache(q)], o, LostAt(o))
    BY <2>1, <2>2
  <2> QED  BY <2>3 DEF q, o
<1> HIDE DEF indices, local
<1>9. fresh \in 0..(Len(lengths) - reader.length)
  <2> DEFINE l == reader.length
             total == Len(lengths)
             o == last
             d == fresh
  <2>1. /\ l \in 0..total /\ total \in Nat /\ l \in Nat /\ c \in Nat
        /\ c = 0 => d = 0
        /\ c > 0 => o \in 0..(total - 1) /\ d = o + 1 - l /\ d \in Nat
    BY <1>3, <1>4, <1>5
  <2> HIDE DEF l, total, o, d, c
  <2>2. d \in 0..(total - l)
    BY ONLY <2>1
  <2> QED  BY <2>2 DEF l, total, d
<1>10. length \in Nat /\ element = Start(lengths, length) /\ element \in Nat
  <2> HIDE DEF fresh
  <2>1. /\ LengthsSum(reader.length, fresh)
             = Start(lengths, reader.length + fresh) - Start(lengths, reader.length)
        /\ Start(lengths, reader.length) \in Nat
        /\ Start(lengths, reader.length + fresh) \in Nat
    BY <1>3, <1>9, LengthsSumFacts
  <2> QED  BY <1>4, <1>7, <1>9, <2>1
<1>11. /\ c > 0 => /\ Shows(value, last, LostAt(last))
                   /\ size = Len(value) /\ index = last
                   /\ dropped <=> fresh = 0 /\ reader.dropped
       /\ c = 0 => /\ value = reader.value /\ size = reader.size
                   /\ index = reader.index
                   /\ dropped <=> reader.dropped \/ (reader.cached /\ reader.lazy)
  <2> HIDE DEF kept, fresh
  <2>1. CASE c > 0
    <3>1. any
      BY <1>5, <2>1
    <3>2. value = kept /\ size = Len(kept) /\ index = last
      BY <3>1
    <3>3. dropped <=> fresh = 0 /\ reader.dropped
      BY <3>1
    <3> QED  BY <1>8, <2>1, <3>2, <3>3
  <2>2. CASE c = 0
    <3>1. ~any /\ fresh = 0
      BY <1>5, <2>2
    <3>2. value = reader.value /\ size = reader.size /\ index = reader.index
      BY <3>1
    <3>3. dropped <=> reader.dropped \/ (reader.cached /\ reader.lazy)
      BY <3>1
    <3> QED  BY <2>2, <3>2, <3>3
  <2> QED  BY <1>5, <2>1, <2>2
<1>12. /\ value \in ValueType /\ index \in Nat /\ size \in Nat
       /\ c > 0 => size = lengths[last + 1]
  <2>1. CASE c > 0
    <3>1. Shows(value, last, LostAt(last)) /\ last \in 0..(Len(lengths) - 1)
          /\ size = Len(value) /\ index = last
      BY <1>5, <1>11, <2>1
    <3> HIDE DEF value, index, last, size
    <3>2. value \in ValueType /\ size = lengths[last + 1]
      BY <3>1 DEF Shows
    <3>3. last + 1 \in 1..Len(lengths) /\ last \in Nat
      BY <1>3, <3>1
    <3>4. lengths[last + 1] \in Nat
      BY <1>3, <3>3
    <3> QED  BY <3>1, <3>2, <3>3, <3>4
  <2>2. CASE c = 0
    BY <1>4, <1>11, <2>2
  <2> QED  BY <1>5, <2>1, <2>2
<1>13. /\ cached \in BOOLEAN /\ lazy \in BOOLEAN
       /\ cached => ~lazy
       /\ c > 0 => cached
       /\ c = 0 => cached = reader.cached
  <2> HIDE DEF any
  <2> QED  BY <1>4, <1>5
<1>14. dropped \in BOOLEAN
  <2> HIDE DEF fresh, any
  <2> QED  BY <1>4
<1>15. cached /\ ~dropped => value = ArrayAt(lengths, elements, index)
  <2> SUFFICES ASSUME cached, ~dropped PROVE value = ArrayAt(lengths, elements, index)
    OBVIOUS
  <2> HIDE DEF cached, dropped, value, index, any, fresh, size
  <2>1. CASE c > 0
    <3>1. ~LostAt(last)
      <4>1. CASE fresh = 0
        <5>1. ~reader.dropped
          BY <1>11, <2>1, <4>1
        <5> QED  BY <5>1 DEF LostAt
      <4>2. CASE fresh # 0
        <5> DEFINE o == last
                   l == reader.length
                   x == reader.index
        <5>1. fresh = o + 1 - l /\ l \in Nat /\ x \in Nat /\ fresh # 0
          BY <1>4, <1>5, <2>1, <4>2
        <5>2. o \in Nat
          BY <1>3, <1>5, <2>1
        <5>3. reader.cached => l = x + 1
          BY <1>3
        <5> HIDE DEF o, l, x
        <5>4. reader.cached => o # x
          BY <5>1, <5>2, <5>3
        <5> QED  BY <5>4 DEF LostAt, o, x
      <4> QED  BY <4>1, <4>2
    <3>2. Shows(value, last, LostAt(last)) /\ index = last
      BY <1>11, <2>1
    <3> HIDE DEF last
    <3> QED  BY <3>1, <3>2 DEF Shows
  <2>2. CASE c = 0
    <3>1. ~reader.dropped /\ reader.cached /\ ~reader.lazy
      <4>1. reader.cached
        BY <1>13, <2>2
      <4>2. ~(reader.dropped \/ (reader.cached /\ reader.lazy))
        BY <1>11, <2>2
      <4> QED  BY <4>1, <4>2
    <3>2. reader.value = ArrayAt(lengths, elements, reader.index)
      BY <1>3, <3>1 DEF CacheHolds
    <3> QED  BY <1>11, <2>2, <3>2
  <2> QED  BY <1>5, <2>1, <2>2
<1>16. cached => size = lengths[index + 1]
  <2> HIDE DEF cached, dropped, value, index, any, fresh, size
  <2>1. CASE c > 0
    BY <1>11, <1>12, <2>1
  <2>2. CASE c = 0
    BY <1>3, <1>11, <1>13, <2>2 DEF CacheHolds
  <2> QED  BY <1>5, <2>1, <2>2
<1> HIDE DEF cached, lazy, value, index, element, length, any, fresh, size, dropped, kept
<1> DEFINE s == [row |-> reader.row + count, length |-> length, element |-> element,
                 cached |-> cached, index |-> index, value |-> value, size |-> size,
                 lazy |-> lazy, lazyRows |-> reader.lazyRows, dropped |-> dropped]
<1>17. s \in ReaderType
  <2>1. reader.row + count \in Nat
    BY <1>2, <1>4
  <2> QED  BY <1>4, <1>10, <1>12, <1>13, <1>14, <2>1 DEF ReaderType
<1>18. /\ s.row = reader.row + count /\ s.length = length /\ s.element = element
       /\ s.cached = cached /\ s.index = index /\ s.value = value /\ s.lazy = lazy
       /\ s.size = size /\ s.dropped = dropped
  OBVIOUS
<1>19. reader' = s
  BY <1>1
<1> HIDE DEF s
<1>20. Pending(s) = 0
  BY <1>13, <1>18 DEF Pending
<1>21. s.element + Pending(s) = Start(lengths, s.length)
  BY <1>10, <1>18, <1>20
<1>22. c > 0 => /\ s.cached /\ s.index = indices[c]
                /\ s.length = reader.length + Fresh(reader, indices)
  BY <1>11, <1>13, <1>18 DEF length, fresh
<1>23. c = 0 => s.cached = reader.cached /\ s.index = reader.index /\ s.length = reader.length
  BY <1>4, <1>5, <1>11, <1>13, <1>18 DEF length
<1>24. CacheHolds(s)
  BY <1>13, <1>15, <1>16, <1>18 DEF CacheHolds
<1>25. ReaderAt(s)
  <2>1. indices = Indices(reader, count)
    BY DEF indices
  <2> QED  BY <1>1, <1>2, <1>17, <1>18, <1>21, <1>22, <1>23, <1>24, <2>1, StandsAfter
<1>. QED  BY <1>1, <1>19, <1>25, ReaderStays

(* One round of skip leaves the reader behind the rows it skipped, with    *)
(* the last array's elements still to be read.                             *)
LEMMA SkipRoundStands ==
    ASSUME WriterInv, NEW r, ReaderAt(r), NEW n \in Nat, r.row + n <= Len(rows)
    PROVE  ReaderAt(SkipRound(r, n)) /\ SkipRound(r, n).row = r.row + n
<1> DEFINE s == SkipRound(r, n)
           indices == Indices(r, n)
           c == Len(indices)
           last == indices[c]
           fresh == Fresh(r, indices)
           lazy == IF r.cached /\ r.lazy THEN r.lazyRows ELSE 0
           size == lengths[r.length + fresh]
           element == r.element + lazy + LengthsSum(r.length, fresh - 1)
<1>1. /\ r \in ReaderType /\ r.length \in 0..Len(lengths)
      /\ Len(lengths) \in Nat /\ lengths \in Seq(Nat)
      /\ r.cached => r.length = r.index + 1
  BY ReaderFacts, StreamFacts
<1>2. /\ r.row \in Nat /\ r.length \in Nat /\ r.index \in Nat /\ r.element \in Nat
      /\ r.cached \in BOOLEAN /\ r.lazy \in BOOLEAN /\ r.lazyRows \in Nat
      /\ r.value \in ValueType /\ r.size \in Nat /\ r.dropped \in BOOLEAN
      /\ r = [row |-> r.row, length |-> r.length, element |-> r.element,
              cached |-> r.cached, index |-> r.index, value |-> r.value, size |-> r.size,
              lazy |-> r.lazy, lazyRows |-> r.lazyRows, dropped |-> r.dropped]
  BY <1>1 DEF ReaderType
<1>3. /\ ~r.cached => r.length = 0
      /\ r.element + Pending(r) = Start(lengths, r.length)
      /\ CacheHolds(r)
  BY DEF ReaderAt
<1>4. /\ c \in Nat
      /\ c = 0 => fresh = 0
      /\ c > 0 => /\ last \in 0..(Len(lengths) - 1)
                  /\ fresh = last + 1 - r.length /\ fresh \in Nat
  BY BatchFacts
<1>5. r.row + n \in Nat
  BY <1>2
<1>6. CASE fresh = 0
  <2>1. s = [r EXCEPT !.row = @ + n]
    BY <1>6 DEF SkipRound
  <2> HIDE DEF s, indices, fresh
  <2>2. s = [row |-> r.row + n, length |-> r.length, element |-> r.element,
             cached |-> r.cached, index |-> r.index, value |-> r.value, size |-> r.size,
             lazy |-> r.lazy, lazyRows |-> r.lazyRows, dropped |-> r.dropped]
    BY <1>2, <2>1
  <2>3. /\ s.row = r.row + n /\ s.length = r.length /\ s.element = r.element
        /\ s.cached = r.cached /\ s.index = r.index /\ s.value = r.value
        /\ s.lazy = r.lazy /\ s.lazyRows = r.lazyRows
        /\ s.size = r.size /\ s.dropped = r.dropped
    BY <2>2
  <2>4. s \in ReaderType
    BY <1>2, <1>5, <2>2 DEF ReaderType
  <2>5. Pending(s) = Pending(r)
    BY <2>3 DEF Pending
  <2>6. c > 0 => s.cached /\ s.index = last /\ s.length = r.length + fresh
    <3> SUFFICES ASSUME c > 0 PROVE s.cached /\ s.index = last /\ s.length = r.length + fresh
      OBVIOUS
    <3>1. last \in Nat /\ r.length = last + 1
      <4>1. last \in 0..(Len(lengths) - 1) /\ 0 = last + 1 - r.length
        BY <1>4, <1>6
      <4> DEFINE len == r.length
                 total == Len(lengths)
      <4>2. total \in Nat /\ len \in Nat /\ last \in 0..(total - 1) /\ 0 = last + 1 - len
        BY <1>1, <1>2, <4>1
      <4> HIDE DEF last, len, total
      <4>3. last \in Nat /\ len = last + 1
        BY ONLY <4>2
      <4> QED  BY <4>3 DEF len
    <3> HIDE DEF last
    <3>2. r.cached /\ r.index = last
      <4> DEFINE len == r.length
                 x == r.index
      <4>1. len = last + 1 /\ last \in Nat /\ x \in Nat
        BY <1>2, <3>1
      <4>2. (r.cached => len = x + 1) /\ (~r.cached => len = 0)
        BY <1>1, <1>3
      <4> HIDE DEF len, x
      <4>3. r.cached /\ x = last
        BY ONLY <4>1, <4>2
      <4> QED  BY <4>3 DEF x
    <3> QED  BY <1>2, <1>6, <2>3, <3>2
  <2>7. ReaderAt(s)
    <3>1. indices = Indices(r, n)
      BY DEF indices
    <3>2. c = 0 => s.cached = r.cached /\ s.index = r.index /\ s.length = r.length
      BY <2>3
    <3>3. /\ s.element + Pending(s) = Start(lengths, s.length)
          /\ CacheHolds(s)
      BY <1>3, <2>3, <2>5 DEF CacheHolds
    <3>4. Len(indices) > 0 => /\ s.cached /\ s.index = indices[Len(indices)]
                              /\ s.length = r.length + Fresh(r, indices)
      BY <2>6 DEF fresh
    <3> QED  BY <2>3, <2>4, <3>1, <3>2, <3>3, <3>4, StandsAfter
  <2> QED  BY <2>3, <2>7 DEF s
<1>7. CASE fresh # 0
  <2>1. s = [row |-> r.row + n, length |-> r.length + fresh, element |-> element,
             cached |-> TRUE, index |-> last, value |-> r.value, size |-> size,
             lazy |-> TRUE, lazyRows |-> size, dropped |-> FALSE]
    BY <1>7 DEF SkipRound
  <2>2. c > 0 /\ fresh \in Nat /\ fresh > 0 /\ last \in Nat
        /\ last \in 0..(Len(lengths) - 1) /\ r.length + fresh = last + 1
    <3>1. c > 0
      BY <1>4, <1>7
    <3>2. last \in 0..(Len(lengths) - 1) /\ fresh = last + 1 - r.length /\ fresh \in Nat
      BY <1>4, <3>1
    <3> DEFINE len == r.length
               total == Len(lengths)
    <3>3. total \in Nat /\ len \in Nat /\ fresh # 0
      BY <1>1, <1>2, <1>7
    <3>4. last \in 0..(total - 1) /\ fresh = last + 1 - len /\ fresh \in Nat
      BY <3>2
    <3> HIDE DEF last, fresh, c, len, total
    <3>5. fresh > 0 /\ last \in Nat /\ len + fresh = last + 1
      BY ONLY <3>3, <3>4
    <3> QED  BY <3>1, <3>2, <3>5 DEF len
  <2> HIDE DEF s, indices, fresh, last
  <2>3. lazy = Pending(r) /\ lazy \in Nat
    BY <1>2 DEF Pending
  <2> HIDE DEF lazy
  <2>4. /\ size \in Nat
        /\ Start(lengths, r.length + fresh) = Start(lengths, last) + size
        /\ Start(lengths, last) \in Nat
    <3>1. last + 1 \in 1..Len(lengths) /\ last \in 0..Len(lengths)
      BY <1>1, <2>2
    <3>2. lengths[last + 1] \in Nat
      BY <1>1, <3>1
    <3>3. Start(lengths, last + 1) = Start(lengths, last) + lengths[last + 1]
          /\ Start(lengths, last) \in Nat
      BY <1>1, <2>2, <3>1, StartFacts
    <3> QED  BY <2>2, <3>2, <3>3
  <2>5. element = Start(lengths, last)
    <3> DEFINE d == fresh - 1
               len == r.length
               total == Len(lengths)
    <3>1. d \in 0..(Len(lengths) - r.length) /\ r.length + d = last
      <4>1. len \in Nat /\ total \in Nat /\ fresh \in Nat /\ fresh > 0
            /\ last \in 0..(total - 1) /\ len + fresh = last + 1
        BY <1>1, <1>2, <2>2
      <4> HIDE DEF len, total
      <4>2. d \in 0..(total - len) /\ len + d = last
        BY ONLY <4>1
      <4> QED  BY <4>2 DEF len, total
    <3> HIDE DEF d
    <3>2. /\ LengthsSum(r.length, d) = Start(lengths, r.length + d) - Start(lengths, r.length)
          /\ Start(lengths, r.length) \in Nat /\ Start(lengths, r.length + d) \in Nat
      BY <1>1, <3>1, LengthsSumFacts
    <3>3. r.element + lazy = Start(lengths, r.length)
      BY <1>3, <2>3
    <3>4. Start(lengths, r.length) + LengthsSum(r.length, d) = Start(lengths, last)
      BY <3>1, <3>2
    <3>5. r.element + lazy + LengthsSum(r.length, d) = Start(lengths, last)
      BY <3>3, <3>4
    <3> QED  BY <3>5 DEF d
  <2> HIDE DEF element, size
  <2>6. s \in ReaderType
    <3>1. r.length + fresh \in Nat
      BY <1>2, <2>2
    <3>2. element \in Nat
      BY <2>4, <2>5
    <3> QED  BY <1>2, <1>5, <2>1, <2>2, <2>4, <3>1, <3>2 DEF ReaderType
  <2>7. /\ s.row = r.row + n /\ s.length = r.length + fresh /\ s.element = element
        /\ s.cached = TRUE /\ s.index = last /\ s.lazy = TRUE /\ s.lazyRows = size
        /\ s.size = size /\ s.dropped = FALSE
    BY <2>1
  <2>8. ReaderAt(s)
    <3>1. indices = Indices(r, n)
      BY DEF indices
    <3>2. Pending(s) = size
      BY <2>7 DEF Pending
    <3>3. s.element + Pending(s) = Start(lengths, s.length)
      BY <2>4, <2>5, <2>7, <3>2
    <3>4. CacheHolds(s)
      <4>1. s.index + 1 = r.length + fresh
        BY <2>2, <2>7
      <4> QED  BY <2>7, <4>1 DEF CacheHolds, size
    <3>5. s.cached /\ s.index = indices[Len(indices)]
          /\ s.length = r.length + Fresh(r, indices)
      BY <2>7 DEF last, fresh
    <3>6. ~(Len(indices) = 0)
      BY <2>2
    <3> QED  BY <2>6, <2>7, <3>1, <3>3, <3>4, <3>5, <3>6, StandsAfter
  <2> QED  BY <2>7, <2>8 DEF s
<1>. QED  BY <1>6, <1>7

(* skip leaves the reader where its rounds do.                             *)
LEMMA SkipStands ==
    ASSUME ReaderInv, NEW n \in Nat, Skip(n)
    PROVE  ReaderInv' /\ out' = <<>>
<1> DEFINE start == [r |-> reader, left |-> n]
           Round(s) ==
             LET m == IF s.left < SkipBatch THEN s.left ELSE SkipBatch
             IN  IF s.left = 0 THEN s
                 ELSE [r |-> SkipRound(s.r, m), left |-> s.left - m]
           D == {s \in [r : ReaderType, left : Nat] :
                   ReaderAt(s.r) /\ s.r.row + s.left <= Len(rows)}
           step == [k \in 1..n |-> [s \in D |-> Round(s)]]
           IsFcn(h) == h = [k \in 0..n |-> IF k = 0 THEN start ELSE Round(h[k - 1])]
           loop == CHOOSE h : IsFcn(h)
<1>1. /\ WriterInv /\ ReaderAt(reader) /\ reading
      /\ reader.row + n <= Len(rows)
      /\ out' = <<>>
      /\ UNCHANGED <<rows, offsets, lengths, elements, writer, reading>>
  BY DEF Skip, streams, ReaderInv
<1>2. reader' = loop[n].r
  BY DEF Skip
<1>3. start \in D
  BY <1>1 DEF ReaderAt
<1>4. ASSUME NEW s \in D PROVE Round(s) \in D
  <2> DEFINE m == IF s.left < SkipBatch THEN s.left ELSE SkipBatch
  <2>1. /\ s.left \in Nat /\ s.r \in ReaderType /\ ReaderAt(s.r)
        /\ s.r.row + s.left <= Len(rows) /\ s.r.row \in Nat
    BY DEF ReaderType
  <2>2. CASE s.left = 0
    <3>1. Round(s) = s
      BY <2>2
    <3> QED  BY <3>1
  <2>3. CASE s.left # 0
    <3>1. m \in Nat /\ m <= s.left
      BY <2>1, ArraysAssumption
    <3>2. Round(s) = [r |-> SkipRound(s.r, m), left |-> s.left - m]
      BY <2>3
    <3> HIDE DEF m, Round
    <3>3. s.r.row + m <= Len(rows)
      <4>1. Len(rows) \in Nat
        BY <1>1, StreamFacts
      <4> QED  BY <2>1, <3>1, <4>1
    <3> DEFINE r2 == SkipRound(s.r, m)
    <3>4. ReaderAt(r2) /\ r2.row = s.r.row + m
      BY <1>1, <2>1, <3>1, <3>3, SkipRoundStands
    <3> HIDE DEF r2
    <3>5. r2 \in ReaderType
      BY <3>4 DEF ReaderAt
    <3>6. s.left - m \in Nat /\ r2.row + (s.left - m) <= Len(rows)
      BY <2>1, <3>1, <3>4
    <3>7. Round(s) = [r |-> r2, left |-> s.left - m]
      BY <3>2 DEF r2
    <3>8. Round(s).r = r2 /\ Round(s).left = s.left - m
          /\ Round(s) \in [r : ReaderType, left : Nat]
      BY <3>5, <3>6, <3>7
    <3> QED  BY <3>4, <3>6, <3>8
  <2> QED  BY <2>2, <2>3
<1>5. \A s \in D : s.r \in ReaderType /\ ReaderAt(s.r)
  OBVIOUS
<1> HIDE DEF D, Round, start
<1>6. step \in [1..n -> [D -> D]]
  BY <1>4
<1>7. \A k \in 1..n : \A s \in D : step[k][s] = Round(s)
  OBVIOUS
<1> HIDE DEF step
<1>8. PICK f \in [0..n -> D] : IsIteration(f, start, step, n)
  BY <1>3, <1>6, IterationExists
<1>9. IsFcn(f)
  <2>1. f[0] = start /\ \A k \in 1..n : f[k] = step[k][f[k - 1]]
    BY <1>8 DEF IsIteration
  <2>2. \A k \in 1..n : f[k] = Round(f[k - 1])
    <3> TAKE k \in 1..n
    <3>1. k - 1 \in 0..n
      OBVIOUS
    <3>2. f[k - 1] \in D
      BY <3>1
    <3> QED  BY <1>7, <2>1, <3>2
  <2>3. \A k \in 0..n : f[k] = IF k = 0 THEN start ELSE Round(f[k - 1])
    <3> TAKE k \in 0..n
    <3>1. CASE k = 0
      BY <2>1, <3>1
    <3>2. CASE k # 0
      <4>1. k \in 1..n
        BY <3>2
      <4> QED  BY <2>2, <3>2, <4>1
    <3> QED  BY <3>1, <3>2
  <2> QED  BY <2>3
<1>10. IsFcn(loop)
  BY <1>9
<1> HIDE DEF loop
<1>11. loop[0] = start /\ \A k \in 1..n : loop[k] = Round(loop[k - 1])
  <2>1. \A k \in 0..n : loop[k] = IF k = 0 THEN start ELSE Round(loop[k - 1])
    BY <1>10
  <2>2. 0 \in 0..n /\ \A k \in 1..n : k \in 0..n /\ k # 0
    OBVIOUS
  <2> QED  BY <2>1, <2>2
<1> HIDE DEF IsFcn
<1>12. loop[n] \in D
  <2> DEFINE T == {k \in 0..n : loop[k] \in D}
  <2>1. 0 \in T
    BY <1>3, <1>11
  <2>2. \A k \in 1..n : k - 1 \in T => k \in T
    <3> SUFFICES ASSUME NEW k \in 1..n, k - 1 \in T PROVE k \in T
      OBVIOUS
    <3>1. loop[k] \in D
      BY <1>4, <1>11
    <3>2. k \in 0..n
      OBVIOUS
    <3> QED  BY <3>1, <3>2
  <2> HIDE DEF T
  <2>3. 0..n \subseteq T
    BY <2>1, <2>2, Climb
  <2>4. n \in T
    BY <2>3
  <2> QED  BY <2>4 DEF T
<1>13. ReaderAt(reader')
  BY <1>2, <1>5, <1>12
<1>. QED  BY <1>1, <1>13, ReaderStays

-----------------------------------------------------------------------------
(* The reader's invariant                                                  *)

(* Before the first row nothing is used.                                   *)
LEMMA AtStart ==
    ASSUME NEW os \in Seq(OffsetType), NEW lens \in Seq(Nat)
    PROVE  Len(NonNulls(SubSeq(os, 1, 0))) = 0 /\ Start(lens, 0) = 0
<1>1. SubSeq(os, 1, 0) = <<>> /\ Len(<<>>) = 0
  OBVIOUS
<1>2. NonNulls(<<>>) = <<>>
  BY WithoutEmpty DEF NonNulls
<1>. QED  BY <1>1, <1>2, StartFacts

LEMMA NewReaderType ==
    /\ NewReader \in ReaderType
    /\ NewReader.row = 0 /\ NewReader.length = 0 /\ NewReader.element = 0
    /\ NewReader.cached = FALSE
<1>1. <<>> \in ValueType
  BY DEF ValueType
<1>. QED  BY <1>1 DEF NewReader, ReaderType

(* A new reader stands before the first row.                               *)
LEMMA NewReaderStands ==
    ASSUME WriterInv
    PROVE  ReaderAt(NewReader)
<1>1. UsedBefore(0) = 0 /\ Start(lengths, 0) = 0 /\ Len(rows) \in Nat
  BY AtStart, StreamFacts DEF UsedBefore
<1>2. Pending(NewReader) = 0
  BY NewReaderType DEF Pending
<1>. QED  BY <1>1, <1>2, NewReaderType DEF ReaderAt, CacheHolds

(* So does one that keeps no array and has consumed nothing.               *)
LEMMA RestartStands ==
    ASSUME WriterInv', reader' \in ReaderType,
           reader'.row = 0, reader'.length = 0, reader'.element = 0,
           reader'.cached = FALSE, ~reading' => reader' = NewReader
    PROVE  ReaderInv'
<1>1. offsets' \in Seq(OffsetType) /\ lengths' \in Seq(Nat) /\ Len(rows') \in Nat
  BY DEF WriterInv
<1>2. Len(NonNulls(SubSeq(offsets', 1, 0))) = 0 /\ Start(lengths', 0) = 0
  BY <1>1, AtStart
<1>3. Pending(reader') = 0
  BY DEF Pending
<1>4. ReaderAt(reader)'
  BY <1>1, <1>2, <1>3 DEF ReaderAt, UsedBefore, NonNulls, Pending, Start, CacheHolds
<1>. QED  BY <1>4 DEF ReaderInv

(* reset drops the array the reader keeps.                                 *)
LEMMA ResetReaderStands ==
    ASSUME ReaderInv, ResetReader
    PROVE  ReaderInv'
<1>1. /\ reader \in ReaderType /\ reading /\ reading' = reading
      /\ reader' = [reader EXCEPT !.row = 0, !.length = 0, !.element = 0, !.cached = FALSE]
  BY DEF ReaderInv, ReaderAt, ResetReader
<1>2. /\ reader' \in ReaderType /\ reader'.row = 0 /\ reader'.length = 0
      /\ reader'.element = 0 /\ reader'.cached = FALSE
  BY <1>1 DEF ReaderType
<1>3. WriterInv'
  BY WriterStays DEF ReaderInv, ResetReader, streams
<1>. QED  BY <1>1, <1>2, <1>3, RestartStands

(* Nobody reads before the stripe is finished.                             *)
LEMMA NotYetReading ==
    ASSUME ReaderInv, WriterInv', ~reading,
           reader' = reader \/ reader' = NewReader
    PROVE  ReaderInv'
<1>1. reader' = NewReader
  BY DEF ReaderInv
<1>. QED  BY <1>1, NewReaderType, RestartStands

LEMMA ReaderInvStep ==
    ASSUME ReaderInv, [Step]_vars
    PROVE  ReaderInv'
<1>1. WriterInv'
  BY WriterInvStep DEF ReaderInv
<1>2. ASSUME NEW n \in 1..MaxBatch, NEW batch \in [1..n -> Arrays \cup {Null}],
             WriteArrays(batch)
      PROVE  ReaderInv'
  BY <1>1, <1>2, NotYetReading DEF WriteArrays, CanWrite
<1>3. ASSUME NEW n \in 1..MaxBatch, NEW dictionary \in [1..2 -> Arrays],
             NEW index \in [1..n -> 1..2], NEW nulls \in [1..n -> BOOLEAN],
             WriteDictionary(dictionary, index, nulls)
      PROVE  ReaderInv'
  <2>1. ~reading /\ reader' = reader
    BY <1>3 DEF WriteDictionary, CanWrite
  <2> QED  BY <1>1, <2>1, NotYetReading
<1>4. CASE FlushChunk
  BY <1>1, <1>4, NotYetReading DEF FlushChunk
<1>5. CASE Reset
  BY <1>1, <1>5, NotYetReading DEF Reset
<1>6. CASE FinishStripe
  BY <1>1, <1>6, NotYetReading DEF FinishStripe
<1>7. ASSUME NEW bitmap \in Requests, Next(bitmap) PROVE ReaderInv'
  BY <1>7, NextStands
<1>8. ASSUME NEW n \in 0..MaxRows, Skip(n) PROVE ReaderInv'
  <2>1. n \in Nat
    BY ArraysAssumption
  <2> QED  BY <1>8, <2>1, SkipStands
<1>9. CASE ResetReader
  BY <1>9, ResetReaderStands
<1>10. CASE UNCHANGED vars
  <2>1. UNCHANGED <<rows, offsets, lengths, elements, writer, reading, reader>>
    BY <1>10 DEF vars, streams
  <2>2. ReaderAt(reader)'
    BY <2>1 DEF ReaderInv, ReaderAt, UsedBefore, NonNulls, Pending, CacheHolds,
                   ArrayAt, Start
  <2> QED  BY <1>1, <2>1, <2>2 DEF ReaderInv
<1>. QED  BY <1>2, <1>3, <1>4, <1>5, <1>6, <1>7, <1>8, <1>9, <1>10 DEF Step

LEMMA ReaderInvariant == Spec => []ReaderInv
<1>1. Init => ReaderInv
  <2> SUFFICES ASSUME Init PROVE ReaderInv
    OBVIOUS
  <2>1. WriterInv /\ reader = NewReader
    BY InitWriterInv DEF Init
  <2> QED  BY <2>1, NewReaderStands DEF ReaderInv
<1>2. ReaderInv /\ [Step]_vars => ReaderInv'
  BY ReaderInvStep
<1>. QED  BY <1>1, <1>2, PTL DEF Spec

(* For any streams, calls and rounds of a skip: the lengths and elements   *)
(* the reader has consumed are those of the arrays of its rows, the ones a *)
(* skip has left in the stream included.                                   *)
THEOREM PositionsAgree == Spec => []ReaderAligned
<1>1. ReaderInv => ReaderAligned
  <2> SUFFICES ASSUME ReaderInv PROVE ReaderAligned
    OBVIOUS
  <2> DEFINE used == NonNulls(SubSeq(offsets, 1, reader.row))
             n == reader.row
             c == Len(used)
             last == used[c]
             first == used[1]
  <2>1. WriterInv /\ ReaderAt(reader) /\ ReaderAt(NewReader)
    BY NewReaderStands DEF ReaderInv
  <2>2. /\ n \in Nat /\ n <= Len(rows) /\ reader.length \in Nat
        /\ reader.cached \in BOOLEAN /\ (reader.cached <=> c > 0)
        /\ reader.cached => reader.index = NonNulls(offsets)[c]
                            /\ reader.length = reader.index + 1
        /\ ~reader.cached => reader.length = 0
        /\ reader.element + Pending(reader) = Start(lengths, reader.length)
    BY <2>1 DEF ReaderAt, ReaderType, UsedBefore
  <2>3. /\ NewReader.row + n = n /\ NewReader.length = 0 /\ NewReader.row + 1 = 1
    BY <2>2, NewReaderType
  <2>4. Indices(NewReader, n) = used
    BY <2>3 DEF Indices
  <2> HIDE DEF used, n
  <2>5. /\ c \in Nat
        /\ c = 0 => DedupCount(used) = 0
        /\ c > 0 => /\ last \in 0..(Len(lengths) - 1)
                    /\ NonNulls(offsets)[UsedBefore(NewReader.row + n)] = last
                    /\ DedupCount(used) = last - first + 1
                    /\ first = NewReader.length
                                 - IF CachedLocally(NewReader, used) THEN 1 ELSE 0
    <3> DEFINE r == NewReader
    <3> HIDE DEF r
    <3>1. WriterInv /\ ReaderAt(r) /\ n \in Nat /\ r.row + n <= Len(rows)
      BY <2>1, <2>2, <2>3 DEF r
    <3>2. used = Indices(r, n)
      BY <2>4 DEF r
    <3>3. LET q == Indices(r, n)
          IN  /\ Len(q) \in Nat
              /\ Len(q) = 0 => DedupCount(q) = 0
              /\ Len(q) > 0 =>
                   /\ q[Len(q)] \in 0..(Len(lengths) - 1)
                   /\ NonNulls(offsets)[UsedBefore(r.row + n)] = q[Len(q)]
                   /\ DedupCount(q) = q[Len(q)] - q[1] + 1
                   /\ q[1] = r.length - IF CachedLocally(r, q) THEN 1 ELSE 0
      BY ONLY <3>1, BatchFacts
    <3> QED  BY ONLY <3>2, <3>3 DEF r, c, last, first
  <2>6. ~CachedLocally(NewReader, used)
    BY NewReaderType DEF CachedLocally
  <2>7. reader.length = DedupCount(used)
    <3>1. CASE c = 0
      BY <2>2, <2>5, <3>1
    <3>2. CASE c > 0
      <4>1. first = 0
        <5>1. (IF CachedLocally(NewReader, used) THEN 1 ELSE 0) = 0
          BY <2>6
        <5>2. first = 0 - 0
          BY <2>3, <2>5, <3>2, <5>1
        <5> QED  BY <5>2
      <4>2. UsedBefore(NewReader.row + n) = c
        BY <2>3 DEF UsedBefore, used, n
      <4>3. reader.index = last /\ reader.length = last + 1 /\ last \in Nat
        BY <2>1, <2>2, <2>5, <3>2, <4>2, StreamFacts
      <4>4. DedupCount(used) = last - 0 + 1
        BY <2>5, <3>2, <4>1
      <4> HIDE DEF last
      <4> QED  BY <4>3, <4>4
    <3> QED  BY <2>5, <3>1, <3>2
  <2>8. LengthsSum(0, reader.length) = Start(lengths, reader.length)
    <3>1. reader.length \in 0..Len(lengths) /\ Len(lengths) \in Nat /\ lengths \in Seq(Nat)
      BY <2>1, ReaderFacts, StreamFacts
    <3> DEFINE l == reader.length
    <3> HIDE DEF l
    <3>2. 0 \in 0..Len(lengths) /\ l \in 0..(Len(lengths) - 0) /\ 0 + l = l
      BY <3>1 DEF l
    <3>3. LengthsSum(0, l) = Start(lengths, 0 + l) - Start(lengths, 0)
          /\ Start(lengths, 0 + l) \in Nat /\ Start(lengths, 0) = 0
      BY <3>1, <3>2, LengthsSumFacts, StartFacts
    <3>4. LengthsSum(0, l) = Start(lengths, l)
      BY <3>2, <3>3
    <3> QED  BY <3>4 DEF l
  <2>9. reader.length = DedupCount(NonNulls(SubSeq(offsets, 1, reader.row)))
    BY <2>7 DEF used
  <2> QED  BY <2>2, <2>8, <2>9 DEF ReaderAligned, Pending
<1>. QED  BY <1>1, ReaderInvariant, PTL

-----------------------------------------------------------------------------
(* What next returns                                                       *)

(* The index of a row is one of the batch.                                 *)
LEMMA TakenIndex ==
    ASSUME WriterInv, NEW r, ReaderAt(r), NEW n \in Nat, r.row + n <= Len(rows),
           NEW s \in 1..n, offsets[r.row + s] # Null
    PROVE  \E k \in 1..Len(Indices(r, n)) : Indices(r, n)[k] = offsets[r.row + s]
<1> DEFINE a == r.row
           b == r.row + n
           slice == SubSeq(offsets, a + 1, b)
<1>1. r.row \in Nat /\ offsets \in Seq(OffsetType) /\ Len(offsets) = Len(rows)
      /\ Len(rows) \in Nat
  BY StreamFacts DEF ReaderAt, ReaderType
<1>2. a \in 0..Len(offsets) /\ b \in a..Len(offsets) /\ b - a = n
  BY <1>1
<1>3. Indices(r, n) = Without(slice, Null)
  BY DEF Indices, NonNulls
<1>4. /\ slice \in Seq(OffsetType) /\ Len(slice) = n /\ slice[s] = offsets[r.row + s]
  <2> HIDE DEF b
  <2>1. /\ SubSeq(offsets, a + 1, b) \in Seq(OffsetType)
        /\ Len(SubSeq(offsets, a + 1, b)) = b - a
        /\ \A i \in 1..(b - a) : SubSeq(offsets, a + 1, b)[i] = offsets[a + i]
    BY <1>1, <1>2, SliceFacts
  <2> QED  BY <1>2, <2>1
<1> HIDE DEF slice
<1>5. \A i \in 1..Len(slice) : slice[i] # Null =>
        /\ Rank(Present(slice, Null), i) \in 1..Len(Without(slice, Null))
        /\ Without(slice, Null)[Rank(Present(slice, Null), i)] = slice[i]
  BY <1>4, WithoutRank
<1>. QED  BY <1>3, <1>4, <1>5

(* A cursor counts as the reader does.                                     *)
LEMMA CursorCounts ==
    ASSUME NEW S
    PROVE  Cursor!Cardinality(S) = Cardinality(S)
BY DEF Cursor!Cardinality, Cardinality

(* A slot next fills shows its row, or its length if the elements are lost.*)
LEMMA SlotShows ==
    ASSUME WriterInv, ReaderAt(reader), NEW n \in Nat, reader.row + n <= Len(rows),
           NEW s \in 1..n,
           NEW index, index = offsets[reader.row + s], NEW row, row = rows[reader.row + s]
    PROVE  LET indices == Indices(reader, n)
               got == Dictionary(indices)[Normalized(indices, index)]
           IN  /\ index = Null <=> row = Null
               /\ index # Null => /\ Len(got) = Len(row)
                                  /\ LostAt(index) \/ got = row
<1> DEFINE indices == Indices(reader, n)
           got == Dictionary(indices)[Normalized(indices, index)]
<1>1. /\ reader.row \in Nat /\ rows \in Seq(RowType) /\ lengths \in Seq(Nat)
      /\ elements \in Seq(Element) /\ Len(rows) \in Nat /\ Len(lengths) \in Nat
      /\ Start(lengths, Len(lengths)) = Len(elements)
      /\ RowsHeld(rows, offsets, lengths, elements)
  BY StreamFacts DEF ReaderAt, ReaderType, WriterInv, StreamsOK
<1>2. reader.row + s \in 1..Len(rows)
  BY <1>1
<1>3. \/ row = Null /\ index = Null
      \/ /\ row # Null /\ index \in 0..(Len(lengths) - 1)
         /\ row = ArrayAt(lengths, elements, index)
  BY <1>1, <1>2 DEF RowsHeld
<1>4. CASE index = Null
  <2>1. row = Null
    BY <1>1, <1>3, <1>4, ArraysAssumption
  <2> QED  BY <1>4, <2>1
<1>5. CASE index # Null
  <2>1. /\ row # Null /\ index \in 0..(Len(lengths) - 1)
        /\ row = ArrayAt(lengths, elements, index)
    BY <1>3, <1>5
  <2>2. PICK k \in 1..Len(indices) : indices[k] = index
    BY <1>5, TakenIndex
  <2>3. /\ Len(indices) \in Nat
        /\ Len(indices) > 0 => \A j \in 1..Len(indices) :
                                 indices[j] \in indices[1]..indices[Len(indices)]
    BY BatchFacts
  <2>4. indices = Indices(reader, n)
    OBVIOUS
  <2> HIDE DEF indices
  <2>5. Len(indices) > 0 /\ index \in indices[1]..indices[Len(indices)]
    BY <2>2, <2>3
  <2>6. Shows(got, index, LostAt(index))
    BY <2>4, <2>5, DictionaryShows
  <2>7. Len(row) = lengths[index + 1]
    BY <1>1, <2>1, ArrayInside
  <2> HIDE DEF got
  <2>8. Len(got) = Len(row) /\ (LostAt(index) \/ got = row)
    BY <2>1, <2>6, <2>7 DEF Shows
  <2> QED  BY <1>5, <2>1, <2>8 DEF got, indices
<1>. QED  BY <1>4, <1>5

(* What a call of next returns.                                            *)
LEMMA NextShows ==
    ASSUME ReaderInv, NEW bitmap \in Requests, Next(bitmap)
    PROVE  /\ Placed(bitmap, Lost(bitmap))
           /\ \A i \in Lost(bitmap) : Len(out'[i]) = Len(Cursor!Delivered(bitmap)[i])
<1> DEFINE count == Cardinality(Selected(bitmap))
           indices == Indices(reader, count)
           index(i) == offsets[reader.row + Slot(bitmap, i)]
           value(i) == Dictionary(indices)[Normalized(indices, index(i))]
           want(i) == IF bitmap[i] THEN rows[reader.row + Slot(bitmap, i)] ELSE Null
           row == Cursor!Delivered(bitmap)
<1>1. PICK n \in Nat : bitmap \in [1..n -> BOOLEAN]
  BY RequestType
<1>2. /\ count \in Nat
      /\ \A i \in 1..n : bitmap[i] => Slot(bitmap, i) \in 1..count
  BY <1>1, SlotFacts
<1>3. /\ WriterInv /\ ReaderAt(reader) /\ reader.row + count <= Len(rows)
      /\ out' = [i \in DOMAIN bitmap |->
                   IF ~bitmap[i] \/ index(i) = Null THEN Null ELSE value(i)]
      /\ reader'.row = reader.row + count
  BY DEF Next, ReaderInv
<1>4. row = [i \in DOMAIN bitmap |-> want(i)]
  BY CursorCounts DEF Cursor!Delivered, Cursor!Selected, Slot, Selected
<1>5. DOMAIN bitmap = 1..n /\ DOMAIN out' = 1..n
  BY <1>1, <1>3
<1>6. \A i \in 1..n : i \in Lost(bitmap) <=> bitmap[i] /\ LostAt(index(i))
  BY <1>5 DEF Lost, LostAt, Selected
<1>7. Lost(bitmap) \subseteq 1..n
  BY <1>5 DEF Lost, Selected
<1> HIDE DEF count, row
<1>8. ASSUME NEW i \in 1..n
      PROVE  /\ i \notin Lost(bitmap) => out'[i] = row[i]
             /\ i \in Lost(bitmap) => Len(out'[i]) = Len(row[i])
  <2>1. row[i] = want(i)
    BY <1>4, <1>5
  <2>2. out'[i] = IF ~bitmap[i] \/ index(i) = Null THEN Null ELSE value(i)
    BY <1>3, <1>5
  <2>3. CASE ~bitmap[i]
    <3>1. want(i) = Null
      BY <2>3
    <3>2. out'[i] = Null
      BY <2>2, <2>3
    <3> QED  BY <2>1, <3>1, <3>2
  <2>4. CASE bitmap[i]
    <3> DEFINE s == Slot(bitmap, i)
               x == offsets[reader.row + s]
               r == rows[reader.row + s]
    <3>1. s \in 1..count
      BY <1>2, <2>4
    <3>2. /\ index(i) = x /\ want(i) = r
          /\ value(i) = Dictionary(Indices(reader, count))[
                          Normalized(Indices(reader, count), x)]
      BY <2>4
    <3> HIDE DEF s, value, index, want
    <3> DEFINE v == Dictionary(Indices(reader, count))[
                      Normalized(Indices(reader, count), x)]
    <3>3. /\ x = Null <=> r = Null
          /\ x # Null => Len(v) = Len(r) /\ (LostAt(x) \/ v = r)
      BY <1>2, <1>3, <3>1, SlotShows
    <3>4. i \in Lost(bitmap) <=> LostAt(x)
      BY <1>6, <2>4, <3>2
    <3> HIDE DEF v, x, r
    <3>5. CASE x = Null
      <4>1. out'[i] = Null /\ row[i] = Null
        BY <2>1, <2>2, <3>2, <3>3, <3>5
      <4> QED  BY <4>1
    <3>6. CASE x # Null
      <4>1. out'[i] = v
        BY <2>2, <2>4, <3>2, <3>6 DEF v
      <4>2. row[i] = r
        BY <2>1, <3>2
      <4> QED  BY <3>3, <3>4, <3>6, <4>1, <4>2
    <3> QED  BY <3>5, <3>6
  <2> QED  BY <1>1, <2>3, <2>4
<1>9. Placed(bitmap, Lost(bitmap))
  BY <1>3, <1>5, <1>8 DEF Placed, count, row
<1>10. \A i \in Lost(bitmap) : Len(out'[i]) = Len(row[i])
  BY <1>7, <1>8
<1>. QED  BY <1>9, <1>10 DEF row

(* For any arrays, batches, skips and calls: every slot of a call of next  *)
(* holds its row, but for one whose array is kept without its elements;    *)
(* that one has the length of its row.                                     *)
THEOREM ArraysDelivered == Spec => DeliversArrays
<1> DEFINE Shown ==
             \E bitmap \in Requests :
               /\ Placed(bitmap, Lost(bitmap))
               /\ \A i \in Lost(bitmap) :
                    Len(out'[i]) = Len(Cursor!Delivered(bitmap)[i])
           Told == reading /\ out' # <<>> => Shown
<1>1. ReaderInv /\ [Step]_vars => [Told]_vars
  <2> SUFFICES ASSUME ReaderInv, Step, reading, out' # <<>> PROVE Shown
    OBVIOUS
  <2>1. \A batch : ~WriteArrays(batch)
    BY DEF WriteArrays, CanWrite
  <2>2. \A dictionary, index, nulls : ~WriteDictionary(dictionary, index, nulls)
    BY DEF WriteDictionary, CanWrite
  <2>3. ~FlushChunk /\ ~Reset /\ ~FinishStripe
    BY DEF FlushChunk, Reset, FinishStripe
  <2>4. ~ResetReader /\ \A n : ~Skip(n)
    BY DEF ResetReader, Skip
  <2>5. PICK bitmap \in Requests : Next(bitmap)
    <3>1. Step
      OBVIOUS
    <3> QED  BY <2>1, <2>2, <2>3, <2>4, <3>1 DEF Step
  <2>6. /\ Placed(bitmap, Lost(bitmap))
        /\ \A i \in Lost(bitmap) : Len(out'[i]) = Len(Cursor!Delivered(bitmap)[i])
    BY <2>5, NextShows
  <2> QED  BY <2>6
<1>2. Spec => [][Told]_vars
  <2> HIDE DEF Told
  <2> QED  BY <1>1, ReaderInvariant, PTL DEF Spec
<1>. QED  BY <1>2 DEF DeliversArrays
=============================================================================
