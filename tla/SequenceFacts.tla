--------------------------- MODULE SequenceFacts ---------------------------
(***************************************************************************)
(* Facts about sums over the first elements of a sequence, about sequences *)
(* put together from others and about the rows of a sequence that are not  *)
(* null, which the models write as recursive functions on 0..n.  A minimal *)
(* counterexample takes the place of induction.  The last part is about    *)
(* StreamData: the rows a stream buffers and those its chunks read back as *)
(* are the rows it took, however it is cut.                                *)
(***************************************************************************)
EXTENDS StreamData, TLAPS, WellFoundedInduction, FiniteSetTheorems,
        SequenceTheorems

(* A non-empty set of naturals has a least element.                        *)
LEMMA LeastNat ==
    ASSUME NEW S \in SUBSET Nat, S # {}
    PROVE  \E x \in S : \A y \in S : x <= y
<1> DEFINE R == {ss \in Nat \X Nat : ss[1] < ss[2]}
<1>1. IsWellFoundedOn(R, Nat)
  BY NatLessThanWellFounded DEF OpToRel
<1> HIDE DEF R
<1>2. PICK x \in S : \A y \in S : ~(<<y, x>> \in R)
  BY <1>1, WFMin
<1> USE DEF R
<1>3. ASSUME NEW y \in S PROVE x <= y
  <2>1. <<y, x>> \in Nat \X Nat /\ ~(<<y, x>> \in R)
    BY <1>2
  <2>2. ~(y < x)
    BY <2>1
  <2> QED  BY <2>2
<1>. QED  BY <1>3

(* And a greatest one, if it is bounded.                                   *)
LEMMA GreatestNat ==
    ASSUME NEW n \in Nat, NEW S \in SUBSET (0..n), S # {}
    PROVE  \E x \in S : \A y \in S : y <= x
<1> DEFINE T == {n - i : i \in S}
<1>1. T \in SUBSET Nat /\ T # {}
  <2>1. \A i \in S : n - i \in Nat
    OBVIOUS
  <2> QED  BY <2>1
<1>2. PICK x \in T : \A y \in T : x <= y
  <2> HIDE DEF T
  <2> QED  BY <1>1, LeastNat
<1>3. PICK i \in S : x = n - i
  BY <1>2
<1>4. ASSUME NEW y \in S PROVE y <= i
  <2>1. n - i <= n - y
    BY <1>2, <1>3
  <2> QED  BY <2>1
<1>. QED  BY <1>4

(* A set of naturals with 0 that is closed under the successor up to n     *)
(* holds all of 0..n.                                                      *)
LEMMA Climb ==
    ASSUME NEW n \in Nat, NEW T, 0 \in T,
           \A i \in 1..n : i - 1 \in T => i \in T
    PROVE  0..n \subseteq T
<1> DEFINE Bad == (0..n) \ T
<1> SUFFICES ASSUME Bad # {} PROVE FALSE
  OBVIOUS
<1>1. PICK m \in Bad : \A k \in Bad : m <= k
  <2>1. Bad \in SUBSET Nat
    OBVIOUS
  <2> HIDE DEF Bad
  <2> QED  BY <2>1, LeastNat
<1>2. m \in 1..n /\ m - 1 \in 0..n /\ m - 1 \notin Bad
  BY <1>1
<1> QED  BY <1>1, <1>2

IsPrefixSum(f, w, n) ==
    /\ f \in [0..n -> Nat]
    /\ f[0] = 0
    /\ \A i \in 1..n : f[i] = f[i - 1] + w[i]

(* Every sequence of naturals has prefix sums.                             *)
LEMMA PrefixSumExists ==
    ASSUME NEW n \in Nat, NEW w \in [1..n -> Nat]
    PROVE  \E f : IsPrefixSum(f, w, n)
<1> DEFINE T == {m \in 0..n : \E f : IsPrefixSum(f, w, m)}
<1>1. 0 \in T
  <2>1. IsPrefixSum([i \in 0..0 |-> 0], w, 0)
    BY DEF IsPrefixSum
  <2> QED  BY <2>1
<1>2. ASSUME NEW m \in 1..n, m - 1 \in T PROVE m \in T
  <2>1. PICK f : IsPrefixSum(f, w, m - 1)
    BY <1>2
  <2> DEFINE g == [i \in 0..m |-> IF i = m THEN f[m - 1] + w[m] ELSE f[i]]
  <2>2. w[m] \in Nat /\ f[m - 1] \in Nat
    BY <2>1 DEF IsPrefixSum
  <2>3. g \in [0..m -> Nat] /\ g[0] = 0
    BY <2>1, <2>2 DEF IsPrefixSum
  <2>4. ASSUME NEW i \in 1..m PROVE g[i] = g[i - 1] + w[i]
    BY <2>1, <2>2 DEF IsPrefixSum
  <2>5. IsPrefixSum(g, w, m)
    BY <2>3, <2>4 DEF IsPrefixSum
  <2> QED  BY <2>5
<1>3. 0..n \subseteq T
  <2> HIDE DEF T
  <2> QED  BY <1>1, <1>2, Climb
<1>. QED  BY <1>3

(* The first sums never exceed the later ones.                             *)
LEMMA PrefixSumMonotonic ==
    ASSUME NEW n \in Nat, NEW w \in [1..n -> Nat], NEW f, IsPrefixSum(f, w, n),
           NEW i \in 0..n, NEW j \in i..n
    PROVE  f[i] <= f[j]
<1> DEFINE T == {m \in Nat : i + m <= n => f[i] <= f[i + m]}
<1>1. 0 \in T
  BY DEF IsPrefixSum
<1>2. ASSUME NEW m \in 1..(n - i), m - 1 \in T PROVE m \in T
  <2>1. i + m \in 1..n /\ i + (m - 1) = (i + m) - 1
    OBVIOUS
  <2>2. f[i + m] = f[(i + m) - 1] + w[i + m]
    BY <2>1 DEF IsPrefixSum
  <2>3. w[i + m] \in Nat /\ f[i + m] \in Nat /\ f[(i + m) - 1] \in Nat /\ f[i] \in Nat
    BY <2>1 DEF IsPrefixSum
  <2> QED  BY <1>2, <2>1, <2>2, <2>3
<1>3. 0..(n - i) \subseteq T
  <2>1. n - i \in Nat
    OBVIOUS
  <2> HIDE DEF T
  <2> QED  BY <1>1, <1>2, <2>1, Climb
<1>4. j - i \in T
  <2>1. j - i \in 0..(n - i)
    OBVIOUS
  <2> HIDE DEF T
  <2> QED  BY <1>3, <2>1
<1>. QED  BY <1>4

(* Between two prefix sums, the search for the last one not above x stops. *)
LEMMA PrefixSumSearch ==
    ASSUME NEW n \in Nat, NEW w \in [1..n -> Nat], NEW f, IsPrefixSum(f, w, n),
           NEW a \in 0..n, NEW b \in a..n, NEW x \in Nat, f[a] <= x
    PROVE  \E s \in a..b : f[s] <= x /\ (s = b \/ x < f[s + 1])
<1> DEFINE T == {m \in Nat : a + m <= b => f[a + m] <= x}
<1> SUFFICES ASSUME \A s \in a..b : f[s] <= x => s # b /\ ~(x < f[s + 1])
             PROVE  FALSE
  OBVIOUS
<1>1. 0 \in T
  OBVIOUS
<1>2. ASSUME NEW m \in 1..(b - a), m - 1 \in T PROVE m \in T
  <2>1. a + (m - 1) \in a..b /\ (a + (m - 1)) + 1 = a + m /\ a + m \in 0..n
    OBVIOUS
  <2>2. ~(x < f[a + m])
    BY <1>2, <2>1
  <2>3. f[a + m] \in Nat
    BY <2>1 DEF IsPrefixSum
  <2> QED  BY <2>2, <2>3
<1>3. 0..(b - a) \subseteq T
  <2>1. b - a \in Nat
    OBVIOUS
  <2> HIDE DEF T
  <2> QED  BY <1>1, <1>2, <2>1, Climb
<1>4. b - a \in T
  <2>1. b - a \in 0..(b - a)
    OBVIOUS
  <2> HIDE DEF T
  <2> QED  BY <1>3, <2>1
<1>. QED  BY <1>4

-----------------------------------------------------------------------------
(* Recursion and induction over sequences                                  *)

(* n steps on a set D, the i-th of them step[i].                           *)
IsIteration(f, a, step, n) ==
    /\ f[0] = a
    /\ \A i \in 1..n : f[i] = step[i][f[i - 1]]

(* The steps can be taken one after the other.                             *)
LEMMA IterationExists ==
    ASSUME NEW n \in Nat, NEW D, NEW a \in D, NEW step \in [1..n -> [D -> D]]
    PROVE  \E f \in [0..n -> D] : IsIteration(f, a, step, n)
<1> DEFINE T == {m \in 0..n : \E f \in [0..m -> D] : IsIteration(f, a, step, m)}
<1>1. 0 \in T
  <2>1. [i \in 0..0 |-> a] \in [0..0 -> D] /\ IsIteration([i \in 0..0 |-> a], a, step, 0)
    BY DEF IsIteration
  <2> QED  BY <2>1
<1>2. ASSUME NEW m \in 1..n, m - 1 \in T PROVE m \in T
  <2>1. PICK f \in [0..(m - 1) -> D] : IsIteration(f, a, step, m - 1)
    BY <1>2
  <2> DEFINE e == step[m][f[m - 1]]
             g == [i \in 0..m |-> IF i = m THEN e ELSE f[i]]
  <2>2. f[m - 1] \in D /\ step[m] \in [D -> D]
    OBVIOUS
  <2>3. e \in D
    BY <2>2
  <2>4. g[0] = a /\ g[m] = e /\ \A i \in 0..(m - 1) : g[i] = f[i]
    BY <2>1 DEF IsIteration
  <2>5. g \in [0..m -> D]
    <3> HIDE DEF e
    <3> QED  BY <2>3
  <2> HIDE DEF g
  <2>6. ASSUME NEW i \in 1..m PROVE g[i] = step[i][g[i - 1]]
    <3>1. CASE i = m
      BY <2>4, <3>1
    <3>2. CASE i # m
      <4>1. i \in 1..(m - 1) /\ i - 1 \in 0..(m - 1) /\ i \in 0..(m - 1)
        BY <3>2
      <4>2. f[i] = step[i][f[i - 1]]
        BY <2>1, <4>1 DEF IsIteration
      <4> QED  BY <2>4, <4>1, <4>2
    <3> QED  BY <3>1, <3>2
  <2>7. IsIteration(g, a, step, m)
    BY <2>4, <2>6 DEF IsIteration
  <2> QED  BY <2>5, <2>7
<1>3. 0..n \subseteq T
  <2> HIDE DEF T
  <2> QED  BY <1>1, <1>2, Climb
<1>. QED  BY <1>3

(* A set with the empty sequence that is closed under Append holds all     *)
(* sequences.                                                              *)
LEMMA SeqClimb ==
    ASSUME NEW S, NEW T, <<>> \in T,
           \A q \in Seq(S) : \A x \in S : q \in T => Append(q, x) \in T
    PROVE  Seq(S) \subseteq T
<1> SUFFICES ASSUME NEW s \in Seq(S) PROVE s \in T
  OBVIOUS
<1> DEFINE P == {i \in 0..Len(s) : SubSeq(s, 1, i) \in T}
<1>1. 0 \in P
  <2>1. SubSeq(s, 1, 0) = <<>> /\ 0 \in 0..Len(s)
    OBVIOUS
  <2>2. SubSeq(s, 1, 0) \in T
    BY ONLY <2>1, <<>> \in T, Zenon
  <2> QED  BY <2>1, <2>2
<1>2. ASSUME NEW i \in 1..Len(s), i - 1 \in P PROVE i \in P
  <2>1. SubSeq(s, 1, i) = Append(SubSeq(s, 1, i - 1), s[i])
    OBVIOUS
  <2>2. SubSeq(s, 1, i - 1) \in Seq(S) /\ s[i] \in S /\ SubSeq(s, 1, i - 1) \in T
    BY <1>2
  <2> DEFINE q == SubSeq(s, 1, i - 1)
             x == s[i]
  <2> HIDE DEF q, x
  <2>3. Append(q, x) \in T
    BY <2>2 DEF q, x
  <2>4. SubSeq(s, 1, i) \in T
    BY ONLY <2>1, <2>3, Zenon DEF q, x
  <2> QED  BY <2>4
<1>3. 0..Len(s) \subseteq P
  <2>1. Len(s) \in Nat
    OBVIOUS
  <2> HIDE DEF P
  <2> QED  BY <1>1, <1>2, <2>1, Climb
<1>4. SubSeq(s, 1, Len(s)) = s /\ Len(s) \in 0..Len(s)
  OBVIOUS
<1>. QED  BY <1>3, <1>4

-----------------------------------------------------------------------------
(* The rows of a sequence that are not null                                *)

IsKept(k, rows, null, n) ==
    /\ k[0] = <<>>
    /\ \A i \in 1..n :
         k[i] = IF rows[i] # null THEN Append(k[i - 1], rows[i]) ELSE k[i - 1]

(* Without computes its recursive function.                                *)
LEMMA WithoutKept ==
    ASSUME NEW S, NEW rows \in Seq(S), NEW null
    PROVE  \E k \in [0..Len(rows) -> Seq(S)] :
             /\ IsKept(k, rows, null, Len(rows))
             /\ Without(rows, null) = k[Len(rows)]
<1> DEFINE n == Len(rows)
           step == [i \in 1..n |-> [q \in Seq(S) |->
                      IF rows[i] # null THEN Append(q, rows[i]) ELSE q]]
           IsFcn(h) ==
             h = [i \in 0..n |->
                    IF i = 0 THEN <<>>
                    ELSE IF rows[i] # null THEN Append(h[i - 1], rows[i])
                    ELSE h[i - 1]]
           k == CHOOSE h : IsFcn(h)
<1>1. n \in Nat /\ <<>> \in Seq(S) /\ \A i \in 1..n : rows[i] \in S
  OBVIOUS
<1>2. step \in [1..n -> [Seq(S) -> Seq(S)]]
  <2>1. ASSUME NEW i \in 1..n, NEW q \in Seq(S) PROVE Append(q, rows[i]) \in Seq(S)
    BY <1>1
  <2> QED  BY <2>1
<1>3. PICK f \in [0..n -> Seq(S)] : IsIteration(f, <<>>, step, n)
  <2> HIDE DEF n, step
  <2> QED  BY <1>1, <1>2, IterationExists
<1>4. IsKept(f, rows, null, n)
  <2>1. ASSUME NEW i \in 1..n
        PROVE  f[i] = IF rows[i] # null THEN Append(f[i - 1], rows[i]) ELSE f[i - 1]
    <3>1. f[i] = step[i][f[i - 1]] /\ f[i - 1] \in Seq(S)
      <4> HIDE DEF n, step
      <4> QED  BY <1>1, <1>3 DEF IsIteration
    <3> QED  BY <3>1
  <2> QED  BY <1>3, <2>1 DEF IsIteration, IsKept
<1> HIDE DEF step
<1>5. IsFcn(f)
  <2> HIDE DEF n
  <2>1. ASSUME NEW i \in 0..n
        PROVE  f[i] = IF i = 0 THEN <<>>
                      ELSE IF rows[i] # null THEN Append(f[i - 1], rows[i])
                      ELSE f[i - 1]
    <3>1. CASE i = 0
      BY <1>4, <3>1 DEF IsKept
    <3>2. CASE i # 0
      <4>1. i \in 1..n
        BY <1>1, <3>2
      <4> QED  BY <1>4, <3>2, <4>1 DEF IsKept
    <3> QED  BY <3>1, <3>2
  <2> QED  BY <2>1
<1>6. IsFcn(k)
  <2> HIDE DEF IsFcn
  <2> QED  BY <1>5
<1>7. Without(rows, null) = k[n]
  BY DEF Without
<1> HIDE DEF k
<1>8. IsKept(k, rows, null, n)
  <2> HIDE DEF n
  <2>1. k[0] = <<>>
    BY <1>1, <1>6
  <2>2. ASSUME NEW i \in 1..n
        PROVE  k[i] = IF rows[i] # null THEN Append(k[i - 1], rows[i]) ELSE k[i - 1]
    <3>1. i \in 0..n /\ i # 0
      BY <1>1
    <3> QED  BY <1>6, <3>1
  <2> QED  BY <2>1, <2>2 DEF IsKept
<1> DEFINE T == {i \in 0..n : k[i] = f[i]}
<1>9. \A i \in 0..n : k[i] = f[i]
  <2>1. 0 \in T
    BY <1>1, <1>4, <1>8 DEF IsKept
  <2>2. ASSUME NEW i \in 1..n, i - 1 \in T PROVE i \in T
    BY <1>4, <1>8, <2>2 DEF IsKept
  <2>3. 0..n \subseteq T
    <3> HIDE DEF T, n
    <3> QED  BY <1>1, <2>1, <2>2, Climb
  <2> QED  BY <2>3
<1>10. Without(rows, null) = f[n]
  BY <1>1, <1>7, <1>9
<1>. QED  BY <1>4, <1>10

(* Nothing is kept of nothing.                                             *)
LEMMA WithoutEmpty ==
    ASSUME NEW null
    PROVE  Without(<<>>, null) = <<>>
<1> DEFINE e == <<>>
<1>1. e \in Seq({}) /\ Len(e) = 0
  OBVIOUS
<1> HIDE DEF e
<1>2. PICK k \in [0..Len(e) -> Seq({})] :
        IsKept(k, e, null, Len(e)) /\ Without(e, null) = k[Len(e)]
  BY <1>1, WithoutKept
<1>3. Without(e, null) = <<>>
  BY <1>1, <1>2 DEF IsKept
<1>. QED  BY <1>3 DEF e

(* What is kept is a sequence of rows.                                     *)
LEMMA WithoutType ==
    ASSUME NEW S, NEW rows \in Seq(S), NEW null
    PROVE  Without(rows, null) \in Seq(S)
<1>1. PICK k \in [0..Len(rows) -> Seq(S)] : Without(rows, null) = k[Len(rows)]
  BY WithoutKept
<1>2. Len(rows) \in 0..Len(rows)
  OBVIOUS
<1>. QED  BY <1>1, <1>2

(* One more row is kept, unless it is null.                                *)
LEMMA WithoutAppend ==
    ASSUME NEW S, NEW rows \in Seq(S), NEW x \in S, NEW null
    PROVE  Without(Append(rows, x), null) =
             IF x # null THEN Append(Without(rows, null), x)
             ELSE Without(rows, null)
<1> DEFINE n == Len(rows)
           more == Append(rows, x)
<1>1. /\ n \in Nat /\ more \in Seq(S) /\ Len(more) = n + 1
      /\ more[n + 1] = x /\ \A i \in 1..n : more[i] = rows[i]
  OBVIOUS
<1>2. PICK k \in [0..n -> Seq(S)] :
        IsKept(k, rows, null, n) /\ Without(rows, null) = k[n]
  BY WithoutKept
<1> HIDE DEF more, n
<1>3. PICK l \in [0..Len(more) -> Seq(S)] :
        IsKept(l, more, null, Len(more)) /\ Without(more, null) = l[Len(more)]
  BY <1>1, WithoutKept
<1> DEFINE T == {i \in 0..n : l[i] = k[i]}
<1>4. 0 \in T
  BY <1>1, <1>2, <1>3 DEF IsKept
<1>5. ASSUME NEW i \in 1..n, i - 1 \in T PROVE i \in T
  <2>1. i \in 1..Len(more) /\ l[i - 1] = k[i - 1] /\ more[i] = rows[i] /\ i \in 0..n
    <3>1. l[i - 1] = k[i - 1]
      BY ONLY <1>5, Zenon
    <3>2. i \in 1..Len(more) /\ i \in 0..n
      BY ONLY <1>1, <1>5
    <3> QED  BY ONLY <1>1, <1>5, <3>1, <3>2, Zenon
  <2>2. l[i] = IF more[i] # null THEN Append(l[i - 1], more[i]) ELSE l[i - 1]
    BY <1>3, <2>1 DEF IsKept
  <2>3. k[i] = IF rows[i] # null THEN Append(k[i - 1], rows[i]) ELSE k[i - 1]
    BY <1>2 DEF IsKept
  <2>4. l[i] = k[i]
    BY ONLY <2>1, <2>2, <2>3, Zenon
  <2> QED  BY <2>1, <2>4
<1>6. 0..n \subseteq T
  <2> HIDE DEF T
  <2> QED  BY <1>1, <1>4, <1>5, Climb
<1>7. l[n] = k[n]
  BY <1>1, <1>6
<1>8. n + 1 \in 1..Len(more) /\ (n + 1) - 1 = n
  BY <1>1
<1>9. l[n + 1] = IF more[n + 1] # null THEN Append(l[n], more[n + 1]) ELSE l[n]
  BY <1>3, <1>8 DEF IsKept
<1>10. Without(more, null) = IF x # null THEN Append(k[n], x) ELSE k[n]
  BY <1>1, <1>3, <1>7, <1>9
<1>. QED  BY <1>2, <1>10 DEF more

(* Two sequences of elements of a set, one after the other.                *)
LEMMA ConcatType ==
    ASSUME NEW S, NEW a \in Seq(S), NEW b \in Seq(S)
    PROVE  a \o b \in Seq(S) /\ Len(a \o b) = Len(a) + Len(b)
OBVIOUS

(* The elements of two sequences put together.                             *)
LEMMA ConcatElements ==
    ASSUME NEW S, NEW a \in Seq(S), NEW b \in Seq(S)
    PROVE  /\ a \o b \in Seq(S) /\ Len(a \o b) = Len(a) + Len(b)
           /\ \A i \in 1..Len(a) : (a \o b)[i] = a[i]
           /\ \A i \in 1..Len(b) : (a \o b)[Len(a) + i] = b[i]
OBVIOUS

(* An element is appended to the second of two sequences.                  *)
LEMMA AppendConcat ==
    ASSUME NEW S, NEW a \in Seq(S), NEW q \in Seq(S), NEW x \in S
    PROVE  a \o Append(q, x) = Append(a \o q, x) /\ a \o q \in Seq(S)
OBVIOUS

(* Every row that is kept is a row, and not null.                          *)
LEMMA WithoutElement ==
    ASSUME NEW S, NEW rows \in Seq(S), NEW null
    PROVE  \A k \in 1..Len(Without(rows, null)) :
             \E i \in 1..Len(rows) : rows[i] # null /\ Without(rows, null)[k] = rows[i]
<1> DEFINE Kept(q) ==
             \A k \in 1..Len(Without(q, null)) :
               \E i \in 1..Len(q) : q[i] # null /\ Without(q, null)[k] = q[i]
           T == {q \in Seq(S) : Kept(q)}
<1>1. <<>> \in T
  <2>1. Len(Without(<<>>, null)) = 0 /\ <<>> \in Seq(S) /\ 1..0 = {}
    BY WithoutEmpty
  <2> QED  BY <2>1
<1>2. ASSUME NEW q \in Seq(S), NEW x \in S, q \in T PROVE Append(q, x) \in T
  <2> DEFINE more == Append(q, x)
             w == Without(q, null)
             v == Without(more, null)
  <2>1. /\ Len(q) \in Nat /\ more \in Seq(S) /\ Len(more) = Len(q) + 1
        /\ more[Len(q) + 1] = x /\ \A i \in 1..Len(q) : more[i] = q[i]
    OBVIOUS
  <2>2. w \in Seq(S) /\ v = IF x # null THEN Append(w, x) ELSE w
    BY WithoutType, WithoutAppend
  <2>3. \A k \in 1..Len(w) : \E i \in 1..Len(q) : q[i] # null /\ w[k] = q[i]
    BY <1>2
  <2> HIDE DEF more, w, v
  <2>4. ASSUME NEW k \in 1..Len(v)
        PROVE  \E i \in 1..Len(more) : more[i] # null /\ v[k] = more[i]
    <3>1. CASE k \in 1..Len(w)
      <4>1. PICK i \in 1..Len(q) : q[i] # null /\ w[k] = q[i]
        BY <2>3, <3>1
      <4>2. v[k] = w[k]
        BY <2>2, <3>1
      <4>3. i \in 1..Len(more) /\ more[i] = q[i]
        BY <2>1
      <4> QED  BY <4>1, <4>2, <4>3
    <3>2. CASE k \notin 1..Len(w)
      <4>1. x # null /\ v[k] = x
        BY <2>2, <3>2
      <4>2. Len(q) + 1 \in 1..Len(more)
        BY <2>1
      <4> QED  BY <2>1, <4>1, <4>2
    <3> QED  BY <3>1, <3>2
  <2>5. Kept(more)
    BY <2>4 DEF v
  <2> HIDE DEF Kept
  <2> QED  BY <2>1, <2>5 DEF more
<1>3. Seq(S) \subseteq T
  <2> HIDE DEF T
  <2> QED  BY <1>1, <1>2, SeqClimb
<1>. QED  BY <1>3

(* Rows are kept batch by batch.                                           *)
LEMMA WithoutConcat ==
    ASSUME NEW S, NEW a \in Seq(S), NEW b \in Seq(S), NEW null
    PROVE  Without(a \o b, null) = Without(a, null) \o Without(b, null)
<1> DEFINE T == {q \in Seq(S) :
                   Without(a \o q, null) = Without(a, null) \o Without(q, null)}
<1>1. Without(a, null) \in Seq(S)
  BY WithoutType
<1>2. <<>> \in T
  <2>1. a \o <<>> = a /\ Without(a, null) \o <<>> = Without(a, null) /\ <<>> \in Seq(S)
    BY <1>1
  <2> QED  BY <2>1, WithoutEmpty
<1>3. ASSUME NEW q \in Seq(S), NEW x \in S, q \in T PROVE Append(q, x) \in T
  <2> DEFINE A == Without(a, null)
             Q == Without(q, null)
             w == a \o q
  <2>1. a \o Append(q, x) = Append(w, x) /\ w \in Seq(S) /\ Append(q, x) \in Seq(S)
    OBVIOUS
  <2>2. A \in Seq(S) /\ Q \in Seq(S) /\ Without(w, null) = A \o Q
    BY <1>1, <1>3, WithoutType
  <2>3. Without(Append(q, x), null) = IF x # null THEN Append(Q, x) ELSE Q
    BY WithoutAppend
  <2> HIDE DEF A, Q, w
  <2>4. Without(Append(w, x), null) =
          IF x # null THEN Append(A \o Q, x) ELSE A \o Q
    <3>1. Without(Append(w, x), null) =
            IF x # null THEN Append(Without(w, null), x) ELSE Without(w, null)
      BY <2>1, WithoutAppend
    <3> QED  BY <2>2, <3>1
  <2>5. A \o Append(Q, x) = Append(A \o Q, x)
    <3>1. A \in Seq(S) /\ Q \in Seq(S)
      BY <2>2
    <3> QED  BY ONLY <3>1, x \in S, AppendConcat
  <2>6. Without(a \o Append(q, x), null) = A \o Without(Append(q, x), null)
    BY <2>1, <2>3, <2>4, <2>5
  <2> QED  BY <2>1, <2>6 DEF A
<1>4. Seq(S) \subseteq T
  <2> HIDE DEF T
  <2> QED  BY <1>2, <1>3, SeqClimb
<1>. QED  BY <1>4

-----------------------------------------------------------------------------
(* Bitmaps                                                                 *)

(* Which rows are there.                                                   *)
Present(rows, null) == [i \in DOMAIN rows |-> rows[i] # null]

(* None of no flags is set.                                                *)
LEMMA RankZero ==
    ASSUME NEW flags
    PROVE  Rank(flags, 0) = 0
<1>1. {j \in 1..0 : flags[j]} = {}
  OBVIOUS
<1>. QED  BY <1>1, FS_EmptySet DEF Rank

(* A flag adds one if it is set.                                           *)
LEMMA RankStep ==
    ASSUME NEW flags, NEW i \in Nat
    PROVE  /\ Rank(flags, i) \in Nat
           /\ Rank(flags, i + 1) = Rank(flags, i) + (IF flags[i + 1] THEN 1 ELSE 0)
<1> DEFINE A == {j \in 1..i : flags[j]}
           B == {j \in 1..(i + 1) : flags[j]}
<1>1. IsFiniteSet(A)
  <2>1. IsFiniteSet(1..i) /\ A \subseteq 1..i
    BY FS_Interval
  <2> HIDE DEF A
  <2> QED  BY <2>1, FS_Subset
<1>2. i + 1 \notin A
  OBVIOUS
<1>3. B = IF flags[i + 1] THEN A \cup {i + 1} ELSE A
  OBVIOUS
<1> HIDE DEF A, B
<1>4. Cardinality(A) \in Nat
  BY <1>1, FS_CardinalityType
<1>5. Cardinality(A \cup {i + 1}) = Cardinality(A) + 1
  BY <1>1, <1>2, FS_AddElement
<1>6. Cardinality(B) = Cardinality(A) + (IF flags[i + 1] THEN 1 ELSE 0)
  BY <1>3, <1>4, <1>5
<1>. QED  BY <1>4, <1>6 DEF Rank, A, B

(* Flags behind the i-th do not count.                                     *)
LEMMA RankPrefix ==
    ASSUME NEW f, NEW g, NEW i, \A j \in 1..i : f[j] = g[j]
    PROVE  Rank(f, i) = Rank(g, i)
<1>1. {j \in 1..i : f[j]} = {j \in 1..i : g[j]}
  OBVIOUS
<1>. QED  BY <1>1 DEF Rank

(* Only when all flags are set are there as many set flags as flags.       *)
LEMMA RankFull ==
    ASSUME NEW f, NEW n \in Nat
    PROVE  /\ Rank(f, n) \in 0..n
           /\ Rank(f, n) = n => \A i \in 1..n : f[i]
<1> DEFINE A == {j \in 1..n : f[j]}
<1>1. IsFiniteSet(1..n) /\ Cardinality(1..n) = n
  BY FS_Interval
<1>2. A \subseteq 1..n
  OBVIOUS
<1> HIDE DEF A
<1>3. /\ IsFiniteSet(A) /\ Cardinality(A) <= n
      /\ Cardinality(A) = n => A = 1..n
  BY <1>1, <1>2, FS_Subset
<1>4. Cardinality(A) \in Nat
  BY <1>3, FS_CardinalityType
<1>. QED  BY <1>3, <1>4 DEF A, Rank

(* No flag is set.                                                         *)
LEMMA RankNone ==
    ASSUME NEW f, NEW n \in Nat, \A i \in 1..n : ~f[i]
    PROVE  Rank(f, n) = 0
<1>1. {j \in 1..n : f[j]} = {}
  OBVIOUS
<1>. QED  BY <1>1, FS_EmptySet DEF Rank

(* Every flag is set.                                                      *)
LEMMA RankAll ==
    ASSUME NEW f, NEW n \in Nat, \A i \in 1..n : f[i]
    PROVE  Rank(f, n) = n
<1>1. {j \in 1..n : f[j]} = 1..n
  OBVIOUS
<1>2. Cardinality(1..n) = n
  BY FS_Interval
<1>. QED  BY <1>1, <1>2 DEF Rank

(* One flag for every row.                                                 *)
LEMMA PresentType ==
    ASSUME NEW S, NEW rows \in Seq(S), NEW null
    PROVE  /\ Present(rows, null) \in Seq(BOOLEAN)
           /\ Len(Present(rows, null)) = Len(rows)
           /\ \A i \in 1..Len(rows) : Present(rows, null)[i] = (rows[i] # null)
<1> DEFINE p == Present(rows, null)
<1>1. Len(rows) \in Nat /\ DOMAIN rows = 1..Len(rows)
  OBVIOUS
<1>2. p \in [1..Len(rows) -> BOOLEAN] /\ \A i \in 1..Len(rows) : p[i] = (rows[i] # null)
  BY <1>1 DEF Present
<1> HIDE DEF p
<1>3. p \in Seq(BOOLEAN) /\ Len(p) = Len(rows)
  BY <1>1, <1>2
<1>. QED  BY <1>2, <1>3 DEF p

(* The flags of more rows follow those of the first.                       *)
LEMMA PresentConcat ==
    ASSUME NEW S, NEW a \in Seq(S), NEW b \in Seq(S), NEW null
    PROVE  Present(a \o b, null) = Present(a, null) \o Present(b, null)
<1> DEFINE w == a \o b
           p == Present(a, null)
           q == Present(b, null)
           r == Present(w, null)
<1>1. /\ Len(a) \in Nat /\ Len(b) \in Nat
      /\ w \in Seq(S) /\ Len(w) = Len(a) + Len(b)
      /\ \A i \in 1..Len(a) : w[i] = a[i]
      /\ \A i \in 1..Len(b) : w[Len(a) + i] = b[i]
  OBVIOUS
<1>2. /\ p \in Seq(BOOLEAN) /\ Len(p) = Len(a)
      /\ \A i \in 1..Len(a) : p[i] = (a[i] # null)
  BY PresentType
<1>3. /\ q \in Seq(BOOLEAN) /\ Len(q) = Len(b)
      /\ \A i \in 1..Len(b) : q[i] = (b[i] # null)
  BY PresentType
<1> HIDE DEF w
<1>4. /\ r \in Seq(BOOLEAN) /\ Len(r) = Len(w)
      /\ \A i \in 1..Len(w) : r[i] = (w[i] # null)
  BY <1>1, PresentType
<1> HIDE DEF p, q, r
<1>5. ASSUME NEW i \in 1..(Len(a) + Len(b)) PROVE r[i] = (p \o q)[i]
  <2>1. CASE i \in 1..Len(a)
    <3>1. (p \o q)[i] = p[i]
      BY <1>1, <1>2, <1>3, <2>1
    <3>2. r[i] = p[i]
      BY <1>1, <1>2, <1>4, <2>1
    <3> QED  BY <3>1, <3>2
  <2>2. CASE i \notin 1..Len(a)
    <3>1. PICK j \in 1..Len(b) : i = Len(a) + j
      <4>1. i - Len(a) \in 1..Len(b) /\ i = Len(a) + (i - Len(a))
        BY <1>1, <2>2
      <4> QED  BY <4>1
    <3>2. (p \o q)[i] = q[j]
      BY <1>1, <1>2, <1>3, <3>1
    <3>3. r[i] = (w[i] # null) /\ w[i] = b[j] /\ q[j] = (b[j] # null)
      BY <1>1, <1>3, <1>4, <3>1
    <3> QED  BY <3>2, <3>3
  <2> QED  BY <2>1, <2>2
<1>6. p \o q \in Seq(BOOLEAN) /\ Len(p \o q) = Len(a) + Len(b)
  <2>1. p \in Seq(BOOLEAN) /\ Len(p) = Len(a) /\ q \in Seq(BOOLEAN) /\ Len(q) = Len(b)
    BY <1>2, <1>3
  <2>2. \A B : p \in Seq(B) /\ q \in Seq(B) =>
               p \o q \in Seq(B) /\ Len(p \o q) = Len(p) + Len(q)
    OBVIOUS
  <2> QED  BY ONLY <2>1, <2>2, Zenon
<1> DEFINE pq == p \o q
<1> HIDE DEF pq
<1>7. r = pq
  <2>1. pq \in Seq(BOOLEAN) /\ Len(pq) = Len(r) /\ \A i \in 1..Len(r) : r[i] = pq[i]
    BY <1>1, <1>4, <1>5, <1>6 DEF pq
  <2> QED  BY <1>4, <2>1
<1>. QED  BY <1>7 DEF p, q, r, w, pq

(* One more row has one more flag.                                         *)
LEMMA PresentAppend ==
    ASSUME NEW S, NEW rows \in Seq(S), NEW x \in S, NEW null
    PROVE  Present(Append(rows, x), null) = Append(Present(rows, null), x # null)
<1> DEFINE p == Present(rows, null)
           more == Append(rows, x)
           q == Present(more, null)
           b == x # null
<1>1. /\ Len(rows) \in Nat /\ more \in Seq(S) /\ Len(more) = Len(rows) + 1
      /\ more[Len(rows) + 1] = x
      /\ \A i \in 1..Len(rows) : more[i] = rows[i]
  OBVIOUS
<1>2. /\ p \in Seq(BOOLEAN) /\ Len(p) = Len(rows)
      /\ \A i \in 1..Len(rows) : p[i] = (rows[i] # null)
  BY PresentType
<1> HIDE DEF more
<1>3. /\ q \in Seq(BOOLEAN) /\ Len(q) = Len(more)
      /\ \A i \in 1..Len(more) : q[i] = (more[i] # null)
  BY <1>1, PresentType
<1> HIDE DEF p, q
<1>4. q[Len(rows) + 1] = b
  BY <1>1, <1>3
<1>5. ASSUME NEW i \in 1..Len(rows) PROVE q[i] = p[i]
  BY <1>1, <1>2, <1>3
<1>6. b \in BOOLEAN
  OBVIOUS
<1> HIDE DEF b
<1>7. q = Append(p, b)
  BY <1>1, <1>2, <1>3, <1>4, <1>5, <1>6
<1>. QED  BY <1>7 DEF p, q, b, more

(* The values that are kept are found by the rank of their rows.           *)
LEMMA WithoutRank ==
    ASSUME NEW S, NEW rows \in Seq(S), NEW null
    PROVE  /\ Len(Without(rows, null)) = Rank(Present(rows, null), Len(rows))
           /\ \A i \in 1..Len(rows) : rows[i] # null =>
                /\ Rank(Present(rows, null), i) \in 1..Len(Without(rows, null))
                /\ Without(rows, null)[Rank(Present(rows, null), i)] = rows[i]
<1> DEFINE Ranked(q) ==
             /\ Len(Without(q, null)) = Rank(Present(q, null), Len(q))
             /\ \A i \in 1..Len(q) : q[i] # null =>
                  /\ Rank(Present(q, null), i) \in 1..Len(Without(q, null))
                  /\ Without(q, null)[Rank(Present(q, null), i)] = q[i]
           T == {q \in Seq(S) : Ranked(q)}
<1>1. <<>> \in T
  <2>1. Len(<<>>) = 0 /\ <<>> \in Seq(S) /\ 1..0 = {}
    OBVIOUS
  <2> QED  BY <2>1, WithoutEmpty, RankZero
<1>2. ASSUME NEW q \in Seq(S), NEW x \in S, q \in T PROVE Append(q, x) \in T
  <2> DEFINE n == Len(q)
             more == Append(q, x)
             w == Without(q, null)
             v == Without(more, null)
             p == Present(q, null)
             r == Present(more, null)
  <2>1. /\ n \in Nat /\ more \in Seq(S) /\ Len(more) = n + 1
        /\ more[n + 1] = x /\ \A i \in 1..n : more[i] = q[i]
    OBVIOUS
  <2>2. w \in Seq(S) /\ v = IF x # null THEN Append(w, x) ELSE w
    BY WithoutType, WithoutAppend
  <2>3. p \in Seq(BOOLEAN) /\ Len(p) = n /\ r = Append(p, x # null)
    BY PresentType, PresentAppend
  <2>4. /\ Len(w) = Rank(p, n)
        /\ \A i \in 1..n : q[i] # null =>
             Rank(p, i) \in 1..Len(w) /\ w[Rank(p, i)] = q[i]
    BY <1>2
  <2> DEFINE b == x # null
  <2>5. b \in BOOLEAN
    OBVIOUS
  <2>6. r[n + 1] = b /\ \A i \in 1..n : r[i] = p[i]
    <3> HIDE DEF r, p, n, b
    <3>1. r = Append(p, b)
      BY <2>3 DEF b
    <3> QED  BY <2>3, <2>5, <3>1
  <2> HIDE DEF more, w, v, p, r, n
  <2>7. \A i \in 0..n : Rank(r, i) = Rank(p, i)
    <3>1. ASSUME NEW i \in 0..n PROVE \A j \in 1..i : r[j] = p[j]
      BY <2>1, <2>6
    <3> QED  BY <3>1, RankPrefix
  <2>8. Rank(p, n) \in Nat /\ Rank(r, n + 1) = Rank(p, n) + (IF x # null THEN 1 ELSE 0)
    <3>1. n \in 0..n
      BY <2>1
    <3>2. Rank(r, n + 1) = Rank(r, n) + (IF r[n + 1] THEN 1 ELSE 0) /\ Rank(r, n) \in Nat
      BY <2>1, RankStep
    <3> QED  BY <2>6, <2>7, <3>1, <3>2
  <2>9. Len(v) = Rank(r, Len(more))
    BY <2>1, <2>2, <2>4, <2>8
  <2>10. ASSUME NEW i \in 1..Len(more), more[i] # null
         PROVE  Rank(r, i) \in 1..Len(v) /\ v[Rank(r, i)] = more[i]
    <3>1. CASE i = n + 1
      <4>1. x # null /\ v = Append(w, x) /\ Rank(r, i) = Len(w) + 1
        BY <2>1, <2>2, <2>4, <2>8, <2>10, <3>1
      <4> QED  BY <2>1, <2>2, <3>1, <4>1
    <3>2. CASE i # n + 1
      <4>1. i \in 1..n /\ i \in 0..n /\ more[i] = q[i]
        BY <2>1, <3>2
      <4>2. Rank(p, i) \in 1..Len(w) /\ w[Rank(p, i)] = q[i]
        BY <2>4, <2>10, <4>1
      <4>3. \A k \in 1..Len(w) : k \in 1..Len(v) /\ v[k] = w[k]
        BY <2>2
      <4> QED  BY <2>7, <4>1, <4>2, <4>3
    <3> QED  BY <3>1, <3>2
  <2>11. Ranked(more)
    BY <2>9, <2>10 DEF v, r
  <2> HIDE DEF Ranked
  <2> QED  BY <2>1, <2>11 DEF more
<1>3. Seq(S) \subseteq T
  <2> HIDE DEF T
  <2> QED  BY <1>1, <1>2, SeqClimb
<1>. QED  BY <1>3

-----------------------------------------------------------------------------
(* Sequences put together from others                                      *)

IsFlat(f, seqs, n) ==
    \A i \in 1..n : f[i] = IF i = 1 THEN seqs[i] ELSE f[i - 1] \o seqs[i]

(* FlattenSeq computes its recursive function.                             *)
LEMMA FlattenIsFlat ==
    ASSUME NEW S, NEW seqs \in Seq(Seq(S)), Len(seqs) > 0
    PROVE  \E f \in [1..Len(seqs) -> Seq(S)] :
             IsFlat(f, seqs, Len(seqs)) /\ FlattenSeq(seqs) = f[Len(seqs)]
<1> DEFINE n == Len(seqs)
           step == [i \in 1..n |-> [q \in Seq(S) |-> q \o seqs[i]]]
           IsFcn(h) ==
             h = [i \in 1..n |->
                    IF i = 1 THEN seqs[i] ELSE h[i - 1] \o seqs[i]]
           k == CHOOSE h : IsFcn(h)
<1>1. n \in Nat /\ n > 0 /\ <<>> \in Seq(S) /\ \A i \in 1..n : seqs[i] \in Seq(S)
  OBVIOUS
<1>2. step \in [1..n -> [Seq(S) -> Seq(S)]]
  <2>1. ASSUME NEW i \in 1..n, NEW q \in Seq(S) PROVE q \o seqs[i] \in Seq(S)
    BY <1>1
  <2> QED  BY <2>1
<1>3. PICK g \in [0..n -> Seq(S)] : IsIteration(g, <<>>, step, n)
  <2> HIDE DEF n, step
  <2> QED  BY <1>1, <1>2, IterationExists
<1> DEFINE f == [i \in 1..n |-> g[i]]
<1>4. f \in [1..n -> Seq(S)]
  <2> HIDE DEF n
  <2> QED  BY <1>1, <1>3
<1>5. \A i \in 1..n : g[i] = g[i - 1] \o seqs[i] /\ g[i - 1] \in Seq(S)
  <2> SUFFICES ASSUME NEW i \in 1..n
               PROVE  g[i] = g[i - 1] \o seqs[i] /\ g[i - 1] \in Seq(S)
    OBVIOUS
  <2>1. g[i] = step[i][g[i - 1]] /\ g[i - 1] \in Seq(S)
    <3> HIDE DEF n, step
    <3> QED  BY <1>1, <1>3 DEF IsIteration
  <2> QED  BY <2>1
<1> HIDE DEF step
<1>6. \A i \in 1..n : f[i] = IF i = 1 THEN seqs[i] ELSE f[i - 1] \o seqs[i]
  <2> SUFFICES ASSUME NEW i \in 1..n
               PROVE  f[i] = IF i = 1 THEN seqs[i] ELSE f[i - 1] \o seqs[i]
    OBVIOUS
  <2> HIDE DEF n
  <2>1. CASE i = 1
    <3>1. g[1] = g[0] \o seqs[1] /\ g[0] = <<>>
      <4>1. g[0] = <<>>
        BY <1>3 DEF IsIteration
      <4>2. 1 \in 1..n /\ 1 - 1 = 0
        BY <2>1
      <4>3. g[1] = g[1 - 1] \o seqs[1]
        BY <1>5, <4>2
      <4> QED  BY <4>1, <4>2, <4>3
    <3>2. seqs[1] \in Seq(S)
      BY <1>1, <2>1
    <3>3. <<>> \o seqs[1] = seqs[1]
      BY <3>2
    <3> QED  BY <2>1, <3>1, <3>3
  <2>2. CASE i # 1
    <3>1. i - 1 \in 1..n
      BY <1>1, <2>2
    <3> QED  BY <1>5, <2>2, <3>1
  <2> QED  BY <2>1, <2>2
<1> HIDE DEF f
<1>7. IsFcn(f)
  <2> HIDE DEF n
  <2> QED  BY <1>4, <1>6
<1>8. IsFcn(k)
  <2> HIDE DEF IsFcn
  <2> QED  BY <1>7
<1>9. FlattenSeq(seqs) = k[n]
  <2>1. ~(Len(seqs) = 0)
    BY <1>1
  <2> QED  BY <2>1 DEF FlattenSeq
<1> HIDE DEF k
<1>10. \A i \in 1..n : k[i] = IF i = 1 THEN seqs[i] ELSE k[i - 1] \o seqs[i]
  <2> HIDE DEF n
  <2> QED  BY <1>8
<1> HIDE DEF n
<1> DEFINE T == {i \in 0..n : i = 0 \/ k[i] = f[i]}
<1>11. 0 \in T
  BY <1>1
<1>12. ASSUME NEW i \in 1..n, i - 1 \in T PROVE i \in T
  <2>1. k[i] = f[i]
    <3>1. CASE i = 1
      BY <1>6, <1>10, <3>1
    <3>2. CASE i # 1
      <4>1. k[i - 1] = f[i - 1]
        BY <1>12, <3>2
      <4>2. k[i] = k[i - 1] \o seqs[i] /\ f[i] = f[i - 1] \o seqs[i]
        BY <1>6, <1>10, <3>2
      <4> QED  BY <4>1, <4>2
    <3> QED  BY <3>1, <3>2
  <2> QED  BY <1>1, <2>1
<1>13. 0..n \subseteq T
  <2> HIDE DEF T
  <2> QED  BY <1>1, <1>11, <1>12, Climb
<1>14. FlattenSeq(seqs) = f[n]
  <2>1. n \in T /\ n # 0
    BY <1>1, <1>13
  <2> QED  BY <1>9, <2>1
<1>. QED  BY <1>4, <1>6, <1>14 DEF n, IsFlat

(* Putting nothing together.                                               *)
LEMMA FlattenEmpty ==
    FlattenSeq(<<>>) = <<>>
BY DEF FlattenSeq

(* What is put together is a sequence of the elements.                     *)
LEMMA FlattenType ==
    ASSUME NEW S, NEW seqs \in Seq(Seq(S))
    PROVE  FlattenSeq(seqs) \in Seq(S)
<1>1. CASE Len(seqs) = 0
  <2>1. FlattenSeq(seqs) = seqs /\ seqs = <<>>
    BY <1>1 DEF FlattenSeq
  <2> QED  BY <2>1
<1>2. CASE Len(seqs) > 0
  <2>1. PICK f \in [1..Len(seqs) -> Seq(S)] : FlattenSeq(seqs) = f[Len(seqs)]
    BY <1>2, FlattenIsFlat
  <2>2. Len(seqs) \in 1..Len(seqs)
    BY <1>2
  <2> QED  BY <2>1, <2>2
<1>3. Len(seqs) \in Nat
  OBVIOUS
<1>. QED  BY <1>1, <1>2, <1>3

(* One more sequence follows the others.                                   *)
LEMMA FlattenAppend ==
    ASSUME NEW S, NEW seqs \in Seq(Seq(S)), NEW x \in Seq(S)
    PROVE  FlattenSeq(Append(seqs, x)) = FlattenSeq(seqs) \o x
<1> DEFINE n == Len(seqs)
           more == Append(seqs, x)
           D == Seq(S)
<1>1. /\ n \in Nat /\ more \in Seq(D) /\ Len(more) = n + 1
      /\ more[n + 1] = x /\ \A i \in 1..n : more[i] = seqs[i]
  <2> HIDE DEF D
  <2>1. seqs \in Seq(D) /\ x \in D
    BY DEF D
  <2> QED  BY <2>1
<1> HIDE DEF more
<1>2. Len(more) > 0
  BY <1>1
<1>3. PICK l \in [1..Len(more) -> Seq(S)] :
        IsFlat(l, more, Len(more)) /\ FlattenSeq(more) = l[Len(more)]
  BY <1>1, <1>2, FlattenIsFlat
<1>4. l[n + 1] = IF n + 1 = 1 THEN more[n + 1] ELSE l[(n + 1) - 1] \o more[n + 1]
  <2>1. n + 1 \in 1..Len(more)
    BY <1>1
  <2> HIDE DEF n
  <2> QED  BY <1>3, <2>1 DEF IsFlat
<1>5. CASE n = 0
  <2>1. FlattenSeq(seqs) = <<>>
    <3>1. seqs = <<>>
      BY <1>5
    <3> QED  BY <3>1, FlattenEmpty
  <2>2. FlattenSeq(more) = x
    BY <1>1, <1>3, <1>4, <1>5
  <2>3. <<>> \o x = x
    OBVIOUS
  <2> QED  BY <2>1, <2>2, <2>3 DEF more
<1>6. CASE n > 0
  <2>1. PICK k \in [1..n -> Seq(S)] : IsFlat(k, seqs, n) /\ FlattenSeq(seqs) = k[n]
    BY <1>6, FlattenIsFlat
  <2> HIDE DEF n
  <2> DEFINE T == {i \in 0..n : i = 0 \/ l[i] = k[i]}
  <2>2. 0 \in T
    BY <1>1
  <2>3. ASSUME NEW i \in 1..n, i - 1 \in T PROVE i \in T
    <3>1. i \in 1..Len(more) /\ more[i] = seqs[i] /\ i \in 0..n
      BY <1>1
    <3>2. l[i] = IF i = 1 THEN more[i] ELSE l[i - 1] \o more[i]
      BY <1>3, <3>1 DEF IsFlat
    <3>3. k[i] = IF i = 1 THEN seqs[i] ELSE k[i - 1] \o seqs[i]
      BY <2>1 DEF IsFlat
    <3>4. i = 1 \/ l[i - 1] = k[i - 1]
      BY <2>3
    <3>5. l[i] = k[i]
      BY ONLY <3>1, <3>2, <3>3, <3>4, Zenon
    <3> QED  BY <3>1, <3>5
  <2>4. 0..n \subseteq T
    <3> HIDE DEF T
    <3> QED  BY <1>1, <2>2, <2>3, Climb
  <2>5. l[n] = k[n]
    <3>1. n \in 0..n /\ n # 0
      BY <1>1, <1>6
    <3>2. n \in T
      BY <2>4, <3>1
    <3> QED  BY <3>1, <3>2
  <2>6. n + 1 # 1 /\ (n + 1) - 1 = n
    BY <1>1, <1>6
  <2>7. FlattenSeq(more) = k[n] \o x
    BY <1>1, <1>3, <1>4, <2>5, <2>6
  <2> QED  BY <2>1, <2>7 DEF more
<1>. QED  BY <1>1, <1>5, <1>6

(* A sequence is mapped element by element.                                *)
LEMMA MapAppend ==
    ASSUME NEW X, NEW Y, NEW g \in [X -> Y], NEW q \in Seq(X), NEW x \in X
    PROVE  /\ [i \in DOMAIN q |-> g[q[i]]] \in Seq(Y)
           /\ [i \in DOMAIN Append(q, x) |-> g[Append(q, x)[i]]] =
                Append([i \in DOMAIN q |-> g[q[i]]], g[x])
<1> DEFINE more == Append(q, x)
           p == [i \in DOMAIN q |-> g[q[i]]]
           r == [i \in DOMAIN more |-> g[more[i]]]
           y == g[x]
<1>1. /\ Len(q) \in Nat /\ more \in Seq(X) /\ Len(more) = Len(q) + 1
      /\ DOMAIN q = 1..Len(q) /\ DOMAIN more = 1..(Len(q) + 1)
      /\ more[Len(q) + 1] = x /\ \A i \in 1..Len(q) : more[i] = q[i]
      /\ \A i \in 1..Len(q) : q[i] \in X
  OBVIOUS
<1> HIDE DEF more
<1>2. y \in Y
  OBVIOUS
<1>3. p \in [1..Len(q) -> Y] /\ \A i \in 1..Len(q) : p[i] = g[q[i]]
  BY <1>1
<1>4. /\ DOMAIN r = 1..(Len(q) + 1)
      /\ r[Len(q) + 1] = y /\ \A i \in 1..Len(q) : r[i] = p[i]
      /\ r = [i \in 1..(Len(q) + 1) |-> r[i]]
  BY <1>1
<1> HIDE DEF p, r, y
<1>5. p \in Seq(Y) /\ Len(p) = Len(q)
  BY <1>1, <1>3
<1>6. r \in [1..(Len(q) + 1) -> Y]
  <2>1. ASSUME NEW i \in 1..(Len(q) + 1) PROVE r[i] \in Y
    <3>1. CASE i = Len(q) + 1
      BY <1>2, <1>4, <3>1
    <3>2. CASE i # Len(q) + 1
      <4>1. i \in 1..Len(q)
        BY <1>1, <3>2
      <4> QED  BY <1>3, <1>4, <4>1
    <3> QED  BY <3>1, <3>2
  <2> QED  BY <1>4, <2>1
<1>7. r \in Seq(Y) /\ Len(r) = Len(q) + 1
  BY <1>1, <1>6
<1>8. r = Append(p, y)
  <2>1. r[Len(p) + 1] = y /\ \A i \in 1..Len(p) : r[i] = p[i]
    BY <1>4, <1>5
  <2>2. p \in Seq(Y) /\ r \in Seq(Y) /\ Len(r) = Len(p) + 1
    BY <1>5, <1>7
  <2> QED  BY ONLY <1>2, <2>1, <2>2
<1>. QED  BY <1>5, <1>8 DEF more, p, r, y

(* A sequence in two parts.                                                *)
LEMMA SplitConcat ==
    ASSUME NEW S, NEW s \in Seq(S), NEW n \in 0..Len(s)
    PROVE  /\ SubSeq(s, 1, n) \in Seq(S) /\ Len(SubSeq(s, 1, n)) = n
           /\ SubSeq(s, n + 1, Len(s)) \in Seq(S)
           /\ Len(SubSeq(s, n + 1, Len(s))) = Len(s) - n
           /\ s = SubSeq(s, 1, n) \o SubSeq(s, n + 1, Len(s))
<1> DEFINE a == SubSeq(s, 1, n)
           b == SubSeq(s, n + 1, Len(s))
           m == Len(s)
<1>1. m \in Nat /\ n \in Nat /\ n <= m
  OBVIOUS
<1>2. a \in Seq(S) /\ Len(a) = n /\ \A i \in 1..n : a[i] = s[i]
  OBVIOUS
<1>3. b \in Seq(S) /\ Len(b) = m - n /\ \A i \in 1..(m - n) : b[i] = s[n + i]
  OBVIOUS
<1> HIDE DEF a, b
<1>4. s = a \o b
  <2>1. a \o b \in Seq(S) /\ Len(a \o b) = m
    BY <1>1, <1>2, <1>3
  <2>2. ASSUME NEW i \in 1..m PROVE (a \o b)[i] = s[i]
    <3>1. CASE i <= n
      BY <1>1, <1>2, <1>3, <3>1
    <3>2. CASE i > n
      <4>1. i - n \in 1..(m - n) /\ n + (i - n) = i
        BY <1>1, <3>2
      <4>2. b[i - n] = s[i]
        BY <1>3, <4>1
      <4>3. (a \o b)[i] = b[i - n]
        BY <1>1, <1>2, <1>3, <3>2
      <4> QED  BY <4>2, <4>3
    <3>3. i <= n \/ i > n
      BY <1>1
    <3> QED  BY <3>1, <3>2, <3>3
  <2> DEFINE ab == a \o b
  <2> HIDE DEF ab
  <2>3. ab \in Seq(S) /\ Len(ab) = Len(s) /\ \A i \in 1..Len(s) : ab[i] = s[i]
    BY <2>1, <2>2 DEF ab
  <2>4. s = ab
    BY ONLY <2>3, s \in Seq(S)
  <2> QED  BY <2>4 DEF ab
<1>. QED  BY <1>2, <1>3, <1>4 DEF a, b

(* The parts of two sequences put together.                                *)
LEMMA ConcatSplit ==
    ASSUME NEW S, NEW a \in Seq(S), NEW b \in Seq(S)
    PROVE  /\ SubSeq(a \o b, 1, Len(a)) = a
           /\ SubSeq(a \o b, Len(a) + 1, Len(a \o b)) = b
<1>1. SubSeq(a \o b, 1, Len(a)) = a
  OBVIOUS
<1>2. SubSeq(a \o b, Len(a) + 1, Len(a \o b)) = b
  OBVIOUS
<1>. QED  BY <1>1, <1>2

(* A slice of a sequence.                                                  *)
LEMMA SliceFacts ==
    ASSUME NEW S, NEW s \in Seq(S), NEW a \in 0..Len(s), NEW b \in a..Len(s)
    PROVE  /\ SubSeq(s, a + 1, b) \in Seq(S)
           /\ Len(SubSeq(s, a + 1, b)) = b - a
           /\ \A i \in 1..(b - a) : SubSeq(s, a + 1, b)[i] = s[a + i]
OBVIOUS

(* The set flags of a slice.                                               *)
LEMMA RankSlice ==
    ASSUME NEW f \in Seq(BOOLEAN), NEW a \in 0..Len(f), NEW n \in 0..(Len(f) - a),
           NEW i \in 0..n
    PROVE  Rank(SubSeq(f, a + 1, a + n), i) = Rank(f, a + i) - Rank(f, a)
<1> DEFINE s == SubSeq(f, a + 1, a + n)
           T == {j \in 0..n : Rank(s, j) = Rank(f, a + j) - Rank(f, a)}
<1>1. /\ s \in Seq(BOOLEAN) /\ Len(s) = n
      /\ \A j \in 1..n : s[j] = f[a + j]
      /\ a \in Nat /\ n \in Nat
  <2>1. a + n \in a..Len(f) /\ (a + n) - a = n
    OBVIOUS
  <2> QED  BY <2>1, SliceFacts
<1> HIDE DEF s
<1>2. \A j \in Nat : Rank(f, j) \in Nat /\ Rank(s, j) \in Nat
  BY RankStep
<1>3. 0 \in T
  <2>1. Rank(s, 0) = 0 /\ a + 0 = a
    BY <1>1, RankZero
  <2> QED  BY <1>1, <1>2, <2>1
<1>4. ASSUME NEW j \in 1..n, j - 1 \in T PROVE j \in T
  <2>1. j - 1 \in Nat /\ a + (j - 1) \in Nat /\ (j - 1) + 1 = j /\ (a + (j - 1)) + 1 = a + j
    BY <1>1
  <2>2. Rank(s, (j - 1) + 1) = Rank(s, j - 1) + (IF s[(j - 1) + 1] THEN 1 ELSE 0)
    BY <2>1, RankStep
  <2>3. Rank(f, (a + (j - 1)) + 1) =
          Rank(f, a + (j - 1)) + (IF f[(a + (j - 1)) + 1] THEN 1 ELSE 0)
    BY <2>1, RankStep
  <2>4. s[j] = f[a + j]
    BY <1>1
  <2>5. Rank(s, j - 1) = Rank(f, a + (j - 1)) - Rank(f, a)
    BY <1>4
  <2> DEFINE r1 == Rank(s, j - 1)
             r2 == Rank(f, a + (j - 1))
             r3 == Rank(f, a)
  <2>6. r1 \in Nat /\ r2 \in Nat /\ r3 \in Nat
    BY <1>1, <1>2, <2>1
  <2>7. Rank(s, j) = Rank(f, a + j) - r3
    <3> HIDE DEF r1, r2, r3
    <3>1. CASE f[a + j]
      <4>1. Rank(s, j) = r1 + 1 /\ Rank(f, a + j) = r2 + 1 /\ r1 = r2 - r3
        BY <2>1, <2>2, <2>3, <2>4, <2>5, <3>1 DEF r1, r2, r3
      <4> QED  BY <2>6, <4>1
    <3>2. CASE ~f[a + j]
      <4>1. Rank(s, j) = r1 + 0 /\ Rank(f, a + j) = r2 + 0 /\ r1 = r2 - r3
        BY <2>1, <2>2, <2>3, <2>4, <2>5, <3>2 DEF r1, r2, r3
      <4> QED  BY <2>6, <4>1
    <3> QED  BY <3>1, <3>2
  <2> QED  BY <1>1, <2>7
<1>5. 0..n \subseteq T
  <2> HIDE DEF T
  <2> QED  BY <1>1, <1>3, <1>4, Climb
<1>. QED  BY <1>5 DEF s

(* Ranks grow.                                                             *)
LEMMA RankGrows ==
    ASSUME NEW f \in Seq(BOOLEAN), NEW a \in 0..Len(f), NEW b \in a..Len(f)
    PROVE  Rank(f, a) \in Nat /\ Rank(f, b) \in Nat /\ Rank(f, a) <= Rank(f, b)
<1> DEFINE n == b - a
           s == SubSeq(f, a + 1, a + n)
<1>1. n \in 0..(Len(f) - a) /\ n \in 0..n /\ a + n = b /\ n \in Nat /\ a \in Nat /\ b \in Nat
  OBVIOUS
<1> HIDE DEF n
<1>2. Rank(s, n) = Rank(f, a + n) - Rank(f, a)
  BY <1>1, RankSlice
<1>3. Rank(s, n) \in Nat /\ Rank(f, a) \in Nat /\ Rank(f, b) \in Nat
  BY <1>1, RankStep
<1>. QED  BY <1>1, <1>2, <1>3

(* A flag that is set has a rank of its own.                               *)
LEMMA RankSet ==
    ASSUME NEW f \in Seq(BOOLEAN), NEW i \in 1..Len(f), f[i]
    PROVE  Rank(f, i) \in 1..Rank(f, Len(f))
<1>1. i - 1 \in Nat /\ (i - 1) + 1 = i /\ i \in 0..Len(f) /\ Len(f) \in i..Len(f)
  OBVIOUS
<1>2. Rank(f, i - 1) \in Nat /\ Rank(f, i) = Rank(f, i - 1) + 1
  BY <1>1, RankStep
<1>3. Rank(f, i) <= Rank(f, Len(f)) /\ Rank(f, Len(f)) \in Nat
  BY <1>1, RankGrows
<1>. QED  BY <1>2, <1>3

(* The rows of a slice that are not null are a slice of all of them, which *)
(* starts behind those in front of the slice.                              *)
LEMMA WithoutSlice ==
    ASSUME NEW S, NEW rows \in Seq(S), NEW null,
           NEW a \in 0..Len(rows), NEW b \in a..Len(rows)
    PROVE  LET all == Without(rows, null)
               slice == Without(SubSeq(rows, a + 1, b), null)
               before == Len(Without(SubSeq(rows, 1, a), null))
           IN  /\ all \in Seq(S) /\ slice \in Seq(S) /\ before \in Nat
               /\ Len(Without(SubSeq(rows, 1, b), null)) = before + Len(slice)
               /\ before + Len(slice) <= Len(all)
               /\ \A k \in 1..Len(slice) : all[before + k] = slice[k]
<1> DEFINE p == SubSeq(rows, 1, a)
           q == SubSeq(rows, a + 1, b)
           r == SubSeq(rows, b + 1, Len(rows))
           wp == Without(p, null)
           wq == Without(q, null)
           wr == Without(r, null)
<1>1. p \in Seq(S) /\ q \in Seq(S) /\ r \in Seq(S)
  BY SubSeqProperties
<1>2. SubSeq(rows, 1, b) = p \o q
  BY ConcatAdjacentSubSeq
<1>3. rows = (p \o q) \o r
  <2>1. b \in 0..Len(rows) /\ Len(rows) \in Nat
    OBVIOUS
  <2>2. rows = SubSeq(rows, 1, b) \o r
    BY <2>1, SplitConcat
  <2> QED  BY <1>2, <2>2
<1> HIDE DEF p, q, r
<1>4. wp \in Seq(S) /\ wq \in Seq(S) /\ wr \in Seq(S) /\ p \o q \in Seq(S)
  BY <1>1, WithoutType
<1>5. \A u, v \in Seq(S) : Without(u \o v, null) = Without(u, null) \o Without(v, null)
  BY WithoutConcat
<1>6. Without(p \o q, null) = wp \o wq
  BY <1>1, <1>5
<1>7. Without(rows, null) = (wp \o wq) \o wr
  <2>1. Without((p \o q) \o r, null) = Without(p \o q, null) \o wr
    BY <1>1, <1>4, <1>5
  <2> QED  BY <1>3, <1>6, <2>1
<1> HIDE DEF wp, wq, wr
<1> DEFINE all == Without(rows, null)
<1>8. /\ all \in Seq(S) /\ Len(wp) \in Nat /\ Len(wq) \in Nat
      /\ Len(wp \o wq) = Len(wp) + Len(wq)
      /\ Len(all) = Len(wp) + Len(wq) + Len(wr) /\ Len(wr) \in Nat
  BY <1>4, <1>7
<1>9. ASSUME NEW k \in 1..Len(wq) PROVE all[Len(wp) + k] = wq[k]
  <2> DEFINE u == wp \o wq
  <2>1. u \in Seq(S) /\ Len(u) = Len(wp) + Len(wq) /\ u[Len(wp) + k] = wq[k]
    BY <1>4
  <2>2. Len(wp) + k \in 1..Len(u)
    BY <1>8, <2>1
  <2> HIDE DEF u
  <2>3. (u \o wr)[Len(wp) + k] = u[Len(wp) + k]
    BY <1>4, <2>1, <2>2
  <2> QED  BY <1>7, <2>1, <2>3 DEF u
<1>10. Len(wp) + Len(wq) <= Len(all)
  BY <1>8
<1>. QED  BY <1>2, <1>4, <1>6, <1>8, <1>9, <1>10 DEF p, q, wp, wq

(* As many of the first i rows are not null as there are flags.            *)
LEMMA WithoutPrefix ==
    ASSUME NEW S, NEW rows \in Seq(S), NEW null, NEW i \in 0..Len(rows)
    PROVE  Len(Without(SubSeq(rows, 1, i), null)) = Rank(Present(rows, null), i)
<1> DEFINE p == SubSeq(rows, 1, i)
<1>1. p \in Seq(S) /\ Len(p) = i /\ \A j \in 1..i : p[j] = rows[j]
  OBVIOUS
<1> HIDE DEF p
<1>2. Len(Without(p, null)) = Rank(Present(p, null), i)
  BY <1>1, WithoutRank
<1>3. \A j \in 1..i : Present(p, null)[j] = Present(rows, null)[j]
  <2> TAKE j \in 1..i
  <2>1. j \in 1..Len(rows)
    OBVIOUS
  <2>2. Present(p, null)[j] = (p[j] # null)
    BY <1>1, PresentType
  <2>3. Present(rows, null)[j] = (rows[j] # null)
    BY <2>1, PresentType
  <2> QED  BY <1>1, <2>2, <2>3
<1>4. Rank(Present(p, null), i) = Rank(Present(rows, null), i)
  BY <1>3, RankPrefix
<1>. QED  BY <1>2, <1>4 DEF p

-----------------------------------------------------------------------------
(* Sums and slots                                                          *)

(* Total adds up the first elements of a sequence.                         *)
LEMMA TotalFirst ==
    ASSUME NEW n \in Nat, NEW w \in [1..n -> Nat], NEW f, IsPrefixSum(f, w, n),
           NEW m \in 0..n
    PROVE  Total([k \in 1..m |-> w[k]]) = f[m]
<1> DEFINE v == [k \in 1..m |-> w[k]]
           IsSum(h) == h = [i \in 0..m |-> IF i = 0 THEN 0 ELSE h[i - 1] + v[i]]
           s == CHOOSE h : IsSum(h)
           g == [i \in 0..m |-> f[i]]
<1>1. m \in Nat /\ v \in Seq(Nat) /\ Len(v) = m /\ \A i \in 1..m : v[i] = w[i]
  OBVIOUS
<1> HIDE DEF v
<1>2. \A i \in 1..m : f[i] = f[i - 1] + v[i]
  BY <1>1 DEF IsPrefixSum
<1>3. f[0] = 0
  BY DEF IsPrefixSum
<1>4. IsSum(g)
  <2>1. \A i \in 0..m : g[i] = IF i = 0 THEN 0 ELSE g[i - 1] + v[i]
    BY <1>1, <1>2, <1>3
  <2> QED  BY <2>1
<1>5. IsSum(s)
  <2> HIDE DEF IsSum
  <2> QED  BY <1>4
<1> HIDE DEF s
<1>6. 0..m \subseteq {i \in 0..m : s[i] = f[i]}
  <2> DEFINE T == {i \in 0..m : s[i] = f[i]}
  <2>1. 0 \in T
    BY <1>1, <1>3, <1>5
  <2>2. ASSUME NEW i \in 1..m, i - 1 \in T PROVE i \in T
    BY <1>1, <1>2, <1>5, <2>2
  <2> HIDE DEF T
  <2>3. 0..m \subseteq T
    BY <1>1, <2>1, <2>2, Climb
  <2> QED  BY <2>3 DEF T
<1>7. Total(v) = s[m]
  <2>1. Total(v) = LET sum == CHOOSE h : h = [i \in 0..Len(v) |->
                                IF i = 0 THEN 0 ELSE h[i - 1] + v[i]]
                   IN  sum[Len(v)]
    BY DEF Total
  <2> QED  BY <1>1, <2>1 DEF s
<1>8. s[m] = f[m]
  BY <1>1, <1>6
<1>. QED  BY <1>7, <1>8 DEF v

(* A selected slot takes one of the rows counted.                          *)
LEMMA SlotFacts ==
    ASSUME NEW n \in Nat, NEW bitmap \in [1..n -> BOOLEAN]
    PROVE  /\ Cardinality(Selected(bitmap)) \in Nat
           /\ \A i \in 1..n : bitmap[i] =>
                Slot(bitmap, i) \in 1..Cardinality(Selected(bitmap))
<1> DEFINE sel == Selected(bitmap)
<1>1. sel \subseteq 1..n
  BY DEF Selected
<1>2. IsFiniteSet(1..n)
  BY FS_Interval
<1> HIDE DEF sel
<1>3. IsFiniteSet(sel) /\ Cardinality(sel) \in Nat
  BY <1>1, <1>2, FS_Subset, FS_CardinalityType
<1>4. ASSUME NEW i \in 1..n, bitmap[i] PROVE Slot(bitmap, i) \in 1..Cardinality(sel)
  <2> DEFINE below == {j \in sel : j <= i}
  <2>1. below \subseteq sel /\ i \in below
    BY <1>4 DEF Selected, sel
  <2>2. Slot(bitmap, i) = Cardinality(below)
    BY DEF Slot, sel
  <2> HIDE DEF below
  <2>3. IsFiniteSet(below) /\ Cardinality(below) \in Nat /\ Cardinality(below) <= Cardinality(sel)
    BY <1>3, <2>1, FS_Subset, FS_CardinalityType
  <2>4. Cardinality(below) # 0
    BY <2>1, <2>3, FS_EmptySet
  <2> QED  BY <1>3, <2>2, <2>3, <2>4
<1>. QED  BY <1>3, <1>4 DEF sel

(* The sum of a whole sequence is the last of its prefix sums.             *)
LEMMA TotalWhole ==
    ASSUME NEW n \in Nat, NEW w \in [1..n -> Nat], NEW f, IsPrefixSum(f, w, n)
    PROVE  Total(w) = f[n]
<1>1. n \in 0..n
  OBVIOUS
<1>2. Total([k \in 1..n |-> w[k]]) = f[n]
  BY <1>1, TotalFirst
<1>3. w = [k \in 1..n |-> w[k]]
  OBVIOUS
<1>. QED  BY <1>2, <1>3, Zenon

(* The sum of a slice is the difference of the sums up to its ends.        *)
LEMMA TotalSlice ==
    ASSUME NEW seq \in Seq(Nat), NEW f, IsPrefixSum(f, seq, Len(seq)),
           NEW a \in 0..Len(seq), NEW b \in a..Len(seq)
    PROVE  Total(SubSeq(seq, a + 1, b)) = f[b] - f[a]
<1> DEFINE m == b - a
           w == SubSeq(seq, a + 1, b)
           g == [i \in 0..m |-> f[a + i] - f[a]]
<1>1. m \in Nat /\ Len(seq) \in Nat /\ a \in Nat /\ b \in Nat
  OBVIOUS
<1>2. w \in Seq(Nat) /\ Len(w) = m /\ \A i \in 1..m : w[i] = seq[a + i]
  BY SliceFacts
<1> HIDE DEF w
<1>3. w \in [1..m -> Nat]
  BY <1>1, <1>2
<1>4. IsPrefixSum(g, w, m)
  <2>1. /\ f \in [0..Len(seq) -> Nat] /\ f[0] = 0
        /\ \A i \in 1..Len(seq) : f[i] = f[i - 1] + seq[i]
    BY DEF IsPrefixSum
  <2>0. \A j \in 0..Len(seq) : f[j] \in Nat
    BY ONLY <2>1
  <2>2. \A i \in 0..m : g[i] \in Nat
    <3> TAKE i \in 0..m
    <3>1. a + i \in a..Len(seq)
      BY <1>1
    <3>2. f[a] <= f[a + i]
      <4> DEFINE j == a + i
      <4> HIDE DEF j
      <4>1. j \in a..Len(seq)
        BY <3>1 DEF j
      <4>2. seq \in [1..Len(seq) -> Nat]
        OBVIOUS
      <4>3. f[a] <= f[j]
        BY <1>1, <4>1, <4>2, PrefixSumMonotonic
      <4> QED  BY <4>3 DEF j
    <3>3. f[a] \in Nat /\ f[a + i] \in Nat
      <4>1. a + i \in 0..Len(seq)
        BY <1>1, <3>1
      <4> QED  BY <2>0, <4>1
    <3> QED  BY <3>2, <3>3
  <2>3. g[0] = 0
    <3>1. 0 \in 0..m /\ a + 0 = a /\ f[a] \in Nat
      BY <1>1, <2>0
    <3> QED  BY <3>1
  <2>4. \A i \in 1..m : g[i] = g[i - 1] + w[i]
    <3> TAKE i \in 1..m
    <3>1. a + i \in 1..Len(seq) /\ i \in 0..m /\ i - 1 \in 0..m
          /\ a + (i - 1) = (a + i) - 1 /\ (a + i) - 1 \in 0..Len(seq)
      BY <1>1
    <3>2. f[a + i] = f[(a + i) - 1] + seq[a + i]
      BY <2>1, <3>1
    <3>3. f[a + i] \in Nat /\ f[(a + i) - 1] \in Nat /\ f[a] \in Nat /\ seq[a + i] \in Nat
      <4>1. a + i \in 0..Len(seq)
        BY <1>1, <3>1
      <4>2. seq[a + i] \in Nat
        BY <3>1
      <4> QED  BY <2>0, <3>1, <4>1, <4>2
    <3>4. w[i] = seq[a + i]
      BY <1>2
    <3>5. g[i] = f[a + i] - f[a] /\ g[i - 1] = f[(a + i) - 1] - f[a]
      BY <3>1
    <3> HIDE DEF g
    <3> QED  BY <3>2, <3>3, <3>4, <3>5, SMTT(30)
  <2>5. g \in [0..m -> Nat]
    BY <2>2
  <2> HIDE DEF g
  <2> QED  BY <2>3, <2>4, <2>5 DEF IsPrefixSum
<1>5. m \in 0..m
  BY <1>1
<1> HIDE DEF g, m
<1>6. Total(w) = g[m]
  <2>1. m \in Nat /\ w \in [1..m -> Nat]
    BY <1>1, <1>3
  <2> QED  BY ONLY <2>1, <1>4, TotalWhole
<1>7. g[m] = f[b] - f[a]
  BY <1>1 DEF g, m
<1>. QED  BY <1>6, <1>7 DEF w

-----------------------------------------------------------------------------
(* StreamData: what it buffers, and what its chunks read back as            *)

NoNulls(rows) == \A i \in DOMAIN rows : rows[i] # Null
AllNulls(rows) == \A i \in DOMAIN rows : rows[i] = Null

Data(nonNulls, h, n, values) ==
    [nonNulls |-> nonNulls, hasNulls |-> h, bufferedCount |-> n,
     values |-> values]

(* The StreamData that buffers rows; h is its hasNulls.                    *)
DataOf(isNullStream, h, rows) ==
    Data(IF h THEN Present(rows, Null) ELSE <<>>, h, Len(rows),
         IF isNullStream THEN <<>> ELSE NonNulls(rows))

(* What a stream says of its rows: which are there, or the rows.           *)
StreamTells(isNullStream, rows) ==
    IF isNullStream THEN Present(rows, Null) ELSE rows

-----------------------------------------------------------------------------
(* Rows without nulls, rows that are all null                              *)

(* The bitmap of rows without nulls is all true.                           *)
LEMMA AllTruePresent ==
    ASSUME NEW S, NEW rows \in Seq(S), NoNulls(rows)
    PROVE  AllTrue(Len(rows)) = Present(rows, Null)
<1>1. Len(rows) \in Nat /\ DOMAIN rows = 1..Len(rows)
  OBVIOUS
<1>2. \A i \in 1..Len(rows) : (rows[i] # Null) = TRUE
  BY <1>1 DEF NoNulls
<1>. QED  BY <1>1, <1>2 DEF AllTrue, Present

(* Rows without nulls are kept as they are.                                *)
LEMMA NonNullsNone ==
    ASSUME NEW S, NEW rows \in Seq(S), NoNulls(rows)
    PROVE  NonNulls(rows) = rows
<1> DEFINE T == {q \in Seq(S) : NoNulls(q) => Without(q, Null) = q}
<1>1. <<>> \in T
  BY WithoutEmpty
<1>2. ASSUME NEW q \in Seq(S), NEW x \in S, q \in T PROVE Append(q, x) \in T
  <2> SUFFICES ASSUME NoNulls(Append(q, x))
               PROVE  Without(Append(q, x), Null) = Append(q, x)
    OBVIOUS
  <2>1. /\ DOMAIN Append(q, x) = 1..(Len(q) + 1) /\ Append(q, x)[Len(q) + 1] = x
        /\ DOMAIN q = 1..Len(q) /\ Len(q) \in Nat
        /\ \A i \in 1..Len(q) : Append(q, x)[i] = q[i]
    OBVIOUS
  <2>2. x # Null /\ NoNulls(q)
    BY <2>1 DEF NoNulls
  <2>3. Without(q, Null) = q
    BY <1>2, <2>2
  <2> QED  BY <2>2, <2>3, WithoutAppend
<1>3. Seq(S) \subseteq T
  <2> HIDE DEF T
  <2> QED  BY <1>1, <1>2, SeqClimb
<1>. QED  BY <1>3 DEF NonNulls

(* Where nothing is kept, all rows are null.                               *)
LEMMA NonNullsAll ==
    ASSUME NEW S, NEW rows \in Seq(S), Len(NonNulls(rows)) = 0
    PROVE  AllNulls(rows)
<1>1. \A i \in 1..Len(rows) : rows[i] # Null =>
        Rank(Present(rows, Null), i) \in 1..Len(NonNulls(rows))
  BY WithoutRank DEF NonNulls
<1>2. 1..Len(NonNulls(rows)) = {} /\ DOMAIN rows = 1..Len(rows)
  OBVIOUS
<1>. QED  BY <1>1, <1>2 DEF AllNulls

-----------------------------------------------------------------------------
(* Field writers                                                           *)

(* ensureNullsCapacity, with the fields spelled out.                       *)
LEMMA CapacityFields ==
    ASSUME NEW nn, NEW h \in BOOLEAN, NEW n, NEW v, NEW may \in BOOLEAN, NEW size
    PROVE  EnsureNullsCapacity(Data(nn, h, n, v), may, size) =
             Data(IF may /\ ~h THEN AllTrue(n)
                  ELSE IF h /\ ~may THEN UpdateSize(nn, n) \o AllTrue(size)
                  ELSE nn,
                  h \/ may, n + size, v)
BY DEF EnsureNullsCapacity, Data

(* RowFieldWriter::write's nulls and what a SimpleFieldWriter adds.        *)
LEMMA WriteFields ==
    ASSUME NEW nn, NEW h, NEW n, NEW v, NEW x
    PROVE  /\ [Data(nn, h, n, v) EXCEPT !.nonNulls = x] = Data(x, h, n, v)
           /\ [Data(nn, h, n, v) EXCEPT !.values = x] = Data(nn, h, n, x)
<1>1. [Data(nn, h, n, v) EXCEPT !.nonNulls = x] = Data(x, h, n, v)
  BY DEF Data
<1>2. [Data(nn, h, n, v) EXCEPT !.values = x] = Data(nn, h, n, x)
  BY DEF Data
<1>. QED  BY <1>1, <1>2

(* The bitmap covers all buffered rows, or none of them.                   *)
LEMMA BitmapGrows ==
    ASSUME NEW S, NEW B \in Seq(S), NEW rows \in Seq(S), NEW h \in BOOLEAN,
           NEW may \in BOOLEAN, h \/ NoNulls(B), may \/ NoNulls(rows), NEW v
    PROVE  WriteField(Data(IF h THEN Present(B, Null) ELSE <<>>, h, Len(B), v), rows, may) =
             Data(IF h \/ may THEN Present(B \o rows, Null) ELSE <<>>, h \/ may,
                  Len(B \o rows), v)
<1> DEFINE nn == IF h THEN Present(B, Null) ELSE <<>>
           pB == Present(B, Null)
           pR == Present(rows, Null)
           base == IF may /\ ~h THEN AllTrue(Len(B))
                   ELSE IF h /\ ~may THEN UpdateSize(nn, Len(B)) \o AllTrue(Len(rows))
                   ELSE nn
           d0 == Data(nn, h, Len(B), v)
           e == EnsureNullsCapacity(d0, may, Len(rows))
           m == Len(B) + Len(rows)
           hm == h \/ may
<1>1. e = Data(base, hm, m, v)
  <2> HIDE DEF nn
  <2> QED  BY CapacityFields
<1>2. [i \in DOMAIN rows |-> NotNull(rows[i])] = pR
  BY DEF Present, NotNull
<1>3. Len(B) \in Nat /\ Len(rows) \in Nat /\ Len(B \o rows) = m
  OBVIOUS
<1>4. Present(B \o rows, Null) = pB \o pR
  BY PresentConcat
<1>5. pB \in Seq(BOOLEAN) /\ Len(pB) = Len(B)
  BY PresentType
<1>6. UpdateSize(pB, Len(B)) = pB
  <2> HIDE DEF pB
  <2> QED  BY <1>3, <1>5 DEF UpdateSize
<1>7. (h \/ AllTrue(Len(B)) = pB) /\ (may \/ AllTrue(Len(rows)) = pR)
  BY AllTruePresent
<1> DEFINE grown == IF may THEN base \o pR ELSE base
<1>8. grown = IF hm THEN Present(B \o rows, Null) ELSE <<>>
  <2> HIDE DEF pB, pR
  <2>1. CASE h /\ may
    BY <1>4, <2>1 DEF pB
  <2>2. CASE h /\ ~may
    <3>1. nn = pB
      BY <2>2 DEF pB
    <3> HIDE DEF nn
    <3>2. base = pB \o pR
      BY <1>6, <1>7, <2>2, <3>1
    <3> HIDE DEF base
    <3> QED  BY <1>4, <2>2, <3>2
  <2>3. CASE ~h /\ may
    BY <1>4, <1>7, <2>3
  <2>4. CASE ~h /\ ~may
    BY <2>4
  <2> QED  BY <2>1, <2>2, <2>3, <2>4
<1>9. WriteField(d0, rows, may) = Data(grown, hm, m, v)
  <2> HIDE DEF base, hm, m, d0, pR
  <2>1. e.nonNulls = base
    BY <1>1 DEF Data
  <2>2. WriteField(d0, rows, may) = [e EXCEPT !.nonNulls = grown]
    <3>1. WriteField(d0, rows, may) =
            [e EXCEPT !.nonNulls = IF may THEN e.nonNulls \o pR ELSE e.nonNulls]
      BY <1>2, Zenon DEF WriteField
    <3> HIDE DEF e
    <3> QED  BY <2>1, <3>1
  <2> HIDE DEF e, grown
  <2> QED  BY <1>1, <2>2, WriteFields
<1> HIDE DEF grown, m
<1>. QED  BY <1>3, <1>8, <1>9 DEF d0, nn

(* Without nulls in two parts there are none in the whole.                 *)
LEMMA NoNullsConcat ==
    ASSUME NEW S, NEW a \in Seq(S), NEW b \in Seq(S), NoNulls(a), NoNulls(b)
    PROVE  NoNulls(a \o b)
<1> SUFFICES ASSUME NEW i \in DOMAIN (a \o b) PROVE (a \o b)[i] # Null
  BY DEF NoNulls
<1>1. /\ Len(a) \in Nat /\ Len(b) \in Nat /\ DOMAIN (a \o b) = 1..(Len(a) + Len(b))
      /\ DOMAIN a = 1..Len(a) /\ DOMAIN b = 1..Len(b)
  OBVIOUS
<1>2. CASE i \in 1..Len(a)
  <2>1. (a \o b)[i] = a[i]
    BY <1>2
  <2> QED  BY <1>1, <1>2, <2>1 DEF NoNulls
<1>3. CASE i \notin 1..Len(a)
  <2>1. i - Len(a) \in DOMAIN b
    BY <1>1, <1>3
  <2>2. (a \o b)[i] = b[i - Len(a)]
    BY <1>1, <1>3
  <2> QED  BY <2>1, <2>2 DEF NoNulls
<1>. QED  BY <1>2, <1>3

(* What a stream of nulls buffers after a batch is the batch after what it *)
(* had.                                                                    *)
LEMMA NullsFieldHolds ==
    ASSUME NEW S, NEW B \in Seq(S), NEW rows \in Seq(S), NEW h \in BOOLEAN,
           NEW may \in BOOLEAN, h \/ NoNulls(B), may \/ NoNulls(rows)
    PROVE  \E hm \in BOOLEAN :
             /\ WriteField(DataOf(TRUE, h, B), rows, may) = DataOf(TRUE, hm, B \o rows)
             /\ hm \/ NoNulls(B \o rows)
<1> DEFINE hm == h \/ may
<1>1. WriteField(DataOf(TRUE, h, B), rows, may) = DataOf(TRUE, hm, B \o rows)
  BY BitmapGrows DEF DataOf
<1>2. hm \in BOOLEAN /\ (hm \/ NoNulls(B \o rows))
  BY NoNullsConcat
<1> HIDE DEF hm
<1>. QED  BY <1>1, <1>2

(* So it is for a column (SimpleFieldWriter::write).                       *)
LEMMA ColumnFieldHolds ==
    ASSUME NEW S, NEW B \in Seq(S), NEW rows \in Seq(S), NEW h \in BOOLEAN,
           NEW may \in BOOLEAN, h \/ NoNulls(B), may \/ NoNulls(rows)
    PROVE  \E hm \in BOOLEAN :
             /\ WriteColumn(DataOf(FALSE, h, B), rows, may) = DataOf(FALSE, hm, B \o rows)
             /\ hm \/ NoNulls(B \o rows)
<1> DEFINE nn == IF h THEN Present(B, Null) ELSE <<>>
           hm == h \/ may
           mm == IF hm THEN Present(B \o rows, Null) ELSE <<>>
           v == NonNulls(B)
           w == NonNulls(rows)
           n == Len(B)
           m == Len(B \o rows)
           e == WriteField(Data(nn, h, n, v), rows, may)
           x == v \o w
<1>1. e = Data(mm, hm, m, v)
  BY BitmapGrows
<1>2. NonNulls(B \o rows) = x
  BY WithoutConcat DEF NonNulls
<1>3. WriteColumn(Data(nn, h, n, v), rows, may) = Data(mm, hm, m, x)
  <2>1. WriteColumn(Data(nn, h, n, v), rows, may) = [e EXCEPT !.values = e.values \o w]
    BY Zenon DEF WriteColumn
  <2> HIDE DEF e, nn, mm, hm, m, n, v, w
  <2>2. e.values = v
    BY <1>1 DEF Data
  <2> HIDE DEF x
  <2>3. [Data(mm, hm, m, v) EXCEPT !.values = x] = Data(mm, hm, m, x)
    BY DEF Data
  <2>4. [e EXCEPT !.values = x] = Data(mm, hm, m, x)
    BY ONLY <1>1, <2>3, Zenon
  <2> QED  BY <2>1, <2>2, <2>4 DEF x
<1>4. WriteColumn(DataOf(FALSE, h, B), rows, may) = DataOf(FALSE, hm, B \o rows)
  <2> HIDE DEF nn, mm, hm, m, n, v, w, x
  <2> QED  BY <1>2, <1>3 DEF DataOf, nn, mm, m, n, v
<1>5. hm \in BOOLEAN /\ (hm \/ NoNulls(B \o rows))
  BY NoNullsConcat
<1> HIDE DEF hm
<1>. QED  BY <1>4, <1>5

-----------------------------------------------------------------------------
(* Chunks                                                                  *)

Cell(isNullStream, S) == IF isNullStream THEN BOOLEAN ELSE S

(* Chunks a decoder understands: a bitmap has a value for every flag.      *)
ChunkSet(isNullStream, S) ==
    {ch \in [nullable : BOOLEAN, nonNulls : Seq(BOOLEAN),
             values : Seq(Cell(isNullStream, S))] :
       /\ ChunkRows(ch) \in Seq(Cell(isNullStream, S))
       /\ ch.nullable =>
            Cardinality({j \in DOMAIN ch.nonNulls : ch.nonNulls[j] = TRUE}) =
              Len(ch.values)}

(* The chunk of a stream of nulls holds its bitmap.                        *)
LEMMA NullsChunk ==
    ASSUME NEW S, NEW B \in Seq(S), NEW h \in BOOLEAN, h \/ NoNulls(B)
    PROVE  /\ Materialize(DataOf(TRUE, h, B)) = Present(B, Null)
           /\ ChunkRows(Chunk(TRUE, DataOf(TRUE, h, B))) = Present(B, Null)
           /\ Chunk(TRUE, DataOf(TRUE, h, B)) \in ChunkSet(TRUE, S)
<1> DEFINE d == DataOf(TRUE, h, B)
           p == Present(B, Null)
           ch == Chunk(TRUE, d)
<1>1. Len(B) \in Nat /\ p \in Seq(BOOLEAN) /\ Len(p) = Len(B)
  BY PresentType
<1>2. d.nonNulls = (IF h THEN p ELSE <<>>) /\ d.bufferedCount = Len(B)
  BY DEF DataOf, Data
<1> HIDE DEF d
<1>3. Materialize(d) = p
  <2>1. CASE h
    <3> HIDE DEF p
    <3>1. ~(Len(d.nonNulls) < d.bufferedCount)
      BY <1>1, <1>2, <2>1
    <3> QED  BY <1>2, <2>1, <3>1 DEF Materialize
  <2>2. CASE ~h
    <3>1. AllTrue(Len(B)) = p
      BY <2>2, AllTruePresent
    <3>2. d.nonNulls = <<>> /\ Len(<<>>) = 0
      BY <1>2, <2>2
    <3> HIDE DEF p
    <3>3. CASE Len(B) = 0
      <4>1. p = <<>>
        BY <1>1, <3>3
      <4> QED  BY <1>2, <3>2, <3>3, <4>1 DEF Materialize
    <3>4. CASE Len(B) > 0
      <4>1. Materialize(d) = <<>> \o AllTrue(Len(B) - 0)
        BY <1>2, <3>2, <3>4 DEF Materialize
      <4>2. <<>> \o p = p /\ Len(B) - 0 = Len(B)
        BY <1>1
      <4> QED  BY <3>1, <4>1, <4>2
    <3> QED  BY <1>1, <3>3, <3>4
  <2> QED  BY <2>1, <2>2
<1>4. ch = [nullable |-> FALSE, nonNulls |-> <<>>, values |-> p]
  <2> HIDE DEF p
  <2> QED  BY <1>3 DEF Chunk
<1> HIDE DEF ch, p
<1>5. ChunkRows(ch) = p
  BY <1>4 DEF ChunkRows
<1>6. ch \in ChunkSet(TRUE, S)
  <2>1. ch \in [nullable : BOOLEAN, nonNulls : Seq(BOOLEAN), values : Seq(BOOLEAN)]
    BY <1>1, <1>4
  <2>2. ch.nullable = FALSE
    BY <1>4
  <2> QED  BY <1>1, <1>5, <2>1, <2>2 DEF ChunkSet, Cell
<1>. QED  BY <1>3, <1>5, <1>6 DEF ch, p, d

(* The flags of a bitmap that are set, as its reader counts them.          *)
LEMMA RankIsCount ==
    ASSUME NEW f \in Seq(BOOLEAN)
    PROVE  Cardinality({j \in DOMAIN f : f[j] = TRUE}) = Rank(f, Len(f))
<1>1. {j \in DOMAIN f : f[j] = TRUE} = {j \in 1..Len(f) : f[j]}
  OBVIOUS
<1>. QED  BY <1>1 DEF Rank

(* The chunk of a column reads back as the rows it was made of.            *)
LEMMA ColumnChunk ==
    ASSUME NEW S, NEW B \in Seq(S), NEW h \in BOOLEAN, h \/ NoNulls(B)
    PROVE  /\ ChunkRows(Chunk(FALSE, DataOf(FALSE, h, B))) = B
           /\ Chunk(FALSE, DataOf(FALSE, h, B)) \in ChunkSet(FALSE, S)
<1> DEFINE d == DataOf(FALSE, h, B)
           p == Present(B, Null)
           w == NonNulls(B)
           ch == Chunk(FALSE, d)
<1>1. /\ Len(B) \in Nat /\ p \in Seq(BOOLEAN) /\ Len(p) = Len(B)
      /\ \A i \in 1..Len(B) : p[i] = (B[i] # Null)
  BY PresentType
<1>2. /\ w \in Seq(S) /\ Len(w) = Rank(p, Len(B))
      /\ \A i \in 1..Len(B) : B[i] # Null => w[Rank(p, i)] = B[i]
  BY WithoutType, WithoutRank DEF NonNulls
<1>3. h \/ w = B
  BY NonNullsNone
<1>4. d.nonNulls = (IF h THEN p ELSE <<>>) /\ d.hasNulls = h /\ d.values = w
  BY DEF DataOf, Data
<1>5. ch = [nullable |-> h, nonNulls |-> IF h THEN p ELSE <<>>, values |-> w]
  BY <1>4 DEF Chunk
<1> HIDE DEF d, p, w, ch
<1>6. (IF h THEN p ELSE <<>>) \in Seq(BOOLEAN)
  <2>1. p \in Seq(BOOLEAN) /\ <<>> \in Seq(BOOLEAN)
    BY <1>1
  <2> QED  BY ONLY <2>1, Zenon
<1>7. ChunkRows(ch) = B
  <2>1. CASE h
    <3>1. ch.nullable = TRUE /\ ch.nonNulls = p /\ ch.values = w
      BY <1>5, <2>1
    <3>2. ChunkRows(ch) = [i \in DOMAIN p |-> IF p[i] THEN w[Rank(p, i)] ELSE Null]
      BY <3>1 DEF ChunkRows
    <3>3. DOMAIN p = 1..Len(B)
      BY <1>1
    <3>4. ASSUME NEW i \in 1..Len(B)
          PROVE  B[i] = IF p[i] THEN w[Rank(p, i)] ELSE Null
      BY <1>1, <1>2
    <3>5. B = [i \in 1..Len(B) |-> B[i]]
      OBVIOUS
    <3> QED  BY <3>2, <3>3, <3>4, <3>5
  <2>2. CASE ~h
    BY <1>3, <1>5, <2>2 DEF ChunkRows
  <2> QED  BY <2>1, <2>2
<1>8. ch \in [nullable : BOOLEAN, nonNulls : Seq(BOOLEAN), values : Seq(S)]
  <2> DEFINE nn == IF h THEN p ELSE <<>>
  <2> HIDE DEF nn
  <2>1. nn \in Seq(BOOLEAN) /\ ch = [nullable |-> h, nonNulls |-> nn, values |-> w]
    BY <1>5, <1>6 DEF nn
  <2> QED  BY <1>2, <2>1
<1>9. ch.nullable =>
        Cardinality({j \in DOMAIN ch.nonNulls : ch.nonNulls[j] = TRUE}) = Len(ch.values)
  <2> SUFFICES ASSUME h
               PROVE  Cardinality({j \in DOMAIN ch.nonNulls : ch.nonNulls[j] = TRUE}) =
                        Len(ch.values)
    BY <1>5
  <2>1. ch.nonNulls = p /\ ch.values = w
    BY <1>5
  <2>2. Cardinality({j \in DOMAIN p : p[j] = TRUE}) = Len(w)
    BY <1>1, <1>2, RankIsCount
  <2> QED  BY <2>1, <2>2
<1>10. ch \in ChunkSet(FALSE, S)
  BY <1>7, <1>8, <1>9 DEF ChunkSet, Cell
<1>. QED  BY <1>7, <1>10 DEF ch, d

(* Either way a chunk says what its stream says of the rows.               *)
LEMMA ChunkTells ==
    ASSUME NEW S, NEW B \in Seq(S), NEW h \in BOOLEAN, h \/ NoNulls(B),
           NEW isNullStream \in BOOLEAN
    PROVE  LET ch == Chunk(isNullStream, DataOf(isNullStream, h, B))
           IN  ch \in ChunkSet(isNullStream, S) /\ ChunkRows(ch) = StreamTells(isNullStream, B)
<1>1. CASE isNullStream = TRUE
  BY <1>1, NullsChunk DEF StreamTells
<1>2. CASE isNullStream = FALSE
  BY <1>2, ColumnChunk DEF StreamTells
<1>. QED  BY <1>1, <1>2

(* Saying something of two parts is saying it of the whole.                *)
LEMMA ToldConcat ==
    ASSUME NEW S, NEW a \in Seq(S), NEW b \in Seq(S), NEW isNullStream \in BOOLEAN
    PROVE  /\ StreamTells(isNullStream, a \o b) =
                StreamTells(isNullStream, a) \o StreamTells(isNullStream, b)
           /\ StreamTells(isNullStream, a) \in Seq(Cell(isNullStream, S))
           /\ Len(StreamTells(isNullStream, a)) = Len(a)
<1>1. CASE isNullStream = TRUE
  <2>1. Present(a, Null) \in Seq(BOOLEAN) /\ Len(Present(a, Null)) = Len(a)
    BY PresentType
  <2>2. Present(a \o b, Null) = Present(a, Null) \o Present(b, Null)
    BY PresentConcat
  <2> QED  BY <1>1, <2>1, <2>2 DEF StreamTells, Cell
<1>2. CASE isNullStream = FALSE
  BY <1>2 DEF StreamTells, Cell
<1>. QED  BY <1>1, <1>2

-----------------------------------------------------------------------------
(* Streams of chunks                                                       *)

(* Without chunks there are no rows.                                       *)
LEMMA StreamRowsEmpty ==
    StreamRows(<<>>) = <<>>
<1>1. [i \in DOMAIN <<>> |-> ChunkRows(<<>>[i])] = <<>>
  OBVIOUS
<1>. QED  BY <1>1, FlattenEmpty DEF StreamRows

(* One more chunk adds its rows.                                           *)
LEMMA StreamRowsAppend ==
    ASSUME NEW S, NEW isNullStream, NEW content \in Seq(ChunkSet(isNullStream, S)),
           NEW ch \in ChunkSet(isNullStream, S)
    PROVE  StreamRows(Append(content, ch)) = StreamRows(content) \o ChunkRows(ch)
<1> DEFINE X == ChunkSet(isNullStream, S)
           Y == Seq(Cell(isNullStream, S))
           g == [c \in X |-> ChunkRows(c)]
           more == Append(content, ch)
<1>1. g \in [X -> Y]
  BY DEF ChunkSet
<1> HIDE DEF X, Y
<1>2. content \in Seq(X) /\ ch \in X /\ more \in Seq(X)
  <2>1. content \in Seq(X) /\ ch \in X
    BY DEF X
  <2> QED  BY <2>1
<1>3. /\ [i \in DOMAIN content |-> ChunkRows(content[i])] = [i \in DOMAIN content |-> g[content[i]]]
      /\ [i \in DOMAIN more |-> ChunkRows(more[i])] = [i \in DOMAIN more |-> g[more[i]]]
  <2>1. \A i \in DOMAIN content : content[i] \in X
    BY <1>2
  <2>2. \A i \in DOMAIN more : more[i] \in X
    <3> HIDE DEF more
    <3> QED  BY <1>2
  <2> HIDE DEF more
  <2> QED  BY <2>1, <2>2
<1> DEFINE q == [i \in DOMAIN content |-> g[content[i]]]
<1>4. q \in Seq(Y) /\ [i \in DOMAIN more |-> g[more[i]]] = Append(q, g[ch]) /\ g[ch] \in Y
  <2>1. g[ch] \in Y
    BY <1>1, <1>2
  <2> HIDE DEF g
  <2> QED  BY <1>1, <1>2, <2>1, MapAppend
<1>5. g[ch] = ChunkRows(ch)
  BY <1>2
<1> HIDE DEF q, g, more
<1>6. FlattenSeq(Append(q, g[ch])) = FlattenSeq(q) \o g[ch]
  BY <1>4, FlattenAppend DEF Y
<1>. QED  BY <1>3, <1>4, <1>5, <1>6 DEF StreamRows, q, more

-----------------------------------------------------------------------------
(* What a stream has taken of the open stripe                              *)

(* Its chunks read back as P and B is buffered.                            *)
HeldAt(isNullStream, S, d, content, P, B) ==
    /\ \E h \in BOOLEAN : d = DataOf(isNullStream, h, B) /\ (h \/ NoNulls(B))
    /\ content \in Seq(ChunkSet(isNullStream, S))
    /\ StreamRows(content) = StreamTells(isNullStream, P)

StreamHolds(isNullStream, S, d, content, rows) ==
    \E n \in 0..Len(rows) :
      HeldAt(isNullStream, S, d, content, SubSeq(rows, 1, n),
             SubSeq(rows, n + 1, Len(rows)))

(* Any two parts show that a stream has taken the whole.                   *)
LEMMA HeldParts ==
    ASSUME NEW S, NEW isNullStream, NEW d, NEW content,
           NEW P \in Seq(S), NEW B \in Seq(S),
           HeldAt(isNullStream, S, d, content, P, B)
    PROVE  StreamHolds(isNullStream, S, d, content, P \o B)
<1>1. SubSeq(P \o B, 1, Len(P)) = P /\ SubSeq(P \o B, Len(P) + 1, Len(P \o B)) = B
  BY ConcatSplit
<1>2. Len(P) \in 0..Len(P \o B)
  OBVIOUS
<1>. QED  BY <1>1, <1>2 DEF StreamHolds

(* And there are two such parts.                                           *)
LEMMA PartsHeld ==
    ASSUME NEW S, NEW isNullStream, NEW d, NEW content, NEW rows \in Seq(S),
           StreamHolds(isNullStream, S, d, content, rows)
    PROVE  \E P, B \in Seq(S) :
             rows = P \o B /\ HeldAt(isNullStream, S, d, content, P, B)
<1>1. PICK n \in 0..Len(rows) :
        HeldAt(isNullStream, S, d, content, SubSeq(rows, 1, n),
               SubSeq(rows, n + 1, Len(rows)))
  BY DEF StreamHolds
<1>. QED  BY <1>1, SplitConcat

(* At the start of a stripe.                                               *)
LEMMA HeldEmpty ==
    ASSUME NEW S, NEW isNullStream \in BOOLEAN
    PROVE  /\ EmptyData = DataOf(isNullStream, FALSE, <<>>)
           /\ StreamHolds(isNullStream, S, EmptyData, <<>>, <<>>)
<1>1. EmptyData = DataOf(isNullStream, FALSE, <<>>)
  <2>1. NonNulls(<<>>) = <<>> /\ Len(<<>>) = 0
    BY WithoutEmpty DEF NonNulls
  <2> QED  BY <2>1 DEF EmptyData, DataOf, Data
<1>2. NoNulls(<<>>)
  BY DEF NoNulls
<1>3. StreamTells(isNullStream, <<>>) = <<>>
  <2>1. Present(<<>>, Null) = <<>>
    BY DEF Present
  <2> QED  BY <2>1 DEF StreamTells
<1>4. <<>> \in Seq(ChunkSet(isNullStream, S)) /\ <<>> \in Seq(S) /\ <<>> \o <<>> = <<>>
  OBVIOUS
<1>5. HeldAt(isNullStream, S, EmptyData, <<>>, <<>>, <<>>)
  BY <1>1, <1>2, <1>3, <1>4, StreamRowsEmpty DEF HeldAt
<1>6. StreamHolds(isNullStream, S, EmptyData, <<>>, <<>> \o <<>>)
  BY <1>4, <1>5, HeldParts
<1>. QED  BY <1>1, <1>4, <1>6

(* A batch reaches a stream.                                               *)
LEMMA HeldWrite ==
    ASSUME NEW S, NEW isNullStream \in BOOLEAN, NEW d, NEW content,
           NEW taken \in Seq(S), NEW rows \in Seq(S),
           StreamHolds(isNullStream, S, d, content, taken),
           NEW may \in BOOLEAN, may \/ NoNulls(rows)
    PROVE  StreamHolds(isNullStream, S,
                IF isNullStream THEN WriteField(d, rows, may) ELSE WriteColumn(d, rows, may),
                content, taken \o rows)
<1>1. PICK P, B \in Seq(S) :
        taken = P \o B /\ HeldAt(isNullStream, S, d, content, P, B)
  BY PartsHeld
<1>2. PICK h \in BOOLEAN : d = DataOf(isNullStream, h, B) /\ (h \/ NoNulls(B))
  BY <1>1 DEF HeldAt
<1> DEFINE e == IF isNullStream THEN WriteField(d, rows, may) ELSE WriteColumn(d, rows, may)
           more == B \o rows
<1>3. more \in Seq(S) /\ taken \o rows = P \o more
  BY <1>1
<1>4. h \/ NoNulls(B)
  BY <1>2
<1>5. \E k \in BOOLEAN : e = DataOf(isNullStream, k, more) /\ (k \/ NoNulls(more))
  <2>1. CASE isNullStream = TRUE
    <3>1. PICK k \in BOOLEAN :
            /\ WriteField(DataOf(TRUE, h, B), rows, may) = DataOf(TRUE, k, more)
            /\ k \/ NoNulls(more)
      BY <1>4, NullsFieldHolds, ZenonT(30)
    <3> QED  BY <1>2, <2>1, <3>1
  <2>2. CASE isNullStream = FALSE
    <3>1. PICK k \in BOOLEAN :
            /\ WriteColumn(DataOf(FALSE, h, B), rows, may) = DataOf(FALSE, k, more)
            /\ k \/ NoNulls(more)
      BY <1>4, ColumnFieldHolds, ZenonT(30)
    <3> QED  BY <1>2, <2>2, <3>1
  <2> QED  BY <2>1, <2>2
<1> HIDE DEF e, more
<1>7. HeldAt(isNullStream, S, e, content, P, more)
  BY <1>1, <1>5 DEF HeldAt
<1>8. StreamHolds(isNullStream, S, e, content, P \o more)
  BY <1>3, <1>7, HeldParts
<1>. QED  BY <1>3, <1>8 DEF e

(* What a stream buffers becomes a chunk.                                  *)
LEMMA EncodeType ==
    ASSUME NEW S, NEW isNullStream \in BOOLEAN, NEW d, NEW content,
           NEW taken \in Seq(S), StreamHolds(isNullStream, S, d, content, taken)
    PROVE  Append(content, Chunk(isNullStream, d)) \in Seq(ChunkSet(isNullStream, S))
<1>1. PICK P, B \in Seq(S) :
        taken = P \o B /\ HeldAt(isNullStream, S, d, content, P, B)
  BY PartsHeld
<1>2. PICK h \in BOOLEAN : d = DataOf(isNullStream, h, B) /\ (h \/ NoNulls(B))
  BY <1>1 DEF HeldAt
<1> DEFINE ch == Chunk(isNullStream, d)
           X == ChunkSet(isNullStream, S)
<1>3. ch \in X
  BY <1>2, ChunkTells
<1>4. content \in Seq(X)
  BY <1>1 DEF HeldAt
<1> HIDE DEF X, ch
<1>5. Append(content, ch) \in Seq(X)
  BY <1>3, <1>4
<1>. QED  BY <1>5 DEF ch, X

(* Then its chunks tell all the stream has taken.                          *)
LEMMA EncodeTells ==
    ASSUME NEW S, NEW isNullStream \in BOOLEAN, NEW d, NEW content,
           NEW taken \in Seq(S), StreamHolds(isNullStream, S, d, content, taken)
    PROVE  StreamRows(Append(content, Chunk(isNullStream, d))) = StreamTells(isNullStream, taken)
<1>1. PICK P, B \in Seq(S) :
        taken = P \o B /\ HeldAt(isNullStream, S, d, content, P, B)
  BY PartsHeld
<1>2. PICK h \in BOOLEAN : d = DataOf(isNullStream, h, B) /\ (h \/ NoNulls(B))
  BY <1>1 DEF HeldAt
<1> DEFINE ch == Chunk(isNullStream, d)
           X == ChunkSet(isNullStream, S)
           more == Append(content, ch)
<1>3. ch \in X /\ ChunkRows(ch) = StreamTells(isNullStream, B)
  BY <1>2, ChunkTells
<1>4. content \in Seq(X) /\ StreamRows(content) = StreamTells(isNullStream, P)
  BY <1>1 DEF HeldAt
<1>5. StreamRows(more) = StreamRows(content) \o ChunkRows(ch)
  BY <1>3, <1>4, StreamRowsAppend
<1>6. StreamTells(isNullStream, P \o B) =
        StreamTells(isNullStream, P) \o StreamTells(isNullStream, B)
  BY ToldConcat, ZenonT(30)
<1>. QED  BY <1>1, <1>3, <1>4, <1>5, <1>6

(* And nothing is buffered.                                                *)
LEMMA HeldEncode ==
    ASSUME NEW S, NEW isNullStream \in BOOLEAN, NEW d, NEW content,
           NEW taken \in Seq(S), StreamHolds(isNullStream, S, d, content, taken)
    PROVE  StreamHolds(isNullStream, S, EmptyData,
                       Append(content, Chunk(isNullStream, d)), taken)
<1> DEFINE more == Append(content, Chunk(isNullStream, d))
<1>1. more \in Seq(ChunkSet(isNullStream, S))
  BY EncodeType
<1>2. StreamRows(more) = StreamTells(isNullStream, taken)
  BY EncodeTells
<1> HIDE DEF more
<1>3. EmptyData = DataOf(isNullStream, FALSE, <<>>)
  BY HeldEmpty, Zenon
<1>4. NoNulls(<<>>)
  BY DEF NoNulls
<1>5. <<>> \in Seq(S) /\ taken \o <<>> = taken
  OBVIOUS
<1>6. HeldAt(isNullStream, S, EmptyData, more, taken, <<>>)
  BY <1>1, <1>2, <1>3, <1>4 DEF HeldAt
<1>7. StreamHolds(isNullStream, S, EmptyData, more, taken \o <<>>)
  BY <1>5, <1>6, HeldParts
<1>. QED  BY <1>5, <1>7 DEF more

(* The chunks of a stream when its stripe ends: without any, its rows are  *)
(* what a reader takes them for.                                           *)
Ended(isNullStream, S, content, rows) ==
    /\ content \in Seq(ChunkSet(isNullStream, S))
    /\ content # <<>> => StreamRows(content) = StreamTells(isNullStream, rows)
    /\ content = <<>> => IF isNullStream THEN NoNulls(rows) ELSE AllNulls(rows)

(* The last chunk of a stripe: what is not due then is not needed.         *)
LEMMA HeldEnds ==
    ASSUME NEW S, NEW isNullStream \in BOOLEAN, NEW d, NEW content,
           NEW taken \in Seq(S), StreamHolds(isNullStream, S, d, content, taken),
           NEW size \in Nat \ {0}
    PROVE  Ended(isNullStream, S,
                 IF IsDue(isNullStream, size, d, content, TRUE)
                 THEN Append(content, Chunk(isNullStream, d)) ELSE content, taken)
<1>1. CASE IsDue(isNullStream, size, d, content, TRUE)
  <2> DEFINE more == Append(content, Chunk(isNullStream, d))
  <2>1. /\ more \in Seq(ChunkSet(isNullStream, S))
        /\ StreamRows(more) = StreamTells(isNullStream, taken)
    BY EncodeType, EncodeTells
  <2>2. more # <<>>
    <3> DEFINE X == ChunkSet(isNullStream, S)
               ch == Chunk(isNullStream, d)
    <3>1. content \in Seq(X)
      BY DEF StreamHolds, HeldAt
    <3> HIDE DEF X, ch
    <3> QED  BY <3>1
  <2> HIDE DEF more
  <2>3. Ended(isNullStream, S, more, taken)
    BY <2>1, <2>2 DEF Ended
  <2> QED  BY <1>1, <2>3 DEF more
<1>2. CASE ~IsDue(isNullStream, size, d, content, TRUE)
  <2>1. PICK P, B \in Seq(S) :
          taken = P \o B /\ HeldAt(isNullStream, S, d, content, P, B)
    BY PartsHeld
  <2>2. PICK h \in BOOLEAN : d = DataOf(isNullStream, h, B) /\ (h \/ NoNulls(B))
    BY <2>1 DEF HeldAt
  <2>3. /\ content \in Seq(ChunkSet(isNullStream, S))
        /\ StreamRows(content) = StreamTells(isNullStream, P)
    BY <2>1 DEF HeldAt
  <2>4. /\ d.nonNulls = (IF h THEN Present(B, Null) ELSE <<>>) /\ d.hasNulls = h
        /\ d.bufferedCount = Len(B)
        /\ d.values = (IF isNullStream THEN <<>> ELSE NonNulls(B))
    BY <2>2 DEF DataOf, Data
  <2>5. Len(B) \in Nat /\ Len(Present(B, Null)) = Len(B) /\ Len(<<>>) = 0
    BY PresentType
  <2>6. Len(NonNulls(B)) \in Nat /\ (~h => NonNulls(B) = B)
    <3>1. NonNulls(B) \in Seq(S)
      BY WithoutType DEF NonNulls
    <3> QED  BY <2>2, <3>1, NonNullsNone
  <2>7. CASE content # <<>>
    <3>1. Len(B) = 0
      <4>1. CASE isNullStream = TRUE
        BY <1>2, <2>4, <2>5, <2>7, <4>1 DEF IsDue
      <4>2. CASE isNullStream = FALSE
        <5>1. ~(Len(d.values) * size > 0) /\ ~(Len(d.nonNulls) > 0)
          BY <1>2, <2>7, <4>2 DEF IsDue
        <5>2. CASE h
          BY <2>4, <2>5, <5>1, <5>2
        <5>3. CASE ~h
          <6>1. d.values = B
            BY <2>4, <2>6, <4>2, <5>3
          <6> QED  BY <2>5, <5>1, <6>1
        <5> QED  BY <5>2, <5>3
      <4> QED  BY <4>1, <4>2
    <3>2. taken = P
      <4>1. B = <<>>
        BY <3>1
      <4> QED  BY <2>1, <4>1
    <3>3. Ended(isNullStream, S, content, taken)
      BY <2>3, <2>7, <3>2 DEF Ended
    <3> QED  BY <1>2, <3>3
  <2>8. CASE content = <<>>
    <3>1. Len(StreamTells(isNullStream, P)) = Len(P)
      BY ToldConcat
    <3>2. StreamRows(content) = <<>>
      BY <2>8, StreamRowsEmpty
    <3>3. Len(P) = 0
      BY <2>3, <3>1, <3>2
    <3>4. P = <<>>
      BY <3>3
    <3>5. taken = B
      BY <2>1, <3>4
    <3>6. CASE isNullStream = TRUE
      <4>1. NoNulls(B)
        <5>1. CASE h
          <6>1. Len(B) = 0
            BY <1>2, <2>4, <2>5, <3>6, <5>1 DEF IsDue
          <6> QED  BY <6>1 DEF NoNulls
        <5> QED  BY <2>2, <5>1
      <4> QED  BY <1>2, <2>3, <2>8, <3>5, <3>6, <4>1 DEF Ended
    <3>7. CASE isNullStream = FALSE
      <4>1. ~(Len(NonNulls(B)) * size > 0)
        BY <1>2, <2>4, <3>7 DEF IsDue
      <4>2. Len(NonNulls(B)) = 0
        <5> DEFINE n == Len(NonNulls(B))
        <5> HIDE DEF n
        <5>1. n \in Nat /\ ~(n * size > 0)
          BY <2>6, <4>1 DEF n
        <5>2. n = 0
          BY <5>1
        <5> QED  BY <5>2 DEF n
      <4>3. AllNulls(B)
        BY <4>2, NonNullsAll
      <4> QED  BY <1>2, <2>3, <2>8, <3>5, <3>7, <4>3 DEF Ended
    <3> QED  BY <3>6, <3>7
  <2> QED  BY <2>7, <2>8
<1>. QED  BY <1>1, <1>2
=============================================================================
