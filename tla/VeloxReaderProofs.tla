-------------------------- MODULE VeloxReaderProofs --------------------------
(***************************************************************************)
(* Theorems about VeloxReader, for files of any number of stripes of any   *)
(* size, any split, and any calls with any arguments, loads failing or     *)
(* not.                                                                    *)
(***************************************************************************)
EXTENDS VeloxReader, SequenceFacts

-----------------------------------------------------------------------------
(* The sums over stripes                                                   *)

(* cummulativeStripeRowCount_ counts up, as every stripe has rows.         *)
LEMMA CummulativeRowsSums ==
    ASSUME NEW file \in Seq(Stripe)
    PROVE  \E f, w :
             /\ w \in [1..Len(file) -> Nat]
             /\ IsPrefixSum(f, w, Len(file))
             /\ \A i \in 1..Len(file) : w[i] = file[i].rows
             /\ \A i : CummulativeRows(file, i) = f[i]
<1> DEFINE n == Len(file)
           w == [i \in 1..n |-> file[i].rows]
           IsSum(h) ==
             h = [i \in 0..n |-> IF i = 0 THEN 0 ELSE h[i - 1] + file[i].rows]
           s == CHOOSE h : IsSum(h)
<1>1. n \in Nat /\ w \in [1..n -> Nat]
  <2>1. n \in Nat /\ \A i \in 1..n : file[i] \in Stripe
    OBVIOUS
  <2>2. \A i \in 1..n : file[i].rows \in Nat
    BY <2>1, ReaderAssumption DEF Stripe
  <2> QED  BY <2>1, <2>2
<1>2. PICK f : IsPrefixSum(f, w, n)
  <2> HIDE DEF w, n
  <2> QED  BY <1>1, PrefixSumExists
<1>3. IsSum(f)
  BY <1>1, <1>2 DEF IsPrefixSum
<1>4. IsSum(s)
  <2> HIDE DEF IsSum
  <2> QED  BY <1>3
<1>5. s = f
  <2> DEFINE T == {i \in 0..n : s[i] = f[i]}
  <2> HIDE DEF s
  <2>1. 0 \in T
    BY <1>1, <1>3, <1>4
  <2>2. ASSUME NEW i \in 1..n, i - 1 \in T PROVE i \in T
    BY <1>1, <1>3, <1>4, <2>2
  <2>3. 0..n \subseteq T
    <3> HIDE DEF T, n
    <3> QED  BY <1>1, <2>1, <2>2, Climb
  <2> QED  BY <1>3, <1>4, <2>3
<1>6. \A i : CummulativeRows(file, i) = s[i]
  BY DEF CummulativeRows
<1>. QED  BY <1>1, <1>2, <1>5, <1>6

(* The same of bytes; a stripe may have none.                              *)
LEMMA CummulativeBytesSums ==
    ASSUME NEW file \in Seq(Stripe)
    PROVE  \E f, w :
             /\ w \in [1..Len(file) -> Nat]
             /\ IsPrefixSum(f, w, Len(file))
             /\ \A i : CummulativeBytes(file, i) = f[i]
<1> DEFINE n == Len(file)
           w == [i \in 1..n |-> file[i].bytes]
           IsSum(h) ==
             h = [i \in 0..n |-> IF i = 0 THEN 0 ELSE h[i - 1] + file[i].bytes]
           s == CHOOSE h : IsSum(h)
<1>1. n \in Nat /\ w \in [1..n -> Nat]
  <2>1. n \in Nat /\ \A i \in 1..n : file[i] \in Stripe
    OBVIOUS
  <2>2. \A i \in 1..n : file[i].bytes \in Nat
    BY <2>1, ReaderAssumption DEF Stripe
  <2> QED  BY <2>1, <2>2
<1>2. PICK f : IsPrefixSum(f, w, n)
  <2> HIDE DEF w, n
  <2> QED  BY <1>1, PrefixSumExists
<1>3. IsSum(f)
  BY <1>1, <1>2 DEF IsPrefixSum
<1>4. IsSum(s)
  <2> HIDE DEF IsSum
  <2> QED  BY <1>3
<1>5. s = f
  <2> DEFINE T == {i \in 0..n : s[i] = f[i]}
  <2> HIDE DEF s
  <2>1. 0 \in T
    BY <1>1, <1>3, <1>4
  <2>2. ASSUME NEW i \in 1..n, i - 1 \in T PROVE i \in T
    BY <1>1, <1>3, <1>4, <2>2
  <2>3. 0..n \subseteq T
    <3> HIDE DEF T, n
    <3> QED  BY <1>1, <2>1, <2>2, Climb
  <2> QED  BY <1>3, <1>4, <2>3
<1>6. \A i : CummulativeBytes(file, i) = s[i]
  BY DEF CummulativeBytes
<1>. QED  BY <1>1, <1>2, <1>5, <1>6

(* What the other proofs use of RowsBefore.                                *)
LEMMA RowsBeforeFacts ==
    ASSUME stripes \in Seq(Stripe)
    PROVE  /\ StripeCount \in Nat
           /\ RowsBefore(0) = 0
           /\ \A i \in 0..StripeCount : RowsBefore(i) \in Nat
           /\ \A i \in 0..(StripeCount - 1) :
                /\ StripeRowCount(i) \in Nat \ {0}
                /\ RowsBefore(i + 1) = RowsBefore(i) + StripeRowCount(i)
           /\ \A i \in 0..StripeCount : \A j \in i..StripeCount :
                /\ RowsBefore(i) <= RowsBefore(j)
                /\ i < j => RowsBefore(i) < RowsBefore(j)
           /\ \A a \in 0..StripeCount, b \in 0..StripeCount, x \in Nat :
                a <= b /\ RowsBefore(a) <= x =>
                  \E s \in a..b :
                    RowsBefore(s) <= x /\ (s = b \/ x < RowsBefore(s + 1))
<1> DEFINE n == Len(stripes)
<1>1. PICK f, w :
        /\ w \in [1..n -> Nat]
        /\ IsPrefixSum(f, w, n)
        /\ \A i \in 1..n : w[i] = stripes[i].rows
        /\ \A i : CummulativeRows(stripes, i) = f[i]
  BY CummulativeRowsSums
<1>2. n \in Nat /\ StripeCount = n /\ \A i : RowsBefore(i) = f[i]
  BY <1>1 DEF StripeCount, RowsBefore
<1>3. \A i \in 1..n : stripes[i].rows \in Nat \ {0}
  <2>1. \A i \in 1..n : stripes[i] \in Stripe
    OBVIOUS
  <2> QED  BY <2>1, ReaderAssumption DEF Stripe
<1> HIDE DEF n
<1>4. \A i \in 0..(n - 1) : /\ StripeRowCount(i) \in Nat \ {0}
                            /\ f[i + 1] = f[i] + StripeRowCount(i)
  BY <1>1, <1>2, <1>3, SMTT(30) DEF StripeRowCount, IsPrefixSum
<1>5. \A i \in 0..n : \A j \in i..n : f[i] <= f[j]
  BY <1>1, <1>2, PrefixSumMonotonic
<1>6. \A i \in 0..n : f[i] \in Nat
  BY <1>1 DEF IsPrefixSum
<1>7. \A i \in 0..n : \A j \in i..n : i < j => f[i] < f[j]
  <2> SUFFICES ASSUME NEW i \in 0..n, NEW j \in i..n, i < j
               PROVE  f[i] < f[j]
    OBVIOUS
  <2>1. i \in 0..(n - 1) /\ i + 1 \in 0..n /\ j \in (i + 1)..n /\ j \in 0..n
    BY <1>2
  <2>2. f[i + 1] <= f[j] /\ f[i + 1] = f[i] + StripeRowCount(i)
    BY <1>4, <1>5, <2>1
  <2>3. StripeRowCount(i) \in Nat \ {0} /\ f[i] \in Nat /\ f[j] \in Nat
    BY <1>4, <1>6, <2>1
  <2> QED  BY <2>2, <2>3
<1>8. \A a \in 0..n, b \in 0..n, x \in Nat :
        a <= b /\ f[a] <= x =>
          \E s \in a..b : f[s] <= x /\ (s = b \/ x < f[s + 1])
  <2> SUFFICES ASSUME NEW a \in 0..n, NEW b \in 0..n, NEW x \in Nat,
                      a <= b, f[a] <= x
               PROVE  \E s \in a..b : f[s] <= x /\ (s = b \/ x < f[s + 1])
    OBVIOUS
  <2>1. b \in a..n
    BY <1>2
  <2> QED  BY <1>1, <1>2, <2>1, PrefixSumSearch
<1>9. f[0] = 0
  BY <1>1 DEF IsPrefixSum
<1>10. StripeCount \in Nat /\ RowsBefore(0) = 0
  BY <1>2, <1>9
<1>11. \A i \in 0..StripeCount : RowsBefore(i) \in Nat
  BY <1>2, <1>6
<1>12. \A i \in 0..(StripeCount - 1) :
         /\ StripeRowCount(i) \in Nat \ {0}
         /\ RowsBefore(i + 1) = RowsBefore(i) + StripeRowCount(i)
  BY <1>2, <1>4
<1>13. \A i \in 0..StripeCount : \A j \in i..StripeCount :
         /\ RowsBefore(i) <= RowsBefore(j)
         /\ i < j => RowsBefore(i) < RowsBefore(j)
  BY <1>2, <1>5, <1>7
<1>14. \A a \in 0..StripeCount, b \in 0..StripeCount, x \in Nat :
         a <= b /\ RowsBefore(a) <= x =>
           \E s \in a..b :
             RowsBefore(s) <= x /\ (s = b \/ x < RowsBefore(s + 1))
  <2> SUFFICES ASSUME NEW a \in 0..n, NEW b \in 0..n, NEW x \in Nat,
                      a <= b, f[a] <= x
               PROVE  \E s \in a..b :
                        RowsBefore(s) <= x /\ (s = b \/ x < RowsBefore(s + 1))
    BY <1>2
  <2>1. PICK s \in a..b : f[s] <= x /\ (s = b \/ x < f[s + 1])
    BY <1>8
  <2> QED  BY <1>2, <2>1
<1>. QED  BY <1>10, <1>11, <1>12, <1>13, <1>14

(* And of StripeOffset.                                                    *)
LEMMA StripeOffsetFacts ==
    ASSUME stripes \in Seq(Stripe)
    PROVE  /\ \A i \in 0..StripeCount : StripeOffset(i) \in Nat
           /\ \A i \in 0..StripeCount : \A j \in i..StripeCount :
                StripeOffset(i) <= StripeOffset(j)
<1> DEFINE n == Len(stripes)
<1>1. PICK f, w :
        /\ w \in [1..n -> Nat]
        /\ IsPrefixSum(f, w, n)
        /\ \A i : CummulativeBytes(stripes, i) = f[i]
  BY CummulativeBytesSums
<1>2. n \in Nat /\ StripeCount = n /\ \A i : StripeOffset(i) = f[i]
  BY <1>1 DEF StripeCount, StripeOffset
<1> HIDE DEF n
<1>3. \A i \in 0..n : \A j \in i..n : f[i] <= f[j]
  BY <1>1, <1>2, PrefixSumMonotonic
<1>. QED  BY <1>1, <1>2, <1>3 DEF IsPrefixSum

-----------------------------------------------------------------------------
(* The inductive invariant                                                 *)

EmptySplit == range.first = StripeCount /\ range.last = 0
              /\ range.firstRow = 0 /\ range.lastRow = 0

(* A split is empty, or is a range of stripes with the rows they hold.     *)
RangeOK ==
    /\ stripes \in Seq(Stripe)
    /\ range \in [first : Nat, last : Nat, firstRow : Nat, lastRow : Nat]
    /\ \/ EmptySplit
       \/ /\ range.first < range.last
          /\ range.last <= StripeCount
          /\ range.firstRow = RowsBefore(range.first)
          /\ range.lastRow = RowsBefore(range.last)

(* The rest of a loaded stripe is exactly what its readers have not        *)
(* delivered yet.                                                          *)
InStep(c) ==
    /\ c.remaining > 0 =>
         /\ c.loaded # None
         /\ c.next = c.loaded + 1
         /\ c.root.row = StripeRowCount(c.loaded) - c.remaining
    /\ c.loaded # None => c.next > 0

(* What holds of a cursor at all times: it stays in the split, and its     *)
(* readers in their stripe.                                                *)
InBounds(c) ==
    /\ c \in CursorType
    /\ c.root.stripe = c.loaded
    /\ c.next \in range.first..range.last
    /\ c.loaded # None =>
         /\ c.loaded \in range.first..(range.last - 1)
         /\ c.root.row <= StripeRowCount(c.loaded)

AtRest(c) ==
    /\ c \in CursorType
    /\ c.next = range.first /\ c.remaining = 0
    /\ c.loaded = None /\ c.root.stripe = None

(* Unless the position was lost, the counters and the readers are in step. *)
CursorOK(c, l) ==
    IF range.first < range.last
    THEN InBounds(c) /\ (~l => InStep(c))
    ELSE AtRest(c) /\ ~l

EstimateOK ==
    /\ estimate \in [index : Nat \cup {None}, of : Nat \cup {None}]
    /\ estimate.of = estimate.index

IInv ==
    /\ RangeOK
    /\ lost \in BOOLEAN
    /\ CursorOK(cursor, lost)
    /\ EstimateOK
    /\ EstimateIsCurrent

(* Position, of any cursor.                                                *)
PositionAt(c) ==
    IF c.remaining > 0 THEN RowsBefore(c.loaded + 1) - c.remaining
    ELSE IF c.next >= range.last THEN range.lastRow
    ELSE RowsBefore(c.next)

-----------------------------------------------------------------------------
(* The steps on the cursor                                                 *)

(* loadNextStripe leaves the same cursor whether it resets the readers of  *)
(* the loaded stripe or creates new ones.                                  *)
LEMMA LoadNextStripeSets ==
    ASSUME NEW c \in CursorType, c.root.stripe = c.loaded
    PROVE  LoadNextStripe(c) =
             [next |-> c.next + 1, remaining |-> StripeRowCount(c.next),
              loaded |-> c.next, root |-> [stripe |-> c.next, row |-> 0]]
BY DEF LoadNextStripe, CursorType

(* A split that is not empty has rows, and lies in the file.               *)
LEMMA RangeFacts ==
    ASSUME RangeOK
    PROVE  /\ range.first \in Nat /\ range.last \in Nat
           /\ range.firstRow \in Nat /\ range.lastRow \in Nat
           /\ stripes \in Seq(Stripe) /\ StripeCount \in Nat
           /\ range.first < range.last =>
                /\ range.last <= StripeCount
                /\ range.firstRow = RowsBefore(range.first)
                /\ range.lastRow = RowsBefore(range.last)
                /\ range.firstRow < range.lastRow
                /\ ~IsEmptyFile
           /\ ~(range.first < range.last) => EmptySplit /\ IsEmptyFile
<1>1. /\ range.first \in Nat /\ range.last \in Nat
      /\ range.firstRow \in Nat /\ range.lastRow \in Nat
      /\ stripes \in Seq(Stripe) /\ StripeCount \in Nat
  BY RowsBeforeFacts DEF RangeOK
<1>2. ASSUME range.first < range.last
      PROVE  /\ range.last <= StripeCount
             /\ range.firstRow = RowsBefore(range.first)
             /\ range.lastRow = RowsBefore(range.last)
             /\ range.firstRow < range.lastRow
             /\ ~IsEmptyFile
  <2>1. ~EmptySplit
    BY <1>1, <1>2 DEF EmptySplit
  <2>2. /\ range.last <= StripeCount
        /\ range.firstRow = RowsBefore(range.first)
        /\ range.lastRow = RowsBefore(range.last)
    BY <2>1 DEF RangeOK
  <2>3. range.first \in 0..StripeCount /\ range.last \in range.first..StripeCount
    BY <1>1, <1>2, <2>2
  <2>4. RowsBefore(range.first) < RowsBefore(range.last)
    BY <1>1, <1>2, <2>3, RowsBeforeFacts
  <2> QED  BY <1>1, <2>2, <2>4 DEF IsEmptyFile
<1>3. ~(range.first < range.last) => EmptySplit /\ IsEmptyFile
  BY <1>1 DEF RangeOK, EmptySplit, IsEmptyFile
<1>. QED  BY <1>1, <1>2, <1>3

(* loadNextStripe puts the counters and the readers at the stripe's first  *)
(* row.                                                                    *)
LEMMA LoadNextStripeInStep ==
    ASSUME RangeOK, NEW c \in CursorType, c.root.stripe = c.loaded,
           c.next \in range.first..(range.last - 1)
    PROVE  LET d == LoadNextStripe(c)
           IN  /\ d.next = c.next + 1 /\ d.loaded = c.next
               /\ d.remaining = StripeRowCount(c.next)
               /\ d.remaining \in Nat \ {0}
               /\ InBounds(d) /\ InStep(d)
               /\ PositionAt(d) = RowsBefore(c.next)
<1> DEFINE d == LoadNextStripe(c)
<1>1. d = [next |-> c.next + 1, remaining |-> StripeRowCount(c.next),
           loaded |-> c.next, root |-> [stripe |-> c.next, row |-> 0]]
  BY LoadNextStripeSets
<1> HIDE DEF d
<1>2. /\ range.first \in Nat /\ range.last \in Nat /\ range.first < range.last
      /\ range.last <= StripeCount /\ StripeCount \in Nat
      /\ stripes \in Seq(Stripe) /\ c.next \in 0..(StripeCount - 1)
  BY RangeFacts
<1>3. /\ StripeRowCount(c.next) \in Nat \ {0}
      /\ RowsBefore(c.next + 1) = RowsBefore(c.next) + StripeRowCount(c.next)
      /\ RowsBefore(c.next) \in Nat
  <2>1. c.next \in 0..StripeCount
    BY <1>2
  <2> QED  BY <1>2, <2>1, RowsBeforeFacts
<1>4. d \in CursorType
  BY <1>1, <1>2, <1>3 DEF CursorType
<1>5. /\ d.next = c.next + 1 /\ d.remaining = StripeRowCount(c.next)
      /\ d.loaded = c.next /\ d.root.stripe = c.next /\ d.root.row = 0
  BY <1>1
<1>6. InBounds(d)
  BY <1>2, <1>3, <1>4, <1>5, SMTT(30) DEF InBounds, None
<1>7. InStep(d)
  BY <1>2, <1>3, <1>5 DEF InStep, None
<1>8. PositionAt(d) = RowsBefore(c.next)
  BY <1>2, <1>3, <1>5 DEF PositionAt
<1>. QED  BY <1>3, <1>5, <1>6, <1>7, <1>8 DEF d

(* A skip within the loaded stripe moves the counters and the readers by   *)
(* the same number of rows, and does not overrun the stripe.               *)
LEMMA SkipInCurrentStripeInStep ==
    ASSUME RangeOK, range.first < range.last,
           NEW c, InBounds(c), c.loaded # None, NEW n \in 0..c.remaining
    PROVE  LET d == SkipInCurrentStripe(c, n)
           IN  /\ InBounds(d)
               /\ d.next = c.next /\ d.loaded = c.loaded
               /\ d.remaining = c.remaining - n
               /\ InStep(c) => InStep(d)
               /\ InStep(c) /\ c.remaining > 0 =>
                    /\ ~Overrun(c.root, n)
                    /\ PositionAt(d) = PositionAt(c) + n
                    /\ RowsOf(c.root, n) = PositionAt(c)..(PositionAt(c) + n - 1)
<1> DEFINE d == SkipInCurrentStripe(c, n)
           count == StripeRowCount(c.loaded)
<1>1. /\ range.first \in Nat /\ range.last \in Nat
      /\ range.last <= StripeCount /\ StripeCount \in Nat
      /\ stripes \in Seq(Stripe) /\ range.lastRow = RowsBefore(range.last)
  BY RangeFacts
<1>2. /\ c.next \in Nat /\ c.remaining \in Nat /\ c.loaded \in Nat
      /\ c.root.row \in Nat /\ c.root.stripe = c.loaded
      /\ c.root \in [stripe : Nat \cup {None}, row : Nat]
      /\ c.root.row <= count
      /\ c.loaded \in range.first..(range.last - 1)
  BY DEF InBounds, CursorType
<1>3. /\ count \in Nat
      /\ RowsBefore(c.loaded + 1) = RowsBefore(c.loaded) + count
      /\ RowsBefore(c.loaded) \in Nat
  <2>1. c.loaded \in 0..StripeCount /\ c.loaded \in 0..(StripeCount - 1)
    BY <1>1, <1>2
  <2> QED  BY <1>1, <2>1, RowsBeforeFacts
<1>4. /\ d.next = c.next /\ d.loaded = c.loaded
      /\ d.remaining = c.remaining - n
      /\ d.root = Advance(c.root, n)
      /\ DOMAIN d = DOMAIN c
      /\ d = [c EXCEPT !.remaining = d.remaining, !.root = d.root]
  BY DEF SkipInCurrentStripe, InBounds, CursorType
<1>5. /\ Advance(c.root, n) \in [stripe : Nat \cup {None}, row : Nat]
      /\ Advance(c.root, n).stripe = c.loaded
      /\ Advance(c.root, n).row =
           IF c.root.row + n > count THEN count ELSE c.root.row + n
  <2> HIDE DEF count
  <2>1. StripeRowCount(c.root.stripe) = count
    BY <1>2 DEF count
  <2> QED  BY <1>2, <1>3, <2>1 DEF Advance, Overrun
<1> HIDE DEF d, count
<1>6. d \in CursorType
  BY <1>2, <1>4, <1>5 DEF CursorType, InBounds
<1>7. InBounds(d)
  <2>1. d.root.row <= count /\ d.root.stripe = d.loaded
    BY <1>2, <1>3, <1>4, <1>5
  <2> QED  BY <1>4, <1>6, <2>1 DEF InBounds, count
<1>8. ASSUME InStep(c) PROVE InStep(d)
  <2>1. c.next > 0
    BY <1>8 DEF InStep
  <2>2. ASSUME d.remaining > 0
        PROVE  c.remaining > 0 /\ d.root.row = count - d.remaining
               /\ d.next = d.loaded + 1
    <3>1. c.remaining > 0
      BY <1>2, <1>4, <2>2
    <3>2. c.next = c.loaded + 1 /\ c.root.row = count - c.remaining
      BY <1>8, <3>1 DEF InStep, count
    <3> QED  BY <1>2, <1>3, <1>4, <1>5, <3>1, <3>2
  <2> QED  BY <1>4, <2>1, <2>2 DEF InStep, count
<1>9. ASSUME InStep(c), c.remaining > 0
      PROVE  /\ ~Overrun(c.root, n)
             /\ PositionAt(d) = PositionAt(c) + n
             /\ RowsOf(c.root, n) = PositionAt(c)..(PositionAt(c) + n - 1)
  <2>1. c.next = c.loaded + 1 /\ c.root.row = count - c.remaining
    BY <1>9 DEF InStep, count
  <2>2. ~Overrun(c.root, n)
    BY <1>2, <1>3, <2>1 DEF Overrun, count
  <2>3. PositionAt(c) = RowsBefore(c.loaded) + c.root.row
    BY <1>2, <1>3, <1>9, <2>1 DEF PositionAt
  <2>4. PositionAt(d) = PositionAt(c) + n
    <3>1. CASE d.remaining > 0
      BY <1>2, <1>3, <1>4, <2>1, <2>3, <3>1 DEF PositionAt
    <3>2. CASE ~(d.remaining > 0)
      <4>1. n = c.remaining /\ PositionAt(c) + n = RowsBefore(c.next)
        BY <1>2, <1>3, <1>4, <2>1, <2>3, <3>2
      <4>2. c.next \in range.first..range.last
        BY <1>1, <1>2, <2>1
      <4> QED  BY <1>1, <1>4, <3>2, <4>1, <4>2 DEF PositionAt
    <3> QED  BY <3>1, <3>2
  <2>5. RowsOf(c.root, n) = PositionAt(c)..(PositionAt(c) + n - 1)
    BY <1>2, <2>3 DEF RowsOf
  <2> QED  BY <2>2, <2>4, <2>5
<1>. QED  BY <1>4, <1>7, <1>8, <1>9 DEF d

(* skipStripes finds the stripe the n-th row from `start` on is in, or the *)
(* end of the split.                                                       *)
LEMMA SkipStripesStops ==
    ASSUME RangeOK, range.first < range.last, NEW c, c \in CursorType,
           NEW start \in 0..range.last, NEW n \in Nat
    PROVE  LET d == SkipStripes(c, start, n)
           IN  /\ d.next \in start..range.last
               /\ RowsBefore(d.next) <= RowsBefore(start) + n
               /\ d.next = range.last \/ RowsBefore(start) + n < RowsBefore(d.next + 1)
               /\ d.remaining = IF d.next >= range.last THEN 0
                                ELSE StripeRowCount(d.next)
               /\ d.loaded = c.loaded /\ d.root = c.root
               /\ d \in CursorType
<1> DEFINE P(s) == /\ RowsBefore(s) - RowsBefore(start) <= n
                   /\ s = range.last \/ n < RowsBefore(s + 1) - RowsBefore(start)
           stop == CHOOSE s \in start..range.last : P(s)
           left == IF stop >= range.last THEN 0 ELSE StripeRowCount(stop)
           d == SkipStripes(c, start, n)
<1>1. /\ range.last \in Nat /\ range.last <= StripeCount /\ StripeCount \in Nat
      /\ stripes \in Seq(Stripe)
  BY RangeFacts
<1>2. RowsBefore(start) \in Nat /\ start \in 0..StripeCount /\ range.last \in 0..StripeCount
  BY <1>1, RowsBeforeFacts
<1>3. \A i \in 0..StripeCount : RowsBefore(i) \in Nat
  BY <1>1, RowsBeforeFacts
<1>4. \E s \in start..range.last : P(s)
  <2> DEFINE x == RowsBefore(start) + n
  <2>1. x \in Nat /\ start <= range.last /\ RowsBefore(start) <= x
    BY <1>1, <1>2
  <2>2. PICK s \in start..range.last :
          RowsBefore(s) <= x /\ (s = range.last \/ x < RowsBefore(s + 1))
    <3> HIDE DEF x
    <3> QED  BY <1>1, <1>2, <2>1, RowsBeforeFacts
  <2>3. RowsBefore(s) \in Nat
    BY <1>1, <1>3
  <2>4. s = range.last \/ RowsBefore(s + 1) \in Nat
    <3>1. s = range.last \/ s + 1 \in 0..StripeCount
      BY <1>1
    <3> QED  BY <1>3, <3>1
  <2>5. P(s)
    BY <1>2, <2>2, <2>3, <2>4
  <2> QED  BY <2>5
<1>5. stop \in start..range.last /\ P(stop)
  <2> HIDE DEF P
  <2> QED  BY <1>4
<1>6. d = [c EXCEPT !.next = stop, !.remaining = left]
  BY DEF SkipStripes
<1> HIDE DEF d, stop
<1>7. /\ d.next = stop /\ d.remaining = left
      /\ d.loaded = c.loaded /\ d.root = c.root
  BY <1>6 DEF CursorType
<1>8. left \in Nat
  <2>1. stop >= range.last \/ stop \in 0..(StripeCount - 1)
    BY <1>1, <1>5
  <2> QED  BY <1>1, <2>1, RowsBeforeFacts
<1>9. d \in CursorType
  <2>1. stop \in Nat
    BY <1>5
  <2> HIDE DEF left
  <2> QED  BY <1>6, <1>8, <2>1 DEF CursorType
<1>10. /\ RowsBefore(stop) <= RowsBefore(start) + n
       /\ stop = range.last \/ RowsBefore(start) + n < RowsBefore(stop + 1)
  <2>1. RowsBefore(stop) \in Nat
    BY <1>1, <1>3, <1>5
  <2>2. stop = range.last \/ RowsBefore(stop + 1) \in Nat
    <3>1. stop = range.last \/ stop + 1 \in 0..StripeCount
      BY <1>1, <1>5
    <3> QED  BY <1>3, <3>1
  <2> QED  BY <1>2, <1>5, <2>1, <2>2
<1>. QED  BY <1>5, <1>7, <1>9, <1>10 DEF d

(* The position of a cursor that is in step lies in the split, and at its  *)
(* end exactly when next would return false.                               *)
LEMMA PositionInSplit ==
    ASSUME RangeOK, NEW c, CursorOK(c, FALSE)
    PROVE  /\ PositionAt(c) \in Nat
           /\ range.firstRow <= PositionAt(c)
           /\ PositionAt(c) <= range.lastRow
           /\ AtEnd(c) <=> PositionAt(c) = range.lastRow
<1>1. /\ range.first \in Nat /\ range.last \in Nat
      /\ range.firstRow \in Nat /\ range.lastRow \in Nat
      /\ stripes \in Seq(Stripe) /\ StripeCount \in Nat
  BY RangeFacts
<1>2. CASE ~(range.first < range.last)
  BY <1>1, <1>2, RangeFacts DEF CursorOK, AtRest, PositionAt, AtEnd, EmptySplit
<1>3. CASE range.first < range.last
  <2>1. InBounds(c) /\ InStep(c)
    BY <1>3 DEF CursorOK
  <2>2. /\ range.last <= StripeCount
        /\ range.firstRow = RowsBefore(range.first)
        /\ range.lastRow = RowsBefore(range.last)
    BY <1>3, RangeFacts
  <2>3. c.next \in range.first..range.last /\ c.remaining \in Nat
    BY <2>1 DEF InBounds, CursorType
  <2> DEFINE Below(i, j) == RowsBefore(i) \in Nat /\ RowsBefore(j) \in Nat
                            /\ RowsBefore(i) <= RowsBefore(j)
                            /\ (i < j => RowsBefore(i) < RowsBefore(j))
  <2>4. ASSUME NEW i \in range.first..range.last, NEW j \in i..range.last
        PROVE  Below(i, j)
    <3>1. i \in 0..StripeCount /\ j \in i..StripeCount /\ j \in 0..StripeCount
      BY <1>1, <2>2
    <3> QED  BY <1>1, <3>1, RowsBeforeFacts
  <2>5. CASE c.remaining > 0
    <3>1. /\ c.loaded \in range.first..(range.last - 1)
          /\ c.root.row = StripeRowCount(c.loaded) - c.remaining
          /\ c.root.row \in Nat
      BY <2>1, <2>5 DEF InBounds, InStep, CursorType
    <3>2. /\ StripeRowCount(c.loaded) \in Nat
          /\ RowsBefore(c.loaded + 1) = RowsBefore(c.loaded) + StripeRowCount(c.loaded)
      <4>1. c.loaded \in 0..(StripeCount - 1)
        BY <1>1, <2>2, <3>1
      <4> QED  BY <1>1, <4>1, RowsBeforeFacts
    <3>3. Below(range.first, c.loaded) /\ Below(c.loaded + 1, range.last)
      <4>1. /\ range.first \in range.first..range.last
            /\ c.loaded \in range.first..range.last
            /\ c.loaded + 1 \in range.first..range.last
            /\ range.last \in (c.loaded + 1)..range.last
        BY <1>1, <1>3, <3>1
      <4> HIDE DEF Below
      <4> QED  BY <2>4, <4>1
    <3>4. PositionAt(c) = RowsBefore(c.loaded + 1) - c.remaining
      BY <2>5 DEF PositionAt
    <3> QED  BY <2>2, <2>3, <2>5, <3>1, <3>2, <3>3, <3>4 DEF AtEnd
  <2>6. CASE ~(c.remaining > 0)
    <3>1. Below(range.first, c.next) /\ Below(c.next, range.last)
      <4>1. /\ range.first \in range.first..range.last
            /\ range.last \in c.next..range.last
        BY <1>1, <1>3, <2>3
      <4> HIDE DEF Below
      <4> QED  BY <2>3, <2>4, <4>1
    <3> QED  BY <1>1, <1>3, <2>2, <2>3, <2>6, <3>1 DEF AtEnd, PositionAt
  <2> QED  BY <2>3, <2>5, <2>6
<1>. QED  BY <1>2, <1>3

-----------------------------------------------------------------------------
(* Every call keeps the invariant and is a step of the row cursor          *)

(* What a call that returns o and leaves the cursor c has to show.         *)
LEMMA ReturnKeeps ==
    ASSUME IInv, NEW c, NEW o, Return(c, o), lost' \in BOOLEAN,
           CursorOK(c, lost'), o.call # "estimate"
    PROVE  /\ IInv'
           /\ Position' = PositionAt(c)
           /\ Position = PositionAt(cursor)
           /\ UNCHANGED Rows!fixed
           /\ out' = o
<1>1. /\ cursor' = c /\ out' = o /\ stripes' = stripes /\ range' = range
      /\ estimate' = estimate
  BY DEF Return
<1>2. \A i : RowsBefore(i)' = RowsBefore(i)
  BY <1>1 DEF RowsBefore
<1>3. StripeCount' = StripeCount
  BY <1>1 DEF StripeCount
<1>4. RangeOK'
  BY <1>1, <1>2, <1>3 DEF IInv, RangeOK, EmptySplit
<1>5. CursorOK(cursor, lost)'
  BY <1>1 DEF CursorOK, InBounds, InStep, AtRest, StripeRowCount
<1>6. EstimateOK' /\ EstimateIsCurrent'
  BY <1>1 DEF IInv, EstimateOK, EstimateIsCurrent
<1>7. Position' = PositionAt(c) /\ Position = PositionAt(cursor)
  BY <1>1, <1>2 DEF Position, PositionAt
<1>8. UNCHANGED Rows!fixed
  BY <1>1, <1>2, <1>3 DEF Rows!fixed
<1>. QED  BY <1>1, <1>4, <1>5, <1>6, <1>7, <1>8 DEF IInv

(* Once the position is lost every call is one that promises nothing.      *)
LEMMA LostStep ==
    ASSUME lost \/ out'.call = "moved", lost', UNCHANGED Rows!fixed
    PROVE  Rows!Next
BY DEF Rows!Next, Rows!Lose

(* next                                                                    *)
LEMMA NextBatchStep ==
    ASSUME IInv, NEW n \in Batch, NextBatch(n)
    PROVE  IInv' /\ Rows!Next
<1>1. RangeOK /\ lost \in BOOLEAN /\ CursorOK(cursor, lost) /\ n \in Nat
  BY ReaderAssumption DEF IInv
<1>2. CASE AtEnd(cursor)
  <2> DEFINE o == [call |-> "next", ret |-> FALSE]
  <2>1. Return(cursor, o) /\ lost' = lost
    BY <1>2 DEF NextBatch, Return
  <2>2. /\ IInv' /\ out' = o /\ UNCHANGED Rows!fixed
        /\ Position' = Position /\ Position = PositionAt(cursor)
    BY <1>1, <2>1, ReturnKeeps
  <2>3. CASE lost
    BY <2>1, <2>2, <2>3, LostStep
  <2>4. CASE ~lost
    <3>1. Position = range.lastRow
      BY <1>1, <1>2, <2>2, <2>4, PositionInSplit
    <3>2. Rows!Read(n)
      BY <2>2, <3>1 DEF Rows!Read
    <3> QED  BY <2>1, <2>2, <2>4, <3>2 DEF Rows!Next
  <2> QED  BY <2>3, <2>4
<1>3. CASE ~AtEnd(cursor)
  <2> DEFINE c == IF cursor.remaining = 0 THEN LoadNextStripe(cursor) ELSE cursor
             k == IF c.remaining < n THEN c.remaining ELSE n
  <2>1. /\ range.first < range.last /\ InBounds(cursor)
        /\ range.first \in Nat /\ range.last \in Nat
        /\ (~lost => InStep(cursor))
    BY <1>1, <1>3, RangeFacts DEF CursorOK, AtRest, AtEnd, EmptySplit
  <2>2. /\ InBounds(c) /\ (~lost => InStep(c)) /\ c.remaining \in Nat \ {0}
        /\ PositionAt(c) = PositionAt(cursor)
    <3>1. CASE cursor.remaining = 0
      <4>1. /\ cursor.next \in range.first..(range.last - 1)
            /\ cursor \in CursorType /\ cursor.root.stripe = cursor.loaded
        BY <1>3, <2>1, <3>1 DEF AtEnd, InBounds
      <4>2. PositionAt(cursor) = RowsBefore(cursor.next)
        BY <2>1, <3>1, <4>1 DEF PositionAt
      <4> QED  BY <1>1, <3>1, <4>1, <4>2, LoadNextStripeInStep
    <3>2. CASE cursor.remaining # 0
      BY <2>1, <3>2 DEF InBounds, CursorType
    <3> QED  BY <3>1, <3>2
  <2> HIDE DEF c
  <2>3. k \in 0..c.remaining /\ k \in 0..n /\ (n > 0 => k > 0)
    BY <1>1, <2>2
  <2> HIDE DEF k
  <2>4. CASE c.loaded = None
    <3>1. Return(c, Error) /\ lost' = lost /\ lost
      BY <1>3, <2>2, <2>4 DEF NextBatch, c, k, Return, Error, InStep
    <3>2. CursorOK(c, lost') /\ Error.call # "estimate"
      BY <2>1, <2>2, <3>1 DEF CursorOK, Error
    <3> QED  BY <1>1, <3>1, <3>2, ReturnKeeps, LostStep
  <2>5. CASE c.loaded # None
    <3> DEFINE d == SkipInCurrentStripe(c, k)
    <3>1. /\ InBounds(d) /\ (InStep(c) => InStep(d))
          /\ d.next = c.next /\ d.loaded = c.loaded
          /\ InStep(c) =>
               /\ ~Overrun(c.root, k)
               /\ PositionAt(d) = PositionAt(c) + k
               /\ RowsOf(c.root, k) = PositionAt(c)..(PositionAt(c) + k - 1)
      BY <1>1, <2>1, <2>2, <2>3, <2>5, SkipInCurrentStripeInStep
    <3>2. CASE Overrun(c.root, k)
      <4> DEFINE e == [c EXCEPT !.root = Advance(@, k)]
      <4>1. Return(e, Error) /\ lost' = lost /\ lost
        BY <1>3, <2>2, <2>5, <3>1, <3>2 DEF NextBatch, c, k, Return, Error
      <4>2. /\ e = [d EXCEPT !.remaining = c.remaining]
            /\ d \in CursorType /\ c.remaining \in Nat
        BY <2>2, <3>1 DEF SkipInCurrentStripe, InBounds, CursorType
      <4>3. InBounds(e)
        <5> HIDE DEF d, e
        <5> QED  BY <3>1, <4>2 DEF InBounds, CursorType
      <4>4. CursorOK(e, lost') /\ Error.call # "estimate"
        BY <2>1, <4>1, <4>3 DEF CursorOK, Error
      <4> QED  BY <1>1, <4>1, <4>4, ReturnKeeps, LostStep
    <3>3. CASE ~Overrun(c.root, k)
      <4> DEFINE o == [call |-> "next", ret |-> TRUE, rows |-> RowsOf(c.root, k)]
      <4>1. Return(d, o) /\ lost' = lost
        BY <1>3, <2>5, <3>3 DEF NextBatch, c, k, Return
      <4>2. CursorOK(d, lost')
        BY <2>1, <2>2, <3>1, <4>1 DEF CursorOK
      <4>3. /\ IInv' /\ out' = o /\ UNCHANGED Rows!fixed
            /\ Position' = PositionAt(d) /\ Position = PositionAt(cursor)
        <5>1. o.call # "estimate"
          OBVIOUS
        <5> HIDE DEF d, o
        <5> QED  BY <1>1, <4>1, <4>2, <5>1, ReturnKeeps
      <4>4. CASE lost
        BY <4>1, <4>3, <4>4, LostStep
      <4>5. CASE ~lost
        <5>1. CursorOK(cursor, FALSE) /\ CursorOK(d, FALSE)
          BY <1>1, <4>1, <4>2, <4>5
        <5>2. /\ Position # range.lastRow /\ Position \in Nat
              /\ Position' \in Nat /\ Position' <= range.lastRow
          <6> HIDE DEF d
          <6> QED  BY <1>1, <1>3, <4>3, <5>1, PositionInSplit
        <5>3. /\ Position' = Position + k
              /\ RowsOf(c.root, k) = Position..(Position + k - 1)
          BY <2>2, <3>1, <4>3, <4>5
        <5>4. /\ k \in 0..n /\ (n > 0 => k > 0)
              /\ Position + k <= range.lastRow
              /\ Position' = Position + k
              /\ out' = [call |-> "next", ret |-> TRUE,
                         rows |-> Position..(Position + k - 1)]
          BY <2>3, <4>3, <5>2, <5>3
        <5>5. Rows!Read(n)
          BY <4>3, <5>2, <5>4 DEF Rows!Read
        <5> QED  BY <4>1, <4>3, <4>5, <5>5 DEF Rows!Next
      <4> QED  BY <4>4, <4>5
    <3> QED  BY <3>2, <3>3
  <2> QED  BY <2>4, <2>5
<1>. QED  BY <1>2, <1>3

(* A call that fails before it has changed anything.                       *)
LEMMA FailedStep ==
    ASSUME IInv, Return(cursor, Error)
    PROVE  IInv' /\ Rows!Next
<1>1. lost' = lost /\ lost \in BOOLEAN /\ Error.call = "error"
  BY DEF IInv, Return, Error
<1>2. /\ IInv' /\ UNCHANGED Rows!fixed /\ out' = Error
      /\ Position' = Position
  BY <1>1, ReturnKeeps DEF IInv
<1>3. CASE lost
  BY <1>1, <1>2, <1>3, LostStep
<1>4. CASE ~lost
  <2>1. Rows!Observe
    BY <1>1, <1>2 DEF Rows!Observe
  <2> QED  BY <1>1, <1>2, <1>4, <2>1 DEF Rows!Next
<1>. QED  BY <1>3, <1>4

(* Where seekToRow goes for a row of the split: to its stripe.             *)
LEMMA SoughtStripe ==
    ASSUME RangeOK, range.first < range.last, InBounds(cursor),
           NEW row \in Nat, InSplit(row)
    PROVE  LET c == Sought(row)
           IN  /\ InBounds(c)
               /\ c.next \in range.first..(range.last - 1)
               /\ row - RowsBefore(c.next) \in 0..StripeRowCount(c.next)
               /\ RowsBefore(c.next) \in Nat
<1> DEFINE c == Sought(row)
<1>1. /\ range.first \in Nat /\ range.last \in Nat
      /\ range.firstRow = RowsBefore(range.first)
      /\ range.lastRow = RowsBefore(range.last)
      /\ range.last <= StripeCount /\ StripeCount \in Nat
      /\ stripes \in Seq(Stripe)
  BY RangeFacts
<1>2. RowsBefore(0) = 0 /\ \A i \in 0..StripeCount : RowsBefore(i) \in Nat
  BY <1>1, RowsBeforeFacts
<1>3. cursor \in CursorType
  BY DEF InBounds
<1>4. /\ c.next \in 0..range.last
      /\ RowsBefore(c.next) <= row
      /\ c.next = range.last \/ row < RowsBefore(c.next + 1)
      /\ c.loaded = cursor.loaded /\ c.root = cursor.root
      /\ c \in CursorType
  <2>1. 0 \in 0..range.last
    BY <1>1
  <2>2. RowsBefore(0) + row = row
    BY <1>2
  <2> QED  BY <1>3, <2>1, <2>2, SkipStripesStops DEF Sought
<1> HIDE DEF c
<1>5. c.next # range.last
  <2> SUFFICES ASSUME c.next = range.last PROVE FALSE
    OBVIOUS
  <2>1. range.lastRow <= row /\ row < range.lastRow /\ range.lastRow \in Nat
    BY <1>1, <1>2, <1>4 DEF InSplit
  <2> QED  BY <2>1
<1>6. c.next >= range.first
  <2> SUFFICES ASSUME c.next < range.first PROVE FALSE
    BY <1>1, <1>4
  <2>1. /\ c.next + 1 \in 0..StripeCount /\ range.first \in (c.next + 1)..StripeCount
        /\ range.first \in 0..StripeCount
    BY <1>1, <1>4
  <2>2. RowsBefore(c.next + 1) <= RowsBefore(range.first)
    BY <1>1, <2>1, RowsBeforeFacts
  <2>3. RowsBefore(range.first) <= row
    BY <1>1 DEF InSplit
  <2>4. RowsBefore(c.next + 1) \in Nat /\ RowsBefore(range.first) \in Nat
    BY <1>2, <2>1
  <2> QED  BY <1>4, <1>5, <2>2, <2>3, <2>4
<1>7. c.next \in range.first..(range.last - 1)
  BY <1>1, <1>4, <1>5, <1>6
<1>8. /\ RowsBefore(c.next + 1) = RowsBefore(c.next) + StripeRowCount(c.next)
      /\ StripeRowCount(c.next) \in Nat /\ RowsBefore(c.next) \in Nat
  <2>1. c.next \in 0..(StripeCount - 1) /\ c.next \in 0..StripeCount
    BY <1>1, <1>7
  <2> QED  BY <1>1, <2>1, RowsBeforeFacts
<1>9. InBounds(c)
  BY <1>1, <1>4, <1>7 DEF InBounds
<1>. QED  BY <1>4, <1>5, <1>7, <1>8, <1>9 DEF c

(* seekToRow, when the stripe it goes to can be loaded                     *)
LEMMA SeekToRowStep ==
    ASSUME IInv, NEW row \in Targets, SeekToRow(row)
    PROVE  IInv' /\ Rows!Next
<1>1. RangeOK /\ lost \in BOOLEAN /\ CursorOK(cursor, lost) /\ row \in Nat
  BY ReaderAssumption DEF IInv
<1>2. /\ range.first \in Nat /\ range.last \in Nat
      /\ range.firstRow \in Nat /\ range.lastRow \in Nat
      /\ stripes \in Seq(Stripe) /\ StripeCount \in Nat
  BY <1>1, RangeFacts
<1> DEFINE o(r) == [call |-> "seek", ret |-> r]
<1>3. ASSUME NEW c, NEW r, Return(c, o(r)), CursorOK(c, FALSE),
             PositionAt(c) = r, Rows!Clamp(row) = r
      PROVE  IInv' /\ Rows!Next
  <2>1. lost' = FALSE /\ o(r).call # "estimate"
    BY <1>3 DEF Return
  <2>2. /\ IInv' /\ out' = o(r) /\ UNCHANGED Rows!fixed
        /\ Position' = PositionAt(c)
    <3> HIDE DEF o
    <3> QED  BY <1>3, <2>1, ReturnKeeps
  <2>3. Rows!Seek(row)
    BY <1>3, <2>1, <2>2 DEF Rows!Seek
  <2> QED  BY <2>2, <2>3 DEF Rows!Next
<1>4. CASE IsEmptyFile
  <2>1. ~(range.first < range.last) /\ EmptySplit
    BY <1>1, <1>4, RangeFacts
  <2>2. AtRest(cursor) /\ CursorOK(cursor, FALSE)
    BY <1>1, <2>1 DEF CursorOK
  <2>3. Return(cursor, o(0))
    BY <1>4 DEF SeekToRow
  <2>4. PositionAt(cursor) = 0 /\ Rows!Clamp(row) = 0
    BY <1>1, <1>2, <2>1, <2>2 DEF AtRest, PositionAt, EmptySplit, Rows!Clamp
  <2> QED  BY <1>3, <2>2, <2>3, <2>4
<1>5. CASE ~IsEmptyFile
  <2>1. /\ range.first < range.last /\ InBounds(cursor)
        /\ range.last <= StripeCount
        /\ range.firstRow = RowsBefore(range.first)
        /\ range.lastRow = RowsBefore(range.last)
        /\ range.firstRow < range.lastRow
    BY <1>1, <1>5, RangeFacts DEF CursorOK
  <2>2. CASE row < range.firstRow
    <3> DEFINE c == [cursor EXCEPT !.next = range.first, !.remaining = 0]
    <3>1. Return(c, o(range.firstRow))
      <4>1. ~(row >= range.lastRow) /\ ~InSplit(row)
        BY <1>1, <1>2, <2>1, <2>2 DEF InSplit
      <4> QED  BY <1>5, <2>2, <4>1 DEF SeekToRow
    <3>2. range.first > 0
      <4>1. RowsBefore(0) = 0
        BY <1>2, RowsBeforeFacts
      <4> QED  BY <1>1, <1>2, <2>1, <2>2, <4>1
    <3>3. /\ c.next = range.first /\ c.remaining = 0 /\ c.loaded = cursor.loaded
          /\ c.root = cursor.root /\ c \in CursorType
      BY <1>2, <2>1 DEF InBounds, CursorType
    <3> HIDE DEF c
    <3>4. CursorOK(c, FALSE)
      BY <1>2, <2>1, <3>2, <3>3 DEF CursorOK, InBounds, InStep
    <3>5. PositionAt(c) = range.firstRow /\ Rows!Clamp(row) = range.firstRow
      BY <1>2, <2>1, <2>2, <3>3 DEF PositionAt, Rows!Clamp
    <3> QED  BY <1>3, <3>1, <3>4, <3>5
  <2>3. CASE row >= range.lastRow
    <3> DEFINE c == [cursor EXCEPT !.next = range.last, !.remaining = 0]
    <3>1. Return(c, o(range.lastRow))
      <4>1. ~(row < range.firstRow) /\ ~InSplit(row)
        BY <1>1, <1>2, <2>1, <2>3 DEF InSplit
      <4> QED  BY <1>5, <2>3, <4>1 DEF SeekToRow
    <3>2. range.last > 0
      BY <1>2, <2>1
    <3>3. /\ c.next = range.last /\ c.remaining = 0 /\ c.loaded = cursor.loaded
          /\ c.root = cursor.root /\ c \in CursorType
      BY <1>2, <2>1 DEF InBounds, CursorType
    <3> HIDE DEF c
    <3>4. CursorOK(c, FALSE)
      BY <1>2, <2>1, <3>2, <3>3 DEF CursorOK, InBounds, InStep
    <3>5. PositionAt(c) = range.lastRow /\ Rows!Clamp(row) = range.lastRow
      BY <1>1, <1>2, <2>1, <2>3, <3>3 DEF PositionAt, Rows!Clamp
    <3> QED  BY <1>3, <3>1, <3>4, <3>5
  <2>4. CASE InSplit(row)
    <3> DEFINE s == Sought(row)
               c == LoadNextStripe(s)
               k == row - RowsBefore(s.next)
               d == SkipInCurrentStripe(c, k)
    <3>1. Return(d, o(row))
      <4>1. ~(row < range.firstRow) /\ ~(row >= range.lastRow)
        BY <1>1, <1>2, <2>4 DEF InSplit
      <4> QED  BY <1>5, <2>4, <4>1 DEF SeekToRow
    <3>2. /\ InBounds(s) /\ s.next \in range.first..(range.last - 1)
          /\ k \in 0..StripeRowCount(s.next) /\ RowsBefore(s.next) \in Nat
      BY <1>1, <2>1, <2>4, SoughtStripe
    <3> HIDE DEF s
    <3>3. /\ c.loaded = s.next /\ c.remaining = StripeRowCount(s.next)
          /\ c.remaining \in Nat \ {0}
          /\ InBounds(c) /\ InStep(c) /\ PositionAt(c) = RowsBefore(s.next)
      BY <1>1, <3>2, LoadNextStripeInStep DEF InBounds
    <3>4. c.loaded # None /\ k \in 0..c.remaining
      BY <1>2, <3>2, <3>3 DEF None
    <3> HIDE DEF c
    <3>5. InBounds(d) /\ InStep(d) /\ PositionAt(d) = PositionAt(c) + k
      <4> HIDE DEF k
      <4> QED  BY <1>1, <2>1, <3>3, <3>4, SkipInCurrentStripeInStep
    <3>6. PositionAt(d) = row
      BY <1>1, <3>2, <3>3, <3>5
    <3>7. CursorOK(d, FALSE)
      BY <2>1, <3>5 DEF CursorOK
    <3>8. Rows!Clamp(row) = row
      BY <1>1, <1>2, <2>4 DEF InSplit, Rows!Clamp
    <3> HIDE DEF d
    <3> QED  BY <1>3, <3>1, <3>6, <3>7, <3>8
  <2> QED  BY <1>1, <1>2, <2>2, <2>3, <2>4 DEF InSplit
<1>. QED  BY <1>4, <1>5

(* seekToRow or skipRows, when the load fails: the position is lost.       *)
LEMMA MovedStep ==
    ASSUME IInv, NEW c, Return(c, Moved), range.first < range.last, InBounds(c)
    PROVE  IInv' /\ Rows!Next
<1>1. lost' = TRUE /\ Moved.call = "moved"
  BY DEF Return, Moved
<1>2. CursorOK(c, lost')
  BY <1>1 DEF CursorOK
<1>. QED  BY <1>1, <1>2, ReturnKeeps, LostStep

(* seekToRow, when a load or the skip after it throws.                     *)
LEMMA SeekFailsStep ==
    ASSUME IInv, NEW row \in Targets, SeekFails(row)
    PROVE  IInv' /\ Rows!Next
<1>1. RangeOK /\ CursorOK(cursor, lost) /\ row \in Nat
  BY ReaderAssumption DEF IInv
<1>2. ~IsEmptyFile /\ InSplit(row) /\ Return(Sought(row), Moved)
  BY DEF SeekFails
<1>3. range.first < range.last /\ InBounds(cursor)
  BY <1>1, <1>2, RangeFacts DEF CursorOK
<1>4. InBounds(Sought(row))
  BY <1>1, <1>2, <1>3, SoughtStripe
<1>. QED  BY <1>2, <1>3, <1>4, MovedStep

(* A position in step, by the stripe that would be loaded next.            *)
LEMMA PositionBeforeNext ==
    ASSUME RangeOK, range.first < range.last, NEW c, InBounds(c), InStep(c)
    PROVE  PositionAt(c) = RowsBefore(c.next) - c.remaining
<1>1. range.last \in Nat /\ range.lastRow = RowsBefore(range.last)
      /\ range.first \in Nat /\ range.last <= StripeCount
      /\ stripes \in Seq(Stripe) /\ StripeCount \in Nat
  BY RangeFacts
<1>2. c.next \in range.first..range.last /\ c.remaining \in Nat
  BY DEF InBounds, CursorType
<1>3. c.next \in 0..StripeCount
  BY <1>1, <1>2
<1>4. RowsBefore(c.next) \in Nat
  BY <1>1, <1>3, RowsBeforeFacts
<1>5. CASE c.remaining > 0
  BY <1>5 DEF PositionAt, InStep
<1>6. CASE ~(c.remaining > 0)
  <2>1. c.remaining = 0 /\ (c.next >= range.last => c.next = range.last)
    BY <1>1, <1>2, <1>6
  <2> QED  BY <1>1, <1>4, <1>6, <2>1 DEF PositionAt
<1>. QED  BY <1>5, <1>6

(* Where skipRows goes when the loaded stripe has too few rows left.       *)
LEMMA SkippedStripe ==
    ASSUME RangeOK, range.first < range.last, InBounds(cursor),
           NEW n \in Nat, ~InLoadedStripe(n)
    PROVE  LET c == Skipped(n)
           IN  /\ InBounds(c)
               /\ c.next \in cursor.next..range.last
               /\ c.next >= range.last => c.next = range.last /\ c.remaining = 0
               /\ RowsSkipped(n) =
                    cursor.remaining + RowsBefore(c.next) - RowsBefore(cursor.next)
               /\ RowsSkipped(n) \in Nat /\ RowsSkipped(n) <= n
               /\ c.next < range.last =>
                    n - RowsSkipped(n) \in 0..StripeRowCount(c.next)
               /\ RowsBefore(c.next) \in Nat /\ RowsBefore(cursor.next) \in Nat
<1> DEFINE c == Skipped(n)
           k == n - cursor.remaining
<1>1. /\ range.first \in Nat /\ range.last \in Nat
      /\ range.last <= StripeCount /\ StripeCount \in Nat
      /\ stripes \in Seq(Stripe)
  BY RangeFacts
<1>2. /\ cursor.next \in range.first..range.last /\ cursor.remaining \in Nat
      /\ cursor \in CursorType
  BY DEF InBounds, CursorType
<1>3. k \in Nat /\ cursor.next \in 0..range.last
  BY <1>1, <1>2 DEF InLoadedStripe
<1>4. /\ c.next \in cursor.next..range.last
      /\ RowsBefore(c.next) <= RowsBefore(cursor.next) + k
      /\ c.next = range.last \/ RowsBefore(cursor.next) + k < RowsBefore(c.next + 1)
      /\ c.remaining = IF c.next >= range.last THEN 0 ELSE StripeRowCount(c.next)
      /\ c.loaded = cursor.loaded /\ c.root = cursor.root
      /\ c \in CursorType
  <2>1. c = SkipStripes(cursor, cursor.next, k)
    BY DEF Skipped
  <2> HIDE DEF k, c
  <2> QED  BY <1>2, <1>3, <2>1, SkipStripesStops
<1>5. RowsSkipped(n) = cursor.remaining + RowsBefore(c.next) - RowsBefore(cursor.next)
  BY DEF RowsSkipped
<1> HIDE DEF c
<1>6. InBounds(c)
  BY <1>1, <1>2, <1>4 DEF InBounds
<1>7. /\ RowsBefore(c.next) \in Nat /\ RowsBefore(cursor.next) \in Nat
      /\ RowsBefore(cursor.next) <= RowsBefore(c.next)
  <2>1. /\ cursor.next \in 0..StripeCount /\ c.next \in cursor.next..StripeCount
        /\ c.next \in 0..StripeCount
    BY <1>1, <1>2, <1>4
  <2> QED  BY <1>1, <2>1, RowsBeforeFacts
<1>8. RowsSkipped(n) \in Nat /\ RowsSkipped(n) <= n
  BY <1>2, <1>4, <1>5, <1>7
<1>9. ASSUME c.next < range.last
      PROVE  n - RowsSkipped(n) \in 0..StripeRowCount(c.next)
  <2>1. c.next \in 0..(StripeCount - 1)
    BY <1>1, <1>2, <1>4, <1>9
  <2>2. /\ RowsBefore(c.next + 1) = RowsBefore(c.next) + StripeRowCount(c.next)
        /\ StripeRowCount(c.next) \in Nat
    BY <1>1, <2>1, RowsBeforeFacts
  <2>3. RowsBefore(cursor.next) + k < RowsBefore(c.next + 1)
    BY <1>1, <1>2, <1>4, <1>9
  <2> QED  BY <1>2, <1>5, <1>7, <1>8, <2>2, <2>3
<1>10. c.next >= range.last => c.next = range.last /\ c.remaining = 0
  BY <1>1, <1>2, <1>4
<1>. QED  BY <1>4, <1>5, <1>6, <1>7, <1>8, <1>9, <1>10 DEF c

(* skipRows, when the stripe it goes to can be loaded                      *)
LEMMA SkipRowsStep ==
    ASSUME IInv, NEW n \in Batch, SkipRows(n)
    PROVE  IInv' /\ Rows!Next
<1>1. RangeOK /\ lost \in BOOLEAN /\ CursorOK(cursor, lost) /\ n \in Nat
  BY ReaderAssumption DEF IInv
<1>2. /\ range.first \in Nat /\ range.last \in Nat
      /\ range.firstRow \in Nat /\ range.lastRow \in Nat
      /\ stripes \in Seq(Stripe) /\ StripeCount \in Nat
  BY <1>1, RangeFacts
<1> DEFINE o(r) == [call |-> "skip", ret |-> r]
<1>3. ASSUME NEW c, NEW r, Return(c, o(r)), CursorOK(c, lost),
             ~lost => /\ PositionAt(c) = Rows!Clamp(PositionAt(cursor) + n)
                      /\ r = PositionAt(c) - PositionAt(cursor)
      PROVE  IInv' /\ Rows!Next
  <2>1. lost' = lost /\ o(r).call # "estimate"
    BY <1>3 DEF Return
  <2>2. /\ IInv' /\ out' = o(r) /\ UNCHANGED Rows!fixed
        /\ Position' = PositionAt(c) /\ Position = PositionAt(cursor)
    <3> HIDE DEF o
    <3> QED  BY <1>1, <1>3, <2>1, ReturnKeeps
  <2>3. CASE lost
    BY <2>1, <2>2, <2>3, LostStep
  <2>4. CASE ~lost
    <3>1. Rows!Skip(n)
      BY <1>3, <2>2, <2>4 DEF Rows!Skip
    <3> QED  BY <2>1, <2>2, <2>4, <3>1 DEF Rows!Next
  <2> QED  BY <2>3, <2>4
<1>4. ~lost => /\ PositionAt(cursor) \in Nat
               /\ range.firstRow <= PositionAt(cursor)
               /\ PositionAt(cursor) <= range.lastRow
               /\ AtEnd(cursor) <=> PositionAt(cursor) = range.lastRow
  BY <1>1, PositionInSplit
<1>5. CASE NothingToSkip(n)
  <2>1. Return(cursor, o(0))
    BY <1>5 DEF SkipRows
  <2>2. ASSUME ~lost
        PROVE  /\ PositionAt(cursor) = Rows!Clamp(PositionAt(cursor) + n)
               /\ 0 = PositionAt(cursor) - PositionAt(cursor)
    <3>1. n = 0 \/ PositionAt(cursor) = range.lastRow
      <4>1. IsEmptyFile => range.lastRow = range.firstRow
        BY <1>2 DEF IsEmptyFile
      <4> QED  BY <1>2, <1>4, <1>5, <2>2, <4>1 DEF NothingToSkip
    <3> QED  BY <1>1, <1>2, <1>4, <2>2, <3>1 DEF Rows!Clamp
  <2> QED  BY <1>1, <1>3, <2>1, <2>2
<1>6. CASE ~NothingToSkip(n)
  <2>1. /\ range.first < range.last /\ InBounds(cursor)
        /\ (~lost => InStep(cursor)) /\ n # 0 /\ ~AtEnd(cursor)
        /\ range.lastRow = RowsBefore(range.last)
    BY <1>1, <1>6, RangeFacts DEF CursorOK, NothingToSkip
  <2>2. CASE InLoadedStripe(n)
    <3>1. cursor.remaining \in Nat /\ cursor.remaining > 0 /\ n \in 0..cursor.remaining
      BY <1>1, <2>1, <2>2 DEF InLoadedStripe, InBounds, CursorType
    <3>2. CASE cursor.loaded = None
      <4> DEFINE c == [cursor EXCEPT !.remaining = @ - n]
      <4>1. lost
        BY <2>1, <3>1, <3>2 DEF InStep
      <4>2. Return(c, Error) /\ lost' = lost /\ Error.call # "estimate"
        BY <1>6, <2>2, <3>2 DEF SkipRows, Return, Error
      <4>3. InBounds(c)
        BY <2>1, <3>1 DEF InBounds, CursorType
      <4>4. CursorOK(c, lost')
        BY <2>1, <4>1, <4>2, <4>3 DEF CursorOK
      <4> HIDE DEF c
      <4> QED  BY <1>1, <4>1, <4>2, <4>4, ReturnKeeps, LostStep
    <3>3. CASE cursor.loaded # None
      <4> DEFINE d == SkipInCurrentStripe(cursor, n)
      <4>1. /\ InBounds(d) /\ (InStep(cursor) => InStep(d))
            /\ InStep(cursor) =>
                 /\ ~Overrun(cursor.root, n)
                 /\ PositionAt(d) = PositionAt(cursor) + n
        BY <1>1, <2>1, <3>1, <3>3, SkipInCurrentStripeInStep
      <4>2. CursorOK(d, lost)
        BY <2>1, <4>1 DEF CursorOK
      <4>3. CASE Overrun(cursor.root, n)
        <5>1. Return(d, Error) /\ lost' = lost /\ Error.call # "estimate"
          BY <1>6, <2>2, <3>3, <4>3 DEF SkipRows, Return, Error
        <5>2. lost
          BY <2>1, <4>1, <4>3
        <5> HIDE DEF d
        <5> QED  BY <1>1, <4>2, <5>1, <5>2, ReturnKeeps, LostStep
      <4>4. CASE ~Overrun(cursor.root, n)
        <5>1. Return(d, o(n))
          BY <1>6, <2>2, <3>3, <4>4 DEF SkipRows
        <5> HIDE DEF d
        <5>2. ASSUME ~lost
              PROVE  /\ PositionAt(d) = Rows!Clamp(PositionAt(cursor) + n)
                     /\ n = PositionAt(d) - PositionAt(cursor)
          <6>1. CursorOK(d, FALSE)
            BY <1>1, <4>2, <5>2
          <6>2. PositionAt(d) \in Nat /\ PositionAt(d) <= range.lastRow
            BY <1>1, <6>1, PositionInSplit
          <6> QED  BY <1>1, <1>2, <1>4, <2>1, <4>1, <5>2, <6>2 DEF Rows!Clamp
        <5> QED  BY <1>3, <4>2, <5>1, <5>2
      <4> QED  BY <4>3, <4>4
    <3> QED  BY <3>2, <3>3
  <2>3. CASE ~InLoadedStripe(n)
    <3> DEFINE s == Skipped(n)
               m == RowsSkipped(n)
    <3>1. /\ InBounds(s)
          /\ s.next \in cursor.next..range.last
          /\ s.next >= range.last => s.next = range.last /\ s.remaining = 0
          /\ m = cursor.remaining + RowsBefore(s.next) - RowsBefore(cursor.next)
          /\ m \in Nat /\ m <= n
          /\ s.next < range.last => n - m \in 0..StripeRowCount(s.next)
          /\ RowsBefore(s.next) \in Nat /\ RowsBefore(cursor.next) \in Nat
      BY <1>1, <2>1, <2>3, SkippedStripe
    <3>2. cursor.remaining \in Nat /\ cursor.next \in range.first..range.last
      BY <2>1 DEF InBounds, CursorType
    <3>3. ~lost => PositionAt(cursor) = RowsBefore(cursor.next) - cursor.remaining
      BY <1>1, <2>1, PositionBeforeNext
    <3>4. CASE s.next >= range.last
      <4>1. Return(s, o(m))
        BY <1>6, <2>3, <3>4 DEF SkipRows
      <4> HIDE DEF s, m
      <4>2. InStep(s) /\ PositionAt(s) = range.lastRow
        BY <1>2, <2>1, <3>1, <3>4 DEF InStep, PositionAt
      <4>3. CursorOK(s, lost)
        BY <2>1, <3>1, <4>2 DEF CursorOK
      <4>4. ASSUME ~lost
            PROVE  /\ PositionAt(s) = Rows!Clamp(PositionAt(cursor) + n)
                   /\ m = PositionAt(s) - PositionAt(cursor)
        <5>1. range.lastRow = RowsBefore(s.next)
          BY <2>1, <3>1, <3>4
        <5>2. m = range.lastRow - PositionAt(cursor)
          BY <1>2, <3>1, <3>2, <3>3, <4>4, <5>1
        <5>3. PositionAt(cursor) \in Nat /\ range.firstRow <= range.lastRow
          BY <1>2, <1>4, <4>4
        <5>4. PositionAt(cursor) + n >= range.lastRow
          BY <1>1, <1>2, <3>1, <5>2, <5>3
        <5> HIDE DEF o
        <5>5. Rows!Clamp(PositionAt(cursor) + n) = range.lastRow
          BY <1>1, <1>2, <5>3, <5>4 DEF Rows!Clamp
        <5> QED  BY <4>2, <5>2, <5>5
      <4> QED  BY <1>3, <4>1, <4>3, <4>4
    <3>5. CASE s.next < range.last
      <4> DEFINE c == LoadNextStripe(s)
                 k == n - m
                 d == SkipInCurrentStripe(c, k)
      <4>1. Return(d, o(n))
        <5>1. ~(s.next >= range.last)
          BY <1>2, <3>1, <3>2, <3>5
        <5> QED  BY <1>6, <2>3, <5>1 DEF SkipRows
      <4> HIDE DEF s, m
      <4>2. s.next \in range.first..(range.last - 1)
        BY <1>2, <3>1, <3>2, <3>5, SMTT(30)
      <4>3. /\ c.loaded = s.next /\ c.remaining = StripeRowCount(s.next)
            /\ c.remaining \in Nat \ {0}
            /\ InBounds(c) /\ InStep(c) /\ PositionAt(c) = RowsBefore(s.next)
        BY <1>1, <3>1, <4>2, LoadNextStripeInStep DEF InBounds
      <4>4. c.loaded # None /\ k \in 0..c.remaining
        BY <1>2, <3>1, <3>5, <4>2, <4>3 DEF None
      <4> HIDE DEF c
      <4>5. InBounds(d) /\ InStep(d) /\ PositionAt(d) = PositionAt(c) + k
        <5> HIDE DEF k
        <5> QED  BY <1>1, <2>1, <4>3, <4>4, SkipInCurrentStripeInStep
      <4>6. CursorOK(d, lost) /\ CursorOK(d, FALSE)
        BY <2>1, <4>5 DEF CursorOK
      <4> HIDE DEF d
      <4>7. ASSUME ~lost
            PROVE  /\ PositionAt(d) = Rows!Clamp(PositionAt(cursor) + n)
                   /\ n = PositionAt(d) - PositionAt(cursor)
        <5>1. PositionAt(d) = PositionAt(cursor) + n
          BY <1>1, <1>4, <3>1, <3>2, <3>3, <4>3, <4>5, <4>7
        <5>2. PositionAt(d) \in Nat /\ PositionAt(d) <= range.lastRow
          BY <1>1, <4>6, PositionInSplit
        <5> QED  BY <1>1, <1>2, <1>4, <4>7, <5>1, <5>2 DEF Rows!Clamp
      <4> QED  BY <1>3, <4>1, <4>6, <4>7
    <3> QED  BY <1>2, <3>1, <3>2, <3>4, <3>5
  <2> QED  BY <2>2, <2>3
<1>. QED  BY <1>5, <1>6

(* skipRows, when a load or the skip after it throws.                      *)
LEMMA SkipFailsStep ==
    ASSUME IInv, NEW n \in Batch, SkipFails(n)
    PROVE  IInv' /\ Rows!Next
<1>1. RangeOK /\ CursorOK(cursor, lost) /\ n \in Nat
  BY ReaderAssumption DEF IInv
<1>2. ~NothingToSkip(n) /\ ~InLoadedStripe(n) /\ Return(Skipped(n), Moved)
  BY DEF SkipFails
<1>3. range.first < range.last /\ InBounds(cursor)
  BY <1>1, <1>2, RangeFacts DEF CursorOK, NothingToSkip
<1>4. InBounds(Skipped(n))
  BY <1>1, <1>2, <1>3, SkippedStripe
<1>. QED  BY <1>2, <1>3, <1>4, MovedStep

(* loadStripeIfAny                                                         *)
LEMMA LoadStripeIfAnyStep ==
    ASSUME IInv, LoadStripeIfAny
    PROVE  IInv' /\ Rows!Next
<1> DEFINE o == [call |-> "load"]
           c == IF cursor.next < range.last THEN LoadNextStripe(cursor) ELSE cursor
<1>1. RangeOK /\ lost \in BOOLEAN /\ CursorOK(cursor, lost)
  BY DEF IInv
<1>2. /\ range.first \in Nat /\ range.last \in Nat
      /\ stripes \in Seq(Stripe) /\ StripeCount \in Nat
  BY <1>1, RangeFacts
<1>3. Return(c, o) /\ lost' = lost /\ o.call # "estimate"
  BY DEF LoadStripeIfAny, Return
<1>4. ASSUME CursorOK(c, lost),
             ~lost => \/ PositionAt(c) = PositionAt(cursor)
                      \/ \E b \in {RowsBefore(i) : i \in 0..StripeCount} :
                           /\ PositionAt(c) = b /\ b > PositionAt(cursor)
                           /\ b < range.lastRow
                           /\ \A a \in {RowsBefore(i) : i \in 0..StripeCount} :
                                a <= PositionAt(cursor) \/ a >= b
      PROVE  IInv' /\ Rows!Next
  <2> HIDE DEF c, o
  <2>1. /\ IInv' /\ out' = o /\ UNCHANGED Rows!fixed
        /\ Position' = PositionAt(c) /\ Position = PositionAt(cursor)
    BY <1>1, <1>3, <1>4, ReturnKeeps
  <2>2. CASE lost
    BY <1>3, <2>1, <2>2, LostStep
  <2>3. CASE ~lost
    <3>1. Rows!LoadStripe
      BY <1>4, <2>1, <2>3 DEF Rows!LoadStripe, o
    <3> QED  BY <1>3, <2>1, <2>3, <3>1 DEF Rows!Next
  <2> QED  BY <2>2, <2>3
<1>5. CASE ~(cursor.next < range.last)
  BY <1>1, <1>4, <1>5
<1>6. CASE cursor.next < range.last
  <2>1. range.first < range.last
    BY <1>1, <1>2, <1>6, RangeFacts DEF CursorOK, AtRest, EmptySplit
  <2>2. /\ InBounds(cursor) /\ (~lost => InStep(cursor))
        /\ range.last <= StripeCount /\ range.lastRow = RowsBefore(range.last)
    BY <1>1, <2>1, RangeFacts DEF CursorOK
  <2>3. /\ cursor.next \in range.first..(range.last - 1)
        /\ cursor.remaining \in Nat
    BY <1>2, <1>6, <2>2 DEF InBounds, CursorType
  <2>4. InBounds(c) /\ InStep(c) /\ PositionAt(c) = RowsBefore(cursor.next)
    BY <1>1, <1>6, <2>2, <2>3, LoadNextStripeInStep DEF InBounds
  <2> HIDE DEF c
  <2>5. CursorOK(c, lost)
    BY <2>1, <2>4 DEF CursorOK
  <2>6. ASSUME ~lost
        PROVE  \/ PositionAt(c) = PositionAt(cursor)
               \/ \E b \in {RowsBefore(i) : i \in 0..StripeCount} :
                    /\ PositionAt(c) = b /\ b > PositionAt(cursor)
                    /\ b < range.lastRow
                    /\ \A a \in {RowsBefore(i) : i \in 0..StripeCount} :
                         a <= PositionAt(cursor) \/ a >= b
    <3> DEFINE b == RowsBefore(cursor.next)
    <3>1. PositionAt(cursor) = b - cursor.remaining
      BY <1>1, <2>1, <2>2, <2>6, PositionBeforeNext
    <3>2. /\ cursor.next \in 0..StripeCount /\ b \in Nat
          /\ range.last \in cursor.next..StripeCount /\ b < range.lastRow
      <4>1. /\ cursor.next \in 0..StripeCount /\ cursor.next < range.last
            /\ range.last \in cursor.next..StripeCount
        BY <1>2, <2>2, <2>3
      <4> QED  BY <1>2, <2>2, <4>1, RowsBeforeFacts
    <3>3. CASE cursor.remaining = 0
      BY <2>4, <3>1, <3>2, <3>3
    <3>4. CASE cursor.remaining # 0
      <4>1. /\ cursor.next = cursor.loaded + 1 /\ cursor.loaded \in Nat
            /\ cursor.root.row = StripeRowCount(cursor.loaded) - cursor.remaining
            /\ cursor.root.row \in Nat
        BY <2>2, <2>3, <2>6, <3>4 DEF InStep, InBounds, CursorType
      <4>2. /\ b = RowsBefore(cursor.loaded) + StripeRowCount(cursor.loaded)
            /\ StripeRowCount(cursor.loaded) \in Nat
            /\ RowsBefore(cursor.loaded) \in Nat
        <5>1. cursor.loaded \in 0..(StripeCount - 1) /\ cursor.loaded \in 0..StripeCount
          BY <1>2, <3>2, <4>1
        <5> QED  BY <1>2, <4>1, <5>1, RowsBeforeFacts
      <4>3. RowsBefore(cursor.loaded) <= PositionAt(cursor) /\ b > PositionAt(cursor)
            /\ PositionAt(cursor) \in Int
        BY <2>3, <3>1, <3>2, <3>4, <4>1, <4>2
      <4>4. ASSUME NEW i \in 0..StripeCount
            PROVE  RowsBefore(i) <= PositionAt(cursor) \/ RowsBefore(i) >= b
        <5>1. RowsBefore(i) \in Nat
          BY <1>2, RowsBeforeFacts
        <5>2. CASE i <= cursor.loaded
          <6>1. cursor.loaded \in i..StripeCount
            BY <1>2, <3>2, <4>1, <5>2
          <6>2. RowsBefore(i) <= RowsBefore(cursor.loaded)
            BY <1>2, <6>1, RowsBeforeFacts
          <6> QED  BY <4>2, <4>3, <5>1, <6>2
        <5>3. CASE ~(i <= cursor.loaded)
          <6>1. i \in cursor.next..StripeCount
            BY <1>2, <3>2, <4>1, <5>3
          <6>2. b <= RowsBefore(i)
            BY <1>2, <3>2, <6>1, RowsBeforeFacts
          <6> QED  BY <3>2, <5>1, <6>2
        <5> QED  BY <5>2, <5>3
      <4>5. b \in {RowsBefore(i) : i \in 0..StripeCount}
        BY <3>2
      <4> HIDE DEF b
      <4> QED  BY <2>4, <3>2, <4>3, <4>4, <4>5 DEF b
    <3> QED  BY <3>3, <3>4
  <2> QED  BY <1>4, <2>5, <2>6
<1>. QED  BY <1>5, <1>6

(* estimatedRowSize                                                        *)
LEMMA EstimatedRowSizeStep ==
    ASSUME IInv, EstimatedRowSize
    PROVE  IInv' /\ Rows!Next
<1>1. /\ RangeOK /\ lost \in BOOLEAN /\ CursorOK(cursor, lost)
      /\ estimate \in [index : Nat \cup {None}, of : Nat \cup {None}]
      /\ estimate.of = estimate.index
  BY DEF IInv, EstimateOK
<1>2. /\ cursor.root.stripe = cursor.loaded
      /\ cursor.loaded \in Nat \cup {None}
  BY <1>1 DEF CursorOK, InBounds, AtRest, CursorType
<1>3. /\ UNCHANGED <<stripes, range, cursor, lost>>
      /\ out'.call = "estimate"
  BY DEF EstimatedRowSize
<1> DEFINE e == IF estimate.index # cursor.loaded
                THEN [index |-> cursor.loaded, of |-> cursor.root.stripe]
                ELSE estimate
           known == cursor.loaded # None /\ cursor.remaining > 0
<1>4. /\ e \in [index : Nat \cup {None}, of : Nat \cup {None}]
      /\ e.of = cursor.loaded /\ e.index = cursor.loaded
  BY <1>1, <1>2
<1>5. /\ estimate' = IF known THEN e ELSE estimate
      /\ out' = [call |-> "estimate", of |-> IF known THEN e.of ELSE None]
  BY DEF EstimatedRowSize
<1>6. EstimateOK' /\ EstimateIsCurrent'
  <2> HIDE DEF e, known
  <2>1. EstimateOK'
    BY <1>1, <1>4, <1>5 DEF EstimateOK
  <2>2. EstimateIsCurrent'
    BY <1>3, <1>4, <1>5 DEF EstimateIsCurrent
  <2> QED  BY <2>1, <2>2
<1>7. \A i : RowsBefore(i)' = RowsBefore(i)
  BY <1>3 DEF RowsBefore
<1>8. StripeCount' = StripeCount
  BY <1>3 DEF StripeCount
<1>9. RangeOK'
  BY <1>1, <1>3, <1>7, <1>8 DEF RangeOK, EmptySplit
<1>10. CursorOK(cursor, lost)'
  BY <1>1, <1>3 DEF CursorOK, InBounds, InStep, AtRest, StripeRowCount
<1>11. Position' = Position
  BY <1>3, <1>7 DEF Position
<1>12. UNCHANGED Rows!fixed
  BY <1>3, <1>7, <1>8 DEF Rows!fixed
<1>13. IInv'
  BY <1>1, <1>3, <1>6, <1>9, <1>10 DEF IInv
<1>14. CASE lost
  BY <1>3, <1>12, <1>13, <1>14, LostStep
<1>15. CASE ~lost
  <2>1. Rows!Observe
    BY <1>3, <1>11, <1>12 DEF Rows!Observe
  <2> QED  BY <1>3, <1>13, <1>15, <2>1 DEF Rows!Next
<1>. QED  BY <1>14, <1>15

-----------------------------------------------------------------------------
(* The constructor                                                         *)

Mine(start, end) == {i \in 0..(StripeCount - 1) : InRange(i, start, end)}

(* As offsets grow, the stripes that start in a split are consecutive.     *)
LEMMA SplitOfIsRange ==
    ASSUME stripes \in Seq(Stripe), NEW start \in Nat, NEW end \in Nat
    PROVE  LET r == SplitOf(start, end)
           IN  /\ Mine(start, end) = {} =>
                    r = [first |-> StripeCount, last |-> 0,
                         firstRow |-> 0, lastRow |-> 0]
               /\ Mine(start, end) # {} =>
                    /\ r.first \in Nat /\ r.last \in Nat
                    /\ r.first < r.last /\ r.last <= StripeCount
                    /\ r = [first |-> r.first, last |-> r.last,
                            firstRow |-> RowsBefore(r.first),
                            lastRow |-> RowsBefore(r.last)]
               /\ r.first..(r.last - 1) = Mine(start, end)
<1> DEFINE mine == Mine(start, end)
           first == CHOOSE i \in mine : \A j \in mine : i <= j
           last == CHOOSE i \in mine : \A j \in mine : j <= i
           r == SplitOf(start, end)
<1>1. r = IF mine = {}
          THEN [first |-> StripeCount, last |-> 0, firstRow |-> 0, lastRow |-> 0]
          ELSE [first |-> first, last |-> last + 1,
                firstRow |-> RowsBefore(first), lastRow |-> RowsBefore(last + 1)]
  BY DEF SplitOf, Mine
<1> HIDE DEF r
<1>2. StripeCount \in Nat
  BY RowsBeforeFacts
<1>3. mine \subseteq 0..(StripeCount - 1)
  BY DEF Mine
<1>4. CASE mine = {}
  <2>1. r.first = StripeCount /\ r.last = 0
    BY <1>1, <1>4
  <2>2. r.first..(r.last - 1) = {}
    BY <1>2, <2>1
  <2> QED  BY <1>1, <1>4, <2>2 DEF r
<1>5. CASE mine # {}
  <2> HIDE DEF mine
  <2>1. mine \in SUBSET Nat /\ mine \in SUBSET (0..StripeCount)
    BY <1>2, <1>3
  <2>2. first \in mine /\ \A j \in mine : first <= j
    BY <1>5, <2>1, LeastNat
  <2>3. last \in mine /\ \A j \in mine : j <= last
    BY <1>2, <1>5, <2>1, GreatestNat
  <2> HIDE DEF first, last
  <2>4. r.first = first /\ r.last = last + 1
    BY <1>1, <1>5
  <2>5. /\ first \in 0..(StripeCount - 1) /\ last \in 0..(StripeCount - 1)
        /\ first <= last
    BY <1>3, <2>2, <2>3
  <2>6. first..last = mine
    <3>1. mine \subseteq first..last
      BY <2>1, <2>2, <2>3, <2>5
    <3>2. ASSUME NEW i \in first..last PROVE i \in mine
      <4>1. /\ i \in 0..(StripeCount - 1) /\ i \in first..StripeCount
            /\ last \in i..StripeCount /\ i \in 0..StripeCount
            /\ first \in 0..StripeCount /\ last \in 0..StripeCount
        BY <1>2, <2>5
      <4>2. /\ StripeOffset(first) <= StripeOffset(i)
            /\ StripeOffset(i) <= StripeOffset(last)
            /\ StripeOffset(i) \in Nat /\ StripeOffset(first) \in Nat
            /\ StripeOffset(last) \in Nat
        BY <4>1, StripeOffsetFacts
      <4>3. StripeOffset(first) >= start /\ StripeOffset(last) < end
        BY <2>2, <2>3 DEF mine, Mine, InRange
      <4> QED  BY <4>1, <4>2, <4>3 DEF mine, Mine, InRange
    <3> QED  BY <3>1, <3>2
  <2>7. r.first..(r.last - 1) = mine
    <3>1. r.last - 1 = last
      BY <2>4, <2>5
    <3> QED  BY <2>4, <2>6, <3>1
  <2>8. /\ r.first \in Nat /\ r.last \in Nat
        /\ r.first < r.last /\ r.last <= StripeCount
    BY <1>2, <2>4, <2>5
  <2> QED  BY <1>1, <1>5, <2>4, <2>7, <2>8 DEF mine, r
<1>. QED  BY <1>4, <1>5

(* A new reader stands before the first stripe of its split.               *)
LEMMA InitIInv == Init => IInv
<1> SUFFICES ASSUME Init PROVE IInv
  OBVIOUS
<1>1. stripes \in Seq(Stripe)
  <2>1. PICK n \in 0..MaxStripes : stripes \in [1..n -> Stripe]
    BY DEF Init
  <2>2. n \in Nat
    BY ReaderAssumption
  <2> QED  BY <2>1, <2>2
<1>2. StripeCount \in Nat /\ \A i \in 0..StripeCount : RowsBefore(i) \in Nat
  BY <1>1, RowsBeforeFacts
<1>3. PICK start, end \in Offsets : range = SplitOf(start, end)
  BY DEF Init
<1>4. start \in Nat /\ end \in Nat
  <2>1. StripeOffset(StripeCount) \in Nat
    BY <1>1, <1>2, StripeOffsetFacts
  <2> QED  BY <2>1 DEF Offsets
<1>5. RangeOK
  <2>1. CASE Mine(start, end) = {}
    <3>1. range = [first |-> StripeCount, last |-> 0, firstRow |-> 0, lastRow |-> 0]
      BY <1>1, <1>3, <1>4, <2>1, SplitOfIsRange
    <3> QED  BY <1>1, <1>2, <3>1 DEF RangeOK, EmptySplit
  <2>2. CASE Mine(start, end) # {}
    <3>1. /\ range.first \in Nat /\ range.last \in Nat
          /\ range.first < range.last /\ range.last <= StripeCount
          /\ range = [first |-> range.first, last |-> range.last,
                      firstRow |-> RowsBefore(range.first),
                      lastRow |-> RowsBefore(range.last)]
      BY <1>1, <1>3, <1>4, <2>2, SplitOfIsRange
    <3>2. range.first \in 0..StripeCount /\ range.last \in 0..StripeCount
      BY <1>2, <3>1
    <3>3. RowsBefore(range.first) \in Nat /\ RowsBefore(range.last) \in Nat
      BY <1>2, <3>2
    <3> QED  BY <1>1, <3>1, <3>3 DEF RangeOK
  <2> QED  BY <2>1, <2>2
<1>6. range.first \in Nat /\ range.last \in Nat
  BY <1>5 DEF RangeOK
<1>7. cursor = [next |-> range.first, remaining |-> 0, loaded |-> None,
                root |-> [stripe |-> None, row |-> 0]] /\ lost = FALSE
  BY DEF Init
<1>8. CursorOK(cursor, lost)
  BY <1>6, <1>7 DEF CursorOK, InBounds, InStep, AtRest, CursorType
<1>9. EstimateOK /\ EstimateIsCurrent
  BY DEF Init, EstimateOK, EstimateIsCurrent
<1>. QED  BY <1>5, <1>7, <1>8, <1>9 DEF IInv

(* Every step keeps the invariant and is a step of the row cursor.         *)
LEMMA NextStep == IInv /\ Next => IInv' /\ Rows!Next
<1> SUFFICES ASSUME IInv, Next PROVE IInv' /\ Rows!Next
  OBVIOUS
<1>1. CASE \E n \in Batch : NextBatch(n)
  BY <1>1, NextBatchStep
<1>2. CASE \E n \in Batch : SkipRows(n)
  BY <1>2, SkipRowsStep
<1>3. CASE \E row \in Targets : SeekToRow(row)
  BY <1>3, SeekToRowStep
<1>4. CASE LoadStripeIfAny
  BY <1>4, LoadStripeIfAnyStep
<1>5. CASE EstimatedRowSize
  BY <1>5, EstimatedRowSizeStep
<1>6. CASE NextFails
  BY <1>6, FailedStep DEF NextFails
<1>7. CASE LoadFails
  BY <1>7, FailedStep DEF LoadFails
<1>8. CASE \E row \in Targets : SeekFails(row)
  BY <1>8, SeekFailsStep
<1>9. CASE \E n \in Batch : SkipFails(n)
  BY <1>9, SkipFailsStep
<1>. QED  BY <1>1, <1>2, <1>3, <1>4, <1>5, <1>6, <1>7, <1>8, <1>9 DEF Next

(* A step that changes nothing.                                            *)
LEMMA StutterStep ==
    IInv /\ UNCHANGED vars => IInv' /\ UNCHANGED Rows!vars
<1> SUFFICES ASSUME IInv, UNCHANGED vars PROVE IInv' /\ UNCHANGED Rows!vars
  OBVIOUS
<1>1. UNCHANGED <<stripes, range, cursor, estimate, out, lost>>
  BY DEF vars
<1>2. \A i : RowsBefore(i)' = RowsBefore(i)
  BY <1>1 DEF RowsBefore
<1>3. StripeCount' = StripeCount
  BY <1>1 DEF StripeCount
<1>4. RangeOK'
  BY <1>1, <1>2, <1>3 DEF IInv, RangeOK, EmptySplit
<1>5. CursorOK(cursor, lost)'
  BY <1>1 DEF IInv, CursorOK, InBounds, InStep, AtRest, StripeRowCount
<1>6. EstimateOK' /\ EstimateIsCurrent'
  BY <1>1 DEF IInv, EstimateOK, EstimateIsCurrent
<1>7. Position' = Position
  BY <1>1, <1>2 DEF Position
<1>. QED  BY <1>1, <1>2, <1>3, <1>4, <1>5, <1>6, <1>7 DEF IInv, Rows!vars, Rows!fixed

-----------------------------------------------------------------------------
(* Theorems                                                                *)

(* The invariant holds of every reachable state.                           *)
THEOREM ReaderInvariant == Spec => []IInv
<1>1. IInv /\ [Next]_vars => IInv'
  BY NextStep, StutterStep
<1>. QED  BY <1>1, InitIInv, PTL DEF Spec

(* The counters of the cursor are typed; rowsRemainingInStripe_ never goes *)
(* below zero, whatever next, seekToRow and skipRows are asked for.        *)
THEOREM ReaderTypeCorrect == Spec => []TypeOK
<1>1. IInv => TypeOK
  <2> SUFFICES ASSUME IInv PROVE TypeOK
    OBVIOUS
  <2>1. /\ stripes \in Seq(Stripe) /\ lost \in BOOLEAN
        /\ range \in [first : Nat, last : Nat, firstRow : Nat, lastRow : Nat]
    BY DEF IInv, RangeOK
  <2>2. cursor \in CursorType
    BY DEF IInv, CursorOK, InBounds, AtRest
  <2>3. estimate \in [index : Nat \cup {None}, of : Int]
    BY DEF IInv, EstimateOK, None
  <2> QED  BY <2>1, <2>2, <2>3 DEF TypeOK
<1>. QED  BY <1>1, ReaderInvariant, PTL

(* rootReader_ stands at the row the counters of the cursor point at,      *)
(* whatever the calls were, unless a seek or skip failed.                  *)
THEOREM ReaderRootAtCursor == Spec => []RootAtCursor
<1>1. IInv => RootAtCursor
  <2> SUFFICES ASSUME IInv, cursor.remaining > 0, ~lost
               PROVE  /\ cursor.next = cursor.loaded + 1
                      /\ cursor.root = [stripe |-> cursor.loaded,
                                        row |-> StripeRowCount(cursor.loaded)
                                                  - cursor.remaining]
    BY DEF RootAtCursor
  <2>1. InBounds(cursor) /\ InStep(cursor)
    BY DEF IInv, CursorOK, AtRest
  <2>2. /\ cursor.root \in [stripe : Nat \cup {None}, row : Nat]
        /\ cursor.root.stripe = cursor.loaded
    BY <2>1 DEF InBounds, CursorType
  <2> QED  BY <2>1, <2>2 DEF InStep
<1>. QED  BY <1>1, ReaderInvariant, PTL

(* Once a stripe is loaded, getRowNumber is the row next starts with; its  *)
(* DWIO_ENSURE_GT never throws.                                            *)
THEOREM ReaderRowNumber == Spec => []RowNumberOnceLoaded
<1>1. IInv => RowNumberOnceLoaded
  <2> SUFFICES ASSUME IInv, cursor.loaded # None, ~lost
               PROVE  GetRowNumber = Position
    BY DEF RowNumberOnceLoaded
  <2>1. InBounds(cursor) /\ InStep(cursor)
    BY DEF IInv, CursorOK, AtRest
  <2>2. cursor.remaining \in Nat /\ cursor.next > 0
    BY <2>1 DEF InBounds, InStep, CursorType
  <2>3. CASE cursor.remaining > 0
    BY <2>3 DEF GetRowNumber, Position, AtEnd
  <2>4. CASE cursor.remaining = 0
    BY <2>2, <2>4 DEF GetRowNumber, Position, AtEnd
  <2> QED  BY <2>2, <2>3, <2>4
<1>. QED  BY <1>1, ReaderInvariant, PTL

(* A row size estimate is of the loaded stripe, also when it comes from    *)
(* the cache.                                                              *)
THEOREM ReaderEstimateIsCurrent == Spec => []EstimateIsCurrent
<1>1. IInv => EstimateIsCurrent
  BY DEF IInv
<1>. QED  BY <1>1, ReaderInvariant, PTL

(* Splits that meet partition the stripes of the file, wherever it is cut. *)
THEOREM ReaderSplitsPartition == Spec => []SplitsPartition
<1> DEFINE Members(start, end) ==
             SplitOf(start, end).first..(SplitOf(start, end).last - 1)
<1>1. ASSUME IInv, NEW a \in Offsets, NEW b \in Offsets, NEW c \in Offsets,
             a <= b, b <= c
      PROVE  /\ Members(a, c) = Members(a, b) \cup Members(b, c)
             /\ Members(a, b) \cap Members(b, c) = {}
             /\ a = 0 /\ c > StripeOffset(StripeCount) =>
                  Members(a, c) = 0..(StripeCount - 1)
  <2>1. stripes \in Seq(Stripe)
    BY <1>1 DEF IInv, RangeOK
  <2>2. StripeCount \in Nat
    BY <2>1, RowsBeforeFacts
  <2>3. \A i \in 0..StripeCount : StripeOffset(i) \in Nat
                                  /\ StripeOffset(i) <= StripeOffset(StripeCount)
    BY <2>1, <2>2, StripeOffsetFacts
  <2>4. a \in Nat /\ b \in Nat /\ c \in Nat
    <3>1. StripeOffset(StripeCount) \in Nat
      BY <2>2, <2>3
    <3> QED  BY <3>1 DEF Offsets
  <2>5. /\ Members(a, c) = Mine(a, c)
        /\ Members(a, b) = Mine(a, b)
        /\ Members(b, c) = Mine(b, c)
    BY <2>1, <2>4, SplitOfIsRange
  <2> HIDE DEF Members
  <2>6. \A i \in 0..(StripeCount - 1) : StripeOffset(i) \in Nat
    BY <2>2, <2>3
  <2>7. Mine(a, c) = Mine(a, b) \cup Mine(b, c)
    BY <1>1, <2>4, <2>6 DEF Mine, InRange
  <2>8. Mine(a, b) \cap Mine(b, c) = {}
    BY <1>1, <2>4, <2>6 DEF Mine, InRange
  <2>9. ASSUME a = 0, c > StripeOffset(StripeCount)
        PROVE  Mine(a, c) = 0..(StripeCount - 1)
    <3>1. \A i \in 0..(StripeCount - 1) :
            StripeOffset(i) >= a /\ StripeOffset(i) < c
      BY <2>2, <2>3, <2>4, <2>9
    <3> QED  BY <3>1 DEF Mine, InRange
  <2> QED  BY <2>5, <2>7, <2>8, <2>9
<1>2. IInv => SplitsPartition
  BY <1>1 DEF SplitsPartition
<1>. QED  BY <1>2, ReaderInvariant, PTL

(* The reader implements the row cursor: every call reads, seeks or skips  *)
(* the rows that RowCursor says, up to a failed seek or skip and again     *)
(* from the next seek on.                                                  *)
THEOREM ReaderImplementsRowCursor == Spec => ImplementsRowCursor
<1>1. Init => Rows!Init
  <2> SUFFICES ASSUME Init PROVE Rows!Init
    OBVIOUS
  <2>1. IInv /\ ~lost
    BY InitIInv DEF Init
  <2>2. RangeOK /\ CursorOK(cursor, FALSE)
    BY <2>1 DEF IInv
  <2>3. /\ range.first \in Nat /\ range.last \in Nat
        /\ range.firstRow \in Nat /\ range.lastRow \in Nat
        /\ range.first < range.last => range.firstRow = RowsBefore(range.first)
        /\ range.first < range.last => range.firstRow < range.lastRow
        /\ ~(range.first < range.last) => range.firstRow = 0 /\ range.lastRow = 0
    BY <2>2, RangeFacts DEF EmptySplit
  <2>4. cursor.remaining = 0 /\ cursor.next = range.first
    BY DEF Init
  <2>5. Position = range.firstRow
    BY <2>3, <2>4 DEF Position
  <2>6. range.firstRow <= range.lastRow
    BY <2>3
  <2> QED  BY <2>3, <2>5, <2>6 DEF Init, Rows!Init
<1>2. IInv /\ [Next]_vars => [Rows!Next]_(Rows!vars)
  BY NextStep, StutterStep
<1>. QED  BY <1>1, <1>2, ReaderInvariant, PTL DEF Spec, ImplementsRowCursor, Rows!Spec
=============================================================================
