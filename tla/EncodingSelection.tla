------------------------- MODULE EncodingSelection -------------------------
(***************************************************************************)
(* Which encoding a piece of data gets.  Statistics are taken of it, and a *)
(* policy looks at them: the manual one estimates the size of every        *)
(* encoding it may use and takes the cheapest, the learned one always says *)
(* Trivial, and the replayed one repeats a captured layout.  A policy also *)
(* makes the policies of the nested streams of the encoding it picked.     *)
(*                                                                         *)
(* Data is a sequence of numbers, of strings (sequences of characters) or  *)
(* of Booleans; its type is "Number", "String" or "Bool".                  *)
(***************************************************************************)
EXTENDS Varints, FiniteSets, FiniteSetsExt

CONSTANTS
    ByteBits,    \* bits of a byte
    NumberBits   \* bits of a number

ASSUME WidthAssumption ==
    ByteBits \in Nat \ {0} /\ NumberBits \in Nat \ {0}

-----------------------------------------------------------------------------
(* Statistics.  What the code computes when it is first asked for is       *)
(* computed here from the data.                                            *)

Zero(type) == CASE type = "Number" -> 0 [] type = "String" -> <<>> [] OTHER -> FALSE

(* common/Rle.h, computeRuns.                                              *)
RunsFrom(values, from) ==
    LET next(k) == IF k = Len(from) THEN Len(values) + 1 ELSE from[k + 1]
    IN  [lengths |-> [k \in DOMAIN from |-> next(k) - from[k]],
         values |-> [k \in DOMAIN from |-> values[from[k]]]]

ComputeRuns(values) ==
    RunsFrom(values, SetToSortSeq({i \in DOMAIN values :
                                     i = 1 \/ values[i - 1] # values[i]}, <))

RunLengths(values) == ComputeRuns(values).lengths
RunValues(values) == ComputeRuns(values).values

(* populateRepeats, and create for no data.                                *)
ConsecutiveRepeatCount(values) == Len(RunLengths(values))
MinRepeat(values) == Min(ToSet(RunLengths(values)) \cup IF values = <<>> THEN {0} ELSE {})
MaxRepeat(values) == Max(ToSet(RunLengths(values)) \cup {0})

(* populateMinMax: of strings, the first shortest and the first longest.   *)
MinOf(type, values) ==
    IF values = <<>> THEN Zero(type)
    ELSE IF type = "Number" THEN Min(ToSet(values))
    ELSE values[Min({i \in DOMAIN values :
                       \A j \in DOMAIN values : Len(values[i]) <= Len(values[j])})]
MaxOf(type, values) ==
    IF values = <<>> THEN Zero(type)
    ELSE IF type = "Number" THEN Max(ToSet(values))
    ELSE values[Min({i \in DOMAIN values :
                       \A j \in DOMAIN values : Len(values[i]) >= Len(values[j])})]

(* populateUniques: the counts of the values; `at' is 0 for a value the    *)
(* data does not have.  The order of the hash map is some order.           *)
UniqueCount(values, v) == Cardinality({i \in DOMAIN values : values[i] = v})
Uniques(values) == ToSet(values)
UniqueOrder(values) == SetToSeq(Uniques(values))
Commonest(values) ==
    CHOOSE v \in Uniques(values) :
      \A w \in Uniques(values) : UniqueCount(values, w) <= UniqueCount(values, v)

TotalStringsLength(values) == FoldSeq(LAMBDA v, n : n + Len(v), 0, values)

(* bits::bitsRequired is at least 1; the buckets use the significant bits, *)
(* which are 0 for 0.                                                      *)
SignificantBits(v) == Min({b \in 0..NumberBits : v < 2^b})
BitsRequired(v) == Max({1, SignificantBits(v)})

(* populateBucketCounts: the values above the minimum by the number of     *)
(* groups they take, the first bucket with zero.                           *)
(* Mutant: the largest value of a bucket is counted to the next.           *)
BucketCounts_HalfOpen(values) ==
    LET min == MinOf("Number", values)
    IN  [k \in 1..(NumberBits \div GroupBits + 1) |->
            Cardinality({i \in DOMAIN values :
                           SignificantBits(values[i] - min)
                             \in ((k - 1) * GroupBits)..(k * GroupBits - 1)})]

BucketCounts(values) ==
    LET min == MinOf("Number", values)
        low(k) == IF k = 1 THEN 0 ELSE (k - 1) * GroupBits + 1
    IN  [k \in 1..(NumberBits \div GroupBits + 1) |->
            Cardinality({i \in DOMAIN values :
                           SignificantBits(values[i] - min) \in low(k)..(k * GroupBits)})]

(* The bytes a varint stream takes, from the buckets.                      *)
VarintBytes(values) ==
    LET weighted(buckets) == [k \in DOMAIN buckets |-> k * buckets[k]]
    IN  SumFunction(weighted(BucketCounts(values)))

-----------------------------------------------------------------------------
(* ManualEncodingSelectionPolicy: estimates.                               *)

ByteWidth(max) == ((BitsRequired(max) + ByteBits - 1) \div ByteBits) * ByteBits
BitPackedBytes(min, max, count) ==
    (ByteWidth(max - min) * count + ByteBits - 1) \div ByteBits

SizeOf(type) == CASE type = "Number" -> 4 [] type = "String" -> 16 [] OTHER -> 1

(* getEncodingOverhead.                                                    *)
Overhead(enc, type, size) ==
    6 + CASE enc = "Trivial" -> IF type = "String" THEN 12 + 5 ELSE 1
          [] enc = "Constant" -> IF type = "String" THEN size + 4 ELSE SizeOf(type)
          [] enc = "FixedBitWidth" -> 2 + SizeOf(type)
          [] enc = "MainlyConstant" ->
               8 + IF type = "String" THEN size + 4 ELSE SizeOf(type)
          [] enc = "SparseBool" -> 1
          [] enc = "Varint" -> SizeOf(type)
          [] OTHER -> 4

NoSize == -1  \* std::nullopt: the encoding is incompatible

Uncommon(values) == Len(values) - UniqueCount(values, Commonest(values))
Alphabet(values) == TotalStringsLength(UniqueOrder(values))
Packed == Overhead("FixedBitWidth", "Number", 4)

RunLengthsSize(values) ==
    BitPackedBytes(MinRepeat(values), MaxRepeat(values), ConsecutiveRepeatCount(values))

EstimateNumericSize(enc, values) ==
    LET n == Len(values)
        uniques == Cardinality(Uniques(values))
        packed(count) == BitPackedBytes(MinOf("Number", values), MaxOf("Number", values), count)
        over(e) == Overhead(e, "Number", 4)
    IN  CASE enc = "Constant" -> IF uniques = 1 THEN over(enc) ELSE NoSize
          [] enc = "MainlyConstant" ->
               over(enc) + Packed + Overhead("SparseBool", "Bool", 1) + Packed + 4
                 + packed(Uncommon(values)) + BitPackedBytes(0, n, Uncommon(values))
          [] enc = "Trivial" -> over(enc) + n * 4
          [] enc = "FixedBitWidth" -> over(enc) + packed(n)
          [] enc = "Dictionary" ->
               over(enc) + over("Trivial") + Packed + uniques * 4
                 + BitPackedBytes(0, uniques, n)
          [] enc = "RLE" ->
               over(enc) + Packed + Packed + packed(ConsecutiveRepeatCount(values))
                 + RunLengthsSize(values)
          [] enc = "Varint" -> over(enc) + VarintBytes(values)
          [] OTHER -> NoSize

EstimateBoolSize(enc, values) ==
    LET n == Len(values)
        over == Overhead(enc, "Bool", 1)
    IN  CASE enc = "Constant" ->
               IF Cardinality(Uniques(values)) = 1 THEN over ELSE NoSize
          [] enc = "SparseBool" ->
               over + Packed + 1
                 + BitPackedBytes(0, n, Min({UniqueCount(values, TRUE),
                                             UniqueCount(values, FALSE)}))
          [] enc = "Trivial" -> over + BitPackedBytes(0, 1, n)
          [] enc = "RLE" -> over + Packed + 1 + RunLengthsSize(values)
          [] OTHER -> NoSize

EstimateStringSize(enc, values) ==
    LET n == Len(values)
        uniques == Cardinality(Uniques(values))
        longest == Len(MaxOf("String", values))
        lengths(count) == BitPackedBytes(Len(MinOf("String", values)), longest, count)
        common == Len(Commonest(values))
        over(e) == Overhead(e, "String", longest)
    IN  CASE enc = "Constant" -> IF uniques = 1 THEN over(enc) ELSE NoSize
          [] enc = "MainlyConstant" ->
               Overhead(enc, "String", common) + over("Trivial")
                 + Overhead("SparseBool", "Bool", 1)
                 + Alphabet(values) - common + lengths(uniques)
                 + BitPackedBytes(0, n, Uncommon(values))
          [] enc = "Trivial" -> over(enc) + TotalStringsLength(values) + lengths(n)
          [] enc = "Dictionary" ->
               over(enc) + over("Trivial") + Packed + Alphabet(values)
                 + lengths(uniques) + BitPackedBytes(0, uniques, n)
          [] enc = "RLE" ->
               LET runs == ConsecutiveRepeatCount(values)
               IN  over(enc) + over("Dictionary") + over("Trivial") + Packed + Packed
                     + Alphabet(values) + lengths(runs) + BitPackedBytes(0, uniques, runs)
                     + RunLengthsSize(values)
          [] OTHER -> NoSize

EstimateSize(enc, type, values) ==
    CASE type = "Number" -> EstimateNumericSize(enc, values)
      [] type = "Bool" -> EstimateBoolSize(enc, values)
      [] OTHER -> EstimateStringSize(enc, values)

-----------------------------------------------------------------------------
(* Policies.  A layout is an encoding, whether its data was compressed and *)
(* the layouts of its nested streams; NoLayout is an absent one.           *)

Layout(enc, zip, children) == [enc |-> enc, zip |-> zip, children |-> children]
NoLayout == Layout("None", FALSE, <<>>)

(* Read factors are pairs of an encoding and its weight in percent.        *)
Manual(factors) == [kind |-> "manual", factors |-> factors]
Learned == [kind |-> "learned"]
Replayed(layout, factory) ==
    [kind |-> "replayed", layout |-> layout, factory |-> factory]

(* defaultReadFactors.                                                     *)
DefaultReadFactors ==
    <<<<"Constant", 100>>, <<"Trivial", 70>>, <<"FixedBitWidth", 90>>,
      <<"MainlyConstant", 100>>, <<"SparseBool", 100>>, <<"Dictionary", 100>>,
      <<"RLE", 100>>, <<"Varint", 100>>>>

(* ManualEncodingSelectionPolicy::select: the first of the cheapest, and   *)
(* Trivial for no data or no candidate.                                    *)
Cost(size, weight) == IF size = NoSize THEN NoSize ELSE size * weight

Cheapest(costs) ==
    LET compatible == {k \in DOMAIN costs : costs[k] # NoSize}
    IN  {k \in compatible : \A m \in compatible : costs[k] <= costs[m]}

FirstFactor(factors, candidates) ==
    IF candidates = {} THEN "Trivial" ELSE factors[Min(candidates)][1]

CheapestFactor(factors, type, values) ==
    IF values = <<>> THEN "Trivial"
    ELSE FirstFactor(factors, Cheapest([k \in DOMAIN factors |->
           Cost(EstimateSize(factors[k][1], type, values), factors[k][2])]))

Select(policy, type, values) ==
    CASE policy.kind = "manual" -> CheapestFactor(policy.factors, type, values)
      [] policy.kind = "learned" -> "Trivial"
      [] OTHER -> policy.layout.enc

(* The compression policy that comes with the selection: whether to try.   *)
Compresses(policy, values) ==
    CASE policy.kind = "manual" -> values # <<>>
      [] policy.kind = "learned" -> FALSE
      [] OTHER -> policy.layout.zip

(* selectNullable: the replayed policy becomes one for the pair of streams. *)
SelectNullable(policy) ==
    IF policy.kind = "replayed"
    THEN [policy EXCEPT !.layout = Layout("Nullable", FALSE, <<@, NoLayout>>)]
    ELSE policy

(* createImpl.  To filter the read factors the code reserves one less than *)
(* it has, which fails for none; a replayed layout must have the child.    *)
CanCreateNested(policy, id) ==
    CASE policy.kind = "manual" -> policy.factors # <<>>
      [] policy.kind = "learned" -> TRUE
      [] OTHER -> id \in DOMAIN policy.layout.children

(* Mutant: every nested stream gets the layout of the first.               *)
CreateNested_FirstChild(policy, enc, id) ==
    CASE policy.kind = "manual" ->
           Manual(SelectSeq(policy.factors, LAMBDA pair : pair[1] # enc))
      [] policy.kind = "learned" -> policy
      [] OTHER ->
           IF policy.layout.children[1] = NoLayout THEN policy.factory
           ELSE Replayed(policy.layout.children[1], policy.factory)

CreateNested(policy, enc, id) ==
    CASE policy.kind = "manual" ->
           Manual(SelectSeq(policy.factors, LAMBDA pair : pair[1] # enc))
      [] policy.kind = "learned" -> policy
      [] OTHER ->
           IF policy.layout.children[id] = NoLayout THEN policy.factory
           ELSE Replayed(policy.layout.children[id], policy.factory)
=============================================================================
