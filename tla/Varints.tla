------------------------------ MODULE Varints ------------------------------
(***************************************************************************)
(* common/Varint: numbers as groups of bits, the low group first, a byte   *)
(* each.  A byte is a record of its group and whether more follow.  The    *)
(* code has groups of 7 bits, scans WordLength = 8 bytes at a time when it *)
(* skips and MaskLength = 6 when it decodes with BMI2; the constants let a *)
(* model use smaller ones.                                                 *)
(*                                                                         *)
(* Positions are offsets into the bytes of a stream, the first being 0.    *)
(***************************************************************************)
EXTENDS Integers, Sequences, SequencesExt

CONSTANTS
    GroupBits,   \* bits of a number in a byte
    WordLength,  \* bytes of a word, and the rows left for another word
    MaskLength   \* bytes of a word that one round of decoding looks at

ASSUME VarintAssumption ==
    /\ GroupBits \in Nat \ {0}
    /\ MaskLength \in Nat \ {0} /\ WordLength \in Nat /\ MaskLength <= WordLength

Group == 2^GroupBits

RECURSIVE WriteVarint(_)
WriteVarint(value) ==
    IF value >= Group
    THEN <<[bits |-> value % Group, more |-> TRUE]>> \o WriteVarint(value \div Group)
    ELSE <<[bits |-> value, more |-> FALSE]>>

BulkVarintSize(values) ==
    FoldSeq(LAMBDA v, size : size + Len(WriteVarint(v)), 0, values)

(* skipVarint and readVarint: up to and with the byte that ends the number. *)
RECURSIVE SkipVarint(_, _)
SkipVarint(bytes, pos) ==
    IF bytes[pos + 1].more THEN SkipVarint(bytes, pos + 1) ELSE pos + 1

RECURSIVE ValueOf(_)
ValueOf(groups) ==
    IF groups = <<>> THEN 0
    ELSE Head(groups).bits + Group * ValueOf(Tail(groups))

ReadVarint(bytes, pos) == ValueOf(SubSeq(bytes, pos + 1, SkipVarint(bytes, pos)))

(* bulkVarintSkip: whole words while there are as many numbers left as a   *)
(* word could end, then number by number.                                  *)
Word(bytes, pos, n) == SubSeq(bytes, pos + 1, pos + n)
Ends(word) == Len(SelectSeq(word, LAMBDA b : ~b.more))

RECURSIVE BulkVarintSkip(_, _, _)
BulkVarintSkip(n, bytes, pos) ==
    IF n >= WordLength
    THEN BulkVarintSkip(n - Ends(Word(bytes, pos, WordLength)), bytes, pos + WordLength)
    ELSE IF n = 0 THEN pos ELSE BulkVarintSkip(n - 1, bytes, SkipVarint(bytes, pos))

(* readVarint in a loop, for machines without BMI2.                        *)
Before(values, read) == [read EXCEPT !.out = values \o @]

RECURSIVE ReadVarints(_, _, _)
ReadVarints(n, bytes, pos) ==
    IF n = 0 THEN [out |-> <<>>, pos |-> pos]
    ELSE Before(<<ReadVarint(bytes, pos)>>,
                ReadVarints(n - 1, bytes, SkipVarint(bytes, pos)))

(* bulkVarintDecodeBmi2: the cases of the switch are one for each pattern  *)
(* of ends in MaskLength bytes.  The numbers that end in them are written, *)
(* the first with the carry below it; the bytes after the last end are the *)
(* carry of the next round, or add to the carry if no number ended.        *)
Pieces(word) ==
    LET ends == {i \in DOMAIN word : ~word[i].more}
        start(i) == LET before == {j \in ends : j < i}
                    IN  IF before = {} THEN 1
                        ELSE 1 + CHOOSE j \in before : \A k \in before : k <= j
    IN  [i \in ends |-> SubSeq(word, start(i), i)]

WordValues(pieces, ends, carry) ==
    <<>> \o [i \in DOMAIN ends |->
                ValueOf(IF i = 1 THEN carry \o pieces[ends[1]] ELSE pieces[ends[i]])]

CarryOf(word, ends, carry) ==
    IF ends = <<>> THEN carry \o word
    ELSE SubSeq(word, ends[Len(ends)] + 1, MaskLength)

DecodeWord(word, pieces, ends, r) ==
    [out |-> r.out \o WordValues(pieces, ends, r.carry), pos |-> r.pos + MaskLength,
     n |-> r.n - Len(ends), carry |-> CarryOf(word, ends, r.carry)]

RECURSIVE DecodeWords(_, _)
DecodeWords(bytes, r) ==
    LET word == Word(bytes, r.pos, MaskLength)
        pieces == Pieces(word)
    IN  IF r.n < WordLength THEN r
        ELSE DecodeWords(bytes, DecodeWord(word, pieces,
                                           SetToSortSeq(DOMAIN pieces, <), r))

DecodeRest(bytes, r) ==
    LET end == SkipVarint(bytes, r.pos)
        first == ValueOf(r.carry \o SubSeq(bytes, r.pos + 1, end))
    IN  IF r.n = 0 THEN [out |-> r.out, pos |-> r.pos]
        ELSE Before(r.out \o <<first>>, ReadVarints(r.n - 1, bytes, end))

BulkVarintDecodeBmi2(n, bytes, pos) ==
    DecodeRest(bytes, DecodeWords(bytes, [out |-> <<>>, pos |-> pos, n |-> n,
                                          carry |-> <<>>]))

BulkVarintDecode(hasBmi2, n, bytes, pos) ==
    IF hasBmi2 THEN BulkVarintDecodeBmi2(n, bytes, pos) ELSE ReadVarints(n, bytes, pos)
=============================================================================
