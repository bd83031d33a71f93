---------------------------- MODULE RowSequences ----------------------------
(***************************************************************************)
(* Sequences of rows some of which are null, and bitmaps that say which,   *)
(* or into which slots rows go.                                            *)
(***************************************************************************)
EXTENDS Integers, Sequences, FiniteSets, SequencesExt

CONSTANT Null  \* a null row

(* The rows that are not null, in their order.                             *)
Without(rows, null) ==
    LET kept[i \in 0..Len(rows)] ==
          IF i = 0 THEN <<>>
          ELSE IF rows[i] # null THEN Append(kept[i - 1], rows[i])
          ELSE kept[i - 1]
    IN  kept[Len(rows)]

NonNulls(rows) == Without(rows, Null)

(* How many of the first i flags are set: the position of the i-th row     *)
(* among those that are not null.                                          *)
Rank(flags, i) == Cardinality({j \in 1..i : flags[j]})

(* The slots a bitmap selects, and the row the i-th slot takes.            *)
Selected(bitmap) == {i \in DOMAIN bitmap : bitmap[i]}
Slot(bitmap, i) == Cardinality({j \in Selected(bitmap) : j <= i})

(* The sum of a sequence of numbers.                                       *)
Total(seq) ==
    LET sum[i \in 0..Len(seq)] == IF i = 0 THEN 0 ELSE sum[i - 1] + seq[i]
    IN  sum[Len(seq)]
=============================================================================
