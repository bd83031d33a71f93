---------------------------- MODULE StreamCursor ----------------------------
(***************************************************************************)
(* What a Decoder promises a field reader (velox/Decoder.h): a cursor over *)
(* the rows of one stream of one stripe.  next delivers rows in order, put *)
(* into the slots a bitmap selects; the other slots are null.              *)
(***************************************************************************)
EXTENDS Integers, Sequences, FiniteSets

CONSTANTS
    Null,
    Requests  \* slot bitmaps a reader passes to next

VARIABLES
    rows,   \* the rows of the stream, Null for a null row
    pos,    \* rows consumed
    result  \* the slots the last call filled

vars == <<rows, pos, result>>

Selected(bitmap) == {i \in DOMAIN bitmap : bitmap[i]}

(* Slot i gets the row its rank among the selected slots says.             *)
Delivered(bitmap) ==
    [i \in DOMAIN bitmap |->
        IF bitmap[i]
        THEN rows[pos + Cardinality({j \in Selected(bitmap) : j <= i})]
        ELSE Null]

Init == pos = 0 /\ result = <<>>

Next(bitmap) ==
    /\ pos + Cardinality(Selected(bitmap)) <= Len(rows)
    /\ pos' = pos + Cardinality(Selected(bitmap))
    /\ result' = Delivered(bitmap)
    /\ UNCHANGED rows

Skip ==
    /\ pos' \in pos..Len(rows)
    /\ result' = <<>>
    /\ UNCHANGED rows

Reset ==
    /\ pos' = 0
    /\ result' = <<>>
    /\ UNCHANGED rows

Step == Skip \/ Reset \/ \E bitmap \in Requests : Next(bitmap)

Spec == Init /\ [][Step]_vars
=============================================================================
