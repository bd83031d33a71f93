------------------------------ MODULE RowCursor ------------------------------
(***************************************************************************)
(* What a reader of a file split promises its caller (VeloxReader.h): a    *)
(* cursor over the rows [firstRow, lastRow) of the split, with no stripes, *)
(* streams or decoders in sight.                                           *)
(***************************************************************************)
EXTENDS Integers

CONSTANTS Batch,  \* row counts a caller asks next and skipRows for
          Targets \* row numbers a caller seeks to

VARIABLES
    pos,         \* the row next would start with
    firstRow,    \* first row of the split
    lastRow,     \* one past the last row of the split
    boundaries,  \* rows at which a stripe starts or ends
    out,         \* what the last call returned
    lost         \* a call failed half way: pos means nothing

fixed == <<firstRow, lastRow, boundaries>>
vars == <<pos, fixed, out, lost>>

Clamp(row) == IF row < firstRow THEN firstRow
              ELSE IF row > lastRow THEN lastRow
              ELSE row

Init ==
    /\ firstRow \in Nat
    /\ lastRow \in Nat
    /\ firstRow <= lastRow
    /\ pos = firstRow
    /\ out = [call |-> "none"]
    /\ lost = FALSE

(* next fills the result with the rows at the cursor: at least one if any  *)
(* was asked for, never more than asked for; false at the end.             *)
Read(n) ==
    /\ IF pos = lastRow
       THEN pos' = pos /\ out' = [call |-> "next", ret |-> FALSE]
       ELSE \E k \in 0..n :
              /\ n > 0 => k > 0
              /\ pos + k <= lastRow
              /\ pos' = pos + k
              /\ out' = [call |-> "next", ret |-> TRUE,
                         rows |-> pos..(pos + k - 1)]
    /\ UNCHANGED fixed

(* seekToRow stops at the ends of the split and says where it stopped,     *)
(* also when the position was lost.                                        *)
Seek(row) ==
    /\ pos' = Clamp(row)
    /\ out' = [call |-> "seek", ret |-> Clamp(row)]
    /\ lost' = FALSE
    /\ UNCHANGED fixed

(* skipRows stops at the end of the split and returns the rows skipped.    *)
Skip(n) ==
    /\ pos' = Clamp(pos + n)
    /\ out' = [call |-> "skip", ret |-> Clamp(pos + n) - pos]
    /\ UNCHANGED fixed

(* loadStripeIfAny: the cursor stays, or drops what is left of its stripe. *)
LoadStripe ==
    /\ \/ pos' = pos
       \/ /\ pos' \in boundaries
          /\ pos' > pos
          /\ \A b \in boundaries : b <= pos \/ b >= pos'
          /\ pos' < lastRow
    /\ out' = [call |-> "load"]
    /\ UNCHANGED fixed

(* A call that failed, or that estimates the size of a row, leaves the     *)
(* cursor where it was.                                                    *)
Observe ==
    /\ pos' = pos
    /\ out'.call \in {"error", "estimate"}
    /\ UNCHANGED fixed

(* A seek or skip failed half way.  Nothing is promised from here on, but  *)
(* that the rows of the split stay what they are.                          *)
Lose ==
    /\ lost \/ out'.call = "moved"
    /\ lost'
    /\ UNCHANGED fixed

Next ==
    \/ /\ ~lost
       /\ \/ \E n \in Batch : Read(n) \/ Skip(n)
          \/ LoadStripe
          \/ Observe
       /\ UNCHANGED lost
    \/ \E row \in Targets : Seek(row)
    \/ Lose

Spec == Init /\ [][Next]_vars
=============================================================================
