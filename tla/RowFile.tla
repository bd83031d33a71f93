------------------------------ MODULE RowFile ------------------------------
(***************************************************************************)
(* What a VeloxWriter promises its caller: the rows of the calls that      *)
(* returned are accepted; some of them, always the first ones, are in the  *)
(* file; a file that was closed holds them all; a writer that failed once  *)
(* never finishes its file.                                                *)
(***************************************************************************)
EXTENDS Integers, Sequences

CONSTANT Rows

VARIABLES
    accepted,   \* rows of the calls of write that returned
    durable,    \* rows the stripes of the file hold
    status      \* "writing", "failed" or "complete"

vars == <<accepted, durable, status>>

Init ==
    /\ accepted = <<>>
    /\ durable = <<>>
    /\ status = "writing"

Write ==
    /\ status = "writing"
    /\ \/ accepted' = accepted  \* flush, or an empty batch
       \/ /\ Len(accepted') > Len(accepted)
          /\ SubSeq(accepted', 1, Len(accepted)) = accepted
          /\ \A i \in DOMAIN accepted' : accepted'[i] \in Rows
    /\ durable' \in {durable, accepted'}
    /\ UNCHANGED status

Close ==
    /\ status = "writing"
    /\ durable' = accepted
    /\ status' = "complete"
    /\ UNCHANGED accepted

(* The rows of the call that failed are not accepted; nothing is said of   *)
(* the stripes of a file without a footer.                                 *)
Fail ==
    /\ status = "writing"
    /\ status' = "failed"
    /\ UNCHANGED accepted

Next == Write \/ Close \/ Fail

Spec == Init /\ [][Next]_vars
=============================================================================
