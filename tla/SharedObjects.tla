--------------------------- MODULE SharedObjects ---------------------------
(***************************************************************************)
(* What a reference counted cache promises: getting a key returns the one  *)
(* live object of that key, and builds it, in the same step, exactly when  *)
(* nobody holds it.                                                        *)
(***************************************************************************)
EXTENDS Integers

CONSTANTS Threads, Keys

VARIABLES
    held,   \* the objects <<key, build>> each thread holds
    first,  \* the objects the reader itself holds
    builds  \* number of objects built per key

vars == <<held, first, builds>>

Live == first \cup UNION {held[t] : t \in Threads}

Init ==
    /\ held = [t \in Threads |-> {}]
    /\ builds = [k \in Keys |-> IF \E o \in first : o[1] = k THEN 1 ELSE 0]

Share(t, k) ==
    \E o \in Live :
        /\ o[1] = k
        /\ held' = [held EXCEPT ![t] = @ \cup {o}]
        /\ UNCHANGED <<first, builds>>

Build(t, k) ==
    /\ \A o \in Live : o[1] # k
    /\ builds' = [builds EXCEPT ![k] = @ + 1]
    /\ held' = [held EXCEPT ![t] = @ \cup {<<k, builds[k] + 1>>}]
    /\ first' = {}

Drop(t) ==
    \E o \in held[t] :
        /\ held' = [held EXCEPT ![t] = @ \ {o}]
        /\ UNCHANGED <<first, builds>>

Next ==
    \E t \in Threads :
        \/ \E k \in Keys : Share(t, k) \/ Build(t, k)
        \/ Drop(t)

Spec == Init /\ [][Next]_vars
=============================================================================
