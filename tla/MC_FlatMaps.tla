---------------------------- MODULE MC_FlatMaps ----------------------------
(* Two keys, and readers that select some, all or none of them.            *)
EXTENDS FlatMaps

CONSTANTS a, b, c  \* c is never written

Select(asStruct, mode, features) ==
    [asStruct |-> asStruct, mode |-> mode, features |-> features]

(* Keys on their own and together, a null value, a doubled key.            *)
SomeMapsAt(n) ==
    {Null, <<>>, a :> <<n>>, a :> <<Null>>, b :> <<n>>, a :> <<n, n>>,
     (a :> <<n>> @@ b :> <<n>>), (a :> <<Null>> @@ b :> <<n>>)}

SomeSelections ==
    {Select(FALSE, "All", {}), Select(TRUE, "Include", {a, c}),
     Select(FALSE, "Include", {b}), Select(FALSE, "Exclude", {b, c})}
=============================================================================
