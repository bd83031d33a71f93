-------------------------- MODULE MC_SchemaBuilder --------------------------
(* Every kind of type; two flat maps, one with nested values.              *)
EXTENDS SchemaBuilder

Map(key, value) == VeloxType("MAP", <<>>, <<VeloxScalar(key), value>>)
Row(names, children) == VeloxType("ROW", names, children)

SomeSchema ==
    Row(<<"flat", "deep", "dict", "pairs", "row">>,
        <<Map("BIGINT", VeloxScalar("REAL")),
          Map("INTEGER", Row(<<"x">>, <<Map("TINYINT", VeloxScalar("BOOLEAN"))>>)),
          VeloxType("ARRAY", <<>>, <<VeloxScalar("DOUBLE")>>),
          Map("VARCHAR", VeloxType("ARRAY", <<>>, <<VeloxScalar("VARBINARY")>>)),
          Row(<<"y">>, <<VeloxScalar("SMALLINT")>>)>>)

(* The second entry repeats a column; the third names no flat map.         *)
SomeOrder ==
    <<[column |-> 2, features |-> <<"k2">>],
      [column |-> 2, features |-> <<"k1", "k3", "k2">>],
      [column |-> 4, features |-> <<"k1">>],
      [column |-> 9, features |-> <<"k1">>]>>

Leaf == Layout("Trivial", "Zstd", <<>>)
Nested == Layout("Dictionary", "None", <<Leaf, NoLayout>>)
Scalar(name) == LayoutTree("Scalar", name, 0 :> Nested, <<>>)

(* Keys in another order than they are written in; dict has the two        *)
(* children the writer asks for; pairs was a flat map then.                *)
SomeCaptured ==
    LayoutTree("Row", <<>>, 0 :> Leaf,
      <<LayoutTree("FlatMap", <<>>, 0 :> Leaf,
          <<Scalar(<<"k2">>), Scalar(<<"k1">>)>>),
        LayoutTree("FlatMap", <<>>, 0 :> Leaf,
          <<LayoutTree("Row", <<"k1">>, 0 :> Leaf,
              <<LayoutTree("SlidingWindowMap", <<>>, 1 :> Nested,
                  <<Scalar(<<>>), Scalar(<<>>)>>)>>)>>),
        LayoutTree("ArrayWithOffsets", <<>>, 0 :> Nested @@ 1 :> Leaf,
          <<Scalar(<<>>), Scalar(<<>>)>>),
        LayoutTree("FlatMap", <<>>, 0 :> Leaf, <<>>)>>)

(* The value of a key was an array then.                                   *)
StaleCaptured ==
    LayoutTree("Row", <<>>, <<>>,
      <<LayoutTree("FlatMap", <<>>, <<>>,
          <<LayoutTree("Array", <<"k1">>, 0 :> Leaf, <<>>)>>)>>)

Writer(parallel, passthrough, tree) ==
    [parallel |-> parallel, passthrough |-> passthrough, captured |-> tree]

SafeWriters ==
    {Writer(TRUE, {}, SomeCaptured), Writer(FALSE, {}, StaleCaptured),
     Writer(FALSE, {1, 2}, NoLayout)}

(* Flattened maps in two columns, written by a pool of threads.            *)
RacingWriters == {Writer(TRUE, {1, 2}, NoLayout)}
=============================================================================
