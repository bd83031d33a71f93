---------------------------- MODULE MC_Encodings ----------------------------
(* Streams of up to five rows of two or three values, on machines of small  *)
(* words, with policies that prefer different encodings.                   *)
EXTENDS Encodings

MCFactories ==
    {Manual(DefaultReadFactors), Learned,
     Manual(<<<<"RLE", 1>>, <<"SparseBool", 2>>, <<"Varint", 3>>,
              <<"Dictionary", 4>>, <<"Trivial", 70>>>>),
     Manual(<<<<"MainlyConstant", 1>>, <<"SparseBool", 1>>, <<"FixedBitWidth", 5>>,
              <<"Trivial", 90>>>>),
     Manual(<<<<"Dictionary", 1>>, <<"MainlyConstant", 2>>, <<"RLE", 1>>,
              <<"Constant", 1>>, <<"Trivial", 70>>>>),
     Manual(<<<<"MainlyConstant", 1>>, <<"Dictionary", 3>>, <<"Trivial", 90>>>>)}

Upto(n, s) == UNION {[1..k -> s] : k \in 1..n}

MCChunks ==
    [Number |-> Upto(3, {0, 5, Null}) \cup
        {<<0, 0, 5, 0>>, <<0, 5, 5, 5>>, <<5, 0, Null, 0>>, <<9, 1, 0, 5>>,
         <<0, 0, 0, 0>>, <<6, 6, 1, 1>>, <<0, 9, 9, 0, 0>>, <<1, 5, 0, 1, 14>>},
     String |-> {<<<<>>>>, <<Null>>, <<<<1, 2>>, <<1>>>>, <<<<1>>, <<1>>, <<1>>>>,
                 <<<<1, 2>>, Null, <<>>>>, <<<<1>>, <<1>>, <<2>>, <<1>>>>,
                 <<Null, <<>>, <<1, 2>>, <<>>>>, <<<<1>>, <<2>>, <<2>>, <<1>>, <<1>>>>},
     Bool |-> {<<TRUE>>, <<Null>>, <<FALSE, TRUE, TRUE>>, <<TRUE, Null, FALSE>>,
               <<FALSE, FALSE, TRUE, FALSE>>, <<TRUE, TRUE, FALSE, TRUE>>,
               <<TRUE, Null, TRUE, TRUE>>, <<FALSE, TRUE, TRUE, FALSE, FALSE>>}]

MCMachines == {Machine(TRUE, 0), Machine(FALSE, 7)}

MCSlots == {<<TRUE>>, <<TRUE, TRUE, TRUE>>, <<FALSE, TRUE>>, <<TRUE, FALSE, TRUE>>}

MCNulls == {<<>>, <<TRUE, FALSE, TRUE>>}

MCFilters == [Number |-> {{5}}, String |-> {{<<1>>}}, Bool |-> {{TRUE}}]
=============================================================================
