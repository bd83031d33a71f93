------------------------ MODULE MC_ArrayWithOffsets ------------------------
(* Stripes of a few rows, over arrays of up to two elements.               *)
EXTENDS ArrayWithOffsets

SomeArrays == {<<>>, <<1>>, <<2>>, <<2, 1>>}
=============================================================================
