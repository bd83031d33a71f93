------------------------ MODULE MC_SlidingWindowMap ------------------------
(* Stripes of a few rows, over maps of up to two entries.                  *)
EXTENDS SlidingWindowMap

SomeMaps == {<<>>, <<1>>, <<1, 2>>, <<2, 1>>, <<3>>}
=============================================================================
