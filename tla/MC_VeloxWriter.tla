--------------------------- MODULE MC_VeloxWriter ---------------------------
(* Tables of a column and a few rows.                                      *)
EXTENDS VeloxWriter
=============================================================================
