--------------------------- MODULE MC_VeloxReader ---------------------------
(* VeloxReader on files of a few short stripes.                            *)
EXTENDS VeloxReader
=============================================================================
