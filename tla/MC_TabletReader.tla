-------------------------- MODULE MC_TabletReader --------------------------
(* A file of up to three stripes, written, closed, opened and read.        *)
EXTENDS TabletReader
=============================================================================
