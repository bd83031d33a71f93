------------------------ MODULE MC_StripeGroupCache ------------------------
(* A few threads that read stripes of one or two groups.                   *)
EXTENDS StripeGroupCache
=============================================================================
