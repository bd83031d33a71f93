---------------------- MODULE MC_ChunkedStreamDecoder ----------------------
(* Streams of up to three chunks of one or two rows.                       *)
EXTENDS ChunkedStreamDecoder
=============================================================================
