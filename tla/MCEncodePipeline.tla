--------------------------- MODULE MCEncodePipeline ---------------------------
(* More frames than the channels of two workers hold. *)
EXTENDS EncodePipeline
=============================================================================
