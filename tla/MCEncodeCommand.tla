--------------------------- MODULE MCEncodeCommand ----------------------------
(* A pipe and a progress channel that fill up before the video ends. *)
EXTENDS EncodeCommand
=============================================================================
