---------------------------- MODULE MCFfmpegCache ----------------------------
(* Processes are model values; the cfgs say how many, and on which system.   *)
EXTENDS FfmpegCache
=============================================================================
