---------------------------- MODULE MCDecodeCommand ----------------------------
(* Two processes with every pair of videos, one failing call and one crash. *)
EXTENDS DecodeCommand, TLC

CONSTANTS p1, p2

MCProcs == {p1, p2}
MCSymmetry == Permutations(MCProcs)
=============================================================================
