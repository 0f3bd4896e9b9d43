---------------------------- MODULE MCWeaveTrailer ----------------------------
(* Payloads of one and of two cells that share a cell, and one that is too  *)
(* long.                                                                   *)
EXTENDS WeaveTrailer

MCPayloads ==
  {<<Cell("a")>>, <<Cell("b"), Cell("a")>>, <<Cell("a"), Cell("a"), Cell("a"), Cell("a")>>}
=============================================================================
