----------------------------- MODULE MCPlainDecode -----------------------------
(* Payloads of one to three frames of three bytes, with and without         *)
(* padding.  The codes stand for 16 + 8, of which four erasures are tried,  *)
(* and 10 + 6, of which all six are.                                       *)
EXTENDS PlainDecode

MCSizes == {0, 3, 5, 7}
MCPaddings == {0, 1, 2}
MCCodes == <<[data |-> 4, parity |-> 3], [data |-> 3, parity |-> 2]>>
=============================================================================
