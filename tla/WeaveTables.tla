----------------------------- MODULE WeaveTables ------------------------------
(***************************************************************************)
(* The tables gf256.go makes of the powers of 2 and of the products, and   *)
(* the operations that look up in them.                                    *)
(***************************************************************************)
EXTENDS WeaveArithmetic

Exp[i \in 0..(2 * FieldSize - 1)] ==
  IF i = 0 THEN 1
  ELSE IF i < FieldSize - 1 THEN MulNoTable[Exp[i - 1], 2]
  ELSE Exp[i - (FieldSize - 1)]

Log(a) == CHOOSE i \in 0..(FieldSize - 2) : Exp[i] = a

InvTable == [a \in Elements |-> IF a = 0 THEN 0 ELSE Exp[(FieldSize - 1) - Log(a)]]

MulTable == [a \in Elements, b \in Elements |-> MulNoTable[a, b]]
AddTable == [a \in Elements, b \in Elements |-> a ^^ b]

GfInv(a) == InvTable[a]
GfMul(a, b) == MulTable[a, b]
GfAdd(a, b) == AddTable[a, b]
=============================================================================
