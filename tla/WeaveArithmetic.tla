--------------------------- MODULE WeaveArithmetic ----------------------------
(***************************************************************************)
(* Products in GF(2^Width), bit by bit, as init of gf256.go computes them  *)
(* before there are tables.  The sum of two elements is their exclusive or.*)
(***************************************************************************)
EXTENDS Integers, Bitwise

CONSTANTS
  Width,       (* the bits of an element, 8 in the code                    *)
  Polynomial   (* what an overflowing product is reduced by, 0x1d          *)

ASSUME WidthAssumption == Width \in 1..8 /\ Polynomial \in 1..(2^Width - 1)

FieldSize == 2^Width

Elements == 0..(FieldSize - 1)

(* a times 2: a << 1, and the reduction when the high bit falls out. *)
Double(a) == IF a < FieldSize \div 2 THEN 2 * a ELSE ((2 * a) % FieldSize) ^^ Polynomial

MulNoTable[a \in Elements, b \in Elements] ==
  IF b = 0 THEN 0
           ELSE (IF b % 2 = 1 THEN a ELSE 0) ^^ MulNoTable[Double(a), b \div 2]

(* gfPow: square and multiply. *)
Pow[a \in Elements, power \in Nat] ==
  IF power = 0 THEN 1
  ELSE MulNoTable[IF power % 2 = 1 THEN a ELSE 1,
                  Pow[MulNoTable[a, a], power \div 2]]
=============================================================================
