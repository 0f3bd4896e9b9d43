------------------------------ MODULE WeaveField ------------------------------
(***************************************************************************)
(* What the codec computes over its field: sums of products, the Cauchy    *)
(* coefficients, and Gauss-Jordan elimination.  The field is a parameter:  *)
(* its elements are numbers, as bytes are, and all that is assumed of its  *)
(* operations are the laws of a field of characteristic 2.  The operations *)
(* of gf256.go are in WeaveArithmetic.                                     *)
(***************************************************************************)
EXTENDS Integers, Sequences, FiniteSetsExt

CONSTANTS
  Order,      (* how many elements the field has, 256 in the code          *)
  Add(_, _),  (* the exclusive or                                          *)
  Mul(_, _),  (* gfMul                                                     *)
  Inv(_)      (* gfInv                                                     *)

Field == 0..(Order - 1)

ASSUME FieldAssumption ==
  /\ Order \in Nat /\ Order > 1
  /\ \A a \in Field :
       /\ Inv(a) \in Field
       /\ Add(a, 0) = a /\ Add(a, a) = 0
       /\ Mul(a, 1) = a
       /\ a # 0 => Mul(a, Inv(a)) = 1
  /\ \A a, b \in Field :
       /\ Add(a, b) \in Field /\ Add(a, b) = Add(b, a)
       /\ Mul(a, b) \in Field /\ Mul(a, b) = Mul(b, a)
  /\ \A a, b, c \in Field :
       /\ Add(Add(a, b), c) = Add(a, Add(b, c))
       /\ Mul(Mul(a, b), c) = Mul(a, Mul(b, c))
       /\ Mul(a, Add(b, c)) = Add(Mul(a, b), Mul(a, c))

(* The sum of a sequence. *)
SumOf(seq) ==
  LET sum[k \in 0..Len(seq)] == IF k = 0 THEN 0 ELSE Add(sum[k - 1], seq[k])
  IN  sum[Len(seq)]

-----------------------------------------------------------------------------

(* 1 / (x + y), where the points x of the rescues and y of the slots differ. *)
RescueCoefficient(rescue, slot, rescueFrames) ==
  Inv(Add(rescue + 1, rescueFrames + slot + 1))

-----------------------------------------------------------------------------
(* invertMatrix: the unit matrix beside m, column by column.  A singular   *)
(* matrix has no inverse, <<>> here.                                       *)

WithUnit(m) ==
  [row \in 1..Len(m) |->
     [c \in 1..(2 * Len(m)) |-> IF c <= Len(m) THEN m[row][c]
                                ELSE IF c = Len(m) + row THEN 1 ELSE 0]]

Swapped(aug, i, j) == [aug EXCEPT ![i] = aug[j], ![j] = aug[i]]

(* The row of the pivot is scaled to 1 and added to clear the others. *)
Scaled(row, col) == [c \in DOMAIN row |-> Mul(row[c], Inv(row[col]))]

Cleared(aug, col) ==
  LET unit == Scaled(aug[col], col)
  IN  [row \in DOMAIN aug |->
         IF row = col THEN unit
         ELSE [c \in DOMAIN aug[row] |-> Add(aug[row][c], Mul(aug[row][col], unit[c]))]]

Eliminate(aug, col) ==
  LET pivots == {row \in DOMAIN aug : row >= col /\ aug[row][col] # 0}
  IN  IF pivots = {} THEN <<>> ELSE Cleared(Swapped(aug, col, Min(pivots)), col)

InvertMatrix(m) ==
  LET n == Len(m)
      reduced[col \in 0..n] ==
        IF col = 0 THEN WithUnit(m) ELSE Eliminate(reduced[col - 1], col)
  IN  [row \in DOMAIN reduced[n] |-> [c \in 1..n |-> reduced[n][row][n + c]]]
=============================================================================
