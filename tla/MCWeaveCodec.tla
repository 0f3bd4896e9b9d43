---------------------------- MODULE MCWeaveCodec ------------------------------
(* A Codec over GF(8), and the parameters of the real field.                *)
EXTENDS WeaveCodec, WeaveTables

MCConfigs ==
  {[PayloadSize |-> 2, DataFramesPerBlock |-> 3, RescueFramesPerBlock |-> 4],
   [PayloadSize |-> 1, DataFramesPerBlock |-> 4, RescueFramesPerBlock |-> 2],
   [PayloadSize |-> 2, DataFramesPerBlock |-> 2, RescueFramesPerBlock |-> 0]}

MCFiles == {<<>>, <<6, 1, 3>>, <<5, 2, 7, 7, 1, 4, 3>>}

(* The same slots are lost in every block: of the data or of the rescues. *)
MCLossy(n, c) ==
  {{f \in Encoded(n, c) : SlotOf(f) \in slots} :
     slots \in {{}, {0, 1}, {0, 1, 2}, {0, 1, 2, 3}}}

(* The real field is one: doubling distributes over the sum, so products do *)
(* in both arguments, and on the powers of two, of which every element is a *)
(* sum, they commute and associate.  2 generates the field, so the tables   *)
(* made of its powers hold every element but 0.                             *)
Real == INSTANCE WeaveArithmetic WITH Width <- 8, Polynomial <- 29

ASSUME RealProductsDistribute ==
  \A a \in Real!Elements, j \in 0..7 :
    Real!Double(a ^^ (2^j)) = Real!Double(a) ^^ Real!Double(2^j)

ASSUME RealProductsCommute ==
  LET Product(a, b) == Real!MulNoTable[a, b]
  IN  \A i, j \in 0..7 :
        /\ Product(2^i, 1) = 2^i
        /\ Product(2^i, 2^j) = Product(2^j, 2^i)
        /\ \A k \in 0..7 :
             Product(Product(2^i, 2^j), 2^k) = Product(2^i, Product(2^j, 2^k))

ASSUME RealTablesAreComplete ==
  Real!Pow[2, 255] = 1 /\ \A d \in {15, 51, 85} : Real!Pow[2, d] # 1
=============================================================================
