--------------------------- MODULE WeaveCodecProofs ---------------------------
(***************************************************************************)
(* Theorems about WeaveBurst, for every configuration and input PlanFor    *)
(* accepts, every first lost frame and every length of the burst; and      *)
(* about WeaveCodec, for every field, all configurations, files and losses *)
(* and any number of calls.                                                *)
(***************************************************************************)
EXTENDS WeaveBurst, WeaveCodec, FiniteSetTheorems, FunctionTheorems, SequenceTheorems,
        WellFoundedInduction, TLAPS

-----------------------------------------------------------------------------
(* Flattening *)

(* What holds of 1, and of k + 1 if it holds of k, holds up to N: a set     *)
(* stands for the property.                                                *)
LEMMA Induction ==
  ASSUME NEW N \in Nat \ {0}, NEW S \in SUBSET (1..N),
         1 \in S, \A k \in S : k < N => k + 1 \in S
  PROVE  S = 1..N
<1> DEFINE T == (1..N) \ S
           Smaller == {p \in Nat \X Nat : p[1] < p[2]}
<1>1. SUFFICES ASSUME T # {} PROVE FALSE
  OBVIOUS
<1>2. IsWellFoundedOn(Smaller, Nat) /\ T \subseteq Nat
  BY NatLessThanWellFounded DEF OpToRel
<1>3. PICK x \in T : \A y \in T : <<y, x>> \notin Smaller
  <2> HIDE DEF T, Smaller
  <2> QED BY <1>1, <1>2, WFMin
<1>4. x # 1 /\ x - 1 \in 1..N /\ <<x - 1, x>> \in Smaller
  OBVIOUS
<1>5. x - 1 \in S
  <2>1. x - 1 \notin T
    BY <1>3, <1>4, Zenon
  <2> QED BY <1>4, <2>1
<1>6. (x - 1) + 1 \in S
  BY <1>5
<1> QED BY <1>4, <1>6

(* What FlattenSeq computes step by step: the prefixes of the result.       *)
FlattensBy(f, seqs, N) ==
  /\ f[1] = seqs[1]
  /\ \A i \in 1..N : i < N => f[i + 1] = f[i] \o seqs[i + 1]
  /\ FlattenSeq(seqs) = f[N]

LEMMA FlattenByPrefixes ==
  ASSUME NEW A, NEW seqs \in Seq(Seq(A)), NEW N \in Nat \ {0}, N = Len(seqs)
  PROVE  \E f \in [1..N -> Seq(A)] : FlattensBy(f, seqs, N)
<1>1. \A i \in 1..N : seqs[i] \in Seq(A)
  OBVIOUS
<1> DEFINE Steps(g, k) == /\ g[1] = seqs[1]
                          /\ \A i \in 1..k : i < k => g[i + 1] = g[i] \o seqs[i + 1]
           Joined(k) == \E g \in [1..k -> Seq(A)] : Steps(g, k)
           S == {k \in 1..N : Joined(k)}
<1>2. 1 \in S
  <2>1. PICK k \in 1..N : k = 1
    OBVIOUS
  <2> DEFINE g == [i \in 1..k |-> seqs[1]]
  <2>2. g \in [1..k -> Seq(A)] /\ Steps(g, k)
    BY <1>1, <2>1
  <2>3. Joined(k)
    <3> HIDE DEF g
    <3> QED BY <2>2
  <2> HIDE DEF Joined
  <2>4. k \in S
    BY <2>3
  <2> QED BY <2>1, <2>4
<1>3. ASSUME NEW k \in S, k < N PROVE k + 1 \in S
  <2>1. k \in 1..N /\ k + 1 \in 1..N /\ Joined(k)
    <3> HIDE DEF Joined
    <3> QED BY <1>3
  <2>2. PICK h \in [1..k -> Seq(A)] : Steps(h, k)
    BY <2>1
  <2>3. h[k] \in Seq(A) /\ seqs[k + 1] \in Seq(A)
    BY <1>1, <2>1
  <2>4. PICK e \in Seq(A) : e = h[k] \o seqs[k + 1]
    BY <2>3, ConcatProperties
  <2> DEFINE g == [i \in 1..(k + 1) |-> IF i = k + 1 THEN e ELSE h[i]]
  <2>5. g \in [1..(k + 1) -> Seq(A)]
    BY <2>1
  <2>6. g[1] = seqs[1]
    BY <2>1, <2>2
  <2>7. ASSUME NEW i \in 1..(k + 1), i < k + 1 PROVE g[i + 1] = g[i] \o seqs[i + 1]
    <3>1. i \in 1..k /\ g[i] = h[i]
      BY <2>1, <2>7
    <3>2. CASE i = k
      <4>1. g[i + 1] = e /\ g[i] = h[k]
        BY <2>1, <3>1, <3>2
      <4> QED BY <2>4, <3>2, <4>1
    <3>3. CASE i # k
      <4>1. i < k /\ i + 1 \in 1..k /\ i + 1 # k + 1
        BY <3>1, <3>3
      <4>2. g[i + 1] = h[i + 1]
        BY <4>1
      <4> QED BY <2>2, <3>1, <4>1, <4>2
    <3> QED BY <3>2, <3>3
  <2>8. Joined(k + 1)
    <3> HIDE DEF g
    <3> QED BY <2>5, <2>6, <2>7
  <2> HIDE DEF Joined
  <2> QED BY <2>1, <2>8
<1>4. S = 1..N
  <2>1. S \in SUBSET (1..N)
    OBVIOUS
  <2> HIDE DEF S
  <2> QED BY <1>2, <1>3, <2>1, Induction
<1>5. PICK h \in [1..N -> Seq(A)] : Steps(h, N)
  <2>1. N \in S
    <3>1. N \in 1..N
      OBVIOUS
    <3> HIDE DEF S
    <3> QED BY <1>4, <3>1
  <2> QED BY <2>1
<1> DEFINE Body(g) == [i \in 1..N |-> IF i = 1 THEN seqs[i] ELSE g[i - 1] \o seqs[i]]
<1>6. h = Body(h)
  <2>1. ASSUME NEW i \in 1..N PROVE h[i] = IF i = 1 THEN seqs[i] ELSE h[i - 1] \o seqs[i]
    <3>1. CASE i = 1
      BY <1>5, <3>1
    <3>2. CASE i # 1
      <4>1. PICK j \in 1..N : i = j + 1 /\ j < N /\ j = i - 1
        BY <3>2
      <4> QED BY <1>5, <3>2, <4>1
    <3> QED BY <3>1, <3>2
  <2>2. h = [i \in 1..N |-> h[i]]
    OBVIOUS
  <2> QED BY <2>1, <2>2
<1>7. PICK f : f = Body(f) /\ FlattenSeq(seqs) = f[N]
  BY <1>6, Zenon DEF FlattenSeq
<1>8. \A i \in 1..N : f[i] = h[i]
  <2> DEFINE T == {k \in 1..N : f[k] = h[k]}
  <2>1. 1 \in T
    BY <1>6, <1>7
  <2>2. ASSUME NEW k \in T, k < N PROVE k + 1 \in T
    <3>1. k + 1 \in 1..N /\ k + 1 # 1 /\ (k + 1) - 1 = k
      BY <2>2
    <3>2. f[k + 1] = f[k] \o seqs[k + 1] /\ h[k + 1] = h[k] \o seqs[k + 1]
      BY <1>6, <1>7, <3>1
    <3> QED BY <3>1, <3>2
  <2>3. T \in SUBSET (1..N)
    OBVIOUS
  <2>4. T = 1..N
    <3> HIDE DEF T
    <3> QED BY <2>1, <2>2, <2>3, Induction
  <2>5. \A i \in T : f[i] = h[i]
    OBVIOUS
  <2> HIDE DEF T
  <2> QED BY <2>4, <2>5
<1>9. f[N] = h[N]
  BY <1>8
<1> HIDE DEF Body
<1> QED BY <1>5, <1>7, <1>9 DEF FlattensBy

(* What stands in a sequence, and when it is in an order given as a set of  *)
(* pairs.                                                                  *)
Has(seq, x) == \E k \in 1..Len(seq) : seq[k] = x

InOrder(seq, Pairs) == \A j, k \in 1..Len(seq) : j < k => <<seq[j], seq[k]>> \in Pairs

(* What is in a concatenation, and in which order.                          *)
LEMMA ConcatInOrder ==
  ASSUME NEW A, NEW p \in Seq(A), NEW q \in Seq(A), NEW Pairs
  PROVE  /\ p \o q \in Seq(A)
         /\ \A x : Has(p \o q, x) <=> Has(p, x) \/ Has(q, x)
         /\ (/\ InOrder(p, Pairs) /\ InOrder(q, Pairs)
             /\ \A x, y : Has(p, x) /\ Has(q, y) => <<x, y>> \in Pairs) =>
              InOrder(p \o q, Pairs)
<1>1. PICK r \in Seq(A) : r = p \o q
  BY ConcatProperties
<1>2. Len(p) \in Nat /\ Len(q) \in Nat /\ Len(r) = Len(p) + Len(q)
  BY <1>1, ConcatProperties, LenProperties
<1>3. \A i \in 1..(Len(p) + Len(q)) : r[i] = IF i <= Len(p) THEN p[i] ELSE q[i - Len(p)]
  BY <1>1, ConcatProperties
<1>4. /\ \A j \in 1..Len(p) : j \in 1..Len(r) /\ r[j] = p[j]
      /\ \A j \in 1..Len(q) : Len(p) + j \in 1..Len(r) /\ r[Len(p) + j] = q[j]
      /\ \A j \in 1..Len(r) : \/ j \in 1..Len(p)
                              \/ j > Len(p) /\ j - Len(p) \in 1..Len(q) /\ r[j] = q[j - Len(p)]
  <2>1. ASSUME NEW j \in 1..Len(p) PROVE j \in 1..Len(r) /\ r[j] = p[j]
    BY <1>2, <1>3
  <2>2. ASSUME NEW j \in 1..Len(q)
        PROVE  Len(p) + j \in 1..Len(r) /\ r[Len(p) + j] = q[j]
    <3>1. Len(p) + j \in 1..(Len(p) + Len(q)) /\ ~(Len(p) + j <= Len(p)) /\ (Len(p) + j) - Len(p) = j
      BY <1>2
    <3> QED BY <1>2, <1>3, <3>1
  <2>3. ASSUME NEW j \in 1..Len(r), j \notin 1..Len(p)
        PROVE  j > Len(p) /\ j - Len(p) \in 1..Len(q) /\ r[j] = q[j - Len(p)]
    BY <1>2, <1>3, <2>3
  <2> QED BY <2>1, <2>2, <2>3
<1>5. ASSUME NEW x PROVE Has(r, x) <=> Has(p, x) \/ Has(q, x)
  <2>1. ASSUME Has(r, x) PROVE Has(p, x) \/ Has(q, x)
    <3>1. PICK j \in 1..Len(r) : r[j] = x
      BY <2>1 DEF Has
    <3> QED BY <1>4, <3>1 DEF Has
  <2>2. ASSUME Has(p, x) PROVE Has(r, x)
    BY <1>4, <2>2 DEF Has
  <2>3. ASSUME Has(q, x) PROVE Has(r, x)
    <3>1. PICK j \in 1..Len(q) : q[j] = x
      BY <2>3 DEF Has
    <3>2. Len(p) + j \in 1..Len(r) /\ r[Len(p) + j] = x
      BY <1>4, <3>1
    <3> QED BY <3>2 DEF Has
  <2> QED BY <2>1, <2>2, <2>3
<1>6. ASSUME InOrder(p, Pairs), InOrder(q, Pairs),
             \A x, y : Has(p, x) /\ Has(q, y) => <<x, y>> \in Pairs,
             NEW i \in 1..Len(r), NEW j \in 1..Len(r), i < j
      PROVE  <<r[i], r[j]>> \in Pairs
  <2>1. CASE i \in 1..Len(p) /\ j \in 1..Len(p)
    BY <1>4, <1>6, <2>1 DEF InOrder
  <2>2. CASE i \in 1..Len(p) /\ j \notin 1..Len(p)
    <3>1. Has(p, r[i]) /\ Has(q, r[j])
      BY <1>4, <2>2 DEF Has
    <3> QED BY <1>6, <3>1
  <2>3. CASE i \notin 1..Len(p)
    <3>1. j \notin 1..Len(p)
      BY <1>2, <1>4, <1>6, <2>3
    <3>2. /\ i - Len(p) \in 1..Len(q) /\ r[i] = q[i - Len(p)]
          /\ j - Len(p) \in 1..Len(q) /\ r[j] = q[j - Len(p)]
      BY <1>4, <2>3, <3>1
    <3>3. i - Len(p) < j - Len(p)
      BY <1>2, <1>6
    <3> QED BY <1>6, <3>2, <3>3 DEF InOrder
  <2> QED BY <2>1, <2>2, <2>3
<1>7. (/\ InOrder(p, Pairs) /\ InOrder(q, Pairs)
       /\ \A x, y : Has(p, x) /\ Has(q, y) => <<x, y>> \in Pairs) => InOrder(r, Pairs)
  BY <1>6 DEF InOrder
<1> QED BY <1>1, <1>5, <1>7

(* What is in a flattened sequence, and in which order: if the pieces are   *)
(* in order, and all of a piece comes before all of a later one, then the   *)
(* whole is in order.                                                      *)
LEMMA FlattenProperties ==
  ASSUME NEW A, NEW seqs \in Seq(Seq(A)), NEW N \in Nat \ {0}, N = Len(seqs), NEW Pairs
  PROVE  /\ FlattenSeq(seqs) \in Seq(A)
         /\ \A x : Has(FlattenSeq(seqs), x) <=> \E i \in 1..N : Has(seqs[i], x)
         /\ (/\ \A i \in 1..N : InOrder(seqs[i], Pairs)
             /\ \A g, h \in 1..N : g < h =>
                  \A x, y : Has(seqs[g], x) /\ Has(seqs[h], y) => <<x, y>> \in Pairs) =>
              InOrder(FlattenSeq(seqs), Pairs)
<1>1. \A i \in 1..N : seqs[i] \in Seq(A)
  OBVIOUS
<1>2. PICK f \in [1..N -> Seq(A)] :
        /\ f[1] = seqs[1]
        /\ \A i \in 1..N : i < N => f[i + 1] = f[i] \o seqs[i + 1]
        /\ FlattenSeq(seqs) = f[N]
  <2>1. \E f \in [1..N -> Seq(A)] : FlattensBy(f, seqs, N)
    BY FlattenByPrefixes, Zenon
  <2> QED BY <2>1 DEF FlattensBy
<1> DEFINE InSome(m, x) == \E i \in 1..m : Has(seqs[i], x)
           Ascend == /\ \A i \in 1..N : InOrder(seqs[i], Pairs)
                     /\ \A g, h \in 1..N : g < h =>
                          \A x, y : Has(seqs[g], x) /\ Has(seqs[h], y) => <<x, y>> \in Pairs
           Good(m) == /\ \A x : Has(f[m], x) <=> InSome(m, x)
                      /\ Ascend => InOrder(f[m], Pairs)
           S == {m \in 1..N : Good(m)}
<1>3. 1 \in S
  <2>1. \A x : InSome(1, x) <=> Has(seqs[1], x)
    OBVIOUS
  <2>2. Ascend => InOrder(seqs[1], Pairs)
    OBVIOUS
  <2>3. Good(1)
    <3> HIDE DEF InSome, Ascend
    <3> QED BY <1>2, <2>1, <2>2
  <2> HIDE DEF Good
  <2> QED BY <2>3
<1>4. ASSUME NEW m \in S, m < N PROVE m + 1 \in S
  <2> HIDE DEF Good, Ascend
  <2>1. m \in 1..N /\ m + 1 \in 1..N /\ Good(m)
    BY <1>4
  <2>2. PICK p \in Seq(A) : p = f[m]
    BY <2>1
  <2>3. PICK q \in Seq(A) : q = seqs[m + 1]
    BY <1>1, <2>1
  <2>4. f[m + 1] = p \o q
    BY <1>2, <1>4, <2>1, <2>2, <2>3
  <2>5. \A x : Has(p, x) <=> InSome(m, x)
    BY <2>1, <2>2 DEF Good
  <2>6. \A x : InSome(m + 1, x) <=> InSome(m, x) \/ Has(q, x)
    <3>1. \A i : i \in 1..(m + 1) <=> i \in 1..m \/ i = m + 1
      BY <2>1
    <3> QED BY <2>3, <3>1
  <2>7. \A x : Has(p \o q, x) <=> InSome(m + 1, x)
    <3>1. \A x : Has(p \o q, x) <=> Has(p, x) \/ Has(q, x)
      BY ConcatInOrder
    <3> HIDE DEF InSome
    <3> QED BY <2>5, <2>6, <3>1
  <2>8. ASSUME Ascend PROVE InOrder(p \o q, Pairs)
    <3>1. InOrder(p, Pairs)
      BY <2>1, <2>2, <2>8 DEF Good
    <3>2. InOrder(q, Pairs)
      BY <2>1, <2>3, <2>8 DEF Ascend
    <3>3. ASSUME NEW x, NEW y, Has(p, x), Has(q, y) PROVE <<x, y>> \in Pairs
      <4>1. PICK g \in 1..m : Has(seqs[g], x)
        BY <2>5, <3>3
      <4>2. g \in 1..N /\ g < m + 1
        BY <2>1
      <4> QED BY <2>1, <2>3, <2>8, <3>3, <4>1, <4>2 DEF Ascend
    <3> QED BY <3>1, <3>2, <3>3, ConcatInOrder
  <2>9. Good(m + 1)
    <3> HIDE DEF InSome
    <3> QED BY <2>4, <2>7, <2>8 DEF Good
  <2> QED BY <2>1, <2>9
<1>5. Good(N)
  <2> HIDE DEF Good
  <2>1. S \in SUBSET (1..N)
    OBVIOUS
  <2>2. S = 1..N
    <3> HIDE DEF S
    <3> QED BY <1>3, <1>4, <2>1, Induction
  <2>3. \A i \in S : Good(i)
    OBVIOUS
  <2>4. N \in 1..N
    OBVIOUS
  <2>5. N \in S
    <3> HIDE DEF S
    <3> QED BY <2>2, <2>4
  <2> QED
    <3> HIDE DEF S
    <3> QED BY <2>3, <2>5
<1>6. f[N] \in Seq(A)
  BY <1>2
<1> QED BY <1>2, <1>5, <1>6

-----------------------------------------------------------------------------
(* The arithmetic of blocks *)

(* Quotient and rest, for the block size. *)
LEMMA Division ==
  ASSUME NEW a \in Nat, NEW K \in Nat \ {0}
  PROVE  \E q \in Nat, r \in 0..(K - 1) : q = a \div K /\ r = a % K /\ a = q * K + r
<1>1. PICK q \in Nat : q = a \div K
  OBVIOUS
<1>2. PICK r \in 0..(K - 1) : r = a % K
  OBVIOUS
<1>3. a = q * K + r
  BY <1>1, <1>2
<1> QED BY <1>1, <1>2, <1>3, Zenon

LEMMA MultiplesKeepOrder ==
  ASSUME NEW a \in Nat, NEW b \in Nat, NEW K \in Nat \ {0}
  PROVE  /\ a * K \in Nat
         /\ a <= b <=> a * K <= b * K
         /\ a < b <=> a * K + K <= b * K
         /\ a = b <=> a * K = b * K
<1>1. \A d, e \in Nat : (d + e) * K = d * K + e * K
  OBVIOUS
<1>2. \A d \in Nat : d * K \in Nat /\ (d >= 1 => d * K >= K)
  OBVIOUS
<1>3. ASSUME NEW d \in Nat, NEW e \in Nat, d < e PROVE d * K + K <= e * K
  <2>1. e - d \in Nat /\ d + (e - d) = e /\ e - d >= 1
    BY <1>3
  <2>2. e * K = d * K + (e - d) * K /\ (e - d) * K >= K
    BY <1>1, <1>2, <2>1
  <2> QED BY <1>2, <2>2
<1>4. a * K \in Nat /\ b * K \in Nat
  OBVIOUS
<1>5. CASE a < b
  BY <1>3, <1>4, <1>5
<1>6. CASE b < a
  BY <1>3, <1>4, <1>6
<1>7. CASE a = b
  BY <1>4, <1>7
<1> QED BY <1>5, <1>6, <1>7

(* The number of the block, and the slot, of a frame are found again. *)
LEMMA DivisionIsUnique ==
  ASSUME NEW b \in Nat, NEW K \in Nat \ {0}, NEW t \in 0..(K - 1)
  PROVE  b * K + t \in Nat /\ (b * K + t) \div K = b
<1>1. PICK a \in Nat : a = b * K + t
  BY MultiplesKeepOrder
<1>2. PICK q \in Nat, r \in 0..(K - 1) : q = a \div K /\ r = a % K /\ a = q * K + r
  BY Division
<1>3. q * K \in Nat /\ b * K \in Nat
  BY MultiplesKeepOrder
<1>4. ~(b < q)
  <2>1. b < q => b * K + K <= q * K
    BY MultiplesKeepOrder
  <2> QED BY <1>1, <1>2, <1>3, <2>1
<1>5. ~(q < b)
  <2>1. q < b => q * K + K <= b * K
    BY MultiplesKeepOrder
  <2> QED BY <1>1, <1>2, <1>3, <2>1
<1> QED BY <1>1, <1>2, <1>4, <1>5

(* What PlanFor accepts, it can divide by. *)
LEMMA PlanFacts ==
  ASSUME NEW size, NEW c, PlanAccepts(size, c)
  PROVE  /\ size \in Nat
         /\ c.PayloadSize \in Nat \ {0} /\ c.DataFramesPerBlock \in Nat \ {0}
         /\ c.RescueFramesPerBlock \in Nat
         /\ DataFrames(size, c) \in Nat \ {0}
<1>1. /\ size \in Nat
      /\ c.PayloadSize \in Nat \ {0} /\ c.DataFramesPerBlock \in Nat \ {0}
      /\ c.RescueFramesPerBlock \in Nat
  BY LimitsAssumption DEF PlanAccepts, Valid
<1>2. ASSUME size > 0 PROVE (size - 1) \div c.PayloadSize \in Nat
  BY <1>1, <1>2
<1>3. DataFrames(size, c) \in Nat \ {0}
  BY <1>1, <1>2 DEF DataFrames
<1> QED BY <1>1, <1>3

(* The blocks are those that start below the number of frames. *)
LEMMA BlockCountFacts ==
  ASSUME NEW c, c.DataFramesPerBlock \in Nat \ {0}, NEW total \in Nat \ {0}, NEW b \in Nat
  PROVE  /\ BlockCount(total, c) \in Nat \ {0}
         /\ b < BlockCount(total, c) <=> b * c.DataFramesPerBlock < total
<1>1. PICK K \in Nat \ {0} : K = c.DataFramesPerBlock
  OBVIOUS
<1>2. PICK q \in Nat, r \in 0..(K - 1) : q = BlockCount(total, c) /\ total + K - 1 = q * K + r
  <2>1. PICK a \in Nat : a = total + K - 1
    OBVIOUS
  <2>2. PICK q \in Nat, r \in 0..(K - 1) : q = a \div K /\ r = a % K /\ a = q * K + r
    BY Division
  <2>3. BlockCount(total, c) = a \div K
    BY <1>1, <2>1 DEF BlockCount
  <2> QED BY <2>1, <2>2, <2>3
<1>3. q * K \in Nat /\ b * K \in Nat /\ q * K >= total /\ q * K <= total + K - 1
  BY <1>2, MultiplesKeepOrder
<1>4. q # 0
  BY <1>3
<1>5. ASSUME b < q PROVE b * K < total
  <2>1. b * K + K <= q * K
    BY <1>5, MultiplesKeepOrder
  <2> QED BY <1>3, <2>1
<1>6. ASSUME ~(b < q) PROVE ~(b * K < total)
  <2>1. q * K <= b * K
    BY <1>6, MultiplesKeepOrder
  <2> QED BY <1>3, <2>1
<1> QED BY <1>1, <1>2, <1>4, <1>5, <1>6

-----------------------------------------------------------------------------
(* The places of the frames: a block, counted from 0, and a slot *)

SlotCount(c) == c.DataFramesPerBlock + c.RescueFramesPerBlock

FrameAt(b, t, size, c) ==
  IF t < c.DataFramesPerBlock
  THEN DataFrame(b * c.DataFramesPerBlock + t, size, c)
  ELSE RescueFrame(b * c.DataFramesPerBlock, t - c.DataFramesPerBlock, size, c)

(* A last block may be short of data frames. *)
IsPlace(b, t, size, c) ==
  /\ b \in 0..(BlockCount(DataFrames(size, c), c) - 1)
  /\ t \in 0..(SlotCount(c) - 1)
  /\ t < c.DataFramesPerBlock => b * c.DataFramesPerBlock + t < DataFrames(size, c)

(* The frame of a place is encoded, and BlockOf and SlotOf find the place.  *)
LEMMA FrameOfPlace ==
  ASSUME NEW size, NEW c, PlanAccepts(size, c), NEW b, NEW t, IsPlace(b, t, size, c)
  PROVE  /\ FrameAt(b, t, size, c) \in Encoded(size, c)
         /\ BlockOf(FrameAt(b, t, size, c)) = b * c.DataFramesPerBlock
         /\ SlotOf(FrameAt(b, t, size, c)) = t
<1>1. PICK K \in Nat \ {0} : K = c.DataFramesPerBlock
  BY PlanFacts
<1>2. PICK N \in Nat \ {0} : N = DataFrames(size, c)
  BY PlanFacts
<1>3. PICK B \in Nat \ {0} : B = BlockCount(N, c)
  BY <1>1, BlockCountFacts
<1>4. c.RescueFramesPerBlock \in Nat
  BY PlanFacts
<1>5. /\ b \in 0..(B - 1) /\ t \in 0..(K + c.RescueFramesPerBlock - 1)
      /\ t < K => b * K + t < N
  <2>1. b \in 0..(B - 1)
    BY <1>2, <1>3 DEF IsPlace
  <2>2. t \in 0..(K + c.RescueFramesPerBlock - 1)
    BY <1>1, <1>4 DEF IsPlace, SlotCount
  <2>3. t < K => b * K + t < N
    BY <1>1, <1>2 DEF IsPlace
  <2> QED BY <2>1, <2>2, <2>3
<1>6. PICK s \in Nat : s = b * K
  BY <1>5, MultiplesKeepOrder
<1>7. CASE t < K
  <2>1. PICK i \in 0..(N - 1) : i = s + t
    BY <1>5, <1>6, <1>7
  <2>2. FrameAt(b, t, size, c) = DataFrame(i, size, c)
    BY <1>1, <1>6, <1>7, <2>1 DEF FrameAt
  <2>3. /\ DataFrame(i, size, c).FrameType = Data /\ DataFrame(i, size, c).FrameIndex = i
        /\ DataFrame(i, size, c).BlockSize = K
    BY <1>1 DEF DataFrame, Frame
  <2>4. i \div K = b
    <3>1. t \in 0..(K - 1) /\ b \in Nat
      BY <1>5, <1>7
    <3> QED BY <1>6, <2>1, <3>1, DivisionIsUnique
  <2>5. BlockOf(DataFrame(i, size, c)) = s
    BY <1>6, <2>3, <2>4 DEF BlockOf
  <2>6. SlotOf(DataFrame(i, size, c)) = t
    BY <1>5, <2>1, <2>3, <2>5 DEF SlotOf
  <2>7. DataFrame(i, size, c) \in Encoded(size, c)
    BY <1>2 DEF Encoded
  <2> QED BY <1>1, <1>6, <2>2, <2>5, <2>6, <2>7
<1>8. CASE ~(t < K)
  <2>1. PICK r \in 0..(c.RescueFramesPerBlock - 1) : r = t - K
    BY <1>4, <1>5, <1>8
  <2>2. FrameAt(b, t, size, c) = RescueFrame(s, r, size, c)
    BY <1>1, <1>6, <1>8, <2>1 DEF FrameAt
  <2>3. /\ RescueFrame(s, r, size, c).FrameType = Rescue
        /\ RescueFrame(s, r, size, c).FrameIndex = s
        /\ RescueFrame(s, r, size, c).RescueIndex = r
        /\ RescueFrame(s, r, size, c).BlockSize = K
    BY <1>1 DEF RescueFrame, Frame
  <2>4. BlockOf(RescueFrame(s, r, size, c)) = s
    BY <2>3 DEF BlockOf, Data, Rescue
  <2>5. SlotOf(RescueFrame(s, r, size, c)) = t
    BY <1>5, <2>1, <2>3 DEF SlotOf, Data, Rescue
  <2>6. s \in BlockStarts(N, c)
    BY <1>1, <1>3, <1>5, <1>6 DEF BlockStarts
  <2>7. RescueFrame(s, r, size, c) \in Encoded(size, c)
    BY <1>2, <2>6 DEF Encoded
  <2> QED BY <1>1, <1>6, <2>2, <2>4, <2>5, <2>7
<1> QED BY <1>7, <1>8

(* Every encoded frame has a place. *)
LEMMA PlaceOfFrame ==
  ASSUME NEW size, NEW c, PlanAccepts(size, c), NEW f \in Encoded(size, c)
  PROVE  \E b, t \in Nat : IsPlace(b, t, size, c) /\ f = FrameAt(b, t, size, c)
<1>1. PICK K \in Nat \ {0} : K = c.DataFramesPerBlock
  BY PlanFacts
<1>2. PICK N \in Nat \ {0} : N = DataFrames(size, c)
  BY PlanFacts
<1>3. PICK B \in Nat \ {0} : B = BlockCount(N, c)
  BY <1>1, BlockCountFacts
<1>4. PICK R \in Nat : R = c.RescueFramesPerBlock
  BY PlanFacts
<1>5. \A b, t \in Nat : b < B /\ t < K + R /\ (t < K => b * K + t < N) => IsPlace(b, t, size, c)
  BY <1>1, <1>2, <1>3, <1>4 DEF IsPlace, SlotCount
<1>6. CASE \E i \in 0..(N - 1) : f = DataFrame(i, size, c)
  <2>1. PICK i \in 0..(N - 1) : f = DataFrame(i, size, c)
    BY <1>6
  <2>2. PICK b \in Nat, t \in 0..(K - 1) : b = i \div K /\ t = i % K /\ i = b * K + t
    BY Division
  <2>3. PICK s \in Nat : s = b * K
    BY MultiplesKeepOrder
  <2>4. s < N /\ b * K + t < N
    BY <2>2, <2>3
  <2>5. b < B
    BY <1>1, <1>3, <2>3, <2>4, BlockCountFacts
  <2>6. t \in Nat /\ t < K /\ t < K + R
    BY <2>2
  <2>7. f = FrameAt(b, t, size, c)
    BY <1>1, <2>1, <2>2, <2>6 DEF FrameAt
  <2> QED BY <1>5, <2>4, <2>5, <2>6, <2>7
<1>7. CASE \E s \in BlockStarts(N, c), r \in 0..(R - 1) : f = RescueFrame(s, r, size, c)
  <2>1. PICK s \in BlockStarts(N, c), r \in 0..(R - 1) : f = RescueFrame(s, r, size, c)
    BY <1>7
  <2>2. PICK b \in 0..(B - 1) : s = b * K
    BY <1>1, <1>3 DEF BlockStarts
  <2>3. PICK t \in Nat : t = K + r
    OBVIOUS
  <2>4. b \in Nat /\ b < B /\ t < K + R /\ ~(t < K) /\ t - K = r
    BY <2>2, <2>3
  <2>5. f = FrameAt(b, t, size, c)
    BY <1>1, <2>1, <2>2, <2>4 DEF FrameAt
  <2> QED BY <1>5, <2>4, <2>5
<1> QED BY <1>2, <1>4, <1>6, <1>7 DEF Encoded

(* BlockOf and SlotOf of an encoded frame, and that no two frames share them. *)
LEMMA PlaceFacts ==
  ASSUME NEW size, NEW c, PlanAccepts(size, c), NEW f \in Encoded(size, c)
  PROVE  /\ SlotOf(f) \in 0..(SlotCount(c) - 1)
         /\ \E b \in 0..(BlockCount(DataFrames(size, c), c) - 1) :
              BlockOf(f) = b * c.DataFramesPerBlock
         /\ \A g \in Encoded(size, c) :
              SlotOf(g) = SlotOf(f) /\ BlockOf(g) = BlockOf(f) => g = f
<1>1. PICK b \in Nat, t \in Nat : IsPlace(b, t, size, c) /\ f = FrameAt(b, t, size, c)
  BY PlaceOfFrame
<1>2. BlockOf(f) = b * c.DataFramesPerBlock /\ SlotOf(f) = t
  BY <1>1, FrameOfPlace
<1>3. b \in 0..(BlockCount(DataFrames(size, c), c) - 1) /\ t \in 0..(SlotCount(c) - 1)
  BY <1>1 DEF IsPlace
<1>4. ASSUME NEW g \in Encoded(size, c), SlotOf(g) = SlotOf(f), BlockOf(g) = BlockOf(f)
      PROVE  g = f
  <2>1. PICK d \in Nat, u \in Nat : IsPlace(d, u, size, c) /\ g = FrameAt(d, u, size, c)
    BY PlaceOfFrame
  <2>2. BlockOf(g) = d * c.DataFramesPerBlock /\ SlotOf(g) = u
    BY <2>1, FrameOfPlace
  <2>3. u = t /\ d * c.DataFramesPerBlock = b * c.DataFramesPerBlock
    BY <1>2, <1>4, <2>2
  <2>4. d = b
    <3>1. c.DataFramesPerBlock \in Nat \ {0}
      BY PlanFacts
    <3> QED BY <2>3, <3>1, MultiplesKeepOrder
  <2> QED BY <1>1, <2>1, <2>3, <2>4
<1> QED BY <1>2, <1>3, <1>4

-----------------------------------------------------------------------------
(* Encode emits the encoded frames *)

(* How many data frames a block has. *)
LEMMA BlockLength ==
  ASSUME NEW c, NEW K \in Nat \ {0}, K = c.DataFramesPerBlock,
         NEW N \in Nat \ {0}, NEW s \in Nat, s < N
  PROVE  /\ Cardinality(BlockFrames(s, N, c)) \in Nat
         /\ \A k \in Nat \ {0} :
              k <= Cardinality(BlockFrames(s, N, c)) <=> k <= K /\ s + k - 1 < N
<1>1. PICK e \in Nat : e = IF s + K <= N THEN s + K - 1 ELSE N - 1
  OBVIOUS
<1>2. s <= e + 1 /\ s \in Int /\ e \in Int
  BY <1>1
<1>3. BlockFrames(s, N, c) = s..e
  <2>1. \A i : i \in 0..(N - 1) /\ s <= i /\ i < s + K <=> i \in s..e
    BY <1>1
  <2> QED BY <2>1 DEF BlockFrames
<1>4. Cardinality(s..e) = e - s + 1
  <2>1. Cardinality(s..e) = IF s > e THEN 0 ELSE e - s + 1
    BY <1>2, FS_Interval
  <2>2. s <= e
    BY <1>1
  <2>3. ~(s > e)
    BY <1>2, <2>2
  <2> QED BY <2>1, <2>3, Zenon
<1>5. PICK m \in Nat : m = e - s + 1
  BY <1>2
<1>6. \A k \in Nat \ {0} : k <= m <=> k <= K /\ s + k - 1 < N
  BY <1>1, <1>5
<1>7. Cardinality(BlockFrames(s, N, c)) = m
  BY <1>3, <1>4, <1>5, Zenon
<1> QED BY <1>6, <1>7

(* Encode emits the encoded frames, and nothing else. *)
LEMMA EncodeEmitsEncoded ==
  ASSUME NEW size, NEW c, PlanAccepts(size, c)
  PROVE  /\ Encode(size, c) \in Seq(Encoded(size, c))
         /\ \A x : Has(Encode(size, c), x) <=> x \in Encoded(size, c)
<1> DEFINE A == Encoded(size, c)
<1>1. PICK K \in Nat \ {0} : K = c.DataFramesPerBlock
  BY PlanFacts
<1>2. PICK N \in Nat \ {0} : N = DataFrames(size, c)
  BY PlanFacts
<1>3. PICK B \in Nat \ {0} : B = BlockCount(N, c)
  BY <1>1, BlockCountFacts
<1>4. PICK R \in Nat : R = c.RescueFramesPerBlock
  BY PlanFacts
<1> DEFINE C(b) == Cardinality(BlockFrames((b - 1) * K, N, c))
           P(b) == [k \in 1..C(b) |-> DataFrame((b - 1) * K + k - 1, size, c)]
           Q(b) == [k \in 1..R |-> RescueFrame((b - 1) * K, k - 1, size, c)]
           blocks == [b \in 1..B |-> P(b) \o Q(b)]
<1>5. Encode(size, c) = FlattenSeq(blocks)
  BY <1>1, <1>2, <1>3, <1>4 DEF Encode
<1>6. ASSUME NEW b \in 1..B
      PROVE  /\ P(b) \o Q(b) \in Seq(A)
             /\ \A x : Has(P(b) \o Q(b), x) <=>
                  \E t \in Nat : IsPlace(b - 1, t, size, c) /\ x = FrameAt(b - 1, t, size, c)
  <2>1. PICK s \in Nat : s = (b - 1) * K /\ s < N
    <3>1. b - 1 \in Nat /\ b - 1 < B
      OBVIOUS
    <3>2. PICK d \in Nat : d = b - 1 /\ d < B
      BY <3>1
    <3>3. d * K \in Nat
      BY MultiplesKeepOrder
    <3>4. d * K < N
      BY <1>1, <1>3, <3>2, BlockCountFacts
    <3> QED BY <3>2, <3>3, <3>4
  <2>2. PICK L \in Nat : /\ L = C(b)
                         /\ \A k \in Nat \ {0} : k <= L <=> k <= K /\ s + k - 1 < N
    <3>1. PICK L : L = Cardinality(BlockFrames(s, N, c))
      OBVIOUS
    <3>2. L = C(b)
      BY <2>1, <3>1
    <3>3. L \in Nat /\ \A k \in Nat \ {0} : k <= L <=> k <= K /\ s + k - 1 < N
      BY <1>1, <2>1, <3>1, BlockLength
    <3> HIDE DEF C
    <3> QED BY <3>2, <3>3
  <2>3. PICK p : p = [k \in 1..L |-> DataFrame(s + k - 1, size, c)]
    OBVIOUS
  <2>4. PICK q : q = [k \in 1..R |-> RescueFrame(s, k - 1, size, c)]
    OBVIOUS
  <2>5. P(b) = p /\ Q(b) = q
    BY <2>1, <2>2, <2>3, <2>4
  <2> HIDE DEF C, P, Q, A
  <2>6. \A t \in Nat : IsPlace(b - 1, t, size, c) <=> t < K + R /\ (t < K => s + t < N)
    <3>1. b - 1 \in 0..(B - 1)
      OBVIOUS
    <3> QED BY <1>1, <1>2, <1>3, <1>4, <2>1, <3>1 DEF IsPlace, SlotCount
  <2>7. /\ \A t \in Nat : t < K => FrameAt(b - 1, t, size, c) = DataFrame(s + t, size, c)
        /\ \A t \in Nat : ~(t < K) => FrameAt(b - 1, t, size, c) = RescueFrame(s, t - K, size, c)
    BY <1>1, <2>1 DEF FrameAt
  <2>8. ASSUME NEW k \in 1..L
        PROVE  /\ k - 1 \in Nat /\ IsPlace(b - 1, k - 1, size, c)
               /\ p[k] = FrameAt(b - 1, k - 1, size, c)
    <3>1. k \in Nat \ {0} /\ k <= K /\ s + k - 1 < N
      BY <2>2
    <3>2. k - 1 \in Nat /\ k - 1 < K /\ k - 1 < K + R /\ s + (k - 1) = s + k - 1
      BY <3>1
    <3>3. IsPlace(b - 1, k - 1, size, c)
      BY <2>6, <3>1, <3>2
    <3>4. p[k] = DataFrame(s + (k - 1), size, c)
      BY <2>3, <3>2
    <3> QED BY <2>7, <3>2, <3>3, <3>4
  <2>9. ASSUME NEW k \in 1..R
        PROVE  /\ K + k - 1 \in Nat /\ IsPlace(b - 1, K + k - 1, size, c)
               /\ q[k] = FrameAt(b - 1, K + k - 1, size, c)
    <3>1. /\ K + k - 1 \in Nat /\ ~(K + k - 1 < K) /\ K + k - 1 < K + R
          /\ (K + k - 1) - K = k - 1
      OBVIOUS
    <3>2. IsPlace(b - 1, K + k - 1, size, c)
      BY <2>6, <3>1
    <3>3. FrameAt(b - 1, K + k - 1, size, c) = RescueFrame(s, (K + k - 1) - K, size, c)
      BY <2>7, <3>1
    <3> QED BY <2>4, <3>1, <3>2, <3>3
  <2>10. \A t \in Nat : IsPlace(b - 1, t, size, c) => FrameAt(b - 1, t, size, c) \in A
    BY FrameOfPlace DEF A
  <2>11. p \in Seq(A) /\ Len(p) = L
    <3>1. \A k \in 1..L : p[k] \in A
      BY <2>8, <2>10
    <3>2. p \in [1..L -> A]
      BY <2>3, <3>1
    <3>3. p \in Seq(A)
      BY <3>2
    <3>4. DOMAIN p = 1..L
      BY <3>2
    <3> QED BY <3>3, <3>4
  <2>12. q \in Seq(A) /\ Len(q) = R
    <3>1. \A k \in 1..R : q[k] \in A
      BY <2>9, <2>10
    <3>2. q \in [1..R -> A]
      BY <2>4, <3>1
    <3>3. q \in Seq(A)
      BY <3>2
    <3>4. DOMAIN q = 1..R
      BY <3>2
    <3> QED BY <3>3, <3>4
  <2>13. ASSUME NEW x, Has(p, x) \/ Has(q, x)
         PROVE  \E t \in Nat : IsPlace(b - 1, t, size, c) /\ x = FrameAt(b - 1, t, size, c)
    <3>1. CASE Has(p, x)
      <4>1. PICK k \in 1..L : p[k] = x
        BY <2>11, <3>1 DEF Has
      <4> QED BY <2>8, <4>1
    <3>2. CASE Has(q, x)
      <4>1. PICK k \in 1..R : q[k] = x
        BY <2>12, <3>2 DEF Has
      <4> QED BY <2>9, <4>1
    <3> QED BY <2>13, <3>1, <3>2
  <2>14. ASSUME NEW t \in Nat, IsPlace(b - 1, t, size, c)
         PROVE  Has(p, FrameAt(b - 1, t, size, c)) \/ Has(q, FrameAt(b - 1, t, size, c))
    <3>1. t < K + R /\ (t < K => s + t < N)
      BY <2>6, <2>14
    <3>2. CASE t < K
      <4>1. PICK k \in 1..L : k = t + 1
        <5>1. t + 1 \in Nat \ {0} /\ t + 1 <= K /\ s + (t + 1) - 1 < N
          BY <3>1, <3>2
        <5> QED BY <2>2, <5>1
      <4>2. k - 1 = t
        BY <4>1
      <4>3. p[k] = FrameAt(b - 1, t, size, c)
        BY <2>8, <4>2
      <4> QED BY <2>11, <4>3 DEF Has
    <3>3. CASE ~(t < K)
      <4>1. PICK k \in 1..R : k = t - K + 1
        BY <3>1, <3>3
      <4>2. K + k - 1 = t
        BY <4>1
      <4>3. q[k] = FrameAt(b - 1, t, size, c)
        BY <2>9, <4>2
      <4> QED BY <2>12, <4>3 DEF Has
    <3> QED BY <3>2, <3>3
  <2>15. p \o q \in Seq(A) /\ \A x : Has(p \o q, x) <=> Has(p, x) \/ Has(q, x)
    BY <2>11, <2>12, ConcatInOrder
  <2> QED BY <2>5, <2>13, <2>14, <2>15
<1>7. blocks \in Seq(Seq(A)) /\ Len(blocks) = B /\ \A b \in 1..B : blocks[b] = P(b) \o Q(b)
  <2> HIDE DEF P, Q, A
  <2>1. blocks \in [1..B -> Seq(A)]
    BY <1>6
  <2> QED BY <2>1
<1>8. /\ FlattenSeq(blocks) \in Seq(A)
      /\ \A x : Has(FlattenSeq(blocks), x) <=> \E b \in 1..B : Has(blocks[b], x)
  <2> HIDE DEF blocks, A
  <2> QED BY <1>7, FlattenProperties
<1>9. ASSUME NEW x, \E b \in 1..B : Has(blocks[b], x) PROVE x \in A
  <2>1. PICK b \in 1..B : Has(P(b) \o Q(b), x)
    BY <1>7, <1>9
  <2> HIDE DEF P, Q
  <2>2. PICK t \in Nat : IsPlace(b - 1, t, size, c) /\ x = FrameAt(b - 1, t, size, c)
    BY <1>6, <2>1
  <2> QED BY <2>2, FrameOfPlace
<1>10. ASSUME NEW x \in A PROVE \E b \in 1..B : Has(blocks[b], x)
  <2>1. PICK d \in Nat, t \in Nat : IsPlace(d, t, size, c) /\ x = FrameAt(d, t, size, c)
    BY PlaceOfFrame
  <2>2. PICK b \in 1..B : d = b - 1
    <3>1. d \in 0..(B - 1)
      BY <1>2, <1>3, <2>1 DEF IsPlace
    <3>2. d + 1 \in 1..B /\ d = (d + 1) - 1
      BY <3>1
    <3> QED BY <3>2
  <2> HIDE DEF P, Q
  <2>3. Has(P(b) \o Q(b), x)
    BY <1>6, <2>1, <2>2
  <2> QED BY <1>7, <2>3
<1> HIDE DEF blocks
<1> QED BY <1>5, <1>8, <1>9, <1>10

-----------------------------------------------------------------------------
(* InterleaveByBlock shows them in the order `Before` *)

(* As many multiples as factors. *)
LEMMA CountOfMultiples ==
  ASSUME NEW K \in Nat \ {0}, NEW m \in Nat
  PROVE  /\ IsFiniteSet({b * K : b \in 0..(m - 1)})
         /\ Cardinality({b * K : b \in 0..(m - 1)}) = m
<1> DEFINE T == {b * K : b \in 0..(m - 1)}
           h == [b \in 0..(m - 1) |-> b * K]
<1>1. IsFiniteSet(0..(m - 1)) /\ Cardinality(0..(m - 1)) = m
  <2>1. 0 \in Int /\ m - 1 \in Int
    OBVIOUS
  <2> QED BY <2>1, FS_Interval
<1>2. h \in Bijection(0..(m - 1), T)
  <2>1. h \in Surjection(0..(m - 1), T)
    BY DEF Surjection
  <2>2. h \in Injection(0..(m - 1), T)
    <3>1. ASSUME NEW a \in 0..(m - 1), NEW b \in 0..(m - 1), h[a] = h[b] PROVE a = b
      <4>1. a \in Nat /\ b \in Nat /\ a * K = b * K
        BY <3>1
      <4> QED BY <4>1, MultiplesKeepOrder
    <3>2. h \in [0..(m - 1) -> T]
      OBVIOUS
    <3> HIDE DEF h, T
    <3> QED BY <3>1, <3>2 DEF Injection, IsInjective
  <2> HIDE DEF h, T
  <2> QED BY <2>1, <2>2 DEF Bijection
<1>3. ExistsBijection(0..(m - 1), T)
  BY <1>2 DEF ExistsBijection
<1> HIDE DEF T
<1>4. IsFiniteSet(T) /\ Cardinality(T) = m
  BY <1>1, <1>3, FS_Bijection
<1> QED BY <1>4 DEF T

(* The block starts in ascending order. *)
LEMMA StartsAscend ==
  ASSUME NEW K \in Nat \ {0}, NEW B \in Nat \ {0}
  PROVE  Ascending({b * K : b \in 0..(B - 1)}) = [k \in 1..B |-> (k - 1) * K]
<1> DEFINE T == {b * K : b \in 0..(B - 1)}
           Below(x) == {y \in T : y < x}
<1>1. Cardinality(T) = B
  BY CountOfMultiples
<1>2. ASSUME NEW i \in 0..(B - 1) PROVE Cardinality(Below(i * K)) = i
  <2>1. ASSUME NEW y \in Below(i * K) PROVE y \in {b * K : b \in 0..(i - 1)}
    <3>1. PICK b \in 0..(B - 1) : y = b * K /\ b * K < i * K
      OBVIOUS
    <3>2. b < i
      <4>1. ~(i <= b)
        BY <3>1, MultiplesKeepOrder
      <4> QED BY <4>1
    <3>3. b \in 0..(i - 1)
      BY <3>2
    <3> QED BY <3>1, <3>3
  <2>2. ASSUME NEW b \in 0..(i - 1) PROVE b * K \in Below(i * K)
    <3>1. b \in Nat /\ i \in Nat /\ b < i /\ b \in 0..(B - 1)
      OBVIOUS
    <3>2. b * K + K <= i * K /\ b * K \in Nat /\ i * K \in Nat
      BY <3>1, MultiplesKeepOrder
    <3>3. b * K < i * K /\ b * K \in T
      BY <3>1, <3>2
    <3> QED BY <3>3
  <2>3. Below(i * K) = {b * K : b \in 0..(i - 1)}
    <3> HIDE DEF Below
    <3> QED BY <2>1, <2>2
  <2>4. i \in Nat
    OBVIOUS
  <2> HIDE DEF Below
  <2> QED BY <2>3, <2>4, CountOfMultiples
<1>3. ASSUME NEW k \in 1..B
      PROVE  (CHOOSE x \in T : Cardinality(Below(x)) = k - 1) = (k - 1) * K
  <2>1. k - 1 \in 0..(B - 1)
    OBVIOUS
  <2>2. (k - 1) * K \in T /\ Cardinality(Below((k - 1) * K)) = k - 1
    BY <1>2, <2>1
  <2>3. ASSUME NEW x \in T, Cardinality(Below(x)) = k - 1 PROVE x = (k - 1) * K
    <3>1. PICK b \in 0..(B - 1) : x = b * K
      OBVIOUS
    <3> HIDE DEF Below
    <3>2. b = k - 1
      BY <1>2, <2>3, <3>1
    <3> QED BY <3>1, <3>2
  <2> HIDE DEF Below, T
  <2> QED BY <2>2, <2>3
<1>4. Ascending(T) = [k \in 1..Cardinality(T) |-> CHOOSE x \in T : Cardinality(Below(x)) = k - 1]
  BY DEF Ascending, Sorted
<1>5. Ascending(T) = [k \in 1..B |-> (k - 1) * K]
  <2> HIDE DEF Below, T
  <2> QED BY <1>1, <1>3, <1>4
<1> QED BY <1>5

(* A bounded set of numbers has a greatest one. *)
LEMMA GreatestOf ==
  ASSUME NEW S \in SUBSET Nat, S # {}, NEW top \in Nat, \A x \in S : x <= top
  PROVE  \E m \in S : \A x \in S : x <= m
<1> DEFINE T == {top - x : x \in S}
           Smaller == {p \in Nat \X Nat : p[1] < p[2]}
<1>1. IsWellFoundedOn(Smaller, Nat)
  BY NatLessThanWellFounded DEF OpToRel
<1>2. T \subseteq Nat /\ T # {}
  <2>1. \A x \in S : top - x \in Nat
    OBVIOUS
  <2>2. PICK x : x \in S
    OBVIOUS
  <2>3. top - x \in T
    BY <2>2
  <2>4. T \subseteq Nat
    BY <2>1
  <2> QED BY <2>3, <2>4
<1>3. PICK y \in T : \A z \in T : <<z, y>> \notin Smaller
  <2> HIDE DEF T, Smaller
  <2> QED BY <1>1, <1>2, WFMin
<1>4. PICK m \in S : y = top - m
  OBVIOUS
<1>5. ASSUME NEW x \in S PROVE x <= m
  <2>1. top - x \in T
    OBVIOUS
  <2>2. <<top - x, y>> \notin Smaller
    BY <1>3, <2>1
  <2>3. ~(top - x < y)
    <3>1. top - x \in Nat /\ y \in Nat
      BY <1>2, <2>1
    <3> QED BY <2>2, <3>1
  <2> QED BY <1>4, <2>3
<1> QED BY <1>5

(* The pairs of frames that the video shows in this order. *)
ShownBefore(frames) == {p \in frames \X frames : Before(p[1], p[2])}

(* InterleaveByBlock shows what the stream holds, and in the order `Before`. *)
LEMMA InterleaveOrders ==
  ASSUME NEW size, NEW c, PlanAccepts(size, c), NEW A, A = Encoded(size, c),
         NEW stream \in Seq(A), \A x : Has(stream, x) <=> x \in A
  PROVE  /\ InterleaveByBlock(stream) \in Seq(A)
         /\ \A x : Has(InterleaveByBlock(stream), x) <=> x \in A
         /\ InOrder(InterleaveByBlock(stream), ShownBefore(A))
<1> DEFINE place == [k \in DOMAIN stream |-> <<SlotOf(stream[k]), BlockOf(stream[k])>>]
           slots == {place[k][1] : k \in DOMAIN stream}
           starts == Ascending({place[k][2] : k \in DOMAIN stream})
           maxSlot == CHOOSE m \in slots : \A t \in slots : t <= m
           At(slot, start) ==
             LET k == {x \in DOMAIN stream : place[x] = <<slot, start>>}
             IN  IF k = {} THEN <<>> ELSE <<stream[CHOOSE x \in k : TRUE]>>
           Slot(slot) == FlattenSeq([k \in DOMAIN starts |-> At(slot, starts[k])])
           whole == [slot \in 1..(maxSlot + 1) |-> Slot(slot - 1)]
<1>1. InterleaveByBlock(stream) = FlattenSeq(whole)
  BY DEF InterleaveByBlock
<1>2. PICK K \in Nat \ {0} : K = c.DataFramesPerBlock
  BY PlanFacts
<1>3. PICK N \in Nat \ {0} : N = DataFrames(size, c)
  BY PlanFacts
<1>4. PICK B \in Nat \ {0} : B = BlockCount(N, c)
  BY <1>2, BlockCountFacts
<1>5. SlotCount(c) \in Nat /\ SlotCount(c) >= 1
  BY PlanFacts DEF SlotCount
<1>6. /\ \A k \in DOMAIN stream : stream[k] \in A
      /\ \A f \in A : \E k \in DOMAIN stream : stream[k] = f
  <2>1. DOMAIN stream = 1..Len(stream)
    OBVIOUS
  <2>2. \A k \in DOMAIN stream : stream[k] \in A
    OBVIOUS
  <2> QED BY <2>1, <2>2 DEF Has
<1>7. \A f \in A : /\ SlotOf(f) \in 0..(SlotCount(c) - 1)
                   /\ \E b \in 0..(B - 1) : BlockOf(f) = b * K
                   /\ \A g \in A : SlotOf(g) = SlotOf(f) /\ BlockOf(g) = BlockOf(f) => g = f
  BY <1>2, <1>3, <1>4, PlaceFacts
<1>8. \A b \in 0..(B - 1) : \E f \in A : BlockOf(f) = b * K
  <2> SUFFICES ASSUME NEW b \in 0..(B - 1) PROVE \E f \in A : BlockOf(f) = b * K
    OBVIOUS
  <2>1. b * K + 0 < N
    <3>1. b \in Nat /\ b < B
      OBVIOUS
    <3>2. b * K < N /\ b * K \in Nat
      BY <1>2, <1>4, <3>1, BlockCountFacts, MultiplesKeepOrder
    <3> QED BY <3>2
  <2>2. PICK t \in 0..(SlotCount(c) - 1) : t = 0
    BY <1>5
  <2>3. IsPlace(b, t, size, c)
    BY <1>2, <1>3, <1>4, <2>1, <2>2 DEF IsPlace
  <2> QED BY <1>2, <2>3, FrameOfPlace
<1>9. starts = [k \in 1..B |-> (k - 1) * K]
  <2>1. \A k \in DOMAIN stream : place[k][2] = BlockOf(stream[k])
    OBVIOUS
  <2>2. {place[k][2] : k \in DOMAIN stream} = {b * K : b \in 0..(B - 1)}
    <3> HIDE DEF place
    <3>1. ASSUME NEW k \in DOMAIN stream PROVE place[k][2] \in {b * K : b \in 0..(B - 1)}
      <4>1. stream[k] \in A
        BY <1>6
      <4>2. PICK b \in 0..(B - 1) : BlockOf(stream[k]) = b * K
        BY <1>7, <4>1
      <4> QED BY <2>1, <4>2
    <3>2. ASSUME NEW b \in 0..(B - 1) PROVE \E k \in DOMAIN stream : place[k][2] = b * K
      <4>1. PICK f \in A : BlockOf(f) = b * K
        BY <1>8
      <4>2. PICK k \in DOMAIN stream : stream[k] = f
        BY <1>6
      <4> QED BY <2>1, <4>1, <4>2
    <3> QED BY <3>1, <3>2
  <2> QED BY <2>2, StartsAscend
<1>10. /\ slots \subseteq 0..(SlotCount(c) - 1)
       /\ \A f \in A : SlotOf(f) \in slots
       /\ maxSlot \in Nat /\ \A t \in slots : t \in Nat /\ t <= maxSlot
  <2>1. slots = {SlotOf(stream[k]) : k \in DOMAIN stream}
    OBVIOUS
  <2>2. slots \subseteq 0..(SlotCount(c) - 1) /\ \A f \in A : SlotOf(f) \in slots
    <3> HIDE DEF slots
    <3> QED BY <1>6, <1>7, <2>1
  <2>3. slots # {}
    <3>1. 0 \in 0..(B - 1)
      OBVIOUS
    <3>2. PICK f : f \in A
      BY <1>8, <3>1
    <3> QED BY <2>2, <3>2
  <2> HIDE DEF slots
  <2>4. /\ slots \in SUBSET Nat /\ SlotCount(c) - 1 \in Nat
        /\ \A x \in slots : x <= SlotCount(c) - 1
    BY <1>5, <2>2
  <2>5. \E m \in slots : \A x \in slots : x <= m
    BY <2>3, <2>4, GreatestOf
  <2>6. maxSlot \in slots /\ \A t \in slots : t <= maxSlot
    BY <2>5
  <2> HIDE DEF maxSlot
  <2> QED BY <2>2, <2>4, <2>6
<1>11. ASSUME NEW slot \in Nat, NEW start
       PROVE  /\ At(slot, start) \in Seq(A) /\ Len(At(slot, start)) <= 1
              /\ \A x : Has(At(slot, start), x) <=>
                          x \in A /\ SlotOf(x) = slot /\ BlockOf(x) = start
  <2> DEFINE k == {x \in DOMAIN stream : place[x] = <<slot, start>>}
  <2>1. \A x \in DOMAIN stream :
          x \in k <=> SlotOf(stream[x]) = slot /\ BlockOf(stream[x]) = start
    OBVIOUS
  <2>2. CASE k = {}
    <3>1. At(slot, start) = <<>>
      BY <2>2
    <3>2. \A x : ~Has(<<>>, x)
      BY DEF Has
    <3>3. \A x \in A : ~(SlotOf(x) = slot /\ BlockOf(x) = start)
      <4> HIDE DEF k
      <4> QED BY <1>6, <2>1, <2>2
    <3> HIDE DEF At
    <3> QED BY <3>1, <3>2, <3>3
  <2>3. CASE k # {}
    <3>1. PICK e : e = CHOOSE x \in k : TRUE
      OBVIOUS
    <3>2. At(slot, start) = <<stream[e]>>
      BY <2>3, <3>1
    <3>3. e \in k
      <4> HIDE DEF k
      <4> QED BY <2>3, <3>1
    <3>4. PICK g \in A : g = stream[e] /\ SlotOf(g) = slot /\ BlockOf(g) = start
      BY <1>6, <2>1, <3>3
    <3>5. \A x : Has(<<g>>, x) <=> x = g
      BY DEF Has
    <3>6. \A x \in A : SlotOf(x) = slot /\ BlockOf(x) = start => x = g
      BY <1>7, <3>4
    <3>7. <<g>> \in Seq(A) /\ Len(<<g>>) <= 1
      OBVIOUS
    <3> HIDE DEF At
    <3> QED BY <3>2, <3>4, <3>5, <3>6, <3>7
  <2> QED BY <2>2, <2>3
<1> HIDE DEF At, place, slots, starts, maxSlot
<1>12. ASSUME NEW slot \in Nat
       PROVE  /\ Slot(slot) \in Seq(A)
              /\ \A x : Has(Slot(slot), x) <=> x \in A /\ SlotOf(x) = slot
              /\ InOrder(Slot(slot), ShownBefore(A))
  <2> DEFINE row == [k \in DOMAIN starts |-> At(slot, starts[k])]
  <2>1. Slot(slot) = FlattenSeq(row)
    OBVIOUS
  <2>2. row = [k \in 1..B |-> At(slot, (k - 1) * K)]
    BY <1>9
  <2>3. \A k \in 1..B : row[k] = At(slot, (k - 1) * K)
    BY <2>2
  <2>4. row \in [1..B -> Seq(A)]
    BY <1>11, <2>2
  <2>5. row \in Seq(Seq(A)) /\ Len(row) = B
    <3>1. DOMAIN row = 1..B
      BY <2>4
    <3> HIDE DEF row
    <3> QED BY <2>4, <3>1
  <2> HIDE DEF row, Slot
  <2>6. ASSUME NEW k \in 1..B PROVE InOrder(row[k], ShownBefore(A))
    <3>1. PICK s \in Seq(A) : s = row[k] /\ Len(s) <= 1
      BY <1>11, <2>3
    <3>2. Len(s) \in Nat /\ \A i, j \in 1..Len(s) : ~(i < j)
      BY <3>1
    <3> QED BY <3>1, <3>2 DEF InOrder
  <2>7. ASSUME NEW g \in 1..B, NEW h \in 1..B, g < h,
               NEW x, NEW y, Has(row[g], x), Has(row[h], y)
        PROVE  <<x, y>> \in ShownBefore(A)
    <3>1. /\ x \in A /\ SlotOf(x) = slot /\ BlockOf(x) = (g - 1) * K
          /\ y \in A /\ SlotOf(y) = slot /\ BlockOf(y) = (h - 1) * K
      BY <1>11, <2>3, <2>7
    <3>2. (g - 1) * K < (h - 1) * K
      <4>1. g - 1 \in Nat /\ h - 1 \in Nat /\ g - 1 < h - 1
        BY <2>7
      <4>2. PICK d \in Nat, e \in Nat : d = g - 1 /\ e = h - 1 /\ d < e
        BY <4>1
      <4>3. d * K \in Nat /\ e * K \in Nat /\ d * K + K <= e * K
        BY <4>2, MultiplesKeepOrder
      <4> QED BY <4>2, <4>3
    <3> QED BY <3>1, <3>2 DEF ShownBefore, Before
  <2>8. /\ FlattenSeq(row) \in Seq(A)
        /\ \A x : Has(FlattenSeq(row), x) <=> \E k \in 1..B : Has(row[k], x)
        /\ InOrder(FlattenSeq(row), ShownBefore(A))
    BY <2>5, <2>6, <2>7, FlattenProperties
  <2>9. \A x : (\E k \in 1..B : Has(row[k], x)) <=> x \in A /\ SlotOf(x) = slot
    <3>1. ASSUME NEW k \in 1..B, NEW x, Has(row[k], x) PROVE x \in A /\ SlotOf(x) = slot
      BY <1>11, <2>3, <3>1
    <3>2. ASSUME NEW x \in A, SlotOf(x) = slot PROVE \E k \in 1..B : Has(row[k], x)
      <4>1. PICK b \in 0..(B - 1) : BlockOf(x) = b * K
        BY <1>7
      <4>2. PICK k \in 1..B : b = k - 1
        <5>1. b + 1 \in 1..B /\ b = (b + 1) - 1
          OBVIOUS
        <5> QED BY <5>1
      <4>3. Has(At(slot, b * K), x)
        BY <1>11, <3>2, <4>1
      <4>4. row[k] = At(slot, b * K)
        BY <2>3, <4>2
      <4> QED BY <4>3, <4>4
    <3> QED BY <3>1, <3>2
  <2> QED BY <2>1, <2>8, <2>9
<1>13. PICK M \in Nat \ {0} : M = maxSlot + 1
  BY <1>10
<1>14. whole \in Seq(Seq(A)) /\ Len(whole) = M /\ \A m \in 1..M : whole[m] = Slot(m - 1)
  <2> HIDE DEF Slot
  <2>1. whole \in [1..M -> Seq(A)]
    BY <1>12, <1>13
  <2>2. DOMAIN whole = 1..M
    BY <2>1
  <2>3. \A m \in 1..M : whole[m] = Slot(m - 1)
    BY <1>13
  <2> HIDE DEF whole
  <2> QED BY <2>1, <2>2, <2>3
<1> HIDE DEF Slot, whole
<1>15. ASSUME NEW m \in 1..M PROVE InOrder(whole[m], ShownBefore(A))
  <2>1. m - 1 \in Nat
    OBVIOUS
  <2> QED BY <1>12, <1>14, <2>1
<1>16. ASSUME NEW g \in 1..M, NEW h \in 1..M, g < h,
              NEW x, NEW y, Has(whole[g], x), Has(whole[h], y)
       PROVE  <<x, y>> \in ShownBefore(A)
  <2>1. g - 1 \in Nat /\ h - 1 \in Nat /\ g - 1 < h - 1
    BY <1>16
  <2>2. x \in A /\ SlotOf(x) = g - 1 /\ y \in A /\ SlotOf(y) = h - 1
    BY <1>12, <1>14, <1>16, <2>1
  <2> QED BY <2>1, <2>2 DEF ShownBefore, Before
<1>17. /\ FlattenSeq(whole) \in Seq(A)
       /\ \A x : Has(FlattenSeq(whole), x) <=> \E m \in 1..M : Has(whole[m], x)
       /\ InOrder(FlattenSeq(whole), ShownBefore(A))
  BY <1>14, <1>15, <1>16, FlattenProperties
<1>18. \A x : (\E m \in 1..M : Has(whole[m], x)) <=> x \in A
  <2>1. ASSUME NEW m \in 1..M, NEW x, Has(whole[m], x) PROVE x \in A
    <3>1. m - 1 \in Nat
      OBVIOUS
    <3> QED BY <1>12, <1>14, <2>1, <3>1
  <2>2. ASSUME NEW x \in A PROVE \E m \in 1..M : Has(whole[m], x)
    <3>1. SlotOf(x) \in Nat /\ SlotOf(x) <= maxSlot
      BY <1>10
    <3>2. PICK m \in 1..M : SlotOf(x) = m - 1
      <4>1. SlotOf(x) + 1 \in 1..M /\ SlotOf(x) = (SlotOf(x) + 1) - 1
        BY <1>10, <1>13, <3>1
      <4> QED BY <4>1
    <3>3. Has(Slot(m - 1), x)
      BY <1>12, <3>1, <3>2
    <3>4. whole[m] = Slot(m - 1)
      BY <1>14
    <3> QED BY <3>3, <3>4
  <2> QED BY <2>1, <2>2
<1> QED BY <1>1, <1>17, <1>18

-----------------------------------------------------------------------------
(* The video never changes, and the burst stays inside it *)

BurstInv ==
  /\ PlanAccepts(inputSize, config)
  /\ video = InterleaveByBlock(Encode(inputSize, config))
  /\ from \in 1..Len(video)
  /\ len \in Nat /\ from + len <= Len(video) + 1

(* What is known of the video. *)
LEMMA VideoFacts ==
  ASSUME PlanAccepts(inputSize, config), video = InterleaveByBlock(Encode(inputSize, config))
  PROVE  /\ video \in Seq(Encoded(inputSize, config)) /\ Len(video) \in Nat
         /\ \A x : Has(video, x) <=> x \in Encoded(inputSize, config)
         /\ InOrder(video, ShownBefore(Encoded(inputSize, config)))
<1>1. /\ Encode(inputSize, config) \in Seq(Encoded(inputSize, config))
      /\ \A x : Has(Encode(inputSize, config), x) <=> x \in Encoded(inputSize, config)
  BY EncodeEmitsEncoded
<1>2. /\ video \in Seq(Encoded(inputSize, config))
      /\ \A x : Has(video, x) <=> x \in Encoded(inputSize, config)
      /\ InOrder(video, ShownBefore(Encoded(inputSize, config)))
  BY <1>1, InterleaveOrders
<1> QED BY <1>2, LenProperties

LEMMA BurstInitInv == BurstInit => BurstInv
<1> SUFFICES ASSUME BurstInit PROVE BurstInv
  OBVIOUS
<1>1. /\ PlanAccepts(inputSize, config) /\ video = InterleaveByBlock(Encode(inputSize, config))
      /\ from \in 1..Len(video) /\ len = 0
  BY DEF BurstInit
<1>2. Len(video) \in Nat
  BY <1>1, VideoFacts
<1> QED BY <1>1, <1>2 DEF BurstInv

LEMMA LoseNextInv == BurstInv /\ [LoseNext]_burstVars => BurstInv'
<1> SUFFICES ASSUME BurstInv, [LoseNext]_burstVars PROVE BurstInv'
  OBVIOUS
<1>1. CASE LoseNext
  <2>1. /\ from + len <= Len(video) /\ len' = len + 1
        /\ config' = config /\ inputSize' = inputSize /\ video' = video /\ from' = from
    BY <1>1 DEF LoseNext
  <2>2. Len(video) \in Nat /\ from \in Nat /\ len \in Nat
    BY VideoFacts DEF BurstInv
  <2> QED BY <2>1, <2>2 DEF BurstInv
<1>2. CASE UNCHANGED burstVars
  BY <1>2 DEF burstVars, BurstInv
<1> QED BY <1>1, <1>2

LEMMA BurstIsInside == BurstSpec => []BurstInv
<1> QED BY BurstInitInv, LoseNextInv, PTL DEF BurstSpec

(* Interleaving loses no frame, shows none twice, and shows them slot by    *)
(* slot, in a slot by block, for every input and configuration PlanFor      *)
(* accepts (interleave.go:5-70).                                           *)
THEOREM VideoOrdered == BurstSpec => []VideoIsOrderedPermutation
<1>1. BurstInv => VideoIsOrderedPermutation
  <2> SUFFICES ASSUME BurstInv PROVE VideoIsOrderedPermutation
    OBVIOUS
  <2>1. /\ video \in Seq(Encoded(inputSize, config)) /\ Len(video) \in Nat
        /\ \A x : Has(video, x) <=> x \in Encoded(inputSize, config)
        /\ InOrder(video, ShownBefore(Encoded(inputSize, config)))
    BY VideoFacts DEF BurstInv
  <2>2. DOMAIN video = 1..Len(video)
    BY <2>1
  <2>3. ToSet(video) = Encoded(inputSize, config)
    BY <2>1, <2>2 DEF ToSet, Has
  <2>4. ASSUME NEW i \in DOMAIN video, NEW j \in DOMAIN video, i < j
        PROVE  Before(video[i], video[j])
    BY <2>1, <2>2, <2>4 DEF InOrder, ShownBefore
  <2> QED BY <2>3, <2>4 DEF VideoIsOrderedPermutation
<1> QED BY <1>1, BurstIsInside, PTL

-----------------------------------------------------------------------------
(* Bursts: between two frames of a block, the video shows one frame of every *)
(* full block                                                              *)

(* The frame of block b that the video shows next when it has shown f, of   *)
(* block d: f itself if b is its block.                                    *)
NextOf(f, b, d, size, c) == FrameAt(b, SlotOf(f) + (IF b < d THEN 1 ELSE 0), size, c)

InBlock(f, d, c) == BlockOf(f) = d * c.DataFramesPerBlock

(* A block with all its data frames. *)
IsFull(b, size, c) ==
  b * c.DataFramesPerBlock + c.DataFramesPerBlock <= DataFrames(size, c)

LEMMA NextIsBetween ==
  ASSUME NEW size, NEW c, PlanAccepts(size, c),
         NEW b \in Nat, IsFull(b, size, c), NEW d \in Nat,
         NEW f \in Encoded(size, c), NEW l \in Encoded(size, c),
         InBlock(f, d, c), InBlock(l, d, c), SlotOf(f) < SlotOf(l)
  PROVE  /\ NextOf(f, b, d, size, c) \in Encoded(size, c)
         /\ InBlock(NextOf(f, b, d, size, c), b, c)
         /\ SlotOf(NextOf(f, b, d, size, c)) = SlotOf(f) + (IF b < d THEN 1 ELSE 0)
         /\ ~Before(NextOf(f, b, d, size, c), f)
         /\ ~Before(l, NextOf(f, b, d, size, c))
         /\ NextOf(f, b, d, size, c) # l
<1>1. PICK K \in Nat \ {0} : K = c.DataFramesPerBlock
  BY PlanFacts
<1>2. BlockOf(f) = d * K /\ BlockOf(l) = d * K /\ b * K + K <= DataFrames(size, c)
  BY <1>1 DEF InBlock, IsFull
<1>3. PICK N \in Nat \ {0} : N = DataFrames(size, c)
  BY PlanFacts
<1>4. PICK t \in Nat, u \in Nat, S \in Nat :
        t = SlotOf(f) /\ u = SlotOf(l) /\ S = SlotCount(c) /\ t < u /\ u < S
  <2>1. SlotCount(c) \in Nat
    BY PlanFacts DEF SlotCount
  <2>2. SlotOf(f) \in 0..(SlotCount(c) - 1) /\ SlotOf(l) \in 0..(SlotCount(c) - 1)
    BY PlaceFacts
  <2> QED BY <2>1, <2>2
<1>5. PICK v \in Nat : v = t + (IF b < d THEN 1 ELSE 0)
  OBVIOUS
<1>6. v < S /\ v <= u /\ t <= v
  BY <1>4, <1>5
<1>7. PICK s \in Nat : s = b * K
  BY MultiplesKeepOrder
<1>8. IsPlace(b, v, size, c)
  <2>1. PICK B \in Nat \ {0} : B = BlockCount(N, c)
    BY <1>1, BlockCountFacts
  <2>2. s < N
    BY <1>3, <1>7, <1>2
  <2>3. b \in 0..(B - 1)
    <3>1. b < B
      BY <1>1, <1>7, <2>1, <2>2, BlockCountFacts
    <3> QED BY <3>1
  <2>4. v \in 0..(S - 1)
    BY <1>6
  <2>5. v < K => s + v < N
    BY <1>3, <1>7, <1>2
  <2> QED BY <1>1, <1>3, <1>4, <1>7, <2>1, <2>3, <2>4, <2>5 DEF IsPlace
<1>9. PICK g : g = NextOf(f, b, d, size, c)
  OBVIOUS
<1>10. g \in Encoded(size, c) /\ BlockOf(g) = b * K /\ SlotOf(g) = v
  BY <1>1, <1>4, <1>5, <1>8, <1>9, FrameOfPlace DEF NextOf
<1>11. /\ b < d => b * K < d * K
      /\ ~(b < d) => ~(b * K < d * K)
      /\ b * K \in Nat /\ d * K \in Nat
  <2>1. /\ b * K \in Nat /\ d * K \in Nat
        /\ b < d <=> b * K + K <= d * K
        /\ d <= b <=> d * K <= b * K
    BY MultiplesKeepOrder
  <2> QED BY <2>1
<1>12. ~Before(g, f)
  BY <1>4, <1>5, <1>10, <1>11, <1>2 DEF Before
<1>13. ~Before(l, g)
  BY <1>4, <1>5, <1>6, <1>10, <1>11, <1>2 DEF Before
<1>14. g # l
  <2>1. CASE b < d
    BY <1>10, <1>11, <1>2, <2>1
  <2>2. CASE ~(b < d)
    BY <1>4, <1>5, <1>10, <2>2
  <2> QED BY <2>1, <2>2
<1> QED BY <1>1, <1>4, <1>5, <1>9, <1>10, <1>12, <1>13, <1>14 DEF InBlock

(* A burst loses as many frames as it is long. *)
LEMMA LostIsCounted ==
  ASSUME BurstInv
  PROVE  /\ Lost \subseteq Encoded(inputSize, config)
         /\ IsFiniteSet(Lost) /\ Cardinality(Lost) \in Nat /\ Cardinality(Lost) <= len
         /\ from..(from + len - 1) \subseteq 1..Len(video)
<1>1. /\ from \in Nat /\ len \in Nat /\ Len(video) \in Nat /\ from >= 1
      /\ from + len <= Len(video) + 1 /\ video \in Seq(Encoded(inputSize, config))
  BY VideoFacts DEF BurstInv
<1> DEFINE I == from..(from + len - 1)
           h == [k \in I |-> video[k]]
<1>2. I \subseteq 1..Len(video)
  BY <1>1
<1>3. IsFiniteSet(I) /\ Cardinality(I) = len
  <2>1. from \in Int /\ from + len - 1 \in Int
    BY <1>1
  <2>2. IsFiniteSet(I) /\ Cardinality(I) = IF from > from + len - 1 THEN 0 ELSE (from + len - 1) - from + 1
    BY <2>1, FS_Interval
  <2> HIDE DEF I
  <2> QED BY <1>1, <2>2
<1>4. Lost = {video[k] : k \in I}
  BY DEF Lost
<1>5. \A k \in 1..Len(video) : video[k] \in Encoded(inputSize, config)
  BY <1>1
<1> HIDE DEF I
<1>6. h \in Surjection(I, Lost)
  BY <1>4 DEF Surjection
<1>7. Lost \subseteq Encoded(inputSize, config)
  BY <1>2, <1>4, <1>5
<1>8. IsFiniteSet(Lost) /\ Cardinality(Lost) <= Cardinality(I)
  BY <1>3, <1>6, FS_Surjection
<1>9. Cardinality(Lost) \in Nat
  BY <1>8, FS_CardinalityType
<1> QED BY <1>2, <1>3, <1>7, <1>8, <1>9 DEF I

(* A burst that loses m frames of a block, and is cut short at the last of  *)
(* them, loses a frame of every full block for each of the m - 1 others.    *)
LEMMA BurstSpreads ==
  ASSUME BurstInv, NEW d \in Nat, NEW F \in Nat, \A b \in 0..(F - 1) : IsFull(b, inputSize, config),
         NEW L, L = {f \in Lost : InBlock(f, d, config)}, L # {}
  PROVE  /\ IsFiniteSet(L) /\ Cardinality(L) \in Nat
         /\ (Cardinality(L) - 1) * F <= Cardinality(Lost) - 1
<1>1. PICK A : A = Encoded(inputSize, config)
  OBVIOUS
<1>2. PICK top \in Nat : top = from + len - 1
  <2>1. PICK f : f \in Lost
    OBVIOUS
  <2>2. from..(from + len - 1) # {}
    BY <2>1 DEF Lost
  <2>3. from \in Nat /\ len \in Nat
    BY VideoFacts DEF BurstInv
  <2> QED BY <2>2, <2>3
<1>3. /\ PlanAccepts(inputSize, config) /\ from \in Nat
      /\ Lost \subseteq A /\ IsFiniteSet(Lost) /\ Cardinality(Lost) \in Nat
      /\ from..top \subseteq 1..Len(video) /\ Len(video) \in Nat
      /\ Lost = {video[k] : k \in from..top}
  <2>1. from \in Nat /\ Len(video) \in Nat /\ PlanAccepts(inputSize, config)
    BY VideoFacts DEF BurstInv
  <2> QED BY <1>1, <1>2, <2>1, LostIsCounted DEF Lost
<1>4. /\ \A x \in A : \E k \in 1..Len(video) : video[k] = x
      /\ \A i, j \in 1..Len(video) : i < j => Before(video[i], video[j])
  <2>1. /\ \A x : Has(video, x) <=> x \in Encoded(inputSize, config)
        /\ InOrder(video, ShownBefore(Encoded(inputSize, config)))
    BY VideoFacts DEF BurstInv
  <2>2. \A x \in A : \E k \in 1..Len(video) : video[k] = x
    BY <1>1, <2>1 DEF Has
  <2>3. \A i, j \in 1..Len(video) : i < j => Before(video[i], video[j])
    BY <2>1 DEF InOrder, ShownBefore
  <2> QED BY <2>2, <2>3
<1> DEFINE P == {k \in from..top : InBlock(video[k], d, config)}
<1>5. PICK m \in P : \A k \in P : k <= m
  <2>1. P \in SUBSET Nat /\ \A k \in P : k <= top
    BY <1>2, <1>3
  <2>2. P # {}
    <3>1. PICK f \in Lost : InBlock(f, d, config)
      OBVIOUS
    <3> QED BY <1>3, <3>1
  <2> HIDE DEF P
  <2> QED BY <1>2, <2>1, <2>2, GreatestOf
<1>6. PICK l \in L : l = video[m]
  BY <1>3, <1>5
<1>7. m \in from..top /\ m \in 1..Len(video) /\ l \in A /\ InBlock(l, d, config)
  BY <1>3, <1>5, <1>6
(* What is lost of the block before the last of it. *)
<1>8. ASSUME NEW f \in L \ {l}
      PROVE  /\ f \in A /\ InBlock(f, d, config) /\ SlotOf(f) < SlotOf(l)
             /\ \E p \in from..top : p < m /\ p \in 1..Len(video) /\ video[p] = f
  <2>1. PICK p \in from..top : video[p] = f /\ InBlock(f, d, config)
    BY <1>3
  <2>2. p \in P /\ p # m /\ p \in 1..Len(video)
    BY <1>3, <1>6, <2>1
  <2>3. p < m
    BY <1>5, <1>7, <2>1, <2>2
  <2>4. Before(f, l)
    BY <1>4, <1>6, <1>7, <2>1, <2>2, <2>3
  <2>5. BlockOf(f) = BlockOf(l) /\ ~(BlockOf(l) < BlockOf(l))
    <3>1. PICK z \in Int : z = d * config.DataFramesPerBlock
      <4>1. PICK K \in Nat \ {0} : K = config.DataFramesPerBlock
        BY <1>3, PlanFacts
      <4> QED BY <4>1
    <3> QED BY <1>7, <2>1, <3>1 DEF InBlock
  <2>6. SlotOf(f) < SlotOf(l)
    BY <2>4, <2>5 DEF Before
  <2> QED BY <1>3, <2>1, <2>2, <2>3, <2>6
<1> HIDE DEF P
<1> DEFINE X == (L \ {l}) \X (0..(F - 1))
           Y == Lost \ {l}
           G(f, b) == NextOf(f, b, d, inputSize, config)
           h == [x \in X |-> G(x[1], x[2])]
<1>9. ASSUME NEW f \in L \ {l}, NEW b \in 0..(F - 1)
      PROVE  /\ G(f, b) \in Y
             /\ InBlock(G(f, b), b, config)
             /\ SlotOf(G(f, b)) = SlotOf(f) + (IF b < d THEN 1 ELSE 0)
  <2>1. PICK p \in from..top : p < m /\ p \in 1..Len(video) /\ video[p] = f
    BY <1>8
  <2>2. /\ G(f, b) \in A
        /\ InBlock(G(f, b), b, config)
        /\ SlotOf(G(f, b)) = SlotOf(f) + (IF b < d THEN 1 ELSE 0)
        /\ ~Before(G(f, b), f) /\ ~Before(l, G(f, b)) /\ G(f, b) # l
    <3>1. b \in Nat /\ IsFull(b, inputSize, config)
      OBVIOUS
    <3>2. f \in Encoded(inputSize, config) /\ InBlock(f, d, config) /\ SlotOf(f) < SlotOf(l)
      BY <1>1, <1>8
    <3>3. l \in Encoded(inputSize, config) /\ InBlock(l, d, config)
      BY <1>1, <1>7
    <3> QED BY <1>1, <1>3, <3>1, <3>2, <3>3, NextIsBetween
  <2> HIDE DEF G
  <2>3. PICK q \in 1..Len(video) : video[q] = G(f, b)
    BY <1>4, <2>2
  <2>4. ~(q < p)
    BY <1>4, <2>1, <2>2, <2>3
  <2>5. ~(m < q)
    BY <1>4, <1>6, <1>7, <2>2, <2>3
  <2>6. q \in from..top
    BY <1>3, <1>7, <2>1, <2>3, <2>4, <2>5
  <2>7. G(f, b) \in Lost
    BY <1>3, <2>3, <2>6
  <2> QED BY <2>2, <2>7
<1>10. h \in [X -> Y]
  <2> HIDE DEF G, Y
  <2>1. ASSUME NEW x \in X PROVE G(x[1], x[2]) \in Y
    <3>1. x[1] \in L \ {l} /\ x[2] \in 0..(F - 1)
      OBVIOUS
    <3> QED BY <1>9, <3>1
  <2> HIDE DEF X
  <2> QED BY <2>1
<1>11. ASSUME NEW x \in X, NEW y \in X, h[x] = h[y] PROVE x = y
  <2>1. PICK f \in L \ {l}, b \in 0..(F - 1) : x = <<f, b>>
    OBVIOUS
  <2>2. PICK g \in L \ {l}, e \in 0..(F - 1) : y = <<g, e>>
    OBVIOUS
  <2>3. G(f, b) = G(g, e)
    <3> HIDE DEF G
    <3> QED BY <1>11, <2>1, <2>2
  <2> HIDE DEF G
  <2>4. PICK K \in Nat \ {0} : K = config.DataFramesPerBlock
    BY <1>3, PlanFacts
  <2>5. b = e
    <3>1. b * K = e * K
      BY <1>9, <2>3, <2>4 DEF InBlock
    <3>2. b \in Nat /\ e \in Nat
      OBVIOUS
    <3> QED BY <3>1, <3>2, MultiplesKeepOrder
  <2>6. f \in A /\ g \in A /\ BlockOf(f) = BlockOf(g)
    BY <1>8 DEF InBlock
  <2>7. SlotOf(f) = SlotOf(g)
    <3>1. SlotOf(f) \in 0..(SlotCount(config) - 1) /\ SlotOf(g) \in 0..(SlotCount(config) - 1)
      BY <1>1, <1>3, <2>6, PlaceFacts
    <3>2. SlotOf(f) \in Int /\ SlotOf(g) \in Int
      BY <3>1
    <3>3. SlotOf(f) + (IF b < d THEN 1 ELSE 0) = SlotOf(g) + (IF b < d THEN 1 ELSE 0)
      BY <1>9, <2>3, <2>5
    <3> QED BY <3>2, <3>3
  <2>8. f = g
    BY <1>1, <1>3, <2>6, <2>7, PlaceFacts
  <2> QED BY <2>1, <2>2, <2>5, <2>8
<1>12. h \in Injection(X, Y)
  <2> HIDE DEF h, X, Y
  <2> QED BY <1>10, <1>11 DEF Injection, IsInjective
<1>13. IsFiniteSet(L) /\ Cardinality(L) \in Nat
  BY <1>3, FS_Subset, FS_CardinalityType
<1>14. IsFiniteSet(L \ {l}) /\ Cardinality(L \ {l}) = Cardinality(L) - 1
  BY <1>13, FS_RemoveElement
<1>15. IsFiniteSet(Y) /\ Cardinality(Y) = Cardinality(Lost) - 1
  BY <1>3, <1>6, FS_RemoveElement
<1>16. IsFiniteSet(0..(F - 1)) /\ Cardinality(0..(F - 1)) = F
  <2>1. 0 \in Int /\ F - 1 \in Int
    OBVIOUS
  <2>2. /\ IsFiniteSet(0..(F - 1))
        /\ Cardinality(0..(F - 1)) = IF 0 > F - 1 THEN 0 ELSE (F - 1) - 0 + 1
    BY <2>1, FS_Interval
  <2> QED BY <2>2
<1>17. Cardinality(X) = Cardinality(L \ {l}) * Cardinality(0..(F - 1))
  BY <1>14, <1>16, FS_Product
<1>18. Cardinality(X) <= Cardinality(Y)
  <2> HIDE DEF X, Y
  <2> QED BY <1>12, <1>15, FS_Injection
<1> HIDE DEF X, Y
<1>19. (Cardinality(L) - 1) * F <= Cardinality(Lost) - 1
  BY <1>14, <1>15, <1>16, <1>17, <1>18
<1> QED BY <1>13, <1>19

(* A short burst loses no more of a block than the block has rescues. *)
LEMMA BlockLoses ==
  ASSUME BurstInv, len <= config.RescueFramesPerBlock * (IF FullBlocks = 0 THEN 1 ELSE FullBlocks),
         NEW d \in Nat, NEW L, L = {f \in Lost : InBlock(f, d, config)}
  PROVE  IsFiniteSet(L) /\ Cardinality(L) \in Nat /\ Cardinality(L) <= config.RescueFramesPerBlock
<1>1. PICK K \in Nat \ {0} : K = config.DataFramesPerBlock
  BY PlanFacts DEF BurstInv
<1>2. PICK N \in Nat \ {0} : N = DataFrames(inputSize, config)
  BY PlanFacts DEF BurstInv
<1>3. PICK R \in Nat : R = config.RescueFramesPerBlock
  BY PlanFacts DEF BurstInv
<1>4. PICK F \in Nat, r \in 0..(K - 1) : F = N \div K /\ r = N % K /\ N = F * K + r
  <2>1. N \in Nat
    OBVIOUS
  <2> QED BY <2>1, Division, Zenon
<1>5. F = FullBlocks /\ len \in Nat
  BY <1>1, <1>2, <1>4 DEF FullBlocks, BurstInv
<1>6. ASSUME NEW b \in 0..(F - 1) PROVE IsFull(b, inputSize, config)
  <2>1. b \in Nat /\ b < F
    OBVIOUS
  <2>2. b * K + K <= F * K /\ b * K \in Nat /\ F * K \in Nat
    BY <2>1, MultiplesKeepOrder
  <2>3. b * K + K <= N
    BY <1>4, <2>2
  <2> QED BY <1>1, <1>2, <2>3 DEF IsFull
<1>7. /\ IsFiniteSet(Lost) /\ Cardinality(Lost) \in Nat /\ Cardinality(Lost) <= len
      /\ L \subseteq Lost
  BY LostIsCounted
<1>8. IsFiniteSet(L) /\ Cardinality(L) \in Nat /\ Cardinality(L) <= Cardinality(Lost)
  BY <1>7, FS_Subset, FS_CardinalityType
<1>9. PICK m \in Nat : m = Cardinality(L)
  BY <1>8
<1>10. CASE F = 0
  <2>1. len <= R
    BY <1>3, <1>5, <1>10
  <2> QED BY <1>3, <1>5, <1>7, <1>8, <2>1
<1>11. CASE F # 0 /\ L = {}
  <2>1. Cardinality(L) = 0
    BY <1>11, FS_EmptySet
  <2> QED BY <1>3, <1>8, <2>1
<1>12. CASE F # 0 /\ L # {}
  <2>1. (m - 1) * F <= Cardinality(Lost) - 1
    BY <1>6, <1>9, <1>12, BurstSpreads
  <2>2. PICK top \in Nat : top = R * F /\ len <= top
    BY <1>3, <1>5, <1>12
  <2>3. (m - 1) * F < top
    <3>1. PICK z \in Int : z = (m - 1) * F
      OBVIOUS
    <3> QED BY <1>5, <1>7, <2>1, <2>2, <3>1
  <2>4. ~(m > R)
    <3>1. ASSUME m > R PROVE R * F <= (m - 1) * F
      <4>1. m - 1 \in Nat /\ R <= m - 1 /\ F \in Nat \ {0}
        BY <1>12, <3>1
      <4> QED BY <4>1, MultiplesKeepOrder
    <3>2. PICK z \in Int : z = (m - 1) * F
      OBVIOUS
    <3> QED BY <2>2, <2>3, <3>1, <3>2
  <2> QED BY <1>3, <1>8, <1>9, <2>4
<1> QED BY <1>10, <1>11, <1>12

(* What a block misses, and what is left of its rescues, add up to what the *)
(* burst takes of it.                                                      *)
LEMMA LossesAddUp ==
  ASSUME BurstInv, NEW K \in Nat \ {0}, K = config.DataFramesPerBlock,
         NEW R \in Nat, R = config.RescueFramesPerBlock,
         NEW d \in 0..(BlockCount(DataFrames(inputSize, config), config) - 1), d \in Nat,
         NEW L, L = {f \in Lost : InBlock(f, d, config)}, IsFiniteSet(L), Cardinality(L) <= R
  PROVE  Cardinality(MissingOf(d * K, Encoded(inputSize, config) \ Lost, inputSize, config))
           <= Cardinality(RescuesOf(d * K, Encoded(inputSize, config) \ Lost, inputSize, config))
<1>1. PICK N \in Nat \ {0} : N = DataFrames(inputSize, config)
  BY PlanFacts DEF BurstInv
<1>2. PlanAccepts(inputSize, config)
  BY DEF BurstInv
<1>3. PICK s \in Nat : s = d * K
  BY MultiplesKeepOrder
<1>4. PICK A : A = Encoded(inputSize, config)
  OBVIOUS
<1>5. PICK M : M = MissingOf(s, A \ Lost, inputSize, config)
  OBVIOUS
<1>6. PICK E : E = RescuesOf(s, A \ Lost, inputSize, config)
  OBVIOUS
<1> DEFINE T == {t \in 0..(K + R - 1) : IsPlace(d, t, inputSize, config) /\ FrameAt(d, t, inputSize, config) \in Lost}
           TD == {t \in T : t < K}
           TR == {t \in T : ~(t < K)}
           Left == (K..(K + R - 1)) \ TR
<1>7. \A t \in 0..(K + R - 1) : IsPlace(d, t, inputSize, config) <=> (t < K => s + t < N)
  BY <1>1, <1>3 DEF IsPlace, SlotCount
<1>8. ASSUME NEW t \in Nat, IsPlace(d, t, inputSize, config)
      PROVE  /\ FrameAt(d, t, inputSize, config) \in A /\ InBlock(FrameAt(d, t, inputSize, config), d, config)
             /\ SlotOf(FrameAt(d, t, inputSize, config)) = t
  BY <1>2, <1>4, <1>8, FrameOfPlace DEF InBlock
<1>9. /\ \A t \in 0..(K - 1) : FrameAt(d, t, inputSize, config) = DataFrame(s + t, inputSize, config)
      /\ \A t \in K..(K + R - 1) : FrameAt(d, t, inputSize, config) = RescueFrame(s, t - K, inputSize, config)
  BY <1>3 DEF FrameAt
<1>10. Cardinality(T) <= Cardinality(L) /\ IsFiniteSet(T)
  <2> DEFINE h == [t \in T |-> FrameAt(d, t, inputSize, config)]
  <2>1. h \in [T -> L]
    <3>1. \A t \in T : FrameAt(d, t, inputSize, config) \in L
      BY <1>8
    <3> HIDE DEF T
    <3> QED BY <3>1
  <2>2. ASSUME NEW t \in T, NEW u \in T, h[t] = h[u] PROVE t = u
    <3>1. FrameAt(d, t, inputSize, config) = FrameAt(d, u, inputSize, config)
      <4> HIDE DEF T
      <4> QED BY <2>2
    <3>2. t \in Nat /\ IsPlace(d, t, inputSize, config) /\ u \in Nat /\ IsPlace(d, u, inputSize, config)
      OBVIOUS
    <3>3. SlotOf(FrameAt(d, t, inputSize, config)) = t /\ SlotOf(FrameAt(d, u, inputSize, config)) = u
      BY <1>8, <3>2
    <3> QED BY <3>1, <3>3
  <2>3. h \in Injection(T, L)
    <3> HIDE DEF h, T
    <3>1. DOMAIN h = T
      BY <2>1
    <3> QED BY <2>1, <2>2, <3>1 DEF Injection, IsInjective
  <2> HIDE DEF h, T
  <2> QED BY <2>3, FS_Injection
<1>11. /\ IsFiniteSet(TD) /\ IsFiniteSet(TR)
       /\ Cardinality(TD) \in Nat /\ Cardinality(TR) \in Nat
       /\ Cardinality(T) = Cardinality(TD) + Cardinality(TR)
  <2>1. TD \in SUBSET T /\ TR \in SUBSET T /\ T = TD \cup TR /\ TD \cap TR = {}
    OBVIOUS
  <2> HIDE DEF T, TD, TR
  <2>2. IsFiniteSet(TD) /\ IsFiniteSet(TR)
    BY <1>10, <2>1, FS_Subset
  <2>3. Cardinality(TD) \in Nat /\ Cardinality(TR) \in Nat
    BY <2>2, FS_CardinalityType
  <2>4. Cardinality(T) = Cardinality(TD) + Cardinality(TR) - Cardinality({})
    BY <2>1, <2>2, FS_Union
  <2> QED BY <2>2, <2>3, <2>4, FS_EmptySet
<1>12. /\ IsFiniteSet(Left) /\ Cardinality(Left) \in Nat
       /\ Cardinality(TR) + Cardinality(Left) = R
  <2> DEFINE I == K..(K + R - 1)
  <2>1. K \in Int /\ K + R - 1 \in Int
    OBVIOUS
  <2>2. /\ IsFiniteSet(I)
        /\ Cardinality(I) = IF K > K + R - 1 THEN 0 ELSE (K + R - 1) - K + 1
    BY <2>1, FS_Interval
  <2>3. Cardinality(I) = R
    <3> HIDE DEF I
    <3> QED BY <2>2
  <2>4. TR \in SUBSET I /\ Left \in SUBSET I /\ I = TR \cup Left /\ TR \cap Left = {}
    OBVIOUS
  <2> HIDE DEF I, T, TR, Left
  <2>5. IsFiniteSet(Left) /\ Cardinality(Left) \in Nat
    BY <2>2, <2>4, FS_Subset, FS_CardinalityType
  <2>6. Cardinality(I) = Cardinality(TR) + Cardinality(Left) - Cardinality({})
    BY <1>11, <2>4, <2>5, FS_Union
  <2> QED BY <1>11, <2>3, <2>5, <2>6, FS_EmptySet
(* A missing data frame is a lost slot of the block. *)
<1>13. Cardinality(M) <= Cardinality(TD)
  <2> DEFINE h == [i \in M |-> i - s]
  <2>1. ASSUME NEW i \in M PROVE i \in Int /\ i - s \in TD
    <3>1. /\ i \in 0..(N - 1) /\ s <= i /\ i < s + K
          /\ DataFrame(i, inputSize, config) \notin A \ Lost
      BY <1>1, <1>5 DEF MissingOf, BlockFrames
    <3>2. PICK t \in 0..(K - 1) : t = i - s
      BY <3>1
    <3>3. s + t = i /\ t \in 0..(K + R - 1) /\ t < K /\ t \in Nat
      BY <3>1, <3>2
    <3>4. IsPlace(d, t, inputSize, config)
      BY <1>7, <3>1, <3>3
    <3>5. FrameAt(d, t, inputSize, config) = DataFrame(i, inputSize, config)
      BY <1>9, <3>2, <3>3
    <3>6. FrameAt(d, t, inputSize, config) \in Lost
      BY <1>8, <3>1, <3>3, <3>4, <3>5
    <3>7. t \in TD
      BY <3>3, <3>4, <3>6
    <3> HIDE DEF TD
    <3> QED BY <3>1, <3>2, <3>7
  <2> HIDE DEF TD
  <2>2. h \in [M -> TD]
    BY <2>1
  <2>3. ASSUME NEW i \in M, NEW j \in M, h[i] = h[j] PROVE i = j
    BY <2>1, <2>3
  <2>4. h \in Injection(M, TD)
    <3> HIDE DEF h
    <3>1. DOMAIN h = M
      BY <2>2
    <3> QED BY <2>2, <2>3, <3>1 DEF Injection, IsInjective
  <2> HIDE DEF h
  <2> QED BY <1>11, <2>4, FS_Injection
(* A slot of a rescue frame that is not lost has an available rescue. *)
<1>14. Cardinality(Left) <= Cardinality(E)
  <2> DEFINE h == [t \in Left |-> t - K]
  <2>1. ASSUME NEW t \in Left PROVE t \in Int /\ t - K \in E
    <3>1. t \in K..(K + R - 1) /\ t \in 0..(K + R - 1) /\ ~(t < K) /\ t \in Nat
      OBVIOUS
    <3>2. IsPlace(d, t, inputSize, config)
      BY <1>7, <3>1
    <3>3. FrameAt(d, t, inputSize, config) \notin Lost
      BY <3>1, <3>2
    <3>4. FrameAt(d, t, inputSize, config) = RescueFrame(s, t - K, inputSize, config)
      BY <1>9, <3>1
    <3>5. RescueFrame(s, t - K, inputSize, config) \in A \ Lost
      BY <1>8, <3>1, <3>2, <3>3, <3>4
    <3>6. t - K \in 0..(R - 1)
      BY <3>1
    <3> QED BY <1>6, <3>1, <3>5, <3>6 DEF RescuesOf
  <2>2. IsFiniteSet(E)
    <3>1. E \in SUBSET (0..(R - 1))
      BY <1>6 DEF RescuesOf
    <3>2. 0 \in Int /\ R - 1 \in Int
      OBVIOUS
    <3>3. IsFiniteSet(0..(R - 1))
      BY <3>2, FS_Interval
    <3> QED BY <3>1, <3>3, FS_Subset
  <2> HIDE DEF Left
  <2>3. h \in [Left -> E]
    BY <2>1
  <2>4. ASSUME NEW t \in Left, NEW u \in Left, h[t] = h[u] PROVE t = u
    BY <2>1, <2>4
  <2>5. h \in Injection(Left, E)
    <3> HIDE DEF h
    <3>1. DOMAIN h = Left
      BY <2>3
    <3> QED BY <2>3, <2>4, <3>1 DEF Injection, IsInjective
  <2> HIDE DEF h
  <2> QED BY <2>2, <2>5, FS_Injection
<1>15. Cardinality(M) \in Nat /\ Cardinality(E) \in Nat
  <2>1. IsFiniteSet(M)
    <3>1. M \in SUBSET (0..(N - 1))
      BY <1>1, <1>5 DEF MissingOf, BlockFrames
    <3>2. 0 \in Int /\ N - 1 \in Int
      OBVIOUS
    <3>3. IsFiniteSet(0..(N - 1))
      BY <3>2, FS_Interval
    <3> QED BY <3>1, <3>3, FS_Subset
  <2>2. IsFiniteSet(E)
    <3>1. E \in SUBSET (0..(R - 1))
      BY <1>6 DEF RescuesOf
    <3>2. 0 \in Int /\ R - 1 \in Int
      OBVIOUS
    <3>3. IsFiniteSet(0..(R - 1))
      BY <3>2, FS_Interval
    <3> QED BY <3>1, <3>3, FS_Subset
  <2> QED BY <2>1, <2>2, FS_CardinalityType
<1>16. Cardinality(L) \in Nat /\ Cardinality(T) \in Nat
  <2> HIDE DEF T
  <2> QED BY <1>10, FS_CardinalityType
<1> HIDE DEF T, TD, TR, Left
<1>17. Cardinality(M) <= Cardinality(E)
  BY <1>10, <1>11, <1>12, <1>13, <1>14, <1>15, <1>16
<1> QED BY <1>3, <1>4, <1>5, <1>6, <1>17

(* The promise of the interleaving: however long the video, a burst of R    *)
(* frames for every full block, R if there is none, leaves every block what *)
(* it needs (interleave.go:5, encode.go:33-81).                            *)
THEOREM BurstRecoverable == BurstSpec => []BurstIsRecoverable
<1>1. BurstInv => BurstIsRecoverable
  <2> SUFFICES ASSUME BurstInv,
                      len <= config.RescueFramesPerBlock
                               * (IF FullBlocks = 0 THEN 1 ELSE FullBlocks),
                      NEW s \in BlockStarts(DataFrames(inputSize, config), config)
               PROVE  Cardinality(MissingOf(s, Encoded(inputSize, config) \ Lost, inputSize, config))
                        <= Cardinality(RescuesOf(s, Encoded(inputSize, config) \ Lost, inputSize, config))
    BY DEF BurstIsRecoverable, Recoverable
  <2>1. PICK K \in Nat \ {0} : K = config.DataFramesPerBlock
    BY PlanFacts DEF BurstInv
  <2>2. PICK R \in Nat : R = config.RescueFramesPerBlock
    BY PlanFacts DEF BurstInv
  <2>3. PICK d \in 0..(BlockCount(DataFrames(inputSize, config), config) - 1) : s = d * K
    BY <2>1 DEF BlockStarts
  <2>4. d \in Nat
    OBVIOUS
  <2>5. PICK L : L = {f \in Lost : InBlock(f, d, config)}
    OBVIOUS
  <2>6. IsFiniteSet(L) /\ Cardinality(L) <= R
    BY <2>2, <2>4, <2>5, BlockLoses
  <2> QED BY <2>1, <2>2, <2>3, <2>4, <2>5, <2>6, LossesAddUp
<1> QED BY <1>1, BurstIsInside, PTL
-----------------------------------------------------------------------------
(* The frames of Encode are accepted *)

(* The data frames reach past the input with the last one only. *)
LEMMA FramesReachInput ==
  ASSUME NEW size, NEW c, PlanAccepts(size, c), NEW P \in Nat \ {0}, P = c.PayloadSize,
         NEW N \in Nat \ {0}, N = DataFrames(size, c), NEW i \in Nat
  PROVE  /\ i * P \in Nat
         /\ size > 0 => (i < N <=> i * P < size)
         /\ size = 0 => N = 1
<1>1. size \in Nat
  BY PlanFacts
<1>2. size = 0 => N = 1
  BY <1>1 DEF DataFrames
<1>3. i * P \in Nat
  BY MultiplesKeepOrder
<1>4. ASSUME size > 0 PROVE i < N <=> i * P < size
  <2>1. PICK a \in Nat : a = size - 1
    BY <1>1, <1>4
  <2>2. PICK q \in Nat, r \in 0..(P - 1) : q = a \div P /\ r = a % P /\ a = q * P + r
    BY Division
  <2>3. N = 1 + q
    BY <1>1, <1>4, <2>1, <2>2 DEF DataFrames
  <2>4. /\ q * P \in Nat
        /\ i <= q <=> i * P <= q * P
        /\ q < i <=> q * P + P <= i * P
    BY MultiplesKeepOrder
  <2>5. CASE i <= q
    <3>1. i * P <= a
      BY <1>3, <2>2, <2>4, <2>5
    <3> QED BY <1>1, <1>3, <2>1, <2>3, <2>5, <3>1
  <2>6. CASE q < i
    <3>1. i * P > a
      BY <1>3, <2>2, <2>4, <2>6
    <3> QED BY <1>1, <1>3, <2>1, <2>3, <2>6, <3>1
  <2> QED BY <2>5, <2>6
<1> QED BY <1>2, <1>3, <1>4

(* How many bytes of the input the first i data frames hold. *)
BytesOf(i, size, c) == IF i * c.PayloadSize <= size THEN i * c.PayloadSize ELSE size

(* Both ends agree on the number of bytes in a data frame, which are those  *)
(* between the frames before it and those after it.                        *)
LEMMA SliceFacts ==
  ASSUME NEW size, NEW c, PlanAccepts(size, c), NEW i \in Nat, i < DataFrames(size, c)
  PROVE  /\ SliceSize(i, size, c) = DataSizeForFrame(i, size, c)
         /\ SliceSize(i, size, c) \in Nat /\ (SliceSize(i, size, c) = 0 => size = 0)
         /\ BytesOf(i, size, c) \in Nat
         /\ BytesOf(i + 1, size, c) = BytesOf(i, size, c) + SliceSize(i, size, c)
<1>1. PICK P \in Nat \ {0} : P = c.PayloadSize
  BY PlanFacts
<1>2. PICK N \in Nat \ {0} : N = DataFrames(size, c)
  BY PlanFacts
<1>3. PICK start \in Nat : start = i * P
  BY MultiplesKeepOrder
<1>4. (i + 1) * P = start + P
  BY <1>3
<1>5. size \in Nat /\ (size > 0 => start < size) /\ (size = 0 => start = 0)
  <2>1. size \in Nat
    BY PlanFacts
  <2>2. size > 0 => start < size
    BY <1>1, <1>2, <1>3, FramesReachInput
  <2>3. ASSUME size = 0 PROVE start = 0
    <3>1. i = 0
      BY <1>1, <1>2, <2>3, FramesReachInput
    <3> QED BY <1>3, <3>1
  <2> QED BY <2>1, <2>2, <2>3
<1>6. SliceSize(i, size, c) =
        IF start < size THEN (IF start + P > size THEN size ELSE start + P) - start ELSE 0
  BY <1>1, <1>3 DEF SliceSize
<1>7. DataSizeForFrame(i, size, c) =
        CASE start >= size    -> 0
          [] size - start > P -> P
          [] OTHER            -> size - start
  BY <1>1, <1>3 DEF DataSizeForFrame
<1>8. BytesOf(i, size, c) = IF start <= size THEN start ELSE size
  BY <1>1, <1>3 DEF BytesOf
<1>9. BytesOf(i + 1, size, c) = IF start + P <= size THEN start + P ELSE size
  BY <1>1, <1>4 DEF BytesOf
<1>10. SliceSize(i, size, c) = DataSizeForFrame(i, size, c)
  BY <1>5, <1>6, <1>7
<1>11. SliceSize(i, size, c) \in Nat /\ (SliceSize(i, size, c) = 0 => size = 0)
  BY <1>5, <1>6
<1>12. BytesOf(i, size, c) \in Nat
  BY <1>5, <1>8
<1>13. BytesOf(i + 1, size, c) = BytesOf(i, size, c) + SliceSize(i, size, c)
  BY <1>5, <1>6, <1>8, <1>9
<1> QED BY <1>10, <1>11, <1>12, <1>13

(* A sum taken step by step is known by the totals it goes through. *)
TotalOf(parts, N) ==
  LET sum[i \in 0..N] == IF i = 0 THEN 0 ELSE sum[i - 1] + parts[i]
  IN  sum[N]

LEMMA SumIsTotal ==
  ASSUME NEW N \in Nat \ {0}, NEW parts, NEW total \in [0..N -> Nat],
         total[0] = 0, \A i \in 1..N : total[i] = total[i - 1] + parts[i]
  PROVE  TotalOf(parts, N) = total[N]
<1> DEFINE Sums(g) == g = [i \in 0..N |-> IF i = 0 THEN 0 ELSE g[i - 1] + parts[i]]
           sum == CHOOSE g : Sums(g)
           S == {i \in 1..N : sum[i] = total[i]}
<1>1. Sums(total)
  <2>1. \A i \in 0..N : total[i] = IF i = 0 THEN 0 ELSE total[i - 1] + parts[i]
    OBVIOUS
  <2> QED BY <2>1
<1>2. Sums(sum)
  <2> HIDE DEF Sums
  <2> QED BY <1>1
<1>3. TotalOf(parts, N) = sum[N]
  BY Zenon DEF TotalOf
<1> HIDE DEF sum
<1>4. \A i \in 0..N : sum[i] = IF i = 0 THEN 0 ELSE sum[i - 1] + parts[i]
  <2>1. PICK g : g = sum
    OBVIOUS
  <2>2. g = [i \in 0..N |-> IF i = 0 THEN 0 ELSE g[i - 1] + parts[i]]
    BY <1>2, <2>1
  <2>3. \A i \in 0..N : g[i] = IF i = 0 THEN 0 ELSE g[i - 1] + parts[i]
    BY <2>2
  <2> QED BY <2>1, <2>3
<1>5. 1 \in S
  <2>1. sum[0] = 0 /\ 1 \in 1..N /\ 1 - 1 = 0
    BY <1>4
  <2>2. sum[1] = sum[1 - 1] + parts[1] /\ total[1] = total[1 - 1] + parts[1]
    BY <1>4, <2>1
  <2> QED BY <2>1, <2>2
<1>6. ASSUME NEW k \in S, k < N PROVE k + 1 \in S
  <2>1. k \in 1..N /\ k + 1 \in 1..N /\ (k + 1) - 1 = k /\ sum[k] = total[k]
    BY <1>6
  <2>2. sum[k + 1] = sum[(k + 1) - 1] + parts[k + 1]
    BY <1>4, <2>1
  <2>3. total[k + 1] = total[(k + 1) - 1] + parts[k + 1]
    BY <2>1
  <2> QED BY <2>1, <2>2, <2>3
<1>7. S = 1..N
  <2>1. S \in SUBSET (1..N)
    OBVIOUS
  <2> HIDE DEF S
  <2> QED BY <1>5, <1>6, <2>1, Induction
<1>8. N \in S
  <2>1. N \in 1..N
    OBVIOUS
  <2> HIDE DEF S
  <2> QED BY <1>7, <2>1
<1> QED BY <1>3, <1>8

(* Every frame of Encode parses, passes the checks of the decoder, and is   *)
(* empty only for an empty input.                                          *)
LEMMA DataFrameIsAccepted ==
  ASSUME NEW size, NEW c, PlanAccepts(size, c), NEW i \in Nat, i < DataFrames(size, c),
         NEW f, f = DataFrame(i, size, c)
  PROVE  /\ ParseAccepts(f) /\ FrameMetadataLooksValid(f, c)
         /\ f.FrameType = Data /\ f.FrameIndex = i
         /\ f.Payload.size = SliceSize(i, size, c) /\ (f.Payload.size = 0 => size = 0)
<1>1. /\ f.FrameType = Data /\ f.FrameIndex = i /\ f.RescueIndex = 0
      /\ f.BlockSize = c.DataFramesPerBlock /\ f.TotalFrames = DataFrames(size, c)
      /\ f.TotalDataBytes = size /\ f.Payload.size = SliceSize(i, size, c)
  BY DEF DataFrame, Frame, DataPayload, PayloadOf
<1>2. /\ size \in 0..MaxPayloadBytes /\ DataFrames(size, c) \in 1..MaxFrameCount
      /\ c.DataFramesPerBlock \in 1..255 /\ size <= MaxPayloadBytes
  BY PlanFacts, LimitsAssumption DEF PlanAccepts, Valid
<1>3. /\ SliceSize(i, size, c) = DataSizeForFrame(i, size, c)
      /\ SliceSize(i, size, c) = 0 => size = 0
  BY SliceFacts
<1>4. ParseAccepts(f)
  BY <1>1, <1>2 DEF ParseAccepts
<1>5. FrameMetadataLooksValid(f, c)
  BY <1>1, <1>2, <1>3 DEF FrameMetadataLooksValid
<1> QED BY <1>1, <1>3, <1>4, <1>5

LEMMA RescueFrameIsAccepted ==
  ASSUME NEW size, NEW c, PlanAccepts(size, c),
         NEW s \in BlockStarts(DataFrames(size, c), c),
         NEW r \in 0..(c.RescueFramesPerBlock - 1), NEW f, f = RescueFrame(s, r, size, c)
  PROVE  /\ ParseAccepts(f) /\ FrameMetadataLooksValid(f, c)
         /\ f.FrameType = Rescue /\ f.Payload.size # 0
<1>1. /\ f.FrameType = Rescue /\ f.FrameIndex = s /\ f.RescueIndex = r
      /\ f.BlockSize = c.DataFramesPerBlock /\ f.TotalFrames = DataFrames(size, c)
      /\ f.TotalDataBytes = size /\ f.Payload.size = c.PayloadSize
  BY DEF RescueFrame, Frame, RescuePayload, PayloadOf
<1>2. /\ size \in 0..MaxPayloadBytes /\ DataFrames(size, c) \in 1..MaxFrameCount
      /\ c.DataFramesPerBlock \in 1..255 /\ size <= MaxPayloadBytes
      /\ c.RescueFramesPerBlock \in Nat /\ c.PayloadSize # 0
  BY PlanFacts, LimitsAssumption DEF PlanAccepts, Valid
<1>3. PICK K \in Nat \ {0} : K = c.DataFramesPerBlock
  BY PlanFacts
<1>4. PICK N \in Nat \ {0} : N = DataFrames(size, c)
  BY PlanFacts
<1>5. PICK B \in Nat \ {0} : B = BlockCount(N, c)
  BY <1>3, BlockCountFacts
<1>6. PICK b \in 0..(B - 1) : s = b * K
  BY <1>3, <1>4, <1>5 DEF BlockStarts
<1>7. s \in Nat /\ s < N
  <2>1. b \in Nat /\ b < B
    OBVIOUS
  <2>2. b * K < N
    BY <1>3, <1>5, <2>1, BlockCountFacts
  <2> QED BY <1>6, <2>1, <2>2, MultiplesKeepOrder
<1>8. s % K = 0
  <2>1. PICK z \in 0..(K - 1) : z = 0
    OBVIOUS
  <2>2. b \in Nat
    OBVIOUS
  <2>3. b * K + z \in Nat /\ (b * K + z) \div K = b
    BY <2>2, DivisionIsUnique
  <2>4. s = b * K + z
    BY <1>6, <1>7, <2>1
  <2>5. PICK q \in Nat, y \in 0..(K - 1) : q = s \div K /\ y = s % K /\ s = q * K + y
    BY <1>7, Division
  <2>6. q = b
    BY <2>3, <2>4, <2>5
  <2>7. s = s + y
    BY <1>6, <2>5, <2>6
  <2> QED BY <1>7, <2>5, <2>7
<1>9. ParseAccepts(f)
  BY <1>1, <1>2, <1>4, <1>7 DEF ParseAccepts
<1>10. r < c.RescueFramesPerBlock
  BY <1>2
<1>11. FrameMetadataLooksValid(f, c)
  BY <1>1, <1>2, <1>3, <1>4, <1>7, <1>8, <1>10 DEF FrameMetadataLooksValid
<1> QED BY <1>1, <1>2, <1>9, <1>11

(* Encoder and decoder agree on every frame, and the data frames are the    *)
(* input, for every budget PlanFor accepts (encode.go:43-80,               *)
(* frame.go:106-114, decode.go:216-235).                                   *)
THEOREM EncodeAccepted == BurstSpec => []EncodeIsAccepted
<1>1. BurstInv => EncodeIsAccepted
  <2> SUFFICES ASSUME BurstInv PROVE EncodeIsAccepted
    OBVIOUS
  <2>1. PlanAccepts(inputSize, config)
    BY DEF BurstInv
  <2>2. PICK N \in Nat \ {0} : N = DataFrames(inputSize, config)
    BY <2>1, PlanFacts
  <2>3. PICK P \in Nat \ {0} : P = config.PayloadSize
    BY <2>1, PlanFacts
  <2>4. ToSet(video) = Encoded(inputSize, config)
    <3>1. /\ video \in Seq(Encoded(inputSize, config)) /\ Len(video) \in Nat
          /\ \A x : Has(video, x) <=> x \in Encoded(inputSize, config)
      BY VideoFacts DEF BurstInv
    <3>2. DOMAIN video = 1..Len(video)
      BY <3>1
    <3> QED BY <3>1, <3>2 DEF ToSet, Has
  <2>5. ASSUME NEW f \in Encoded(inputSize, config)
        PROVE  /\ ParseAccepts(f) /\ FrameMetadataLooksValid(f, config)
               /\ f.Payload.size = 0 => inputSize = 0
    <3>1. CASE \E i \in 0..(N - 1) : f = DataFrame(i, inputSize, config)
      <4>1. PICK i \in 0..(N - 1) : f = DataFrame(i, inputSize, config)
        BY <3>1
      <4>2. i \in Nat /\ i < N
        OBVIOUS
      <4> QED BY <2>1, <2>2, <4>1, <4>2, DataFrameIsAccepted
    <3>2. CASE \E s \in BlockStarts(DataFrames(inputSize, config), config),
                  r \in 0..(config.RescueFramesPerBlock - 1) : f = RescueFrame(s, r, inputSize, config)
      BY <2>1, <3>2, RescueFrameIsAccepted
    <3> QED BY <2>2, <3>1, <3>2 DEF Encoded
  <2> DEFINE size == [i \in 1..N |->
                        (CHOOSE f \in ToSet(video) :
                           f.FrameType = Data /\ f.FrameIndex = i - 1).Payload.size]
             total == [i \in 0..N |-> BytesOf(i, inputSize, config)]
  <2>6. ASSUME NEW i \in 1..N PROVE size[i] = SliceSize(i - 1, inputSize, config)
    <3>1. PICK j \in 0..(N - 1) : j = i - 1
      OBVIOUS
    <3>2. j \in Nat /\ j < N
      OBVIOUS
    <3> DEFINE x == DataFrame(j, inputSize, config)
               Found(f) == f.FrameType = Data /\ f.FrameIndex = j
               y == CHOOSE f \in ToSet(video) : Found(f)
    <3>3. x \in ToSet(video) /\ Found(x)
      <4>1. x \in Encoded(inputSize, config)
        BY <2>2 DEF Encoded
      <4>2. Found(x)
        BY DEF DataFrame, Frame
      <4> QED BY <2>4, <4>1, <4>2
    <3>4. y \in ToSet(video) /\ Found(y)
      <4> HIDE DEF x, Found
      <4> QED BY <3>3
    <3>5. size[i] = y.Payload.size
      BY <3>1
    <3> HIDE DEF y
    <3>6. y.FrameType = Data /\ y.FrameIndex = j /\ y \in Encoded(inputSize, config)
      BY <2>4, <3>4
    <3>7. y = DataFrame(j, inputSize, config)
      <4>1. y.FrameType # Rescue
        BY <3>6 DEF Data, Rescue
      <4>2. PICK k \in 0..(N - 1) : y = DataFrame(k, inputSize, config)
        BY <2>2, <3>6, <4>1 DEF Encoded, RescueFrame, Frame
      <4>3. y.FrameIndex = k
        BY <4>2 DEF DataFrame, Frame
      <4> QED BY <3>6, <4>2, <4>3
    <3>8. y.Payload.size = SliceSize(j, inputSize, config)
      BY <2>1, <2>2, <3>2, <3>7, DataFrameIsAccepted
    <3> QED BY <3>1, <3>5, <3>8
  <2>7. total[0] = 0 /\ total[N] = inputSize
    <3>1. inputSize \in Nat
      BY <2>1, PlanFacts
    <3>2. BytesOf(0, inputSize, config) = 0
      <4>1. 0 * P = 0
        OBVIOUS
      <4> QED BY <2>3, <3>1, <4>1 DEF BytesOf
    <3>3. N * P \in Nat /\ inputSize <= N * P
      <4>1. N \in Nat /\ ~(N < N)
        OBVIOUS
      <4>2. N * P \in Nat /\ (inputSize > 0 => ~(N * P < inputSize))
        BY <2>1, <2>2, <2>3, <4>1, FramesReachInput
      <4> QED BY <3>1, <4>2
    <3>4. BytesOf(N, inputSize, config) = inputSize
      <4>1. PICK reach \in Nat : reach = N * P
        BY <3>3
      <4>2. BytesOf(N, inputSize, config) = IF reach <= inputSize THEN reach ELSE inputSize
        BY <2>3, <4>1 DEF BytesOf
      <4>3. inputSize <= reach
        BY <3>3, <4>1
      <4> QED BY <3>1, <4>2, <4>3
    <3>5. 0 \in 0..N /\ N \in 0..N
      OBVIOUS
    <3> QED BY <3>2, <3>4, <3>5
  <2>8. total \in [0..N -> Nat]
    <3>1. ASSUME NEW i \in 0..N PROVE BytesOf(i, inputSize, config) \in Nat
      <4>1. i \in Nat /\ inputSize \in Nat
        BY <2>1, PlanFacts
      <4>2. i * P \in Nat
        BY <4>1, MultiplesKeepOrder
      <4> QED BY <2>3, <4>1, <4>2 DEF BytesOf
    <3> QED BY <3>1
  <2>9. ASSUME NEW i \in 1..N PROVE total[i] = total[i - 1] + size[i]
    <3>1. PICK j \in 0..(N - 1) : j = i - 1 /\ i = j + 1
      OBVIOUS
    <3>2. j \in Nat /\ j < N /\ j \in 0..N /\ j + 1 \in 0..N
      OBVIOUS
    <3>3. BytesOf(j + 1, inputSize, config) = BytesOf(j, inputSize, config) + SliceSize(j, inputSize, config)
      BY <2>1, <2>2, <3>2, SliceFacts
    <3>4. total[j + 1] = BytesOf(j + 1, inputSize, config) /\ total[j] = BytesOf(j, inputSize, config)
      BY <3>2
    <3>5. size[i] = SliceSize(j, inputSize, config)
      BY <2>6, <3>1
    <3> QED BY <3>1, <3>3, <3>4, <3>5
  <2>10. TotalOf(size, N) = inputSize
    <3> HIDE DEF size, total
    <3> QED BY <2>7, <2>8, <2>9, SumIsTotal
  <2>11. inputSize = TotalOf([i \in 1..DataFrames(inputSize, config) |->
                      (CHOOSE f \in ToSet(video) :
                         f.FrameType = Data /\ f.FrameIndex = i - 1).Payload.size],
                   DataFrames(inputSize, config))
    BY <2>2, <2>10, Zenon
  <2> HIDE DEF size, total
  <2> QED BY <2>4, <2>5, <2>11, Zenon DEF EncodeIsAccepted, TotalOf
<1> QED BY <1>1, BurstIsInside, PTL

-----------------------------------------------------------------------------
(* Sums *)

(* Induction from 0, over a set that stands for the property.               *)
LEMMA InductionFromZero ==
  ASSUME NEW N \in Nat, NEW S \in SUBSET (0..N),
         0 \in S, \A k \in S : k < N => k + 1 \in S
  PROVE  S = 0..N
<1> DEFINE T == {k \in 1..N : k \in S}
<1>1. CASE N = 0
  <2>1. \A k \in 0..N : k = 0
    BY <1>1
  <2> QED BY <2>1
<1>2. CASE N # 0
  <2>1. N \in Nat \ {0} /\ T \in SUBSET (1..N)
    BY <1>2
  <2>2. 1 \in T
    <3>1. 0 < N /\ 0 + 1 = 1 /\ 1 \in 1..N
      BY <1>2
    <3> QED BY <3>1
  <2>3. ASSUME NEW k \in T, k < N PROVE k + 1 \in T
    <3>1. k \in S /\ k + 1 \in 1..N
      BY <2>3
    <3> QED BY <2>3, <3>1
  <2>4. T = 1..N
    <3> HIDE DEF T
    <3> QED BY <2>1, <2>2, <2>3, Induction
  <2>5. \A k \in 0..N : k = 0 \/ k \in T
    BY <2>4
  <2> QED BY <2>5
<1> QED BY <1>1, <1>2

(* Zero and one are elements, and what adding and multiplying them does.   *)
LEMMA FieldFacts ==
  /\ 0 \in Field /\ 1 \in Field /\ 0 # 1
  /\ \A a \in Field : /\ Add(a, 0) = a /\ Add(0, a) = a /\ Add(a, a) = 0
                      /\ Mul(a, 1) = a /\ Mul(1, a) = a
                      /\ Mul(a, 0) = 0 /\ Mul(0, a) = 0
<1>1. 0 \in Field /\ 1 \in Field /\ 0 # 1
  BY FieldAssumption DEF Field
<1>2. ASSUME NEW a \in Field
      PROVE  /\ Add(a, 0) = a /\ Add(0, a) = a /\ Add(a, a) = 0
             /\ Mul(a, 1) = a /\ Mul(1, a) = a
  BY <1>1, FieldAssumption
<1>3. ASSUME NEW a \in Field PROVE Mul(a, 0) = 0 /\ Mul(0, a) = 0
  <2>1. Mul(a, 0) \in Field /\ Mul(0, a) = Mul(a, 0)
    BY <1>1, FieldAssumption
  <2>2. Add(0, 0) = 0
    BY <1>1, <1>2
  <2>3. Mul(a, 0) = Add(Mul(a, 0), Mul(a, 0))
    BY <1>1, <2>2, FieldAssumption
  <2>4. Add(Mul(a, 0), Mul(a, 0)) = 0
    BY <1>2, <2>1
  <2> QED BY <2>1, <2>3, <2>4
<1> QED BY <1>1, <1>2, <1>3

(* The laws of the field, from the assumption on its operations.           *)
LEMMA FieldLaws ==
  /\ \A a \in Field : Inv(a) \in Field /\ (a # 0 => Mul(a, Inv(a)) = 1)
  /\ \A a, b \in Field :
       /\ Add(a, b) \in Field /\ Add(a, b) = Add(b, a)
       /\ Mul(a, b) \in Field /\ Mul(a, b) = Mul(b, a)
  /\ \A a, b, c \in Field :
       /\ Add(Add(a, b), c) = Add(a, Add(b, c))
       /\ Mul(Mul(a, b), c) = Mul(a, Mul(b, c))
       /\ Mul(a, Add(b, c)) = Add(Mul(a, b), Mul(a, c))
BY FieldAssumption

(* f holds the sums of the prefixes of a sequence of n elements.            *)
SumsUp(f, seq, n) ==
  /\ f \in [0..n -> Field] /\ f[0] = 0
  /\ \A k \in 1..n : f[k] = Add(f[k - 1], seq[k])

(* A sequence over the field has its sums of prefixes.                     *)
LEMMA PrefixSumsExist ==
  ASSUME NEW n \in Nat, NEW seq \in [1..n -> Field]
  PROVE  \E f : SumsUp(f, seq, n)
<1> DEFINE E == {m \in 0..n : \E f : SumsUp(f, seq, m)}
<1>1. 0 \in E
  <2>1. PICK m \in 0..n : m = 0
    OBVIOUS
  <2>2. PICK f : f = [k \in 0..m |-> 0]
    OBVIOUS
  <2>3. f \in [0..m -> Field] /\ f[0] = 0 /\ 1..m = {}
    BY <2>1, <2>2, FieldFacts
  <2>4. SumsUp(f, seq, m)
    BY <2>3 DEF SumsUp
  <2> QED BY <2>1, <2>4
<1>2. ASSUME NEW m \in E, m < n PROVE m + 1 \in E
  <2>1. m \in 0..n /\ m + 1 \in 0..n /\ m + 1 \in 1..n /\ \E f : SumsUp(f, seq, m)
    BY <1>2
  <2>2. PICK f : SumsUp(f, seq, m)
    BY <2>1
  <2>3. PICK g : g = [k \in 0..(m + 1) |-> IF k = m + 1 THEN Add(f[m], seq[m + 1]) ELSE f[k]]
    OBVIOUS
  <2>4. f \in [0..m -> Field] /\ f[0] = 0 /\ \A k \in 1..m : f[k] = Add(f[k - 1], seq[k])
    BY <2>2 DEF SumsUp
  <2>5. \A k \in 0..m : k \in 0..(m + 1) /\ k # m + 1 /\ g[k] = f[k]
    BY <2>1, <2>3
  <2>6. g[m + 1] = Add(f[m], seq[m + 1]) /\ m \in 0..m /\ 0 \in 0..m
    BY <2>1, <2>3
  <2>7. g[m + 1] \in Field
    BY <2>1, <2>4, <2>6, FieldLaws
  <2>8. g \in [0..(m + 1) -> Field]
    <3>1. \A k \in 0..(m + 1) : k \in 0..m \/ k = m + 1
      BY <2>1
    <3>2. \A k \in 0..(m + 1) : g[k] \in Field
      BY <2>4, <2>5, <2>7, <3>1
    <3> QED BY <2>3, <3>2
  <2>9. ASSUME NEW k \in 1..(m + 1) PROVE g[k] = Add(g[k - 1], seq[k])
    <3>1. CASE k \in 1..m
      <4>1. k \in 0..m /\ k - 1 \in 0..m
        BY <2>1, <3>1
      <4> QED BY <2>4, <2>5, <3>1, <4>1
    <3>2. CASE k = m + 1
      <4>1. k - 1 = m
        BY <2>1, <3>2
      <4> QED BY <2>5, <2>6, <3>2, <4>1
    <3>3. k \in 1..m \/ k = m + 1
      BY <2>1
    <3> QED BY <3>1, <3>2, <3>3
  <2>10. SumsUp(g, seq, m + 1)
    BY <2>4, <2>5, <2>6, <2>8, <2>9 DEF SumsUp
  <2> QED BY <2>1, <2>10
<1>3. n \in E
  <2>1. E \in SUBSET (0..n) /\ n \in 0..n
    OBVIOUS
  <2> HIDE DEF E
  <2> QED BY <1>1, <1>2, <2>1, InductionFromZero
<1> QED BY <1>3

(* The sum of a sequence is the last of its sums of prefixes.              *)
LEMMA SumIsLast ==
  ASSUME NEW n \in Nat, NEW seq, Len(seq) = n, NEW f, SumsUp(f, seq, n)
  PROVE  SumOf(seq) = f[n] /\ SumOf(seq) \in Field
<1> DEFINE Sums(g) == g = [k \in 0..Len(seq) |-> IF k = 0 THEN 0 ELSE Add(g[k - 1], seq[k])]
           sum == CHOOSE g : Sums(g)
           S == {k \in 0..n : sum[k] = f[k]}
<1>1. Sums(f)
  <2>1. f \in [0..n -> Field] /\ f[0] = 0 /\ \A k \in 1..n : f[k] = Add(f[k - 1], seq[k])
    BY DEF SumsUp
  <2>2. \A k \in 0..n : f[k] = IF k = 0 THEN 0 ELSE Add(f[k - 1], seq[k])
    BY <2>1
  <2> QED BY <2>1, <2>2
<1>2. Sums(sum)
  <2> HIDE DEF Sums
  <2> QED BY <1>1
<1>3. SumOf(seq) = sum[Len(seq)]
  BY Zenon DEF SumOf
<1> HIDE DEF sum
<1>4. \A k \in 0..n : sum[k] = IF k = 0 THEN 0 ELSE Add(sum[k - 1], seq[k])
  <2>1. PICK g : g = sum
    OBVIOUS
  <2>2. g = [k \in 0..n |-> IF k = 0 THEN 0 ELSE Add(g[k - 1], seq[k])]
    BY <1>2, <2>1
  <2>3. \A k \in 0..n : g[k] = IF k = 0 THEN 0 ELSE Add(g[k - 1], seq[k])
    BY <2>2
  <2> QED BY <2>1, <2>3
<1>5. 0 \in S
  <2>1. sum[0] = 0
    BY <1>4
  <2> QED BY <2>1 DEF SumsUp
<1>6. ASSUME NEW k \in S, k < n PROVE k + 1 \in S
  <2>1. k \in 0..n /\ k + 1 \in 0..n /\ k + 1 \in 1..n /\ k + 1 # 0 /\ (k + 1) - 1 = k /\ sum[k] = f[k]
    BY <1>6
  <2>2. sum[k + 1] = Add(sum[(k + 1) - 1], seq[k + 1])
    BY <1>4, <2>1
  <2>3. f[k + 1] = Add(f[(k + 1) - 1], seq[k + 1])
    BY <2>1 DEF SumsUp
  <2> QED BY <2>1, <2>2, <2>3
<1>7. n \in S
  <2>1. S \in SUBSET (0..n) /\ n \in 0..n
    OBVIOUS
  <2> HIDE DEF S
  <2> QED BY <1>5, <1>6, <2>1, InductionFromZero
<1>8. SumOf(seq) = f[n]
  BY <1>3, <1>7
<1> QED BY <1>8 DEF SumsUp

(* The sum of a sequence is an element, and the last of its prefix sums.   *)
LEMMA SumHasPrefixes ==
  ASSUME NEW n, NEW seq, n \in Nat, seq \in [1..n -> Field]
  PROVE  /\ SumOf(seq) \in Field
         /\ \E f : SumsUp(f, seq, n) /\ SumOf(seq) = f[n]
<1>1. PICK f : SumsUp(f, seq, n)
  BY PrefixSumsExist
<1>2. Len(seq) = n
  OBVIOUS
<1> QED BY <1>1, <1>2, SumIsLast

(* The sum of the sums is the sum of both.                                 *)
LEMMA SumAdds ==
  ASSUME NEW n \in Nat, NEW a \in [1..n -> Field], NEW b \in [1..n -> Field]
  PROVE  SumOf([k \in 1..n |-> Add(a[k], b[k])]) = Add(SumOf(a), SumOf(b))
<1>1. PICK f : SumsUp(f, a, n) /\ SumOf(a) = f[n]
  BY SumHasPrefixes
<1>2. PICK g : SumsUp(g, b, n) /\ SumOf(b) = g[n]
  BY SumHasPrefixes
<1>3. PICK c : c = [k \in 1..n |-> Add(a[k], b[k])]
  OBVIOUS
<1>4. PICK h : h = [k \in 0..n |-> Add(f[k], g[k])]
  OBVIOUS
<1>5. /\ f \in [0..n -> Field] /\ f[0] = 0 /\ \A k \in 1..n : f[k] = Add(f[k - 1], a[k])
      /\ g \in [0..n -> Field] /\ g[0] = 0 /\ \A k \in 1..n : g[k] = Add(g[k - 1], b[k])
  BY <1>1, <1>2 DEF SumsUp
<1>6. \A p, q, r, s \in Field : Add(Add(p, q), Add(r, s)) = Add(Add(p, r), Add(q, s))
  BY FieldLaws
<1>7. h \in [0..n -> Field] /\ h[0] = 0
  BY <1>4, <1>5, FieldLaws, FieldFacts
<1>8. ASSUME NEW k \in 1..n PROVE h[k] = Add(h[k - 1], c[k])
  <2>1. k \in 0..n /\ k - 1 \in 0..n
    OBVIOUS
  <2>2. /\ f[k] = Add(f[k - 1], a[k]) /\ g[k] = Add(g[k - 1], b[k])
        /\ f[k - 1] \in Field /\ g[k - 1] \in Field /\ a[k] \in Field /\ b[k] \in Field
    BY <1>5, <2>1
  <2>3. Add(f[k], g[k]) = Add(Add(f[k - 1], g[k - 1]), Add(a[k], b[k]))
    BY <1>6, <2>2
  <2> QED BY <1>3, <1>4, <2>1, <2>3
<1>9. SumsUp(h, c, n)
  BY <1>7, <1>8 DEF SumsUp
<1>10. Len(c) = n /\ n \in 0..n
  BY <1>3
<1> QED BY <1>1, <1>2, <1>3, <1>4, <1>9, <1>10, SumIsLast

(* A common factor can be taken out of a sum.                              *)
LEMMA SumScales ==
  ASSUME NEW n, NEW a, NEW x, n \in Nat, a \in [1..n -> Field], x \in Field
  PROVE  SumOf([k \in 1..n |-> Mul(x, a[k])]) = Mul(x, SumOf(a))
<1>1. PICK f : SumsUp(f, a, n) /\ SumOf(a) = f[n]
  BY SumHasPrefixes
<1>2. PICK c : c = [k \in 1..n |-> Mul(x, a[k])]
  OBVIOUS
<1>3. PICK h : h = [k \in 0..n |-> Mul(x, f[k])]
  OBVIOUS
<1>4. f \in [0..n -> Field] /\ f[0] = 0 /\ \A k \in 1..n : f[k] = Add(f[k - 1], a[k])
  BY <1>1 DEF SumsUp
<1>5. h \in [0..n -> Field] /\ h[0] = 0
  BY <1>3, <1>4, FieldLaws, FieldFacts
<1>6. ASSUME NEW k \in 1..n PROVE h[k] = Add(h[k - 1], c[k])
  <2>1. k \in 0..n /\ k - 1 \in 0..n
    OBVIOUS
  <2>2. f[k] = Add(f[k - 1], a[k]) /\ f[k - 1] \in Field /\ a[k] \in Field
    BY <1>4, <2>1
  <2>3. \A p, q \in Field : Mul(x, Add(p, q)) = Add(Mul(x, p), Mul(x, q))
    BY FieldLaws
  <2>4. Mul(x, f[k]) = Add(Mul(x, f[k - 1]), Mul(x, a[k]))
    BY <2>2, <2>3
  <2> QED BY <1>2, <1>3, <2>1, <2>4
<1>7. SumsUp(h, c, n)
  BY <1>5, <1>6 DEF SumsUp
<1>8. Len(c) = n /\ n \in 0..n
  BY <1>2
<1> QED BY <1>1, <1>2, <1>3, <1>7, <1>8, SumIsLast

(* Only one element differs from 0.                                         *)
LEMMA SumPicks ==
  ASSUME NEW n \in Nat, NEW a \in [1..n -> Field], NEW j \in 1..n,
         \A k \in 1..n : k # j => a[k] = 0
  PROVE  SumOf(a) = a[j]
<1>1. PICK h : h = [k \in 0..n |-> IF k < j THEN 0 ELSE a[j]]
  OBVIOUS
<1>2. h \in [0..n -> Field] /\ h[0] = 0 /\ h[n] = a[j]
  BY <1>1, FieldFacts
<1>3. ASSUME NEW k \in 1..n PROVE h[k] = Add(h[k - 1], a[k])
  <2>1. k \in 0..n /\ k - 1 \in 0..n
    OBVIOUS
  <2>2. CASE k < j
    <3>1. h[k] = 0 /\ h[k - 1] = 0 /\ a[k] = 0
      BY <1>1, <2>1, <2>2
    <3> QED BY <3>1, FieldFacts
  <2>3. CASE k = j
    <3>1. h[k] = a[j] /\ h[k - 1] = 0 /\ a[k] = a[j]
      BY <1>1, <2>1, <2>3
    <3> QED BY <3>1, FieldFacts
  <2>4. CASE k > j
    <3>1. h[k] = a[j] /\ h[k - 1] = a[j] /\ a[k] = 0
      BY <1>1, <2>1, <2>4
    <3> QED BY <3>1, FieldFacts
  <2> QED BY <2>2, <2>3, <2>4
<1>4. SumsUp(h, a, n) /\ Len(a) = n
  BY <1>2, <1>3 DEF SumsUp
<1> QED BY <1>2, <1>4, SumIsLast

(* The sum of zeros is zero.                                               *)
LEMMA SumOfZeros ==
  ASSUME NEW n, NEW a, n \in Nat, a \in [1..n -> Field], \A k \in 1..n : a[k] = 0
  PROVE  SumOf(a) = 0
<1>1. PICK h : h = [k \in 0..n |-> 0]
  OBVIOUS
<1>2. h \in [0..n -> Field] /\ h[0] = 0 /\ h[n] = 0
  BY <1>1, FieldFacts
<1>3. ASSUME NEW k \in 1..n PROVE h[k] = Add(h[k - 1], a[k])
  <2>1. h[k] = 0 /\ h[k - 1] = 0 /\ a[k] = 0
    BY <1>1
  <2> QED BY <2>1, FieldFacts
<1>4. SumsUp(h, a, n) /\ Len(a) = n
  BY <1>2, <1>3 DEF SumsUp
<1> QED BY <1>2, <1>4, SumIsLast

(* A table is summed up by rows or by columns.                              *)
LEMMA SumSwaps ==
  ASSUME NEW n \in Nat, NEW m \in Nat, NEW g \in [(1..n) \X (1..m) -> Field]
  PROVE  SumOf([i \in 1..n |-> SumOf([j \in 1..m |-> g[<<i, j>>]])])
           = SumOf([j \in 1..m |-> SumOf([i \in 1..n |-> g[<<i, j>>]])])
<1> DEFINE Row(i) == [j \in 1..m |-> g[<<i, j>>]]
           Col(j) == [i \in 1..n |-> g[<<i, j>>]]
           Up(j) == CHOOSE f : SumsUp(f, Col(j), n) /\ SumOf(Col(j)) = f[n]
           Part(k) == [j \in 1..m |-> Up(j)[k]]
<1>1. ASSUME NEW i \in 1..n PROVE Row(i) \in [1..m -> Field]
  <2>1. \A j \in 1..m : <<i, j>> \in (1..n) \X (1..m)
    OBVIOUS
  <2> QED BY <2>1
<1>2. ASSUME NEW j \in 1..m PROVE Col(j) \in [1..n -> Field]
  <2>1. \A i \in 1..n : <<i, j>> \in (1..n) \X (1..m)
    OBVIOUS
  <2> QED BY <2>1
<1>3. ASSUME NEW j \in 1..m PROVE SumsUp(Up(j), Col(j), n) /\ SumOf(Col(j)) = Up(j)[n]
  <2>1. \E f : SumsUp(f, Col(j), n) /\ SumOf(Col(j)) = f[n]
    BY <1>2, SumHasPrefixes
  <2> HIDE DEF Col
  <2> QED BY <2>1
<1> HIDE DEF Up
<1>4. ASSUME NEW j \in 1..m
      PROVE  /\ Up(j) \in [0..n -> Field] /\ Up(j)[0] = 0 /\ SumOf(Col(j)) = Up(j)[n]
             /\ \A k \in 1..n : Up(j)[k] = Add(Up(j)[k - 1], g[<<k, j>>])
  <2>1. /\ Up(j) \in [0..n -> Field] /\ Up(j)[0] = 0
        /\ \A k \in 1..n : Up(j)[k] = Add(Up(j)[k - 1], Col(j)[k])
    BY <1>3 DEF SumsUp
  <2>2. \A k \in 1..n : Col(j)[k] = g[<<k, j>>]
    OBVIOUS
  <2> HIDE DEF Col
  <2> QED BY <1>3, <2>1, <2>2
<1>5. ASSUME NEW k \in 0..n PROVE Part(k) \in [1..m -> Field]
  BY <1>4
<1>6. PICK h : h = [k \in 0..n |-> SumOf(Part(k))]
  OBVIOUS
<1>7. PICK rows : rows = [i \in 1..n |-> SumOf(Row(i))]
  OBVIOUS
<1>8. h \in [0..n -> Field] /\ h[0] = 0
  <2>1. \A k \in 0..n : h[k] \in Field
    <3> HIDE DEF Part
    <3> QED BY <1>5, <1>6, SumHasPrefixes
  <2>2. \A j \in 1..m : Part(0)[j] = 0
    BY <1>4
  <2>3. SumOf(Part(0)) = 0
    <3>1. Part(0) \in [1..m -> Field]
      BY <1>5
    <3> HIDE DEF Part
    <3> QED BY <2>2, <3>1, SumOfZeros
  <2> QED BY <1>6, <2>1, <2>3
<1>9. ASSUME NEW k \in 1..n PROVE h[k] = Add(h[k - 1], rows[k])
  <2>1. k \in 0..n /\ k - 1 \in 0..n
    OBVIOUS
  <2>2. Part(k) = [j \in 1..m |-> Add(Part(k - 1)[j], Row(k)[j])]
    <3>1. \A j \in 1..m : Part(k)[j] = Add(Part(k - 1)[j], Row(k)[j])
      BY <1>4
    <3> QED BY <3>1
  <2>3. Part(k - 1) \in [1..m -> Field] /\ Row(k) \in [1..m -> Field]
    BY <1>1, <1>5, <2>1
  <2>4. SumOf(Part(k)) = Add(SumOf(Part(k - 1)), SumOf(Row(k)))
    <3>1. PICK p : p = Part(k - 1)
      OBVIOUS
    <3>2. PICK q : q = Row(k)
      OBVIOUS
    <3>3. SumOf([j \in 1..m |-> Add(p[j], q[j])]) = Add(SumOf(p), SumOf(q))
      <4>1. p \in [1..m -> Field] /\ q \in [1..m -> Field]
        BY <2>3, <3>1, <3>2
      <4> QED BY <4>1, SumAdds
    <3> HIDE DEF Part, Row
    <3> QED BY <2>2, <3>1, <3>2, <3>3
  <2> HIDE DEF Part, Row
  <2> QED BY <1>6, <1>7, <2>1, <2>4
<1>10. SumOf(rows) = h[n]
  <2>1. SumsUp(h, rows, n) /\ Len(rows) = n
    BY <1>7, <1>8, <1>9 DEF SumsUp
  <2> QED BY <2>1, SumIsLast
<1>11. Part(n) = [j \in 1..m |-> SumOf(Col(j))]
  BY <1>4
<1>12. h[n] = SumOf(Part(n))
  BY <1>6
<1> QED BY <1>7, <1>10, <1>11, <1>12

-----------------------------------------------------------------------------
(* Elimination *)

(* A row of the matrix beside the unit matrix: the left half is the right   *)
(* half times m.                                                           *)
IsRow(row, m, n) ==
  /\ row \in [1..(2 * n) -> Field]
  /\ \A j \in 1..n : row[j] = SumOf([k \in 1..n |-> Mul(row[n + k], m[k][j])])

Matrices(n) == [1..n -> [1..n -> Field]]

(* A row of the pair stays one when it is scaled.                          *)
LEMMA RowScales ==
  ASSUME NEW n \in Nat, NEW m \in Matrices(n), NEW row, IsRow(row, m, n), NEW x \in Field
  PROVE  IsRow([c \in 1..(2 * n) |-> Mul(row[c], x)], m, n)
<1>1. PICK new : new = [c \in 1..(2 * n) |-> Mul(row[c], x)]
  OBVIOUS
<1>2. row \in [1..(2 * n) -> Field]
  BY DEF IsRow
<1>3. new \in [1..(2 * n) -> Field] /\ \A c \in 1..(2 * n) : new[c] = Mul(x, row[c])
  BY <1>1, <1>2, FieldLaws
<1>4. ASSUME NEW j \in 1..n
      PROVE  new[j] = SumOf([k \in 1..n |-> Mul(new[n + k], m[k][j])])
  <2>1. PICK a : a = [k \in 1..n |-> Mul(row[n + k], m[k][j])]
    OBVIOUS
  <2>2. ASSUME NEW k \in 1..n
        PROVE  /\ row[n + k] \in Field /\ m[k][j] \in Field
               /\ new[n + k] = Mul(x, row[n + k])
    <3>1. n + k \in 1..(2 * n)
      OBVIOUS
    <3> QED BY <1>2, <1>3, <3>1 DEF Matrices
  <2>3. a \in [1..n -> Field]
    BY <2>1, <2>2, FieldLaws
  <2>4. ASSUME NEW k \in 1..n PROVE Mul(new[n + k], m[k][j]) = Mul(x, a[k])
    <3>1. \A p, q \in Field : Mul(Mul(x, p), q) = Mul(x, Mul(p, q))
      BY FieldLaws
    <3> QED BY <2>1, <2>2, <3>1
  <2>5. [k \in 1..n |-> Mul(new[n + k], m[k][j])] = [k \in 1..n |-> Mul(x, a[k])]
    BY <2>4
  <2>6. SumOf([k \in 1..n |-> Mul(x, a[k])]) = Mul(x, SumOf(a))
    BY <2>3, SumScales
  <2>7. row[j] = SumOf(a)
    BY <2>1 DEF IsRow
  <2>8. j \in 1..(2 * n)
    OBVIOUS
  <2> QED BY <1>3, <2>5, <2>6, <2>7, <2>8
<1>5. IsRow(new, m, n)
  BY <1>3, <1>4 DEF IsRow
<1> QED BY <1>1, <1>5

(* A row of the pair stays one when another is added.                      *)
LEMMA RowsAdd ==
  ASSUME NEW n \in Nat, NEW m \in Matrices(n),
         NEW p, IsRow(p, m, n), NEW q, IsRow(q, m, n)
  PROVE  IsRow([c \in 1..(2 * n) |-> Add(p[c], q[c])], m, n)
<1>1. PICK new : new = [c \in 1..(2 * n) |-> Add(p[c], q[c])]
  OBVIOUS
<1>2. p \in [1..(2 * n) -> Field] /\ q \in [1..(2 * n) -> Field]
  BY DEF IsRow
<1>3. new \in [1..(2 * n) -> Field]
  BY <1>1, <1>2, FieldLaws
<1>4. ASSUME NEW j \in 1..n
      PROVE  new[j] = SumOf([k \in 1..n |-> Mul(new[n + k], m[k][j])])
  <2>1. PICK a : a = [k \in 1..n |-> Mul(p[n + k], m[k][j])]
    OBVIOUS
  <2>2. PICK b : b = [k \in 1..n |-> Mul(q[n + k], m[k][j])]
    OBVIOUS
  <2>3. ASSUME NEW k \in 1..n
        PROVE  /\ p[n + k] \in Field /\ q[n + k] \in Field /\ m[k][j] \in Field
               /\ new[n + k] = Add(p[n + k], q[n + k])
    <3>1. n + k \in 1..(2 * n)
      OBVIOUS
    <3> QED BY <1>1, <1>2, <3>1 DEF Matrices
  <2>4. a \in [1..n -> Field] /\ b \in [1..n -> Field]
    BY <2>1, <2>2, <2>3, FieldLaws
  <2>5. ASSUME NEW k \in 1..n PROVE Mul(new[n + k], m[k][j]) = Add(a[k], b[k])
    <3>1. \A r, s, t \in Field : Mul(Add(r, s), t) = Add(Mul(r, t), Mul(s, t))
      <4>1. \A r, s, t \in Field : Mul(t, Add(r, s)) = Add(Mul(t, r), Mul(t, s))
        BY FieldLaws
      <4>2. \A r, s \in Field : Add(r, s) \in Field /\ Mul(r, s) = Mul(s, r)
        BY FieldLaws
      <4> QED BY <4>1, <4>2
    <3> QED BY <2>1, <2>2, <2>3, <3>1
  <2>6. [k \in 1..n |-> Mul(new[n + k], m[k][j])] = [k \in 1..n |-> Add(a[k], b[k])]
    BY <2>5
  <2>7. SumOf([k \in 1..n |-> Add(a[k], b[k])]) = Add(SumOf(a), SumOf(b))
    BY <2>4, SumAdds
  <2>8. p[j] = SumOf(a) /\ q[j] = SumOf(b)
    BY <2>1, <2>2 DEF IsRow
  <2>9. j \in 1..(2 * n)
    OBVIOUS
  <2> QED BY <1>1, <2>6, <2>7, <2>8, <2>9
<1>5. IsRow(new, m, n)
  BY <1>3, <1>4 DEF IsRow
<1> QED BY <1>1, <1>5

(* The first rows: m beside the unit matrix. *)
LEMMA UnitRows ==
  ASSUME NEW n \in Nat, NEW m \in Matrices(n)
  PROVE  /\ Len(m) = n /\ DOMAIN WithUnit(m) = 1..n
         /\ \A r \in 1..n : IsRow(WithUnit(m)[r], m, n)
         /\ \A r, j \in 1..n : WithUnit(m)[r][j] = m[r][j]
<1>1. Len(m) = n
  BY DEF Matrices
<1>2. PICK w : w = WithUnit(m)
  OBVIOUS
<1>3. w = [r \in 1..n |-> [c \in 1..(2 * n) |-> IF c <= n THEN m[r][c]
                                                ELSE IF c = n + r THEN 1 ELSE 0]]
  BY <1>1, <1>2 DEF WithUnit
<1>4. ASSUME NEW r \in 1..n PROVE IsRow(w[r], m, n) /\ \A j \in 1..n : w[r][j] = m[r][j]
  <2>1. PICK row : row = w[r]
    OBVIOUS
  <2>2. \A c \in 1..(2 * n) : row[c] = IF c <= n THEN m[r][c]
                                       ELSE IF c = n + r THEN 1 ELSE 0
    BY <1>3, <2>1
  <2>3. \A j \in 1..n : j \in 1..(2 * n) /\ j <= n /\ row[j] = m[r][j] /\ m[r][j] \in Field
    BY <2>2 DEF Matrices
  <2>4. \A k \in 1..n : row[n + k] = IF k = r THEN 1 ELSE 0
    <3>1. \A k \in 1..n : /\ n + k \in 1..(2 * n) /\ ~(n + k <= n)
                          /\ n + k = n + r <=> k = r
      OBVIOUS
    <3> QED BY <2>2, <3>1
  <2>5. row \in [1..(2 * n) -> Field]
    <3>1. row = [c \in 1..(2 * n) |-> IF c <= n THEN m[r][c]
                                      ELSE IF c = n + r THEN 1 ELSE 0]
      BY <1>3, <2>1
    <3>2. \A c \in 1..(2 * n) : row[c] \in Field
      <4>1. \A c \in 1..(2 * n) : c <= n => c \in 1..n
        OBVIOUS
      <4> QED BY <2>2, <2>3, <4>1, FieldFacts
    <3> QED BY <3>1, <3>2
  <2>6. ASSUME NEW j \in 1..n
        PROVE  row[j] = SumOf([k \in 1..n |-> Mul(row[n + k], m[k][j])])
    <3>1. PICK a : a = [k \in 1..n |-> Mul(row[n + k], m[k][j])]
      OBVIOUS
    <3>2. ASSUME NEW k \in 1..n PROVE a[k] = IF k = r THEN m[k][j] ELSE 0
      <4>1. m[k][j] \in Field
        BY DEF Matrices
      <4> QED BY <2>4, <3>1, <4>1, FieldFacts
    <3>3. a \in [1..n -> Field]
      <4>1. \A k \in 1..n : m[k][j] \in Field
        BY DEF Matrices
      <4>2. \A k \in 1..n : a[k] \in Field
        BY <3>2, <4>1, FieldFacts
      <4> QED BY <3>1, <4>2
    <3>4. SumOf(a) = a[r]
      BY <3>2, <3>3, SumPicks
    <3> QED BY <2>3, <3>1, <3>2, <3>4
  <2> QED BY <2>1, <2>3, <2>5, <2>6 DEF IsRow
<1> QED BY <1>1, <1>2, <1>3, <1>4

(* The minimum of a set of numbers that is not empty.                      *)
LEMMA LeastOf ==
  ASSUME NEW S \in SUBSET Nat, S # {}
  PROVE  Min(S) \in S /\ \A k \in S : Min(S) <= k
<1> DEFINE Smaller == {p \in Nat \X Nat : p[1] < p[2]}
<1>1. IsWellFoundedOn(Smaller, Nat)
  BY NatLessThanWellFounded DEF OpToRel
<1>2. PICK x \in S : \A y \in S : <<y, x>> \notin Smaller
  <2> HIDE DEF Smaller
  <2> QED BY <1>1, WFMin
<1>3. ASSUME NEW y \in S PROVE x <= y
  <2>1. x \in Nat /\ y \in Nat /\ ~(y < x)
    <3>1. <<y, x>> \notin Smaller
      BY <1>2
    <3>2. x \in Nat /\ y \in Nat
      OBVIOUS
    <3> QED BY <3>1, <3>2
  <2> QED BY <2>1
<1>4. \E y \in S : \A k \in S : y <= k
  BY <1>3
<1> QED BY <1>4, Zenon DEF Min

(* What the elimination of the first col columns makes of m. *)
Reduced(aug, m, n, col) ==
  /\ DOMAIN aug = 1..n
  /\ \A r \in 1..n : IsRow(aug[r], m, n)
  /\ \A r \in 1..n : \A c \in 1..col : aug[r][c] = IF r = c THEN 1 ELSE 0

(* Scaling and adding the rows of a pivot that is not 0. *)
LEMMA ClearedIsReduced ==
  ASSUME NEW n \in Nat, NEW m \in Matrices(n), NEW aug, NEW col \in 1..n,
         Reduced(aug, m, n, col - 1), aug[col][col] # 0
  PROVE  Reduced(Cleared(aug, col), m, n, col)
<1>1. /\ DOMAIN aug = 1..n /\ \A r \in 1..n : IsRow(aug[r], m, n)
      /\ \A r \in 1..n : aug[r] \in [1..(2 * n) -> Field]
  BY DEF Reduced, IsRow
<1>2. PICK x : x = Inv(aug[col][col])
  OBVIOUS
<1>3. aug[col][col] \in Field /\ x \in Field /\ Mul(aug[col][col], x) = 1
  <2>1. col \in 1..(2 * n)
    OBVIOUS
  <2> QED BY <1>1, <1>2, <2>1, FieldLaws
<1>4. PICK unit : unit = [c \in 1..(2 * n) |-> Mul(aug[col][c], x)]
  OBVIOUS
<1>5. IsRow(unit, m, n) /\ unit \in [1..(2 * n) -> Field]
  <2>1. IsRow(unit, m, n)
    BY <1>1, <1>3, <1>4, RowScales
  <2> QED BY <2>1 DEF IsRow
<1>6. PICK new : new = Cleared(aug, col)
  OBVIOUS
<1>7. new = [row \in 1..n |->
               IF row = col THEN unit
               ELSE [c \in 1..(2 * n) |-> Add(aug[row][c], Mul(aug[row][col], unit[c]))]]
  <2>1. \A row \in 1..n : DOMAIN aug[row] = 1..(2 * n)
    BY <1>1
  <2>2. Scaled(aug[col], col) = unit
    BY <1>2, <1>4, <2>1 DEF Scaled
  <2>3. new = [row \in DOMAIN aug |->
                 IF row = col THEN unit
                 ELSE [c \in DOMAIN aug[row] |-> Add(aug[row][c], Mul(aug[row][col], unit[c]))]]
    BY <1>6, <2>2 DEF Cleared
  <2>4. \A row \in 1..n :
          (IF row = col THEN unit
           ELSE [c \in DOMAIN aug[row] |-> Add(aug[row][c], Mul(aug[row][col], unit[c]))])
            = IF row = col THEN unit
              ELSE [c \in 1..(2 * n) |-> Add(aug[row][c], Mul(aug[row][col], unit[c]))]
    BY <2>1
  <2>5. new = [row \in 1..n |->
                 IF row = col THEN unit
                 ELSE [c \in DOMAIN aug[row] |-> Add(aug[row][c], Mul(aug[row][col], unit[c]))]]
    BY <1>1, <2>3, Zenon
  <2> QED BY <2>4, <2>5, Zenon
<1>8. \A c \in 1..(2 * n) : aug[col][c] \in Field /\ unit[c] \in Field /\ unit[c] = Mul(aug[col][c], x)
  BY <1>1, <1>4, <1>5
<1>9. ASSUME NEW r \in 1..n, r # col
      PROVE  /\ new[r] = [c \in 1..(2 * n) |-> Add(aug[r][c], Mul(aug[r][col], unit[c]))]
             /\ IsRow(new[r], m, n)
  <2>1. new[r] = [c \in 1..(2 * n) |-> Add(aug[r][c], Mul(aug[r][col], unit[c]))]
    BY <1>7, <1>9
  <2>2. PICK y \in Field : y = aug[r][col]
    <3>1. col \in 1..(2 * n)
      OBVIOUS
    <3> QED BY <1>1, <3>1
  <2>3. PICK q : q = [c \in 1..(2 * n) |-> Mul(unit[c], y)]
    OBVIOUS
  <2>4. IsRow(q, m, n)
    BY <1>5, <2>3, RowScales
  <2>5. PICK p : p = aug[r]
    OBVIOUS
  <2>6. IsRow([c \in 1..(2 * n) |-> Add(p[c], q[c])], m, n)
    <3>1. IsRow(p, m, n)
      BY <1>1, <2>5
    <3> QED BY <2>4, <3>1, RowsAdd
  <2>7. \A c \in 1..(2 * n) : Add(aug[r][c], Mul(aug[r][col], unit[c])) = Add(p[c], q[c])
    <3>1. \A c \in 1..(2 * n) : Mul(y, unit[c]) = Mul(unit[c], y)
      BY <1>8, FieldLaws
    <3> QED BY <2>2, <2>3, <2>5, <3>1
  <2>8. new[r] = [c \in 1..(2 * n) |-> Add(p[c], q[c])]
    BY <2>1, <2>7
  <2> QED BY <2>1, <2>6, <2>8
<1>10. new[col] = unit
  BY <1>7
<1>11. ASSUME NEW r \in 1..n, NEW c \in 1..col
       PROVE  new[r][c] = IF r = c THEN 1 ELSE 0
  <2>1. c \in 1..n /\ c \in 1..(2 * n) /\ col \in 1..(2 * n)
    OBVIOUS
  <2>2. aug[r][c] \in Field /\ aug[r][col] \in Field
    BY <1>1, <2>1
  <2>3. unit[c] = IF c = col THEN 1 ELSE 0
    <3>1. CASE c = col
      BY <1>3, <1>8, <2>1, <3>1
    <3>2. CASE c # col
      <4>1. c \in 1..(col - 1)
        BY <3>2
      <4>2. aug[col][c] = 0
        BY <3>2, <4>1 DEF Reduced
      <4> QED BY <1>3, <1>8, <2>1, <3>2, <4>2, FieldFacts
    <3> QED BY <3>1, <3>2
  <2>4. CASE r = col
    BY <1>10, <2>3, <2>4
  <2>5. CASE r # col
    <3>1. new[r][c] = Add(aug[r][c], Mul(aug[r][col], unit[c]))
      BY <1>9, <2>1, <2>5
    <3>2. CASE c = col
      BY <2>2, <2>3, <2>5, <3>1, <3>2, FieldFacts
    <3>3. CASE c # col
      <4>1. c \in 1..(col - 1)
        BY <3>3
      <4>2. aug[r][c] = IF r = c THEN 1 ELSE 0
        BY <4>1 DEF Reduced
      <4> QED BY <2>2, <2>3, <3>1, <3>3, <4>2, FieldFacts
    <3> QED BY <3>2, <3>3
  <2> QED BY <2>4, <2>5
<1>12. /\ DOMAIN new = 1..n
       /\ \A r \in 1..n : IsRow(new[r], m, n)
  BY <1>5, <1>7, <1>9, <1>10
<1>13. Reduced(new, m, n, col)
  BY <1>11, <1>12 DEF Reduced
<1> QED BY <1>6, <1>13

(* A column that is eliminated leaves the next columns to do.              *)
LEMMA EliminateReduces ==
  ASSUME NEW n \in Nat, NEW m \in Matrices(n), NEW aug, NEW col \in 1..n,
         Reduced(aug, m, n, col - 1), Eliminate(aug, col) # <<>>
  PROVE  Reduced(Eliminate(aug, col), m, n, col)
<1>1. /\ DOMAIN aug = 1..n /\ \A r \in 1..n : IsRow(aug[r], m, n)
      /\ \A r \in 1..n : \A c \in 1..(col - 1) : aug[r][c] = IF r = c THEN 1 ELSE 0
  BY DEF Reduced
<1>2. PICK pivots : pivots = {row \in DOMAIN aug : row >= col /\ aug[row][col] # 0}
  OBVIOUS
<1>3. pivots # {} /\ Eliminate(aug, col) = Cleared(Swapped(aug, col, Min(pivots)), col)
  BY <1>2 DEF Eliminate
<1>4. PICK p \in 1..n : p = Min(pivots) /\ p >= col /\ aug[p][col] # 0
  <2>1. pivots \in SUBSET Nat
    BY <1>1, <1>2
  <2>2. Min(pivots) \in pivots
    BY <1>3, <2>1, LeastOf
  <2> QED BY <1>1, <1>2, <2>2
<1>5. PICK new : new = Swapped(aug, col, p)
  OBVIOUS
<1>6. /\ DOMAIN new = 1..n /\ new[p] = aug[col] /\ (p # col => new[col] = aug[p])
      /\ \A r \in 1..n : r # p /\ r # col => new[r] = aug[r]
  BY <1>1, <1>5 DEF Swapped
<1>7. new[col] = aug[p]
  <2>1. CASE p = col
    BY <1>6, <2>1
  <2>2. CASE p # col
    BY <1>6, <2>2
  <2> QED BY <2>1, <2>2
<1>8. \A r \in 1..n : IsRow(new[r], m, n)
  BY <1>1, <1>6, <1>7
<1>9. ASSUME NEW r \in 1..n, NEW c \in 1..(col - 1)
      PROVE  new[r][c] = IF r = c THEN 1 ELSE 0
  <2>1. c # p /\ c # col /\ c \in 1..n
    BY <1>4
  <2>2. CASE r = p
    BY <1>1, <1>6, <2>1, <2>2
  <2>3. CASE r = col
    BY <1>1, <1>7, <2>1, <2>3
  <2>4. CASE r # p /\ r # col
    BY <1>1, <1>6, <2>4
  <2> QED BY <2>2, <2>3, <2>4
<1>10. Reduced(new, m, n, col - 1) /\ new[col][col] # 0
  BY <1>4, <1>6, <1>7, <1>8, <1>9 DEF Reduced
<1>11. Reduced(Cleared(new, col), m, n, col)
  BY <1>10, ClearedIsReduced
<1> QED BY <1>3, <1>4, <1>5, <1>11

(* The matrices of the elimination, column by column. *)
Columns(f, m, n) ==
  /\ f[0] = WithUnit(m)
  /\ \A col \in 1..n : f[col] = Eliminate(f[col - 1], col)

(* The elimination has a matrix for every column.                          *)
LEMMA ColumnsExist ==
  ASSUME NEW n \in Nat, NEW m
  PROVE  \E f : DOMAIN f = 0..n /\ Columns(f, m, n)
<1> DEFINE E == {k \in 0..n : \E f : DOMAIN f = 0..k /\ Columns(f, m, k)}
<1>1. 0 \in E
  <2>1. PICK k \in 0..n : k = 0
    OBVIOUS
  <2>2. PICK f : f = [i \in 0..k |-> WithUnit(m)]
    OBVIOUS
  <2>3. DOMAIN f = 0..k /\ f[0] = WithUnit(m) /\ 1..k = {}
    BY <2>1, <2>2
  <2>4. Columns(f, m, k)
    BY <2>3 DEF Columns
  <2> QED BY <2>1, <2>3, <2>4
<1>2. ASSUME NEW k \in E, k < n PROVE k + 1 \in E
  <2>1. k \in 0..n /\ k + 1 \in 0..n /\ \E f : DOMAIN f = 0..k /\ Columns(f, m, k)
    BY <1>2
  <2>2. PICK f : DOMAIN f = 0..k /\ Columns(f, m, k)
    BY <2>1
  <2>3. PICK g : g = [i \in 0..(k + 1) |-> IF i = k + 1 THEN Eliminate(f[k], k + 1) ELSE f[i]]
    OBVIOUS
  <2>4. \A i \in 0..k : i \in 0..(k + 1) /\ i # k + 1 /\ g[i] = f[i]
    BY <2>1, <2>3
  <2>5. g[k + 1] = Eliminate(f[k], k + 1) /\ k \in 0..k /\ 0 \in 0..k
    BY <2>1, <2>3
  <2>6. ASSUME NEW i \in 1..(k + 1) PROVE g[i] = Eliminate(g[i - 1], i)
    <3>1. CASE i \in 1..k
      <4>1. i \in 0..k /\ i - 1 \in 0..k
        BY <2>1, <3>1
      <4>2. f[i] = Eliminate(f[i - 1], i)
        BY <2>2, <3>1 DEF Columns
      <4> QED BY <2>4, <4>1, <4>2
    <3>2. CASE i = k + 1
      <4>1. i - 1 = k
        BY <2>1, <3>2
      <4> QED BY <2>4, <2>5, <3>2, <4>1
    <3>3. i \in 1..k \/ i = k + 1
      BY <2>1
    <3> QED BY <3>1, <3>2, <3>3
  <2>7. g[0] = WithUnit(m)
    BY <2>2, <2>4, <2>5 DEF Columns
  <2>8. Columns(g, m, k + 1)
    BY <2>6, <2>7 DEF Columns
  <2>9. DOMAIN g = 0..(k + 1)
    BY <2>3
  <2> QED BY <2>1, <2>8, <2>9
<1>3. n \in E
  <2>1. E \in SUBSET (0..n) /\ n \in 0..n
    OBVIOUS
  <2> HIDE DEF E
  <2> QED BY <1>1, <1>2, <2>1, InductionFromZero
<1> QED BY <1>3

(* What InvertMatrix returns is the right half of the last of them.        *)
LEMMA InverseIsLast ==
  ASSUME NEW n \in Nat, NEW m, Len(m) = n
  PROVE  \E f : /\ Columns(f, m, n)
                /\ InvertMatrix(m) = [row \in DOMAIN f[n] |-> [c \in 1..n |-> f[n][row][n + c]]]
<1> DEFINE Goes(g) == g = [col \in 0..Len(m) |-> IF col = 0 THEN WithUnit(m)
                                                 ELSE Eliminate(g[col - 1], col)]
           reduced == CHOOSE g : Goes(g)
<1>1. Goes(reduced)
  <2>1. PICK f : DOMAIN f = 0..n /\ Columns(f, m, n)
    BY ColumnsExist
  <2>2. PICK g : g = [col \in 0..n |-> f[col]]
    OBVIOUS
  <2>3. \A col \in 0..n : g[col] = IF col = 0 THEN WithUnit(m) ELSE Eliminate(g[col - 1], col)
    <3>1. ASSUME NEW col \in 0..n, col # 0 PROVE g[col] = Eliminate(g[col - 1], col)
      <4>1. col \in 1..n /\ col - 1 \in 0..n
        BY <3>1
      <4> QED BY <2>1, <2>2, <4>1 DEF Columns
    <3> QED BY <2>1, <2>2, <3>1 DEF Columns
  <2>4. Goes(g)
    BY <2>2, <2>3, Zenon
  <2> HIDE DEF Goes
  <2> QED BY <2>4
<1>2. InvertMatrix(m) = [row \in DOMAIN reduced[Len(m)] |->
                           [c \in 1..Len(m) |-> reduced[Len(m)][row][Len(m) + c]]]
  BY Zenon DEF InvertMatrix
<1> HIDE DEF reduced
<1>3. PICK g : g = reduced
  OBVIOUS
<1>4. g = [col \in 0..n |-> IF col = 0 THEN WithUnit(m) ELSE Eliminate(g[col - 1], col)]
  BY <1>1, <1>3
<1>5. \A col \in 0..n : g[col] = IF col = 0 THEN WithUnit(m) ELSE Eliminate(g[col - 1], col)
  BY <1>4
<1>6. Columns(g, m, n)
  <2>1. 0 \in 0..n /\ \A col \in 1..n : col \in 0..n /\ col # 0
    OBVIOUS
  <2> QED BY <1>5, <2>1 DEF Columns
<1> QED BY <1>2, <1>3, <1>6

(* inverse times m is the unit matrix. *)
Inverts(inverse, m, n) ==
  /\ inverse \in Matrices(n)
  /\ \A i, j \in 1..n :
       SumOf([k \in 1..n |-> Mul(inverse[i][k], m[k][j])]) = IF i = j THEN 1 ELSE 0

(* What invertMatrix returns (decode.go:643-699) is the inverse of its     *)
(* argument, for every matrix over every field of the assumption.          *)
THEOREM InvertMatrixInverts ==
  ASSUME NEW n \in Nat, NEW m \in Matrices(n), InvertMatrix(m) # <<>>
  PROVE  Inverts(InvertMatrix(m), m, n)
<1>1. Len(m) = n
  BY UnitRows
<1>2. PICK f : /\ Columns(f, m, n)
               /\ InvertMatrix(m) = [row \in DOMAIN f[n] |-> [c \in 1..n |-> f[n][row][n + c]]]
  BY <1>1, InverseIsLast
<1> DEFINE S == {k \in 0..n : f[k] = <<>> \/ Reduced(f[k], m, n, k)}
<1>3. 0 \in S
  <2>1. PICK k \in 0..n : k = 0
    OBVIOUS
  <2>2. f[k] = WithUnit(m) /\ 1..k = {}
    BY <1>2, <2>1 DEF Columns
  <2>3. DOMAIN f[k] = 1..n /\ \A r \in 1..n : IsRow(f[k][r], m, n)
    BY <2>2, UnitRows
  <2>4. Reduced(f[k], m, n, k)
    BY <2>2, <2>3 DEF Reduced
  <2> QED BY <2>1, <2>4
<1>4. ASSUME NEW k \in S, k < n PROVE k + 1 \in S
  <2>1. /\ k \in 0..n /\ k + 1 \in 0..n /\ k + 1 \in 1..n /\ (k + 1) - 1 = k
        /\ f[k] = <<>> \/ Reduced(f[k], m, n, k)
    BY <1>4
  <2>2. f[k + 1] = Eliminate(f[k], k + 1)
    BY <1>2, <2>1 DEF Columns
  <2>3. CASE f[k] = <<>>
    <3>1. DOMAIN f[k] = {}
      BY <2>3
    <3>2. Eliminate(f[k], k + 1) = <<>>
      BY <3>1 DEF Eliminate
    <3> QED BY <2>1, <2>2, <3>2
  <2>4. CASE Reduced(f[k], m, n, k) /\ f[k + 1] # <<>>
    <3>1. PICK aug : aug = f[k]
      OBVIOUS
    <3>2. PICK col \in 1..n : col = k + 1 /\ col - 1 = k
      BY <2>1
    <3>3. Reduced(aug, m, n, col - 1) /\ Eliminate(aug, col) # <<>>
      BY <2>2, <2>4, <3>1, <3>2
    <3>4. Reduced(Eliminate(aug, col), m, n, col)
      BY <3>3, EliminateReduces
    <3>5. Reduced(f[k + 1], m, n, k + 1)
      BY <2>2, <3>1, <3>2, <3>4
    <3> QED BY <2>1, <3>5
  <2> QED BY <2>1, <2>3, <2>4
<1>5. f[n] = <<>> \/ Reduced(f[n], m, n, n)
  <2>1. S \in SUBSET (0..n) /\ n \in 0..n
    OBVIOUS
  <2>2. n \in S
    <3> HIDE DEF S
    <3> QED BY <1>3, <1>4, <2>1, InductionFromZero
  <2> QED BY <2>2
<1>6. Reduced(f[n], m, n, n)
  <2>1. ASSUME f[n] = <<>> PROVE FALSE
    <3>1. DOMAIN f[n] = {}
      BY <2>1
    <3>2. InvertMatrix(m) = <<>>
      BY <1>2, <3>1
    <3> QED BY <3>2
  <2> QED BY <1>5, <2>1
<1>7. PICK reduced : reduced = f[n]
  OBVIOUS
<1>8. PICK inverse : inverse = InvertMatrix(m)
  OBVIOUS
<1>9. inverse = [row \in 1..n |-> [c \in 1..n |-> reduced[row][n + c]]]
  <2>1. DOMAIN reduced = 1..n
    BY <1>6, <1>7 DEF Reduced
  <2> QED BY <1>2, <1>7, <1>8, <2>1
<1>10. /\ \A r \in 1..n : IsRow(reduced[r], m, n)
       /\ \A r \in 1..n : \A c \in 1..n : reduced[r][c] = IF r = c THEN 1 ELSE 0
  BY <1>6, <1>7 DEF Reduced
<1>11. \A i, c \in 1..n : inverse[i][c] = reduced[i][n + c] /\ inverse[i][c] \in Field
  <2>1. \A c \in 1..n : n + c \in 1..(2 * n)
    OBVIOUS
  <2> QED BY <1>9, <1>10, <2>1 DEF IsRow
<1>12. inverse \in Matrices(n)
  <2>1. \A i \in 1..n : inverse[i] \in [1..n -> Field]
    BY <1>9, <1>11
  <2> QED BY <1>9, <2>1 DEF Matrices
<1>13. ASSUME NEW i \in 1..n, NEW j \in 1..n
       PROVE  SumOf([k \in 1..n |-> Mul(inverse[i][k], m[k][j])]) = IF i = j THEN 1 ELSE 0
  <2>1. [k \in 1..n |-> Mul(inverse[i][k], m[k][j])]
          = [k \in 1..n |-> Mul(reduced[i][n + k], m[k][j])]
    BY <1>11
  <2>2. reduced[i][j] = SumOf([k \in 1..n |-> Mul(reduced[i][n + k], m[k][j])])
    BY <1>10 DEF IsRow
  <2> QED BY <1>10, <2>1, <2>2
<1>14. Inverts(inverse, m, n)
  BY <1>12, <1>13, Zenon DEF Inverts
<1> QED BY <1>8, <1>14

-----------------------------------------------------------------------------
(* Sets in ascending order *)

(* Ascending lists a set of numbers: every element once, the smaller first. *)
Lists(seq, S, m) ==
  /\ seq \in [1..m -> S]
  /\ \A x \in S : \E k \in 1..m : seq[k] = x
  /\ \A j, k \in 1..m : j < k => seq[j] < seq[k]

(* A finite set of numbers is listed in ascending order.                   *)
LEMMA AscendingLists ==
  ASSUME NEW S \in SUBSET Nat, IsFiniteSet(S)
  PROVE  Cardinality(S) \in Nat /\ Lists(Ascending(S), S, Cardinality(S))
<1>1. PICK m \in Nat : m = Cardinality(S)
  BY FS_CardinalityType
<1> DEFINE Below(x) == {y \in S : y < x}
<1>2. ASSUME NEW x \in S
      PROVE  /\ IsFiniteSet(Below(x)) /\ Cardinality(Below(x)) \in 0..(m - 1)
  <2>1. Below(x) \in SUBSET S /\ Below(x) # S
    <3>1. x \notin Below(x)
      OBVIOUS
    <3> QED BY <3>1
  <2> HIDE DEF Below
  <2>2. IsFiniteSet(Below(x)) /\ Cardinality(Below(x)) <= m /\ Cardinality(Below(x)) # m
    BY <1>1, <2>1, FS_Subset
  <2>3. Cardinality(Below(x)) \in Nat
    BY <2>2, FS_CardinalityType
  <2> QED BY <2>2, <2>3
<1>3. ASSUME NEW x \in S, NEW y \in S, x < y
      PROVE  Cardinality(Below(x)) < Cardinality(Below(y))
  <2>1. Below(x) \in SUBSET Below(y)
    <3>1. ASSUME NEW z \in S, z < x PROVE z < y
      <4>1. x \in Nat /\ y \in Nat /\ z \in Nat
        OBVIOUS
      <4> QED BY <1>3, <3>1, <4>1
    <3> QED BY <3>1
  <2>2. x \in Below(y) /\ x \notin Below(x)
    BY <1>3
  <2>3. Cardinality(Below(x)) \in Nat /\ Cardinality(Below(y)) \in Nat
    <3> HIDE DEF Below
    <3> QED BY <1>2
  <2> HIDE DEF Below
  <2>4. Cardinality(Below(x)) <= Cardinality(Below(y)) /\ Cardinality(Below(x)) # Cardinality(Below(y))
    BY <1>2, <2>1, <2>2, FS_Subset
  <2> QED BY <2>3, <2>4
<1>4. PICK rank : rank = [x \in S |-> Cardinality(Below(x))]
  OBVIOUS
<1>5. rank \in [S -> 0..(m - 1)] /\ \A x \in S : rank[x] = Cardinality(Below(x))
  <2> HIDE DEF Below
  <2> QED BY <1>2, <1>4
<1>6. \A x, y \in S : /\ x < y => rank[x] < rank[y]
                      /\ rank[x] = rank[y] => x = y
                      /\ rank[x] < rank[y] => x < y
  <2>1. ASSUME NEW x \in S, NEW y \in S
        PROVE  /\ x < y => rank[x] < rank[y]
               /\ y < x => rank[y] < rank[x]
               /\ rank[x] \in Int /\ rank[y] \in Int /\ x \in Nat /\ y \in Nat
    <3> HIDE DEF Below
    <3> QED BY <1>3, <1>5
  <2>2. ASSUME NEW x \in S, NEW y \in S
        PROVE  /\ x < y => rank[x] < rank[y]
               /\ rank[x] = rank[y] => x = y
               /\ rank[x] < rank[y] => x < y
    BY <2>1
  <2> QED BY <2>2
<1>7. \A k \in 0..(m - 1) : \E x \in S : rank[x] = k
  <2>1. rank \in Injection(S, 0..(m - 1))
    BY <1>5, <1>6 DEF Injection, IsInjective
  <2>2. IsFiniteSet(0..(m - 1)) /\ Cardinality(0..(m - 1)) = m
    <3>1. 0 \in Int /\ m - 1 \in Int
      OBVIOUS
    <3> QED BY <3>1, FS_Interval
  <2>3. rank \in Surjection(S, 0..(m - 1))
    BY <1>1, <2>1, <2>2, FS_Injection
  <2> QED BY <2>3 DEF Surjection
<1>8. PICK seq : seq = Ascending(S)
  OBVIOUS
<1>9. seq = [k \in 1..m |-> CHOOSE x \in S : Cardinality(Below(x)) = k - 1]
  BY <1>1, <1>8 DEF Ascending, Sorted
<1>10. ASSUME NEW k \in 1..m PROVE seq[k] \in S /\ rank[seq[k]] = k - 1
  <2>1. k - 1 \in 0..(m - 1)
    OBVIOUS
  <2>2. \E x \in S : Cardinality(Below(x)) = k - 1
    <3> HIDE DEF Below
    <3> QED BY <1>5, <1>7, <2>1
  <2>3. seq[k] = CHOOSE x \in S : Cardinality(Below(x)) = k - 1
    BY <1>9
  <2> HIDE DEF Below
  <2>4. seq[k] \in S /\ Cardinality(Below(seq[k])) = k - 1
    BY <2>2, <2>3, Zenon
  <2> QED BY <1>5, <2>4
<1>11. seq \in [1..m -> S]
  <2> HIDE DEF Below
  <2> QED BY <1>9, <1>10
<1>12. ASSUME NEW x \in S PROVE \E k \in 1..m : seq[k] = x
  <2>1. PICK k \in 1..m : k - 1 = rank[x]
    <3>1. rank[x] \in 0..(m - 1)
      BY <1>5
    <3>2. rank[x] + 1 \in 1..m /\ (rank[x] + 1) - 1 = rank[x]
      BY <3>1
    <3> QED BY <3>2
  <2>2. seq[k] \in S /\ rank[seq[k]] = rank[x]
    BY <1>10, <2>1
  <2> QED BY <1>6, <2>2
<1>13. ASSUME NEW j \in 1..m, NEW k \in 1..m, j < k PROVE seq[j] < seq[k]
  <2>1. j - 1 < k - 1
    BY <1>13
  <2> QED BY <1>6, <1>10, <2>1
<1> QED BY <1>1, <1>8, <1>11, <1>12, <1>13 DEF Lists

-----------------------------------------------------------------------------
(* Division *)

(* Factors can be exchanged.                                               *)
LEMMA MulCommutes == \A a, b \in Field : Mul(a, b) \in Field /\ Mul(a, b) = Mul(b, a)
BY FieldLaws

(* Factors can be grouped in any way.                                      *)
LEMMA MulAssociates ==
  ASSUME NEW a, NEW b, NEW c, a \in Field, b \in Field, c \in Field
  PROVE  Mul(Mul(a, b), c) = Mul(a, Mul(b, c))
BY FieldLaws

(* The second and the third of three factors can be exchanged.             *)
LEMMA MulTurns ==
  ASSUME NEW a, NEW b, NEW c, a \in Field, b \in Field, c \in Field
  PROVE  Mul(Mul(a, b), c) = Mul(Mul(a, c), b)
<1>1. Mul(b, c) = Mul(c, b)
  BY MulCommutes
<1> QED BY <1>1, MulAssociates

(* The two inner ones of four factors can be exchanged.                    *)
LEMMA MulExchanges ==
  ASSUME NEW a, NEW b, NEW c, NEW d, a \in Field, b \in Field, c \in Field, d \in Field
  PROVE  Mul(Mul(a, b), Mul(c, d)) = Mul(Mul(a, c), Mul(b, d))
<1>1. PICK ab \in Field : ab = Mul(a, b)
  BY MulCommutes
<1>2. PICK ac \in Field : ac = Mul(a, c)
  BY MulCommutes
<1>3. Mul(ab, Mul(c, d)) = Mul(Mul(ab, c), d)
  BY MulAssociates
<1>4. Mul(ab, c) = Mul(ac, b)
  BY <1>1, <1>2, MulTurns
<1>5. Mul(Mul(ac, b), d) = Mul(ac, Mul(b, d))
  BY MulAssociates
<1> QED BY <1>1, <1>2, <1>3, <1>4, <1>5

(* In characteristic 2 only equal elements add up to zero.                 *)
LEMMA AddIsZero ==
  ASSUME NEW a \in Field, NEW b \in Field, Add(a, b) = 0
  PROVE  a = b
<1>1. Add(Add(a, b), b) = Add(a, Add(b, b))
  BY FieldLaws
<1> QED BY <1>1, FieldFacts

(* There are no divisors of zero, and the reciprocal is unique.            *)
LEMMA QuotientFacts ==
  /\ \A a, b \in Field : a # 0 /\ b # 0 => Mul(a, b) # 0
  /\ \A a, b \in Field : Mul(a, b) = 1 => b = Inv(a)
  /\ \A a \in Field : a # 0 => Inv(a) \in Field /\ Inv(a) # 0 /\ Mul(a, Inv(a)) = 1
<1>1. \A a \in Field : a # 0 => Inv(a) \in Field /\ Mul(a, Inv(a)) = 1
  BY FieldLaws
<1>2. ASSUME NEW a \in Field, a # 0 PROVE Inv(a) # 0
  BY <1>1, <1>2, FieldFacts
<1>3. ASSUME NEW a \in Field, NEW b \in Field, a # 0 PROVE Mul(Inv(a), Mul(a, b)) = b
  <2>1. Mul(Mul(Inv(a), a), b) = Mul(Inv(a), Mul(a, b))
    BY <1>1, <1>3, MulAssociates
  <2>2. Mul(Inv(a), a) = 1
    BY <1>1, <1>3, MulCommutes
  <2> QED BY <2>1, <2>2, FieldFacts
<1>4. ASSUME NEW a \in Field, NEW b \in Field, a # 0, b # 0 PROVE Mul(a, b) # 0
  <2>1. ASSUME Mul(a, b) = 0 PROVE FALSE
    <3>1. Mul(Inv(a), 0) = b
      BY <1>3, <1>4, <2>1
    <3> QED BY <1>1, <1>4, <3>1, FieldFacts
  <2> QED BY <2>1
<1>5. ASSUME NEW a \in Field, NEW b \in Field, Mul(a, b) = 1 PROVE b = Inv(a)
  <2>1. a # 0
    BY <1>5, FieldFacts
  <2>2. Mul(Inv(a), 1) = b
    BY <1>3, <1>5, <2>1
  <2> QED BY <1>1, <2>1, <2>2, FieldFacts
<1> QED BY <1>1, <1>2, <1>4, <1>5

(* The reciprocal of a product, and of a reciprocal.                       *)
LEMMA InverseOfProduct ==
  ASSUME NEW a \in Field, NEW b \in Field, a # 0, b # 0
  PROVE  Inv(Mul(a, b)) = Mul(Inv(a), Inv(b)) /\ Inv(Inv(a)) = a
<1>1. /\ Inv(a) \in Field /\ Mul(a, Inv(a)) = 1
      /\ Inv(b) \in Field /\ Mul(b, Inv(b)) = 1
  BY QuotientFacts
<1>2. Mul(Mul(a, b), Mul(Inv(a), Inv(b))) = Mul(Mul(a, Inv(a)), Mul(b, Inv(b)))
  BY <1>1, MulExchanges
<1>3. Mul(Mul(a, b), Mul(Inv(a), Inv(b))) = 1
  BY <1>1, <1>2, FieldFacts
<1>4. Mul(a, b) \in Field /\ Mul(Inv(a), Inv(b)) \in Field
  BY <1>1, MulCommutes
<1>5. Inv(Mul(a, b)) = Mul(Inv(a), Inv(b))
  BY <1>3, <1>4, QuotientFacts
<1>6. Mul(Inv(a), a) = 1
  BY <1>1, MulCommutes
<1> QED BY <1>1, <1>5, <1>6, QuotientFacts

-----------------------------------------------------------------------------
(* Cauchy matrices *)

(* The identity of the points that keeps a Cauchy matrix one when a column *)
(* is cleared.                                                             *)
LEMMA CauchyIdentity ==
  ASSUME NEW p \in Field, NEW q \in Field, NEW r \in Field, NEW s \in Field
  PROVE  Add(Mul(Add(p, s), Add(q, r)), Mul(Add(q, s), Add(p, r))) = Mul(Add(p, q), Add(r, s))
<1>1. \A a, b \in Field : Add(a, b) \in Field /\ Add(a, b) = Add(b, a)
  BY FieldLaws
<1>2. ASSUME NEW a \in Field, NEW b \in Field, NEW c \in Field, NEW d \in Field
      PROVE  Add(Add(a, b), Add(c, d)) = Add(Add(a, c), Add(b, d))
  BY FieldLaws
<1>4. ASSUME NEW a \in Field, NEW b \in Field, NEW c \in Field, NEW d \in Field
      PROVE  Mul(Add(a, b), Add(c, d)) = Add(Add(Mul(a, c), Mul(b, c)), Add(Mul(a, d), Mul(b, d)))
  <2>1. \A k, l, m \in Field : Mul(k, Add(l, m)) = Add(Mul(k, l), Mul(k, m))
    BY FieldLaws
  <2>2. Mul(Add(a, b), Add(c, d)) = Add(Mul(Add(a, b), c), Mul(Add(a, b), d))
    BY <1>1, <2>1
  <2>3. \A k \in Field : Mul(Add(a, b), k) = Add(Mul(a, k), Mul(b, k))
    BY <1>1, <2>1, MulCommutes
  <2> QED BY <2>2, <2>3
<1>5. PICK pq \in Field : pq = Mul(p, q) /\ pq = Mul(q, p)
  BY MulCommutes
<1>6. PICK pr \in Field : pr = Mul(p, r)
  BY MulCommutes
<1>7. PICK sq \in Field : sq = Mul(s, q) /\ sq = Mul(q, s)
  BY MulCommutes
<1>8. PICK sr \in Field : sr = Mul(s, r)
  BY MulCommutes
<1>9. PICK qr \in Field : qr = Mul(q, r)
  BY MulCommutes
<1>10. PICK ps \in Field : ps = Mul(p, s) /\ ps = Mul(s, p)
  BY MulCommutes
<1>11. Mul(Add(p, s), Add(q, r)) = Add(Add(pq, sq), Add(pr, sr))
  <2>1. Mul(Add(p, s), Add(q, r)) = Add(Add(Mul(p, q), Mul(s, q)), Add(Mul(p, r), Mul(s, r)))
    BY <1>4
  <2> QED BY <1>5, <1>6, <1>7, <1>8, <2>1
<1>12. Mul(Add(q, s), Add(p, r)) = Add(Add(pq, ps), Add(qr, sr))
  <2>1. Mul(Add(q, s), Add(p, r)) = Add(Add(Mul(q, p), Mul(s, p)), Add(Mul(q, r), Mul(s, r)))
    BY <1>4
  <2> QED BY <1>5, <1>8, <1>9, <1>10, <2>1
<1>13. Mul(Add(p, q), Add(r, s)) = Add(Add(pr, qr), Add(ps, sq))
  <2>1. Mul(Add(p, q), Add(r, s)) = Add(Add(Mul(p, r), Mul(q, r)), Add(Mul(p, s), Mul(q, s)))
    BY <1>4
  <2> QED BY <1>6, <1>7, <1>9, <1>10, <2>1
<1>14. Add(Add(Add(pq, sq), Add(pr, sr)), Add(Add(pq, ps), Add(qr, sr)))
         = Add(Add(Add(pq, sq), Add(pq, ps)), Add(Add(pr, sr), Add(qr, sr)))
  <2>1. /\ Add(pq, sq) \in Field /\ Add(pr, sr) \in Field
        /\ Add(pq, ps) \in Field /\ Add(qr, sr) \in Field
    BY <1>1
  <2> QED BY <1>2, <2>1
<1>15. Add(Add(pq, sq), Add(pq, ps)) = Add(sq, ps)
  <2>1. Add(Add(pq, sq), Add(pq, ps)) = Add(Add(pq, pq), Add(sq, ps))
    BY <1>2
  <2> QED BY <1>1, <2>1, FieldFacts
<1>16. Add(Add(pr, sr), Add(qr, sr)) = Add(pr, qr)
  <2>1. Add(Add(pr, sr), Add(qr, sr)) = Add(Add(pr, qr), Add(sr, sr))
    BY <1>2
  <2> QED BY <1>1, <2>1, FieldFacts
<1>17. Add(Add(sq, ps), Add(pr, qr)) = Add(Add(pr, qr), Add(ps, sq))
  BY <1>1
<1> QED BY <1>11, <1>12, <1>13, <1>14, <1>15, <1>16, <1>17

(* What elimination makes of a factor of a Cauchy matrix. *)
LEMMA CauchyFactor ==
  ASSUME NEW a, NEW b, NEW d, NEW e, NEW g, NEW h,
         a \in Field, b \in Field, d \in Field, e \in Field, g \in Field, h \in Field,
         a # 0, b # 0, d # 0,
         Add(Mul(b, d), Mul(e, a)) = Mul(g, h)
  PROVE  Add(Inv(a), Mul(Inv(b), Mul(e, Inv(d))))
           = Mul(Mul(Mul(g, Inv(b)), Mul(h, Inv(d))), Inv(a))
<1>1. PICK ia \in Field : ia = Inv(a) /\ Mul(a, ia) = 1
  BY QuotientFacts
<1>2. PICK ib \in Field : ib = Inv(b) /\ Mul(b, ib) = 1
  BY QuotientFacts
<1>3. PICK id \in Field : id = Inv(d) /\ Mul(d, id) = 1
  BY QuotientFacts
<1>4. PICK k \in Field : k = Mul(Mul(ib, id), ia)
  BY MulCommutes
<1>5. PICK bd \in Field : bd = Mul(b, d)
  BY MulCommutes
<1>6. PICK ea \in Field : ea = Mul(e, a)
  BY MulCommutes
<1>7. Mul(k, bd) = ia
  <2>1. Mul(Mul(ib, id), bd) = Mul(Mul(ib, b), Mul(id, d))
    BY <1>5, MulExchanges
  <2>2. Mul(ib, b) = 1 /\ Mul(id, d) = 1
    BY <1>2, <1>3, MulCommutes
  <2>3. Mul(Mul(ib, id), bd) = 1
    BY <2>1, <2>2, FieldFacts
  <2>4. PICK l \in Field : l = Mul(ib, id)
    BY MulCommutes
  <2>5. Mul(Mul(l, ia), bd) = Mul(Mul(l, bd), ia)
    BY MulTurns
  <2> QED BY <1>4, <2>3, <2>4, <2>5, FieldFacts
<1>8. Mul(k, ea) = Mul(ib, Mul(e, id))
  <2>1. PICK l \in Field : l = Mul(ib, id)
    BY MulCommutes
  <2>2. Mul(Mul(l, ia), Mul(e, a)) = Mul(Mul(l, e), Mul(ia, a))
    BY MulExchanges
  <2>3. Mul(ia, a) = 1
    BY <1>1, MulCommutes
  <2>4. Mul(l, e) \in Field
    BY MulCommutes
  <2>5. Mul(k, ea) = Mul(l, e)
    BY <1>4, <1>6, <2>1, <2>2, <2>3, <2>4, FieldFacts
  <2>6. Mul(Mul(ib, id), e) = Mul(ib, Mul(e, id))
    <3>1. Mul(Mul(ib, id), e) = Mul(ib, Mul(id, e))
      BY MulAssociates
    <3> QED BY <3>1, MulCommutes
  <2> QED BY <2>1, <2>5, <2>6
<1>9. Add(Mul(k, bd), Mul(k, ea)) = Mul(k, Add(bd, ea))
  BY FieldLaws
<1>10. Mul(k, Mul(g, h)) = Mul(Mul(Mul(g, ib), Mul(h, id)), ia)
  <2>1. Mul(Mul(g, ib), Mul(h, id)) = Mul(Mul(g, h), Mul(ib, id))
    BY MulExchanges
  <2>2. PICK l \in Field : l = Mul(ib, id)
    BY MulCommutes
  <2>3. PICK gh \in Field : gh = Mul(g, h)
    BY MulCommutes
  <2>4. Mul(Mul(gh, l), ia) = Mul(Mul(l, ia), gh)
    <3>1. Mul(gh, l) = Mul(l, gh)
      BY MulCommutes
    <3> QED BY <3>1, MulTurns
  <2> QED BY <1>4, <2>1, <2>2, <2>3, <2>4
<1> QED BY <1>1, <1>2, <1>3, <1>5, <1>6, <1>7, <1>8, <1>9, <1>10

(* The factors of the pivot cancel.                                        *)
LEMMA PivotCancels ==
  ASSUME NEW u, NEW v, NEW uc, NEW iu, NEW vc, NEW iv, NEW ib, NEW id, NEW e,
         u \in Field, v \in Field, uc \in Field, iu \in Field, vc \in Field, iv \in Field,
         ib \in Field, id \in Field, e \in Field, Mul(uc, iu) = 1, Mul(vc, iv) = 1
  PROVE  Mul(Mul(Mul(u, vc), ib), Mul(Mul(Mul(uc, v), id), Mul(Mul(iu, iv), e)))
           = Mul(Mul(u, v), Mul(ib, Mul(e, id)))
<1>1. PICK o \in Field : o = Mul(e, id) /\ o = Mul(id, e)
  BY MulCommutes
<1>2. PICK w \in Field : w = Mul(v, iv)
  BY MulCommutes
<1>3. Mul(Mul(Mul(uc, v), id), Mul(Mul(iu, iv), e)) = Mul(w, o)
  <2>1. PICK k \in Field : k = Mul(uc, v)
    BY MulCommutes
  <2>2. PICK l \in Field : l = Mul(iu, iv)
    BY MulCommutes
  <2>3. Mul(Mul(k, id), Mul(l, e)) = Mul(Mul(k, l), Mul(id, e))
    BY MulExchanges
  <2>4. Mul(k, l) = Mul(Mul(uc, iu), Mul(v, iv))
    BY <2>1, <2>2, MulExchanges
  <2>5. Mul(k, l) = w
    BY <1>2, <2>4, FieldFacts
  <2> QED BY <1>1, <2>1, <2>2, <2>3, <2>5
<1>4. PICK k \in Field : k = Mul(u, vc)
  BY MulCommutes
<1>5. Mul(Mul(k, ib), Mul(w, o)) = Mul(Mul(k, w), Mul(ib, o))
  BY MulExchanges
<1>6. Mul(k, w) = Mul(Mul(u, v), Mul(vc, iv))
  BY <1>2, <1>4, MulExchanges
<1>7. Mul(k, w) = Mul(u, v)
  BY <1>6, MulCommutes, FieldFacts
<1> QED BY <1>1, <1>3, <1>4, <1>5, <1>7

(* Factors spread over two products.                                       *)
LEMMA FactorsSpread ==
  ASSUME NEW u, NEW v, NEW k, NEW l, NEW z,
         u \in Field, v \in Field, k \in Field, l \in Field, z \in Field
  PROVE  Mul(Mul(u, v), Mul(Mul(k, l), z)) = Mul(Mul(Mul(u, k), Mul(v, l)), z)
<1>1. PICK uv \in Field : uv = Mul(u, v)
  BY MulCommutes
<1>2. PICK kl \in Field : kl = Mul(k, l)
  BY MulCommutes
<1>3. Mul(uv, Mul(kl, z)) = Mul(Mul(uv, kl), z)
  BY MulAssociates
<1>4. Mul(Mul(u, v), Mul(k, l)) = Mul(Mul(u, k), Mul(v, l))
  BY MulExchanges
<1> QED BY <1>1, <1>2, <1>3, <1>4

(* An entry of the rows below after a pivot of a Cauchy matrix. *)
LEMMA CauchyEntry ==
  ASSUME NEW u, NEW v, NEW uc, NEW vc, NEW a, NEW b, NEW d, NEW e, NEW g, NEW h,
         u \in Field, v \in Field, uc \in Field, vc \in Field, a \in Field, b \in Field,
         d \in Field, e \in Field, g \in Field, h \in Field,
         uc # 0, vc # 0, a # 0, b # 0, d # 0, e # 0,
         Add(Mul(b, d), Mul(e, a)) = Mul(g, h)
  PROVE  Add(Mul(Mul(u, v), Inv(a)),
             Mul(Mul(Mul(u, vc), Inv(b)),
                 Mul(Mul(Mul(uc, v), Inv(d)), Inv(Mul(Mul(uc, vc), Inv(e))))))
           = Mul(Mul(Mul(u, Mul(g, Inv(b))), Mul(v, Mul(h, Inv(d)))), Inv(a))
<1>1. /\ Inv(a) \in Field /\ Inv(b) \in Field /\ Inv(d) \in Field
      /\ Inv(e) \in Field /\ Inv(e) # 0
      /\ Inv(uc) \in Field /\ Mul(uc, Inv(uc)) = 1
      /\ Inv(vc) \in Field /\ Mul(vc, Inv(vc)) = 1
  BY QuotientFacts
<1>2. Inv(Mul(Mul(uc, vc), Inv(e))) = Mul(Mul(Inv(uc), Inv(vc)), e)
  <2>1. Mul(uc, vc) \in Field /\ Mul(uc, vc) # 0
    BY MulCommutes, QuotientFacts
  <2>2. Inv(Mul(uc, vc)) = Mul(Inv(uc), Inv(vc))
    BY InverseOfProduct
  <2>3. PICK w \in Field : w = Mul(uc, vc) /\ w # 0
    BY <2>1
  <2>4. PICK ie \in Field : ie = Inv(e) /\ ie # 0 /\ Inv(ie) = e
    <3>1. Inv(Inv(e)) = e
      BY InverseOfProduct
    <3> QED BY <1>1, <3>1
  <2>5. Inv(Mul(w, ie)) = Mul(Inv(w), Inv(ie))
    BY <2>3, <2>4, InverseOfProduct
  <2> QED BY <2>2, <2>3, <2>4, <2>5
<1>3. Mul(Mul(Mul(u, vc), Inv(b)), Mul(Mul(Mul(uc, v), Inv(d)), Mul(Mul(Inv(uc), Inv(vc)), e)))
        = Mul(Mul(u, v), Mul(Inv(b), Mul(e, Inv(d))))
  BY <1>1, PivotCancels
<1>4. PICK f \in Field : f = Mul(Inv(b), Mul(e, Inv(d)))
  BY <1>1, MulCommutes
<1>5. PICK uv \in Field : uv = Mul(u, v)
  BY MulCommutes
<1>6. PICK ia \in Field : ia = Inv(a)
  BY <1>1
<1>7. Add(Mul(uv, ia), Mul(uv, f)) = Mul(uv, Add(ia, f))
  BY FieldLaws
<1>8. Add(Inv(a), Mul(Inv(b), Mul(e, Inv(d))))
        = Mul(Mul(Mul(g, Inv(b)), Mul(h, Inv(d))), Inv(a))
  BY CauchyFactor
<1>9. /\ Mul(g, Inv(b)) \in Field /\ Mul(h, Inv(d)) \in Field
  BY <1>1, MulCommutes
<1>10. Mul(Mul(u, v), Mul(Mul(Mul(g, Inv(b)), Mul(h, Inv(d))), Inv(a)))
         = Mul(Mul(Mul(u, Mul(g, Inv(b))), Mul(v, Mul(h, Inv(d)))), Inv(a))
  <2>1. PICK k \in Field : k = Mul(g, Inv(b))
    BY <1>9
  <2>2. PICK l \in Field : l = Mul(h, Inv(d))
    BY <1>9
  <2>3. Mul(Mul(u, v), Mul(Mul(k, l), ia)) = Mul(Mul(Mul(u, k), Mul(v, l)), ia)
    BY FactorsSpread
  <2> QED BY <1>6, <2>1, <2>2, <2>3
<1> QED BY <1>2, <1>3, <1>4, <1>5, <1>6, <1>7, <1>8, <1>10

(* Points that differ, and the matrix of the reciprocals of their sums.     *)
IsCauchy(m, n, x, y) ==
  /\ m \in Matrices(n) /\ x \in [1..n -> Field] /\ y \in [1..n -> Field]
  /\ \A i, j \in 1..n : /\ i # j => x[i] # x[j] /\ y[i] # y[j]
                        /\ x[i] # y[j]
                        /\ m[i][j] = Inv(Add(x[i], y[j]))

(* What is left to eliminate is, up to factors, a Cauchy matrix.            *)
CauchyBelow(aug, n, col, x, y) ==
  \E u, v \in [1..n -> Field] :
    /\ \A r \in 1..n : u[r] # 0 /\ v[r] # 0
    /\ \A r, j \in (col + 1)..n :
         aug[r][j] = Mul(Mul(u[r], v[j]), Inv(Add(x[r], y[j])))

(* Before the first column the matrix is the Cauchy matrix itself.         *)
LEMMA CauchyStarts ==
  ASSUME NEW n \in Nat, NEW m, NEW x, NEW y, IsCauchy(m, n, x, y), NEW col, col = 0
  PROVE  CauchyBelow(WithUnit(m), n, col, x, y)
<1>1. m \in Matrices(n)
  BY DEF IsCauchy
<1>2. PICK w : w = WithUnit(m)
  OBVIOUS
<1>3. \A r, j \in 1..n : w[r][j] = m[r][j] /\ m[r][j] \in Field /\ m[r][j] = Inv(Add(x[r], y[j]))
  <2>1. \A r, j \in 1..n : w[r][j] = m[r][j]
    BY <1>1, <1>2, UnitRows
  <2> QED BY <1>1, <2>1 DEF IsCauchy, Matrices
<1>4. PICK u \in [1..n -> Field] : \A r \in 1..n : u[r] = 1 /\ u[r] # 0
  <2>1. PICK one \in Field : one = 1 /\ one # 0
    BY FieldFacts
  <2>2. PICK u : u = [r \in 1..n |-> one]
    OBVIOUS
  <2>3. u \in [1..n -> Field] /\ \A r \in 1..n : u[r] = one
    BY <2>2
  <2> QED BY <2>1, <2>3
<1>5. \A r, j \in (col + 1)..n : w[r][j] = Mul(Mul(u[r], u[j]), Inv(Add(x[r], y[j])))
  <2>1. ASSUME NEW r \in 1..n, NEW j \in 1..n
        PROVE  w[r][j] = Mul(Mul(u[r], u[j]), Inv(Add(x[r], y[j])))
    <3>1. PICK z \in Field : z = m[r][j] /\ z = w[r][j] /\ z = Inv(Add(x[r], y[j]))
      BY <1>3
    <3>2. Mul(1, 1) = 1 /\ Mul(1, z) = z
      BY FieldFacts
    <3> QED BY <1>4, <3>1, <3>2
  <2> QED BY <2>1
<1> QED BY <1>2, <1>4, <1>5 DEF CauchyBelow

(* The pivot of the next column is in its place, and is not 0.              *)
LEMMA CauchyEliminates ==
  ASSUME NEW n \in Nat, NEW m, NEW x, NEW y, IsCauchy(m, n, x, y),
         NEW aug, NEW c \in 1..n, Reduced(aug, m, n, c - 1),
         CauchyBelow(aug, n, c - 1, x, y)
  PROVE  /\ aug[c][c] # 0
         /\ CauchyBelow(Cleared(Swapped(aug, c, c), c), n, c, x, y)
         /\ Eliminate(aug, c) = Cleared(Swapped(aug, c, c), c)
<1>1. PICK u \in [1..n -> Field], v \in [1..n -> Field] :
        /\ \A r \in 1..n : u[r] # 0 /\ v[r] # 0
        /\ \A r, j \in c..n : aug[r][j] = Mul(Mul(u[r], v[j]), Inv(Add(x[r], y[j])))
  <2>1. (c - 1) + 1 = c
    OBVIOUS
  <2> QED BY <2>1 DEF CauchyBelow
<1>2. /\ x \in [1..n -> Field] /\ y \in [1..n -> Field]
      /\ \A i, j \in 1..n : i # j => x[i] # x[j] /\ y[i] # y[j]
      /\ \A i, j \in 1..n : x[i] # y[j]
  BY DEF IsCauchy
<1>3. ASSUME NEW i \in 1..n, NEW j \in 1..n
      PROVE  /\ Add(x[i], y[j]) \in Field /\ Add(x[i], y[j]) # 0
             /\ Inv(Add(x[i], y[j])) \in Field /\ Inv(Add(x[i], y[j])) # 0
  <2>1. x[i] \in Field /\ y[j] \in Field /\ x[i] # y[j]
    BY <1>2
  <2>2. Add(x[i], y[j]) \in Field /\ Add(x[i], y[j]) # 0
    BY <2>1, AddIsZero, FieldLaws
  <2> QED BY <2>2, QuotientFacts
<1>4. ASSUME NEW i \in 1..n, NEW j \in 1..n, i # j
      PROVE  /\ Add(x[i], x[j]) \in Field /\ Add(x[i], x[j]) # 0
             /\ Add(y[i], y[j]) \in Field /\ Add(y[i], y[j]) # 0
  <2>1. x[i] \in Field /\ x[j] \in Field /\ x[i] # x[j] /\ y[i] \in Field /\ y[j] \in Field /\ y[i] # y[j]
    BY <1>2, <1>4
  <2> QED BY <2>1, AddIsZero, FieldLaws
<1>5. aug[c][c] # 0 /\ aug[c][c] = Mul(Mul(u[c], v[c]), Inv(Add(x[c], y[c])))
  <2>1. c \in c..n /\ u[c] \in Field /\ u[c] # 0 /\ v[c] \in Field /\ v[c] # 0
    BY <1>1
  <2>2. PICK k \in Field : k = Mul(u[c], v[c]) /\ k # 0
    BY <2>1, MulCommutes, QuotientFacts
  <2>3. PICK l \in Field : l = Inv(Add(x[c], y[c])) /\ l # 0
    BY <1>3
  <2>4. Mul(k, l) # 0
    BY <2>2, <2>3, QuotientFacts
  <2>5. aug[c][c] = Mul(Mul(u[c], v[c]), Inv(Add(x[c], y[c])))
    BY <1>1, <2>1
  <2> QED BY <2>2, <2>3, <2>4, <2>5
<1>6. DOMAIN aug = 1..n /\ \A r \in 1..n : DOMAIN aug[r] = 1..(2 * n)
  BY DEF Reduced, IsRow
<1>7. Eliminate(aug, c) = Cleared(Swapped(aug, c, c), c)
  <2>1. PICK pivots : pivots = {row \in DOMAIN aug : row >= c /\ aug[row][c] # 0}
    OBVIOUS
  <2>2. c \in pivots /\ pivots \in SUBSET Nat /\ \A row \in pivots : row >= c
    BY <1>5, <1>6, <2>1
  <2>3. Min(pivots) \in pivots /\ Min(pivots) <= c
    BY <2>2, LeastOf
  <2>4. Min(pivots) = c
    <3>1. PICK p \in Nat : p = Min(pivots) /\ p <= c /\ p >= c
      BY <2>2, <2>3
    <3> QED BY <3>1
  <2> QED BY <2>1, <2>2, <2>4 DEF Eliminate
<1>8. PICK old : old = Swapped(aug, c, c)
  OBVIOUS
<1>9. DOMAIN old = 1..n /\ \A r \in 1..n : old[r] = aug[r]
  BY <1>6, <1>8 DEF Swapped
<1>10. PICK new : new = Cleared(old, c)
  OBVIOUS
<1>11. PICK unit : unit = Scaled(aug[c], c)
  OBVIOUS
<1>12. \A j \in 1..(2 * n) : unit[j] = Mul(aug[c][j], Inv(aug[c][c]))
  BY <1>6, <1>11 DEF Scaled
<1>13. ASSUME NEW r \in 1..n, r # c, NEW j \in 1..(2 * n)
       PROVE  new[r][j] = Add(aug[r][j], Mul(aug[r][c], unit[j]))
  <2>1. Scaled(old[c], c) = unit
    BY <1>9, <1>11
  <2>2. new = [row \in DOMAIN old |->
                 IF row = c THEN unit
                 ELSE [k \in DOMAIN old[row] |-> Add(old[row][k], Mul(old[row][c], unit[k]))]]
    BY <1>10, <2>1 DEF Cleared
  <2>3. new[r] = [k \in DOMAIN old[r] |-> Add(old[r][k], Mul(old[r][c], unit[k]))]
    BY <1>9, <1>13, <2>2
  <2>4. old[r] = aug[r] /\ DOMAIN old[r] = 1..(2 * n)
    BY <1>6, <1>9
  <2> QED BY <2>3, <2>4
<1>14. PICK s \in [1..n -> Field] :
         \A r \in 1..n :
           s[r] = IF r = c THEN 1 ELSE Mul(u[r], Mul(Add(x[r], x[c]), Inv(Add(x[r], y[c]))))
  <2>1. ASSUME NEW r \in 1..n, r # c
        PROVE  Mul(u[r], Mul(Add(x[r], x[c]), Inv(Add(x[r], y[c])))) \in Field
    BY <1>1, <1>3, <1>4, <2>1, MulCommutes
  <2>2. PICK s : s = [r \in 1..n |-> IF r = c THEN 1 ELSE Mul(u[r], Mul(Add(x[r], x[c]), Inv(Add(x[r], y[c]))))]
    OBVIOUS
  <2>3. s \in [1..n -> Field]
    BY <2>1, <2>2, FieldFacts
  <2> QED BY <2>2, <2>3
<1>15. PICK t \in [1..n -> Field] :
         \A j \in 1..n :
           t[j] = IF j = c THEN 1 ELSE Mul(v[j], Mul(Add(y[j], y[c]), Inv(Add(x[c], y[j]))))
  <2>1. ASSUME NEW j \in 1..n, j # c
        PROVE  Mul(v[j], Mul(Add(y[j], y[c]), Inv(Add(x[c], y[j])))) \in Field
    BY <1>1, <1>3, <1>4, <2>1, MulCommutes
  <2>2. PICK t : t = [j \in 1..n |-> IF j = c THEN 1 ELSE Mul(v[j], Mul(Add(y[j], y[c]), Inv(Add(x[c], y[j]))))]
    OBVIOUS
  <2>3. t \in [1..n -> Field]
    BY <2>1, <2>2, FieldFacts
  <2> QED BY <2>2, <2>3
<1>16. ASSUME NEW r \in 1..n PROVE s[r] # 0 /\ t[r] # 0
  <2>1. CASE r = c
    BY <1>14, <1>15, <2>1, FieldFacts
  <2>2. CASE r # c
    <3>1. /\ u[r] \in Field /\ u[r] # 0 /\ v[r] \in Field /\ v[r] # 0
          /\ Add(x[r], x[c]) \in Field /\ Add(x[r], x[c]) # 0
          /\ Add(y[r], y[c]) \in Field /\ Add(y[r], y[c]) # 0
          /\ Inv(Add(x[r], y[c])) \in Field /\ Inv(Add(x[r], y[c])) # 0
          /\ Inv(Add(x[c], y[r])) \in Field /\ Inv(Add(x[c], y[r])) # 0
      BY <1>1, <1>3, <1>4, <2>2
    <3>2. PICK k \in Field : k = Mul(Add(x[r], x[c]), Inv(Add(x[r], y[c]))) /\ k # 0
      BY <3>1, MulCommutes, QuotientFacts
    <3>3. PICK l \in Field : l = Mul(Add(y[r], y[c]), Inv(Add(x[c], y[r]))) /\ l # 0
      BY <3>1, MulCommutes, QuotientFacts
    <3>4. Mul(u[r], k) # 0 /\ Mul(v[r], l) # 0
      BY <3>1, <3>2, <3>3, QuotientFacts
    <3> QED BY <1>14, <1>15, <2>2, <3>2, <3>3, <3>4
  <2> QED BY <2>1, <2>2
<1>17. ASSUME NEW r \in (c + 1)..n, NEW j \in (c + 1)..n
       PROVE  new[r][j] = Mul(Mul(s[r], t[j]), Inv(Add(x[r], y[j])))
  <2>1. /\ r \in 1..n /\ r # c /\ r \in c..n /\ j \in 1..n /\ j # c /\ j \in c..n
        /\ c \in c..n /\ j \in 1..(2 * n)
    OBVIOUS
  <2>2. PICK a \in Field : a = Add(x[r], y[j]) /\ a # 0
    BY <1>3, <2>1
  <2>3. PICK b \in Field : b = Add(x[r], y[c]) /\ b # 0
    BY <1>3, <2>1
  <2>4. PICK d \in Field : d = Add(x[c], y[j]) /\ d # 0
    BY <1>3, <2>1
  <2>5. PICK e \in Field : e = Add(x[c], y[c]) /\ e # 0
    BY <1>3
  <2>6. PICK g \in Field : g = Add(x[r], x[c])
    BY <1>4, <2>1
  <2>7. PICK h \in Field : h = Add(y[j], y[c])
    BY <1>4, <2>1
  <2>8. Add(Mul(b, d), Mul(e, a)) = Mul(g, h)
    <3>1. x[r] \in Field /\ x[c] \in Field /\ y[j] \in Field /\ y[c] \in Field
      BY <1>2, <2>1
    <3>2. \A p1, p2, q1, q2 : p1 \in Field /\ p2 \in Field /\ q1 \in Field /\ q2 \in Field =>
            Add(Mul(Add(p1, q2), Add(p2, q1)), Mul(Add(p2, q2), Add(p1, q1)))
              = Mul(Add(p1, p2), Add(q1, q2))
      BY CauchyIdentity
    <3>3. Add(Mul(Add(x[r], y[c]), Add(x[c], y[j])), Mul(Add(x[c], y[c]), Add(x[r], y[j])))
            = Mul(Add(x[r], x[c]), Add(y[j], y[c]))
      BY <3>1, <3>2
    <3> QED BY <2>2, <2>3, <2>4, <2>5, <2>6, <2>7, <3>3
  <2>9. PICK ur \in Field : ur = u[r]
    BY <2>1
  <2>10. PICK vj \in Field : vj = v[j]
    BY <2>1
  <2>11. PICK uc \in Field : uc = u[c] /\ uc # 0
    BY <1>1
  <2>12. PICK vc \in Field : vc = v[c] /\ vc # 0
    BY <1>1
  <2>13. /\ aug[r][j] = Mul(Mul(ur, vj), Inv(a))
         /\ aug[r][c] = Mul(Mul(ur, vc), Inv(b))
         /\ aug[c][j] = Mul(Mul(uc, vj), Inv(d))
         /\ aug[c][c] = Mul(Mul(uc, vc), Inv(e))
    BY <1>1, <2>1, <2>2, <2>3, <2>4, <2>5, <2>9, <2>10, <2>11, <2>12
  <2>14. new[r][j] = Add(aug[r][j], Mul(aug[r][c], Mul(aug[c][j], Inv(aug[c][c]))))
    BY <1>12, <1>13, <2>1
  <2>15. new[r][j] = Add(Mul(Mul(ur, vj), Inv(a)),
                         Mul(Mul(Mul(ur, vc), Inv(b)),
                             Mul(Mul(Mul(uc, vj), Inv(d)), Inv(Mul(Mul(uc, vc), Inv(e))))))
    BY <2>13, <2>14
  <2>16. new[r][j] = Mul(Mul(Mul(ur, Mul(g, Inv(b))), Mul(vj, Mul(h, Inv(d)))), Inv(a))
    BY <2>2, <2>3, <2>4, <2>5, <2>8, <2>11, <2>12, <2>15, CauchyEntry
  <2>17. s[r] = Mul(ur, Mul(g, Inv(b))) /\ t[j] = Mul(vj, Mul(h, Inv(d)))
    BY <1>14, <1>15, <2>1, <2>3, <2>4, <2>6, <2>7, <2>9, <2>10
  <2> QED BY <2>2, <2>16, <2>17
<1>18. CauchyBelow(new, n, c, x, y)
  BY <1>16, <1>17 DEF CauchyBelow
<1> QED BY <1>5, <1>7, <1>8, <1>10, <1>18

(* The elimination never runs out of pivots on a Cauchy matrix, and what it*)
(* returns is the inverse (decode.go:659-691).                             *)
THEOREM CauchyInverts ==
  ASSUME NEW n \in Nat \ {0}, NEW m, NEW x, NEW y, IsCauchy(m, n, x, y)
  PROVE  InvertMatrix(m) # <<>> /\ Inverts(InvertMatrix(m), m, n)
<1>1. m \in Matrices(n) /\ Len(m) = n
  BY UnitRows DEF IsCauchy
<1>2. PICK f : /\ Columns(f, m, n)
               /\ InvertMatrix(m) = [row \in DOMAIN f[n] |-> [c \in 1..n |-> f[n][row][n + c]]]
  BY <1>1, InverseIsLast
<1> DEFINE S == {k \in 0..n : Reduced(f[k], m, n, k) /\ CauchyBelow(f[k], n, k, x, y)}
<1>3. 0 \in S
  <2>1. PICK k \in 0..n : k = 0
    OBVIOUS
  <2>2. f[k] = WithUnit(m) /\ 1..k = {}
    BY <1>2, <2>1 DEF Columns
  <2>3. DOMAIN f[k] = 1..n /\ \A r \in 1..n : IsRow(f[k][r], m, n)
    BY <1>1, <2>2, UnitRows
  <2>4. Reduced(f[k], m, n, k)
    BY <2>2, <2>3 DEF Reduced
  <2>5. CauchyBelow(f[k], n, k, x, y)
    BY <2>1, <2>2, CauchyStarts
  <2> QED BY <2>1, <2>4, <2>5
<1>4. ASSUME NEW k \in S, k < n PROVE k + 1 \in S
  <2>1. PICK c \in 1..n : c = k + 1 /\ c - 1 = k
    BY <1>4
  <2>2. PICK aug : aug = f[k]
    OBVIOUS
  <2>3. Reduced(aug, m, n, c - 1) /\ CauchyBelow(aug, n, c - 1, x, y)
    BY <2>1, <2>2
  <2>4. f[c] = Eliminate(aug, c)
    BY <1>2, <2>1, <2>2 DEF Columns
  <2>5. CauchyBelow(Eliminate(aug, c), n, c, x, y)
    BY <2>3, CauchyEliminates
  <2>6. Eliminate(aug, c) # <<>>
    <3>1. aug[c][c] # 0 /\ DOMAIN aug = 1..n
      BY <2>3, CauchyEliminates DEF Reduced
    <3>2. PICK pivots : pivots = {row \in DOMAIN aug : row >= c /\ aug[row][c] # 0}
      OBVIOUS
    <3>3. c \in pivots
      BY <3>1, <3>2
    <3>4. Eliminate(aug, c) = Cleared(Swapped(aug, c, c), c)
      BY <2>3, CauchyEliminates
    <3>5. DOMAIN Cleared(Swapped(aug, c, c), c) = 1..n
      BY <3>1 DEF Cleared, Swapped
    <3> QED BY <3>4, <3>5
  <2>7. Reduced(Eliminate(aug, c), m, n, c)
    BY <1>1, <2>3, <2>6, EliminateReduces
  <2> QED BY <2>1, <2>4, <2>5, <2>7
<1>5. Reduced(f[n], m, n, n)
  <2>1. S \in SUBSET (0..n) /\ n \in 0..n
    OBVIOUS
  <2>2. n \in S
    <3> HIDE DEF S
    <3> QED BY <1>3, <1>4, <2>1, InductionFromZero
  <2> QED BY <2>2
<1>6. DOMAIN InvertMatrix(m) = 1..n
  BY <1>2, <1>5 DEF Reduced
<1>7. InvertMatrix(m) # <<>>
  BY <1>6
<1> QED BY <1>1, <1>7, InvertMatrixInverts

-----------------------------------------------------------------------------
(* The systems of the codec *)

(* What a configuration and the files are known to be.                     *)
LEMMA ConfigFacts ==
  ASSUME NEW c \in Configs
  PROVE  /\ c.PayloadSize \in Nat \ {0} /\ c.DataFramesPerBlock \in Nat \ {0}
         /\ c.RescueFramesPerBlock \in Nat
         /\ c.DataFramesPerBlock + c.RescueFramesPerBlock < Order
         /\ \A file \in Files : file \in Seq(Field) /\ PlanAccepts(Len(file), c)
<1>1. Valid(c) /\ MaxBlockFrames < Order
  BY CodecAssumption
<1>2. MaxUint16 \in Nat /\ MaxBlockFrames \in Nat /\ Order \in Nat
  BY LimitsAssumption, FieldAssumption
<1>3. \A file \in Files : file \in Seq(Field) /\ PlanAccepts(Len(file), c)
  BY CodecAssumption
<1> QED BY <1>1, <1>2, <1>3 DEF Valid

(* The points of the rescue frames and of the slots of a block.             *)
RescuePoint(r) == r + 1
SlotPoint(s, R) == R + s + 1

(* The points of the rescue frames and of the slots are elements of the    *)
(* field that differ, as a block is smaller than the field                 *)
(* (config.go:49-66).                                                      *)
LEMMA PointFacts ==
  ASSUME cfg \in Configs, NEW K \in Nat, K = cfg.DataFramesPerBlock,
         NEW R \in Nat, R = cfg.RescueFramesPerBlock
  PROVE  /\ \A r \in 0..(R - 1) : RescuePoint(r) \in Field
         /\ \A s \in 0..(K - 1) : SlotPoint(s, R) \in Field
         /\ \A r \in 0..(R - 1) : \A s \in 0..(K - 1) :
              /\ RescuePoint(r) # SlotPoint(s, R)
              /\ Coefficient(r, s) = Inv(Add(RescuePoint(r), SlotPoint(s, R)))
              /\ Coefficient(r, s) \in Field
<1>1. K + R < Order /\ Order \in Nat
  BY ConfigFacts, FieldAssumption
<1>2. \A r \in 0..(R - 1) : RescuePoint(r) \in Field
  BY <1>1 DEF RescuePoint, Field
<1>3. \A s \in 0..(K - 1) : SlotPoint(s, R) \in Field
  BY <1>1 DEF SlotPoint, Field
<1>4. ASSUME NEW r \in 0..(R - 1), NEW s \in 0..(K - 1)
      PROVE  /\ RescuePoint(r) # SlotPoint(s, R)
             /\ Coefficient(r, s) = Inv(Add(RescuePoint(r), SlotPoint(s, R)))
             /\ Coefficient(r, s) \in Field
  <2>1. RescuePoint(r) # SlotPoint(s, R)
    BY DEF RescuePoint, SlotPoint
  <2>2. Coefficient(r, s) = Inv(Add(RescuePoint(r), SlotPoint(s, R)))
    BY DEF Coefficient, RescueCoefficient, RescuePoint, SlotPoint
  <2>3. RescuePoint(r) \in Field /\ SlotPoint(s, R) \in Field
    BY <1>2, <1>3
  <2>4. Add(RescuePoint(r), SlotPoint(s, R)) \in Field
    BY <2>3, FieldLaws
  <2> QED BY <2>1, <2>2, <2>4, FieldLaws
<1> QED BY <1>2, <1>3, <1>4

(* n different numbers below m. *)
Picks(seq, n, m) ==
  /\ seq \in [1..n -> 0..(m - 1)]
  /\ \A i, j \in 1..n : i # j => seq[i] # seq[j]

(* The coefficients of any missing frames of a block and as many of its    *)
(* rescue frames make a Cauchy matrix (coefficients.go:40-50).             *)
THEOREM SystemIsCauchy ==
  ASSUME cfg \in Configs, NEW n \in Nat, NEW slots, NEW used,
         Picks(slots, n, cfg.DataFramesPerBlock), Picks(used, n, cfg.RescueFramesPerBlock)
  PROVE  /\ \E x, y : IsCauchy(SystemOf(slots, used), n, x, y)
         /\ SystemOf(slots, used) \in Matrices(n)
         /\ \A q, c \in 1..n : SystemOf(slots, used)[q][c] = Coefficient(used[q], slots[c])
<1>1. PICK K \in Nat : K = cfg.DataFramesPerBlock
  BY ConfigFacts
<1>2. PICK R \in Nat : R = cfg.RescueFramesPerBlock
  BY ConfigFacts
<1>3. /\ slots \in [1..n -> 0..(K - 1)] /\ used \in [1..n -> 0..(R - 1)]
      /\ \A i, j \in 1..n : i # j => slots[i] # slots[j] /\ used[i] # used[j]
  BY <1>1, <1>2 DEF Picks
<1>4. PICK x : x = [i \in 1..n |-> RescuePoint(used[i])]
  OBVIOUS
<1>5. PICK y : y = [i \in 1..n |-> SlotPoint(slots[i], R)]
  OBVIOUS
<1>6. PICK m : m = SystemOf(slots, used)
  OBVIOUS
<1>7. m = [q \in 1..n |-> [c \in 1..n |-> Coefficient(used[q], slots[c])]]
  BY <1>3, <1>6 DEF SystemOf
<1>8. ASSUME NEW i \in 1..n, NEW j \in 1..n
      PROVE  /\ x[i] \in Field /\ y[i] \in Field /\ x[i] # y[j]
             /\ i # j => x[i] # x[j] /\ y[i] # y[j]
             /\ m[i][j] = Inv(Add(x[i], y[j])) /\ m[i][j] \in Field
             /\ m[i][j] = Coefficient(used[i], slots[j])
  <2>1. /\ used[i] \in 0..(R - 1) /\ slots[i] \in 0..(K - 1) /\ slots[j] \in 0..(K - 1)
        /\ used[j] \in 0..(R - 1) /\ (i # j => slots[i] # slots[j] /\ used[i] # used[j])
    BY <1>3
  <2>2. /\ x[i] = RescuePoint(used[i]) /\ y[j] = SlotPoint(slots[j], R)
        /\ x[j] = RescuePoint(used[j]) /\ y[i] = SlotPoint(slots[i], R)
    BY <1>4, <1>5
  <2>3. m[i][j] = Coefficient(used[i], slots[j])
    BY <1>7
  <2>4. /\ RescuePoint(used[i]) \in Field /\ SlotPoint(slots[i], R) \in Field
        /\ RescuePoint(used[i]) # SlotPoint(slots[j], R)
        /\ Coefficient(used[i], slots[j]) = Inv(Add(RescuePoint(used[i]), SlotPoint(slots[j], R)))
        /\ Coefficient(used[i], slots[j]) \in Field
    BY <1>1, <1>2, <2>1, PointFacts
  <2>5. i # j => /\ RescuePoint(used[i]) # RescuePoint(used[j])
                 /\ SlotPoint(slots[i], R) # SlotPoint(slots[j], R)
    BY <1>2, <2>1 DEF RescuePoint, SlotPoint
  <2> QED BY <2>2, <2>3, <2>4, <2>5
<1>9. m \in Matrices(n)
  <2>1. \A q, c \in 1..n : Coefficient(used[q], slots[c]) \in Field
    BY <1>8
  <2> QED BY <1>7, <2>1 DEF Matrices
<1>10. x \in [1..n -> Field] /\ y \in [1..n -> Field]
  BY <1>4, <1>5, <1>8
<1>11. IsCauchy(m, n, x, y)
  BY <1>8, <1>9, <1>10 DEF IsCauchy
<1> QED BY <1>6, <1>8, <1>9, <1>11

(* Dividing by its only entry inverts a system of one frame.               *)
LEMMA ReciprocalInverts ==
  ASSUME NEW m, NEW x, NEW y, IsCauchy(m, 1, x, y)
  PROVE  Inverts(Reciprocal(m), m, 1)
<1>1. PICK n \in Nat : n = 1
  OBVIOUS
<1>2. m \in Matrices(n) /\ IsCauchy(m, n, x, y) /\ 1 \in 1..n /\ \A i \in 1..n : i = 1
  BY <1>1 DEF IsCauchy
<1>3. PICK a \in Field : a = m[1][1] /\ a # 0
  <2>1. m[1][1] = Inv(Add(x[1], y[1])) /\ x[1] \in Field /\ y[1] \in Field /\ x[1] # y[1]
    BY <1>2 DEF IsCauchy
  <2>2. Add(x[1], y[1]) \in Field /\ Add(x[1], y[1]) # 0
    BY <2>1, AddIsZero, FieldLaws
  <2> QED BY <2>1, <2>2, QuotientFacts
<1>4. PICK inverse : inverse = Reciprocal(m)
  OBVIOUS
<1>5. inverse = [i \in 1..n |-> [j \in 1..n |-> Inv(a)]]
  BY <1>1, <1>3, <1>4 DEF Reciprocal
<1>6. Inv(a) \in Field /\ Mul(Inv(a), a) = 1
  BY <1>3, QuotientFacts, MulCommutes
<1>7. inverse \in Matrices(n)
  BY <1>5, <1>6 DEF Matrices
<1>8. SumOf([k \in 1..n |-> Mul(inverse[1][k], m[k][1])]) = 1
  <2>1. PICK terms : terms = [k \in 1..n |-> Mul(inverse[1][k], m[k][1])]
    OBVIOUS
  <2>2. \A k \in 1..n : terms[k] = 1
    BY <1>2, <1>3, <1>5, <1>6, <2>1
  <2>3. terms \in [1..n -> Field]
    BY <2>1, <2>2, FieldFacts
  <2>4. \A k \in 1..n : k # 1 => terms[k] = 0
    BY <1>2
  <2>5. SumOf(terms) = terms[1]
    BY <1>2, <2>3, <2>4, SumPicks
  <2> QED BY <1>2, <2>1, <2>2, <2>5
<1>9. Inverts(inverse, m, n)
  BY <1>2, <1>7, <1>8 DEF Inverts
<1> QED BY <1>1, <1>4, <1>9

(* The sum of a sequence of two.                                           *)
LEMMA SumOfTwo ==
  ASSUME NEW n \in Nat, n = 2, NEW a \in [1..n -> Field]
  PROVE  SumOf(a) = Add(a[1], a[2])
<1>1. PICK f : SumsUp(f, a, n) /\ SumOf(a) = f[n]
  BY SumHasPrefixes
<1>2. a[1] \in Field /\ f[0] = 0 /\ f[1] = Add(f[0], a[1]) /\ f[2] = Add(f[1], a[2])
  <2>1. 1 \in 1..n /\ 2 \in 1..n /\ 1 - 1 = 0 /\ 2 - 1 = 1
    OBVIOUS
  <2> QED BY <1>1, <2>1 DEF SumsUp
<1> QED BY <1>1, <1>2, FieldFacts

(* The determinant of a Cauchy matrix of two rows is not 0.                 *)
LEMMA CauchyDeterminant ==
  ASSUME NEW n \in Nat, n = 2, NEW m, NEW x, NEW y, IsCauchy(m, n, x, y)
  PROVE  /\ m[1][1] \in Field /\ m[1][2] \in Field /\ m[2][1] \in Field /\ m[2][2] \in Field
         /\ Add(Mul(m[1][1], m[2][2]), Mul(m[2][1], m[1][2])) \in Field
         /\ Add(Mul(m[1][1], m[2][2]), Mul(m[2][1], m[1][2])) # 0
<1>1. /\ x[1] \in Field /\ x[2] \in Field /\ y[1] \in Field /\ y[2] \in Field
      /\ x[1] # x[2] /\ y[1] # y[2] /\ x[1] # y[1] /\ x[1] # y[2] /\ x[2] # y[1] /\ x[2] # y[2]
      /\ m[1][1] = Inv(Add(x[1], y[1])) /\ m[1][2] = Inv(Add(x[1], y[2]))
      /\ m[2][1] = Inv(Add(x[2], y[1])) /\ m[2][2] = Inv(Add(x[2], y[2]))
  <2>1. 1 \in 1..n /\ 2 \in 1..n /\ 1 # 2
    OBVIOUS
  <2> QED BY <2>1 DEF IsCauchy
<1>16. ASSUME NEW p, NEW q, p \in Field, q \in Field, p # q
       PROVE  Add(p, q) \in Field /\ Add(p, q) # 0
  BY <1>16, AddIsZero, FieldLaws
<1>2. PICK a \in Field : a = Add(x[1], y[1]) /\ a # 0
  BY <1>1, <1>16
<1>3. PICK b \in Field : b = Add(x[1], y[2]) /\ b # 0
  BY <1>1, <1>16
<1>4. PICK c \in Field : c = Add(x[2], y[1]) /\ c # 0
  BY <1>1, <1>16
<1>5. PICK d \in Field : d = Add(x[2], y[2]) /\ d # 0
  BY <1>1, <1>16
<1>6. PICK g \in Field : g = Add(x[1], x[2]) /\ g # 0
  BY <1>1, <1>16
<1>7. PICK h \in Field : h = Add(y[1], y[2]) /\ h # 0
  BY <1>1, <1>16
<1>8. Add(Mul(b, c), Mul(d, a)) = Mul(g, h) /\ Mul(g, h) # 0
  <2>1. Add(Mul(Add(x[1], y[2]), Add(x[2], y[1])), Mul(Add(x[2], y[2]), Add(x[1], y[1])))
          = Mul(Add(x[1], x[2]), Add(y[1], y[2]))
    <3>1. \A p1, p2, q1, q2 : p1 \in Field /\ p2 \in Field /\ q1 \in Field /\ q2 \in Field =>
            Add(Mul(Add(p1, q2), Add(p2, q1)), Mul(Add(p2, q2), Add(p1, q1)))
              = Mul(Add(p1, p2), Add(q1, q2))
      BY CauchyIdentity
    <3> QED BY <1>1, <3>1
  <2>2. Mul(g, h) # 0
    BY <1>6, <1>7, QuotientFacts
  <2> QED BY <1>2, <1>3, <1>4, <1>5, <1>6, <1>7, <2>1, <2>2
<1>9. /\ Mul(a, d) \in Field /\ Mul(a, d) # 0 /\ Mul(c, b) \in Field /\ Mul(c, b) # 0
      /\ Mul(Inv(a), Inv(d)) = Inv(Mul(a, d)) /\ Mul(Inv(c), Inv(b)) = Inv(Mul(c, b))
      /\ Mul(b, c) = Mul(c, b) /\ Mul(d, a) = Mul(a, d)
  BY <1>2, <1>3, <1>4, <1>5, InverseOfProduct, QuotientFacts, MulCommutes
<1>10. PICK p \in Field : p = Mul(a, d) /\ p # 0
  BY <1>9
<1>11. PICK q \in Field : q = Mul(c, b) /\ q # 0
  BY <1>9
<1>12. Inv(p) \in Field /\ Inv(q) \in Field /\ Add(Inv(p), Inv(q)) \in Field
  BY <1>10, <1>11, FieldLaws
<1>13. Add(Inv(p), Inv(q)) # 0
  <2>1. ASSUME Add(Inv(p), Inv(q)) = 0 PROVE FALSE
    <3>1. Inv(p) = Inv(q)
      BY <1>12, <2>1, AddIsZero
    <3>2. Inv(Inv(p)) = p /\ Inv(Inv(q)) = q
      BY <1>10, <1>11, InverseOfProduct
    <3>3. p = q
      BY <3>1, <3>2
    <3>4. Add(q, p) = 0
      BY <1>11, <3>3, FieldFacts
    <3> QED BY <1>8, <1>9, <1>10, <1>11, <3>4
  <2> QED BY <2>1
<1>14. m[1][1] = Inv(a) /\ m[1][2] = Inv(b) /\ m[2][1] = Inv(c) /\ m[2][2] = Inv(d)
  BY <1>1, <1>2, <1>3, <1>4, <1>5
<1>15. Inv(a) \in Field /\ Inv(b) \in Field /\ Inv(c) \in Field /\ Inv(d) \in Field
  BY <1>2, <1>3, <1>4, <1>5, FieldLaws
<1> QED BY <1>9, <1>10, <1>11, <1>12, <1>13, <1>14, <1>15

(* Cramer's rule inverts every Cauchy system of two frames                 *)
(* (decode.go:490-528).                                                    *)
THEOREM CramerInverts ==
  ASSUME NEW n \in Nat, n = 2, NEW m, NEW x, NEW y, IsCauchy(m, n, x, y)
  PROVE  Inverts(Cramer(m), m, n)
<1>1. PICK a \in Field : a = m[1][1]
  BY CauchyDeterminant
<1>2. PICK b \in Field : b = m[1][2]
  BY CauchyDeterminant
<1>3. PICK c \in Field : c = m[2][1]
  BY CauchyDeterminant
<1>4. PICK d \in Field : d = m[2][2]
  BY CauchyDeterminant
<1>5. PICK det \in Field : det = Add(Mul(a, d), Mul(c, b)) /\ det # 0
  BY <1>1, <1>2, <1>3, <1>4, CauchyDeterminant
<1>6. PICK e \in Field : e = Inv(det) /\ Mul(e, det) = 1
  BY <1>5, QuotientFacts, MulCommutes
<1>7. PICK inverse : inverse = Cramer(m)
  OBVIOUS
<1>8. PICK adjugate : adjugate = <<<<d, b>>, <<c, a>>>>
  OBVIOUS
<1>9. inverse = [i \in 1..2 |-> [q \in 1..2 |-> Mul(e, adjugate[i][q])]]
  BY <1>1, <1>2, <1>3, <1>4, <1>5, <1>6, <1>7, <1>8 DEF Cramer
<1>10. /\ inverse[1][1] = Mul(e, d) /\ inverse[1][2] = Mul(e, b)
       /\ inverse[2][1] = Mul(e, c) /\ inverse[2][2] = Mul(e, a)
  <2>1. /\ adjugate[1][1] = d /\ adjugate[1][2] = b
        /\ adjugate[2][1] = c /\ adjugate[2][2] = a
    BY <1>8
  <2>2. 1 \in 1..2 /\ 2 \in 1..2
    OBVIOUS
  <2> QED BY <1>9, <2>1, <2>2
<1>11. inverse \in Matrices(n)
  <2>1. \A i, q \in 1..2 : Mul(e, adjugate[i][q]) \in Field
    <3>1. \A i, q \in 1..2 : adjugate[i][q] \in Field
      <4>1. \A i \in 1..2 : i = 1 \/ i = 2
        OBVIOUS
      <4> QED BY <1>8, <4>1
    <3> QED BY <3>1, MulCommutes
  <2> QED BY <1>9, <2>1 DEF Matrices
<1>12. ASSUME NEW i \in 1..n, NEW j \in 1..n
       PROVE  SumOf([k \in 1..n |-> Mul(inverse[i][k], m[k][j])])
                = Add(Mul(inverse[i][1], m[1][j]), Mul(inverse[i][2], m[2][j]))
  <2>1. PICK terms : terms = [k \in 1..n |-> Mul(inverse[i][k], m[k][j])]
    OBVIOUS
  <2>2. \A k \in 1..n : terms[k] \in Field
    <3>1. \A k \in 1..n : inverse[i][k] \in Field /\ m[k][j] \in Field
      BY <1>11 DEF IsCauchy, Matrices
    <3> QED BY <2>1, <3>1, MulCommutes
  <2>3. terms \in [1..n -> Field]
    BY <2>1, <2>2
  <2>4. SumOf(terms) = Add(terms[1], terms[2])
    BY <2>3, SumOfTwo
  <2>5. 1 \in 1..n /\ 2 \in 1..n
    OBVIOUS
  <2> QED BY <2>1, <2>4, <2>5
<1>13. ASSUME NEW s, NEW t, NEW u, NEW v, s \in Field, t \in Field, u \in Field, v \in Field
       PROVE  Add(Mul(Mul(e, s), u), Mul(Mul(e, t), v)) = Mul(e, Add(Mul(s, u), Mul(t, v)))
  <2>1. Mul(Mul(e, s), u) = Mul(e, Mul(s, u)) /\ Mul(Mul(e, t), v) = Mul(e, Mul(t, v))
    BY <1>13, MulAssociates
  <2>2. PICK p \in Field : p = Mul(s, u)
    BY <1>13, MulCommutes
  <2>3. PICK q \in Field : q = Mul(t, v)
    BY <1>13, MulCommutes
  <2>4. Mul(e, Add(p, q)) = Add(Mul(e, p), Mul(e, q))
    BY FieldLaws
  <2> QED BY <2>1, <2>2, <2>3, <2>4
<1>14. Add(Mul(d, a), Mul(b, c)) = det /\ Add(Mul(c, b), Mul(a, d)) = det
  <2>1. PICK p \in Field : p = Mul(a, d) /\ p = Mul(d, a)
    BY MulCommutes
  <2>2. PICK q \in Field : q = Mul(c, b) /\ q = Mul(b, c)
    BY MulCommutes
  <2>3. det = Add(p, q) /\ Add(q, p) = Add(p, q)
    BY <1>5, <2>1, <2>2, FieldLaws
  <2> QED BY <2>1, <2>2, <2>3
<1>15. Add(Mul(d, b), Mul(b, d)) = 0 /\ Add(Mul(c, a), Mul(a, c)) = 0
  <2>1. PICK p \in Field : p = Mul(d, b) /\ p = Mul(b, d)
    BY MulCommutes
  <2>2. PICK q \in Field : q = Mul(c, a) /\ q = Mul(a, c)
    BY MulCommutes
  <2>3. Add(p, p) = 0 /\ Add(q, q) = 0
    BY FieldFacts
  <2> QED BY <2>1, <2>2, <2>3
<1>16. Mul(e, 0) = 0
  BY FieldFacts
<1>17. Add(Mul(inverse[1][1], m[1][1]), Mul(inverse[1][2], m[2][1])) = 1
  <2>1. Add(Mul(Mul(e, d), a), Mul(Mul(e, b), c)) = Mul(e, Add(Mul(d, a), Mul(b, c)))
    BY <1>13
  <2> QED BY <1>1, <1>3, <1>6, <1>10, <1>14, <2>1
<1>18. Add(Mul(inverse[1][1], m[1][2]), Mul(inverse[1][2], m[2][2])) = 0
  <2>1. Add(Mul(Mul(e, d), b), Mul(Mul(e, b), d)) = Mul(e, Add(Mul(d, b), Mul(b, d)))
    BY <1>13
  <2> QED BY <1>2, <1>4, <1>10, <1>15, <1>16, <2>1
<1>19. Add(Mul(inverse[2][1], m[1][1]), Mul(inverse[2][2], m[2][1])) = 0
  <2>1. Add(Mul(Mul(e, c), a), Mul(Mul(e, a), c)) = Mul(e, Add(Mul(c, a), Mul(a, c)))
    BY <1>13
  <2> QED BY <1>1, <1>3, <1>10, <1>15, <1>16, <2>1
<1>20. Add(Mul(inverse[2][1], m[1][2]), Mul(inverse[2][2], m[2][2])) = 1
  <2>1. Add(Mul(Mul(e, c), b), Mul(Mul(e, a), d)) = Mul(e, Add(Mul(c, b), Mul(a, d)))
    BY <1>13
  <2> QED BY <1>2, <1>4, <1>6, <1>10, <1>14, <2>1
<1>21. ASSUME NEW i \in 1..n, NEW j \in 1..n
       PROVE  SumOf([k \in 1..n |-> Mul(inverse[i][k], m[k][j])]) = IF i = j THEN 1 ELSE 0
  <2>1. CASE i = 1 /\ j = 1
    BY <1>12, <1>17, <2>1
  <2>2. CASE i = 1 /\ j = 2
    BY <1>12, <1>18, <2>2
  <2>3. CASE i = 2 /\ j = 1
    BY <1>12, <1>19, <2>3
  <2>4. CASE i = 2 /\ j = 2
    BY <1>12, <1>20, <2>4
  <2> QED BY <2>1, <2>2, <2>3, <2>4
<1> QED BY <1>7, <1>11, <1>21 DEF Inverts

-----------------------------------------------------------------------------
(* The kept matrices *)

(* The missing slots and the rescue frames of a repair. *)
IsKey(slots, used, n) ==
  Picks(slots, n, cfg.DataFramesPerBlock) /\ Picks(used, n, cfg.RescueFramesPerBlock)

IsCache(inverses) ==
  /\ IsFiniteSet(DOMAIN inverses) /\ Cardinality(DOMAIN inverses) <= CacheLimit
  /\ \A key \in DOMAIN inverses :
       \E n \in Nat : /\ IsKey(key[1], key[2], n)
                      /\ Inverts(inverses[key], SystemOf(key[1], key[2]), n)

(* A new inverse is kept, and the cache stays within its limit.            *)
LEMMA RememberKeepsCache ==
  ASSUME NEW inverses, IsCache(inverses), NEW slots, NEW used, NEW n \in Nat,
         IsKey(slots, used, n), NEW key, key = InverseCacheKey(slots, used),
         key \notin DOMAIN inverses,
         NEW inverse, Inverts(inverse, SystemOf(slots, used), n)
  PROVE  /\ IsCache(Remember(inverses, key, inverse))
         /\ key \in DOMAIN Remember(inverses, key, inverse)
         /\ Remember(inverses, key, inverse)[key] = inverse
<1>1. PICK limit \in Nat \ {0} : limit = CacheLimit
  BY CodecAssumption
<1>2. PICK count \in Nat : count = Cardinality(DOMAIN inverses)
  BY FS_CardinalityType DEF IsCache
<1>3. PICK old : old = IF count >= limit THEN <<>> ELSE inverses
  OBVIOUS
<1>4. PICK new : new = With(old, key, inverse)
  OBVIOUS
<1>5. new = Remember(inverses, key, inverse)
  BY <1>1, <1>2, <1>3, <1>4 DEF Remember
<1>6. DOMAIN new = DOMAIN old \cup {key}
  BY <1>4 DEF With
<1>7. new[key] = inverse /\ \A k \in DOMAIN old : k # key => new[k] = old[k]
  BY <1>4 DEF With
<1>8. key[1] = slots /\ key[2] = used
  BY DEF InverseCacheKey
<1>9. /\ IsFiniteSet(DOMAIN old) /\ Cardinality(DOMAIN old) \in Nat
      /\ Cardinality(DOMAIN old) < limit /\ key \notin DOMAIN old
  <2>1. CASE count >= limit
    <3>1. DOMAIN old = {}
      BY <1>3, <2>1
    <3> QED BY <1>1, <3>1, FS_EmptySet
  <2>2. CASE count < limit
    <3>1. old = inverses /\ IsFiniteSet(DOMAIN inverses)
      BY <1>3, <2>2 DEF IsCache
    <3> QED BY <1>2, <2>2, <3>1
  <2> QED BY <2>1, <2>2
<1>10. \A k \in DOMAIN old :
         \E l \in Nat : /\ IsKey(k[1], k[2], l)
                        /\ Inverts(old[k], SystemOf(k[1], k[2]), l)
  <2>1. CASE count >= limit
    BY <1>3, <2>1
  <2>2. CASE count < limit
    BY <1>3, <2>2 DEF IsCache
  <2> QED BY <2>1, <2>2
<1>11. IsFiniteSet(DOMAIN new) /\ Cardinality(DOMAIN new) <= CacheLimit
  <2>1. PICK size \in Nat : size = Cardinality(DOMAIN old) /\ size < limit
    BY <1>9
  <2>2. /\ IsFiniteSet(DOMAIN old \cup {key})
        /\ Cardinality(DOMAIN old \cup {key}) = Cardinality(DOMAIN old) + 1
    BY <1>9, FS_AddElement
  <2> QED BY <1>1, <1>6, <2>1, <2>2
<1>12. ASSUME NEW k \in DOMAIN new
       PROVE  \E l \in Nat : /\ IsKey(k[1], k[2], l)
                             /\ Inverts(new[k], SystemOf(k[1], k[2]), l)
  <2>1. CASE k = key
    BY <1>7, <1>8, <2>1
  <2>2. CASE k # key
    <3>1. k \in DOMAIN old /\ new[k] = old[k]
      BY <1>6, <1>7, <2>2
    <3> QED BY <1>10, <3>1
  <2> QED BY <2>1, <2>2
<1>13. IsCache(new)
  BY <1>11, <1>12 DEF IsCache
<1> QED BY <1>5, <1>6, <1>7, <1>13

(* The three ways to solve a system find its inverse, and what is kept      *)
(* stays right.                                                            *)
LEMMA InverseWorks ==
  ASSUME cfg \in Configs, NEW inverses, IsCache(inverses),
         NEW n \in Nat \ {0}, NEW slots, NEW used, IsKey(slots, used, n),
         NEW after, after = IF Len(slots) < 3 THEN inverses
                            ELSE WithInverse(inverses, slots, used)
  PROVE  /\ IsCache(after)
         /\ Inverts(InverseOf(after, slots, used), SystemOf(slots, used), n)
<1>1. PICK m : m = SystemOf(slots, used)
  OBVIOUS
<1>2. PICK x, y : IsCauchy(m, n, x, y)
  BY <1>1, SystemIsCauchy DEF IsKey
<1>3. Len(slots) = n
  BY DEF IsKey, Picks
<1>4. CASE n = 1
  <2>1. after = inverses /\ InverseOf(after, slots, used) = Reciprocal(m)
    BY <1>1, <1>3, <1>4 DEF InverseOf
  <2>2. Inverts(Reciprocal(m), m, 1)
    BY <1>2, <1>4, ReciprocalInverts
  <2> QED BY <1>1, <1>4, <2>1, <2>2
<1>5. CASE n = 2
  <2>1. after = inverses /\ InverseOf(after, slots, used) = Cramer(m)
    BY <1>1, <1>3, <1>5 DEF InverseOf
  <2>2. Inverts(Cramer(m), m, n)
    BY <1>2, <1>5, CramerInverts
  <2> QED BY <1>1, <2>1, <2>2
<1>6. CASE n >= 3
  <2>1. PICK key : key = InverseCacheKey(slots, used)
    OBVIOUS
  <2>2. after = WithInverse(inverses, slots, used)
    BY <1>3, <1>6
  <2>3. key \in DOMAIN after => InverseOf(after, slots, used) = after[key]
    BY <1>3, <1>6, <2>1 DEF InverseOf
  <2>4. CASE key \in DOMAIN inverses
    <3>1. after = inverses
      BY <2>1, <2>2, <2>4 DEF WithInverse
    <3>2. PICK l \in Nat : IsKey(key[1], key[2], l) /\ Inverts(inverses[key], SystemOf(key[1], key[2]), l)
      BY <2>4 DEF IsCache
    <3>3. key[1] = slots /\ key[2] = used
      BY <2>1 DEF InverseCacheKey
    <3>4. l = n
      <4>1. Len(key[1]) = l
        BY <3>2 DEF IsKey, Picks
      <4> QED BY <1>3, <3>3, <4>1
    <3> QED BY <1>1, <2>3, <2>4, <3>1, <3>2, <3>3, <3>4
  <2>5. CASE key \notin DOMAIN inverses
    <3>1. PICK inverse : inverse = InvertMatrix(m)
      OBVIOUS
    <3>2. inverse # <<>> /\ Inverts(inverse, m, n)
      BY <1>2, <3>1, CauchyInverts
    <3>3. after = Remember(inverses, key, inverse)
      BY <1>1, <2>1, <2>2, <2>5, <3>1, <3>2 DEF WithInverse
    <3>4. IsCache(after) /\ key \in DOMAIN after /\ after[key] = inverse
      BY <1>1, <2>1, <2>5, <3>2, <3>3, RememberKeepsCache
    <3> QED BY <1>1, <2>3, <3>2, <3>4
  <2> QED BY <2>4, <2>5
<1> QED BY <1>4, <1>5, <1>6

Dot(row, x, n) == SumOf([d \in 1..n |-> Mul(row[d], x[d])])

Products(m, x, n) == [q \in 1..n |-> Dot(m[q], x, n)]

(* What an inverse makes of the products of a matrix are its factors.       *)
LEMMA InverseSolves ==
  ASSUME NEW n \in Nat, NEW m \in Matrices(n), NEW inverse, Inverts(inverse, m, n),
         NEW x \in [1..n -> Field], NEW b,
         b = Products(m, x, n), NEW c \in 1..n
  PROVE  Dot(inverse[c], b, n) = x[c]
<1>13. b = [q \in 1..n |-> SumOf([d \in 1..n |-> Mul(m[q][d], x[d])])]
  BY DEF Products, Dot
<1>1. /\ \A q, d \in 1..n : m[q][d] \in Field /\ inverse[q][d] \in Field /\ x[d] \in Field
      /\ \A j \in 1..n : SumOf([k \in 1..n |-> Mul(inverse[c][k], m[k][j])])
                           = IF c = j THEN 1 ELSE 0
  BY DEF Inverts, Matrices
<1>2. ASSUME NEW q \in 1..n, NEW d \in 1..n
      PROVE  Mul(m[q][d], x[d]) \in Field /\ Mul(inverse[c][q], Mul(m[q][d], x[d])) \in Field
  <2>1. m[q][d] \in Field /\ x[d] \in Field /\ inverse[c][q] \in Field
    BY <1>1
  <2>2. Mul(m[q][d], x[d]) \in Field
    BY <2>1, MulCommutes
  <2> QED BY <2>1, <2>2, MulCommutes
<1>3. PICK g : g = [p \in (1..n) \X (1..n) |-> Mul(inverse[c][p[1]], Mul(m[p[1]][p[2]], x[p[2]]))]
  OBVIOUS
<1>4. /\ \A q, d \in 1..n : g[<<q, d>>] = Mul(inverse[c][q], Mul(m[q][d], x[d]))
      /\ g \in [(1..n) \X (1..n) -> Field]
  <2>1. \A q, d \in 1..n : <<q, d>> \in (1..n) \X (1..n) /\ <<q, d>>[1] = q /\ <<q, d>>[2] = d
    OBVIOUS
  <2>2. \A q, d \in 1..n : g[<<q, d>>] = Mul(inverse[c][q], Mul(m[q][d], x[d]))
    BY <1>3, <2>1
  <2>3. \A p \in (1..n) \X (1..n) : Mul(inverse[c][p[1]], Mul(m[p[1]][p[2]], x[p[2]])) \in Field
    BY <1>2
  <2> QED BY <1>3, <2>2, <2>3
<1>5. \A q \in 1..n : Mul(inverse[c][q], b[q]) = SumOf([d \in 1..n |-> g[<<q, d>>]])
  <2>1. SUFFICES ASSUME NEW q \in 1..n
                 PROVE  Mul(inverse[c][q], b[q]) = SumOf([d \in 1..n |-> g[<<q, d>>]])
    OBVIOUS
  <2>2. PICK a : a = [d \in 1..n |-> Mul(m[q][d], x[d])]
    OBVIOUS
  <2>3. a \in [1..n -> Field] /\ inverse[c][q] \in Field
    BY <1>1, <1>2, <2>2
  <2>4. SumOf([d \in 1..n |-> Mul(inverse[c][q], a[d])]) = Mul(inverse[c][q], SumOf(a))
    BY <2>3, SumScales
  <2>5. [d \in 1..n |-> Mul(inverse[c][q], a[d])] = [d \in 1..n |-> g[<<q, d>>]]
    BY <1>4, <2>2
  <2>6. b[q] = SumOf(a)
    BY <1>13, <2>2
  <2> QED BY <2>4, <2>5, <2>6
<1>6. \A d \in 1..n : SumOf([q \in 1..n |-> g[<<q, d>>]]) = Mul(x[d], IF c = d THEN 1 ELSE 0)
  <2>1. SUFFICES ASSUME NEW d \in 1..n
                 PROVE  SumOf([q \in 1..n |-> g[<<q, d>>]]) = Mul(x[d], IF c = d THEN 1 ELSE 0)
    OBVIOUS
  <2>2. PICK a : a = [q \in 1..n |-> Mul(inverse[c][q], m[q][d])]
    OBVIOUS
  <2>3. \A q \in 1..n : a[q] \in Field
    BY <1>1, <2>2, MulCommutes
  <2>4. a \in [1..n -> Field] /\ x[d] \in Field
    BY <1>1, <2>2, <2>3
  <2>5. SumOf([q \in 1..n |-> Mul(x[d], a[q])]) = Mul(x[d], SumOf(a))
    BY <2>4, SumScales
  <2>6. ASSUME NEW q \in 1..n PROVE Mul(x[d], a[q]) = g[<<q, d>>]
    <3>1. PICK u \in Field : u = inverse[c][q]
      BY <1>1
    <3>2. PICK v \in Field : v = m[q][d]
      BY <1>1
    <3>3. PICK z \in Field : z = x[d]
      BY <1>1
    <3>4. Mul(z, Mul(u, v)) = Mul(Mul(u, v), z) /\ Mul(Mul(u, v), z) = Mul(u, Mul(v, z))
      <4>1. Mul(u, v) \in Field
        BY MulCommutes
      <4> QED BY <4>1, MulCommutes, MulAssociates
    <3> QED BY <1>4, <2>2, <3>1, <3>2, <3>3, <3>4
  <2>7. [q \in 1..n |-> Mul(x[d], a[q])] = [q \in 1..n |-> g[<<q, d>>]]
    BY <2>6
  <2>8. SumOf(a) = IF c = d THEN 1 ELSE 0
    BY <1>1, <2>2
  <2> QED BY <2>5, <2>7, <2>8
<1>7. SumOf([q \in 1..n |-> SumOf([d \in 1..n |-> g[<<q, d>>]])])
        = SumOf([d \in 1..n |-> SumOf([q \in 1..n |-> g[<<q, d>>]])])
  BY <1>4, SumSwaps
<1>8. PICK a : a = [d \in 1..n |-> SumOf([q \in 1..n |-> g[<<q, d>>]])]
  OBVIOUS
<1>9. \A d \in 1..n : a[d] = (IF c = d THEN x[d] ELSE 0) /\ a[d] \in Field
  <2>1. SUFFICES ASSUME NEW d \in 1..n
                 PROVE  a[d] = (IF c = d THEN x[d] ELSE 0) /\ a[d] \in Field
    OBVIOUS
  <2>2. x[d] \in Field /\ a[d] = Mul(x[d], IF c = d THEN 1 ELSE 0)
    BY <1>1, <1>6, <1>8
  <2> QED BY <2>2, FieldFacts
<1>10. a \in [1..n -> Field]
  BY <1>8, <1>9
<1>11. SumOf(a) = x[c]
  <2>1. \A d \in 1..n : d # c => a[d] = 0
    BY <1>9
  <2>2. SumOf(a) = a[c]
    BY <1>10, <2>1, SumPicks
  <2> QED BY <1>9, <2>2
<1>12. [q \in 1..n |-> Mul(inverse[c][q], b[q])]
         = [q \in 1..n |-> SumOf([d \in 1..n |-> g[<<q, d>>]])]
  BY <1>5
<1> QED BY <1>7, <1>8, <1>11, <1>12 DEF Dot

-----------------------------------------------------------------------------
(* The bytes of the frames *)

(* A file that is sent has at least one data frame.                        *)
LEMMA FileFacts ==
  ASSUME cfg \in Configs, NEW file \in Files
  PROVE  /\ file \in Seq(Field) /\ Len(file) \in Nat /\ PlanAccepts(Len(file), cfg)
         /\ DataFrames(Len(file), cfg) \in Nat \ {0}
<1>1. file \in Seq(Field) /\ PlanAccepts(Len(file), cfg)
  BY ConfigFacts
<1> QED BY <1>1, PlanFacts

(* The slice of a data frame is the part of the file between two offsets.  *)
LEMMA SliceIs ==
  ASSUME cfg \in Configs, NEW file \in Files, NEW i \in Nat, i < DataFrames(Len(file), cfg)
  PROVE  /\ Slice(file, i) \in Seq(Field)
         /\ Len(Slice(file, i)) = SliceSize(i, Len(file), cfg)
         /\ Len(Slice(file, i)) = DataSizeForFrame(i, Len(file), cfg)
         /\ Len(Slice(file, i)) <= cfg.PayloadSize
         /\ BytesOf(i, Len(file), cfg) \in 0..Len(file)
         /\ BytesOf(i + 1, Len(file), cfg) \in 0..Len(file)
         /\ Slice(file, i) = SubSeq(file, BytesOf(i, Len(file), cfg) + 1,
                                    BytesOf(i + 1, Len(file), cfg))
<1>1. PICK P \in Nat \ {0} : P = cfg.PayloadSize
  BY ConfigFacts
<1>2. PICK n \in Nat : n = Len(file)
  BY FileFacts
<1>3. PICK start \in Nat : start = i * P
  BY MultiplesKeepOrder
<1>4. PICK N \in Nat \ {0} : N = DataFrames(n, cfg)
  BY <1>2, FileFacts
<1>5. PlanAccepts(n, cfg) /\ file \in Seq(Field)
  BY <1>2, FileFacts
<1>6. start <= n
  <2>1. CASE n = 0
    <3>1. i = 0
      BY <1>1, <1>2, <1>4, <1>5, <2>1, FramesReachInput
    <3> QED BY <1>3, <2>1, <3>1
  <2>2. CASE n > 0
    <3>1. i * P < n
      BY <1>1, <1>2, <1>4, <1>5, <2>2, FramesReachInput
    <3> QED BY <1>3, <3>1
  <2> QED BY <2>1, <2>2
<1>7. PICK size \in Nat : size = SliceSize(i, n, cfg)
  BY <1>2, <1>5, SliceFacts
<1>8. size = DataSizeForFrame(i, n, cfg)
  BY <1>2, <1>5, <1>7, SliceFacts
<1>9. size <= P
  <2>1. size = IF start < n THEN (IF start + P > n THEN n ELSE start + P) - start ELSE 0
    BY <1>1, <1>3, <1>7 DEF SliceSize
  <2> QED BY <2>1
<1>10. BytesOf(i, n, cfg) = start
  BY <1>1, <1>3, <1>6 DEF BytesOf
<1>11. BytesOf(i + 1, n, cfg) = start + size
  BY <1>2, <1>5, <1>7, <1>10, SliceFacts
<1>12. start + size <= n
  <2>1. (i + 1) * P \in Nat
    BY MultiplesKeepOrder
  <2>2. PICK e \in Nat : e = (i + 1) * P
    BY <2>1
  <2>3. BytesOf(i + 1, n, cfg) = IF e <= n THEN e ELSE n
    BY <1>1, <2>2 DEF BytesOf
  <2> QED BY <1>11, <2>3
<1>13. Slice(file, i) = SubSeq(file, start + 1, start + size)
  BY <1>1, <1>2, <1>3, <1>7 DEF Slice
<1>14. /\ SubSeq(file, start + 1, start + size) \in Seq(Field)
       /\ Len(SubSeq(file, start + 1, start + size)) = size
  <2>1. start + 1 \in Int /\ start + size \in Int
    OBVIOUS
  <2>2. \A j \in (start + 1)..(start + size) : file[j] \in Field
    BY <1>2, <1>5, <1>12
  <2>3. /\ SubSeq(file, start + 1, start + size) \in Seq(Field)
        /\ Len(SubSeq(file, start + 1, start + size))
             = IF start + 1 <= start + size THEN (start + size) - (start + 1) + 1 ELSE 0
    BY <2>1, <2>2, SubSeqProperties
  <2> QED BY <2>3
<1>15. BytesOf(i, n, cfg) \in 0..n /\ BytesOf(i + 1, n, cfg) \in 0..n
  BY <1>6, <1>10, <1>11, <1>12
<1>16. Slice(file, i) \in Seq(Field) /\ Len(Slice(file, i)) = size
  BY <1>13, <1>14
<1>17. Slice(file, i) = SubSeq(file, BytesOf(i, n, cfg) + 1, BytesOf(i + 1, n, cfg))
  BY <1>10, <1>11, <1>13
<1> QED BY <1>1, <1>2, <1>7, <1>8, <1>9, <1>15, <1>16, <1>17

(* The slices one after the other are the file. *)
LEMMA SlicesMakeFile ==
  ASSUME cfg \in Configs, NEW file \in Files, NEW N, N = DataFrames(Len(file), cfg)
  PROVE  FlattenSeq([i \in 1..N |-> Slice(file, i - 1)]) = file
<1>1. N \in Nat \ {0} /\ file \in Seq(Field)
  BY FileFacts
<1>2. PICK n \in Nat : n = Len(file)
  BY FileFacts
<1>3. PICK seqs : seqs = [i \in 1..N |-> Slice(file, i - 1)]
  OBVIOUS
<1>4. \A i \in 1..N : seqs[i] = Slice(file, i - 1) /\ seqs[i] \in Seq(Field)
  <2>1. SUFFICES ASSUME NEW i \in 1..N
                 PROVE  seqs[i] = Slice(file, i - 1) /\ seqs[i] \in Seq(Field)
    OBVIOUS
  <2>2. i - 1 \in Nat /\ i - 1 < DataFrames(Len(file), cfg)
    BY <1>1
  <2> QED BY <1>3, <2>2, SliceIs
<1>5. seqs \in Seq(Seq(Field)) /\ Len(seqs) = N
  <2>1. seqs \in [1..N -> Seq(Field)]
    BY <1>3, <1>4
  <2> QED BY <1>1, <2>1
<1>6. PICK f \in [1..N -> Seq(Field)] : FlattensBy(f, seqs, N)
  BY <1>1, <1>5, FlattenByPrefixes
<1> DEFINE S == {i \in 1..N : f[i] = SubSeq(file, 1, BytesOf(i, n, cfg))}
<1>7. 1 \in S
  <2>1. BytesOf(0, n, cfg) = 0
    <3>1. 0 * cfg.PayloadSize = 0
      BY ConfigFacts
    <3> QED BY <3>1 DEF BytesOf
  <2>2. PICK i \in Nat : i = 0 /\ i < DataFrames(Len(file), cfg) /\ i + 1 = 1
    BY <1>1
  <2>3. Slice(file, i) = SubSeq(file, BytesOf(i, n, cfg) + 1, BytesOf(i + 1, n, cfg))
    BY <1>2, <2>2, SliceIs
  <2>4. PICK k \in 1..N : k = 1 /\ k - 1 = i
    BY <1>1, <2>2
  <2>5. f[k] = seqs[k]
    BY <1>6, <2>4 DEF FlattensBy
  <2>6. f[k] = Slice(file, i)
    BY <1>4, <2>4, <2>5
  <2>7. f[k] = SubSeq(file, 1, BytesOf(k, n, cfg))
    BY <2>1, <2>2, <2>3, <2>4, <2>6
  <2> QED BY <2>4, <2>7
<1>8. ASSUME NEW i \in S, i < N PROVE i + 1 \in S
  <2>1. i \in Nat /\ i \in 1..N /\ i < DataFrames(Len(file), cfg) /\ i + 1 \in 1..N
        /\ (i + 1) - 1 = i
    BY <1>1, <1>8
  <2>2. PICK a : a = BytesOf(i, n, cfg)
    OBVIOUS
  <2>3. PICK b : b = BytesOf(i + 1, n, cfg)
    OBVIOUS
  <2>4. a \in 0..n /\ b \in 0..n /\ Slice(file, i) = SubSeq(file, a + 1, b)
    BY <1>2, <2>1, <2>2, <2>3, SliceIs
  <2>5. b >= a
    <3>1. PlanAccepts(n, cfg)
      BY <1>2, FileFacts
    <3>2. SliceSize(i, n, cfg) \in Nat /\ b = a + SliceSize(i, n, cfg)
      BY <1>2, <2>1, <2>2, <2>3, <3>1, SliceFacts
    <3> QED BY <2>4, <3>2
  <2>6. SubSeq(file, 1, a) \o SubSeq(file, a + 1, b) = SubSeq(file, 1, b)
    <3>1. 1 \in 1..(Len(file) + 1) /\ a \in (1 - 1)..Len(file) /\ b \in a..Len(file)
      BY <1>2, <2>4, <2>5
    <3> QED BY <1>1, <3>1, ConcatAdjacentSubSeq
  <2>7. f[i + 1] = f[i] \o seqs[i + 1]
    BY <1>6, <1>8, <2>1 DEF FlattensBy
  <2>8. seqs[i + 1] = SubSeq(file, a + 1, b)
    BY <1>4, <2>1, <2>4
  <2>9. f[i] = SubSeq(file, 1, a)
    BY <1>8, <2>2
  <2> QED BY <2>1, <2>3, <2>6, <2>7, <2>8, <2>9
<1>9. f[N] = SubSeq(file, 1, BytesOf(N, n, cfg))
  <2>1. S \in SUBSET (1..N) /\ N \in 1..N
    BY <1>1
  <2>2. N \in S
    <3> HIDE DEF S
    <3> QED BY <1>1, <1>7, <1>8, <2>1, Induction
  <2> QED BY <2>2
<1>10. BytesOf(N, n, cfg) = n
  <2>1. PICK P \in Nat \ {0} : P = cfg.PayloadSize
    BY ConfigFacts
  <2>2. PlanAccepts(n, cfg) /\ N = DataFrames(n, cfg)
    BY <1>2, FileFacts
  <2>3. PICK j \in Nat : j = N /\ ~(j < N)
    BY <1>1
  <2>4. PICK e \in Nat : e = N * P /\ (n > 0 => (j < N <=> e < n))
    <3>1. j * P \in Nat /\ (n > 0 => (j < N <=> j * P < n))
      BY <1>1, <2>1, <2>2, FramesReachInput
    <3> QED BY <2>3, <3>1
  <2>5. e >= n
    BY <2>3, <2>4
  <2> QED BY <2>1, <2>4, <2>5 DEF BytesOf
<1>11. SubSeq(file, 1, n) = file
  BY <1>1, <1>2, SubSeqFull
<1> QED BY <1>3, <1>6, <1>9, <1>10, <1>11 DEF FlattensBy

(* A padded payload has an element at every place.                         *)
LEMMA PaddedIs ==
  ASSUME NEW bytes \in Seq(Field), NEW k \in Nat \ {0}
  PROVE  Padded(bytes, k) \in Field
<1>1. k <= Len(bytes) => bytes[k] \in Field
  OBVIOUS
<1> QED BY <1>1, FieldFacts DEF Padded

(* The payloads a rescue frame of the block at s is computed of.            *)
PayloadAt(file, s, slot) ==
  IF s + slot <= DataFrames(Len(file), cfg) THEN Slice(file, s + slot - 1) ELSE <<>>

(* What a slot of a block holds when it is encoded.                        *)
LEMMA PayloadAtIs ==
  ASSUME cfg \in Configs, NEW file \in Files, NEW s \in Nat, NEW slot \in Nat \ {0}
  PROVE  PayloadAt(file, s, slot) \in Seq(Field)
<1>1. CASE s + slot <= DataFrames(Len(file), cfg)
  <2>1. s + slot - 1 \in Nat /\ s + slot - 1 < DataFrames(Len(file), cfg)
    BY <1>1, FileFacts
  <2> QED BY <1>1, <2>1, SliceIs DEF PayloadAt
<1>2. CASE ~(s + slot <= DataFrames(Len(file), cfg))
  <2>1. <<>> \in Seq(Field)
    OBVIOUS
  <2> QED BY <1>2, <2>1 DEF PayloadAt
<1> QED BY <1>1, <1>2

(* What payload slot adds to byte k of rescue frame r. *)
Term(file, s, r, k, slot) == Mul(Coefficient(r, slot - 1), Padded(PayloadAt(file, s, slot), k))

Terms(file, s, r, k) == [slot \in 1..cfg.DataFramesPerBlock |-> Term(file, s, r, k, slot)]

(* The bytes of a rescue frame are sums over the slots of its block,       *)
(* whatever the array held before.                                         *)
LEMMA RescueBytesAre ==
  ASSUME cfg \in Configs, NEW file \in Files, NEW s \in Nat, NEW r \in Nat,
         r < cfg.RescueFramesPerBlock, NEW array, DOMAIN array = 1..cfg.DataFramesPerBlock
  PROVE  /\ BlockPayloads(array, file, s) = [slot \in 1..cfg.DataFramesPerBlock |-> PayloadAt(file, s, slot)]
         /\ RescueBytes(BlockPayloads(array, file, s), r)
              = [k \in 1..cfg.PayloadSize |-> SumOf(Terms(file, s, r, k))]
         /\ RescueBytes(BlockPayloads(array, file, s), r) \in [1..cfg.PayloadSize -> Field]
         /\ RescueBytes(BlockPayloads(array, file, s), r) \in Seq(Field)
         /\ Len(RescueBytes(BlockPayloads(array, file, s), r)) = cfg.PayloadSize
         /\ \A k \in 1..cfg.PayloadSize : Terms(file, s, r, k) \in [1..cfg.DataFramesPerBlock -> Field]
<1>10. PICK K \in Nat : K = cfg.DataFramesPerBlock
  BY ConfigFacts
<1>11. PICK P \in Nat : P = cfg.PayloadSize
  BY ConfigFacts
<1>12. PICK R \in Nat : R = cfg.RescueFramesPerBlock /\ r \in 0..(R - 1)
  BY ConfigFacts
<1>1. PICK payloads : payloads = BlockPayloads(array, file, s)
  OBVIOUS
<1>2. payloads = [slot \in 1..K |-> PayloadAt(file, s, slot)]
  BY <1>1, <1>10 DEF BlockPayloads, PayloadAt
<1>3. \A slot \in 1..K : payloads[slot] = PayloadAt(file, s, slot) /\ DOMAIN payloads = 1..K
  BY <1>2
<1>4. ASSUME NEW k \in 1..P
      PROVE  /\ [slot \in DOMAIN payloads |-> Mul(Coefficient(r, slot - 1), Padded(payloads[slot], k))]
                  = Terms(file, s, r, k)
             /\ Terms(file, s, r, k) \in [1..K -> Field]
  <2>1. DOMAIN payloads = 1..K /\ Terms(file, s, r, k) = [slot \in 1..K |-> Term(file, s, r, k, slot)]
    BY <1>2, <1>10 DEF Terms
  <2>2. ASSUME NEW slot \in 1..K
        PROVE  /\ Mul(Coefficient(r, slot - 1), Padded(payloads[slot], k)) = Term(file, s, r, k, slot)
               /\ Term(file, s, r, k, slot) \in Field
    <3>1. Coefficient(r, slot - 1) \in Field
      <4>1. slot - 1 \in 0..(K - 1)
        OBVIOUS
      <4> QED BY <1>10, <1>12, <4>1, PointFacts
    <3>2. Padded(PayloadAt(file, s, slot), k) \in Field
      <4>1. slot \in Nat \ {0} /\ k \in Nat \ {0}
        OBVIOUS
      <4>2. PICK payload \in Seq(Field) : payload = PayloadAt(file, s, slot)
        BY <4>1, PayloadAtIs
      <4> QED BY <4>1, <4>2, PaddedIs
    <3> QED BY <1>3, <3>1, <3>2, MulCommutes DEF Term
  <2> QED BY <2>1, <2>2
<1>5. PICK bytes : bytes = RescueBytes(payloads, r)
  OBVIOUS
<1>6. bytes = [k \in 1..P |-> SumOf(Terms(file, s, r, k))]
  <2>1. bytes = [k \in 1..P |-> SumOf([slot \in DOMAIN payloads |->
                                  Mul(Coefficient(r, slot - 1), Padded(payloads[slot], k))])]
    BY <1>5, <1>11 DEF RescueBytes
  <2> QED BY <1>4, <2>1
<1>7. \A k \in 1..P : SumOf(Terms(file, s, r, k)) \in Field
  BY <1>4, SumHasPrefixes
<1>8. bytes \in [1..P -> Field]
  BY <1>6, <1>7
<1>9. bytes \in Seq(Field) /\ Len(bytes) = P
  BY <1>8
<1> QED BY <1>10, <1>11, <1>1, <1>2, <1>4, <1>5, <1>6, <1>8, <1>9

-----------------------------------------------------------------------------
(* What a repair computes *)

(* d holds the terms of t that are picked, and 0 for the others.           *)
PicksTerms(d, t, pick, K, m) ==
  /\ K \in Nat /\ m \in Nat /\ t \in [1..K -> Field] /\ d \in [1..K -> Field]
  /\ pick \in [1..m -> 1..K] /\ \A b, c \in 1..m : b # c => pick[b] # pick[c]
  /\ \A slot \in 1..K : /\ (\E c \in 1..m : pick[c] = slot) => d[slot] = t[slot]
                        /\ ~(\E c \in 1..m : pick[c] = slot) => d[slot] = 0

(* A sum in which only the picked terms are left is the sum of those.       *)
LEMMA SumOfPicked ==
  ASSUME NEW d, NEW t, NEW pick, NEW K, NEW m, PicksTerms(d, t, pick, K, m)
  PROVE  SumOf(d) = SumOf([c \in 1..m |-> t[pick[c]]])
<1>9. /\ K \in Nat /\ m \in Nat /\ t \in [1..K -> Field] /\ d \in [1..K -> Field]
      /\ pick \in [1..m -> 1..K]
  BY DEF PicksTerms
<1>10. \A b, c \in 1..m : b # c => pick[b] # pick[c]
  BY DEF PicksTerms
<1>11. \A slot \in 1..K : /\ (\E c \in 1..m : pick[c] = slot) => d[slot] = t[slot]
                          /\ ~(\E c \in 1..m : pick[c] = slot) => d[slot] = 0
  BY DEF PicksTerms
<1>1. PICK g : g = [p \in (1..K) \X (1..m) |-> IF pick[p[2]] = p[1] THEN t[p[1]] ELSE 0]
  OBVIOUS
<1>2. \A slot \in 1..K : \A c \in 1..m :
        /\ pick[c] = slot => g[<<slot, c>>] = t[slot]
        /\ pick[c] # slot => g[<<slot, c>>] = 0
        /\ g[<<slot, c>>] \in Field
  <2>1. SUFFICES ASSUME NEW slot \in 1..K, NEW c \in 1..m
                 PROVE  /\ pick[c] = slot => g[<<slot, c>>] = t[slot]
                        /\ pick[c] # slot => g[<<slot, c>>] = 0
                        /\ g[<<slot, c>>] \in Field
    OBVIOUS
  <2>2. g[<<slot, c>>] = IF pick[c] = slot THEN t[slot] ELSE 0
    <3>1. <<slot, c>> \in (1..K) \X (1..m)
      OBVIOUS
    <3> QED BY <1>1, <3>1
  <2>3. t[slot] \in Field /\ 0 \in Field
    BY <1>9, FieldFacts
  <2> QED BY <2>2, <2>3
<1>3. g \in [(1..K) \X (1..m) -> Field]
  <2>1. \A p \in (1..K) \X (1..m) : p[1] \in 1..K /\ p[2] \in 1..m /\ p = <<p[1], p[2]>>
    OBVIOUS
  <2>2. \A p \in (1..K) \X (1..m) : g[p] \in Field
    <3>1. SUFFICES ASSUME NEW p \in (1..K) \X (1..m) PROVE g[p] \in Field
      OBVIOUS
    <3>2. p[1] \in 1..K /\ p[2] \in 1..m /\ p = <<p[1], p[2]>>
      BY <2>1
    <3>3. g[<<p[1], p[2]>>] \in Field
      BY <1>2, <3>2
    <3> QED BY <3>2, <3>3
  <2> QED BY <1>1, <2>2
<1>4. \A slot \in 1..K : SumOf([c \in 1..m |-> g[<<slot, c>>]]) = d[slot]
  <2>1. SUFFICES ASSUME NEW slot \in 1..K
                 PROVE  SumOf([c \in 1..m |-> g[<<slot, c>>]]) = d[slot]
    OBVIOUS
  <2>2. PICK a : a = [c \in 1..m |-> g[<<slot, c>>]]
    OBVIOUS
  <2>3. a \in [1..m -> Field]
    BY <1>2, <1>9, <2>2
  <2>4. CASE \E c \in 1..m : pick[c] = slot
    <3>1. PICK b \in 1..m : pick[b] = slot
      BY <2>4
    <3>2. \A c \in 1..m : c # b => a[c] = 0
      <4>1. \A c \in 1..m : c # b => pick[c] # slot
        BY <1>10, <3>1
      <4> QED BY <1>2, <2>2, <4>1
    <3>3. SumOf(a) = a[b]
      BY <1>9, <2>3, <3>2, SumPicks
    <3>4. a[b] = t[slot]
      BY <1>2, <2>2, <3>1
    <3>5. d[slot] = t[slot]
      BY <1>11, <2>1, <2>4
    <3>6. SumOf(a) = d[slot]
      BY <3>3, <3>4, <3>5
    <3> QED BY <2>2, <3>6, Zenon
  <2>5. CASE ~(\E c \in 1..m : pick[c] = slot)
    <3>1. \A c \in 1..m : a[c] = 0
      BY <1>2, <2>2, <2>5
    <3> QED BY <1>9, <1>11, <2>2, <2>3, <2>5, <3>1, SumOfZeros
  <2> QED BY <2>4, <2>5
<1>5. \A c \in 1..m : SumOf([slot \in 1..K |-> g[<<slot, c>>]]) = t[pick[c]]
  <2>1. SUFFICES ASSUME NEW c \in 1..m
                 PROVE  SumOf([slot \in 1..K |-> g[<<slot, c>>]]) = t[pick[c]]
    OBVIOUS
  <2>2. PICK a : a = [slot \in 1..K |-> g[<<slot, c>>]]
    OBVIOUS
  <2>3. PICK j \in 1..K : j = pick[c]
    BY <1>9
  <2>4. a \in [1..K -> Field] /\ (\A slot \in 1..K : slot # j => a[slot] = 0) /\ a[j] = t[j]
    BY <1>2, <1>9, <2>2, <2>3
  <2>5. SumOf(a) = a[j]
    <3>1. K \in Nat /\ a \in [1..K -> Field]
      BY <1>9, <2>4
    <3>2. \A slot \in 1..K : slot # j => a[slot] = 0
      BY <2>4
    <3> QED BY <3>1, <3>2, SumPicks
  <2> QED BY <2>2, <2>3, <2>4, <2>5
<1>6. SumOf([slot \in 1..K |-> SumOf([c \in 1..m |-> g[<<slot, c>>]])])
        = SumOf([c \in 1..m |-> SumOf([slot \in 1..K |-> g[<<slot, c>>]])])
  BY <1>3, <1>9, SumSwaps
<1>7. [slot \in 1..K |-> SumOf([c \in 1..m |-> g[<<slot, c>>]])] = d
  BY <1>4, <1>9
<1>8. [c \in 1..m |-> SumOf([slot \in 1..K |-> g[<<slot, c>>]])] = [c \in 1..m |-> t[pick[c]]]
  BY <1>5
<1> QED BY <1>6, <1>7, <1>8

(* What is there of the block at s is right, and the slots that are not     *)
(* are listed.                                                             *)
BlockIs(w, file, s, slots, m) ==
  \A slot \in 1..cfg.DataFramesPerBlock :
    LET there == s + slot <= DataFrames(Len(file), cfg)
    IN  /\ there /\ w.data[s + slot] # Empty
             => Read(w.data[s + slot], w.buffers) = Slice(file, s + slot - 1)
        /\ (there /\ w.data[s + slot] = Empty) <=> \E c \in 1..m : slots[c] + 1 = slot

(* The slot of rescue frame r of the block at s holds its bytes.            *)
RescueIs(w, file, s, r) ==
  w.rescues[s \div cfg.DataFramesPerBlock + 1][r + 1].bytes
    = RescueBytes(BlockPayloads(NoPayloads, file, s), r)

(* What the missing frames of the block at s add to byte k of rescue r.     *)
Left(file, s, slots, m, r, k) ==
  SumOf([c \in 1..m |-> Mul(Coefficient(r, slots[c]), Padded(Slice(file, s + slots[c]), k))])

(* The residual of a rescue frame is what the missing frames add to it.     *)
LEMMA ResidualIs ==
  ASSUME cfg \in Configs, NEW file \in Files, NEW w, NEW s \in Nat,
         NEW K \in Nat, K = cfg.DataFramesPerBlock, NEW P \in Nat, P = cfg.PayloadSize,
         NEW R \in Nat, R = cfg.RescueFramesPerBlock, NEW r \in 0..(R - 1), RescueIs(w, file, s, r),
         NEW m \in Nat, NEW slots, Picks(slots, m, K), BlockIs(w, file, s, slots, m)
  PROVE  \A k \in 1..P : Residual(w, s, Len(file), r)[k] = Left(file, s, slots, m, r, k)
<1>1. PICK N \in Nat \ {0} : N = DataFrames(Len(file), cfg)
  BY FileFacts
<1>2. PICK rescue : rescue = RescueBytes(BlockPayloads(NoPayloads, file, s), r)
  OBVIOUS
<1>3. DOMAIN NoPayloads = 1..K
  BY DEF NoPayloads
<1>4. /\ rescue = [k \in 1..P |-> SumOf(Terms(file, s, r, k))]
      /\ \A k \in 1..P : Terms(file, s, r, k) \in [1..K -> Field]
  <2>1. PICK array : array = NoPayloads /\ DOMAIN array = 1..K
    BY <1>3
  <2>2. PICK q : q = RescueBytes(BlockPayloads(array, file, s), r)
    OBVIOUS
  <2>3. /\ q = [k \in 1..P |-> SumOf(Terms(file, s, r, k))]
        /\ \A k \in 1..P : Terms(file, s, r, k) \in [1..K -> Field]
    <3>1. r \in Nat /\ r < cfg.RescueFramesPerBlock /\ DOMAIN array = 1..cfg.DataFramesPerBlock
      BY <2>1
    <3> QED BY <2>2, <3>1, RescueBytesAre
  <2> QED BY <1>2, <2>1, <2>2, <2>3
<1>5. Residual(w, s, Len(file), r)
        = [k \in 1..P |-> Add(rescue[k], SumOf([slot \in 1..K |-> Share(w, s, Len(file), r, s + slot - 1, k)]))]
  BY <1>2 DEF Residual, RescueIs
<1>6. PICK pick : pick = [c \in 1..m |-> slots[c] + 1]
  OBVIOUS
<1>7. /\ \A c \in 1..m : slots[c] \in 0..(K - 1) /\ pick[c] = slots[c] + 1 /\ pick[c] \in 1..K
      /\ pick \in [1..m -> 1..K] /\ \A b, c \in 1..m : b # c => pick[b] # pick[c]
  <2>1. \A c \in 1..m : slots[c] \in 0..(K - 1) /\ pick[c] = slots[c] + 1 /\ pick[c] \in 1..K
    <3>1. \A c \in 1..m : slots[c] \in 0..(K - 1)
      BY DEF Picks
    <3>2. SUFFICES ASSUME NEW c \in 1..m
                   PROVE  slots[c] \in 0..(K - 1) /\ pick[c] = slots[c] + 1 /\ pick[c] \in 1..K
      OBVIOUS
    <3>3. PICK z \in 0..(K - 1) : z = slots[c]
      BY <3>1
    <3>4. z + 1 \in 1..K
      OBVIOUS
    <3>5. pick[c] = slots[c] + 1
      BY <1>6
    <3> QED BY <3>3, <3>4, <3>5
  <2>2. \A b, c \in 1..m : b # c => slots[b] # slots[c]
    BY DEF Picks
  <2>3. \A b, c \in 1..m : b # c => pick[b] # pick[c]
    <3>1. SUFFICES ASSUME NEW b \in 1..m, NEW c \in 1..m, b # c PROVE pick[b] # pick[c]
      OBVIOUS
    <3>2. slots[b] # slots[c] /\ slots[b] \in 0..(K - 1) /\ slots[c] \in 0..(K - 1)
      BY <2>1, <2>2, <3>1
    <3> QED BY <2>1, <3>2
  <2> QED BY <1>6, <2>1, <2>3
<1>8. ASSUME NEW k \in 1..P
      PROVE  Add(rescue[k], SumOf([slot \in 1..K |-> Share(w, s, Len(file), r, s + slot - 1, k)]))
               = SumOf([c \in 1..m |-> Mul(Coefficient(r, slots[c]), Padded(Slice(file, s + slots[c]), k))])
  <2>1. PICK t \in [1..K -> Field] : t = Terms(file, s, r, k)
    BY <1>4
  <2>2. PICK h : h = [slot \in 1..K |-> Share(w, s, Len(file), r, s + slot - 1, k)]
    OBVIOUS
  <2>3. ASSUME NEW slot \in 1..K
        PROVE  /\ (\E c \in 1..m : pick[c] = slot) => h[slot] = 0
               /\ ~(\E c \in 1..m : pick[c] = slot) => h[slot] = t[slot]
               /\ h[slot] \in Field
    <3>1. /\ (s + slot - 1) + 1 = s + slot /\ (s + slot - 1) - s = slot - 1
          /\ (s + slot - 1 < N <=> s + slot <= N)
      OBVIOUS
    <3>2. h[slot] = IF s + slot <= N /\ w.data[s + slot] # Empty
                    THEN Mul(Coefficient(r, slot - 1), Padded(Read(w.data[s + slot], w.buffers), k))
                    ELSE 0
      <4>1. h[slot] = Share(w, s, Len(file), r, s + slot - 1, k)
        BY <2>2
      <4>2. PICK i \in Int : /\ i = s + slot - 1 /\ i + 1 = s + slot /\ i - s = slot - 1
                            /\ (i < N <=> s + slot <= N)
        BY <3>1
      <4>3. Share(w, s, Len(file), r, i, k)
              = IF i < N /\ w.data[i + 1] # Empty
                THEN Mul(Coefficient(r, i - s), Padded(Read(w.data[i + 1], w.buffers), k))
                ELSE 0
        BY <1>1 DEF Share
      <4> QED BY <4>1, <4>2, <4>3
    <3>3. t[slot] = Mul(Coefficient(r, slot - 1), Padded(PayloadAt(file, s, slot), k)) /\ t[slot] \in Field
      BY <2>1 DEF Term, Terms
    <3>4. (s + slot <= N /\ w.data[s + slot] = Empty) <=> \E c \in 1..m : pick[c] = slot
      BY <1>1, <1>7 DEF BlockIs
    <3>5. CASE s + slot <= N /\ w.data[s + slot] = Empty
      BY <3>2, <3>4, <3>5, FieldFacts
    <3>6. CASE s + slot <= N /\ w.data[s + slot] # Empty
      <4>1. Read(w.data[s + slot], w.buffers) = Slice(file, s + slot - 1)
        BY <1>1, <3>6 DEF BlockIs
      <4>2. PayloadAt(file, s, slot) = Slice(file, s + slot - 1)
        BY <1>1, <3>6 DEF PayloadAt
      <4> QED BY <3>2, <3>3, <3>4, <3>6, <4>1, <4>2
    <3>7. CASE ~(s + slot <= N)
      <4>1. PayloadAt(file, s, slot) = <<>>
        BY <1>1, <3>7 DEF PayloadAt
      <4>2. Padded(<<>>, k) = 0
        BY DEF Padded
      <4>3. Coefficient(r, slot - 1) \in Field
        <5>1. slot - 1 \in 0..(K - 1)
          OBVIOUS
        <5> QED BY <5>1, PointFacts
      <4>4. t[slot] = 0
        BY <3>3, <4>1, <4>2, <4>3, FieldFacts
      <4> QED BY <3>2, <3>4, <3>7, <4>4, FieldFacts
    <3> QED BY <3>5, <3>6, <3>7
  <2>4. h \in [1..K -> Field]
    BY <2>2, <2>3
  <2>5. PICK d : d = [slot \in 1..K |-> Add(t[slot], h[slot])]
    OBVIOUS
  <2>6. ASSUME NEW slot \in 1..K
        PROVE  /\ (\E c \in 1..m : pick[c] = slot) => d[slot] = t[slot]
               /\ ~(\E c \in 1..m : pick[c] = slot) => d[slot] = 0
               /\ d[slot] \in Field
    <3>1. d[slot] = Add(t[slot], h[slot]) /\ t[slot] \in Field /\ h[slot] \in Field
      BY <2>4, <2>5
    <3>2. d[slot] \in Field
      <4>1. PICK a \in Field : a = t[slot]
        BY <3>1
      <4>2. PICK b \in Field : b = h[slot]
        BY <3>1
      <4>3. Add(a, b) \in Field
        BY FieldLaws
      <4> QED BY <3>1, <4>1, <4>2, <4>3
    <3>3. CASE \E c \in 1..m : pick[c] = slot
      BY <2>3, <3>1, <3>2, <3>3, FieldFacts
    <3>4. CASE ~(\E c \in 1..m : pick[c] = slot)
      BY <2>3, <3>1, <3>2, <3>4, FieldFacts
    <3> QED BY <3>3, <3>4
  <2>7. d \in [1..K -> Field]
    BY <2>5, <2>6
  <2>8. SumOf(d) = Add(SumOf(t), SumOf(h))
    BY <2>4, <2>5, SumAdds
  <2>10. ASSUME NEW c \in 1..m
         PROVE  t[pick[c]] = Mul(Coefficient(r, slots[c]), Padded(Slice(file, s + slots[c]), k))
    <3>1. PICK slot \in 1..K : slot = pick[c] /\ slot - 1 = slots[c] /\ s + slot - 1 = s + slots[c]
      <4>1. PICK z \in 0..(K - 1) : z = slots[c] /\ pick[c] = slots[c] + 1
        BY <1>7
      <4>2. PICK slot \in 1..K : slot = z + 1 /\ slot - 1 = z /\ s + slot - 1 = s + z
        OBVIOUS
      <4> QED BY <4>1, <4>2
    <3>2. s + slot <= N
      <4>1. slots[c] + 1 = slot
        BY <1>7, <3>1
      <4> QED BY <1>1, <4>1 DEF BlockIs
    <3>3. PayloadAt(file, s, slot) = Slice(file, s + slot - 1)
      BY <1>1, <3>2 DEF PayloadAt
    <3>4. t[slot] = Mul(Coefficient(r, slot - 1), Padded(PayloadAt(file, s, slot), k))
      BY <2>1 DEF Term, Terms
    <3> QED BY <3>1, <3>3, <3>4
  <2>11. PICK p : p = [c \in 1..m |-> Mul(Coefficient(r, slots[c]), Padded(Slice(file, s + slots[c]), k))]
    OBVIOUS
  <2>9. /\ p \in [1..m -> Field]
        /\ \A c \in 1..m : p[c] = t[pick[c]]
    <3>1. \A c \in 1..m : p[c] = t[pick[c]]
      BY <2>10, <2>11
    <3>2. \A c \in 1..m : t[pick[c]] \in Field
      BY <1>7
    <3> QED BY <2>11, <3>1, <3>2
  <2>13. SumOf(d) = SumOf(p)
    <3>1. \A slot \in 1..K : /\ (\E c \in 1..m : pick[c] = slot) => d[slot] = t[slot]
                             /\ ~(\E c \in 1..m : pick[c] = slot) => d[slot] = 0
      BY <2>6
    <3>2. \A b, c \in 1..m : b # c => pick[b] # pick[c]
      BY <1>7
    <3>3. pick \in [1..m -> 1..K] /\ t \in [1..K -> Field]
      BY <1>7, <2>1
    <3>4. SumOf(d) = SumOf([c \in 1..m |-> t[pick[c]]])
      <4>1. PicksTerms(d, t, pick, K, m)
        BY <2>7, <3>1, <3>2, <3>3 DEF PicksTerms
      <4> QED BY <4>1, SumOfPicked
    <3>5. p = [c \in 1..m |-> t[pick[c]]]
      BY <2>9, <2>11
    <3> QED BY <3>4, <3>5
  <2>12. rescue[k] = SumOf(t)
    BY <1>4, <2>1
  <2> QED BY <2>2, <2>8, <2>11, <2>12, <2>13
<1> QED BY <1>5, <1>8 DEF Left

-----------------------------------------------------------------------------
(* The workspace *)

IsArray(a) == Len(a) \in Nat /\ DOMAIN a = 1..Len(a)

(* What every call finds and leaves.  What lies in the slots is no part of  *)
(* it: a call clears those it uses.                                        *)
IsWorkspace(w) ==
  /\ w = [data |-> w.data, present |-> w.present, rescues |-> w.rescues,
          inverses |-> w.inverses, buffers |-> w.buffers, cursor |-> w.cursor]
  /\ IsArray(w.data) /\ IsArray(w.present) /\ IsArray(w.rescues)
  /\ IsCache(w.inverses)
  /\ w.buffers \in Seq(Seq(Field)) /\ w.cursor \in Nat /\ w.cursor <= Len(w.buffers)

(* The slot has the bytes of data frame i, in a buffer handed out before.   *)
HoldsFrame(slot, w, file, i) ==
  /\ slot # Empty /\ slot.size = DataSizeForFrame(i, Len(file), cfg)
  /\ Read(slot, w.buffers) = Slice(file, i)
  /\ slot.buffer \in Int /\ slot.buffer <= w.cursor

(* The slots of the data frames in S hold them, and the others are empty.   *)
Holds(w, file, S) ==
  \A i \in 0..(DataFrames(Len(file), cfg) - 1) :
    /\ i \in S => HoldsFrame(w.data[i + 1], w, file, i)
    /\ i \notin S => w.data[i + 1] = Empty

(* A recovered row is a padded payload. *)
IsRowOf(row, file, i) ==
  /\ row \in [1..cfg.PayloadSize -> Field]
  /\ \A k \in 1..cfg.PayloadSize : row[k] = Padded(Slice(file, i), k)

(* A recovered row starts with the slice of its frame.                     *)
LEMMA RowHasSlice ==
  ASSUME cfg \in Configs, NEW file \in Files, NEW i \in Nat, i < DataFrames(Len(file), cfg),
         NEW row, IsRowOf(row, file, i), NEW size, size = DataSizeForFrame(i, Len(file), cfg)
  PROVE  /\ size \in Nat /\ SubSeq(row, 1, size) = Slice(file, i)
         /\ SubSeq(row, 1, size) \in Seq(Field) /\ Len(SubSeq(row, 1, size)) = size
<1>1. PICK P \in Nat : P = cfg.PayloadSize
  BY ConfigFacts
<1>2. PICK s \in Seq(Field) : s = Slice(file, i)
  BY SliceIs
<1>3. Len(s) = size /\ size <= P /\ size \in Nat
  BY <1>1, <1>2, SliceIs
<1>4. \A k \in 1..size : row[k] = s[k] /\ row[k] \in Field
  <2>1. SUFFICES ASSUME NEW k \in 1..size PROVE row[k] = s[k] /\ row[k] \in Field
    OBVIOUS
  <2>2. k \in 1..P
    BY <1>3
  <2>3. row[k] = Padded(s, k) /\ row[k] \in Field
    BY <1>1, <1>2, <2>2 DEF IsRowOf
  <2>4. Padded(s, k) = s[k]
    BY <1>3 DEF Padded
  <2> QED BY <2>3, <2>4
<1>5. /\ SubSeq(row, 1, size) \in Seq(Field)
      /\ Len(SubSeq(row, 1, size)) = size
      /\ \A k \in 1..size : SubSeq(row, 1, size)[k] = row[k]
  <2>1. 1 \in Int /\ size \in Int /\ \A k \in 1..size : row[k] \in Field
    BY <1>3, <1>4
  <2>2. /\ SubSeq(row, 1, size) \in Seq(Field)
        /\ Len(SubSeq(row, 1, size)) = IF 1 <= size THEN size - 1 + 1 ELSE 0
        /\ \A k \in 1..(size - 1 + 1) : SubSeq(row, 1, size)[k] = row[1 + k - 1]
    BY <2>1, SubSeqProperties
  <2>3. PICK t \in Seq(Field) : t = SubSeq(row, 1, size)
    BY <2>2
  <2>4. Len(t) = size
    BY <1>3, <2>2, <2>3
  <2>5. ASSUME NEW k \in 1..size PROVE t[k] = row[k]
    <3>1. k \in 1..(size - 1 + 1) /\ 1 + k - 1 = k
      BY <1>3
    <3> QED BY <2>2, <2>3, <3>1
  <2> QED BY <2>3, <2>4, <2>5
<1>6. SubSeq(row, 1, size) = s
  <2>1. PICK t \in Seq(Field) : t = SubSeq(row, 1, size)
    BY <1>5
  <2>2. Len(t) = Len(s)
    BY <1>3, <1>5, <2>1
  <2>3. \A k \in 1..size : t[k] = s[k]
    BY <1>4, <1>5, <2>1
  <2>4. \A k \in 1..Len(s) : t[k] = s[k]
    BY <1>3, <2>3
  <2>5. t = s
    BY <2>2, <2>4
  <2> QED BY <2>1, <2>5
<1> QED BY <1>2, <1>3, <1>5, <1>6

(* One element is written, and those before it stay. *)
Replaced(all, c, fresh) ==
  SubSeq(all, 1, c) \o <<fresh>> \o SubSeq(all, c + 2, Len(all))

IsReplaced(new, A, all, d, fresh) ==
  /\ new \in Seq(A) /\ Len(new) >= d /\ new[d] = fresh
  /\ \A b \in 1..(d - 1) : new[b] = all[b]

(* A sequence with one element replaced or appended.                       *)
LEMMA OneReplaced ==
  ASSUME NEW A, NEW all \in Seq(A), NEW c \in Nat, c <= Len(all), NEW fresh \in A,
         NEW d \in Nat, d = c + 1
  PROVE  IsReplaced(Replaced(all, c, fresh), A, all, d, fresh)
<1>16. PICK new : new = Replaced(all, c, fresh)
  OBVIOUS
<1>1. PICK a \in Seq(A) : /\ a = SubSeq(all, 1, c) /\ Len(a) = c
                          /\ \A b \in 1..c : a[b] = all[b]
  <2>1. 1 \in Int /\ c \in Int /\ \A b \in 1..c : all[b] \in A
    OBVIOUS
  <2>2. /\ SubSeq(all, 1, c) \in Seq(A)
        /\ Len(SubSeq(all, 1, c)) = IF 1 <= c THEN c - 1 + 1 ELSE 0
        /\ \A b \in 1..(c - 1 + 1) : SubSeq(all, 1, c)[b] = all[1 + b - 1]
    BY <2>1, SubSeqProperties
  <2>3. PICK a \in Seq(A) : a = SubSeq(all, 1, c)
    BY <2>2
  <2>4. Len(a) = c
    BY <2>2, <2>3
  <2>5. ASSUME NEW b \in 1..c PROVE a[b] = all[b]
    <3>1. b \in 1..(c - 1 + 1) /\ 1 + b - 1 = b
      OBVIOUS
    <3> QED BY <2>2, <2>3, <3>1
  <2> QED BY <2>3, <2>4, <2>5
<1>15. PICK after \in Nat : after = c + 2
  OBVIOUS
<1>2. PICK z \in Seq(A) : z = SubSeq(all, after, Len(all))
  <2>1. after \in Int /\ Len(all) \in Int
    BY <1>15
  <2>2. \A b \in after..Len(all) : all[b] \in A
    BY <1>15
  <2>3. SubSeq(all, after, Len(all)) \in Seq(A)
    BY <2>1, <2>2, SubSeqProperties
  <2> QED BY <2>3
<1>3. PICK one \in Seq(A) : one = <<fresh>> /\ Len(one) = 1 /\ one[1] = fresh
  <2>1. <<fresh>> \in Seq(A) /\ Len(<<fresh>>) = 1 /\ <<fresh>>[1] = fresh
    OBVIOUS
  <2> QED BY <2>1
<1>4. PICK h \in Seq(A) : h = a \o one
  BY ConcatProperties
<1>5. Len(h) = c + 1 /\ \A b \in 1..(c + 1) : h[b] = IF b <= c THEN a[b] ELSE one[b - c]
  BY <1>1, <1>3, <1>4, ConcatProperties
<1>6. h[c + 1] = fresh /\ \A b \in 1..c : h[b] = all[b]
  <2>1. c + 1 \in 1..(c + 1) /\ ~(c + 1 <= c) /\ (c + 1) - c = 1
    OBVIOUS
  <2>2. \A b \in 1..c : b \in 1..(c + 1) /\ b <= c
    OBVIOUS
  <2> QED BY <1>1, <1>3, <1>5, <2>1, <2>2
<1>7. new = h \o z
  BY <1>1, <1>2, <1>3, <1>4, <1>15, <1>16 DEF Replaced
<1>8. d = Len(h)
  BY <1>5
<1>9. /\ new \in Seq(A) /\ Len(new) = d + Len(z)
      /\ \A b \in 1..(d + Len(z)) : new[b] = IF b <= d THEN h[b] ELSE z[b - d]
  <2>1. h \o z \in Seq(A) /\ Len(h \o z) = Len(h) + Len(z)
    BY ConcatProperties
  <2>2. \A b \in 1..(Len(h) + Len(z)) : (h \o z)[b] = IF b <= Len(h) THEN h[b] ELSE z[b - Len(h)]
    BY ConcatProperties
  <2> QED BY <1>7, <1>8, <2>1, <2>2
<1>10. PICK l \in Nat : l = Len(z)
  OBVIOUS
<1>11. \A b \in 1..d : new[b] = h[b]
  <2>1. \A b \in 1..d : b \in 1..(d + l) /\ b <= d
    OBVIOUS
  <2> QED BY <1>9, <1>10, <2>1
<1>12. d \in 1..d /\ \A b \in 1..c : b \in 1..d
  BY <1>8
<1>13. new[d] = fresh /\ \A b \in 1..c : new[b] = all[b]
  <2>1. new[d] = fresh
    BY <1>6, <1>8, <1>11, <1>12
  <2> QED BY <1>6, <1>8, <1>11, <1>12, <2>1
<1>14. Len(new) >= d
  <2>1. Len(new) = d + l
    BY <1>9, <1>10
  <2>2. PICK e \in Nat : e = d + l
    OBVIOUS
  <2> QED BY <2>1, <2>2
<1>17. \A b \in 1..(d - 1) : b \in 1..c
  OBVIOUS
<1> QED BY <1>9, <1>13, <1>14, <1>16, <1>17 DEF IsReplaced

(* What a repair keeps of a workspace. *)
Keeps(new, w) ==
  new.rescues = w.rescues /\ new.inverses = w.inverses /\ Len(new.data) = Len(w.data)

(* After a row is handed out its slot is right, and the others still are.  *)
LEMMA HandOutHolds ==
  ASSUME cfg \in Configs, NEW file \in Files, NEW w, IsWorkspace(w), NEW S, Holds(w, file, S),
         NEW N, N = DataFrames(Len(file), cfg), N <= Len(w.data),
         NEW i \in 0..(N - 1), NEW row, IsRowOf(row, file, i),
         NEW new, new = HandOut(w, i, row, Len(file))
  PROVE  IsWorkspace(new) /\ Holds(new, file, S \cup {i}) /\ Keeps(new, w)
<1>1. N \in Nat \ {0} /\ i \in Nat /\ i < DataFrames(Len(file), cfg)
  BY FileFacts
<1>2. PICK size \in Nat : /\ size = DataSizeForFrame(i, Len(file), cfg)
                          /\ SubSeq(row, 1, size) = Slice(file, i)
                          /\ SubSeq(row, 1, size) \in Seq(Field) /\ Len(SubSeq(row, 1, size)) = size
  <2>1. PICK j \in Nat : j = i /\ j < DataFrames(Len(file), cfg)
    BY <1>1
  <2>2. PICK size : size = DataSizeForFrame(j, Len(file), cfg)
    OBVIOUS
  <2>3. IsRowOf(row, file, j)
    BY <2>1
  <2>4. /\ size \in Nat /\ SubSeq(row, 1, size) = Slice(file, j)
        /\ SubSeq(row, 1, size) \in Seq(Field) /\ Len(SubSeq(row, 1, size)) = size
    BY <2>1, <2>2, <2>3, RowHasSlice
  <2>5. size \in Nat
    BY <2>4
  <2> QED BY <2>1, <2>2, <2>4, <2>5
<1>3. /\ w = [data |-> w.data, present |-> w.present, rescues |-> w.rescues,
              inverses |-> w.inverses, buffers |-> w.buffers, cursor |-> w.cursor]
      /\ Len(w.data) \in Nat /\ DOMAIN w.data = 1..Len(w.data)
      /\ IsArray(w.present) /\ IsArray(w.rescues) /\ IsCache(w.inverses)
      /\ w.buffers \in Seq(Seq(Field)) /\ w.cursor \in Nat /\ w.cursor <= Len(w.buffers)
  BY DEF IsWorkspace, IsArray
<1>7. \A j \in 0..(N - 1) : j + 1 \in DOMAIN w.data /\ (j # i => j + 1 # i + 1)
  <2>1. PICK l \in Nat : l = Len(w.data) /\ DOMAIN w.data = 1..l /\ N <= l
    BY <1>3
  <2>2. \A j \in 0..(N - 1) : j + 1 \in 1..l /\ (j # i => j + 1 # i + 1)
    BY <1>1, <2>1
  <2> QED BY <2>1, <2>2
<1>5. CASE size = 0
  <2>1. PICK slot : slot = SlotOfPayload(<<>>)
    OBVIOUS
  <2>2. new = [w EXCEPT !.data[i + 1] = slot]
    BY <1>2, <1>5, <2>1 DEF HandOut
  <2>3. /\ new = [data |-> [w.data EXCEPT ![i + 1] = slot], present |-> w.present, rescues |-> w.rescues,
                  inverses |-> w.inverses, buffers |-> w.buffers, cursor |-> w.cursor]
    BY <1>3, <2>2
  <2>4. /\ DOMAIN new.data = DOMAIN w.data /\ new.data[i + 1] = slot
        /\ \A j \in DOMAIN w.data : j # i + 1 => new.data[j] = w.data[j]
        /\ new.present = w.present /\ new.rescues = w.rescues /\ new.inverses = w.inverses
        /\ new.buffers = w.buffers /\ new.cursor = w.cursor
    BY <1>7, <2>3
  <2>5. Len(new.data) = Len(w.data)
    BY <1>3, <2>4
  <2>6. IsWorkspace(new)
    BY <1>3, <2>3, <2>4, <2>5 DEF IsWorkspace, IsArray
  <2>7. HoldsFrame(slot, new, file, i)
    <3>1. Slice(file, i) = <<>>
      BY <1>2, <1>5
    <3>2. slot.size = 0 /\ slot.buffer = 0 /\ slot.bytes = <<>> /\ slot # Empty
      BY <2>1 DEF SlotOfPayload, Empty
    <3>3. Read(slot, new.buffers) = <<>>
      BY <3>2 DEF Read
    <3> QED BY <1>2, <1>3, <1>5, <2>4, <3>1, <3>2, <3>3 DEF HoldsFrame
  <2>8. ASSUME NEW j \in 0..(N - 1), j # i
        PROVE  /\ j \in S => HoldsFrame(new.data[j + 1], new, file, j)
               /\ j \notin S => new.data[j + 1] = Empty
    <3>1. j + 1 \in DOMAIN w.data /\ j + 1 # i + 1
      BY <1>7, <2>8
    <3>2. new.data[j + 1] = w.data[j + 1]
      BY <2>4, <3>1
    <3> QED BY <2>4, <3>2 DEF Holds, HoldsFrame
  <2>9. Holds(new, file, S \cup {i})
    BY <2>4, <2>7, <2>8 DEF Holds
  <2> QED BY <2>4, <2>5, <2>6, <2>9 DEF Keeps
<1>6. CASE size # 0
  <2>1. PICK next \in Nat : next = w.cursor + 1 /\ next > 0
    BY <1>3
  <2>2. PICK old \in Seq(Field) : old = IF next <= Len(w.buffers) THEN w.buffers[next] ELSE <<>>
    <3>1. <<>> \in Seq(Field)
      OBVIOUS
    <3>2. next <= Len(w.buffers) => w.buffers[next] \in Seq(Field)
      BY <1>3, <2>1
    <3> QED BY <3>1, <3>2
  <2>3. PICK rest \in Seq(Field) : rest = SubSeq(old, size + 1, Len(old))
    <3>1. \A k \in (size + 1)..Len(old) : old[k] \in Field
      OBVIOUS
    <3>2. size + 1 \in Int /\ Len(old) \in Int
      OBVIOUS
    <3>3. SubSeq(old, size + 1, Len(old)) \in Seq(Field)
      BY <3>1, <3>2, SubSeqProperties
    <3> QED BY <3>3
  <2>4. PICK fresh \in Seq(Field) : /\ fresh = SubSeq(row, 1, size) \o rest
                                    /\ SubSeq(fresh, 1, size) = SubSeq(row, 1, size)
    <3>1. PICK s \in Seq(Field) : s = SubSeq(row, 1, size) /\ Len(s) = size
      BY <1>2
    <3>2. s \o rest \in Seq(Field)
      BY ConcatProperties
    <3>3. SubSeq(s \o rest, 1, size) = SubSeq(s, 1, size)
      <4>1. 1 \in 1..Len(s) /\ size \in 1..Len(s)
        BY <1>6, <3>1
      <4> QED BY <4>1, SubSeqOfConcat1
    <3>4. SubSeq(s, 1, size) = s
      BY <3>1, SubSeqFull
    <3> QED BY <3>1, <3>2, <3>3, <3>4
  <2>5. PICK buffers : buffers = SubSeq(w.buffers, 1, w.cursor) \o <<fresh>>
                                   \o SubSeq(w.buffers, next + 1, Len(w.buffers))
    OBVIOUS
  <2>6. /\ buffers \in Seq(Seq(Field)) /\ Len(buffers) >= next
        /\ buffers[next] = fresh /\ \A b \in 1..w.cursor : buffers[b] = w.buffers[b]
    <3>1. PICK all \in Seq(Seq(Field)) : all = w.buffers
      BY <1>3
    <3>2. PICK c \in Nat : c = w.cursor
      BY <1>3
    <3>3. c <= Len(all) /\ next = c + 1
      BY <1>3, <2>1, <3>1, <3>2
    <3>4. buffers = Replaced(all, c, fresh)
      <4>1. next + 1 = c + 2
        BY <3>3
      <4> QED BY <2>5, <3>1, <3>2, <4>1 DEF Replaced
    <3>5. /\ buffers \in Seq(Seq(Field)) /\ Len(buffers) >= next
          /\ buffers[next] = fresh /\ \A b \in 1..c : buffers[b] = all[b]
      <4>1. all \in Seq(Seq(Field)) /\ fresh \in Seq(Field) /\ c <= Len(all) /\ c \in Nat
            /\ next \in Nat /\ next = c + 1
        BY <2>1, <3>3
      <4>2. IsReplaced(Replaced(all, c, fresh), Seq(Field), all, next, fresh)
        BY <4>1, OneReplaced
      <4>3. next - 1 = c
        BY <4>1
      <4> QED BY <3>4, <4>2, <4>3 DEF IsReplaced
    <3> QED BY <3>1, <3>2, <3>3, <3>5
  <2>7. PICK slot : slot = SlotOfBuffer(next, size)
    OBVIOUS
  <2>8. new = [w EXCEPT !.cursor = next, !.buffers = buffers, !.data[i + 1] = slot]
    <3>1. fresh = SubSeq(row, 1, size) \o SubSeq(old, size + 1, Len(old))
      BY <2>3, <2>4
    <3>2. new = [w EXCEPT !.cursor = next,
                          !.buffers = SubSeq(@, 1, w.cursor) \o <<fresh>> \o SubSeq(@, next + 1, Len(@)),
                          !.data[i + 1] = slot]
      BY <1>2, <1>6, <2>1, <2>2, <2>7, <3>1, Zenon DEF HandOut
    <3> QED BY <1>3, <2>5, <3>2
  <2>9. new = [data |-> [w.data EXCEPT ![i + 1] = slot], present |-> w.present, rescues |-> w.rescues,
               inverses |-> w.inverses, buffers |-> buffers, cursor |-> next]
    BY <1>3, <2>8
  <2>10. /\ DOMAIN new.data = DOMAIN w.data /\ new.data[i + 1] = slot
         /\ \A j \in DOMAIN w.data : j # i + 1 => new.data[j] = w.data[j]
         /\ new.present = w.present /\ new.rescues = w.rescues /\ new.inverses = w.inverses
         /\ new.buffers = buffers /\ new.cursor = next
    BY <1>7, <2>9
  <2>11. Len(new.data) = Len(w.data)
    BY <1>3, <2>10
  <2>12. IsWorkspace(new)
    BY <1>3, <2>6, <2>9, <2>10, <2>11 DEF IsWorkspace, IsArray
  <2>13. HoldsFrame(slot, new, file, i)
    <3>1. slot.size = size /\ slot.buffer = next /\ slot # Empty
      BY <2>1, <2>7 DEF SlotOfBuffer, Empty
    <3>2. Read(slot, new.buffers) = SubSeq(buffers[next], 1, size)
      BY <2>1, <2>10, <3>1 DEF Read
    <3>3. Read(slot, new.buffers) = Slice(file, i)
      BY <1>2, <2>4, <2>6, <3>2
    <3> QED BY <1>2, <2>1, <2>10, <3>1, <3>3 DEF HoldsFrame
  <2>14. ASSUME NEW j \in 0..(N - 1), j # i
         PROVE  /\ j \in S => HoldsFrame(new.data[j + 1], new, file, j)
                /\ j \notin S => new.data[j + 1] = Empty
    <3>1. j + 1 \in DOMAIN w.data /\ j + 1 # i + 1
      BY <1>7, <2>14
    <3>2. new.data[j + 1] = w.data[j + 1]
      BY <2>10, <3>1
    <3>3. PICK other : other = w.data[j + 1]
      OBVIOUS
    <3>4. ASSUME HoldsFrame(other, w, file, j) PROVE HoldsFrame(other, new, file, j)
      <4>1. other.buffer \in Int /\ other.buffer <= w.cursor
        BY <3>4 DEF HoldsFrame
      <4>2. Read(other, buffers) = Read(other, w.buffers)
        <5>1. CASE other.buffer > 0
          <6>1. other.buffer \in 1..w.cursor
            BY <1>3, <4>1, <5>1
          <6>2. buffers[other.buffer] = w.buffers[other.buffer]
            BY <2>6, <6>1
          <6> QED BY <5>1, <6>2 DEF Read
        <5>2. CASE ~(other.buffer > 0)
          BY <5>2 DEF Read
        <5> QED BY <5>1, <5>2
      <4>3. other.buffer <= next
        BY <1>3, <2>1, <4>1
      <4> QED BY <2>10, <3>4, <4>2, <4>3 DEF HoldsFrame
    <3>5. j \in S => HoldsFrame(other, w, file, j)
      BY <3>3 DEF Holds
    <3>6. j \notin S => other = Empty
      BY <3>3 DEF Holds
    <3> QED BY <3>2, <3>3, <3>4, <3>5, <3>6
  <2>15. Holds(new, file, S \cup {i})
    BY <2>10, <2>13, <2>14 DEF Holds
  <2> QED BY <2>10, <2>11, <2>12, <2>15 DEF Keeps
<1> QED BY <1>5, <1>6

-----------------------------------------------------------------------------
(* The workspaces while the rows are handed out. *)
HandsOut(f, w, missing, rows, total, n) ==
  /\ f[0] = w
  /\ \A k \in 1..n : f[k] = HandOut(f[k - 1], missing[k], rows[k], total)

(* There is a workspace after every row that is handed out.                *)
LEMMA HandOutsExist ==
  ASSUME NEW n \in Nat, NEW w, NEW missing, NEW rows, NEW total
  PROVE  \E f : DOMAIN f = 0..n /\ HandsOut(f, w, missing, rows, total, n)
<1> DEFINE E == {k \in 0..n : \E f : DOMAIN f = 0..k /\ HandsOut(f, w, missing, rows, total, k)}
<1>1. 0 \in E
  <2>1. PICK k \in 0..n : k = 0
    OBVIOUS
  <2>2. PICK f : f = [i \in 0..k |-> w]
    OBVIOUS
  <2>3. DOMAIN f = 0..k /\ f[0] = w /\ 1..k = {}
    BY <2>1, <2>2
  <2>4. HandsOut(f, w, missing, rows, total, k)
    BY <2>3 DEF HandsOut
  <2> QED BY <2>1, <2>3, <2>4
<1>2. ASSUME NEW k \in E, k < n PROVE k + 1 \in E
  <2>1. k \in 0..n /\ k + 1 \in 0..n /\ \E f : DOMAIN f = 0..k /\ HandsOut(f, w, missing, rows, total, k)
    BY <1>2
  <2>2. PICK f : DOMAIN f = 0..k /\ HandsOut(f, w, missing, rows, total, k)
    BY <2>1
  <2>3. PICK next : next = HandOut(f[k], missing[k + 1], rows[k + 1], total)
    OBVIOUS
  <2>4. PICK g : g = [i \in 0..(k + 1) |-> IF i = k + 1 THEN next ELSE f[i]]
    OBVIOUS
  <2>5. \A i \in 0..k : i \in 0..(k + 1) /\ i # k + 1 /\ g[i] = f[i]
    BY <2>1, <2>4
  <2>6. g[k + 1] = next /\ k \in 0..k /\ 0 \in 0..k
    BY <2>1, <2>4
  <2>7. ASSUME NEW i \in 1..(k + 1) PROVE g[i] = HandOut(g[i - 1], missing[i], rows[i], total)
    <3>1. CASE i \in 1..k
      <4>1. i \in 0..k /\ i - 1 \in 0..k
        BY <2>1, <3>1
      <4>2. f[i] = HandOut(f[i - 1], missing[i], rows[i], total)
        BY <2>2, <3>1 DEF HandsOut
      <4> QED BY <2>5, <4>1, <4>2
    <3>2. CASE i = k + 1
      <4>1. i - 1 = k
        BY <2>1, <3>2
      <4> QED BY <2>3, <2>5, <2>6, <3>2, <4>1
    <3>3. i \in 1..k \/ i = k + 1
      BY <2>1
    <3> QED BY <3>1, <3>2, <3>3
  <2>8. g[0] = w
    BY <2>2, <2>5, <2>6 DEF HandsOut
  <2>9. HandsOut(g, w, missing, rows, total, k + 1)
    BY <2>7, <2>8 DEF HandsOut
  <2>10. DOMAIN g = 0..(k + 1)
    BY <2>4
  <2> QED BY <2>1, <2>9, <2>10
<1>3. n \in E
  <2>1. E \in SUBSET (0..n) /\ n \in 0..n
    OBVIOUS
  <2> HIDE DEF E
  <2> QED BY <1>1, <1>2, <2>1, InductionFromZero
<1> QED BY <1>3

(* HandOutRows returns the last of them.                                   *)
LEMMA HandOutIsLast ==
  ASSUME NEW w, NEW missing, NEW rows, NEW total, NEW n \in Nat, n = Len(rows)
  PROVE  \E f : HandsOut(f, w, missing, rows, total, n) /\ HandOutRows(w, missing, rows, total) = f[n]
<1> DEFINE Goes(g) == g = [k \in 0..Len(rows) |-> IF k = 0 THEN w
                                               ELSE HandOut(g[k - 1], missing[k], rows[k], total)]
           after == CHOOSE g : Goes(g)
<1>1. Goes(after)
  <2>1. PICK f : DOMAIN f = 0..n /\ HandsOut(f, w, missing, rows, total, n)
    BY HandOutsExist
  <2>2. PICK g : g = [k \in 0..n |-> f[k]]
    OBVIOUS
  <2>3. \A k \in 0..n : g[k] = IF k = 0 THEN w ELSE HandOut(g[k - 1], missing[k], rows[k], total)
    <3>1. ASSUME NEW k \in 0..n, k # 0 PROVE g[k] = HandOut(g[k - 1], missing[k], rows[k], total)
      <4>1. k \in 1..n /\ k - 1 \in 0..n
        BY <3>1
      <4> QED BY <2>1, <2>2, <4>1 DEF HandsOut
    <3> QED BY <2>1, <2>2, <3>1 DEF HandsOut
  <2>4. Goes(g)
    BY <2>2, <2>3, Zenon
  <2> HIDE DEF Goes
  <2> QED BY <2>4
<1>2. HandOutRows(w, missing, rows, total) = after[Len(rows)]
  BY Zenon DEF HandOutRows
<1> HIDE DEF after
<1>3. PICK g : g = after
  OBVIOUS
<1>4. g = [k \in 0..n |-> IF k = 0 THEN w ELSE HandOut(g[k - 1], missing[k], rows[k], total)]
  BY <1>1, <1>3
<1>5. \A k \in 0..n : g[k] = IF k = 0 THEN w ELSE HandOut(g[k - 1], missing[k], rows[k], total)
  BY <1>4
<1>6. HandsOut(g, w, missing, rows, total, n)
  <2>1. 0 \in 0..n /\ \A k \in 1..n : k \in 0..n /\ k # 0
    OBVIOUS
  <2> QED BY <1>5, <2>1 DEF HandsOut
<1> QED BY <1>2, <1>3, <1>6

AreRowsOf(rows, file, missing, m) ==
  Len(rows) = m /\ \A k \in 1..m : IsRowOf(rows[k], file, missing[k])

Listed(seq, m) == {seq[k] : k \in 1..m}

(* After all rows are handed out all missing slots are right.              *)
LEMMA HandOutRowsHolds ==
  ASSUME cfg \in Configs, NEW file \in Files, NEW w, IsWorkspace(w), NEW S, Holds(w, file, S),
         NEW N, N = DataFrames(Len(file), cfg), N <= Len(w.data),
         NEW m \in Nat, NEW missing \in [1..m -> 0..(N - 1)], NEW rows,
         AreRowsOf(rows, file, missing, m),
         NEW new, new = HandOutRows(w, missing, rows, Len(file))
  PROVE  /\ IsWorkspace(new) /\ Holds(new, file, S \cup Listed(missing, m))
         /\ Keeps(new, w)
<1>1. PICK total : total = Len(file)
  OBVIOUS
<1>2. PICK f : HandsOut(f, w, missing, rows, total, m) /\ new = f[m]
  BY <1>1, HandOutIsLast DEF AreRowsOf
<1> DEFINE Upto(k) == S \cup {missing[j] : j \in 1..k}
           E == {k \in 0..m : IsWorkspace(f[k]) /\ Holds(f[k], file, Upto(k)) /\ Keeps(f[k], w)}
<1>3. 0 \in E
  <2>1. f[0] = w
    BY <1>2 DEF HandsOut
  <2>2. PICK k \in 0..m : k = 0
    OBVIOUS
  <2>3. Upto(k) = S
    <3>1. 1..k = {}
      BY <2>2
    <3> QED BY <3>1
  <2> HIDE DEF Upto
  <2>4. Keeps(w, w)
    BY DEF Keeps
  <2> QED BY <2>1, <2>2, <2>3, <2>4
<1>4. ASSUME NEW k \in E, k < m PROVE k + 1 \in E
  <2>1. k \in 0..m /\ k + 1 \in 1..m /\ k + 1 \in 0..m /\ (k + 1) - 1 = k
    BY <1>4
  <2>2. IsWorkspace(f[k]) /\ Holds(f[k], file, Upto(k)) /\ Keeps(f[k], w)
    BY <1>4
  <2>3. PICK i \in 0..(N - 1) : i = missing[k + 1]
    BY <2>1
  <2>4. PICK row : row = rows[k + 1] /\ IsRowOf(row, file, i)
    BY <2>1, <2>3 DEF AreRowsOf
  <2>5. f[k + 1] = HandOut(f[k], i, row, Len(file))
    BY <1>1, <1>2, <2>1, <2>3, <2>4 DEF HandsOut
  <2>6. PICK T : T = Upto(k)
    OBVIOUS
  <2>7. Upto(k + 1) = T \cup {i}
    <3>1. \A j \in 1..(k + 1) : j \in 1..k \/ j = k + 1
      BY <2>1
    <3>2. k + 1 \in 1..(k + 1) /\ \A j \in 1..k : j \in 1..(k + 1)
      BY <2>1
    <3> QED BY <2>3, <2>6, <3>1, <3>2
  <2> HIDE DEF Upto
  <2>8. PICK old : old = f[k] /\ IsWorkspace(old) /\ Holds(old, file, T) /\ Keeps(old, w)
    BY <2>2, <2>6
  <2>9. N <= Len(old.data)
    BY <2>8 DEF Keeps
  <2>10. PICK next : next = HandOut(old, i, row, Len(file))
    OBVIOUS
  <2>11. IsWorkspace(next) /\ Holds(next, file, T \cup {i}) /\ Keeps(next, old)
    <3>1. N = DataFrames(Len(file), cfg) /\ IsRowOf(row, file, i)
      BY <2>4
    <3> QED BY <2>8, <2>9, <2>10, <3>1, HandOutHolds
  <2>12. Keeps(next, w)
    BY <2>8, <2>11 DEF Keeps
  <2>13. next = f[k + 1]
    BY <2>5, <2>8, <2>10
  <2> QED BY <2>1, <2>7, <2>11, <2>12, <2>13
<1>5. m \in E
  <2>1. E \in SUBSET (0..m) /\ m \in 0..m
    OBVIOUS
  <2> HIDE DEF E
  <2> QED BY <1>3, <1>4, <2>1, InductionFromZero
<1> QED BY <1>2, <1>5 DEF Listed

-----------------------------------------------------------------------------

(* A residual is what the missing frames add to a rescue frame.            *)
LEMMA ResidualIsLeft ==
  ASSUME cfg \in Configs, NEW file \in Files, NEW w, NEW s \in Nat,
         NEW r \in 0..(cfg.RescueFramesPerBlock - 1), RescueIs(w, file, s, r),
         NEW m \in Nat, NEW slots, Picks(slots, m, cfg.DataFramesPerBlock),
         BlockIs(w, file, s, slots, m), NEW k \in 1..cfg.PayloadSize
  PROVE  Residual(w, s, Len(file), r)[k] = Left(file, s, slots, m, r, k)
<1>1. PICK K \in Nat : K = cfg.DataFramesPerBlock
  BY ConfigFacts
<1>2. PICK R \in Nat : R = cfg.RescueFramesPerBlock
  BY ConfigFacts
<1>3. PICK P \in Nat : P = cfg.PayloadSize
  BY ConfigFacts
<1>4. r \in 0..(R - 1) /\ Picks(slots, m, K) /\ k \in 1..P
  BY <1>1, <1>2, <1>3
<1>5. Residual(w, s, Len(file), r)[k] = Left(file, s, slots, m, r, k)
  BY <1>1, <1>2, <1>3, <1>4, ResidualIs
<1> QED BY <1>5

(* The entries of a system are the coefficients of its frames.             *)
LEMMA SystemEntry ==
  ASSUME cfg \in Configs, NEW n \in Nat, NEW slots, NEW used,
         Picks(slots, n, cfg.DataFramesPerBlock), Picks(used, n, cfg.RescueFramesPerBlock),
         NEW q \in 1..n, NEW c \in 1..n
  PROVE  SystemOf(slots, used)[q][c] = Coefficient(used[q], slots[c])
BY SystemIsCauchy

(* Byte k of the missing payloads. *)
Unknowns(file, missing, m, k) == [d \in 1..m |-> Padded(Slice(file, missing[d]), k)]

(* A repair may be tried: the frames of the block at s that are missing,    *)
(* their slots, and as many rescue frames of the block.                     *)
IsRepair(w, file, s, missing, slots, used, m) ==
  /\ missing \in [1..m -> 0..(DataFrames(Len(file), cfg) - 1)]
  /\ slots = [k \in 1..m |-> missing[k] - s]
  /\ IsKey(slots, used, m) /\ BlockIs(w, file, s, slots, m)
  /\ \A q \in 1..m : RescueIs(w, file, s, used[q])

(* The unknowns of a system, padded, are elements of the field.            *)
LEMMA UnknownsAre ==
  ASSUME cfg \in Configs, NEW file \in Files, NEW m \in Nat,
         NEW missing \in [1..m -> 0..(DataFrames(Len(file), cfg) - 1)], NEW k \in Nat \ {0}
  PROVE  Unknowns(file, missing, m, k) \in [1..m -> Field]
<1>1. PICK N \in Nat : N = DataFrames(Len(file), cfg)
  BY FileFacts
<1>2. ASSUME NEW d \in 1..m PROVE Padded(Slice(file, missing[d]), k) \in Field
  <2>1. PICK i \in Nat : i = missing[d] /\ i < N
    BY <1>1
  <2>2. PICK slice \in Seq(Field) : slice = Slice(file, i)
    BY <1>1, <2>1, SliceIs
  <2>3. Padded(slice, k) \in Field
    BY PaddedIs
  <2> QED BY <2>1, <2>2, <2>3
<1> QED BY <1>2 DEF Unknowns

(* The products of the system and the missing bytes are what the rescue     *)
(* frames have left.                                                       *)
LEMMA ResidualsAreProducts ==
  ASSUME cfg \in Configs, NEW file \in Files, NEW w, NEW s \in Nat, NEW m \in Nat,
         NEW missing, NEW slots, NEW used, IsRepair(w, file, s, missing, slots, used, m),
         NEW q \in 1..m, NEW k \in 1..cfg.PayloadSize
  PROVE  Residual(w, s, Len(file), used[q])[k]
           = Dot(SystemOf(slots, used)[q], Unknowns(file, missing, m, k), m)
<1>1. PICK x : x = Unknowns(file, missing, m, k)
  OBVIOUS
<1>2. PICK system : system = SystemOf(slots, used)
  OBVIOUS
<1>4. /\ missing \in [1..m -> 0..(DataFrames(Len(file), cfg) - 1)]
      /\ slots = [d \in 1..m |-> missing[d] - s]
      /\ Picks(slots, m, cfg.DataFramesPerBlock) /\ Picks(used, m, cfg.RescueFramesPerBlock)
      /\ BlockIs(w, file, s, slots, m) /\ RescueIs(w, file, s, used[q])
  BY DEF IsRepair, IsKey
<1>5. PICK r \in 0..(cfg.RescueFramesPerBlock - 1) : r = used[q]
  BY <1>4 DEF Picks
<1>6. RescueIs(w, file, s, r)
  BY <1>4, <1>5
<1>8. Residual(w, s, Len(file), r)[k] = Left(file, s, slots, m, r, k)
  BY <1>4, <1>6, ResidualIsLeft
<1>9. ASSUME NEW d \in 1..m
      PROVE  Mul(Coefficient(r, slots[d]), Padded(Slice(file, s + slots[d]), k)) = Mul(system[q][d], x[d])
  <2>1. system[q][d] = Coefficient(used[q], slots[d])
    <3>1. Picks(slots, m, cfg.DataFramesPerBlock) /\ Picks(used, m, cfg.RescueFramesPerBlock)
      BY <1>4
    <3>2. SystemOf(slots, used)[q][d] = Coefficient(used[q], slots[d])
      BY <3>1, SystemEntry
    <3> QED BY <1>2, <3>2
  <2>2. s + slots[d] = missing[d]
    <3>1. PICK i \in Int : i = missing[d]
      <4>1. PICK N \in Nat : N = DataFrames(Len(file), cfg)
        BY FileFacts
      <4> QED BY <1>4, <4>1
    <3>2. slots[d] = i - s
      BY <1>4, <3>1
    <3> QED BY <3>1, <3>2
  <2>3. x[d] = Padded(Slice(file, missing[d]), k)
    BY <1>1 DEF Unknowns
  <2> QED BY <1>5, <2>1, <2>2, <2>3
<1>10. [c \in 1..m |-> Mul(Coefficient(r, slots[c]), Padded(Slice(file, s + slots[c]), k))]
         = [d \in 1..m |-> Mul(system[q][d], x[d])]
  BY <1>9
<1> QED BY <1>1, <1>2, <1>5, <1>8, <1>10 DEF Left, Dot

(* An inverse of the system times the residuals gives the missing rows.    *)
LEMMA RowsAreRight ==
  ASSUME cfg \in Configs, NEW file \in Files, NEW w, NEW s \in Nat, NEW m \in Nat,
         NEW missing, NEW slots, NEW used, IsRepair(w, file, s, missing, slots, used, m),
         NEW inverse, Inverts(inverse, SystemOf(slots, used), m),
         NEW residuals, residuals = [q \in DOMAIN used |-> Residual(w, s, Len(file), used[q])],
         NEW rows, rows = Rows(inverse, residuals)
  PROVE  AreRowsOf(rows, file, missing, m)
<1>1. /\ missing \in [1..m -> 0..(DataFrames(Len(file), cfg) - 1)]
      /\ Picks(slots, m, cfg.DataFramesPerBlock) /\ Picks(used, m, cfg.RescueFramesPerBlock)
  BY DEF IsRepair, IsKey
<1>2. PICK system : system = SystemOf(slots, used)
  OBVIOUS
<1>3. system \in Matrices(m) /\ Inverts(inverse, system, m)
  BY <1>1, <1>2, SystemIsCauchy
<1>4. DOMAIN inverse = 1..m /\ DOMAIN residuals = 1..m /\ DOMAIN used = 1..m
  <2>1. DOMAIN inverse = 1..m
    BY <1>3 DEF Inverts, Matrices
  <2>2. DOMAIN used = 1..m
    BY <1>1 DEF Picks
  <2> QED BY <2>1, <2>2
<1>5. PICK P \in Nat : P = cfg.PayloadSize
  BY ConfigFacts
<1> DEFINE Byte(c, k) == SumOf([q \in 1..m |-> Mul(inverse[c][q], residuals[q][k])])
<1>6. rows = [c \in 1..m |-> [k \in 1..P |-> Byte(c, k)]]
  BY <1>4, <1>5 DEF Rows
<1>7. ASSUME NEW c \in 1..m, NEW k \in 1..P
      PROVE  /\ Byte(c, k) = Padded(Slice(file, missing[c]), k)
             /\ Padded(Slice(file, missing[c]), k) \in Field
  <2>1. PICK x : x = Unknowns(file, missing, m, k)
    OBVIOUS
  <2>2. x \in [1..m -> Field]
    <3>1. k \in Nat \ {0}
      OBVIOUS
    <3> QED BY <1>1, <2>1, <3>1, UnknownsAre
  <2>3. PICK b : b = Products(system, x, m)
    OBVIOUS
  <2>4. \A q \in 1..m : residuals[q][k] = b[q]
    <3>1. SUFFICES ASSUME NEW q \in 1..m PROVE residuals[q][k] = b[q]
      OBVIOUS
    <3>2. k \in 1..cfg.PayloadSize
      BY <1>5
    <3>3. Residual(w, s, Len(file), used[q])[k]
            = Dot(SystemOf(slots, used)[q], Unknowns(file, missing, m, k), m)
      BY <3>2, ResidualsAreProducts
    <3>5. b[q] = Dot(system[q], x, m)
      BY <2>3 DEF Products
    <3>4. residuals[q] = Residual(w, s, Len(file), used[q])
      BY <1>4
    <3> QED BY <1>2, <2>1, <3>3, <3>4, <3>5
  <2>5. Dot(inverse[c], b, m) = x[c]
    BY <1>3, <2>2, <2>3, InverseSolves
  <2>6. [q \in 1..m |-> Mul(inverse[c][q], residuals[q][k])] = [q \in 1..m |-> Mul(inverse[c][q], b[q])]
    <3>1. \A q \in 1..m : Mul(inverse[c][q], residuals[q][k]) = Mul(inverse[c][q], b[q])
      BY <2>4
    <3> QED BY <3>1
  <2>7. x[c] = Padded(Slice(file, missing[c]), k)
    BY <2>1 DEF Unknowns
  <2>8. x[c] \in Field
    BY <2>2
  <2>9. Byte(c, k) = Dot(inverse[c], b, m)
    BY <2>6 DEF Dot
  <2> QED BY <2>5, <2>7, <2>8, <2>9
<1> HIDE DEF Byte
<1>8. Len(rows) = m
  BY <1>6
<1>9. ASSUME NEW c \in 1..m PROVE IsRowOf(rows[c], file, missing[c])
  <2>1. rows[c] = [k \in 1..P |-> Byte(c, k)]
    BY <1>6
  <2>2. rows[c] = [k \in 1..P |-> Padded(Slice(file, missing[c]), k)]
    BY <1>7, <2>1
  <2>3. rows[c] \in [1..P -> Field]
    BY <1>7, <2>2
  <2> QED BY <1>5, <2>2, <2>3 DEF IsRowOf
<1> QED BY <1>8, <1>9 DEF AreRowsOf

(* A repair leaves a workspace that holds the frames in S. *)
Mends(new, w, file, S) ==
  /\ IsWorkspace(new) /\ Holds(new, file, S)
  /\ new.rescues = w.rescues /\ Len(new.data) = Len(w.data)

(* Solving hands out every missing frame. *)
LEMMA SolvedHolds ==
  ASSUME cfg \in Configs, NEW file \in Files, NEW w, IsWorkspace(w), NEW S, Holds(w, file, S),
         DataFrames(Len(file), cfg) <= Len(w.data), NEW s \in Nat,
         NEW m \in Nat \ {0}, NEW missing, NEW slots, NEW used,
         IsRepair(w, file, s, missing, slots, used, m),
         NEW new, new = Solved(w, s, Len(file), missing, used)
  PROVE  Mends(new, w, file, S \cup Listed(missing, m))
<1>16. PICK N : N = DataFrames(Len(file), cfg) /\ N <= Len(w.data)
  OBVIOUS
<1>1. /\ missing \in [1..m -> 0..(N - 1)] /\ slots = [k \in 1..m |-> missing[k] - s]
      /\ IsKey(slots, used, m)
  BY <1>16 DEF IsRepair
<1>2. PICK inverses : inverses = IF Len(slots) < 3 THEN w.inverses
                                 ELSE WithInverse(w.inverses, slots, used)
  OBVIOUS
<1>3. PICK after : after = IF Len(slots) < 3 THEN w
                           ELSE [w EXCEPT !.inverses = WithInverse(@, slots, used)]
  OBVIOUS
<1>4. /\ w = [data |-> w.data, present |-> w.present, rescues |-> w.rescues,
              inverses |-> w.inverses, buffers |-> w.buffers, cursor |-> w.cursor]
      /\ IsCache(w.inverses)
  BY DEF IsWorkspace
<1>5. after = [data |-> w.data, present |-> w.present, rescues |-> w.rescues,
               inverses |-> inverses, buffers |-> w.buffers, cursor |-> w.cursor]
  <2>1. CASE Len(slots) < 3
    <3>1. after = w /\ inverses = w.inverses
      BY <1>2, <1>3, <2>1
    <3> QED BY <1>4, <3>1
  <2>2. CASE ~(Len(slots) < 3)
    <3>1. inverses = WithInverse(w.inverses, slots, used)
      BY <1>2, <2>2
    <3>2. after = [w EXCEPT !.inverses = inverses]
      BY <1>3, <2>2, <3>1
    <3> QED BY <1>4, <3>2
  <2> QED BY <2>1, <2>2
<1>6. /\ after.data = w.data /\ after.present = w.present /\ after.rescues = w.rescues
      /\ after.inverses = inverses /\ after.buffers = w.buffers /\ after.cursor = w.cursor
  BY <1>5
<1>7. IsCache(inverses) /\ Inverts(InverseOf(inverses, slots, used), SystemOf(slots, used), m)
  BY <1>1, <1>2, <1>4, InverseWorks
<1>8. IsWorkspace(after)
  BY <1>5, <1>6, <1>7 DEF IsWorkspace
<1>9. Holds(after, file, S)
  BY <1>6 DEF Holds, HoldsFrame
<1>10. PICK residuals : residuals = [q \in DOMAIN used |-> Residual(w, s, Len(file), used[q])]
  OBVIOUS
<1>11. PICK rows : rows = Rows(InverseOf(inverses, slots, used), residuals)
  OBVIOUS
<1>12. AreRowsOf(rows, file, missing, m)
  BY <1>7, <1>10, <1>11, RowsAreRight
<1>13. new = HandOutRows(after, missing, rows, Len(file))
  <2>1. DOMAIN missing = 1..m
    BY <1>1
  <2>2. slots = [k \in DOMAIN missing |-> missing[k] - s]
    BY <1>1, <2>1
  <2>3. InverseOf(after.inverses, slots, used) = InverseOf(inverses, slots, used)
    BY <1>6
  <2> QED BY <1>3, <1>10, <1>11, <2>2, <2>3 DEF Solved
<1>14. N <= Len(after.data)
  BY <1>6, <1>16
<1>15. IsWorkspace(new) /\ Holds(new, file, S \cup Listed(missing, m)) /\ Keeps(new, after)
  BY <1>1, <1>8, <1>9, <1>12, <1>13, <1>14, <1>16, HandOutRowsHolds
<1> QED BY <1>6, <1>15 DEF Keeps, Mends

-----------------------------------------------------------------------------

(* The frames of the block at s that S lacks, and the rescue frames of the  *)
(* block that are known.                                                   *)
Lacks(file, s, S) == BlockFrames(s, DataFrames(Len(file), cfg), cfg) \ S

Spares(file, s, known) == RescuesOf(s, known, Len(file), cfg)

(* The frames a block misses, and its spare rescue frames, are few.        *)
LEMMA LacksIsFinite ==
  ASSUME cfg \in Configs, NEW file \in Files, NEW s, NEW S, NEW known,
         NEW N \in Nat, N = DataFrames(Len(file), cfg),
         NEW R \in Nat, R = cfg.RescueFramesPerBlock
  PROVE  /\ Lacks(file, s, S) \in SUBSET (0..(N - 1)) /\ IsFiniteSet(Lacks(file, s, S))
         /\ Spares(file, s, known) \in SUBSET (0..(R - 1)) /\ IsFiniteSet(Spares(file, s, known))
<1>1. IsFiniteSet(0..(N - 1)) /\ IsFiniteSet(0..(R - 1))
  <2>1. N - 1 \in Int /\ R - 1 \in Int /\ 0 \in Int
    OBVIOUS
  <2> QED BY <2>1, FS_Interval
<1>2. Lacks(file, s, S) \in SUBSET (0..(N - 1))
  BY DEF Lacks, BlockFrames
<1>3. Spares(file, s, known) \in SUBSET (0..(R - 1))
  BY DEF Spares, RescuesOf
<1>4. IsFiniteSet(Lacks(file, s, S))
  BY <1>1, <1>2, FS_Subset
<1>5. IsFiniteSet(Spares(file, s, known))
  BY <1>1, <1>3, FS_Subset
<1> QED BY <1>2, <1>3, <1>4, <1>5

(* The slot of rescue frame r of the block at s once the known frames are   *)
(* filled in.                                                              *)
RescueSlot(file, s, r, known) ==
  IF RescueFrame(s, r, Len(file), cfg) \in known
  THEN SlotOfPayload(RescueBytes(BlockPayloads(NoPayloads, file, s), r)) ELSE Empty

HoldsRescues(w, file, known) ==
  \A b \in 1..BlockCount(DataFrames(Len(file), cfg), cfg) :
    \A r \in 0..(cfg.RescueFramesPerBlock - 1) :
      w.rescues[b][r + 1] = RescueSlot(file, (b - 1) * cfg.DataFramesPerBlock, r, known)

(* Block b starts at s. *)
StartsAt(b, s, file) ==
  /\ b \in 1..BlockCount(DataFrames(Len(file), cfg), cfg) /\ s \in Nat
  /\ s = (b - 1) * cfg.DataFramesPerBlock /\ s \div cfg.DataFramesPerBlock + 1 = b

(* A block number has a start.                                             *)
LEMMA BlockStart ==
  ASSUME cfg \in Configs, NEW file \in Files,
         NEW b \in 1..BlockCount(DataFrames(Len(file), cfg), cfg)
  PROVE  \E s \in Nat : StartsAt(b, s, file)
<1>1. PICK K \in Nat \ {0} : K = cfg.DataFramesPerBlock
  BY ConfigFacts
<1>2. PICK B \in Nat \ {0} : B = BlockCount(DataFrames(Len(file), cfg), cfg)
  <2>1. PICK N \in Nat \ {0} : N = DataFrames(Len(file), cfg)
    BY FileFacts
  <2>2. 0 \in Nat
    OBVIOUS
  <2>3. cfg.DataFramesPerBlock \in Nat \ {0}
    BY <1>1
  <2>4. BlockCount(N, cfg) \in Nat \ {0}
    BY <2>2, <2>3, BlockCountFacts
  <2> QED BY <2>1, <2>4
<1>3. PICK a \in Nat : a = b - 1 /\ a + 1 = b
  BY <1>2
<1>4. PICK s \in Nat : s = a * K /\ s \div K = a
  <2>1. 0 \in 0..(K - 1)
    OBVIOUS
  <2>2. a * K + 0 \in Nat /\ (a * K + 0) \div K = a
    BY <2>1, DivisionIsUnique
  <2>3. a * K \in Nat
    BY MultiplesKeepOrder
  <2>4. PICK s \in Nat : s = a * K
    BY <2>3
  <2>5. s + 0 = s
    OBVIOUS
  <2> QED BY <2>2, <2>4, <2>5
<1> QED BY <1>1, <1>3, <1>4 DEF StartsAt

(* The repair finds the frames that the block misses.                      *)
LEMMA MissingIs ==
  ASSUME cfg \in Configs, NEW file \in Files, NEW w, NEW S, Holds(w, file, S), NEW s
  PROVE  Missing(w, s, Len(file)) = Ascending(Lacks(file, s, S))
<1>1. \A i \in BlockFrames(s, DataFrames(Len(file), cfg), cfg) :
        /\ i \in 0..(DataFrames(Len(file), cfg) - 1)
        /\ w.data[i + 1] = Empty <=> i \notin S
  <2>1. SUFFICES ASSUME NEW i \in BlockFrames(s, DataFrames(Len(file), cfg), cfg)
                 PROVE  /\ i \in 0..(DataFrames(Len(file), cfg) - 1)
                        /\ w.data[i + 1] = Empty <=> i \notin S
    OBVIOUS
  <2>2. i \in 0..(DataFrames(Len(file), cfg) - 1)
    BY DEF BlockFrames
  <2> QED BY <2>2 DEF Holds, HoldsFrame
<1>2. {i \in BlockFrames(s, DataFrames(Len(file), cfg), cfg) : w.data[i + 1] = Empty}
        = Lacks(file, s, S)
  BY <1>1 DEF Lacks
<1> QED BY <1>2 DEF Missing

(* A rescue slot is filled just when its frame arrived.                    *)
LEMMA RescueSlotFacts ==
  ASSUME cfg \in Configs, NEW file \in Files, NEW s \in Nat, NEW known,
         NEW r \in 0..(cfg.RescueFramesPerBlock - 1)
  PROVE  /\ RescueSlot(file, s, r, known).size >= cfg.PayloadSize
              <=> RescueFrame(s, r, Len(file), cfg) \in known
         /\ RescueFrame(s, r, Len(file), cfg) \in known =>
              RescueSlot(file, s, r, known).bytes = RescueBytes(BlockPayloads(NoPayloads, file, s), r)
<1>1. PICK P \in Nat \ {0} : P = cfg.PayloadSize
  BY ConfigFacts
<1>2. CASE RescueFrame(s, r, Len(file), cfg) \in known
  <2>1. PICK bytes : bytes = RescueBytes(BlockPayloads(NoPayloads, file, s), r)
    OBVIOUS
  <2>2. Len(bytes) = P
    <3>1. r \in Nat /\ r < cfg.RescueFramesPerBlock
      <4>1. PICK R \in Nat : R = cfg.RescueFramesPerBlock
        BY ConfigFacts
      <4>2. r \in 0..(R - 1)
        BY <4>1
      <4>3. r \in Nat /\ r < R
        BY <4>2
      <4> QED BY <4>1, <4>3
    <3>4. DOMAIN NoPayloads = 1..cfg.DataFramesPerBlock
      BY DEF NoPayloads
    <3>2. PICK array : array = NoPayloads /\ DOMAIN array = 1..cfg.DataFramesPerBlock
      BY <3>4
    <3>3. Len(RescueBytes(BlockPayloads(array, file, s), r)) = cfg.PayloadSize
      BY <3>1, <3>2, RescueBytesAre
    <3> QED BY <1>1, <2>1, <3>2, <3>3
  <2>3. RescueSlot(file, s, r, known) = SlotOfPayload(bytes)
    BY <1>2, <2>1 DEF RescueSlot
  <2>4. SlotOfPayload(bytes).size = P /\ SlotOfPayload(bytes).bytes = bytes
    BY <2>2 DEF SlotOfPayload
  <2>5. P >= P
    OBVIOUS
  <2> QED BY <1>1, <1>2, <2>1, <2>3, <2>4, <2>5
<1>3. CASE RescueFrame(s, r, Len(file), cfg) \notin known
  <2>1. RescueSlot(file, s, r, known).size = 0
    BY <1>3 DEF RescueSlot, Empty
  <2>2. ~(0 >= P)
    OBVIOUS
  <2> QED BY <1>1, <1>3, <2>1, <2>2
<1> QED BY <1>2, <1>3

(* The repair finds the rescue frames that arrived.                        *)
LEMMA AvailableIs ==
  ASSUME cfg \in Configs, NEW file \in Files, NEW w, NEW known, HoldsRescues(w, file, known),
         NEW b, NEW s, StartsAt(b, s, file)
  PROVE  AvailableRescues(w, b) = Ascending(Spares(file, s, known))
<1>1. s \in Nat /\ b \in 1..BlockCount(DataFrames(Len(file), cfg), cfg)
      /\ s = (b - 1) * cfg.DataFramesPerBlock
  BY DEF StartsAt
<1>2. \A r \in 0..(cfg.RescueFramesPerBlock - 1) :
        w.rescues[b][r + 1].size >= cfg.PayloadSize <=> RescueFrame(s, r, Len(file), cfg) \in known
  <2>1. SUFFICES ASSUME NEW r \in 0..(cfg.RescueFramesPerBlock - 1)
                 PROVE  w.rescues[b][r + 1].size >= cfg.PayloadSize
                          <=> RescueFrame(s, r, Len(file), cfg) \in known
    OBVIOUS
  <2>2. w.rescues[b][r + 1] = RescueSlot(file, s, r, known)
    BY <1>1 DEF HoldsRescues
  <2>3. RescueSlot(file, s, r, known).size >= cfg.PayloadSize
          <=> RescueFrame(s, r, Len(file), cfg) \in known
    BY <1>1, RescueSlotFacts
  <2> QED BY <2>2, <2>3
<1>3. {r \in 0..(cfg.RescueFramesPerBlock - 1) : w.rescues[b][r + 1].size >= cfg.PayloadSize}
        = Spares(file, s, known)
  BY <1>2 DEF Spares, RescuesOf
<1> QED BY <1>3 DEF AvailableRescues

-----------------------------------------------------------------------------

(* The frames of a block that are missing, their slots, and the rescue      *)
(* frames that are used for them: a repair.                                *)
LEMMA RepairIs ==
  ASSUME cfg \in Configs, NEW file \in Files, NEW w, NEW S, Holds(w, file, S),
         NEW known, HoldsRescues(w, file, known), NEW b, NEW s, StartsAt(b, s, file),
         NEW missing, NEW m \in Nat, Lists(missing, Lacks(file, s, S), m),
         NEW available, NEW a \in Nat, Lists(available, Spares(file, s, known), a), m <= a,
         NEW slots, slots = [k \in 1..m |-> missing[k] - s],
         NEW used, used = SubSeq(available, 1, m)
  PROVE  IsRepair(w, file, s, missing, slots, used, m)
<1>1. PICK K \in Nat \ {0} : K = cfg.DataFramesPerBlock
  BY ConfigFacts
<1>2. PICK R \in Nat : R = cfg.RescueFramesPerBlock
  BY ConfigFacts
<1>3. PICK N \in Nat : N = DataFrames(Len(file), cfg)
  BY FileFacts
<1>4. PICK t \in Nat : t = s
  BY DEF StartsAt
<1>5. ASSUME NEW i \in Lacks(file, s, S)
      PROVE  i \in 0..(N - 1) /\ i \notin S /\ t <= i /\ i < t + K
  BY <1>1, <1>3, <1>4 DEF Lacks, BlockFrames
<1>6. /\ missing \in [1..m -> Lacks(file, s, S)]
      /\ \A i \in Lacks(file, s, S) : \E k \in 1..m : missing[k] = i
      /\ \A j, k \in 1..m : j < k => missing[j] < missing[k]
  BY DEF Lists
<1>7. missing \in [1..m -> 0..(N - 1)]
  BY <1>5, <1>6
<1>8. ASSUME NEW k \in 1..m
      PROVE  /\ missing[k] \in 0..(N - 1) /\ slots[k] \in 0..(K - 1)
             /\ slots[k] = missing[k] - t /\ missing[k] \in Lacks(file, s, S)
  <2>1. missing[k] \in Lacks(file, s, S)
    BY <1>6
  <2>2. PICK i \in 0..(N - 1) : i = missing[k] /\ t <= i /\ i < t + K
    BY <1>5, <2>1
  <2>3. slots[k] = i - t
    BY <1>4, <2>2
  <2>4. i - t \in 0..(K - 1)
    BY <2>2
  <2> QED BY <2>1, <2>2, <2>3, <2>4
<1>9. Picks(slots, m, K)
  <2>1. slots \in [1..m -> 0..(K - 1)]
    BY <1>8
  <2>2. ASSUME NEW i \in 1..m, NEW j \in 1..m, i < j PROVE slots[i] # slots[j]
    <3>1. missing[i] < missing[j]
      BY <1>6, <2>2
    <3>2. PICK x \in Int : x = missing[i]
      BY <1>7
    <3>3. PICK y \in Int : y = missing[j]
      BY <1>7
    <3>4. slots[i] = x - t /\ slots[j] = y - t /\ x < y
      BY <1>8, <3>1, <3>2, <3>3
    <3> QED BY <3>4
  <2>3. ASSUME NEW i \in 1..m, NEW j \in 1..m, i # j PROVE slots[i] # slots[j]
    <3>1. i < j \/ j < i
      BY <2>3
    <3> QED BY <2>2, <3>1
  <2> QED BY <2>1, <2>3 DEF Picks
<1>10. /\ available \in [1..a -> Spares(file, s, known)]
       /\ \A j, k \in 1..a : j < k => available[j] < available[k]
  BY DEF Lists
<1>11. \A r \in Spares(file, s, known) :
         r \in 0..(R - 1) /\ RescueFrame(s, r, Len(file), cfg) \in known
  BY <1>2 DEF Spares, RescuesOf
<1>18. used \in [1..m -> Spares(file, s, known)] /\ \A q \in 1..m : used[q] = available[q]
  <2>1. PICK A : A = Spares(file, s, known)
    OBVIOUS
  <2>2. \A q \in 1..m : available[q] \in A
    <3>1. \A q \in 1..m : q \in 1..a
      OBVIOUS
    <3> QED BY <1>10, <2>1, <3>1
  <2>3. /\ SubSeq(available, 1, m) \in Seq(A)
        /\ Len(SubSeq(available, 1, m)) = IF 1 <= m THEN m - 1 + 1 ELSE 0
        /\ \A k \in 1..(m - 1 + 1) : SubSeq(available, 1, m)[k] = available[1 + k - 1]
    <3>1. 1 \in Int /\ m \in Int
      OBVIOUS
    <3> QED BY <2>2, <3>1, SubSeqProperties
  <2>4. PICK u \in Seq(A) : u = SubSeq(available, 1, m)
    BY <2>3
  <2>5. Len(u) = m
    BY <2>3, <2>4
  <2>6. ASSUME NEW q \in 1..m PROVE u[q] = available[q]
    <3>1. q \in 1..(m - 1 + 1) /\ 1 + q - 1 = q
      OBVIOUS
    <3> QED BY <2>3, <2>4, <3>1
  <2>7. u \in [1..m -> A]
    BY <2>5
  <2> QED BY <2>1, <2>4, <2>6, <2>7
<1>12. ASSUME NEW q \in 1..m
       PROVE  used[q] = available[q] /\ used[q] \in Spares(file, s, known) /\ q \in 1..a
  <2>1. q \in 1..a
    OBVIOUS
  <2> QED BY <1>10, <1>18, <2>1
<1>13. used \in [1..m -> 0..(R - 1)]
  BY <1>11, <1>18
<1>14. Picks(used, m, R)
  <2>1. ASSUME NEW i \in 1..m, NEW j \in 1..m, i < j PROVE used[i] # used[j]
    <3>1. available[i] < available[j]
      BY <1>10, <1>12, <2>1
    <3>2. used[i] = available[i] /\ used[j] = available[j]
      BY <1>12
    <3>3. PICK x \in 0..(R - 1) : x = used[i]
      BY <1>13
    <3>4. x < used[j]
      BY <3>1, <3>2, <3>3
    <3> QED BY <3>3, <3>4
  <2>2. ASSUME NEW i \in 1..m, NEW j \in 1..m, i # j PROVE used[i] # used[j]
    <3>1. i < j \/ j < i
      BY <2>2
    <3> QED BY <2>1, <3>1
  <2> QED BY <1>13, <2>2 DEF Picks
<1>15. ASSUME NEW q \in 1..m PROVE RescueIs(w, file, s, used[q])
  <2>1. PICK r \in 0..(cfg.RescueFramesPerBlock - 1) :
          r = used[q] /\ RescueFrame(s, r, Len(file), cfg) \in known
    BY <1>2, <1>11, <1>12
  <2>2. w.rescues[b][r + 1] = RescueSlot(file, s, r, known)
    BY DEF StartsAt, HoldsRescues
  <2>3. RescueSlot(file, s, r, known).bytes = RescueBytes(BlockPayloads(NoPayloads, file, s), r)
    BY <1>4, <2>1, RescueSlotFacts
  <2>4. s \div cfg.DataFramesPerBlock + 1 = b
    BY DEF StartsAt
  <2>5. w.rescues[s \div cfg.DataFramesPerBlock + 1][r + 1].bytes
          = RescueBytes(BlockPayloads(NoPayloads, file, s), r)
    BY <2>2, <2>3, <2>4, Zenon
  <2> QED BY <2>1, <2>5 DEF RescueIs
<1>16. BlockIs(w, file, s, slots, m)
  <2>1. ASSUME NEW slot \in 1..K
        PROVE  /\ t + slot <= N /\ w.data[t + slot] # Empty
                    => Read(w.data[t + slot], w.buffers) = Slice(file, t + slot - 1)
               /\ (t + slot <= N /\ w.data[t + slot] = Empty) <=> \E c \in 1..m : slots[c] + 1 = slot
    <3>1. PICK i \in Nat : /\ i = t + slot - 1 /\ i + 1 = t + slot /\ t <= i /\ i < t + K
                           /\ (t + slot <= N <=> i \in 0..(N - 1))
      <4>1. t + slot - 1 \in Nat
        OBVIOUS
      <4>2. PICK i \in Nat : i = t + slot - 1
        BY <4>1
      <4>3. i + 1 = t + slot /\ t <= i /\ i < t + K /\ (t + slot <= N <=> i \in 0..(N - 1))
        BY <4>2
      <4> QED BY <4>2, <4>3
    <3>2. i \in 0..(N - 1) => (w.data[i + 1] = Empty <=> i \notin S)
      BY <1>3 DEF Holds, HoldsFrame
    <3>3. i \in 0..(N - 1) /\ i \in S => Read(w.data[i + 1], w.buffers) = Slice(file, i)
      BY <1>3 DEF Holds, HoldsFrame
    <3>4. i \in Lacks(file, s, S) <=> i \in 0..(N - 1) /\ i \notin S
      BY <1>1, <1>3, <1>4, <3>1 DEF Lacks, BlockFrames
    <3>5. i \in Lacks(file, s, S) <=> \E c \in 1..m : slots[c] + 1 = slot
      <4>1. ASSUME i \in Lacks(file, s, S) PROVE \E c \in 1..m : slots[c] + 1 = slot
        <5>1. PICK c \in 1..m : missing[c] = i
          BY <1>6, <4>1
        <5>2. slots[c] = i - t
          BY <1>8, <5>1
        <5>3. slots[c] + 1 = slot
          BY <3>1, <5>2
        <5> QED BY <5>3
      <4>2. ASSUME NEW c \in 1..m, slots[c] + 1 = slot PROVE i \in Lacks(file, s, S)
        <5>1. PICK x \in 0..(N - 1) : x = missing[c] /\ slots[c] = x - t /\ x \in Lacks(file, s, S)
          BY <1>8
        <5>2. x = i
          <6>1. PICK z \in Int : z = slots[c] /\ z = x - t
            BY <5>1
          <6>2. z + 1 = slot
            BY <4>2, <6>1
          <6> QED BY <3>1, <6>1, <6>2
        <5> QED BY <5>1, <5>2
      <4> QED BY <4>1, <4>2
    <3> QED BY <3>1, <3>2, <3>3, <3>4, <3>5
  <2> QED BY <1>1, <1>3, <1>4, <2>1 DEF BlockIs
<1>17. IsKey(slots, used, m)
  BY <1>1, <1>2, <1>9, <1>14 DEF IsKey
<1> QED BY <1>3, <1>7, <1>15, <1>16, <1>17 DEF IsRepair

(* What is there of the file after the repair of the block at s. *)
Mended(file, s, S, known) ==
  IF Cardinality(Lacks(file, s, S)) <= Cardinality(Spares(file, s, known))
  THEN S \cup Lacks(file, s, S) ELSE S

(* Repairing a block fills all its slots if it has the rescue frames for   *)
(* them, and changes nothing if not.                                       *)
LEMMA RepairBlockHolds ==
  ASSUME cfg \in Configs, NEW file \in Files, NEW w, IsWorkspace(w), NEW S, Holds(w, file, S),
         NEW known, HoldsRescues(w, file, known), NEW b, NEW s, StartsAt(b, s, file),
         DataFrames(Len(file), cfg) <= Len(w.data),
         NEW new, new = RepairBlock(w, b, Len(file))
  PROVE  Mends(new, w, file, Mended(file, s, S, known))
<1>1. PICK N \in Nat : N = DataFrames(Len(file), cfg)
  BY FileFacts
<1>2. PICK R \in Nat : R = cfg.RescueFramesPerBlock
  BY ConfigFacts
<1>3. PICK M : M = Lacks(file, s, S)
  OBVIOUS
<1>4. PICK Q : Q = Spares(file, s, known)
  OBVIOUS
<1>5. /\ M \in SUBSET (0..(N - 1)) /\ IsFiniteSet(M)
      /\ Q \in SUBSET (0..(R - 1)) /\ IsFiniteSet(Q)
  BY <1>1, <1>2, <1>3, <1>4, LacksIsFinite
<1>6. M \in SUBSET Nat /\ Q \in SUBSET Nat
  <2>1. 0..(N - 1) \subseteq Nat /\ 0..(R - 1) \subseteq Nat
    OBVIOUS
  <2> QED BY <1>5, <2>1
<1>7. PICK missing : missing = Ascending(M)
  OBVIOUS
<1>8. PICK available : available = Ascending(Q)
  OBVIOUS
<1>9. PICK m \in Nat : m = Cardinality(M)
  BY <1>5, FS_CardinalityType
<1>10. PICK a \in Nat : a = Cardinality(Q)
  BY <1>5, FS_CardinalityType
<1>11. Lists(missing, M, m) /\ Lists(available, Q, a)
  BY <1>5, <1>6, <1>7, <1>8, <1>9, <1>10, AscendingLists
<1>12. missing = Missing(w, s, Len(file)) /\ available = AvailableRescues(w, b)
  BY <1>3, <1>4, <1>7, <1>8, MissingIs, AvailableIs
<1>13. Len(missing) = m /\ Len(available) = a /\ DOMAIN missing = 1..m
  <2>1. missing \in [1..m -> M] /\ available \in [1..a -> Q]
    BY <1>11 DEF Lists
  <2> QED BY <2>1
<1>14. new = IF missing = <<>> \/ m > a THEN w
             ELSE Solved(w, s, Len(file), missing, SubSeq(available, 1, m))
  <2>1. s = (b - 1) * cfg.DataFramesPerBlock
    BY DEF StartsAt
  <2> QED BY <1>12, <1>13, <2>1 DEF RepairBlock
<1>15. CASE m > a
  <2>1. new = w
    BY <1>14, <1>15
  <2>2. Mended(file, s, S, known) = S
    BY <1>3, <1>4, <1>9, <1>10, <1>15 DEF Mended
  <2> QED BY <2>1, <2>2 DEF Mends
<1>16. CASE m <= a /\ m = 0
  <2>1. missing = <<>>
    BY <1>13, <1>16
  <2>2. new = w
    BY <1>14, <2>1
  <2>3. M = {}
    BY <1>5, <1>9, <1>16, FS_EmptySet
  <2>4. Mended(file, s, S, known) = S
    BY <1>3, <2>3 DEF Mended
  <2> QED BY <2>2, <2>4 DEF Mends
<1>17. CASE m <= a /\ m # 0
  <2>1. missing # <<>> /\ ~(m > a)
    BY <1>13, <1>17
  <2>2. PICK used : used = SubSeq(available, 1, m)
    OBVIOUS
  <2>3. new = Solved(w, s, Len(file), missing, used)
    BY <1>14, <2>1, <2>2
  <2>4. PICK slots : slots = [k \in 1..m |-> missing[k] - s]
    OBVIOUS
  <2>5. IsRepair(w, file, s, missing, slots, used, m)
    BY <1>3, <1>4, <1>11, <1>17, <2>2, <2>4, RepairIs
  <2>6. s \in Nat /\ m \in Nat \ {0}
    BY <1>17 DEF StartsAt
  <2>7. Mends(new, w, file, S \cup Listed(missing, m))
    BY <2>3, <2>5, <2>6, SolvedHolds
  <2>8. Listed(missing, m) = M
    BY <1>11 DEF Lists, Listed
  <2>9. Mended(file, s, S, known) = S \cup M
    BY <1>3, <1>4, <1>9, <1>10, <1>17 DEF Mended
  <2> QED BY <2>7, <2>8, <2>9
<1> QED BY <1>15, <1>16, <1>17

-----------------------------------------------------------------------------

(* A file has at least one block.                                          *)
LEMMA BlockCountIs ==
  ASSUME cfg \in Configs, NEW file \in Files
  PROVE  BlockCount(DataFrames(Len(file), cfg), cfg) \in Nat \ {0}
<1>1. PICK N \in Nat \ {0} : N = DataFrames(Len(file), cfg)
  BY FileFacts
<1>2. 0 \in Nat /\ cfg.DataFramesPerBlock \in Nat \ {0}
  BY ConfigFacts
<1> QED BY <1>1, <1>2, BlockCountFacts

(* The blocks of a file do not overlap, and every data frame is in one.     *)
LEMMA BlocksApart ==
  ASSUME cfg \in Configs, NEW file \in Files, NEW b, NEW s, StartsAt(b, s, file),
         NEW c, NEW t, StartsAt(c, t, file), NEW i, NEW N, N = DataFrames(Len(file), cfg),
         i \in BlockFrames(s, N, cfg), i \in BlockFrames(t, N, cfg)
  PROVE  b = c
<1>1. PICK K \in Nat \ {0} : K = cfg.DataFramesPerBlock
  BY ConfigFacts
<1>2. PICK u \in Nat : u = s
  BY DEF StartsAt
<1>3. PICK v \in Nat : v = t
  BY DEF StartsAt
<1>4. PICK j \in Nat : j = i /\ u <= j /\ j < u + K /\ v <= j /\ j < v + K
  <2>1. N \in Nat
    BY FileFacts
  <2>2. i \in Nat
    BY <2>1 DEF BlockFrames
  <2> QED BY <1>1, <1>2, <1>3, <2>2 DEF BlockFrames
<1>5. PICK p \in Nat : p + 1 = b /\ u = p * K
  <2>1. PICK B \in Nat : B = BlockCount(DataFrames(Len(file), cfg), cfg) /\ b \in 1..B
    BY BlockCountIs DEF StartsAt
  <2>2. PICK p \in Nat : p = b - 1 /\ p + 1 = b
    BY <2>1
  <2>3. u = (b - 1) * K
    BY <1>1, <1>2 DEF StartsAt
  <2> QED BY <2>2, <2>3
<1>6. PICK q \in Nat : q + 1 = c /\ v = q * K
  <2>1. PICK B \in Nat : B = BlockCount(DataFrames(Len(file), cfg), cfg) /\ c \in 1..B
    BY BlockCountIs DEF StartsAt
  <2>2. PICK q \in Nat : q = c - 1 /\ q + 1 = c
    BY <2>1
  <2>3. v = (c - 1) * K
    BY <1>1, <1>3 DEF StartsAt
  <2> QED BY <2>2, <2>3
<1>7. (p < q => u + K <= v) /\ (q < p => v + K <= u)
  BY <1>5, <1>6, MultiplesKeepOrder
<1>8. p = q
  BY <1>4, <1>7
<1> QED BY <1>5, <1>6, <1>8

(* Every data frame is in a block.                                         *)
LEMMA FrameHasBlock ==
  ASSUME cfg \in Configs, NEW file \in Files, NEW N, N = DataFrames(Len(file), cfg),
         NEW i \in 0..(N - 1)
  PROVE  \E b, s : StartsAt(b, s, file) /\ i \in BlockFrames(s, N, cfg)
<1>1. PICK K \in Nat \ {0} : K = cfg.DataFramesPerBlock
  BY ConfigFacts
<1>2. PICK D \in Nat \ {0} : D = N
  BY FileFacts
<1>3. PICK j \in Nat : j = i /\ j \in 0..(D - 1)
  BY <1>2
<1>4. PICK q \in Nat, r \in 0..(K - 1) : q = j \div K /\ r = j % K /\ j = q * K + r
  BY Division
<1>5. PICK s \in Nat : s = q * K
  <2>1. q * K \in Nat
    BY MultiplesKeepOrder
  <2> QED BY <2>1
<1>6. j = s + r /\ s < D
  BY <1>3, <1>4, <1>5
<1>7. PICK B \in Nat \ {0} : B = BlockCount(D, cfg)
  BY <1>2, BlockCountIs
<1>8. q < B
  <2>1. q < BlockCount(D, cfg) <=> q * cfg.DataFramesPerBlock < D
    <3>1. cfg.DataFramesPerBlock \in Nat \ {0}
      BY <1>1
    <3> QED BY <3>1, BlockCountFacts
  <2> QED BY <1>1, <1>5, <1>6, <1>7, <2>1
<1>9. PICK b \in 1..B : b = q + 1 /\ b - 1 = q
  BY <1>7, <1>8
<1>10. PICK t \in Nat : StartsAt(b, t, file)
  <2>1. b \in 1..BlockCount(DataFrames(Len(file), cfg), cfg)
    BY <1>2, <1>7
  <2> QED BY <2>1, BlockStart
<1>11. t = s
  <2>1. t = (b - 1) * K
    BY <1>1, <1>10 DEF StartsAt
  <2> QED BY <1>5, <1>9, <2>1
<1>12. i \in BlockFrames(s, N, cfg)
  <2>1. s <= j /\ j < s + K
    BY <1>6
  <2> QED BY <1>1, <1>3, <2>1 DEF BlockFrames
<1> QED BY <1>10, <1>11, <1>12

(* The blocks of the plan are those that are repaired.                     *)
LEMMA StartsAreBlockStarts ==
  ASSUME cfg \in Configs, NEW file \in Files, NEW N, N = DataFrames(Len(file), cfg), NEW s
  PROVE  s \in BlockStarts(N, cfg) <=> \E b : StartsAt(b, s, file)
<1>1. PICK B \in Nat \ {0} : B = BlockCount(N, cfg)
  BY BlockCountIs
<1>2. ASSUME s \in BlockStarts(N, cfg) PROVE \E b : StartsAt(b, s, file)
  <2>1. PICK a \in 0..(B - 1) : s = a * cfg.DataFramesPerBlock
    BY <1>1, <1>2 DEF BlockStarts
  <2>2. PICK b \in 1..B : b = a + 1 /\ b - 1 = a
    OBVIOUS
  <2>3. PICK t \in Nat : StartsAt(b, t, file)
    <3>1. b \in 1..BlockCount(DataFrames(Len(file), cfg), cfg)
      BY <1>1
    <3> QED BY <3>1, BlockStart
  <2>4. t = s
    BY <2>1, <2>2, <2>3 DEF StartsAt
  <2> QED BY <2>3, <2>4
<1>3. ASSUME NEW b, StartsAt(b, s, file) PROVE s \in BlockStarts(N, cfg)
  <2>1. b \in 1..B /\ s = (b - 1) * cfg.DataFramesPerBlock
    BY <1>1, <1>3 DEF StartsAt
  <2>2. PICK a \in 0..(B - 1) : a = b - 1
    BY <2>1
  <2> QED BY <1>1, <2>1, <2>2 DEF BlockStarts
<1> QED BY <1>2, <1>3

(* The workspaces while the blocks are repaired. *)
RepairsBlocks(f, w, total, n) ==
  /\ f[0] = [w EXCEPT !.cursor = 0]
  /\ \A k \in 1..n : f[k] = RepairBlock(f[k - 1], k, total)

(* There is a workspace after every block that is repaired.                *)
LEMMA RepairsExist ==
  ASSUME NEW n \in Nat, NEW w, NEW total
  PROVE  \E f : DOMAIN f = 0..n /\ RepairsBlocks(f, w, total, n)
<1> DEFINE E == {k \in 0..n : \E f : DOMAIN f = 0..k /\ RepairsBlocks(f, w, total, k)}
<1>1. 0 \in E
  <2>1. PICK k \in 0..n : k = 0
    OBVIOUS
  <2>2. PICK f : f = [i \in 0..k |-> [w EXCEPT !.cursor = 0]]
    OBVIOUS
  <2>3. DOMAIN f = 0..k /\ f[0] = [w EXCEPT !.cursor = 0] /\ 1..k = {}
    BY <2>1, <2>2
  <2>4. RepairsBlocks(f, w, total, k)
    BY <2>3 DEF RepairsBlocks
  <2> QED BY <2>1, <2>3, <2>4
<1>2. ASSUME NEW k \in E, k < n PROVE k + 1 \in E
  <2>1. k \in 0..n /\ k + 1 \in 0..n /\ \E f : DOMAIN f = 0..k /\ RepairsBlocks(f, w, total, k)
    BY <1>2
  <2>2. PICK f : DOMAIN f = 0..k /\ RepairsBlocks(f, w, total, k)
    BY <2>1
  <2>3. PICK next : next = RepairBlock(f[k], k + 1, total)
    OBVIOUS
  <2>4. PICK g : g = [i \in 0..(k + 1) |-> IF i = k + 1 THEN next ELSE f[i]]
    OBVIOUS
  <2>5. \A i \in 0..k : i \in 0..(k + 1) /\ i # k + 1 /\ g[i] = f[i]
    BY <2>1, <2>4
  <2>6. g[k + 1] = next /\ k \in 0..k /\ 0 \in 0..k
    BY <2>1, <2>4
  <2>7. ASSUME NEW i \in 1..(k + 1) PROVE g[i] = RepairBlock(g[i - 1], i, total)
    <3>1. CASE i \in 1..k
      <4>1. i \in 0..k /\ i - 1 \in 0..k
        BY <2>1, <3>1
      <4>2. f[i] = RepairBlock(f[i - 1], i, total)
        BY <2>2, <3>1 DEF RepairsBlocks
      <4> QED BY <2>5, <4>1, <4>2
    <3>2. CASE i = k + 1
      <4>1. i - 1 = k
        BY <2>1, <3>2
      <4> QED BY <2>3, <2>5, <2>6, <3>2, <4>1
    <3>3. i \in 1..k \/ i = k + 1
      BY <2>1
    <3> QED BY <3>1, <3>2, <3>3
  <2>8. g[0] = [w EXCEPT !.cursor = 0]
    BY <2>2, <2>5, <2>6 DEF RepairsBlocks
  <2>9. RepairsBlocks(g, w, total, k + 1)
    BY <2>7, <2>8 DEF RepairsBlocks
  <2>10. DOMAIN g = 0..(k + 1)
    BY <2>4
  <2> QED BY <2>1, <2>9, <2>10
<1>3. n \in E
  <2>1. E \in SUBSET (0..n) /\ n \in 0..n
    OBVIOUS
  <2> HIDE DEF E
  <2> QED BY <1>1, <1>2, <2>1, InductionFromZero
<1> QED BY <1>3

(* Repaired returns the last of them.                                      *)
LEMMA RepairIsLast ==
  ASSUME NEW w, NEW total, NEW n \in Nat, n = BlockCount(DataFrames(total, cfg), cfg)
  PROVE  \E f : RepairsBlocks(f, w, total, n) /\ Repaired(w, total) = f[n]
<1> DEFINE Goes(g) == g = [k \in 0..BlockCount(DataFrames(total, cfg), cfg) |-> IF k = 0 THEN [w EXCEPT !.cursor = 0]
                                               ELSE RepairBlock(g[k - 1], k, total)]
           after == CHOOSE g : Goes(g)
<1>1. Goes(after)
  <2>1. PICK f : DOMAIN f = 0..n /\ RepairsBlocks(f, w, total, n)
    BY RepairsExist
  <2>2. PICK g : g = [k \in 0..n |-> f[k]]
    OBVIOUS
  <2>3. \A k \in 0..n : g[k] = IF k = 0 THEN [w EXCEPT !.cursor = 0] ELSE RepairBlock(g[k - 1], k, total)
    <3>1. ASSUME NEW k \in 0..n, k # 0 PROVE g[k] = RepairBlock(g[k - 1], k, total)
      <4>1. k \in 1..n /\ k - 1 \in 0..n
        BY <3>1
      <4> QED BY <2>1, <2>2, <4>1 DEF RepairsBlocks
    <3> QED BY <2>1, <2>2, <3>1 DEF RepairsBlocks
  <2>4. Goes(g)
    BY <2>2, <2>3, Zenon
  <2> HIDE DEF Goes
  <2> QED BY <2>4
<1>2. Repaired(w, total) = after[BlockCount(DataFrames(total, cfg), cfg)]
  BY Zenon DEF Repaired
<1> HIDE DEF after
<1>3. PICK g : g = after
  OBVIOUS
<1>4. g = [k \in 0..n |-> IF k = 0 THEN [w EXCEPT !.cursor = 0] ELSE RepairBlock(g[k - 1], k, total)]
  BY <1>1, <1>3
<1>5. \A k \in 0..n : g[k] = IF k = 0 THEN [w EXCEPT !.cursor = 0] ELSE RepairBlock(g[k - 1], k, total)
  BY <1>4
<1>6. RepairsBlocks(g, w, total, n)
  <2>1. 0 \in 0..n /\ \A k \in 1..n : k \in 0..n /\ k # 0
    OBVIOUS
  <2> QED BY <1>5, <2>1 DEF RepairsBlocks
<1> QED BY <1>2, <1>3, <1>6

-----------------------------------------------------------------------------

MayMend(file, s, S, known) ==
  Cardinality(Lacks(file, s, S)) <= Cardinality(Spares(file, s, known))

(* What is there once blocks 1 to b are repaired.                           *)
Grown(file, S, known, b) ==
  S \cup {i \in 0..(DataFrames(Len(file), cfg) - 1) :
            \E c, s : /\ StartsAt(c, s, file) /\ c <= b
                      /\ MayMend(file, s, S, known) /\ i \in Lacks(file, s, S)}

(* The known slots grow by those of the next block.                        *)
LEMMA GrownStep ==
  ASSUME cfg \in Configs, NEW file \in Files, NEW S, NEW known,
         NEW a \in Nat, NEW b \in Nat, b = a + 1, NEW s, StartsAt(b, s, file)
  PROVE  Mended(file, s, Grown(file, S, known, a), known) = Grown(file, S, known, b)
<1>1. PICK N : N = DataFrames(Len(file), cfg)
  OBVIOUS
<1>2. ASSUME NEW i \in BlockFrames(s, N, cfg) PROVE i \in Grown(file, S, known, a) <=> i \in S
  <2>1. ASSUME NEW c, NEW t, StartsAt(c, t, file), c <= a, i \in Lacks(file, t, S)
        PROVE  FALSE
    <3>1. i \in BlockFrames(t, N, cfg)
      BY <1>1, <2>1 DEF Lacks
    <3>2. c = b
      BY <1>1, <1>2, <2>1, <3>1, BlocksApart
    <3>3. ~(b <= a)
      OBVIOUS
    <3> QED BY <2>1, <3>2, <3>3
  <2> QED BY <2>1 DEF Grown
<1>3. PICK G : G = Grown(file, S, known, a)
  OBVIOUS
<1>4. Lacks(file, s, G) = Lacks(file, s, S)
  BY <1>1, <1>2, <1>3 DEF Lacks
<1>5. PICK L : L = Lacks(file, s, S)
  OBVIOUS
<1>6. Mended(file, s, G, known) = IF MayMend(file, s, S, known) THEN G \cup L ELSE G
  BY <1>4, <1>5 DEF Mended, MayMend
<1>7. \A i \in L : i \in 0..(N - 1)
  BY <1>1, <1>5 DEF Lacks, BlockFrames
<1>8. ASSUME NEW c, NEW t, StartsAt(c, t, file)
      PROVE  c <= b <=> c <= a \/ (c = b /\ t = s)
  <2>1. PICK d \in Nat : d = c
    <3>1. PICK B \in Nat : B = BlockCount(DataFrames(Len(file), cfg), cfg)
      BY BlockCountIs
    <3>2. c \in 1..B
      BY <1>8, <3>1 DEF StartsAt
    <3> QED BY <3>1, <3>2
  <2>2. d <= b <=> d <= a \/ d = b
    BY <2>1
  <2>3. c = b => t = s
    BY <1>8 DEF StartsAt
  <2> QED BY <2>1, <2>2, <2>3
<1>9. \A i : i \in Grown(file, S, known, b) <=>
               i \in G \/ (MayMend(file, s, S, known) /\ i \in L)
  <2>1. ASSUME NEW i, i \in Grown(file, S, known, b)
        PROVE  i \in G \/ (MayMend(file, s, S, known) /\ i \in L)
    <3>1. CASE i \in S
      BY <1>3, <3>1 DEF Grown
    <3>2. CASE i \notin S
      <4>1. PICK c, t : /\ StartsAt(c, t, file) /\ c <= b
                        /\ MayMend(file, t, S, known) /\ i \in Lacks(file, t, S)
        BY <2>1, <3>2 DEF Grown
      <4>2. i \in 0..(N - 1)
        BY <1>1, <2>1, <3>2 DEF Grown
      <4>3. c <= a \/ (c = b /\ t = s)
        BY <1>8, <4>1
      <4> QED BY <1>1, <1>3, <1>5, <4>1, <4>2, <4>3 DEF Grown
    <3> QED BY <3>1, <3>2
  <2>2. ASSUME NEW i, i \in G PROVE i \in Grown(file, S, known, b)
    <3>1. CASE i \in S
      BY <3>1 DEF Grown
    <3>2. CASE i \notin S
      <4>1. PICK c, t : /\ StartsAt(c, t, file) /\ c <= a
                        /\ MayMend(file, t, S, known) /\ i \in Lacks(file, t, S)
        BY <1>3, <2>2, <3>2 DEF Grown
      <4>2. i \in 0..(N - 1)
        BY <1>1, <1>3, <2>2, <3>2 DEF Grown
      <4>3. c <= b
        BY <1>8, <4>1
      <4> QED BY <1>1, <4>1, <4>2, <4>3 DEF Grown
    <3> QED BY <3>1, <3>2
  <2>3. ASSUME NEW i \in L, MayMend(file, s, S, known) PROVE i \in Grown(file, S, known, b)
    <3>1. b <= b /\ i \in 0..(N - 1)
      BY <1>7
    <3> QED BY <1>1, <1>5, <2>3, <3>1 DEF Grown
  <2> QED BY <2>1, <2>2, <2>3
<1>10. Grown(file, S, known, b) = IF MayMend(file, s, S, known) THEN G \cup L ELSE G
  BY <1>9
<1> QED BY <1>3, <1>6, <1>10

(* Every block that has rescue frames enough is repaired, the others stay.  *)
LEMMA RepairedHolds ==
  ASSUME cfg \in Configs, NEW file \in Files, NEW w, NEW start, start = [w EXCEPT !.cursor = 0],
         IsWorkspace(start), NEW S, Holds(start, file, S),
         NEW known, HoldsRescues(start, file, known),
         DataFrames(Len(file), cfg) <= Len(start.data),
         NEW B, B = BlockCount(DataFrames(Len(file), cfg), cfg),
         NEW new, new = Repaired(w, Len(file))
  PROVE  Mends(new, start, file, Grown(file, S, known, B))
<1>1. B \in Nat \ {0}
  BY BlockCountIs
<1>2. PICK total : total = Len(file)
  OBVIOUS
<1>3. PICK f : RepairsBlocks(f, w, total, B) /\ new = f[B]
  <2>1. B = BlockCount(DataFrames(total, cfg), cfg) /\ B \in Nat
    BY <1>1, <1>2
  <2>2. \E f : RepairsBlocks(f, w, total, B) /\ Repaired(w, total) = f[B]
    BY <2>1, RepairIsLast
  <2> QED BY <1>2, <2>2
<1> DEFINE E == {b \in 0..B : Mends(f[b], start, file, Grown(file, S, known, b))}
<1>4. 0 \in E
  <2>1. f[0] = start
    BY <1>3 DEF RepairsBlocks
  <2>2. Mends(start, start, file, S)
    BY DEF Mends
  <2>3. PICK b \in 0..B : b = 0
    BY <1>1
  <2>4. \A c, s : StartsAt(c, s, file) => ~(c <= b)
    BY <1>1, <2>3 DEF StartsAt
  <2>5. Grown(file, S, known, b) = S
    BY <2>4 DEF Grown
  <2> QED BY <2>1, <2>2, <2>3, <2>5
<1>5. ASSUME NEW a \in E, a < B PROVE a + 1 \in E
  <2>1. a \in Nat /\ a + 1 \in 1..B /\ a + 1 \in 0..B /\ (a + 1) - 1 = a
    BY <1>1, <1>5
  <2>2. PICK b \in Nat : b = a + 1 /\ b \in 1..B
    BY <2>1
  <2>3. PICK old : old = f[a] /\ Mends(old, start, file, Grown(file, S, known, a))
    BY <1>5
  <2>4. PICK s \in Nat : StartsAt(b, s, file)
    BY <2>2, BlockStart
  <2>5. PICK G : G = Grown(file, S, known, a)
    OBVIOUS
  <2>6. /\ IsWorkspace(old) /\ Holds(old, file, G) /\ old.rescues = start.rescues
        /\ Len(old.data) = Len(start.data)
    BY <2>3, <2>5 DEF Mends
  <2>7. HoldsRescues(old, file, known) /\ DataFrames(Len(file), cfg) <= Len(old.data)
    BY <2>6 DEF HoldsRescues
  <2>8. PICK next : next = RepairBlock(old, b, Len(file))
    OBVIOUS
  <2>9. Mends(next, old, file, Mended(file, s, G, known))
    BY <2>4, <2>6, <2>7, <2>8, RepairBlockHolds
  <2>10. Mended(file, s, G, known) = Grown(file, S, known, b)
    BY <2>1, <2>2, <2>4, <2>5, GrownStep
  <2>11. Mends(next, start, file, Grown(file, S, known, b))
    BY <2>6, <2>9, <2>10 DEF Mends
  <2>12. next = f[b]
    <3>1. f[b] = RepairBlock(f[b - 1], b, total)
      BY <1>3, <2>2 DEF RepairsBlocks
    <3> QED BY <1>2, <2>1, <2>2, <2>3, <2>8, <3>1
  <2> QED BY <2>1, <2>2, <2>11, <2>12
<1>6. B \in E
  <2>1. E \in SUBSET (0..B) /\ B \in 0..B /\ B \in Nat
    BY <1>1
  <2> HIDE DEF E
  <2> QED BY <1>4, <1>5, <2>1, InductionFromZero
<1> QED BY <1>3, <1>6

(* The data frames of a file that are known.                                *)
KnownData(file, known) ==
  {i \in 0..(DataFrames(Len(file), cfg) - 1) : DataFrame(i, Len(file), cfg) \in known}

(* Everything is there after the repair exactly when the known frames are   *)
(* recoverable.                                                            *)
LEMMA GrownIsRecoverable ==
  ASSUME cfg \in Configs, NEW file \in Files, NEW known,
         NEW N, N = DataFrames(Len(file), cfg), NEW B, B = BlockCount(N, cfg),
         NEW G, G = Grown(file, KnownData(file, known), known, B)
  PROVE  (0..(N - 1)) \subseteq G <=> Recoverable(known, Len(file), cfg)
<1>1. PICK S : S = KnownData(file, known)
  OBVIOUS
<1>2. B \in Nat \ {0}
  BY BlockCountIs
<1>3. \A s : /\ Lacks(file, s, S) = MissingOf(s, known, Len(file), cfg)
             /\ Spares(file, s, known) = RescuesOf(s, known, Len(file), cfg)
  BY <1>1 DEF Lacks, Spares, MissingOf, KnownData, BlockFrames
<1>4. Recoverable(known, Len(file), cfg) <=>
        \A b, s : StartsAt(b, s, file) => MayMend(file, s, S, known)
  <2>1. Recoverable(known, Len(file), cfg) <=>
          \A s \in BlockStarts(N, cfg) : MayMend(file, s, S, known)
    BY <1>3 DEF Recoverable, MayMend
  <2>2. \A s : s \in BlockStarts(N, cfg) <=> \E b : StartsAt(b, s, file)
    BY StartsAreBlockStarts
  <2> QED BY <2>1, <2>2
<1>5. ASSUME \A b, s : StartsAt(b, s, file) => MayMend(file, s, S, known)
      PROVE  (0..(N - 1)) \subseteq G
  <2>1. SUFFICES ASSUME NEW i \in 0..(N - 1), i \notin S PROVE i \in G
    BY <1>1 DEF Grown
  <2>2. PICK b, s : StartsAt(b, s, file) /\ i \in BlockFrames(s, N, cfg)
    BY FrameHasBlock
  <2>3. i \in Lacks(file, s, S)
    BY <2>1, <2>2 DEF Lacks
  <2>4. b <= B
    BY <1>2, <2>2 DEF StartsAt
  <2> QED BY <1>1, <1>5, <2>2, <2>3, <2>4 DEF Grown
<1>6. ASSUME (0..(N - 1)) \subseteq G, NEW b, NEW s, StartsAt(b, s, file)
      PROVE  MayMend(file, s, S, known)
  <2>1. CASE Lacks(file, s, S) = {}
    <3>1. Cardinality(Lacks(file, s, S)) = 0
      BY <2>1, FS_EmptySet
    <3>2. Cardinality(Spares(file, s, known)) \in Nat
      <4>1. PICK D \in Nat : D = DataFrames(Len(file), cfg)
        BY FileFacts
      <4>2. PICK R \in Nat : R = cfg.RescueFramesPerBlock
        BY ConfigFacts
      <4>3. IsFiniteSet(Spares(file, s, known))
        BY <4>1, <4>2, LacksIsFinite
      <4> QED BY <4>3, FS_CardinalityType
    <3> QED BY <3>1, <3>2 DEF MayMend
  <2>2. ASSUME NEW i, i \in Lacks(file, s, S) PROVE MayMend(file, s, S, known)
    <3>1. i \in BlockFrames(s, N, cfg) /\ i \notin S /\ i \in 0..(N - 1)
      BY <2>2 DEF Lacks, BlockFrames
    <3>2. PICK c, t : /\ StartsAt(c, t, file) /\ MayMend(file, t, S, known)
                      /\ i \in Lacks(file, t, S)
      BY <1>1, <1>6, <3>1 DEF Grown
    <3>3. i \in BlockFrames(t, N, cfg)
      BY <3>2 DEF Lacks
    <3>4. b = c
      BY <1>6, <3>1, <3>2, <3>3, BlocksApart
    <3>5. s = t
      BY <1>6, <3>2, <3>4 DEF StartsAt
    <3> QED BY <3>2, <3>5
  <2> QED BY <2>1, <2>2
<1> QED BY <1>4, <1>5, <1>6

-----------------------------------------------------------------------------

(* A call that returns the file, and one that fails.                        *)
Delivers(result, w, file) ==
  result.ws = w /\ result.error = "none" /\ result.bytes = file

Fails(result, w, out) ==
  /\ result.ws = w /\ result.error = "Unrecoverable" /\ result.bytes = <<>>
  /\ result.out = out

(* The output is the file if every slot is known, and it is left alone if  *)
(* not.                                                                    *)
LEMMA ReassembleIs ==
  ASSUME cfg \in Configs, NEW file \in Files, NEW w, NEW S, Holds(w, file, S), NEW out,
         NEW result, result = Reassemble(w, out, Len(file)),
         NEW N, N = DataFrames(Len(file), cfg)
  PROVE  IF (0..(N - 1)) \subseteq S THEN Delivers(result, w, file) ELSE Fails(result, w, out)
<1>1. N \in Nat \ {0}
  BY FileFacts
<1>2. \A i \in 1..N : /\ i - 1 \in 0..(N - 1) /\ (i - 1) + 1 = i
  BY <1>1
<1>3. \A j \in 0..(N - 1) : /\ j + 1 \in 1..N /\ (j + 1) - 1 = j
  BY <1>1
<1>4. PICK bad : bad = {i \in 1..N : w.data[i] = Empty \/ w.data[i].size # DataSizeForFrame(i - 1, Len(file), cfg)}
  OBVIOUS
<1>5. result = IF bad # {} THEN Result(w, out, "Unrecoverable", <<>>)
               ELSE Delivered(w, out, Contents(w, N))
  BY <1>4 DEF Reassemble
<1>6. CASE (0..(N - 1)) \subseteq S
  <2>1. ASSUME NEW i \in 1..N
        PROVE  /\ Read(w.data[i], w.buffers) = Slice(file, i - 1) /\ w.data[i] # Empty
               /\ w.data[i].size = DataSizeForFrame(i - 1, Len(file), cfg)
    <3>1. PICK j \in 0..(N - 1) : j = i - 1 /\ j + 1 = i
      BY <1>2
    <3>2. HoldsFrame(w.data[j + 1], w, file, j)
      BY <1>6 DEF Holds
    <3> QED BY <3>1, <3>2 DEF HoldsFrame
  <2>2. bad = {}
    BY <1>4, <2>1
  <2>3. result = Delivered(w, out, Contents(w, N))
    BY <1>5, <2>2
  <2>4. [i \in 1..N |-> Read(w.data[i], w.buffers)] = [i \in 1..N |-> Slice(file, i - 1)]
    BY <2>1
  <2>5. Contents(w, N) = file
    <3>1. FlattenSeq([i \in 1..N |-> Slice(file, i - 1)]) = file
      BY SlicesMakeFile
    <3> QED BY <2>4, <3>1 DEF Contents
  <2> QED BY <1>6, <2>3, <2>5 DEF Delivered, Result, Delivers
<1>7. CASE ~((0..(N - 1)) \subseteq S)
  <2>1. PICK j \in 0..(N - 1) : j \notin S
    BY <1>7
  <2>2. w.data[j + 1] = Empty
    BY <2>1 DEF Holds
  <2>3. j + 1 \in bad
    BY <1>3, <1>4, <2>2
  <2> QED BY <1>5, <1>7, <2>3 DEF Result, Fails
<1> QED BY <1>6, <1>7

(* The frames that are known are in their slots.                            *)
HoldsData(w, file, known) ==
  \A i \in 0..(DataFrames(Len(file), cfg) - 1) :
    w.data[i + 1] = IF DataFrame(i, Len(file), cfg) \in known
                    THEN SlotOfPayload(Slice(file, i)) ELSE Empty

IsFilled(w, file, known) ==
  /\ IsWorkspace(w) /\ DataFrames(Len(file), cfg) <= Len(w.data)
  /\ HoldsData(w, file, known) /\ HoldsRescues(w, file, known)

(* The slots that were filled hold what the frames brought.                *)
LEMMA FilledHolds ==
  ASSUME cfg \in Configs, NEW file \in Files, NEW w, IsWorkspace(w),
         NEW known, HoldsData(w, file, known)
  PROVE  Holds(w, file, KnownData(file, known))
<1>1. PICK N \in Nat : N = DataFrames(Len(file), cfg)
  BY FileFacts
<1>2. w.cursor \in Nat
  BY DEF IsWorkspace
<1>3. ASSUME NEW i \in 0..(N - 1), DataFrame(i, Len(file), cfg) \in known
      PROVE  HoldsFrame(w.data[i + 1], w, file, i)
  <2>1. PICK j \in Nat : j = i /\ j < DataFrames(Len(file), cfg)
    BY <1>1
  <2>2. PICK s : s = Slice(file, i)
    OBVIOUS
  <2>3. Len(s) = DataSizeForFrame(i, Len(file), cfg)
    BY <2>1, <2>2, SliceIs
  <2>4. PICK slot : slot = SlotOfPayload(s)
    OBVIOUS
  <2>5. w.data[i + 1] = slot
    BY <1>1, <1>3, <2>2, <2>4 DEF HoldsData
  <2>6. slot.buffer = 0 /\ slot.size = Len(s) /\ slot.bytes = s /\ slot # Empty
    BY <2>4 DEF SlotOfPayload, Empty
  <2>7. Read(slot, w.buffers) = s
    BY <2>6 DEF Read
  <2> QED BY <1>2, <2>2, <2>3, <2>5, <2>6, <2>7 DEF HoldsFrame
<1> QED BY <1>1, <1>3 DEF Holds, HoldsData, KnownData

(* A filled workspace is completed just when the file is recoverable.      *)
LEMMA CompletedIs ==
  ASSUME cfg \in Configs, NEW file \in Files, NEW w, NEW known, IsFilled(w, file, known),
         NEW out, NEW seen \in BOOLEAN,
         \A s, r : RescueFrame(s, r, Len(file), cfg) \in known => seen,
         NEW filled, filled = [ws |-> w, conflict |-> FALSE],
         NEW result, result = Completed(filled, out, Len(file), seen)
  PROVE  \E new : /\ IsWorkspace(new)
                  /\ IF Recoverable(known, Len(file), cfg) THEN Delivers(result, new, file)
                                                           ELSE Fails(result, new, out)
<1>1. PICK N : N = DataFrames(Len(file), cfg)
  OBVIOUS
<1>2. PICK B : B = BlockCount(N, cfg)
  OBVIOUS
<1>3. PICK S : S = KnownData(file, known)
  OBVIOUS
<1>4. PICK G : G = Grown(file, S, known, B)
  OBVIOUS
<1>5. (0..(N - 1)) \subseteq G <=> Recoverable(known, Len(file), cfg)
  BY <1>1, <1>2, <1>3, <1>4, GrownIsRecoverable
<1>6. IsWorkspace(w) /\ HoldsData(w, file, known) /\ HoldsRescues(w, file, known) /\ N <= Len(w.data)
  BY <1>1 DEF IsFilled
<1>7. Holds(w, file, S)
  BY <1>3, <1>6, FilledHolds
<1>8. (\E i \in 1..N : w.data[i] = Empty) <=> ~((0..(N - 1)) \subseteq S)
  <2>1. N \in Nat
    BY <1>1, FileFacts
  <2>2. \A i \in 1..N : /\ i - 1 \in 0..(N - 1) /\ (i - 1) + 1 = i
    BY <2>1
  <2>3. \A j \in 0..(N - 1) : /\ j + 1 \in 1..N /\ (w.data[j + 1] = Empty <=> j \notin S)
    <3>1. \A j \in 0..(N - 1) : w.data[j + 1] = Empty <=> j \notin S
      BY <1>1, <1>7 DEF Holds, HoldsFrame
    <3>2. \A j \in 0..(N - 1) : j + 1 \in 1..N
      BY <2>1
    <3> QED BY <3>1, <3>2
  <2>4. ASSUME NEW i \in 1..N, w.data[i] = Empty PROVE ~((0..(N - 1)) \subseteq S)
    <3>1. PICK j \in 0..(N - 1) : j + 1 = i
      BY <2>2
    <3> QED BY <2>3, <2>4, <3>1
  <2>5. ASSUME NEW j \in 0..(N - 1), j \notin S PROVE \E i \in 1..N : w.data[i] = Empty
    BY <2>3, <2>5
  <2> QED BY <2>4, <2>5
<1>9. CASE ~((0..(N - 1)) \subseteq S) /\ seen
  <2>1. PICK new : new = Repaired(w, Len(file))
    OBVIOUS
  <2>2. result = Reassemble(new, out, Len(file))
    BY <1>1, <1>8, <1>9, <2>1 DEF Completed
  <2>3. PICK start : start = [w EXCEPT !.cursor = 0]
    OBVIOUS
  <2>4. start = [data |-> w.data, present |-> w.present, rescues |-> w.rescues,
                 inverses |-> w.inverses, buffers |-> w.buffers, cursor |-> 0]
    BY <1>6, <2>3 DEF IsWorkspace
  <2>5. IsWorkspace(start)
    BY <1>6, <2>4 DEF IsWorkspace
  <2>6. start.data = w.data /\ start.rescues = w.rescues
    BY <2>4
  <2>7. HoldsData(start, file, known) /\ HoldsRescues(start, file, known)
        /\ DataFrames(Len(file), cfg) <= Len(start.data)
    BY <1>1, <1>6, <2>6 DEF HoldsData, HoldsRescues
  <2>8. Holds(start, file, S)
    BY <1>3, <2>5, <2>7, FilledHolds
  <2>9. Mends(new, start, file, G)
    <3>1. B = BlockCount(DataFrames(Len(file), cfg), cfg)
      BY <1>1, <1>2
    <3> QED BY <1>4, <2>1, <2>3, <2>5, <2>7, <2>8, <3>1, RepairedHolds
  <2>10. IsWorkspace(new) /\ Holds(new, file, G)
    BY <2>9 DEF Mends
  <2>11. IF (0..(N - 1)) \subseteq G THEN Delivers(result, new, file) ELSE Fails(result, new, out)
    BY <1>1, <2>2, <2>10, ReassembleIs
  <2> QED BY <1>5, <2>10, <2>11
<1>10. CASE (0..(N - 1)) \subseteq S \/ ~seen
  <2>1. result = Reassemble(w, out, Len(file))
    BY <1>1, <1>8, <1>10 DEF Completed
  <2>2. IF (0..(N - 1)) \subseteq S THEN Delivers(result, w, file) ELSE Fails(result, w, out)
    BY <1>1, <1>7, <2>1, ReassembleIs
  <2>3. (0..(N - 1)) \subseteq S <=> (0..(N - 1)) \subseteq G
    <3>1. S \subseteq G
      BY <1>4 DEF Grown
    <3>2. ASSUME ~seen, NEW i \in G PROVE i \in S
      <4>1. SUFFICES ASSUME i \notin S PROVE FALSE
        OBVIOUS
      <4>2. PICK s : MayMend(file, s, S, known) /\ i \in Lacks(file, s, S)
        BY <1>4, <3>2, <4>1 DEF Grown
      <4>3. Spares(file, s, known) = {}
        BY <3>2 DEF Spares, RescuesOf
      <4>4. Cardinality(Spares(file, s, known)) = 0
        BY <4>3, FS_EmptySet
      <4>5. IsFiniteSet(Lacks(file, s, S))
        <5>1. PICK D \in Nat : D = DataFrames(Len(file), cfg)
          BY FileFacts
        <5>2. PICK R \in Nat : R = cfg.RescueFramesPerBlock
          BY ConfigFacts
        <5> QED BY <5>1, <5>2, LacksIsFinite
      <4>6. Cardinality(Lacks(file, s, S)) \in Nat
        BY <4>5, FS_CardinalityType
      <4>7. Cardinality(Lacks(file, s, S)) = 0
        BY <4>2, <4>4, <4>6 DEF MayMend
      <4>8. Lacks(file, s, S) = {}
        BY <4>5, <4>7, FS_EmptySet
      <4> QED BY <4>2, <4>8
    <3> QED BY <1>10, <3>1, <3>2
  <2> QED BY <1>5, <1>6, <2>2, <2>3
<1> QED BY <1>9, <1>10

-----------------------------------------------------------------------------

(* The frames of a file: data frames, and rescue frames of its blocks.      *)
IsDataFrame(g, i, file) ==
  /\ i \in Nat /\ i < DataFrames(Len(file), cfg) /\ g = DataFrame(i, Len(file), cfg)
  /\ g.FrameType = Data /\ g.FrameIndex = i /\ g.RescueIndex = 0
  /\ Bytes(g.Payload, file) = Slice(file, i)

IsRescueFrame(g, b, s, r, file) ==
  /\ StartsAt(b, s, file) /\ r \in Nat /\ r < cfg.RescueFramesPerBlock
  /\ g = RescueFrame(s, r, Len(file), cfg)
  /\ g.FrameType = Rescue /\ g.FrameIndex = s /\ g.RescueIndex = r /\ BlockNumber(g) = b
  /\ Bytes(g.Payload, file) = RescueBytes(BlockPayloads(NoPayloads, file, s), r)

(* What a data frame says about itself.                                    *)
LEMMA DataFrameIs ==
  ASSUME NEW file, NEW i \in Nat, i < DataFrames(Len(file), cfg)
  PROVE  IsDataFrame(DataFrame(i, Len(file), cfg), i, file)
<1>1. PICK g : g = DataFrame(i, Len(file), cfg)
  OBVIOUS
<1>2. /\ g.FrameType = Data /\ g.FrameIndex = i /\ g.RescueIndex = 0
      /\ g.Payload.kind = Data /\ g.Payload.index = i
  BY <1>1 DEF DataFrame, Frame, DataPayload, PayloadOf
<1>3. Bytes(g.Payload, file) = Slice(file, i)
  BY <1>2 DEF Bytes, Data, Rescue
<1> QED BY <1>1, <1>2, <1>3 DEF IsDataFrame

(* What a rescue frame says about itself.                                  *)
LEMMA RescueFrameIs ==
  ASSUME cfg \in Configs, NEW file, NEW b, NEW s, StartsAt(b, s, file),
         NEW r \in Nat, r < cfg.RescueFramesPerBlock
  PROVE  IsRescueFrame(RescueFrame(s, r, Len(file), cfg), b, s, r, file)
<1>1. PICK g : g = RescueFrame(s, r, Len(file), cfg)
  OBVIOUS
<1>2. /\ g.FrameType = Rescue /\ g.FrameIndex = s /\ g.RescueIndex = r
      /\ g.Payload.kind = Rescue /\ g.Payload.index = s /\ g.Payload.rescue = r
  BY <1>1 DEF RescueFrame, Frame, RescuePayload, PayloadOf
<1>3. Bytes(g.Payload, file) = RescueBytes(BlockPayloads(NoPayloads, file, s), r)
  BY <1>2 DEF Bytes, Data, Rescue
<1>4. BlockNumber(g) = b
  BY <1>2 DEF BlockNumber, StartsAt
<1> QED BY <1>1, <1>2, <1>3, <1>4 DEF IsRescueFrame

(* The frames that are sent are those of the blocks.                       *)
LEMMA SentIs ==
  ASSUME cfg \in Configs, NEW file \in Files, NEW g
  PROVE  g \in Sent(file) <=> \/ \E i : IsDataFrame(g, i, file)
                              \/ \E b, s, r : IsRescueFrame(g, b, s, r, file)
<1>1. PICK N \in Nat : N = DataFrames(Len(file), cfg)
  BY FileFacts
<1>2. PICK R \in Nat : R = cfg.RescueFramesPerBlock
  BY ConfigFacts
<1>3. ASSUME g \in Sent(file)
      PROVE  \/ \E i : IsDataFrame(g, i, file)
             \/ \E b, s, r : IsRescueFrame(g, b, s, r, file)
  <2>1. \/ \E i \in 0..(N - 1) : g = DataFrame(i, Len(file), cfg)
        \/ \E s \in BlockStarts(N, cfg), r \in 0..(R - 1) : g = RescueFrame(s, r, Len(file), cfg)
    BY <1>1, <1>2, <1>3 DEF Sent, Encoded
  <2>2. CASE \E i \in 0..(N - 1) : g = DataFrame(i, Len(file), cfg)
    <3>1. PICK i \in 0..(N - 1) : g = DataFrame(i, Len(file), cfg)
      BY <2>2
    <3>2. i \in Nat /\ i < N
      OBVIOUS
    <3> QED BY <1>1, <3>1, <3>2, DataFrameIs
  <2>3. CASE \E s \in BlockStarts(N, cfg), r \in 0..(R - 1) : g = RescueFrame(s, r, Len(file), cfg)
    <3>1. PICK s \in BlockStarts(N, cfg), r \in 0..(R - 1) : g = RescueFrame(s, r, Len(file), cfg)
      BY <2>3
    <3>2. r \in Nat /\ r < R
      OBVIOUS
    <3>3. PICK b : StartsAt(b, s, file)
      BY <1>1, <3>1, StartsAreBlockStarts
    <3> QED BY <1>2, <3>1, <3>2, <3>3, RescueFrameIs
  <2> QED BY <2>1, <2>2, <2>3
<1>4. ASSUME NEW i, IsDataFrame(g, i, file) PROVE g \in Sent(file)
  <2>1. i \in 0..(N - 1)
    BY <1>1, <1>4 DEF IsDataFrame
  <2> QED BY <1>1, <1>4, <2>1 DEF IsDataFrame, Sent, Encoded
<1>5. ASSUME NEW b, NEW s, NEW r, IsRescueFrame(g, b, s, r, file) PROVE g \in Sent(file)
  <2>1. r \in 0..(R - 1)
    BY <1>2, <1>5 DEF IsRescueFrame
  <2>2. s \in BlockStarts(N, cfg)
    BY <1>1, <1>5, StartsAreBlockStarts DEF IsRescueFrame
  <2> QED BY <1>1, <1>2, <1>5, <2>1, <2>2 DEF IsRescueFrame, Sent, Encoded
<1> QED BY <1>3, <1>4, <1>5

(* A frame that goes to the slot of g, and one that also has its bytes.     *)
SameSlot(h, g) ==
  h.FrameType = g.FrameType /\ h.FrameIndex = g.FrameIndex /\ h.RescueIndex = g.RescueIndex

Alike(h, g, file) == SameSlot(h, g) /\ Bytes(h.Payload, file) = Bytes(g.Payload, file)

(* Two frames of a file never share a slot.                                *)
LEMMA SlotsApart ==
  ASSUME cfg \in Configs, NEW file \in Files, NEW f \in Sent(file), NEW g \in Sent(file),
         NEW h, SameSlot(h, f), SameSlot(h, g)
  PROVE  f = g
<1>1. SameSlot(f, g)
  BY DEF SameSlot
<1>2. /\ \/ \E i : IsDataFrame(f, i, file)
         \/ \E b, s, r : IsRescueFrame(f, b, s, r, file)
      /\ \/ \E i : IsDataFrame(g, i, file)
         \/ \E b, s, r : IsRescueFrame(g, b, s, r, file)
  BY SentIs
<1>3. CASE \E i : IsDataFrame(f, i, file)
  <2>1. PICK i : IsDataFrame(f, i, file)
    BY <1>3
  <2>2. ~ \E b, s, r : IsRescueFrame(g, b, s, r, file)
    BY <1>1, <2>1 DEF IsDataFrame, IsRescueFrame, SameSlot, Data, Rescue
  <2>3. PICK j : IsDataFrame(g, j, file)
    BY <1>2, <2>2
  <2> QED BY <1>1, <2>1, <2>3 DEF IsDataFrame, SameSlot
<1>4. CASE \E b, s, r : IsRescueFrame(f, b, s, r, file)
  <2>1. PICK b, s, r : IsRescueFrame(f, b, s, r, file)
    BY <1>4
  <2>2. ~ \E i : IsDataFrame(g, i, file)
    BY <1>1, <2>1 DEF IsDataFrame, IsRescueFrame, SameSlot, Data, Rescue
  <2>3. PICK c, t, q : IsRescueFrame(g, c, t, q, file)
    BY <1>2, <2>2
  <2> QED BY <1>1, <2>1, <2>3 DEF IsRescueFrame, SameSlot
<1> QED BY <1>2, <1>3, <1>4

(* The workspace has a slot for every frame of the file.                    *)
HasRoom(w, file) ==
  /\ IsWorkspace(w)
  /\ DataFrames(Len(file), cfg) <= Len(w.data) /\ DataFrames(Len(file), cfg) <= Len(w.present)
  /\ \A b \in 1..BlockCount(DataFrames(Len(file), cfg), cfg) :
       cfg.RescueFramesPerBlock > 0 =>
         b \in DOMAIN w.rescues /\ DOMAIN w.rescues[b] = 1..cfg.RescueFramesPerBlock

(* Only the slot of g changes. *)
OnlySlot(new, w, g, slot, file) ==
  /\ HasRoom(new, file)
  /\ SlotFor(new, g) = slot /\ (slot # Empty => Taken(new, g)) /\ new.buffers = w.buffers
  /\ \A f \in Sent(file) :
       f # g => SlotFor(new, f) = SlotFor(w, f) /\ (Taken(new, f) <=> Taken(w, f))

(* A data frame goes to its slot and nowhere else.                         *)
LEMMA DataPlaced ==
  ASSUME cfg \in Configs, NEW file \in Files, NEW w, HasRoom(w, file),
         NEW g, NEW i, IsDataFrame(g, i, file), NEW h, SameSlot(h, g), NEW slot,
         NEW new, new = Placed(w, h, slot)
  PROVE  OnlySlot(new, w, g, slot, file)
<1>1. h.FrameType = Data /\ h.FrameIndex = i /\ g.FrameType = Data /\ g.FrameIndex = i
  BY DEF IsDataFrame, SameSlot
<1>2. PICK N \in Nat : N = DataFrames(Len(file), cfg)
  BY FileFacts
<1>3. PICK j \in Nat \ {0} : j = i + 1 /\ j <= N
  BY <1>2 DEF IsDataFrame
<1>4. IsWorkspace(w) /\ N <= Len(w.data) /\ N <= Len(w.present)
  BY <1>2 DEF HasRoom
<1>5. PICK d \in Nat : d = Len(w.data) /\ DOMAIN w.data = 1..d
  BY <1>4 DEF IsWorkspace, IsArray
<1>6. PICK p \in Nat : p = Len(w.present) /\ DOMAIN w.present = 1..p
  BY <1>4 DEF IsWorkspace, IsArray
<1>7. j \in 1..d /\ j \in 1..p
  BY <1>3, <1>4, <1>5, <1>6
<1>8. PICK data : data = [w.data EXCEPT ![j] = slot]
  OBVIOUS
<1>9. PICK present : present = [w.present EXCEPT ![j] = TRUE]
  OBVIOUS
<1>10. /\ DOMAIN data = 1..d /\ data[j] = slot
       /\ \A k \in 1..d : k # j => data[k] = w.data[k]
  BY <1>5, <1>7, <1>8
<1>11. /\ DOMAIN present = 1..p /\ present[j] = TRUE
       /\ \A k \in 1..p : k # j => present[k] = w.present[k]
  BY <1>6, <1>7, <1>9
<1>12. new = [w EXCEPT !.data[j] = slot, !.present[j] = TRUE]
  BY <1>1, <1>3 DEF Placed
<1>13. w = [data |-> w.data, present |-> w.present, rescues |-> w.rescues,
            inverses |-> w.inverses, buffers |-> w.buffers, cursor |-> w.cursor]
  BY <1>4 DEF IsWorkspace
<1>14. new = [data |-> data, present |-> present, rescues |-> w.rescues,
              inverses |-> w.inverses, buffers |-> w.buffers, cursor |-> w.cursor]
  BY <1>8, <1>9, <1>12, <1>13
<1>15. /\ new.data = data /\ new.present = present /\ new.rescues = w.rescues
       /\ new.inverses = w.inverses /\ new.buffers = w.buffers /\ new.cursor = w.cursor
  BY <1>14
<1>16. Len(data) = d /\ Len(present) = p /\ IsArray(data) /\ IsArray(present)
  <2>1. Len(data) = d /\ Len(present) = p
    BY <1>10, <1>11
  <2> QED BY <1>10, <1>11, <2>1 DEF IsArray
<1>17. IsWorkspace(new)
  BY <1>4, <1>14, <1>15, <1>16 DEF IsWorkspace
<1>18. HasRoom(new, file)
  BY <1>2, <1>4, <1>5, <1>6, <1>15, <1>16, <1>17 DEF HasRoom
<1>19. SlotFor(new, g) = slot /\ Taken(new, g)
  BY <1>1, <1>3, <1>10, <1>11, <1>15 DEF SlotFor, Taken
<1>20. ASSUME NEW f \in Sent(file), f # g
       PROVE  SlotFor(new, f) = SlotFor(w, f) /\ (Taken(new, f) <=> Taken(w, f))
  <2>1. \/ \E k : IsDataFrame(f, k, file)
        \/ \E b, s, r : IsRescueFrame(f, b, s, r, file)
    BY SentIs
  <2>2. CASE \E k : IsDataFrame(f, k, file)
    <3>1. PICK k : IsDataFrame(f, k, file)
      BY <2>2
    <3>2. k \in Nat /\ k < N /\ k # i /\ i \in Nat
      BY <1>2, <1>20, <3>1 DEF IsDataFrame
    <3>3. k + 1 \in 1..d /\ k + 1 \in 1..p /\ k + 1 # j
      BY <1>3, <1>4, <1>5, <1>6, <3>2
    <3>4. data[k + 1] = w.data[k + 1] /\ present[k + 1] = w.present[k + 1]
      BY <1>10, <1>11, <3>3
    <3>5. f.FrameType = Data /\ f.FrameIndex = k
      BY <3>1 DEF IsDataFrame
    <3> QED BY <1>15, <3>4, <3>5 DEF SlotFor, Taken
  <2>3. CASE \E b, s, r : IsRescueFrame(f, b, s, r, file)
    <3>1. f.FrameType # Data
      BY <2>3 DEF IsRescueFrame, Data, Rescue
    <3> QED BY <1>15, <3>1 DEF SlotFor, Taken
  <2> QED BY <2>1, <2>2, <2>3
<1> QED BY <1>15, <1>18, <1>19, <1>20 DEF OnlySlot

(* A rescue frame goes to its slot and nowhere else.                       *)
LEMMA RescuePlaced ==
  ASSUME cfg \in Configs, NEW file \in Files, NEW w, HasRoom(w, file),
         NEW g, NEW b, NEW s, NEW r, IsRescueFrame(g, b, s, r, file),
         NEW h, SameSlot(h, g), NEW slot, NEW new, new = Placed(w, h, slot)
  PROVE  OnlySlot(new, w, g, slot, file)
<1>1. /\ h.FrameType # Data /\ BlockNumber(h) = b /\ h.RescueIndex = r
      /\ g.FrameType # Data /\ BlockNumber(g) = b /\ g.RescueIndex = r
  BY DEF IsRescueFrame, SameSlot, Data, Rescue, BlockNumber
<1>2. PICK R \in Nat : R = cfg.RescueFramesPerBlock
  BY ConfigFacts
<1>3. PICK j \in Nat \ {0} : j = r + 1 /\ j <= R
  BY <1>2 DEF IsRescueFrame
<1>4. PICK B \in Nat : B = BlockCount(DataFrames(Len(file), cfg), cfg)
  BY BlockCountIs
<1>5. b \in 1..B /\ R > 0
  BY <1>3, <1>4 DEF IsRescueFrame, StartsAt
<1>6. IsWorkspace(w) /\ \A c \in 1..B : c \in DOMAIN w.rescues /\ DOMAIN w.rescues[c] = 1..R
  BY <1>2, <1>4, <1>5 DEF HasRoom
<1>7. PICK row : row = [w.rescues[b] EXCEPT ![j] = slot]
  OBVIOUS
<1>8. DOMAIN row = 1..R /\ row[j] = slot /\ \A q \in 1..R : q # j => row[q] = w.rescues[b][q]
  <2>1. j \in 1..R
    BY <1>3
  <2>2. DOMAIN w.rescues[b] = 1..R
    BY <1>5, <1>6
  <2> QED BY <1>7, <2>1, <2>2
<1>9. PICK rescues : rescues = [w.rescues EXCEPT ![b] = row]
  OBVIOUS
<1>10. /\ DOMAIN rescues = DOMAIN w.rescues /\ rescues[b] = row
       /\ \A c \in DOMAIN w.rescues : c # b => rescues[c] = w.rescues[c]
  BY <1>5, <1>6, <1>9
<1>11. w = [data |-> w.data, present |-> w.present, rescues |-> w.rescues,
            inverses |-> w.inverses, buffers |-> w.buffers, cursor |-> w.cursor]
  BY <1>6 DEF IsWorkspace
<1>12. new = [w EXCEPT !.rescues[b][j] = slot]
  BY <1>1, <1>3 DEF Placed
<1>13. new = [data |-> w.data, present |-> w.present, rescues |-> rescues,
              inverses |-> w.inverses, buffers |-> w.buffers, cursor |-> w.cursor]
  BY <1>7, <1>9, <1>11, <1>12
<1>14. /\ new.data = w.data /\ new.present = w.present /\ new.rescues = rescues
       /\ new.inverses = w.inverses /\ new.buffers = w.buffers /\ new.cursor = w.cursor
  BY <1>13
<1>15. IsArray(rescues)
  <2>1. PICK l \in Nat : l = Len(w.rescues) /\ DOMAIN w.rescues = 1..l
    BY <1>6 DEF IsWorkspace, IsArray
  <2>2. DOMAIN rescues = 1..l
    BY <1>10, <2>1
  <2>3. Len(rescues) = l
    BY <2>2
  <2> QED BY <2>2, <2>3 DEF IsArray
<1>16. IsWorkspace(new)
  BY <1>6, <1>13, <1>14, <1>15 DEF IsWorkspace
<1>17. \A c \in 1..B : c \in DOMAIN rescues /\ DOMAIN rescues[c] = 1..R
  BY <1>6, <1>8, <1>10
<1>18. HasRoom(new, file)
  BY <1>2, <1>4, <1>14, <1>16, <1>17 DEF HasRoom
<1>19. SlotFor(new, g) = slot /\ (slot # Empty => Taken(new, g))
  BY <1>1, <1>3, <1>8, <1>10, <1>14 DEF SlotFor, Taken
<1>20. ASSUME NEW f \in Sent(file), f # g
       PROVE  SlotFor(new, f) = SlotFor(w, f) /\ (Taken(new, f) <=> Taken(w, f))
  <2>1. \/ \E k : IsDataFrame(f, k, file)
        \/ \E c, t, q : IsRescueFrame(f, c, t, q, file)
    BY SentIs
  <2>2. CASE \E k : IsDataFrame(f, k, file)
    <3>1. f.FrameType = Data
      BY <2>2 DEF IsDataFrame
    <3> QED BY <1>14, <3>1 DEF SlotFor, Taken
  <2>3. CASE \E c, t, q : IsRescueFrame(f, c, t, q, file)
    <3>1. PICK c, t, q : IsRescueFrame(f, c, t, q, file)
      BY <2>3
    <3>2. f.FrameType # Data /\ BlockNumber(f) = c /\ f.RescueIndex = q
      BY <3>1 DEF IsRescueFrame, Data, Rescue
    <3>3. c \in 1..B /\ c \in DOMAIN w.rescues
      BY <1>4, <1>6, <3>1 DEF IsRescueFrame, StartsAt
    <3>4. PICK k \in Nat : k = q + 1 /\ k \in 1..R
      BY <1>2, <3>1 DEF IsRescueFrame
    <3>5. c # b \/ k # j
      <4>1. SUFFICES ASSUME c = b, k = j PROVE f = g
        BY <1>20
      <4>2. q = r
        BY <1>3, <3>1, <3>4, <4>1 DEF IsRescueFrame
      <4>3. t = s
        BY <3>1, <4>1 DEF IsRescueFrame, StartsAt
      <4> QED BY <3>1, <4>2, <4>3 DEF IsRescueFrame
    <3>6. rescues[c][k] = w.rescues[c][k]
      BY <1>8, <1>10, <3>3, <3>4, <3>5
    <3> QED BY <1>14, <3>2, <3>4, <3>6 DEF SlotFor, Taken
  <2> QED BY <2>1, <2>2, <2>3
<1> QED BY <1>14, <1>18, <1>19, <1>20 DEF OnlySlot

(* A frame goes to its slot and nowhere else.                              *)
LEMMA PlacedIs ==
  ASSUME cfg \in Configs, NEW file \in Files, NEW w, HasRoom(w, file),
         NEW g \in Sent(file), NEW h, SameSlot(h, g), NEW slot
  PROVE  OnlySlot(Placed(w, h, slot), w, g, slot, file)
<1>1. PICK new : new = Placed(w, h, slot)
  OBVIOUS
<1>2. \/ \E i : IsDataFrame(g, i, file)
      \/ \E b, s, r : IsRescueFrame(g, b, s, r, file)
  BY SentIs
<1>3. CASE \E i : IsDataFrame(g, i, file)
  BY <1>1, <1>3, DataPlaced
<1>4. CASE \E b, s, r : IsRescueFrame(g, b, s, r, file)
  BY <1>1, <1>4, RescuePlaced
<1> QED BY <1>1, <1>2, <1>3, <1>4

-----------------------------------------------------------------------------

(* The slot of f once the known frames are filled in. *)
SlotIs(w, f, file, known) ==
  IF f \in known THEN SlotFor(w, f) = SlotOfPayload(Bytes(f.Payload, file)) /\ Taken(w, f)
                 ELSE SlotFor(w, f) = Empty /\ ~Taken(w, f)

IsFilling(acc, file, known) ==
  /\ acc = [ws |-> acc.ws, conflict |-> FALSE] /\ HasRoom(acc.ws, file)
  /\ \A f \in Sent(file) : SlotIs(acc.ws, f, file, known)

(* A slot with a payload is not empty, and holds that payload.             *)
LEMMA PayloadSlot ==
  ASSUME NEW bytes, NEW buffers, NEW slot, slot = SlotOfPayload(bytes)
  PROVE  slot # Empty /\ Read(slot, buffers) = bytes
<1>1. slot.buffer = 0 /\ slot.bytes = bytes /\ Empty.buffer = -1
  BY DEF SlotOfPayload, Empty
<1> QED BY <1>1 DEF Read

(* A frame of the file fills its slot, or is found there already.          *)
LEMMA FillStep ==
  ASSUME cfg \in Configs, NEW file \in Files, NEW acc, NEW known, IsFilling(acc, file, known),
         NEW g \in Sent(file), NEW h, Alike(h, g, file),
         NEW new, new = FillNext(acc, h, Bytes(h.Payload, file)),
         NEW grown, grown = known \cup {g}
  PROVE  IsFilling(new, file, grown)
<1>1. PICK w : w = acc.ws
  OBVIOUS
<1>2. PICK bytes : bytes = Bytes(h.Payload, file)
  OBVIOUS
<1>3. bytes = Bytes(g.Payload, file) /\ SameSlot(h, g)
  BY <1>2 DEF Alike
<1>4. HasRoom(w, file) /\ acc = [ws |-> w, conflict |-> FALSE]
  BY <1>1 DEF IsFilling
<1>5. SlotFor(w, h) = SlotFor(w, g) /\ (Taken(w, h) <=> Taken(w, g))
  BY <1>3 DEF SlotFor, Taken, SameSlot, BlockNumber
<1>6. new = PutFrame(acc, h, bytes)
  BY <1>2, <1>4 DEF FillNext
<1>7. \A f \in Sent(file) : SlotIs(w, f, file, known)
  BY <1>1 DEF IsFilling
<1>8. CASE g \in known
  <2>1. SlotFor(w, h) = SlotOfPayload(bytes) /\ Taken(w, h)
    BY <1>3, <1>5, <1>7, <1>8 DEF SlotIs
  <2>2. Read(SlotFor(w, h), w.buffers) = bytes
    BY <2>1, PayloadSlot
  <2>3. new = [acc EXCEPT !.conflict = Read(SlotFor(w, h), w.buffers) # bytes]
    BY <1>1, <1>6, <2>1 DEF PutFrame
  <2>4. (Read(SlotFor(w, h), w.buffers) # bytes) = FALSE
    BY <2>2, Zenon
  <2>5. new = [acc EXCEPT !.conflict = FALSE]
    BY <2>3, <2>4, Zenon
  <2>6. new = [ws |-> w, conflict |-> FALSE]
    BY <1>4, <2>5
  <2>7. new.ws = w /\ grown = known
    BY <1>8, <2>6
  <2> QED BY <1>4, <1>7, <2>6, <2>7 DEF IsFilling
<1>9. CASE g \notin known
  <2>1. ~Taken(w, h)
    BY <1>5, <1>7, <1>9 DEF SlotIs
  <2>2. PICK slot : slot = SlotOfPayload(bytes)
    OBVIOUS
  <2>3. PICK next : next = Placed(w, h, slot)
    OBVIOUS
  <2>4. new = [acc EXCEPT !.ws = next]
    BY <1>1, <1>6, <2>1, <2>2, <2>3 DEF PutFrame
  <2>5. new = [ws |-> next, conflict |-> FALSE] /\ new.ws = next
    BY <1>4, <2>4
  <2>6. OnlySlot(next, w, g, slot, file)
    BY <1>3, <1>4, <2>3, PlacedIs
  <2>7. slot # Empty
    BY <2>2, PayloadSlot
  <2>8. ASSUME NEW f \in Sent(file) PROVE SlotIs(next, f, file, grown)
    <3>1. CASE f = g
      <4>1. SlotFor(next, g) = slot /\ Taken(next, g)
        BY <2>6, <2>7 DEF OnlySlot
      <4> QED BY <1>3, <2>2, <3>1, <4>1 DEF SlotIs
    <3>2. CASE f # g
      <4>1. SlotFor(next, f) = SlotFor(w, f) /\ (Taken(next, f) <=> Taken(w, f))
        BY <2>6, <3>2 DEF OnlySlot
      <4>2. SlotIs(w, f, file, known)
        BY <1>7
      <4>3. f \in grown <=> f \in known
        BY <3>2
      <4> QED BY <4>1, <4>2, <4>3 DEF SlotIs
    <3> QED BY <3>1, <3>2
  <2>9. HasRoom(next, file)
    BY <2>6 DEF OnlySlot
  <2> QED BY <2>5, <2>8, <2>9 DEF IsFilling
<1> QED BY <1>8, <1>9

(* A slot may have been filled with other bytes than those of its frame.    *)
HasGarbage(acc, g, bytes, file) ==
  /\ acc = [ws |-> acc.ws, conflict |-> acc.conflict] /\ HasRoom(acc.ws, file)
  /\ ~acc.conflict => SlotFor(acc.ws, g) = SlotOfPayload(bytes) /\ Taken(acc.ws, g)

(* Once a slot holds other bytes than its frame has, the frame conflicts.  *)
LEMMA GarbageStep ==
  ASSUME cfg \in Configs, NEW file \in Files, NEW acc, NEW g \in Sent(file), NEW garbage,
         garbage # Bytes(g.Payload, file), HasGarbage(acc, g, garbage, file),
         NEW f \in Sent(file), NEW new, new = FillNext(acc, f, Bytes(f.Payload, file))
  PROVE  HasGarbage(new, g, garbage, file) /\ (f = g => new.conflict)
<1>1. PICK w : w = acc.ws
  OBVIOUS
<1>2. PICK bytes : bytes = Bytes(f.Payload, file)
  OBVIOUS
<1>3. CASE acc.conflict
  BY <1>3 DEF FillNext
<1>4. CASE ~acc.conflict
  <2>1. HasRoom(w, file) /\ acc = [ws |-> w, conflict |-> acc.conflict]
    BY <1>1 DEF HasGarbage
  <2>2. SlotFor(w, g) = SlotOfPayload(garbage) /\ Taken(w, g)
    BY <1>1, <1>4 DEF HasGarbage
  <2>3. new = PutFrame(acc, f, bytes)
    BY <1>2, <1>4 DEF FillNext
  <2>4. CASE Taken(w, f)
    <3>1. PICK differs \in BOOLEAN : differs = (Read(SlotFor(w, f), w.buffers) # bytes)
      BY Zenon
    <3>2. new = [acc EXCEPT !.conflict = differs]
      BY <1>1, <2>3, <2>4, <3>1 DEF PutFrame
    <3>3. new = [ws |-> w, conflict |-> differs] /\ new.ws = w /\ new.conflict = differs
      BY <2>1, <3>2
    <3>4. f = g => differs
      <4>1. f = g => Read(SlotFor(w, f), w.buffers) = garbage
        BY <2>2, PayloadSlot
      <4> QED BY <1>2, <3>1, <4>1
    <3>5. HasGarbage(new, g, garbage, file)
      BY <2>1, <2>2, <3>3 DEF HasGarbage
    <3> QED BY <3>3, <3>4, <3>5
  <2>5. CASE ~Taken(w, f)
    <3>1. f # g
      BY <2>2, <2>5
    <3>2. PICK slot : slot = SlotOfPayload(bytes)
      OBVIOUS
    <3>3. PICK next : next = Placed(w, f, slot)
      OBVIOUS
    <3>4. new = [acc EXCEPT !.ws = next]
      BY <1>1, <2>3, <2>5, <3>2, <3>3 DEF PutFrame
    <3>5. new = [ws |-> next, conflict |-> acc.conflict] /\ new.ws = next /\ new.conflict = acc.conflict
      BY <2>1, <3>4
    <3>6. SameSlot(f, f)
      BY DEF SameSlot
    <3>7. OnlySlot(next, w, f, slot, file)
      BY <2>1, <3>3, <3>6, PlacedIs
    <3>8. SlotFor(next, g) = SlotFor(w, g) /\ (Taken(next, g) <=> Taken(w, g)) /\ HasRoom(next, file)
      BY <3>1, <3>7 DEF OnlySlot
    <3> QED BY <2>2, <3>1, <3>5, <3>8 DEF HasGarbage
  <2> QED BY <2>4, <2>5
<1> QED BY <1>3, <1>4

(* An array that is made ready has its first entries cleared.              *)
LEMMA SlotsAre ==
  ASSUME NEW array, IsArray(array), NEW n \in Nat, NEW empty,
         NEW new, new = Slots(array, n, empty)
  PROVE  /\ IsArray(new) /\ n <= Len(new) /\ \A i \in 1..n : new[i] = empty
<1>1. PICK l \in Nat : l = Len(array) /\ DOMAIN array = 1..l
  BY DEF IsArray
<1>2. CASE l < n
  <2>1. new = [i \in 1..n |-> empty]
    BY <1>1, <1>2 DEF Slots
  <2>2. DOMAIN new = 1..n /\ Len(new) = n
    BY <2>1
  <2> QED BY <2>1, <2>2 DEF IsArray
<1>3. CASE ~(l < n)
  <2>1. new = [i \in 1..l |-> IF i <= n THEN empty ELSE array[i]]
    BY <1>1, <1>3 DEF Slots
  <2>2. DOMAIN new = 1..l /\ Len(new) = l
    BY <2>1
  <2>3. \A i \in 1..n : i \in 1..l /\ i <= n
    BY <1>3
  <2> QED BY <1>3, <2>1, <2>2, <2>3 DEF IsArray
<1> QED BY <1>2, <1>3

(* A workspace that is made ready holds no frame, whatever it held before. *)
LEMMA PreparedIs ==
  ASSUME cfg \in Configs, NEW file \in Files, NEW w, IsWorkspace(w),
         NEW N, N = DataFrames(Len(file), cfg), NEW new, new = Prepared(w, N)
  PROVE  IsFilling([ws |-> new, conflict |-> FALSE], file, {})
<1>1. N \in Nat
  BY FileFacts
<1>2. PICK B \in Nat : B = BlockCount(N, cfg)
  BY BlockCountIs
<1>3. PICK R \in Nat : R = cfg.RescueFramesPerBlock
  BY ConfigFacts
<1>4. PICK row : row = [r \in 1..R |-> Empty]
  OBVIOUS
<1>5. PICK data : data = Slots(w.data, N, Empty)
  OBVIOUS
<1>6. PICK present : present = Slots(w.present, N, FALSE)
  OBVIOUS
<1>7. PICK rescues : rescues = IF R = 0 THEN w.rescues ELSE Slots(w.rescues, B, row)
  OBVIOUS
<1>8. w = [data |-> w.data, present |-> w.present, rescues |-> w.rescues,
           inverses |-> w.inverses, buffers |-> w.buffers, cursor |-> w.cursor]
  BY DEF IsWorkspace
<1>9. new = [w EXCEPT !.data = data, !.present = present, !.rescues = rescues]
  <2>1. new = [w EXCEPT !.data = Slots(@, N, Empty), !.present = Slots(@, N, FALSE),
                        !.rescues = IF R = 0 THEN @ ELSE Slots(@, B, row)]
    BY <1>2, <1>3, <1>4 DEF Prepared
  <2> QED BY <1>5, <1>6, <1>7, <1>8, <2>1
<1>10. new = [data |-> data, present |-> present, rescues |-> rescues,
              inverses |-> w.inverses, buffers |-> w.buffers, cursor |-> w.cursor]
  BY <1>8, <1>9
<1>11. /\ new.data = data /\ new.present = present /\ new.rescues = rescues
       /\ new.inverses = w.inverses /\ new.buffers = w.buffers /\ new.cursor = w.cursor
  BY <1>10
<1>12. IsArray(data) /\ N <= Len(data) /\ \A i \in 1..N : data[i] = Empty
  <2>1. IsArray(w.data)
    BY DEF IsWorkspace
  <2> QED BY <1>1, <1>5, <2>1, SlotsAre
<1>13. IsArray(present) /\ N <= Len(present) /\ \A i \in 1..N : present[i] = FALSE
  <2>1. IsArray(w.present)
    BY DEF IsWorkspace
  <2>2. \A none : /\ IsArray(Slots(w.present, N, none)) /\ N <= Len(Slots(w.present, N, none))
                  /\ \A i \in 1..N : Slots(w.present, N, none)[i] = none
    BY <1>1, <2>1, SlotsAre
  <2> QED BY <1>6, <2>2, Zenon
<1>14. IsArray(rescues) /\ (R > 0 => B <= Len(rescues) /\ \A b \in 1..B : rescues[b] = row)
  <2>1. IsArray(w.rescues)
    BY DEF IsWorkspace
  <2>2. PICK full : full = Slots(w.rescues, B, row)
    OBVIOUS
  <2>3. IsArray(full) /\ B <= Len(full) /\ \A b \in 1..B : full[b] = row
    BY <2>1, <2>2, SlotsAre
  <2> QED BY <1>7, <2>1, <2>2, <2>3
<1>15. IsWorkspace(new)
  BY <1>10, <1>11, <1>12, <1>13, <1>14 DEF IsWorkspace
<1>16. DOMAIN row = 1..R /\ \A r \in 1..R : row[r] = Empty
  BY <1>4
<1>17. ASSUME NEW b \in 1..B, R > 0 PROVE b \in DOMAIN rescues /\ rescues[b] = row
  <2>1. PICK l \in Nat : l = Len(rescues) /\ DOMAIN rescues = 1..l
    BY <1>14 DEF IsArray
  <2>2. b \in 1..l
    BY <1>14, <1>17, <2>1
  <2> QED BY <1>14, <1>17, <2>1, <2>2
<1>18. HasRoom(new, file)
  BY <1>2, <1>3, <1>11, <1>12, <1>13, <1>15, <1>16, <1>17 DEF HasRoom
<1>19. ASSUME NEW f \in Sent(file) PROVE SlotFor(new, f) = Empty /\ ~Taken(new, f)
  <2>1. \/ \E k : IsDataFrame(f, k, file)
        \/ \E b, s, r : IsRescueFrame(f, b, s, r, file)
    BY SentIs
  <2>2. CASE \E k : IsDataFrame(f, k, file)
    <3>1. PICK k : IsDataFrame(f, k, file)
      BY <2>2
    <3>2. k \in Nat /\ k < N /\ f.FrameType = Data /\ f.FrameIndex = k
      BY <3>1 DEF IsDataFrame
    <3>3. k + 1 \in 1..N
      BY <1>1, <3>2
    <3>4. data[k + 1] = Empty /\ present[k + 1] = FALSE
      BY <1>12, <1>13, <3>3
    <3> QED BY <1>11, <3>2, <3>4 DEF SlotFor, Taken
  <2>3. CASE \E b, s, r : IsRescueFrame(f, b, s, r, file)
    <3>1. PICK b, s, r : IsRescueFrame(f, b, s, r, file)
      BY <2>3
    <3>2. f.FrameType # Data /\ BlockNumber(f) = b /\ f.RescueIndex = r /\ r \in Nat /\ r < R
      BY <1>3, <3>1 DEF IsRescueFrame, Data, Rescue
    <3>3. r + 1 \in 1..R /\ R > 0
      BY <3>2
    <3>4. b \in 1..B
      BY <1>2, <3>1 DEF IsRescueFrame, StartsAt
    <3>5. rescues[b][r + 1] = Empty
      BY <1>16, <1>17, <3>3, <3>4
    <3> QED BY <1>11, <3>2, <3>5 DEF SlotFor, Taken
  <2> QED BY <2>1, <2>2, <2>3
<1>20. \A f \in Sent(file) : SlotIs(new, f, file, {})
  BY <1>19 DEF SlotIs
<1>21. PICK acc : acc = [ws |-> new, conflict |-> FALSE]
  OBVIOUS
<1>22. acc.ws = new
  BY <1>21
<1> QED BY <1>18, <1>20, <1>21, <1>22 DEF IsFilling

(* The workspaces of the loop that fills in the frames. *)
FillsFrames(f, w, frames, file, n) ==
  /\ f[0] = [ws |-> w, conflict |-> FALSE]
  /\ \A k \in 1..n : f[k] = FillNext(f[k - 1], frames[k], Bytes(frames[k].Payload, file))

(* There is a workspace after every frame that is put in.                  *)
LEMMA FillsExist ==
  ASSUME NEW n \in Nat, NEW w, NEW frames, NEW file
  PROVE  \E f : DOMAIN f = 0..n /\ FillsFrames(f, w, frames, file, n)
<1> DEFINE E == {k \in 0..n : \E f : DOMAIN f = 0..k /\ FillsFrames(f, w, frames, file, k)}
<1>1. 0 \in E
  <2>1. PICK k \in 0..n : k = 0
    OBVIOUS
  <2>2. PICK f : f = [i \in 0..k |-> [ws |-> w, conflict |-> FALSE]]
    OBVIOUS
  <2>3. DOMAIN f = 0..k /\ f[0] = [ws |-> w, conflict |-> FALSE] /\ 1..k = {}
    BY <2>1, <2>2
  <2>4. FillsFrames(f, w, frames, file, k)
    BY <2>3 DEF FillsFrames
  <2> QED BY <2>1, <2>3, <2>4
<1>2. ASSUME NEW k \in E, k < n PROVE k + 1 \in E
  <2>1. k \in 0..n /\ k + 1 \in 0..n /\ \E f : DOMAIN f = 0..k /\ FillsFrames(f, w, frames, file, k)
    BY <1>2
  <2>2. PICK f : DOMAIN f = 0..k /\ FillsFrames(f, w, frames, file, k)
    BY <2>1
  <2>3. PICK next : next = FillNext(f[k], frames[k + 1], Bytes(frames[k + 1].Payload, file))
    OBVIOUS
  <2>4. PICK g : g = [i \in 0..(k + 1) |-> IF i = k + 1 THEN next ELSE f[i]]
    OBVIOUS
  <2>5. \A i \in 0..k : i \in 0..(k + 1) /\ i # k + 1 /\ g[i] = f[i]
    BY <2>1, <2>4
  <2>6. g[k + 1] = next /\ k \in 0..k /\ 0 \in 0..k
    BY <2>1, <2>4
  <2>7. ASSUME NEW i \in 1..(k + 1) PROVE g[i] = FillNext(g[i - 1], frames[i], Bytes(frames[i].Payload, file))
    <3>1. CASE i \in 1..k
      <4>1. i \in 0..k /\ i - 1 \in 0..k
        BY <2>1, <3>1
      <4>2. f[i] = FillNext(f[i - 1], frames[i], Bytes(frames[i].Payload, file))
        BY <2>2, <3>1 DEF FillsFrames
      <4> QED BY <2>5, <4>1, <4>2
    <3>2. CASE i = k + 1
      <4>1. i - 1 = k
        BY <2>1, <3>2
      <4> QED BY <2>3, <2>5, <2>6, <3>2, <4>1
    <3>3. i \in 1..k \/ i = k + 1
      BY <2>1
    <3> QED BY <3>1, <3>2, <3>3
  <2>8. g[0] = [ws |-> w, conflict |-> FALSE]
    BY <2>2, <2>5, <2>6 DEF FillsFrames
  <2>9. FillsFrames(g, w, frames, file, k + 1)
    BY <2>7, <2>8 DEF FillsFrames
  <2>10. DOMAIN g = 0..(k + 1)
    BY <2>4
  <2> QED BY <2>1, <2>9, <2>10
<1>3. n \in E
  <2>1. E \in SUBSET (0..n) /\ n \in 0..n
    OBVIOUS
  <2> HIDE DEF E
  <2> QED BY <1>1, <1>2, <2>1, InductionFromZero
<1> QED BY <1>3

(* Filled returns the last of them.                                        *)
LEMMA FillIsLast ==
  ASSUME NEW w, NEW frames, NEW file, NEW n \in Nat, n = Len(frames)
  PROVE  \E f : FillsFrames(f, w, frames, file, n) /\ Filled(w, frames, file) = f[n]
<1> DEFINE Goes(g) == g = [k \in 0..Len(frames) |-> IF k = 0 THEN [ws |-> w, conflict |-> FALSE]
                                               ELSE FillNext(g[k - 1], frames[k], Bytes(frames[k].Payload, file))]
           after == CHOOSE g : Goes(g)
<1>1. Goes(after)
  <2>1. PICK f : DOMAIN f = 0..n /\ FillsFrames(f, w, frames, file, n)
    BY FillsExist
  <2>2. PICK g : g = [k \in 0..n |-> f[k]]
    OBVIOUS
  <2>3. \A k \in 0..n : g[k] = IF k = 0 THEN [ws |-> w, conflict |-> FALSE] ELSE FillNext(g[k - 1], frames[k], Bytes(frames[k].Payload, file))
    <3>1. ASSUME NEW k \in 0..n, k # 0 PROVE g[k] = FillNext(g[k - 1], frames[k], Bytes(frames[k].Payload, file))
      <4>1. k \in 1..n /\ k - 1 \in 0..n
        BY <3>1
      <4> QED BY <2>1, <2>2, <4>1 DEF FillsFrames
    <3> QED BY <2>1, <2>2, <3>1 DEF FillsFrames
  <2>4. Goes(g)
    BY <2>2, <2>3, Zenon
  <2> HIDE DEF Goes
  <2> QED BY <2>4
<1>2. Filled(w, frames, file) = after[Len(frames)]
  BY Zenon DEF Filled
<1> HIDE DEF after
<1>3. PICK g : g = after
  OBVIOUS
<1>4. g = [k \in 0..n |-> IF k = 0 THEN [ws |-> w, conflict |-> FALSE] ELSE FillNext(g[k - 1], frames[k], Bytes(frames[k].Payload, file))]
  BY <1>1, <1>3
<1>5. \A k \in 0..n : g[k] = IF k = 0 THEN [ws |-> w, conflict |-> FALSE] ELSE FillNext(g[k - 1], frames[k], Bytes(frames[k].Payload, file))
  BY <1>4
<1>6. FillsFrames(g, w, frames, file, n)
  <2>1. 0 \in 0..n /\ \A k \in 1..n : k \in 0..n /\ k # 0
    OBVIOUS
  <2> QED BY <1>5, <2>1 DEF FillsFrames
<1> QED BY <1>2, <1>3, <1>6

(* The frames of the file that are among the first k of those that came.    *)
ArrivedBy(frames, file, k) ==
  {g \in Sent(file) : \E j \in 1..k : Alike(frames[j], g, file)}

Arrived(frames, file) == ArrivedBy(frames, file, Len(frames))

(* Every frame that came is one of the file, at least in what is read.      *)
Honest(frames, file) ==
  \A k \in 1..Len(frames) : \E g \in Sent(file) : Alike(frames[k], g, file)

(* The frames of the file, in any order and however often, fill their slots*)
(* and never conflict.                                                     *)
LEMMA HonestFill ==
  ASSUME cfg \in Configs, NEW file \in Files, NEW w, IsFilling([ws |-> w, conflict |-> FALSE], file, {}),
         NEW frames, Len(frames) \in Nat, Honest(frames, file)
  PROVE  IsFilling(Filled(w, frames, file), file, Arrived(frames, file))
<1>1. PICK n \in Nat : n = Len(frames)
  OBVIOUS
<1>2. PICK f : FillsFrames(f, w, frames, file, n) /\ Filled(w, frames, file) = f[n]
  BY <1>1, FillIsLast
<1> DEFINE E == {k \in 0..n : IsFilling(f[k], file, ArrivedBy(frames, file, k))}
<1>3. 0 \in E
  <2>1. ArrivedBy(frames, file, 0) = {}
    <3>1. 1..0 = {}
      OBVIOUS
    <3> QED BY <3>1 DEF ArrivedBy
  <2>2. f[0] = [ws |-> w, conflict |-> FALSE]
    BY <1>2 DEF FillsFrames
  <2>3. IsFilling(f[0], file, ArrivedBy(frames, file, 0))
    BY <2>1, <2>2
  <2>4. 0 \in 0..n
    OBVIOUS
  <2> QED BY <2>3, <2>4
<1>4. ASSUME NEW k \in E, k < n PROVE k + 1 \in E
  <2>1. PICK a \in Nat : a = k /\ a + 1 \in 1..n
    BY <1>4
  <2>2. PICK c \in 1..n : c = a + 1 /\ c - 1 = a
    BY <2>1
  <2>3. f[c] = FillNext(f[a], frames[c], Bytes(frames[c].Payload, file))
    BY <1>2, <2>2 DEF FillsFrames
  <2>4. PICK g \in Sent(file) : Alike(frames[c], g, file)
    BY <1>1 DEF Honest
  <2>5. ArrivedBy(frames, file, c) = ArrivedBy(frames, file, a) \cup {g}
    <3>1. \A j : j \in 1..c <=> j \in 1..a \/ j = c
      BY <2>2
    <3>2. \A x \in Sent(file) : Alike(frames[c], x, file) <=> x = g
      <4>1. ASSUME NEW x \in Sent(file), Alike(frames[c], x, file) PROVE x = g
        BY <2>4, <4>1, SlotsApart DEF Alike
      <4> QED BY <2>4, <4>1
    <3> QED BY <3>1, <3>2 DEF ArrivedBy
  <2>6. IsFilling(f[a], file, ArrivedBy(frames, file, a))
    BY <2>1
  <2>7. IsFilling(f[c], file, ArrivedBy(frames, file, c))
    BY <2>3, <2>4, <2>5, <2>6, FillStep
  <2> QED BY <2>1, <2>2, <2>7
<1>5. n \in E
  <2>1. E \in SUBSET (0..n) /\ n \in 0..n
    OBVIOUS
  <2> HIDE DEF E
  <2> QED BY <1>3, <1>4, <2>1, InductionFromZero
<1> QED BY <1>1, <1>2, <1>5 DEF Arrived

(* The frames came after one that has the slot, but not the bytes, of g.    *)
LEMMA GarbageFill ==
  ASSUME cfg \in Configs, NEW file \in Files, NEW w, IsFilling([ws |-> w, conflict |-> FALSE], file, {}),
         NEW g \in Sent(file), NEW frames, Len(frames) \in Nat, SameSlot(frames[1], g),
         Bytes(frames[1].Payload, file) # Bytes(g.Payload, file),
         \A k \in 2..Len(frames) : frames[k] \in Sent(file),
         Len(frames) > 1, frames[Len(frames)] = g,
         NEW filled, filled = Filled(w, frames, file)
  PROVE  filled.conflict /\ IsWorkspace(filled.ws)
<1>1. PICK n \in Nat : n = Len(frames) /\ n > 1
  OBVIOUS
<1>2. PICK f : FillsFrames(f, w, frames, file, n) /\ filled = f[n]
  BY <1>1, FillIsLast
<1>3. PICK garbage : garbage = Bytes(frames[1].Payload, file)
  OBVIOUS
<1>4. PICK one \in Nat : one = 1
  OBVIOUS
<1>5. HasGarbage(f[one], g, garbage, file)
  <2>1. PICK acc : acc = [ws |-> w, conflict |-> FALSE]
    OBVIOUS
  <2>2. acc.ws = w /\ acc.conflict = FALSE /\ f[0] = acc
    BY <1>2, <2>1 DEF FillsFrames
  <2>3. HasRoom(w, file) /\ SlotIs(w, g, file, {})
    BY <2>1, <2>2 DEF IsFilling
  <2>4. f[one] = FillNext(f[0], frames[1], garbage)
    <3>1. 1 \in 1..n /\ 1 - 1 = 0
      BY <1>1
    <3> QED BY <1>2, <1>3, <1>4, <3>1 DEF FillsFrames
  <2>5. ~Taken(w, frames[1])
    BY <2>3 DEF SlotIs, SameSlot, Taken, BlockNumber
  <2>6. PICK next : next = Placed(w, frames[1], SlotOfPayload(garbage))
    OBVIOUS
  <2>7. f[one] = [acc EXCEPT !.ws = next]
    BY <2>2, <2>4, <2>5, <2>6 DEF FillNext, PutFrame
  <2>8. f[one] = [ws |-> next, conflict |-> FALSE] /\ f[one].ws = next /\ f[one].conflict = FALSE
    BY <2>1, <2>7
  <2>9. PICK slot : slot = SlotOfPayload(garbage)
    OBVIOUS
  <2>10. slot # Empty
    BY <2>9, PayloadSlot
  <2>11. OnlySlot(next, w, g, slot, file)
    BY <2>3, <2>6, <2>9, PlacedIs
  <2>12. HasRoom(next, file) /\ SlotFor(next, g) = slot /\ Taken(next, g)
    BY <2>10, <2>11 DEF OnlySlot
  <2> QED BY <2>8, <2>9, <2>12 DEF HasGarbage
<1>6. ASSUME NEW a \in Nat, NEW c \in 2..n, c = a + 1, HasGarbage(f[a], g, garbage, file)
      PROVE  HasGarbage(f[c], g, garbage, file) /\ (c = n => f[c].conflict)
  <2>1. c \in 1..n /\ c - 1 = a
    BY <1>6
  <2>2. f[c] = FillNext(f[a], frames[c], Bytes(frames[c].Payload, file))
    BY <1>2, <2>1 DEF FillsFrames
  <2>3. frames[c] \in Sent(file)
    BY <1>1
  <2>4. c = n => frames[c] = g
    BY <1>1
  <2> QED BY <1>3, <1>6, <2>2, <2>3, <2>4, GarbageStep
<1> DEFINE E == {k \in 0..n : k = 0 \/ HasGarbage(f[k], g, garbage, file)}
<1>7. \A k \in E : k < n => k + 1 \in E
  <2>1. SUFFICES ASSUME NEW k \in E, k < n PROVE k + 1 \in E
    OBVIOUS
  <2>2. CASE k = 0
    <3>1. k + 1 = one /\ k + 1 \in 0..n
      BY <1>1, <1>4, <2>2
    <3> QED BY <1>5, <3>1
  <2>3. CASE k # 0
    <3>1. PICK a \in Nat : a = k /\ a # 0
      BY <2>3
    <3>2. PICK c \in 2..n : c = a + 1
      BY <2>1, <3>1
    <3>3. HasGarbage(f[c], g, garbage, file)
      BY <1>6, <2>3, <3>1, <3>2
    <3>4. c \in 0..n /\ c = k + 1
      BY <3>1, <3>2
    <3> QED BY <3>3, <3>4
  <2> QED BY <2>2, <2>3
<1>8. n - 1 \in E
  <2>1. E \in SUBSET (0..n) /\ n \in 0..n /\ 0 \in E
    OBVIOUS
  <2>2. n - 1 \in 0..n /\ n - 1 < n
    BY <1>1
  <2> HIDE DEF E
  <2>3. n \in E /\ E = 0..n
    BY <1>7, <2>1, InductionFromZero
  <2> QED BY <2>2, <2>3
<1>9. PICK a \in Nat : a = n - 1 /\ a # 0 /\ n = a + 1 /\ n \in 2..n
  BY <1>1
<1>10. HasGarbage(f[a], g, garbage, file)
  BY <1>8, <1>9
<1>11. HasGarbage(f[n], g, garbage, file) /\ f[n].conflict
  BY <1>6, <1>9, <1>10
<1> QED BY <1>2, <1>11 DEF HasGarbage, HasRoom

(* What the frames brought is what the workspace holds.                    *)
LEMMA FilledIs ==
  ASSUME cfg \in Configs, NEW file \in Files, NEW acc, NEW known, IsFilling(acc, file, known)
  PROVE  IsFilled(acc.ws, file, known)
<1>1. PICK w : w = acc.ws
  OBVIOUS
<1>2. HasRoom(w, file) /\ \A f \in Sent(file) : SlotIs(w, f, file, known)
  BY <1>1 DEF IsFilling
<1>3. PICK N \in Nat : N = DataFrames(Len(file), cfg)
  BY FileFacts
<1>4. PICK R \in Nat : R = cfg.RescueFramesPerBlock
  BY ConfigFacts
<1>5. HoldsData(w, file, known)
  <2>1. SUFFICES ASSUME NEW i \in 0..(N - 1)
                 PROVE  w.data[i + 1] = IF DataFrame(i, Len(file), cfg) \in known
                                        THEN SlotOfPayload(Slice(file, i)) ELSE Empty
    BY <1>3 DEF HoldsData
  <2>2. PICK g : g = DataFrame(i, Len(file), cfg)
    OBVIOUS
  <2>3. i \in Nat /\ i < N
    OBVIOUS
  <2>4. IsDataFrame(g, i, file)
    BY <1>3, <2>2, <2>3, DataFrameIs
  <2>5. SlotIs(w, g, file, known)
    BY <1>2, <2>4, SentIs
  <2>6. SlotFor(w, g) = w.data[i + 1] /\ Bytes(g.Payload, file) = Slice(file, i)
    BY <2>4 DEF IsDataFrame, SlotFor
  <2> QED BY <2>2, <2>5, <2>6 DEF SlotIs
<1>6. HoldsRescues(w, file, known)
  <2>1. SUFFICES ASSUME NEW b \in 1..BlockCount(DataFrames(Len(file), cfg), cfg), NEW r \in 0..(R - 1)
                 PROVE  w.rescues[b][r + 1] = RescueSlot(file, (b - 1) * cfg.DataFramesPerBlock, r, known)
    BY <1>4 DEF HoldsRescues
  <2>2. PICK s : StartsAt(b, s, file)
    BY BlockStart
  <2>3. PICK g : g = RescueFrame(s, r, Len(file), cfg)
    OBVIOUS
  <2>4. r \in Nat /\ r < R
    OBVIOUS
  <2>5. IsRescueFrame(g, b, s, r, file)
    BY <1>4, <2>2, <2>3, <2>4, RescueFrameIs
  <2>6. SlotIs(w, g, file, known)
    BY <1>2, <2>5, SentIs
  <2>7. SlotFor(w, g) = w.rescues[b][r + 1]
        /\ Bytes(g.Payload, file) = RescueBytes(BlockPayloads(NoPayloads, file, s), r)
    BY <2>5 DEF IsRescueFrame, SlotFor, Data, Rescue
  <2>8. w.rescues[b][r + 1] = RescueSlot(file, s, r, known)
    BY <2>3, <2>6, <2>7 DEF SlotIs, RescueSlot
  <2> QED BY <2>2, <2>8 DEF StartsAt
<1> QED BY <1>1, <1>2, <1>3, <1>5, <1>6 DEF IsFilled, HasRoom

-----------------------------------------------------------------------------

(* The frames of the file are what its headers say. *)
LEMMA SentHeader ==
  ASSUME cfg \in Configs, NEW file \in Files, NEW g \in Sent(file)
  PROVE  /\ g.TotalDataBytes = Len(file) /\ g.TotalFrames = DataFrames(Len(file), cfg)
         /\ g.BlockSize = cfg.DataFramesPerBlock
<1>1. CASE \E i : IsDataFrame(g, i, file)
  <2>1. PICK i : g = DataFrame(i, Len(file), cfg)
    BY <1>1 DEF IsDataFrame
  <2> QED BY <2>1 DEF DataFrame, Frame
<1>2. CASE \E b, s, r : IsRescueFrame(g, b, s, r, file)
  <2>1. PICK s, r : g = RescueFrame(s, r, Len(file), cfg)
    BY <1>2 DEF IsRescueFrame
  <2> QED BY <2>1 DEF RescueFrame, Frame
<1> QED BY <1>1, <1>2, SentIs

(* What every delivery is: the frames of the file, or ones that are no worse; *)
(* or the first has the slot of the last one, but other bytes.                *)
IsFromFile(frames, file) ==
  /\ Len(frames) \in Nat /\ DOMAIN frames = 1..Len(frames)
  /\ frames # <<>> => 1 \in DOMAIN frames /\ frames[1].TotalDataBytes = Len(file)

IsChanged(frames, file) ==
  \E g \in Sent(file) :
    /\ SameSlot(frames[1], g) /\ Len(frames) > 1 /\ frames[Len(frames)] = g
    /\ \A k \in 2..Len(frames) : frames[k] \in Sent(file)

IsDelivery(frames, file) ==
  IsFromFile(frames, file) /\ (Honest(frames, file) \/ IsChanged(frames, file))

(* A frame is like itself.                                                 *)
LEMMA LikeItself ==
  ASSUME NEW file, NEW g
  PROVE  Alike(g, g, file) /\ SameSlot(g, g)
BY DEF Alike, SameSlot

(* Frames of the file are a delivery, in any order and however often.      *)
LEMMA PureIsDelivery ==
  ASSUME cfg \in Configs, NEW file \in Files, NEW frames \in Seq(Sent(file))
  PROVE  IsDelivery(frames, file)
<1>1. PICK n \in Nat : n = Len(frames) /\ DOMAIN frames = 1..n
  OBVIOUS
<1>2. \A k \in 1..n : frames[k] \in Sent(file)
  BY <1>1
<1>3. Honest(frames, file)
  BY <1>1, <1>2, LikeItself DEF Honest
<1>4. ASSUME frames # <<>> PROVE 1 \in 1..n /\ frames[1].TotalDataBytes = Len(file)
  <2>1. n # 0
    BY <1>1, <1>4
  <2>2. PICK one \in 1..n : one = 1
    BY <2>1
  <2>3. frames[one].TotalDataBytes = Len(file)
    BY <1>2, SentHeader
  <2> QED BY <2>2, <2>3
<1> QED BY <1>1, <1>3, <1>4 DEF IsDelivery, IsFromFile

(* The rest of a stream.                                                   *)
LEMMA RestIs ==
  ASSUME NEW A, NEW stream \in Seq(A), NEW lost
  PROVE  Rest(stream, lost) \in Seq(A)
<1>1. PICK n \in Nat : n = Len(stream) /\ DOMAIN stream = 1..n
  OBVIOUS
<1>2. PICK S : S = {k \in DOMAIN stream : stream[k] \notin lost}
  OBVIOUS
<1>3. IsFiniteSet(1..n)
  <2>1. 1 \in Int /\ n \in Int
    OBVIOUS
  <2> QED BY <2>1, FS_Interval
<1>4. S \in SUBSET Nat /\ IsFiniteSet(S)
  <2>1. S \in SUBSET (1..n)
    BY <1>1, <1>2
  <2>2. IsFiniteSet(S)
    BY <1>3, <2>1, FS_Subset
  <2> QED BY <2>1, <2>2
<1>5. PICK m \in Nat : m = Cardinality(S)
  BY <1>4, FS_CardinalityType
<1>6. PICK kept : kept = Ascending(S)
  OBVIOUS
<1>7. kept \in [1..m -> S]
  BY <1>4, <1>5, <1>6, AscendingLists DEF Lists
<1>8. PICK rest : rest = [k \in 1..m |-> stream[kept[k]]]
  OBVIOUS
<1>9. Rest(stream, lost) = rest
  BY <1>2, <1>6, <1>7, <1>8 DEF Rest
<1>10. ASSUME NEW k \in 1..m PROVE stream[kept[k]] \in A
  <2>1. kept[k] \in 1..n
    BY <1>1, <1>2, <1>7
  <2> QED BY <1>1, <2>1
<1>11. rest \in [1..m -> A]
  BY <1>8, <1>10
<1>12. rest \in Seq(A)
  BY <1>5, <1>11
<1> QED BY <1>9, <1>12

(* The reverse of a stream.                                                *)
LEMMA ReverseIs ==
  ASSUME NEW A, NEW stream \in Seq(A)
  PROVE  Reverse(stream) \in Seq(A)
<1>1. PICK n \in Nat : n = Len(stream) /\ DOMAIN stream = 1..n
  OBVIOUS
<1>2. PICK back : back = [i \in 1..n |-> stream[(n - i) + 1]]
  OBVIOUS
<1>3. \A i \in 1..n : (n - i) + 1 \in 1..n
  OBVIOUS
<1>4. back \in [1..n -> A]
  BY <1>1, <1>2, <1>3
<1>5. back \in Seq(A)
  BY <1>4
<1> QED BY <1>1, <1>2, <1>5 DEF Reverse

(* All frames after one with changed bytes are a delivery.                 *)
LEMMA ChangedIsDelivery ==
  ASSUME cfg \in Configs, NEW file \in Files, NEW all \in Seq(Sent(file)), all # <<>>,
         NEW changed, changed = [Last(all) EXCEPT !.Payload = Garbage(@.size)],
         NEW frames, frames = <<changed>> \o all
  PROVE  IsDelivery(frames, file)
<1>1. PICK n \in Nat \ {0} : n = Len(all)
  BY EmptySeq
<1>2. PICK g \in Sent(file) : g = Last(all) /\ g = all[n]
  <2>1. n \in 1..n
    BY <1>1
  <2> QED BY <1>1, <2>1 DEF Last
<1>3. SameSlot(changed, g) /\ changed.TotalDataBytes = g.TotalDataBytes
  <2>1. PICK payload : payload = Garbage(g.Payload.size)
    OBVIOUS
  <2>2. changed = [g EXCEPT !.Payload = payload]
    BY <1>2, <2>1
  <2>3. \E type, index, rescue, other : g = Frame(type, index, rescue, Len(file), other, cfg)
    <3>1. CASE \E i : IsDataFrame(g, i, file)
      BY <3>1 DEF IsDataFrame, DataFrame
    <3>2. CASE \E b, s, r : IsRescueFrame(g, b, s, r, file)
      BY <3>2 DEF IsRescueFrame, RescueFrame
    <3> QED BY <3>1, <3>2, SentIs
  <2>4. PICK type, index, rescue, other : g = Frame(type, index, rescue, Len(file), other, cfg)
    BY <2>3
  <2> QED BY <2>2, <2>4 DEF Frame, SameSlot
<1>4. PICK A : A = Sent(file) \cup {changed}
  OBVIOUS
<1>5. all \in Seq(A)
  <2>1. Sent(file) \subseteq A
    BY <1>4
  <2> QED BY <2>1, SeqMonotonic
<1>6. PICK one \in Seq(A) : one = <<changed>> /\ Len(one) = 1 /\ one[1] = changed
  <2>1. <<changed>> \in Seq(A) /\ Len(<<changed>>) = 1 /\ <<changed>>[1] = changed
    BY <1>4
  <2> QED BY <2>1
<1>7. /\ frames \in Seq(A) /\ Len(frames) = n + 1
      /\ \A k \in 1..(n + 1) : frames[k] = IF k <= 1 THEN one[k] ELSE all[k - 1]
  <2>1. /\ one \o all \in Seq(A) /\ Len(one \o all) = 1 + n
        /\ \A k \in 1..(1 + n) : (one \o all)[k] = IF k <= 1 THEN one[k] ELSE all[k - 1]
    BY <1>1, <1>5, <1>6, ConcatProperties
  <2>2. 1 + n = n + 1
    OBVIOUS
  <2> QED BY <1>6, <2>1, <2>2
<1>8. frames[1] = changed
  <2>1. 1 \in 1..(n + 1) /\ 1 <= 1
    OBVIOUS
  <2> QED BY <1>6, <1>7, <2>1
<1>9. \A k \in 2..(n + 1) : frames[k] = all[k - 1] /\ frames[k] \in Sent(file)
  <2>1. SUFFICES ASSUME NEW k \in 2..(n + 1) PROVE frames[k] = all[k - 1] /\ frames[k] \in Sent(file)
    OBVIOUS
  <2>2. k \in 1..(n + 1) /\ ~(k <= 1) /\ k - 1 \in 1..n
    OBVIOUS
  <2>3. all[k - 1] \in Sent(file)
    BY <1>1, <2>2
  <2> QED BY <1>7, <2>2, <2>3
<1>10. frames[n + 1] = g
  <2>1. n + 1 \in 2..(n + 1) /\ (n + 1) - 1 = n
    OBVIOUS
  <2> QED BY <1>2, <1>9, <2>1
<1>11. IsFromFile(frames, file)
  <2>1. DOMAIN frames = 1..(n + 1) /\ 1 \in 1..(n + 1) /\ n + 1 \in Nat
    BY <1>7
  <2>2. changed.TotalDataBytes = Len(file)
    BY <1>2, <1>3, SentHeader
  <2> QED BY <1>7, <1>8, <2>1, <2>2 DEF IsFromFile
<1>12. IsChanged(frames, file)
  <2>1. n + 1 > 1
    OBVIOUS
  <2> QED BY <1>3, <1>7, <1>8, <1>9, <1>10, <2>1 DEF IsChanged
<1> QED BY <1>11, <1>12 DEF IsDelivery

(* A frame of a longer file is taken for the first one of this file.        *)
LEMMA StrangerIsDelivery ==
  ASSUME cfg \in Configs, NEW file \in Files, NEW all \in Seq(Sent(file)), all # <<>>,
         NEW stranger, stranger = DataFrame(0, Len(file) + cfg.PayloadSize, cfg),
         NEW frames, frames = Append(all, stranger)
  PROVE  IsDelivery(frames, file)
<1>1. PICK n \in Nat \ {0} : n = Len(all)
  BY EmptySeq
<1>2. PICK zero \in Nat : zero = 0 /\ zero < DataFrames(Len(file), cfg)
  BY FileFacts
<1>3. PICK g : g = DataFrame(zero, Len(file), cfg)
  OBVIOUS
<1>4. IsDataFrame(g, zero, file)
  BY <1>2, <1>3, DataFrameIs
<1>5. g \in Sent(file)
  BY <1>4, SentIs
<1>6. Alike(stranger, g, file)
  <2>1. /\ stranger.FrameType = Data /\ stranger.FrameIndex = zero /\ stranger.RescueIndex = 0
        /\ stranger.Payload.kind = Data /\ stranger.Payload.index = zero
    BY <1>2 DEF DataFrame, Frame, DataPayload, PayloadOf
  <2>2. Bytes(stranger.Payload, file) = Slice(file, zero)
    BY <2>1 DEF Bytes, Data, Rescue
  <2> QED BY <1>4, <2>1, <2>2 DEF IsDataFrame, Alike, SameSlot
<1>7. PICK A : A = Sent(file) \cup {stranger}
  OBVIOUS
<1>8. all \in Seq(A)
  <2>1. Sent(file) \subseteq A
    BY <1>7
  <2> QED BY <2>1, SeqMonotonic
<1>9. /\ frames \in Seq(A) /\ Len(frames) = n + 1 /\ frames[n + 1] = stranger
      /\ \A k \in 1..n : frames[k] = all[k]
  BY <1>1, <1>7, <1>8
<1>10. \A k \in 1..n : frames[k] \in Sent(file)
  <2>1. \A k \in 1..n : all[k] \in Sent(file)
    BY <1>1
  <2> QED BY <1>9, <2>1
<1>11. Honest(frames, file)
  <2>1. SUFFICES ASSUME NEW k \in 1..(n + 1) PROVE \E x \in Sent(file) : Alike(frames[k], x, file)
    BY <1>9 DEF Honest
  <2>2. k \in 1..n \/ k = n + 1
    OBVIOUS
  <2> QED BY <1>5, <1>6, <1>9, <1>10, <2>2, LikeItself
<1>12. IsFromFile(frames, file)
  <2>1. DOMAIN frames = 1..(n + 1) /\ n + 1 \in Nat
    BY <1>9
  <2>2. PICK one \in 1..n : one = 1 /\ one \in 1..(n + 1)
    OBVIOUS
  <2>3. frames[one].TotalDataBytes = Len(file)
    BY <1>10, SentHeader
  <2> QED BY <1>9, <2>1, <2>2, <2>3 DEF IsFromFile
<1> QED BY <1>11, <1>12 DEF IsDelivery

(* All that may arrive is a delivery.                                      *)
LEMMA DeliveriesAre ==
  ASSUME cfg \in Configs, NEW file \in Files, NEW frames \in Deliveries(file)
  PROVE  IsDelivery(frames, file)
<1>1. PICK all : all = Encode(Len(file), cfg)
  OBVIOUS
<1>2. all \in Seq(Sent(file)) /\ \A x : Has(all, x) <=> x \in Sent(file)
  <2>1. PlanAccepts(Len(file), cfg)
    BY FileFacts
  <2> QED BY <1>1, <2>1, EncodeEmitsEncoded DEF Sent
<1>3. all # <<>>
  <2>1. PICK zero \in Nat : zero = 0 /\ zero < DataFrames(Len(file), cfg)
    BY FileFacts
  <2>2. DataFrame(zero, Len(file), cfg) \in Sent(file)
    BY <2>1, DataFrameIs, SentIs
  <2>3. PICK k \in 1..Len(all) : all[k] = DataFrame(zero, Len(file), cfg)
    BY <1>2, <2>2 DEF Has
  <2>4. 1..Len(<<>>) = {}
    OBVIOUS
  <2> QED BY <2>3, <2>4
<1>4. PICK changed : changed = [Last(all) EXCEPT !.Payload = Garbage(@.size)]
  OBVIOUS
<1>5. PICK stranger : stranger = DataFrame(0, Len(file) + cfg.PayloadSize, cfg)
  OBVIOUS
<1>6. \/ \E lost : frames = Rest(all, lost)
      \/ \E lost : frames = Reverse(Rest(all, lost)) \o Rest(all, lost)
      \/ frames = all \o (Reverse(all) \o all)
      \/ frames = <<changed>> \o all
      \/ frames = Append(all, stranger)
  BY <1>1, <1>4, <1>5 DEF Deliveries
<1>7. CASE \E lost : frames = Rest(all, lost)
  BY <1>2, <1>7, RestIs, PureIsDelivery
<1>8. CASE \E lost : frames = Reverse(Rest(all, lost)) \o Rest(all, lost)
  <2>1. PICK lost : frames = Reverse(Rest(all, lost)) \o Rest(all, lost)
    BY <1>8
  <2>2. PICK rest \in Seq(Sent(file)) : rest = Rest(all, lost)
    BY <1>2, RestIs
  <2>3. Reverse(rest) \in Seq(Sent(file))
    BY ReverseIs
  <2>4. Reverse(rest) \o rest \in Seq(Sent(file))
    BY <2>3, ConcatProperties
  <2> QED BY <2>1, <2>2, <2>4, PureIsDelivery
<1>9. CASE frames = all \o (Reverse(all) \o all)
  <2>1. Reverse(all) \in Seq(Sent(file))
    BY <1>2, ReverseIs
  <2>2. Reverse(all) \o all \in Seq(Sent(file))
    BY <1>2, <2>1, ConcatProperties
  <2>3. all \o (Reverse(all) \o all) \in Seq(Sent(file))
    BY <1>2, <2>2, ConcatProperties
  <2> QED BY <1>9, <2>3, PureIsDelivery
<1>10. CASE frames = <<changed>> \o all
  BY <1>2, <1>3, <1>4, <1>10, ChangedIsDelivery
<1>11. CASE frames = Append(all, stranger)
  BY <1>2, <1>3, <1>5, <1>11, StrangerIsDelivery
<1> QED BY <1>6, <1>7, <1>8, <1>9, <1>10, <1>11

-----------------------------------------------------------------------------

(* The headers are those of frames of the file.                             *)
HeadersAgree(frames, file) ==
  \A k \in DOMAIN frames :
    FrameMetadataLooksValid(frames[k], cfg) /\ frames[k].TotalDataBytes = Len(file)

(* When a call returns the file, and what it returns.                       *)
Restores(frames, file) ==
  /\ Len(frames) <= 2 * MaxFrameCount
  /\ HeadersAgree(frames, file) /\ Honest(frames, file)
  /\ Recoverable(Arrived(frames, file), Len(file), cfg)

Outcome(frames, file, error, bytes) ==
  IF Restores(frames, file) THEN error = "none" /\ bytes = file
  ELSE bytes = <<>> /\ error = IF frames = <<>> THEN "NoValidFrames" ELSE "Unrecoverable"

(* The fast path returns the file (decode.go:97-108).                      *)
LEMMA FastPathIs ==
  ASSUME cfg \in Configs, NEW file \in Files, NEW frames, IsFromFile(frames, file),
         Honest(frames, file), frames # <<>>, ~Rejected(frames), FastPath(frames)
  PROVE  /\ FlattenSeq([k \in DOMAIN frames |-> Bytes(frames[k].Payload, file)]) = file
         /\ Recoverable(Arrived(frames, file), Len(file), cfg)
<1>1. PICK N \in Nat \ {0} : N = DataFrames(Len(file), cfg)
  BY FileFacts
<1>2. PICK one : one = frames[1] /\ one.TotalDataBytes = Len(file) /\ 1 \in DOMAIN frames
  BY DEF IsFromFile
<1>3. one.TotalFrames = N
  <2>1. FrameMetadataLooksValid(one, cfg)
    BY <1>2 DEF Rejected
  <2> QED BY <1>1, <1>2, <2>1 DEF FrameMetadataLooksValid
<1>4. Len(frames) = N /\ DOMAIN frames = 1..N
  BY <1>2, <1>3 DEF FastPath, IsFromFile
<1>5. cfg.RescueFramesPerBlock = 0 /\ \A k \in 1..N : frames[k].FrameIndex = k - 1
  BY <1>4 DEF FastPath
<1>6. ASSUME NEW k \in 1..N, NEW i \in Nat, i = k - 1
      PROVE  /\ Bytes(frames[k].Payload, file) = Slice(file, i)
             /\ DataFrame(i, Len(file), cfg) \in Arrived(frames, file)
  <2>1. PICK g \in Sent(file) : Alike(frames[k], g, file)
    BY <1>4 DEF Honest
  <2>2. g.FrameIndex = i
    BY <1>5, <1>6, <2>1 DEF Alike, SameSlot
  <2>3. ~ \E b, s, r : IsRescueFrame(g, b, s, r, file)
    <3>1. \A r \in Nat : ~(r < 0)
      OBVIOUS
    <3> QED BY <1>5, <3>1 DEF IsRescueFrame
  <2>4. PICK j : IsDataFrame(g, j, file)
    BY <2>3, SentIs
  <2>5. g = DataFrame(i, Len(file), cfg) /\ Bytes(g.Payload, file) = Slice(file, i)
    BY <2>2, <2>4 DEF IsDataFrame
  <2>6. g \in Arrived(frames, file)
    BY <1>4, <2>1 DEF Arrived, ArrivedBy
  <2> QED BY <2>1, <2>5, <2>6 DEF Alike
<1>7. FlattenSeq([k \in DOMAIN frames |-> Bytes(frames[k].Payload, file)]) = file
  <2>1. ASSUME NEW k \in 1..N PROVE Bytes(frames[k].Payload, file) = Slice(file, k - 1)
    <3>1. k - 1 \in Nat
      OBVIOUS
    <3> QED BY <1>6, <3>1
  <2>2. [k \in DOMAIN frames |-> Bytes(frames[k].Payload, file)] = [k \in 1..N |-> Slice(file, k - 1)]
    BY <1>4, <2>1
  <2>3. FlattenSeq([k \in 1..N |-> Slice(file, k - 1)]) = file
    BY <1>1, SlicesMakeFile
  <2> QED BY <2>2, <2>3
<1>8. Recoverable(Arrived(frames, file), Len(file), cfg)
  <2>1. PICK known : known = Arrived(frames, file)
    OBVIOUS
  <2>2. SUFFICES ASSUME NEW s
                 PROVE  Cardinality(MissingOf(s, known, Len(file), cfg))
                          <= Cardinality(RescuesOf(s, known, Len(file), cfg))
    BY <2>1 DEF Recoverable
  <2>3. ASSUME NEW i \in BlockFrames(s, N, cfg) PROVE DataFrame(i, Len(file), cfg) \in known
    <3>1. i \in 0..(N - 1)
      BY DEF BlockFrames
    <3>2. PICK j \in Nat : j = i
      BY <3>1
    <3>3. PICK k \in 1..N : k = j + 1 /\ j = k - 1
      BY <3>1, <3>2
    <3> QED BY <1>6, <2>1, <3>2, <3>3
  <2>4. MissingOf(s, known, Len(file), cfg) = {}
    BY <1>1, <2>3 DEF MissingOf
  <2>5. PICK R \in Nat : R = cfg.RescueFramesPerBlock
    BY ConfigFacts
  <2>6. IsFiniteSet(Spares(file, s, known))
    BY <1>1, <2>5, LacksIsFinite
  <2>7. Cardinality(RescuesOf(s, known, Len(file), cfg)) \in Nat
    BY <2>6, FS_CardinalityType DEF Spares
  <2>8. Cardinality(MissingOf(s, known, Len(file), cfg)) = 0
    BY <2>4, FS_EmptySet
  <2>9. \A m \in Nat : 0 <= m
    OBVIOUS
  <2> QED BY <2>7, <2>8, <2>9
<1> QED BY <1>7, <1>8

(* A rescue frame that arrived is seen.                                    *)
LEMMA RescueIsSeen ==
  ASSUME cfg \in Configs, NEW file, NEW frames, IsFromFile(frames, file),
         NEW s, NEW r, RescueFrame(s, r, Len(file), cfg) \in Arrived(frames, file)
  PROVE  \E k \in DOMAIN frames : frames[k].FrameType = Rescue
<1>1. PICK g : g = RescueFrame(s, r, Len(file), cfg)
  OBVIOUS
<1>2. PICK k \in 1..Len(frames) : Alike(frames[k], g, file)
  BY <1>1 DEF Arrived, ArrivedBy
<1>3. g.FrameType = Rescue
  BY <1>1 DEF RescueFrame, Frame
<1> QED BY <1>2, <1>3 DEF Alike, SameSlot, IsFromFile

(* Whatever an earlier call left, a call returns the file exactly when the  *)
(* frames that came determine it, and leaves a workspace for the next.      *)
Returns(result, out, frames, file) ==
  /\ IsWorkspace(result.ws) /\ Outcome(frames, file, result.error, result.bytes)
  /\ result.error # "none" => result.out = out

(* A new workspace is one.                                                 *)
LEMMA NewWorkspaceIsWorkspace ==
  IsWorkspace(NewWorkspace)
<1>1. PICK w : w = NewWorkspace
  OBVIOUS
<1>2. /\ w.data = <<>> /\ w.present = <<>> /\ w.rescues = <<>> /\ w.inverses = <<>>
      /\ w.buffers = <<>> /\ w.cursor = 0
      /\ w = [data |-> w.data, present |-> w.present, rescues |-> w.rescues,
              inverses |-> w.inverses, buffers |-> w.buffers, cursor |-> w.cursor]
  BY <1>1 DEF NewWorkspace
<1>3. PICK none : none = <<>>
  OBVIOUS
<1>4. IsArray(none)
  <2>1. Len(none) = 0 /\ DOMAIN none = 1..0
    BY <1>3
  <2>2. Len(none) \in Nat
    BY <2>1
  <2> QED BY <2>1, <2>2 DEF IsArray
<1>5. IsCache(none)
  <2>1. DOMAIN none = {}
    BY <1>3
  <2>2. Cardinality(DOMAIN none) = 0
    BY <2>1, FS_EmptySet
  <2>3. IsFiniteSet(DOMAIN none)
    BY <2>1, FS_EmptySet
  <2>4. CacheLimit \in Nat \ {0}
    BY CodecAssumption
  <2>5. Cardinality(DOMAIN none) <= CacheLimit
    BY <2>2, <2>4
  <2> QED BY <2>1, <2>3, <2>5 DEF IsCache
<1>6. none \in Seq(Seq(Field)) /\ Len(none) = 0
  BY <1>3, EmptySeq
<1>7. w.cursor \in Nat /\ w.cursor <= Len(w.buffers)
  BY <1>2, <1>3, <1>6
<1> QED BY <1>1, <1>2, <1>3, <1>4, <1>5, <1>6, <1>7 DEF IsWorkspace

-----------------------------------------------------------------------------

(* The operators of the module read cfg, which no call changes.             *)
LEMMA SameCoefficient ==
  ASSUME cfg' = cfg, NEW r, NEW s
  PROVE  Coefficient(r, s)' = Coefficient(r, s)
BY DEF Coefficient

(* The bytes of a frame depend only on the configuration.                  *)
LEMMA SameBytes ==
  ASSUME cfg' = cfg, NEW p, NEW file
  PROVE  Bytes(p, file)' = Bytes(p, file)
<1>1. \A i : Slice(file, i)' = Slice(file, i)
  BY DEF Slice
<1>2. \A a, s : BlockPayloads(a, file, s)' = BlockPayloads(a, file, s)
  BY <1>1 DEF BlockPayloads
<1>3. \A a, r : RescueBytes(a, r)' = RescueBytes(a, r)
  BY SameCoefficient DEF RescueBytes
<1>4. NoPayloads' = NoPayloads
  BY DEF NoPayloads
<1> QED BY <1>1, <1>2, <1>3, <1>4 DEF Bytes

(* So does what a workspace is.                                            *)
LEMMA SameWorkspace ==
  ASSUME cfg' = cfg, NEW w, NEW new, new = w, IsWorkspace(w)
  PROVE  IsWorkspace(new)'
<1>1. \A a, b : SystemOf(a, b)' = SystemOf(a, b)
  BY SameCoefficient DEF SystemOf
<1>2. \A a, b, n : IsKey(a, b, n)' <=> IsKey(a, b, n)
  BY DEF IsKey
<1>3. IsCache(w.inverses)'
  BY <1>1, <1>2 DEF IsWorkspace, IsCache
<1> QED BY <1>3 DEF IsWorkspace

(* So does what a call is to return.                                       *)
LEMMA SameOutcome ==
  ASSUME cfg' = cfg, NEW frames, NEW file, NEW error, NEW bytes
  PROVE  /\ IsDelivery(frames, file) => IsDelivery(frames, file)'
         /\ Outcome(frames, file, error, bytes) => Outcome(frames, file, error, bytes)'
<1>1. \A f, g : Alike(f, g, file)' <=> Alike(f, g, file)
  BY SameBytes DEF Alike
<1>2. Sent(file)' = Sent(file)
  BY DEF Sent
<1>3. Honest(frames, file)' <=> Honest(frames, file)
  BY <1>1, <1>2 DEF Honest
<1>4. Arrived(frames, file)' = Arrived(frames, file)
  BY <1>1, <1>2 DEF Arrived, ArrivedBy
<1>5. HeadersAgree(frames, file)' <=> HeadersAgree(frames, file)
  BY DEF HeadersAgree
<1>6. Restores(frames, file)' <=> Restores(frames, file)
  BY <1>3, <1>4, <1>5 DEF Restores
<1>7. IsChanged(frames, file)' <=> IsChanged(frames, file)
  BY <1>2 DEF IsChanged
<1> QED BY <1>3, <1>6, <1>7 DEF IsDelivery, Outcome

-----------------------------------------------------------------------------

(* The payloads of a sequence of frames. *)
BytesOfAll(frames, file) == [k \in DOMAIN frames |-> Bytes(frames[k].Payload, file)]

(* The bytes of a frame are elements of the field.                         *)
LEMMA SentBytes ==
  ASSUME cfg \in Configs, NEW file \in Files, NEW g \in Sent(file)
  PROVE  Bytes(g.Payload, file) \in Seq(Field)
<1>1. CASE \E i : IsDataFrame(g, i, file)
  <2>1. PICK i \in Nat : i < DataFrames(Len(file), cfg) /\ Bytes(g.Payload, file) = Slice(file, i)
    BY <1>1 DEF IsDataFrame
  <2> QED BY <2>1, SliceIs
<1>2. CASE \E b, s, r : IsRescueFrame(g, b, s, r, file)
  <2>1. PICK b, s, r : IsRescueFrame(g, b, s, r, file)
    BY <1>2
  <2>2. s \in Nat /\ r \in Nat /\ r < cfg.RescueFramesPerBlock
    BY <2>1 DEF IsRescueFrame, StartsAt
  <2>3. DOMAIN NoPayloads = 1..cfg.DataFramesPerBlock
    BY DEF NoPayloads
  <2>4. RescueBytes(BlockPayloads(NoPayloads, file, s), r) \in Seq(Field)
    BY <2>2, <2>3, RescueBytesAre
  <2> QED BY <2>1, <2>4 DEF IsRescueFrame
<1> QED BY <1>1, <1>2, SentIs

(* The bytes of a stream of frames.                                        *)
LEMMA BytesOfSent ==
  ASSUME cfg \in Configs, NEW file \in Files, NEW p \in Seq(Sent(file))
  PROVE  BytesOfAll(p, file) \in Seq(Seq(Field)) /\ Len(BytesOfAll(p, file)) = Len(p)
<1>1. PICK n \in Nat : n = Len(p) /\ DOMAIN p = 1..n
  OBVIOUS
<1>2. PICK all : all = BytesOfAll(p, file)
  OBVIOUS
<1>3. all = [k \in 1..n |-> Bytes(p[k].Payload, file)]
  BY <1>1, <1>2 DEF BytesOfAll
<1>4. \A k \in 1..n : Bytes(p[k].Payload, file) \in Seq(Field)
  <2>1. \A k \in 1..n : p[k] \in Sent(file)
    BY <1>1
  <2> QED BY <2>1, SentBytes
<1>5. all \in [1..n -> Seq(Field)]
  BY <1>3, <1>4
<1>6. all \in Seq(Seq(Field)) /\ Len(all) = n
  BY <1>5
<1> QED BY <1>1, <1>2, <1>6

(* The bytes of a stream are those of its parts.                           *)
LEMMA BytesOfConcat ==
  ASSUME cfg \in Configs, NEW file \in Files, NEW p \in Seq(Sent(file)), NEW q \in Seq(Sent(file))
  PROVE  BytesOfAll(p \o q, file) = BytesOfAll(p, file) \o BytesOfAll(q, file)
<1>1. PICK m \in Nat : m = Len(p) /\ DOMAIN p = 1..m
  OBVIOUS
<1>2. PICK n \in Nat : n = Len(q) /\ DOMAIN q = 1..n
  OBVIOUS
<1>3. PICK both \in Seq(Sent(file)) : both = p \o q
  BY ConcatProperties
<1>4. /\ Len(both) = m + n /\ DOMAIN both = 1..(m + n)
      /\ \A k \in 1..(m + n) : both[k] = IF k <= m THEN p[k] ELSE q[k - m]
  BY <1>1, <1>2, <1>3, ConcatProperties
<1>5. PICK x \in Seq(Seq(Field)) : x = BytesOfAll(p, file) /\ Len(x) = m
  BY <1>1, BytesOfSent
<1>6. PICK y \in Seq(Seq(Field)) : y = BytesOfAll(q, file) /\ Len(y) = n
  BY <1>2, BytesOfSent
<1>7. PICK z \in Seq(Seq(Field)) : z = BytesOfAll(both, file) /\ Len(z) = m + n
  BY <1>4, BytesOfSent
<1>8. PICK xy \in Seq(Seq(Field)) : xy = x \o y
  BY ConcatProperties
<1>9. /\ Len(xy) = m + n
      /\ \A k \in 1..(m + n) : xy[k] = IF k <= m THEN x[k] ELSE y[k - m]
  <2>1. /\ Len(x \o y) = Len(x) + Len(y)
        /\ \A k \in 1..(Len(x) + Len(y)) : (x \o y)[k] = IF k <= Len(x) THEN x[k] ELSE y[k - Len(x)]
    BY ConcatProperties
  <2> QED BY <1>5, <1>6, <1>8, <2>1
<1>10. ASSUME NEW k \in 1..(m + n) PROVE z[k] = xy[k]
  <2>1. z[k] = Bytes(both[k].Payload, file)
    BY <1>4, <1>7 DEF BytesOfAll
  <2>2. CASE k <= m
    <3>1. k \in 1..m
      BY <2>2
    <3>2. x[k] = Bytes(p[k].Payload, file)
      BY <1>1, <1>5, <3>1 DEF BytesOfAll
    <3> QED BY <1>4, <1>9, <2>1, <2>2, <3>2
  <2>3. CASE ~(k <= m)
    <3>1. PICK j \in 1..n : j = k - m
      BY <2>3
    <3>2. y[j] = Bytes(q[j].Payload, file)
      BY <1>2, <1>6, <3>1 DEF BytesOfAll
    <3> QED BY <1>4, <1>9, <2>1, <2>3, <3>1, <3>2
  <2> QED BY <2>2, <2>3
<1>11. z = xy
  BY <1>7, <1>9, <1>10, SeqEqual
<1> QED BY <1>3, <1>5, <1>6, <1>7, <1>8, <1>11

(* Payloads can be appended in any grouping.                               *)
LEMMA PayloadsJoin ==
  \A s, t, u \in Seq(Seq(Field)) : (s \o t) \o u = s \o (t \o u)
<1>1. \A A : \A s, t, u \in Seq(A) : (s \o t) \o u = s \o (t \o u)
  BY ConcatAssociative
<1>2. PICK A : A = Seq(Field)
  OBVIOUS
<1>3. \A s, t, u \in Seq(A) : (s \o t) \o u = s \o (t \o u)
  BY <1>1
<1> QED BY <1>2, <1>3

(* The frames of the block at s, as the loop of Encode emits them.          *)
DataOf(file, s) ==
  [k \in 1..Cardinality(BlockFrames(s, DataFrames(Len(file), cfg), cfg)) |->
     DataFrame(s + k - 1, Len(file), cfg)]

RescueOf(file, s) ==
  [k \in 1..cfg.RescueFramesPerBlock |-> RescueFrame(s, k - 1, Len(file), cfg)]

(* Encoding goes on with the payloads of these frames.                      *)
Continues(new, acc, file, s) ==
  /\ DOMAIN new.array = 1..cfg.DataFramesPerBlock
  /\ DataOf(file, s) \o RescueOf(file, s) \in Seq(Sent(file))
  /\ new.bytes = acc.bytes \o BytesOfAll(DataOf(file, s) \o RescueOf(file, s), file)

(* A block is encoded as its frames say, whatever the array held.          *)
LEMMA EncodeBlockIs ==
  ASSUME cfg \in Configs, NEW file \in Files, NEW b, NEW s, StartsAt(b, s, file),
         NEW acc, DOMAIN acc.array = 1..cfg.DataFramesPerBlock, acc.bytes \in Seq(Seq(Field)),
         NEW new, new = EncodeBlock(acc, b, file)
  PROVE  Continues(new, acc, file, s)
<1>1. PICK K \in Nat \ {0} : K = cfg.DataFramesPerBlock
  BY ConfigFacts
<1>2. PICK R \in Nat : R = cfg.RescueFramesPerBlock
  BY ConfigFacts
<1>3. PICK N \in Nat \ {0} : N = DataFrames(Len(file), cfg)
  BY FileFacts
<1>4. s \in Nat /\ s = (b - 1) * K /\ s < N
  <2>1. PICK B \in Nat : B = BlockCount(N, cfg)
    BY <1>3, BlockCountIs
  <2>2. PICK d \in Nat : d = b - 1 /\ d < B
    BY <1>3, <2>1 DEF StartsAt
  <2>3. d * K < N
    BY <1>1, <1>3, <2>1, <2>2, BlockCountFacts
  <2> QED BY <1>1, <2>2, <2>3 DEF StartsAt
<1>5. PICK L \in Nat : /\ L = Cardinality(BlockFrames(s, N, cfg))
                       /\ \A k \in Nat \ {0} : k <= L <=> k <= K /\ s + k - 1 < N
  <2>1. PICK L : L = Cardinality(BlockFrames(s, N, cfg))
    OBVIOUS
  <2>2. L \in Nat /\ \A k \in Nat \ {0} : k <= L <=> k <= K /\ s + k - 1 < N
    <3>1. s \in Nat /\ s < N
      BY <1>4
    <3> QED BY <1>1, <2>1, <3>1, BlockLength
  <2> QED BY <2>1, <2>2
<1>6. PICK array : array = BlockPayloads(acc.array, file, s)
  OBVIOUS
<1>7. /\ array = [slot \in 1..K |-> PayloadAt(file, s, slot)]
      /\ array = BlockPayloads(NoPayloads, file, s)
  <2>1. \A r \in Nat : TRUE
    OBVIOUS
  <2>2. \A a : BlockPayloads(a, file, s) = [slot \in DOMAIN a |-> PayloadAt(file, s, slot)]
    BY DEF BlockPayloads, PayloadAt
  <2>3. DOMAIN NoPayloads = 1..K
    BY <1>1 DEF NoPayloads
  <2> QED BY <1>1, <1>6, <2>2, <2>3
<1>8. PICK first : first = SubSeq(array, 1, L)
  OBVIOUS
<1>9. PICK second : second = [r \in 1..R |-> RescueBytes(array, r - 1)]
  OBVIOUS
<1>10. new = [array |-> array, bytes |-> acc.bytes \o first \o second]
  BY <1>1, <1>2, <1>3, <1>4, <1>5, <1>6, <1>8, <1>9 DEF EncodeBlock
<1>11. PICK p : p = DataOf(file, s)
  OBVIOUS
<1>12. PICK q : q = RescueOf(file, s)
  OBVIOUS
<1>13. ASSUME NEW k \in 1..L
       PROVE  /\ p[k] \in Sent(file) /\ k \in 1..K /\ array[k] \in Seq(Field)
              /\ array[k] = Bytes(p[k].Payload, file)
  <2>1. k \in Nat \ {0} /\ k <= K /\ s + k - 1 < N
    BY <1>5
  <2>2. PICK i \in Nat : i = s + k - 1 /\ i < N /\ s + k <= N
    BY <1>4, <2>1
  <2>3. p[k] = DataFrame(i, Len(file), cfg)
    BY <1>3, <1>5, <1>11, <2>2 DEF DataOf
  <2>4. IsDataFrame(p[k], i, file)
    BY <1>3, <2>2, <2>3, DataFrameIs
  <2>5. array[k] = Slice(file, i)
    BY <1>3, <1>7, <2>1, <2>2 DEF PayloadAt
  <2>6. p[k] \in Sent(file) /\ Bytes(p[k].Payload, file) = Slice(file, i)
    BY <2>4, SentIs DEF IsDataFrame
  <2>7. Slice(file, i) \in Seq(Field)
    BY <1>3, <2>2, SliceIs
  <2> QED BY <2>1, <2>5, <2>6, <2>7
<1>14. ASSUME NEW k \in 1..R
       PROVE  q[k] \in Sent(file) /\ second[k] = Bytes(q[k].Payload, file)
  <2>1. PICK r \in Nat : r = k - 1 /\ r < R
    OBVIOUS
  <2>2. q[k] = RescueFrame(s, r, Len(file), cfg)
    BY <1>2, <1>12, <2>1 DEF RescueOf
  <2>3. IsRescueFrame(q[k], b, s, r, file)
    BY <1>2, <2>1, <2>2, RescueFrameIs
  <2>4. second[k] = RescueBytes(array, r)
    BY <1>9, <2>1
  <2>5. Bytes(q[k].Payload, file) = RescueBytes(BlockPayloads(NoPayloads, file, s), r)
    BY <2>3 DEF IsRescueFrame
  <2>6. q[k] \in Sent(file)
    BY <2>3, SentIs
  <2>7. BlockPayloads(NoPayloads, file, s) = array
    BY <1>7
  <2> QED BY <2>4, <2>5, <2>6, <2>7
<1>15. p \in Seq(Sent(file)) /\ Len(p) = L
  <2>1. p = [k \in 1..L |-> DataFrame(s + k - 1, Len(file), cfg)]
    BY <1>3, <1>5, <1>11 DEF DataOf
  <2>2. p \in [1..L -> Sent(file)]
    BY <1>13, <2>1
  <2> QED BY <2>2
<1>16. q \in Seq(Sent(file)) /\ Len(q) = R
  <2>1. q = [k \in 1..R |-> RescueFrame(s, k - 1, Len(file), cfg)]
    BY <1>2, <1>12 DEF RescueOf
  <2>2. q \in [1..R -> Sent(file)]
    BY <1>14, <2>1
  <2> QED BY <2>2
<1>17. PICK x \in Seq(Seq(Field)) : x = BytesOfAll(p, file) /\ Len(x) = L
  BY <1>15, BytesOfSent
<1>18. PICK y \in Seq(Seq(Field)) : y = BytesOfAll(q, file) /\ Len(y) = R
  BY <1>16, BytesOfSent
<1>19. first = x
  <2>1. 1 \in Int /\ L \in Int /\ \A k \in 1..L : array[k] \in Seq(Field)
    BY <1>13
  <2>2. /\ SubSeq(array, 1, L) \in Seq(Seq(Field))
        /\ Len(SubSeq(array, 1, L)) = IF 1 <= L THEN L - 1 + 1 ELSE 0
        /\ \A k \in 1..(L - 1 + 1) : SubSeq(array, 1, L)[k] = array[1 + k - 1]
    BY <2>1, SubSeqProperties
  <2>3. PICK u \in Seq(Seq(Field)) : u = first
    BY <1>8, <2>2
  <2>4. Len(u) = L
    BY <1>8, <2>2, <2>3
  <2>5. ASSUME NEW k \in 1..L PROVE u[k] = x[k]
    <3>1. k \in 1..(L - 1 + 1) /\ 1 + k - 1 = k
      OBVIOUS
    <3>2. u[k] = array[k]
      BY <1>8, <2>2, <2>3, <3>1
    <3>3. x[k] = Bytes(p[k].Payload, file)
      BY <1>15, <1>17 DEF BytesOfAll
    <3> QED BY <1>13, <3>2, <3>3
  <2>6. u = x
    BY <1>17, <2>4, <2>5, SeqEqual
  <2> QED BY <2>3, <2>6
<1>20. second = y
  <2>1. DOMAIN y = 1..R
    BY <1>18
  <2>2. y = [k \in 1..R |-> Bytes(q[k].Payload, file)]
    <3>1. DOMAIN q = 1..R
      BY <1>16
    <3> QED BY <1>18, <3>1 DEF BytesOfAll
  <2>3. second = [k \in 1..R |-> second[k]]
    BY <1>9
  <2> QED BY <1>14, <2>2, <2>3
<1>21. PICK all : all = acc.bytes \o first \o second
  OBVIOUS
<1>26. all = acc.bytes \o (x \o y)
  <2>1. PICK a \in Seq(Seq(Field)) : a = acc.bytes
    OBVIOUS
  <2>2. (a \o x) \o y = a \o (x \o y)
    BY PayloadsJoin
  <2> QED BY <1>19, <1>20, <1>21, <2>1, <2>2
<1>22. x \o y = BytesOfAll(p \o q, file)
  BY <1>15, <1>16, <1>17, <1>18, BytesOfConcat
<1>23. p \o q \in Seq(Sent(file))
  BY <1>15, <1>16, ConcatProperties
<1>24. new.array = array /\ new.bytes = acc.bytes \o first \o second
  BY <1>10
<1>25. DOMAIN new.array = 1..cfg.DataFramesPerBlock
  BY <1>1, <1>7, <1>24
<1> QED BY <1>11, <1>12, <1>21, <1>22, <1>23, <1>24, <1>25, <1>26 DEF Continues

(* What the loop over the blocks has encoded. *)
EncodesBlocks(f, array, file, n) ==
  /\ f[0] = [array |-> array, bytes |-> <<>>]
  /\ \A k \in 1..n : f[k] = EncodeBlock(f[k - 1], k, file)

(* There is an output after every block that is encoded.                   *)
LEMMA EncodesExist ==
  ASSUME NEW n \in Nat, NEW array, NEW file
  PROVE  \E f : DOMAIN f = 0..n /\ EncodesBlocks(f, array, file, n)
<1> DEFINE E == {k \in 0..n : \E f : DOMAIN f = 0..k /\ EncodesBlocks(f, array, file, k)}
<1>1. 0 \in E
  <2>1. PICK k \in 0..n : k = 0
    OBVIOUS
  <2>2. PICK f : f = [i \in 0..k |-> [array |-> array, bytes |-> <<>>]]
    OBVIOUS
  <2>3. DOMAIN f = 0..k /\ f[0] = [array |-> array, bytes |-> <<>>] /\ 1..k = {}
    BY <2>1, <2>2
  <2>4. EncodesBlocks(f, array, file, k)
    BY <2>3 DEF EncodesBlocks
  <2> QED BY <2>1, <2>3, <2>4
<1>2. ASSUME NEW k \in E, k < n PROVE k + 1 \in E
  <2>1. k \in 0..n /\ k + 1 \in 0..n /\ \E f : DOMAIN f = 0..k /\ EncodesBlocks(f, array, file, k)
    BY <1>2
  <2>2. PICK f : DOMAIN f = 0..k /\ EncodesBlocks(f, array, file, k)
    BY <2>1
  <2>3. PICK next : next = EncodeBlock(f[k], k + 1, file)
    OBVIOUS
  <2>4. PICK g : g = [i \in 0..(k + 1) |-> IF i = k + 1 THEN next ELSE f[i]]
    OBVIOUS
  <2>5. \A i \in 0..k : i \in 0..(k + 1) /\ i # k + 1 /\ g[i] = f[i]
    BY <2>1, <2>4
  <2>6. g[k + 1] = next /\ k \in 0..k /\ 0 \in 0..k
    BY <2>1, <2>4
  <2>7. ASSUME NEW i \in 1..(k + 1) PROVE g[i] = EncodeBlock(g[i - 1], i, file)
    <3>1. CASE i \in 1..k
      <4>1. i \in 0..k /\ i - 1 \in 0..k
        BY <2>1, <3>1
      <4>2. f[i] = EncodeBlock(f[i - 1], i, file)
        BY <2>2, <3>1 DEF EncodesBlocks
      <4> QED BY <2>5, <4>1, <4>2
    <3>2. CASE i = k + 1
      <4>1. i - 1 = k
        BY <2>1, <3>2
      <4> QED BY <2>3, <2>5, <2>6, <3>2, <4>1
    <3>3. i \in 1..k \/ i = k + 1
      BY <2>1
    <3> QED BY <3>1, <3>2, <3>3
  <2>8. g[0] = [array |-> array, bytes |-> <<>>]
    BY <2>2, <2>5, <2>6 DEF EncodesBlocks
  <2>9. EncodesBlocks(g, array, file, k + 1)
    BY <2>7, <2>8 DEF EncodesBlocks
  <2>10. DOMAIN g = 0..(k + 1)
    BY <2>4
  <2> QED BY <2>1, <2>9, <2>10
<1>3. n \in E
  <2>1. E \in SUBSET (0..n) /\ n \in 0..n
    OBVIOUS
  <2> HIDE DEF E
  <2> QED BY <1>1, <1>2, <2>1, InductionFromZero
<1> QED BY <1>3

(* EncodeBlocks returns the last of them.                                  *)
LEMMA EncodeIsLast ==
  ASSUME NEW array, NEW file, NEW n \in Nat, n = BlockCount(DataFrames(Len(file), cfg), cfg)
  PROVE  \E f : EncodesBlocks(f, array, file, n) /\ EncodeBlocks(array, file) = f[n]
<1> DEFINE Goes(g) == g = [k \in 0..BlockCount(DataFrames(Len(file), cfg), cfg) |-> IF k = 0 THEN [array |-> array, bytes |-> <<>>]
                                               ELSE EncodeBlock(g[k - 1], k, file)]
           after == CHOOSE g : Goes(g)
<1>1. Goes(after)
  <2>1. PICK f : DOMAIN f = 0..n /\ EncodesBlocks(f, array, file, n)
    BY EncodesExist
  <2>2. PICK g : g = [k \in 0..n |-> f[k]]
    OBVIOUS
  <2>3. \A k \in 0..n : g[k] = IF k = 0 THEN [array |-> array, bytes |-> <<>>] ELSE EncodeBlock(g[k - 1], k, file)
    <3>1. ASSUME NEW k \in 0..n, k # 0 PROVE g[k] = EncodeBlock(g[k - 1], k, file)
      <4>1. k \in 1..n /\ k - 1 \in 0..n
        BY <3>1
      <4> QED BY <2>1, <2>2, <4>1 DEF EncodesBlocks
    <3> QED BY <2>1, <2>2, <3>1 DEF EncodesBlocks
  <2>4. Goes(g)
    BY <2>2, <2>3, Zenon
  <2> HIDE DEF Goes
  <2> QED BY <2>4
<1>2. EncodeBlocks(array, file) = after[BlockCount(DataFrames(Len(file), cfg), cfg)]
  BY Zenon DEF EncodeBlocks
<1> HIDE DEF after
<1>3. PICK g : g = after
  OBVIOUS
<1>4. g = [k \in 0..n |-> IF k = 0 THEN [array |-> array, bytes |-> <<>>] ELSE EncodeBlock(g[k - 1], k, file)]
  BY <1>1, <1>3
<1>5. \A k \in 0..n : g[k] = IF k = 0 THEN [array |-> array, bytes |-> <<>>] ELSE EncodeBlock(g[k - 1], k, file)
  BY <1>4
<1>6. EncodesBlocks(g, array, file, n)
  <2>1. 0 \in 0..n /\ \A k \in 1..n : k \in 0..n /\ k # 0
    OBVIOUS
  <2> QED BY <1>5, <2>1 DEF EncodesBlocks
<1> QED BY <1>2, <1>3, <1>6

(* Encoding emits the payloads of the frames of Encode, whatever an earlier *)
(* call left in the array of the block.                                     *)
LEMMA EncodeBlocksAre ==
  ASSUME cfg \in Configs, NEW file \in Files,
         NEW array, DOMAIN array = 1..cfg.DataFramesPerBlock,
         NEW result, result = EncodeBlocks(array, file)
  PROVE  /\ DOMAIN result.array = 1..cfg.DataFramesPerBlock
         /\ result.bytes = BytesOfAll(Encode(Len(file), cfg), file)
<1>1. PICK K \in Nat \ {0} : K = cfg.DataFramesPerBlock
  BY ConfigFacts
<1>2. PICK N \in Nat \ {0} : N = DataFrames(Len(file), cfg)
  BY FileFacts
<1>3. PICK B \in Nat \ {0} : B = BlockCount(N, cfg) /\ B = BlockCount(DataFrames(Len(file), cfg), cfg)
  BY <1>2, BlockCountIs
<1>4. PICK f : EncodesBlocks(f, array, file, B) /\ result = f[B]
  BY <1>3, EncodeIsLast
<1>5. PICK seqs : seqs = [b \in 1..B |-> DataOf(file, (b - 1) * K) \o RescueOf(file, (b - 1) * K)]
  OBVIOUS
<1>6. Encode(Len(file), cfg) = FlattenSeq(seqs)
  BY <1>1, <1>2, <1>3, <1>5 DEF Encode, DataOf, RescueOf
<1>7. ASSUME NEW b \in 1..B, NEW acc, DOMAIN acc.array = 1..K, acc.bytes \in Seq(Seq(Field)),
             NEW new, new = EncodeBlock(acc, b, file)
      PROVE  /\ DOMAIN new.array = 1..K /\ seqs[b] \in Seq(Sent(file))
             /\ new.bytes = acc.bytes \o BytesOfAll(seqs[b], file)
  <2>1. PICK s : StartsAt(b, s, file)
    BY <1>3, BlockStart
  <2>2. Continues(new, acc, file, s)
    BY <1>1, <1>7, <2>1, EncodeBlockIs
  <2>3. seqs[b] = DataOf(file, s) \o RescueOf(file, s)
    BY <1>1, <1>5, <2>1 DEF StartsAt
  <2> QED BY <1>1, <2>2, <2>3 DEF Continues
<1>8. PICK none : none = <<>>
  OBVIOUS
<1>9. none \in Seq(Seq(Field)) /\ none \in Seq(Sent(file))
  BY <1>8, EmptySeq
<1>10. PICK acc : acc = [array |-> array, bytes |-> none]
  OBVIOUS
<1>11. acc.array = array /\ acc.bytes = none /\ f[0] = acc
  BY <1>4, <1>8, <1>10 DEF EncodesBlocks
<1>12. ASSUME NEW b \in 1..B PROVE seqs[b] \in Seq(Sent(file))
  BY <1>1, <1>7, <1>9, <1>11
<1>13. seqs \in Seq(Seq(Sent(file))) /\ Len(seqs) = B
  <2>1. seqs \in [1..B -> Seq(Sent(file))]
    BY <1>5, <1>12
  <2> QED BY <2>1
<1>14. PICK g \in [1..B -> Seq(Sent(file))] : FlattensBy(g, seqs, B)
  BY <1>13, FlattenByPrefixes
<1> DEFINE E == {b \in 1..B : /\ DOMAIN f[b].array = 1..K
                              /\ f[b].bytes = BytesOfAll(g[b], file)}
<1>15. 1 \in E
  <2>1. PICK one \in 1..B : one = 1 /\ one - 1 = 0
    BY <1>3
  <2>2. f[one] = EncodeBlock(acc, one, file)
    BY <1>4, <1>11, <2>1 DEF EncodesBlocks
  <2>3. /\ DOMAIN f[one].array = 1..K /\ f[one].bytes = none \o BytesOfAll(seqs[one], file)
    BY <1>1, <1>7, <1>9, <1>11, <2>2
  <2>4. BytesOfAll(seqs[one], file) \in Seq(Seq(Field))
    BY <1>12, BytesOfSent
  <2>5. f[one].bytes = BytesOfAll(seqs[one], file)
    BY <1>8, <2>3, <2>4, ConcatEmptySeq
  <2>6. g[one] = seqs[one]
    BY <1>14, <2>1 DEF FlattensBy
  <2> QED BY <2>1, <2>3, <2>5, <2>6
<1>16. ASSUME NEW b \in E, b < B PROVE b + 1 \in E
  <2>1. PICK a \in 1..B : a = b
    BY <1>16
  <2>2. PICK d \in 1..B : d = a + 1 /\ d - 1 = a
    BY <1>16, <2>1
  <2>3. f[d] = EncodeBlock(f[a], d, file)
    BY <1>4, <2>2 DEF EncodesBlocks
  <2>4. DOMAIN f[a].array = 1..K /\ f[a].bytes = BytesOfAll(g[a], file)
    BY <1>16, <2>1
  <2>11. DOMAIN f[d].array = 1..K /\ f[d].bytes = BytesOfAll(g[d], file) => d \in E
    OBVIOUS
  <2> HIDE DEF E
  <2>5. g[a] \in Seq(Sent(file))
    BY <1>14
  <2>6. f[a].bytes \in Seq(Seq(Field))
    BY <2>4, <2>5, BytesOfSent
  <2>7. DOMAIN f[d].array = 1..K /\ f[d].bytes = f[a].bytes \o BytesOfAll(seqs[d], file)
    <3>1. PICK prev : prev = f[a] /\ DOMAIN prev.array = 1..K /\ prev.bytes \in Seq(Seq(Field))
      BY <2>4, <2>6
    <3>2. PICK next : next = f[d] /\ next = EncodeBlock(prev, d, file)
      BY <2>3, <3>1
    <3>3. DOMAIN next.array = 1..K /\ next.bytes = prev.bytes \o BytesOfAll(seqs[d], file)
      BY <1>7, <3>1, <3>2
    <3> QED BY <3>1, <3>2, <3>3
  <2>8. g[d] = g[a] \o seqs[d]
    BY <1>14, <1>16, <2>1, <2>2 DEF FlattensBy
  <2>9. f[d].bytes = BytesOfAll(g[d], file)
    <3>1. PICK p \in Seq(Sent(file)) : p = g[a]
      BY <2>5
    <3>2. PICK q \in Seq(Sent(file)) : q = seqs[d]
      BY <1>12
    <3>3. BytesOfAll(p \o q, file) = BytesOfAll(p, file) \o BytesOfAll(q, file)
      BY BytesOfConcat
    <3> QED BY <2>4, <2>7, <2>8, <3>1, <3>2, <3>3
  <2>10. d \in E
    BY <2>7, <2>9, <2>11
  <2> QED BY <2>1, <2>2, <2>10
<1>17. B \in E
  <2>1. E \in SUBSET (1..B) /\ B \in 1..B
    OBVIOUS
  <2> HIDE DEF E
  <2>2. E = 1..B
    BY <1>15, <1>16, <2>1, Induction
  <2> QED BY <2>1, <2>2
<1>18. Encode(Len(file), cfg) = g[B]
  BY <1>6, <1>14 DEF FlattensBy
<1> QED BY <1>1, <1>4, <1>17, <1>18

-----------------------------------------------------------------------------

(* As many things as fit into a set can be told apart by its elements.      *)
LEMMA SmallerFits ==
  ASSUME NEW S, NEW T, IsFiniteSet(S), IsFiniteSet(T), Cardinality(S) <= Cardinality(T)
  PROVE  ExistsInjection(S, T)
<1>1. PICK s \in Nat : s = Cardinality(S) /\ ExistsBijection(1..s, S)
  BY FS_CardinalityType
<1>2. PICK t \in Nat : t = Cardinality(T) /\ ExistsBijection(1..t, T)
  BY FS_CardinalityType
<1>3. ExistsInjection(1..s, 1..t)
  BY <1>1, <1>2, Fun_NatInjLeq
<1>4. ExistsBijection(S, 1..s)
  BY <1>1, Fun_ExistsBijSymmetric
<1>5. ExistsInjection(S, 1..s) /\ ExistsInjection(1..t, T)
  BY <1>2, <1>4 DEF ExistsBijection, ExistsInjection, Bijection
<1> QED BY <1>3, <1>5, Fun_ExistsInjTransitive

(* A spare rescue frame for each data frame a block misses.                 *)
IsSpare(g, size, s, known) ==
  g \in Injection(MissingOf(s, known, size, cfg), RescuesOf(s, known, size, cfg))

(* What stands for data frame i: itself, or a rescue frame of its block.    *)
StandsFor(f, i, size, known, g) ==
  \/ DataFrame(i, size, cfg) \in known /\ f = DataFrame(i, size, cfg)
  \/ \E s : /\ DataFrame(i, size, cfg) \notin known /\ IsSpare(g[s], size, s, known)
            /\ i \in MissingOf(s, known, size, cfg) /\ f = RescueFrame(s, g[s][i], size, cfg)

(* What the headers of a data frame and of a rescue frame say.              *)
LEMMA DataHeader ==
  ASSUME NEW k, NEW size, NEW f, f = DataFrame(k, size, cfg)
  PROVE  f.FrameType = Data /\ f.FrameIndex = k
BY DEF DataFrame, Frame

(* The header of a rescue frame.                                           *)
LEMMA RescueHeader ==
  ASSUME NEW s, NEW r, NEW size, NEW f, f = RescueFrame(s, r, size, cfg)
  PROVE  f.FrameType = Rescue /\ f.FrameIndex = s /\ f.RescueIndex = r
BY DEF RescueFrame, Frame

(* No frame stands for two data frames.                                    *)
LEMMA StandsForOne ==
  ASSUME NEW size, NEW known, NEW g, NEW f, NEW i, NEW j,
         StandsFor(f, i, size, known, g), StandsFor(f, j, size, known, g)
  PROVE  i = j
<1>1. Data # Rescue
  BY DEF Data, Rescue
<1>2. CASE f.FrameType = Data
  <2>1. f = DataFrame(i, size, cfg)
    <3>1. f = DataFrame(i, size, cfg) \/ \E s, r : f = RescueFrame(s, r, size, cfg)
      BY Zenon DEF StandsFor
    <3>2. \A s, r : f # RescueFrame(s, r, size, cfg)
      BY <1>1, <1>2, RescueHeader
    <3> QED BY <3>1, <3>2, Zenon
  <2>2. f = DataFrame(j, size, cfg)
    <3>1. f = DataFrame(j, size, cfg) \/ \E s, r : f = RescueFrame(s, r, size, cfg)
      BY Zenon DEF StandsFor
    <3>2. \A s, r : f # RescueFrame(s, r, size, cfg)
      BY <1>1, <1>2, RescueHeader
    <3> QED BY <3>1, <3>2, Zenon
  <2>3. f.FrameIndex = i
    BY <2>1, DataHeader, Zenon
  <2>4. f.FrameIndex = j
    BY <2>2, DataHeader, Zenon
  <2> QED BY <2>3, <2>4, Zenon
<1>3. CASE f.FrameType # Data
  <2>0. f # DataFrame(i, size, cfg) /\ f # DataFrame(j, size, cfg)
    BY <1>3, DataHeader, Zenon
  <2>1. PICK s : /\ IsSpare(g[s], size, s, known) /\ i \in MissingOf(s, known, size, cfg)
                 /\ f = RescueFrame(s, g[s][i], size, cfg)
    BY <2>0, Zenon DEF StandsFor
  <2>2. PICK t : /\ IsSpare(g[t], size, t, known) /\ j \in MissingOf(t, known, size, cfg)
                 /\ f = RescueFrame(t, g[t][j], size, cfg)
    BY <2>0, Zenon DEF StandsFor
  <2>3. f.FrameIndex = s /\ f.RescueIndex = g[s][i]
    <3>1. PICK r : r = g[s][i]
      OBVIOUS
    <3>2. f = RescueFrame(s, r, size, cfg)
      BY <2>1, <3>1, Zenon
    <3>3. f.FrameIndex = s /\ f.RescueIndex = r
      BY <3>2, RescueHeader
    <3> QED BY <3>1, <3>3, Zenon
  <2>4. f.FrameIndex = t /\ f.RescueIndex = g[t][j]
    <3>1. PICK r : r = g[t][j]
      OBVIOUS
    <3>2. f = RescueFrame(t, r, size, cfg)
      BY <2>2, <3>1, Zenon
    <3>3. f.FrameIndex = t /\ f.RescueIndex = r
      BY <3>2, RescueHeader
    <3> QED BY <3>1, <3>3, Zenon
  <2>5. s = t
    BY <2>3, <2>4, Zenon
  <2>6. j \in MissingOf(s, known, size, cfg) /\ g[s][i] = g[s][j]
    BY <2>2, <2>3, <2>4, <2>5, Zenon
  <2>7. PICK M : M = MissingOf(s, known, size, cfg)
    OBVIOUS
  <2>8. \A a, b \in M : g[s][a] = g[s][b] => a = b
    BY <2>1, <2>7 DEF IsSpare, Injection, IsInjective
  <2> QED BY <2>1, <2>6, <2>7, <2>8
<1> QED BY <1>2, <1>3

(* No file can be recovered from fewer frames than it has data frames: each *)
(* missing frame needs a rescue frame of its own.                          *)
LEMMA RecoverableNeedsFrames ==
  ASSUME cfg \in Configs, NEW file \in Files, NEW known, IsFiniteSet(known),
         Recoverable(known, Len(file), cfg)
  PROVE  DataFrames(Len(file), cfg) <= Cardinality(known)
<1>1. PICK N \in Nat \ {0} : N = DataFrames(Len(file), cfg)
  BY FileFacts
<1>2. PICK R \in Nat : R = cfg.RescueFramesPerBlock
  BY ConfigFacts
<1>11. PICK size : size = Len(file)
  OBVIOUS
<1>3. PICK g : g = [s \in BlockStarts(N, cfg) |-> CHOOSE h : IsSpare(h, size, s, known)]
  OBVIOUS
<1>4. ASSUME NEW s \in BlockStarts(N, cfg) PROVE IsSpare(g[s], size, s, known)
  <2>1. PICK M : M = MissingOf(s, known, size, cfg)
    OBVIOUS
  <2>2. PICK Q : Q = RescuesOf(s, known, size, cfg)
    OBVIOUS
  <2>3. IsFiniteSet(M)
    <3>1. M \in SUBSET (0..(N - 1))
      BY <1>1, <1>11, <2>1 DEF MissingOf, BlockFrames
    <3>2. IsFiniteSet(0..(N - 1))
      <4>1. 0 \in Int /\ N - 1 \in Int
        OBVIOUS
      <4> QED BY <4>1, FS_Interval
    <3> QED BY <3>1, <3>2, FS_Subset
  <2>4. IsFiniteSet(Q)
    BY <1>1, <1>2, <1>11, <2>2, LacksIsFinite DEF Spares
  <2>5. Cardinality(M) <= Cardinality(Q)
    BY <1>1, <1>11, <2>1, <2>2 DEF Recoverable
  <2>6. ExistsInjection(M, Q)
    BY <2>3, <2>4, <2>5, SmallerFits
  <2>7. \E h : IsSpare(h, size, s, known)
    BY <2>1, <2>2, <2>6 DEF ExistsInjection, IsSpare
  <2>8. IsSpare(CHOOSE h : IsSpare(h, size, s, known), size, s, known)
    BY <2>7, Zenon
  <2> QED BY <1>3, <2>8
<1>5. ASSUME NEW i \in 0..(N - 1) PROVE \E f \in known : StandsFor(f, i, size, known, g)
  <2>1. CASE DataFrame(i, size, cfg) \in known
    BY <2>1 DEF StandsFor
  <2>2. CASE DataFrame(i, size, cfg) \notin known
    <3>1. PICK b, s : StartsAt(b, s, file) /\ i \in BlockFrames(s, N, cfg)
      BY <1>1, FrameHasBlock
    <3>2. s \in BlockStarts(N, cfg)
      BY <1>1, <3>1, StartsAreBlockStarts
    <3>3. IsSpare(g[s], size, s, known)
      BY <1>4, <3>2
    <3>4. i \in MissingOf(s, known, size, cfg)
      BY <1>1, <1>11, <2>2, <3>1 DEF MissingOf
    <3>5. g[s][i] \in RescuesOf(s, known, size, cfg)
      BY <3>3, <3>4 DEF IsSpare, Injection
    <3>6. RescueFrame(s, g[s][i], size, cfg) \in known
      BY <3>5 DEF RescuesOf
    <3> QED BY <2>2, <3>3, <3>4, <3>6 DEF StandsFor
  <2> QED BY <2>1, <2>2
<1>6. PICK h : h = [i \in 0..(N - 1) |-> CHOOSE f \in known : StandsFor(f, i, size, known, g)]
  OBVIOUS
<1>7. ASSUME NEW i \in 0..(N - 1) PROVE h[i] \in known /\ StandsFor(h[i], i, size, known, g)
  <2>1. PICK f : f = CHOOSE x \in known : StandsFor(x, i, size, known, g)
    OBVIOUS
  <2>2. f \in known /\ StandsFor(f, i, size, known, g)
    BY <1>5, <2>1, Zenon
  <2> QED BY <1>6, <2>1, <2>2
<1>8. h \in Injection(0..(N - 1), known)
  <2>1. h \in [0..(N - 1) -> known]
    BY <1>6, <1>7
  <2>2. ASSUME NEW i \in 0..(N - 1), NEW j \in 0..(N - 1), h[i] = h[j] PROVE i = j
    BY <1>7, <2>2, StandsForOne
  <2> QED BY <2>1, <2>2 DEF Injection, IsInjective
<1>9. Cardinality(0..(N - 1)) <= Cardinality(known)
  BY <1>8, FS_Injection
<1>10. Cardinality(0..(N - 1)) = N
  <2>1. 0 \in Int /\ N - 1 \in Int
    OBVIOUS
  <2> QED BY <2>1, FS_Interval
<1> QED BY <1>1, <1>9, <1>10

(* The frames of a file have valid headers.                                *)
LEMMA SentIsValid ==
  ASSUME cfg \in Configs, NEW file \in Files, NEW g \in Sent(file)
  PROVE  FrameMetadataLooksValid(g, cfg)
<1>1. PlanAccepts(Len(file), cfg)
  BY FileFacts
<1>2. CASE \E i : IsDataFrame(g, i, file)
  BY <1>1, <1>2, DataFrameIsAccepted DEF IsDataFrame
<1>3. CASE \E b, s, r : IsRescueFrame(g, b, s, r, file)
  <2>1. PICK b, s, r : IsRescueFrame(g, b, s, r, file)
    BY <1>3
  <2>2. s \in BlockStarts(DataFrames(Len(file), cfg), cfg)
    BY <2>1, StartsAreBlockStarts DEF IsRescueFrame
  <2>3. PICK R \in Nat : R = cfg.RescueFramesPerBlock
    BY ConfigFacts
  <2>4. r \in 0..(cfg.RescueFramesPerBlock - 1)
    BY <2>1, <2>3 DEF IsRescueFrame
  <2> QED BY <1>1, <2>1, <2>2, <2>4, RescueFrameIsAccepted DEF IsRescueFrame
<1> QED BY <1>2, <1>3, SentIs

(* Frames that are not rejected are not too many, and agree.                *)
LEMMA AcceptedAgrees ==
  ASSUME cfg \in Configs, NEW file \in Files, NEW frames, IsFromFile(frames, file),
         frames # <<>>, ~Rejected(frames)
  PROVE  Len(frames) <= 2 * MaxFrameCount /\ HeadersAgree(frames, file)
<1>1. PICK n \in Nat : n = Len(frames) /\ DOMAIN frames = 1..n
  BY DEF IsFromFile
<1>2. frames[1].TotalDataBytes = Len(file)
  BY DEF IsFromFile
<1>3. \A m \in Nat : ~(n > 2 * m) => n <= 2 * m
  OBVIOUS
<1>4. ~(Len(frames) > 2 * MaxFrameCount)
  BY DEF Rejected
<1>5. HeadersAgree(frames, file)
  BY <1>2 DEF Rejected, HeadersAgree
<1> QED BY <1>1, <1>3, <1>4, <1>5, LimitsAssumption

(* Every frame of the file that arrived came at a place of its own.         *)
LEMMA ArrivedIsCounted ==
  ASSUME cfg \in Configs, NEW file \in Files, NEW frames, Honest(frames, file),
         NEW n \in Nat, n = Len(frames), NEW known, known = Arrived(frames, file)
  PROVE  IsFiniteSet(known) /\ Cardinality(known) \in Nat /\ Cardinality(known) <= n
<1>1. PICK h : h = [k \in 1..n |-> CHOOSE g \in Sent(file) : Alike(frames[k], g, file)]
  OBVIOUS
<1>2. ASSUME NEW k \in 1..n PROVE h[k] \in Sent(file) /\ Alike(frames[k], h[k], file)
  <2>1. \E g \in Sent(file) : Alike(frames[k], g, file)
    BY DEF Honest
  <2>2. PICK x : x = CHOOSE g \in Sent(file) : Alike(frames[k], g, file)
    OBVIOUS
  <2>3. x \in Sent(file) /\ Alike(frames[k], x, file)
    BY <2>1, <2>2, Zenon
  <2> QED BY <1>1, <2>2, <2>3
<1>3. h \in Surjection(1..n, known)
  <2>1. ASSUME NEW k \in 1..n PROVE h[k] \in known
    BY <1>2 DEF Arrived, ArrivedBy
  <2>2. h \in [1..n -> known]
    BY <1>1, <2>1
  <2>3. ASSUME NEW f \in known PROVE \E k \in 1..n : h[k] = f
    <3>1. PICK k \in 1..n : f \in Sent(file) /\ Alike(frames[k], f, file)
      BY DEF Arrived, ArrivedBy
    <3>2. h[k] = f
      BY <1>2, <3>1, SlotsApart DEF Alike
    <3> QED BY <3>2
  <2> QED BY <2>2, <2>3 DEF Surjection
<1>4. IsFiniteSet(1..n) /\ Cardinality(1..n) = n
  <2>1. 1 \in Int /\ n \in Int /\ (IF 1 > n THEN 0 ELSE n - 1 + 1) = n
    OBVIOUS
  <2>2. /\ IsFiniteSet(1..n)
        /\ Cardinality(1..n) = IF 1 > n THEN 0 ELSE n - 1 + 1
    BY <2>1, FS_Interval
  <2> QED BY <2>1, <2>2
<1>5. IsFiniteSet(known) /\ Cardinality(known) <= Cardinality(1..n)
  BY <1>3, <1>4, FS_Surjection
<1>6. Cardinality(known) \in Nat
  BY <1>5, FS_CardinalityType
<1> QED BY <1>4, <1>5, <1>6

(* Frames that determine the file are enough not to be rejected.            *)
LEMMA RestoresIsAccepted ==
  ASSUME cfg \in Configs, NEW file \in Files, NEW frames, IsFromFile(frames, file),
         Restores(frames, file)
  PROVE  frames # <<>> /\ ~Rejected(frames)
<1>1. PICK n \in Nat : n = Len(frames) /\ DOMAIN frames = 1..n
  BY DEF IsFromFile
<1>2. PICK N \in Nat \ {0} : N = DataFrames(Len(file), cfg)
  BY FileFacts
<1>3. PICK known : known = Arrived(frames, file)
  OBVIOUS
<1>4. IsFiniteSet(known) /\ Cardinality(known) \in Nat /\ Cardinality(known) <= n
  BY <1>1, <1>3, ArrivedIsCounted DEF Restores
<1>5. N <= Cardinality(known)
  BY <1>2, <1>3, <1>4, RecoverableNeedsFrames DEF Restores
<1>6. N <= n /\ n # 0
  BY <1>4, <1>5
<1>7. frames # <<>>
  <2>1. Len(<<>>) = 0
    OBVIOUS
  <2> QED BY <1>1, <1>6, <2>1
<1>8. \A k \in 1..n : /\ FrameMetadataLooksValid(frames[k], cfg)
                      /\ frames[k].TotalFrames = N /\ frames[k].TotalDataBytes = Len(file)
                      /\ frames[k].BlockSize = cfg.DataFramesPerBlock
  BY <1>1, <1>2 DEF Restores, HeadersAgree, FrameMetadataLooksValid
<1>9. PICK one \in 1..n : one = 1
  BY <1>6
<1>10. /\ frames[1].TotalFrames = N /\ frames[1].TotalDataBytes = Len(file)
       /\ frames[1].BlockSize = cfg.DataFramesPerBlock
  BY <1>8, <1>9
<1>11. ~(N > n)
  BY <1>6
<1>12. ~(n > 2 * MaxFrameCount)
  <2>1. \A m \in Nat : n <= 2 * m => ~(n > 2 * m)
    OBVIOUS
  <2> QED BY <1>1, <2>1, LimitsAssumption DEF Restores
<1>13. ~Rejected(frames)
  BY <1>1, <1>8, <1>10, <1>11, <1>12 DEF Rejected
<1> QED BY <1>7, <1>13

(* Whatever the workspace held, ReconstructTo returns the file exactly when*)
(* at most 2 * MaxFrameCount frames came, in any order, all of them of this*)
(* file, and they determine it; if not it returns an error and leaves the  *)
(* output alone (decode.go:58-181).                                        *)
THEOREM ReconstructedIs ==
  ASSUME cfg \in Configs, NEW file \in Files, NEW w, IsWorkspace(w), NEW out,
         NEW frames, IsDelivery(frames, file)
  PROVE  Returns(Reconstructed(w, out, frames, file), out, frames, file)
<1>1. PICK result : result = Reconstructed(w, out, frames, file)
  OBVIOUS
<1>2. IsFromFile(frames, file) /\ (Honest(frames, file) \/ IsChanged(frames, file))
  BY DEF IsDelivery
<1>3. PICK size : size = frames[1].TotalDataBytes
  OBVIOUS
<1>4. PICK seen \in BOOLEAN : seen = \E k \in DOMAIN frames : frames[k].FrameType = Rescue
  BY Zenon
<1>5. CASE frames = <<>>
  <2>1. result = Result(w, out, "NoValidFrames", <<>>)
    BY <1>1, <1>5 DEF Reconstructed
  <2>2. ~Restores(frames, file)
    BY <1>2, <1>5, RestoresIsAccepted
  <2> QED BY <1>1, <1>5, <2>1, <2>2 DEF Result, Returns, Outcome
<1>6. CASE frames # <<>> /\ Rejected(frames)
  <2>1. result = Result(w, out, "Unrecoverable", <<>>)
    BY <1>1, <1>6 DEF Reconstructed
  <2>2. ~Restores(frames, file)
    BY <1>2, <1>6, RestoresIsAccepted
  <2> QED BY <1>1, <1>6, <2>1, <2>2 DEF Result, Returns, Outcome
<1>7. CASE frames # <<>> /\ ~Rejected(frames) /\ FastPath(frames)
  <2>1. PICK bytes : bytes = FlattenSeq([k \in DOMAIN frames |-> Bytes(frames[k].Payload, file)])
    OBVIOUS
  <2>2. result = Delivered(w, out, bytes)
    BY <1>1, <1>7, <2>1 DEF Reconstructed
  <2>3. result.ws = w /\ result.error = "none" /\ result.bytes = bytes
    BY <2>2 DEF Delivered, Result
  <2>4. Honest(frames, file)
    <3>1. SUFFICES ASSUME IsChanged(frames, file) PROVE FALSE
      BY <1>2
    <3>2. PICK g \in Sent(file) : SameSlot(frames[1], g) /\ Len(frames) > 1 /\ frames[Len(frames)] = g
      BY <3>1 DEF IsChanged
    <3>3. PICK n \in Nat : n = Len(frames) /\ n > 1 /\ DOMAIN frames = 1..n
      BY <1>2, <3>2 DEF IsFromFile
    <3>4. frames[1].FrameIndex = frames[n].FrameIndex
      BY <3>2, <3>3 DEF SameSlot
    <3>5. frames[1].FrameIndex = 1 - 1 /\ frames[n].FrameIndex = n - 1
      <4>1. 1 \in 1..n /\ n \in 1..n
        BY <3>3
      <4> QED BY <1>7, <3>3, <4>1 DEF FastPath
    <3>6. 1 - 1 # n - 1
      BY <3>3
    <3> QED BY <3>4, <3>5, <3>6
  <2>5. bytes = file /\ Recoverable(Arrived(frames, file), Len(file), cfg)
    BY <1>2, <1>7, <2>1, <2>4, FastPathIs
  <2>6. Restores(frames, file)
    BY <1>2, <1>7, <2>4, <2>5, AcceptedAgrees DEF Restores
  <2> QED BY <1>1, <2>3, <2>5, <2>6 DEF Returns, Outcome
<1>8. CASE frames # <<>> /\ ~Rejected(frames) /\ ~FastPath(frames)
  <2>1. size = Len(file)
    BY <1>2, <1>3, <1>8 DEF IsFromFile
  <2>2. PICK N : N = DataFrames(Len(file), cfg)
    OBVIOUS
  <2>3. PICK prepared : prepared = Prepared(w, N)
    OBVIOUS
  <2>4. PICK filled : filled = Filled(prepared, frames, file)
    OBVIOUS
  <2>5. result = Completed(filled, out, Len(file), seen)
    BY <1>1, <1>3, <1>4, <1>8, <2>1, <2>2, <2>3, <2>4 DEF Reconstructed
  <2>6. IsFilling([ws |-> prepared, conflict |-> FALSE], file, {})
    BY <2>2, <2>3, PreparedIs
  <2>7. CASE Honest(frames, file)
    <3>1. PICK known : known = Arrived(frames, file)
      OBVIOUS
    <3>2. IsFilling(filled, file, known)
      BY <1>2, <2>4, <2>6, <2>7, <3>1, HonestFill DEF IsFromFile
    <3>3. PICK next : next = filled.ws
      OBVIOUS
    <3>4. IsFilled(next, file, known)
      BY <3>2, <3>3, FilledIs
    <3>5. filled = [ws |-> next, conflict |-> FALSE]
      BY <3>2, <3>3 DEF IsFilling
    <3>6. \A s, r : RescueFrame(s, r, Len(file), cfg) \in known => seen
      BY <1>2, <1>4, <3>1, RescueIsSeen
    <3>7. PICK new : /\ IsWorkspace(new)
                     /\ IF Recoverable(known, Len(file), cfg) THEN Delivers(result, new, file)
                                                              ELSE Fails(result, new, out)
      BY <2>5, <3>4, <3>5, <3>6, CompletedIs
    <3>8. Restores(frames, file) <=> Recoverable(known, Len(file), cfg)
      BY <1>2, <1>8, <2>7, <3>1, AcceptedAgrees DEF Restores
    <3> QED BY <1>1, <1>8, <3>7, <3>8 DEF Returns, Outcome, Delivers, Fails
  <2>8. CASE ~Honest(frames, file)
    <3>1. PICK g \in Sent(file) :
            /\ SameSlot(frames[1], g) /\ Len(frames) > 1 /\ frames[Len(frames)] = g
            /\ \A k \in 2..Len(frames) : frames[k] \in Sent(file)
      BY <1>2, <2>8 DEF IsChanged
    <3>2. Len(frames) \in Nat
      BY <1>2 DEF IsFromFile
    <3>3. Bytes(frames[1].Payload, file) # Bytes(g.Payload, file)
      <4>1. SUFFICES ASSUME Bytes(frames[1].Payload, file) = Bytes(g.Payload, file) PROVE FALSE
        OBVIOUS
      <4>2. Alike(frames[1], g, file)
        BY <3>1, <4>1 DEF Alike
      <4>3. ASSUME NEW k \in 1..Len(frames) PROVE \E x \in Sent(file) : Alike(frames[k], x, file)
        <5>1. k = 1 \/ k \in 2..Len(frames)
          BY <3>2
        <5> QED BY <3>1, <4>2, <5>1, LikeItself
      <4> QED BY <2>8, <4>3 DEF Honest
    <3>4. filled.conflict /\ IsWorkspace(filled.ws)
      BY <2>4, <2>6, <3>1, <3>2, <3>3, GarbageFill
    <3>5. result = Result(filled.ws, out, "Unrecoverable", <<>>)
      BY <2>5, <3>4 DEF Completed
    <3>6. ~Restores(frames, file)
      BY <2>8 DEF Restores
    <3> QED BY <1>1, <1>8, <3>4, <3>5, <3>6 DEF Result, Returns, Outcome
  <2> QED BY <2>7, <2>8
<1> QED BY <1>5, <1>6, <1>7, <1>8

(* Of frames that are those of the file, the call restores it exactly when  *)
(* they determine it and are not too many.                                  *)
LEMMA PureRestores ==
  ASSUME cfg \in Configs, NEW file \in Files, NEW frames, IsFromFile(frames, file),
         NEW known, known = ToSet(frames), known \subseteq Sent(file)
  PROVE  Restores(frames, file) <=>
           /\ Len(frames) <= 2 * MaxFrameCount
           /\ Recoverable(known, Len(file), cfg)
<1>1. PICK n \in Nat : n = Len(frames) /\ DOMAIN frames = 1..n
  BY DEF IsFromFile
<1>2. \A k \in 1..n : frames[k] \in known /\ frames[k] \in Sent(file)
  BY <1>1 DEF ToSet
<1>3. Honest(frames, file)
  BY <1>1, <1>2, LikeItself DEF Honest
<1>4. Arrived(frames, file) = known
  <2>1. ASSUME NEW f \in known PROVE f \in Arrived(frames, file)
    <3>1. PICK k \in 1..n : frames[k] = f
      BY <1>1 DEF ToSet
    <3> QED BY <1>1, <2>1, <3>1, LikeItself DEF Arrived, ArrivedBy
  <2>2. ASSUME NEW f \in Arrived(frames, file) PROVE f \in known
    <3>1. PICK k \in 1..n : f \in Sent(file) /\ Alike(frames[k], f, file)
      BY <1>1 DEF Arrived, ArrivedBy
    <3>2. frames[k] = f
      BY <1>2, <3>1, LikeItself, SlotsApart DEF Alike
    <3> QED BY <1>2, <3>2
  <2> QED BY <2>1, <2>2
<1>5. HeadersAgree(frames, file)
  BY <1>1, <1>2, SentHeader, SentIsValid DEF HeadersAgree
<1> QED BY <1>3, <1>4, <1>5 DEF Restores

-----------------------------------------------------------------------------
(* The calls *)

(* The condition on a kept matrix. *)
InvertsSystem(inverse, system) ==
  \A i, j \in DOMAIN system :
    SumOf([k \in DOMAIN system |-> Mul(inverse[i][k], system[k][j])]) = IF i = j THEN 1 ELSE 0

(* What every call finds and leaves. *)
CodecInv ==
  /\ cfg \in Configs /\ IsWorkspace(ws) /\ DOMAIN block = 1..cfg.DataFramesPerBlock
  /\ last.call = "reconstruct" =>
       /\ last.file \in Files /\ IsDelivery(last.frames, last.file)
       /\ Outcome(last.frames, last.file, last.error, last.bytes)
  /\ last.call = "encode" => last.bytes = BytesOfAll(last.frames, last.file)

(* A new Codec is in order.                                                *)
LEMMA CodecStarts == NewCodec => CodecInv
<1> SUFFICES ASSUME NewCodec PROVE CodecInv
  OBVIOUS
<1>1. cfg \in Configs /\ block = NoPayloads /\ ws = NewWorkspace /\ last.call = "none"
  BY DEF NewCodec
<1>2. IsWorkspace(ws)
  BY <1>1, NewWorkspaceIsWorkspace
<1>3. DOMAIN block = 1..cfg.DataFramesPerBlock
  BY <1>1 DEF NoPayloads
<1> QED BY <1>1, <1>2, <1>3 DEF CodecInv

(* EncodeTo keeps it in order.                                             *)
LEMMA CodecEncodes == CodecInv /\ EncodeTo => CodecInv'
<1> SUFFICES ASSUME CodecInv, EncodeTo PROVE CodecInv'
  OBVIOUS
<1>1. cfg' = cfg /\ ws' = ws
  BY DEF EncodeTo
<1>2. PICK file \in Files :
        /\ block' = EncodeBlocks(block, file).array
        /\ last' = [call |-> "encode", file |-> file, frames |-> Encode(Len(file), cfg),
                    error |-> "none", bytes |-> EncodeBlocks(block, file).bytes]
  BY DEF EncodeTo
<1>3. PICK result : result = EncodeBlocks(block, file)
  OBVIOUS
<1>4. PICK frames : frames = Encode(Len(file), cfg)
  OBVIOUS
<1>5. /\ DOMAIN result.array = 1..cfg.DataFramesPerBlock
      /\ result.bytes = BytesOfAll(frames, file)
  BY <1>3, <1>4, EncodeBlocksAre DEF CodecInv
<1>6. /\ last'.call = "encode" /\ last'.frames = frames /\ last'.file = file
      /\ last'.bytes = BytesOfAll(frames, file)
  BY <1>2, <1>3, <1>4, <1>5
<1>7. BytesOfAll(frames, file)' = BytesOfAll(frames, file)
  BY <1>1, SameBytes DEF BytesOfAll
<1>8. last'.bytes = BytesOfAll(last.frames, last.file)'
  BY <1>6, <1>7
<1>9. IsWorkspace(ws)'
  <2>1. PICK w : w = ws
    OBVIOUS
  <2>2. IsWorkspace(w)'
    BY <1>1, <2>1, SameWorkspace DEF CodecInv
  <2> QED BY <1>1, <2>1, <2>2
<1>10. DOMAIN block' = 1..cfg'.DataFramesPerBlock
  BY <1>1, <1>2, <1>3, <1>5
<1> QED BY <1>1, <1>6, <1>8, <1>9, <1>10 DEF CodecInv

(* ReconstructTo keeps it in order, and leaves the output alone if it fails.*)
LEMMA CodecReconstructs ==
  CodecInv /\ ReconstructTo => CodecInv' /\ (last'.error # "none" => dst' = dst)
<1> SUFFICES ASSUME CodecInv, ReconstructTo
             PROVE  CodecInv' /\ (last'.error # "none" => dst' = dst)
  OBVIOUS
<1>1. cfg' = cfg /\ block' = block
  BY DEF ReconstructTo
<1>2. PICK file \in Files : \E frames \in Deliveries(file) :
        /\ ws' = Reconstructed(ws, dst, frames, file).ws
        /\ dst' = Reconstructed(ws, dst, frames, file).out
        /\ last' = [call |-> "reconstruct", file |-> file, frames |-> frames,
                    error |-> Reconstructed(ws, dst, frames, file).error,
                    bytes |-> Reconstructed(ws, dst, frames, file).bytes]
  BY DEF ReconstructTo
<1>3. PICK frames \in Deliveries(file) :
        /\ ws' = Reconstructed(ws, dst, frames, file).ws
        /\ dst' = Reconstructed(ws, dst, frames, file).out
        /\ last' = [call |-> "reconstruct", file |-> file, frames |-> frames,
                    error |-> Reconstructed(ws, dst, frames, file).error,
                    bytes |-> Reconstructed(ws, dst, frames, file).bytes]
  BY <1>2
<1>4. PICK result : result = Reconstructed(ws, dst, frames, file)
  OBVIOUS
<1>5. cfg \in Configs /\ IsWorkspace(ws) /\ DOMAIN block = 1..cfg.DataFramesPerBlock
  BY DEF CodecInv
<1>6. IsDelivery(frames, file)
  BY <1>5, DeliveriesAre
<1>7. Returns(result, dst, frames, file)
  BY <1>4, <1>5, <1>6, ReconstructedIs
<1>8. /\ IsWorkspace(result.ws) /\ Outcome(frames, file, result.error, result.bytes)
      /\ result.error # "none" => result.out = dst
  BY <1>7 DEF Returns
<1>9. /\ ws' = result.ws /\ dst' = result.out
      /\ last' = [call |-> "reconstruct", file |-> file, frames |-> frames,
                  error |-> result.error, bytes |-> result.bytes]
  BY <1>3, <1>4
<1>10. IsWorkspace(ws)'
  <2>1. PICK w : w = result.ws
    OBVIOUS
  <2>2. IsWorkspace(w)'
    BY <1>1, <1>8, <2>1, SameWorkspace
  <2> QED BY <1>9, <2>1, <2>2
<1>11. IsDelivery(frames, file)' /\ Outcome(frames, file, result.error, result.bytes)'
  BY <1>1, <1>6, <1>8, SameOutcome
<1>12. PICK error, bytes : error = result.error /\ bytes = result.bytes
  OBVIOUS
<1>13. /\ last'.call = "reconstruct" /\ last'.file = file /\ last'.frames = frames
       /\ last'.error = error /\ last'.bytes = bytes
  BY <1>9, <1>12
<1>14. IsDelivery(last.frames, last.file)'
       /\ Outcome(last.frames, last.file, last.error, last.bytes)'
  BY <1>11, <1>12, <1>13
<1>15. DOMAIN block' = 1..cfg'.DataFramesPerBlock
  BY <1>1, <1>5
<1>16. CodecInv'
  BY <1>1, <1>5, <1>10, <1>13, <1>14, <1>15 DEF CodecInv
<1> QED BY <1>8, <1>9, <1>12, <1>13, <1>16

(* Nothing changes without a call.                                         *)
LEMMA CodecRests == CodecInv /\ UNCHANGED vars => CodecInv'
<1> SUFFICES ASSUME CodecInv, UNCHANGED vars PROVE CodecInv'
  OBVIOUS
<1>1. cfg' = cfg /\ ws' = ws /\ block' = block /\ last' = last
  BY DEF vars
<1>2. IsWorkspace(ws)'
  <2>1. PICK w : w = ws
    OBVIOUS
  <2>2. IsWorkspace(w)'
    BY <1>1, <2>1, SameWorkspace DEF CodecInv
  <2> QED BY <1>1, <2>1, <2>2
<1>3. PICK frames, file, error, bytes :
        frames = last.frames /\ file = last.file /\ error = last.error /\ bytes = last.bytes
  OBVIOUS
<1>4. last'.call = last.call /\ last'.frames = frames /\ last'.file = file
      /\ last'.error = error /\ last'.bytes = bytes
  BY <1>1, <1>3
<1>5. ASSUME last.call = "reconstruct"
      PROVE  /\ file \in Files /\ IsDelivery(frames, file)'
             /\ Outcome(frames, file, error, bytes)'
  BY <1>1, <1>3, <1>5, SameOutcome DEF CodecInv
<1>6. BytesOfAll(frames, file)' = BytesOfAll(frames, file)
  BY <1>1, SameBytes DEF BytesOfAll
<1>7. last.call = "encode" => last'.bytes = BytesOfAll(last.frames, last.file)'
  <2>1. last.call = "encode" => bytes = BytesOfAll(frames, file)
    BY <1>3 DEF CodecInv
  <2> QED BY <1>4, <1>6, <2>1
<1>8. last.call = "reconstruct" =>
        /\ last'.file \in Files /\ IsDelivery(last.frames, last.file)'
        /\ Outcome(last.frames, last.file, last.error, last.bytes)'
  BY <1>4, <1>5
<1>9. DOMAIN block' = 1..cfg'.DataFramesPerBlock
  BY <1>1 DEF CodecInv
<1>10. cfg' \in Configs
  BY <1>1 DEF CodecInv
<1> QED BY <1>2, <1>4, <1>7, <1>8, <1>9, <1>10 DEF CodecInv

(* The invariant the results about the Codec rest on: the workspace is one  *)
(* a call can start from, and the last call returned what it should.        *)
THEOREM CodecCorrect == Spec => []CodecInv
<1>1. NewCodec => CodecInv
  BY CodecStarts
<1>2. CodecInv /\ [Next]_vars => CodecInv'
  BY CodecEncodes, CodecReconstructs, CodecRests DEF Next
<1> QED BY <1>1, <1>2, PTL DEF Spec

(* Nothing an earlier call left shows in the result of a later one, however *)
(* many calls were made and however they ended (codec.go:3-7, 55-120).      *)
THEOREM CallsIndependent == Spec => []CallsAreIndependent
<1>1. CodecInv => CallsAreIndependent
  <2> SUFFICES ASSUME CodecInv PROVE CallsAreIndependent
    OBVIOUS
  <2>1. PICK frames, file, error, bytes :
          frames = last.frames /\ file = last.file /\ error = last.error /\ bytes = last.bytes
    OBVIOUS
  <2>2. PICK fresh : fresh = Reconstructed(NewWorkspace, <<>>, frames, file)
    OBVIOUS
  <2>3. ASSUME last.call = "reconstruct" PROVE error = fresh.error /\ bytes = fresh.bytes
    <3>1. /\ cfg \in Configs /\ file \in Files /\ IsDelivery(frames, file)
          /\ Outcome(frames, file, error, bytes)
      BY <2>1, <2>3 DEF CodecInv
    <3>2. PICK w, none : w = NewWorkspace /\ none = <<>>
      OBVIOUS
    <3>3. IsWorkspace(w)
      BY <3>2, NewWorkspaceIsWorkspace
    <3>4. Returns(fresh, none, frames, file)
      BY <2>2, <3>1, <3>2, <3>3, ReconstructedIs
    <3>5. Outcome(frames, file, fresh.error, fresh.bytes)
      BY <3>4 DEF Returns
    <3> QED BY <3>1, <3>5 DEF Outcome
  <2>4. last.call = "encode" => bytes = BytesOfAll(frames, file)
    BY <2>1 DEF CodecInv
  <2> QED BY <2>1, <2>2, <2>3, <2>4 DEF CallsAreIndependent, BytesOfAll
<1> QED BY <1>1, CodecCorrect, PTL

(* The frames that arrive are turned back into the very file exactly when   *)
(* every block has a rescue frame for each data frame it misses and they are*)
(* not too many, for every field, configuration and file                    *)
(* (decode.go:63-65, 160-376).                                             *)
THEOREM FileRestored == Spec => []RestoresExactly
<1>1. CodecInv => RestoresExactly
  <2> SUFFICES ASSUME CodecInv, last.call = "reconstruct", ToSet(last.frames) \subseteq Sent(last.file)
               PROVE  IF /\ Len(last.frames) <= 2 * MaxFrameCount
                         /\ Recoverable(ToSet(last.frames), Len(last.file), cfg)
                      THEN last.error = "none" /\ last.bytes = last.file
                      ELSE last.error # "none"
    BY DEF RestoresExactly
  <2>1. PICK frames, file, error, bytes :
          frames = last.frames /\ file = last.file /\ error = last.error /\ bytes = last.bytes
    OBVIOUS
  <2>2. PICK known : known = ToSet(frames)
    OBVIOUS
  <2>3. /\ cfg \in Configs /\ file \in Files /\ IsDelivery(frames, file)
        /\ Outcome(frames, file, error, bytes) /\ known \subseteq Sent(file)
    BY <2>1, <2>2 DEF CodecInv
  <2>4. Restores(frames, file) <=>
          Len(frames) <= 2 * MaxFrameCount /\ Recoverable(known, Len(file), cfg)
    BY <2>2, <2>3, PureRestores DEF IsDelivery
  <2>5. IF Len(frames) <= 2 * MaxFrameCount /\ Recoverable(known, Len(file), cfg)
        THEN error = "none" /\ bytes = file
        ELSE error # "none"
    BY <2>3, <2>4 DEF Outcome
  <2> QED BY <2>1, <2>2, <2>5
<1> QED BY <1>1, CodecCorrect, PTL

(* Every kept matrix is the inverse of the system of its frames, and the    *)
(* cache stays within its limit (decode.go:313-335).                        *)
THEOREM KeptInversesRight == Spec => []CacheIsRight
<1>1. CodecInv => CacheIsRight
  <2> SUFFICES ASSUME CodecInv PROVE CacheIsRight
    OBVIOUS
  <2>1. PICK inverses : inverses = ws.inverses /\ IsCache(inverses)
    BY DEF CodecInv, IsWorkspace
  <2>2. Cardinality(DOMAIN inverses) <= CacheLimit
    BY <2>1 DEF IsCache
  <2>3. ASSUME NEW key \in DOMAIN inverses
        PROVE  InvertsSystem(inverses[key], SystemOf(key[1], key[2]))
    <3>1. PICK system : system = SystemOf(key[1], key[2])
      OBVIOUS
    <3>2. PICK inverse : inverse = inverses[key]
      OBVIOUS
    <3>3. PICK n \in Nat : IsKey(key[1], key[2], n) /\ Inverts(inverse, system, n)
      BY <2>1, <3>1, <3>2 DEF IsCache
    <3>4. DOMAIN system = 1..n
      <4>1. DOMAIN key[2] = 1..n
        BY <3>3 DEF IsKey, Picks
      <4> QED BY <3>1, <4>1 DEF SystemOf
    <3>5. PICK D : D = 1..n
      OBVIOUS
    <3>6. D = DOMAIN system
      BY <3>4, <3>5
    <3>7. ASSUME NEW i \in D, NEW j \in D
          PROVE  SumOf([k \in D |-> Mul(inverse[i][k], system[k][j])]) = IF i = j THEN 1 ELSE 0
      BY <3>3, <3>5 DEF Inverts
    <3>8. InvertsSystem(inverse, system)
      BY <3>6, <3>7, Zenon DEF InvertsSystem
    <3> QED BY <3>1, <3>2, <3>8
  <2>4. /\ Cardinality(DOMAIN ws.inverses) <= CacheLimit
        /\ \A key \in DOMAIN ws.inverses : InvertsSystem(ws.inverses[key], SystemOf(key[1], key[2]))
    BY <2>1, <2>2, <2>3
  <2> QED BY <2>4, Zenon DEF CacheIsRight, InvertsSystem
<1> QED BY <1>1, CodecCorrect, PTL

(* A call that fails leaves the caller's array as it was, also when the     *)
(* failure shows only after the workspace was filled and repaired           *)
(* (decode.go:157).                                                         *)
THEOREM FailureKeepsOutput == Spec => FailedCallKeepsOutput
<1>1. CodecInv /\ [Next]_vars => [last'.error # "none" => dst' = dst]_vars
  <2>1. CodecInv /\ ReconstructTo => (last'.error # "none" => dst' = dst)
    BY CodecReconstructs
  <2>2. EncodeTo => dst' = dst
    BY DEF EncodeTo
  <2> QED BY <2>1, <2>2 DEF Next
<1> QED BY <1>1, CodecCorrect, PTL DEF Spec, FailedCallKeepsOutput
=============================================================================
