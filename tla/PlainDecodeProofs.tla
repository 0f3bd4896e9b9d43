--------------------------- MODULE PlainDecodeProofs ---------------------------
(***************************************************************************)
(* Theorems about the older format: what error correction takes for right, *)
(* and what ReconstructFile makes of the results, in whatever order.       *)
(***************************************************************************)
EXTENDS PlainDecode, WellFoundedInduction, FiniteSetTheorems, SequenceTheorems, TLAPS

-----------------------------------------------------------------------------
(* Induction and recursion: a set stands for the property *)

(* A set of numbers has a least one. *)
LEMMA LeastOf ==
  ASSUME NEW S \in SUBSET Nat, S # {}
  PROVE  \E i \in S : \A j \in S : i <= j
<1> DEFINE Less == {p \in Nat \X Nat : p[1] < p[2]}
<1>1. IsWellFoundedOn(Less, Nat)
  BY NatLessThanWellFounded DEF OpToRel
<1>2. PICK i \in S : \A j \in S : <<j, i>> \notin Less
  <2> HIDE DEF Less
  <2> QED BY <1>1, WFMin
<1>3. ASSUME NEW j \in S PROVE i <= j
  <2>1. i \in Nat /\ j \in Nat
    OBVIOUS
  <2>2. ~(j < i)
    BY <1>2, <2>1
  <2> QED BY <2>1, <2>2
<1> QED BY <1>3

(* What holds of 0, and of k + 1 if it holds of k, holds up to N. *)
LEMMA Induction ==
  ASSUME NEW N \in Nat, NEW S \in SUBSET (0..N),
         0 \in S, \A k \in S : k < N => k + 1 \in S
  PROVE  S = 0..N
<1> DEFINE T == (0..N) \ S
<1>1. SUFFICES ASSUME T # {} PROVE FALSE
  OBVIOUS
<1>2. T \in SUBSET Nat
  OBVIOUS
<1>3. PICK x \in T : \A y \in T : x <= y
  <2> HIDE DEF T
  <2> QED BY <1>1, <1>2, LeastOf
<1>4. x # 0 /\ x \in 0..N /\ x \notin S
  OBVIOUS
<1>5. PICK y \in 0..N : y = x - 1 /\ x = y + 1 /\ y < N
  BY <1>4
<1>6. y \in S
  <2>1. ~(x <= y)
    BY <1>4, <1>5
  <2>2. y \notin T
    BY <1>3, <2>1, Zenon
  <2> QED BY <1>5, <2>2
<1> QED BY <1>4, <1>5, <1>6

-----------------------------------------------------------------------------
(* Error correction *)

(* The codes are numbers, and the first one keeps parity back. *)
LEMMA CodeFacts ==
  /\ Len(Codes) \in Nat \ {0} /\ 1 \in 1..Len(Codes)
  /\ \A k \in 1..Len(Codes) : Codes[k].data \in Nat \ {0} /\ Codes[k].parity \in Nat \ {0}
  /\ SearchAbove \in Nat \ {0} /\ SearchLimit \in Nat \ {0} /\ SearchLimit <= SearchAbove
  /\ Codes[1].parity > SearchAbove
<1>1. Codes \in Seq([data : Nat \ {0}, parity : Nat \ {0}]) /\ Codes # <<>>
  BY CodeAssumption
<1>2. Len(Codes) \in Nat \ {0} /\ 1 \in 1..Len(Codes)
  BY <1>1
<1>3. ASSUME NEW k \in 1..Len(Codes)
      PROVE  Codes[k].data \in Nat \ {0} /\ Codes[k].parity \in Nat \ {0}
  <2>1. Codes[k] \in [data : Nat \ {0}, parity : Nat \ {0}]
    BY <1>1, ElementOfSeq
  <2> QED BY <2>1
<1> QED BY <1>2, <1>3, CodeAssumption

(* What is true of every buffer, whatever was written into it: the shard    *)
(* of a header that is not the frame's is damaged.                         *)
BufferOK(b) ==
  /\ b = Buffer(b.damaged, b.header, b.columns)
  /\ b.header # "sent" => 0 \in b.damaged

(* What a candidate must be to be taken for right. *)
IsRight(candidate) == candidate.header = "sent" /\ candidate.data

(* The shards of a code. *)
LEMMA ShardsFacts ==
  ASSUME NEW c, c.data \in Nat \ {0}, c.parity \in Nat \ {0}
  PROVE  /\ 0 \in Shards(c) /\ IsFiniteSet(Shards(c)) /\ Shards(c) \subseteq Nat
         /\ \A length \in 1..c.data : 0..(length - 1) \subseteq Shards(c)
<1>1. PICK top \in Nat : top = c.data + c.parity - 1
  OBVIOUS
<1>2. Shards(c) = 0..top
  BY <1>1 DEF Shards
<1>3. IsFiniteSet(0..top)
  BY <1>1, FS_Interval
<1>4. ASSUME NEW length \in 1..c.data PROVE 0..(length - 1) \subseteq 0..top
  BY <1>1
<1> QED BY <1>1, <1>2, <1>3, <1>4

(* Under the code the frame was drawn with some parity is always kept back, *)
(* so that only an erasure that covers the damage agrees.                  *)
LEMMA OwnAgreeing ==
  ASSUME NEW b, NEW c, c = Codes[1]
  PROVE  Agreeing(b, c, c = Codes[1]) =
           {e \in SUBSET Shards(c) : Cardinality(e) \in 1..SearchLimit /\ Damage(b, c) \subseteq e}
<1>1. MaxRepairErasures(c) = SearchLimit
  BY CodeFacts DEF MaxRepairErasures
<1>2. ASSUME NEW k \in 1..SearchLimit PROVE k # c.parity
  BY CodeFacts
<1> QED BY <1>1, <1>2 DEF Agreeing

(* With the own code only the sent header verifies, the search ends with   *)
(* every shard as it was drawn, and little damage does not defeat both.     *)
LEMMA OwnRepair ==
  ASSUME NEW b, BufferOK(b), NEW c, c = Codes[1]
  PROVE  LET own == c = Codes[1]
         IN  /\ Verifies(b, c, own) => b.header = "sent"
             /\ Repairs(b, c, own) => Repaired(b, c, own) = Buffer(b.damaged \ Shards(c), "sent", TRUE)
             /\ Cardinality(Damage(b, c)) <= SearchLimit => Verifies(b, c, own) \/ Repairs(b, c, own)
<1> DEFINE own == c = Codes[1]
           found == Agreeing(b, c, own)
           D == Damage(b, c)
<1>1. /\ 0 \in Shards(c) /\ IsFiniteSet(Shards(c))
      /\ SearchLimit \in Nat
  BY CodeFacts, ShardsFacts
<1>2. found = {e \in SUBSET Shards(c) : Cardinality(e) \in 1..SearchLimit /\ D \subseteq e}
  BY OwnAgreeing
<1>3. D \in SUBSET Shards(c) /\ IsFiniteSet(D) /\ Cardinality(D) \in Nat
  BY <1>1, FS_Subset, FS_CardinalityType DEF Damage
<1>4. Verifies(b, c, own) <=> D = {}
  BY DEF Verifies
<1>5. Verifies(b, c, own) => b.header = "sent"
  BY <1>1, <1>4 DEF BufferOK, Damage
<1>6. D # {} => Cardinality(D) \in Nat \ {0}
  BY <1>3, FS_EmptySet
<1>7. ASSUME Repairs(b, c, own)
      PROVE  Repaired(b, c, own) = Buffer(b.damaged \ Shards(c), "sent", TRUE)
  <2>1. D # {} /\ found # {}
    BY <1>4, <1>7 DEF Repairs
  <2>2. PICK e \in found : TRUE
    BY <2>1
  <2>3. ASSUME NEW o \in found PROVE o # D => Sooner(D, o)
    <3>1. o \in SUBSET Shards(c) /\ D \subseteq o
      BY <1>2
    <3>2. IsFiniteSet(o)
      BY <1>1, <3>1, FS_Subset
    <3>3. o # D => Cardinality(D) < Cardinality(o)
      <4>1. Cardinality(D) <= Cardinality(o) /\ (Cardinality(D) = Cardinality(o) => D = o)
        BY <3>1, <3>2, FS_Subset
      <4>2. Cardinality(o) \in Nat
        BY <3>2, FS_CardinalityType
      <4> QED BY <1>3, <4>1, <4>2
    <3> QED BY <3>3 DEF Sooner
  <2>4. D \in found
    <3>1. e \in SUBSET Shards(c) /\ Cardinality(e) \in 1..SearchLimit /\ D \subseteq e
      BY <1>2
    <3>2. Cardinality(D) <= Cardinality(e)
      BY <1>1, <3>1, FS_Subset
    <3>3. Cardinality(D) \in 1..SearchLimit
      BY <1>1, <1>3, <1>6, <2>1, <3>1, <3>2
    <3> QED BY <1>2, <1>3, <3>3
  <2> DEFINE Soonest(d) == \A o \in found \ {d} : Sooner(d, o)
             chosen == CHOOSE d \in found : Soonest(d)
  <2>5. chosen \in found
    <3>1. Soonest(D)
      BY <2>3
    <3> HIDE DEF Soonest
    <3> QED BY <2>4, <3>1
  <2>6. own /\ D \subseteq chosen
    BY <1>2, <2>5
  <2>7. Repaired(b, c, own) =
          IF own /\ D \subseteq chosen
          THEN Buffer(b.damaged \ Shards(c), "sent", TRUE)
          ELSE Buffer(b.damaged \cup chosen,
                      CASE 0 \notin chosen -> b.header
                        [] 0 \in chosen /\ (own /\ b.columns) -> "sent"
                        [] OTHER -> "none",
                      own /\ b.columns)
    BY Zenon DEF Repaired
  <2> HIDE DEF chosen, own, D
  <2> QED BY <2>6, <2>7
<1>8. ASSUME Cardinality(D) <= SearchLimit PROVE Verifies(b, c, own) \/ Repairs(b, c, own)
  <2>1. D # {} => Cardinality(D) \in 1..SearchLimit
    BY <1>1, <1>6, <1>8
  <2>2. D # {} => D \in found
    BY <1>2, <1>3, <2>1
  <2> QED BY <1>4, <2>2 DEF Repairs
<1> QED BY <1>5, <1>7, <1>8

(* A candidate whose header was sent, over data shards that are, is right. *)
LEMMA CandidateIsRight ==
  ASSUME NEW result, NEW b, NEW length, b.header = "sent", b.damaged \cap 0..(length - 1) = {}
  PROVE  Candidate(result, b, length).result = result /\ IsRight(Candidate(result, b, length))
<1>1. /\ Candidate(result, b, length).result = result
      /\ Candidate(result, b, length).header = b.header
  BY DEF Candidate
<1>2. Candidate(result, b, length).data = (b.damaged \cap 0..(length - 1) = {})
  BY Zenon DEF Candidate
<1>3. Candidate(result, b, length).data
  BY <1>2, Zenon
<1> QED BY <1>1, <1>3 DEF IsRight

(* With the code it was drawn with, what verifies is right, and damage that *)
(* is searched for is repaired.                                            *)
LEMMA OwnTry ==
  ASSUME NEW b, BufferOK(b), NEW c, c = Codes[1], NEW length \in 1..c.data
  PROVE  LET tried == TryDecodePayload(b, c, c = Codes[1], length)
         IN  /\ tried.result \in {"verified", "unverified", "error"}
             /\ tried.result = "verified" => IsRight(tried)
             /\ Cardinality(Damage(b, c)) <= SearchLimit => tried.result = "verified"
             /\ BufferOK(BufferAfter(b, c, c = Codes[1]))
<1> DEFINE own == c = Codes[1]
           tried == TryDecodePayload(b, c, own, length)
<1>1. c.data \in Nat \ {0} /\ c.parity \in Nat \ {0} /\ length \in Nat /\ length <= c.data
  BY CodeFacts
<1>2. 0..(length - 1) \subseteq Shards(c)
  BY <1>1, ShardsFacts
<1>3. /\ Verifies(b, c, own) => b.header = "sent"
      /\ Repairs(b, c, own) => Repaired(b, c, own) = Buffer(b.damaged \ Shards(c), "sent", TRUE)
      /\ Cardinality(Damage(b, c)) <= SearchLimit => Verifies(b, c, own) \/ Repairs(b, c, own)
  BY OwnRepair
<1>4. CASE Verifies(b, c, own)
  <2>1. tried = Candidate("verified", b, length)
    <3>1. ~Repairs(b, c, own)
      BY <1>4 DEF Repairs
    <3> HIDE DEF own
    <3> QED BY <1>4, <3>1 DEF TryDecodePayload
  <2>2. b.damaged \cap 0..(length - 1) = {}
    BY <1>2, <1>4 DEF Verifies, Damage
  <2>3. tried.result = "verified" /\ IsRight(tried)
    BY <1>3, <1>4, <2>1, <2>2, CandidateIsRight
  <2>4. BufferAfter(b, c, own) = b
    BY <1>4 DEF BufferAfter, Repairs
  <2> QED BY <2>3, <2>4
<1>5. CASE ~Verifies(b, c, own) /\ Repairs(b, c, own)
  <2>1. PICK after : after = Repaired(b, c, own)
    OBVIOUS
  <2>2. after = Buffer(b.damaged \ Shards(c), "sent", TRUE)
    BY <1>3, <1>5, <2>1
  <2>3. ParsePlainFrame(after, c, length)
    BY <1>1, <2>2 DEF ParsePlainFrame, Buffer
  <2>4. tried = Candidate("verified", after, length)
    BY <1>5, <2>1, <2>3 DEF TryDecodePayload
  <2>5. after.damaged \cap 0..(length - 1) = {}
    BY <1>2, <2>2 DEF Buffer
  <2>6. tried.result = "verified" /\ IsRight(tried)
    BY <2>2, <2>4, <2>5, CandidateIsRight DEF Buffer
  <2>7. BufferAfter(b, c, own) = after
    BY <1>5, <2>1 DEF BufferAfter
  <2>8. BufferOK(after)
    BY <2>2 DEF BufferOK, Buffer
  <2> QED BY <2>6, <2>7, <2>8
<1>6. CASE ~Verifies(b, c, own) /\ ~Repairs(b, c, own)
  <2>1. tried = IF ParsePlainFrame(b, c, length) THEN Candidate("unverified", b, length) ELSE NoCandidate
    BY <1>6 DEF TryDecodePayload
  <2>2. tried.result \in {"unverified", "error"}
    BY <2>1 DEF Candidate, NoCandidate
  <2>3. BufferAfter(b, c, own) = b
    BY <1>6 DEF BufferAfter
  <2> QED BY <1>3, <1>6, <2>2, <2>3
<1> QED BY <1>4, <1>5, <1>6

(* Under another code the first shards are erased first, and with them the  *)
(* header: it makes no frame up.                                           *)
LEMMA ForeignTry ==
  ASSUME NEW b, BufferOK(b), NEW c, c # Codes[1], c.data \in Nat \ {0}, c.parity \in Nat \ {0},
         NEW length
  PROVE  LET tried == TryDecodePayload(b, c, c = Codes[1], length)
         IN  /\ tried.result \in {"unverified", "error"}
             /\ BufferOK(BufferAfter(b, c, c = Codes[1]))
<1> DEFINE own == c = Codes[1]
           found == Agreeing(b, c, own)
           tried == TryDecodePayload(b, c, own, length)
<1>1. ~Verifies(b, c, own)
  BY DEF Verifies
<1>2. found = {e \in SUBSET Shards(c) :
                 Cardinality(e) \in 1..MaxRepairErasures(c) /\ Cardinality(e) = c.parity}
  BY DEF Agreeing
<1>3. ASSUME Repairs(b, c, own)
      PROVE  \E e \in SUBSET Shards(c) :
               /\ 0 \in e
               /\ Repaired(b, c, own) = Buffer(b.damaged \cup e, "none", own /\ b.columns)
  <2>1. PICK first : first = 0..(c.parity - 1)
    OBVIOUS
  <2>2. first \in SUBSET Shards(c) /\ 0 \in first
    BY <2>1 DEF Shards
  <2>3. Cardinality(first) = c.parity
    <3>1. PICK top \in Int, zero \in Int : top = c.parity - 1 /\ zero = 0
      OBVIOUS
    <3>2. Cardinality(zero..top) = IF zero > top THEN 0 ELSE top - zero + 1
      BY <3>1, FS_Interval
    <3>3. ~(zero > top) /\ top - zero + 1 = c.parity
      BY <3>1
    <3>4. Cardinality(zero..top) = c.parity
      BY <3>2, <3>3, Zenon
    <3> QED BY <2>1, <3>1, <3>4
  <2>4. first \in found
    <3>1. found # {}
      BY <1>3 DEF Repairs
    <3>2. PICK e \in found : TRUE
      BY <3>1
    <3>3. c.parity \in 1..MaxRepairErasures(c)
      BY <1>2, <3>2
    <3> QED BY <1>2, <2>2, <2>3, <3>3
  <2> DEFINE Soonest(d) == \A o \in found \ {d} : Sooner(d, o)
             chosen == CHOOSE d \in found : Soonest(d)
  <2>5. ASSUME NEW o \in found \ {first} PROVE Sooner(first, o)
    <3>1. o \in SUBSET Shards(c) /\ Cardinality(o) = c.parity /\ o # first
      BY <1>2, <2>5
    <3>2. PICK i \in first \ o : \A j \in first \ o : i <= j
      <4>1. first \ o # {}
        <5> SUFFICES ASSUME first \subseteq o PROVE FALSE
          OBVIOUS
        <5>1. IsFiniteSet(o)
          BY <3>1, ShardsFacts, FS_Subset
        <5> QED BY <2>3, <3>1, <5>1, FS_Subset
      <4>2. first \ o \subseteq Nat
        BY <2>1
      <4> QED BY <4>1, <4>2, LeastOf
    <3>3. ASSUME NEW j \in o \ first PROVE i <= j
      <4>1. j \in Nat
        BY <3>1, ShardsFacts
      <4>2. i \in Nat /\ i <= c.parity - 1 /\ ~(j <= c.parity - 1)
        BY <2>1, <4>1
      <4> QED BY <4>1, <4>2
    <3> QED BY <2>3, <3>1, <3>2, <3>3 DEF Sooner
  <2>6. chosen \in found /\ Soonest(chosen)
    <3>1. Soonest(first)
      BY <2>5
    <3> HIDE DEF Soonest
    <3> QED BY <2>4, <3>1
  <2>7. 0 \in chosen
    <3> HIDE DEF chosen
    <3> SUFFICES ASSUME 0 \notin chosen PROVE FALSE
      OBVIOUS
    <3>1. chosen # first /\ first \in found \ {chosen}
      BY <2>2, <2>4
    <3>2. Sooner(chosen, first)
      BY <2>6, <3>1
    <3>3. Cardinality(chosen) = Cardinality(first) /\ Cardinality(first) \in Nat
      BY <1>2, <2>3, <2>6
    <3>4. PICK i \in chosen \ first : \A j \in (chosen \ first) \cup (first \ chosen) : i <= j
      BY <3>2, <3>3 DEF Sooner
    <3>5. i <= 0
      BY <2>2, <3>4
    <3>6. i \in Nat
      BY <1>2, <2>6, ShardsFacts
    <3>7. i = 0
      BY <3>5, <3>6
    <3> QED BY <3>4, <3>7
  <2>8. Repaired(b, c, own) =
          IF own /\ Damage(b, c) \subseteq chosen
          THEN Buffer(b.damaged \ Shards(c), "sent", TRUE)
          ELSE Buffer(b.damaged \cup chosen,
                      CASE 0 \notin chosen -> b.header
                        [] 0 \in chosen /\ (own /\ b.columns) -> "sent"
                        [] OTHER -> "none",
                      own /\ b.columns)
    BY Zenon DEF Repaired
  <2>9. chosen \in SUBSET Shards(c)
    BY <1>2, <2>6
  <2> HIDE DEF chosen
  <2>10. Repaired(b, c, own) = Buffer(b.damaged \cup chosen, "none", own /\ b.columns)
    BY <2>7, <2>8
  <2> QED BY <2>7, <2>9, <2>10
<1>4. CASE Repairs(b, c, own)
  <2>1. PICK e \in SUBSET Shards(c) :
          0 \in e /\ Repaired(b, c, own) = Buffer(b.damaged \cup e, "none", own /\ b.columns)
    BY <1>3, <1>4
  <2>2. PICK after : after = Repaired(b, c, own)
    OBVIOUS
  <2>3. after.header = "none" /\ after = Buffer(after.damaged, after.header, after.columns)
        /\ 0 \in after.damaged
    BY <2>1, <2>2 DEF Buffer
  <2>4. ~ParsePlainFrame(after, c, length)
    BY <2>3 DEF ParsePlainFrame
  <2>5. tried = IF ParsePlainFrame(b, c, length) THEN Candidate("unverified", b, length) ELSE NoCandidate
    <3> HIDE DEF own
    <3> QED BY <1>1, <2>2, <2>4 DEF TryDecodePayload
  <2>6. tried.result \in {"unverified", "error"}
    BY <2>5 DEF Candidate, NoCandidate
  <2>7. BufferOK(BufferAfter(b, c, own))
    BY <1>4, <2>2, <2>3 DEF BufferAfter, BufferOK
  <2> QED BY <2>6, <2>7
<1>5. CASE ~Repairs(b, c, own)
  <2>1. tried = IF ParsePlainFrame(b, c, length) THEN Candidate("unverified", b, length) ELSE NoCandidate
    <3> HIDE DEF own
    <3> QED BY <1>1, <1>5 DEF TryDecodePayload
  <2>2. tried.result \in {"unverified", "error"}
    BY <2>1 DEF Candidate, NoCandidate
  <2>3. BufferAfter(b, c, own) = b
    BY <1>5 DEF BufferAfter
  <2> QED BY <2>2, <2>3
<1> QED BY <1>4, <1>5

(* One code after the other. *)
LEMMA TryCodeFacts ==
  ASSUME NEW acc, BufferOK(acc.buffer), NEW c, c \in {Codes[k] : k \in 1..Len(Codes)},
         NEW length \in 1..Codes[1].data,
         acc = [buffer |-> acc.buffer, kept |-> acc.kept],
         acc.kept.result \in {"verified", "unverified", "error"},
         acc.kept.result = "verified" => IsRight(acc.kept)
  PROVE  LET next == TryCode(acc, c, length)
         IN  /\ next = [buffer |-> next.buffer, kept |-> next.kept]
             /\ BufferOK(next.buffer)
             /\ next.kept.result \in {"verified", "unverified", "error"}
             /\ next.kept.result = "verified" => IsRight(next.kept)
             /\ acc.kept.result = "verified" => next.kept.result = "verified"
             /\ (acc.kept.result = "error" /\ c = Codes[1]
                 /\ Cardinality(Damage(acc.buffer, c)) <= SearchLimit) =>
                   next.kept.result = "verified"
<1> DEFINE own == c = Codes[1]
           next == TryCode(acc, c, length)
<1>1. c.data \in Nat \ {0} /\ c.parity \in Nat \ {0}
  BY CodeFacts
<1>2. PICK tried : tried = TryDecodePayload(acc.buffer, c, own, length)
  OBVIOUS
<1>3. PICK after : after = BufferAfter(acc.buffer, c, own)
  OBVIOUS
<1>4. /\ tried.result \in {"verified", "unverified", "error"}
      /\ tried.result = "verified" => IsRight(tried)
      /\ BufferOK(after)
      /\ c = Codes[1] /\ Cardinality(Damage(acc.buffer, c)) <= SearchLimit =>
           tried.result = "verified"
  <2>1. CASE c = Codes[1]
    BY <1>2, <1>3, <2>1, OwnTry
  <2>2. CASE c # Codes[1]
    <3>1. /\ TryDecodePayload(acc.buffer, c, own, length).result \in {"unverified", "error"}
          /\ BufferOK(BufferAfter(acc.buffer, c, own))
      BY <1>1, <2>2, ForeignTry, Zenon
    <3>2. tried.result \in {"unverified", "error"} /\ BufferOK(after)
      BY <1>2, <1>3, <3>1, Zenon
    <3> QED BY <2>2, <3>2
  <2> QED BY <2>1, <2>2
<1>5. next = CASE acc.kept.result = "verified" -> acc
               [] acc.kept.result = "unverified" /\ tried.result # "verified" ->
                    [acc EXCEPT !.buffer = BufferAfter(@, c, own)]
               [] OTHER -> [buffer |-> BufferAfter(acc.buffer, c, own), kept |-> tried]
  BY <1>2, Zenon DEF TryCode
<1> HIDE DEF own, next
<1>6. CASE acc.kept.result = "verified"
  <2>1. next = acc
    BY <1>5, <1>6
  <2> QED BY <1>6, <2>1 DEF next
<1>7. CASE acc.kept.result = "unverified" /\ tried.result # "verified"
  <2>1. next = [buffer |-> after, kept |-> acc.kept]
    BY <1>3, <1>5, <1>7
  <2> QED BY <1>4, <1>7, <2>1 DEF next
<1>8. CASE \/ acc.kept.result = "error"
           \/ acc.kept.result = "unverified" /\ tried.result = "verified"
  <2>1. next = [buffer |-> after, kept |-> tried]
    BY <1>3, <1>5, <1>8
  <2>2. /\ next.buffer = after /\ next.kept = tried
        /\ next = [buffer |-> next.buffer, kept |-> next.kept]
    BY <2>1
  <2>3. acc.kept.result # "verified"
    BY <1>8
  <2>4. /\ BufferOK(next.buffer)
        /\ next.kept.result \in {"verified", "unverified", "error"}
        /\ next.kept.result = "verified" => IsRight(next.kept)
        /\ c = Codes[1] /\ Cardinality(Damage(acc.buffer, c)) <= SearchLimit =>
             next.kept.result = "verified"
    BY <1>4, <2>2, Zenon
  <2> QED BY <2>2, <2>3, <2>4, Zenon DEF next
<1> QED BY <1>4, <1>6, <1>7, <1>8

(* What is taken for right is right, and what is searched for is found.     *)
LEMMA TryCodesFacts ==
  ASSUME NEW b \in Buffers, NEW length \in 1..Codes[1].data
  PROVE  LET kept == TryCodes(b, length)
         IN  /\ kept.result \in {"verified", "unverified", "error"}
             /\ kept.result = "verified" => IsRight(kept)
             /\ Correctable(b) => kept.result = "verified"
<1>1. PICK N \in Nat \ {0} : N = Len(Codes) /\ 1 \in 1..N
  BY CodeFacts
<1> DEFINE start == [buffer |-> b, kept |-> NoCandidate]
           Goes(g, m) == g = [k \in 0..m |-> IF k = 0 THEN start
                                            ELSE TryCode(g[k - 1], Codes[k], length)]
           after == CHOOSE g : Goes(g, N)
           E == {m \in 0..N : \E g : Goes(g, m)}
<1>2. 0 \in E
  <2>1. PICK g : g = [k \in 0..0 |-> start]
    OBVIOUS
  <2>2. Goes(g, 0)
    BY <2>1
  <2> QED BY <2>2
<1>3. ASSUME NEW m \in E, m < N PROVE m + 1 \in E
  <2>1. m \in 0..N /\ m + 1 \in 0..N /\ \E g : Goes(g, m)
    BY <1>3
  <2>2. PICK g : Goes(g, m)
    BY <2>1
  <2>3. PICK h : h = [k \in 0..(m + 1) |-> IF k = m + 1 THEN TryCode(g[m], Codes[m + 1], length)
                                          ELSE g[k]]
    OBVIOUS
  <2>4. \A k \in 0..m : g[k] = IF k = 0 THEN start ELSE TryCode(g[k - 1], Codes[k], length)
    <3> HIDE DEF start
    <3> QED BY <2>2
  <2>5. \A k \in 0..m : k \in 0..(m + 1) /\ k # m + 1 /\ h[k] = g[k]
    BY <2>1, <2>3
  <2>6. ASSUME NEW k \in 0..(m + 1)
        PROVE  h[k] = IF k = 0 THEN start ELSE TryCode(h[k - 1], Codes[k], length)
    <3> HIDE DEF start
    <3>1. CASE k \in 0..m
      <4>1. k # 0 => k - 1 \in 0..m
        BY <2>1, <3>1
      <4> QED BY <2>4, <2>5, <3>1, <4>1
    <3>2. CASE k = m + 1
      <4>1. k # 0 /\ k - 1 = m /\ m \in 0..m
        BY <2>1, <3>2
      <4>2. h[k] = TryCode(g[m], Codes[m + 1], length)
        BY <2>3, <3>2
      <4> QED BY <2>5, <3>2, <4>1, <4>2
    <3>3. k \in 0..m \/ k = m + 1
      BY <2>1
    <3> QED BY <3>1, <3>2, <3>3
  <2>7. Goes(h, m + 1)
    <3> HIDE DEF start
    <3>1. h = [k \in 0..(m + 1) |-> h[k]]
      BY <2>3
    <3> QED BY <2>6, <3>1
  <2> HIDE DEF Goes
  <2> QED BY <2>1, <2>7
<1>4. N \in E
  <2>1. E \in SUBSET (0..N)
    OBVIOUS
  <2>2. N \in 0..N
    OBVIOUS
  <2> HIDE DEF E
  <2> QED BY <1>2, <1>3, <2>1, <2>2, Induction
<1>5. Goes(after, N)
  <2>1. \E g : Goes(g, N)
    BY <1>4
  <2> HIDE DEF Goes
  <2> QED BY <2>1
<1>6. TryCodes(b, length) = after[N].kept
  BY <1>1, Zenon DEF TryCodes
<1>7. \A k \in 0..N : after[k] = IF k = 0 THEN start ELSE TryCode(after[k - 1], Codes[k], length)
  <2>1. PICK g : g = after
    OBVIOUS
  <2>2. Goes(g, N)
    BY <1>5, <2>1
  <2> HIDE DEF start, after
  <2>3. \A k \in 0..N : g[k] = IF k = 0 THEN start ELSE TryCode(g[k - 1], Codes[k], length)
    BY <2>2
  <2> QED BY <2>1, <2>3
<1> HIDE DEF after, Goes
<1> DEFINE Fine(acc) ==
             /\ acc = [buffer |-> acc.buffer, kept |-> acc.kept]
             /\ BufferOK(acc.buffer)
             /\ acc.kept.result \in {"verified", "unverified", "error"}
             /\ acc.kept.result = "verified" => IsRight(acc.kept)
           Found(acc) == Correctable(b) => acc.kept.result = "verified"
           S == {k \in 0..N : Fine(after[k]) /\ (k # 0 => Found(after[k]))}
<1>8. Fine(start) /\ start.kept.result = "error"
  <2>1. BufferOK(b)
    BY DEF BufferOK, Buffers, Buffer
  <2> QED BY <2>1 DEF NoCandidate
<1>9. ASSUME NEW k \in 0..N, k < N, Fine(after[k]), k # 0 => Found(after[k])
      PROVE  Fine(after[k + 1]) /\ Found(after[k + 1])
  <2>1. k + 1 \in 0..N /\ k + 1 # 0 /\ (k + 1) - 1 = k /\ k + 1 \in 1..N
    BY <1>9
  <2>2. PICK c : c = Codes[k + 1] /\ c \in {Codes[j] : j \in 1..Len(Codes)}
    BY <1>1, <2>1
  <2>3. PICK acc : acc = after[k]
    OBVIOUS
  <2>4. after[k + 1] = TryCode(acc, c, length)
    <3> HIDE DEF start
    <3> QED BY <1>7, <2>1, <2>2, <2>3
  <2>5. /\ Fine(TryCode(acc, c, length))
        /\ acc.kept.result = "verified" => TryCode(acc, c, length).kept.result = "verified"
        /\ (acc.kept.result = "error" /\ c = Codes[1]
            /\ Cardinality(Damage(acc.buffer, c)) <= SearchLimit) =>
              TryCode(acc, c, length).kept.result = "verified"
    BY <1>9, <2>2, <2>3, TryCodeFacts
  <2>6. CASE k = 0
    <3>1. acc = start /\ c = Codes[1]
      BY <1>1, <1>7, <2>2, <2>3, <2>6
    <3>2. Damage(b, c) = b.damaged
      BY <3>1 DEF Damage, Buffers, Buffer
    <3>3. MaxRepairErasures(c) = SearchLimit
      BY <3>1, CodeFacts DEF MaxRepairErasures
    <3>4. Correctable(b) => Cardinality(Damage(acc.buffer, c)) <= SearchLimit
      BY <3>1, <3>2, <3>3 DEF Correctable
    <3> QED BY <1>8, <2>4, <2>5, <3>1, <3>4
  <2>7. CASE k # 0
    BY <1>9, <2>3, <2>4, <2>5, <2>7
  <2> QED BY <2>6, <2>7
<1>10. S = 0..N
  <2>1. S \in SUBSET (0..N)
    OBVIOUS
  <2>2. 0 \in S
    <3>1. 0 \in 0..N /\ after[0] = start
      BY <1>7
    <3> HIDE DEF Fine, Found, start
    <3> QED BY <1>8, <3>1
  <2>3. ASSUME NEW k \in S, k < N PROVE k + 1 \in S
    <3> HIDE DEF Fine, Found
    <3>1. k \in 0..N /\ k + 1 \in 0..N /\ Fine(after[k]) /\ (k # 0 => Found(after[k]))
      BY <2>3
    <3> QED BY <1>9, <2>3, <3>1
  <2> HIDE DEF S
  <2> QED BY <2>1, <2>2, <2>3, Induction
<1>11. Fine(after[N]) /\ Found(after[N])
  <2>1. N \in S /\ N # 0
    <3> HIDE DEF S
    <3>1. N \in 0..N
      OBVIOUS
    <3> QED BY <1>10, <3>1
  <2> HIDE DEF Fine, Found
  <2> QED BY <2>1
<1> QED BY <1>6, <1>11

-----------------------------------------------------------------------------
(* Frames, results and images *)

Frames == [index : 0..(MaxFrames - 1), total : 1..MaxFrames, data : Seq(Int)]

Sent == PayloadFrames \cup PaddingFrames

Candidates == {Error} \cup {Verified(f) : f \in Frames} \cup {Unverified(f) : f \in Frames}

(* What an attempt may make of an image of f. *)
ResultOK(r, f) ==
  \/ r = Verified(f)
  \/ r = Error
  \/ \E g \in Frames : r = Unverified(g)

ImageOK(i) ==
  /\ \A k \in DOMAIN i.attempts : ResultOK(i.attempts[k], i.of)
  /\ i.correctable => \E k \in DOMAIN i.attempts : i.attempts[k] = Verified(i.of)

Images == {i \in [of : Sent, attempts : Seq(Candidates), correctable : BOOLEAN] : ImageOK(i)}

(* A frame holds bytes, and a video some frames with indexes in range.     *)
LEMMA CapacityFacts ==
  /\ Capacity \in Nat \ {0} /\ Codes[1].data = Capacity + 1 /\ MaxFrames \in Nat
  /\ \A n \in Sizes : FrameCount(n) \in Nat \ {0} /\ FrameCount(n) <= MaxFrames
  /\ Sizes \subseteq Nat /\ Paddings \subseteq 0..MaxFrames
<1>1. Codes[1].data \in Nat
  BY CodeFacts
<1>2. Capacity \in Nat \ {0} /\ Codes[1].data = Capacity + 1
  BY <1>1, PlainAssumption DEF Capacity
<1>3. ASSUME NEW n \in Sizes PROVE FrameCount(n) \in Nat \ {0} /\ FrameCount(n) <= MaxFrames
  <2>1. n \in Nat
    BY PlainAssumption
  <2>2. PICK C \in Nat \ {0} : C = Capacity
    BY <1>2
  <2>3. PICK rest \in Nat : rest = IF n > C THEN n - C ELSE 0
    <3>1. n > C => n - C \in Nat
      BY <2>1, <2>2
    <3> QED BY <3>1
  <2>4. FrameCount(n) = 1 + (rest + C - 1) \div C
    BY <2>2, <2>3 DEF FrameCount
  <2>5. PICK a \in Nat : a = rest + C - 1
    BY <2>2, <2>3
  <2>6. PICK q \in Nat : q = a \div C
    BY <2>2, <2>5
  <2>7. FrameCount(n) = 1 + q
    BY <2>4, <2>5, <2>6
  <2> QED BY <2>7, PlainAssumption
<1> QED BY <1>2, <1>3, PlainAssumption

(* The slices of the payload: numbers that follow each other. *)
Offset(i) == i * Capacity

LEMMA FrameDataFacts ==
  ASSUME NEW n \in Nat, NEW i \in Nat
  PROVE  /\ FrameData(n, i) \in Seq(Int)
         /\ Len(FrameData(n, i)) \in Nat /\ Len(FrameData(n, i)) <= Capacity
         /\ \A k \in 1..Len(FrameData(n, i)) :
              FrameData(n, i)[k] = Offset(i) + k /\ Offset(i) + k <= n
         /\ Offset(i) \in Nat
         /\ Len(FrameData(n, i)) = IF Offset(i) >= n THEN 0
                                   ELSE Smaller(Offset(i) + Capacity, n) - Offset(i)
<1>1. PICK C \in Nat \ {0} : C = Capacity
  BY CapacityFacts
<1>2. PICK s \in Nat : s = i * C /\ s = Offset(i) /\ s = i * Capacity
  BY <1>1 DEF Offset
<1>3. PICK m \in Nat : m = IF s >= n THEN 0 ELSE Smaller(s + C, n) - s
  <2>1. PICK e \in Nat : e = Smaller(s + C, n)
    BY <1>1, <1>2 DEF Smaller
  <2>2. ~(s >= n) => e - s \in Nat
    BY <1>1, <1>2, <2>1 DEF Smaller
  <2> QED BY <2>1, <2>2
<1>4. FrameData(n, i) = [k \in 1..m |-> s + k]
  <2>1. CASE s >= n
    <3>1. FrameData(n, i) = <<>> /\ m = 0
      BY <1>1, <1>2, <1>3, <2>1 DEF FrameData
    <3>2. [k \in 1..m |-> s + k] = <<>>
      BY <3>1
    <3> QED BY <3>1, <3>2
  <2>2. CASE ~(s >= n)
    BY <1>1, <1>2, <1>3, <2>2 DEF FrameData
  <2> QED BY <2>1, <2>2
<1>5. [k \in 1..m |-> s + k] \in Seq(Int) /\ Len([k \in 1..m |-> s + k]) = m
  <2>1. PICK d \in [1..m -> Int] : d = [k \in 1..m |-> s + k]
    <3>1. \A k \in 1..m : s + k \in Int
      OBVIOUS
    <3> QED BY <3>1
  <2>2. d \in Seq(Int) /\ Len(d) = m
    OBVIOUS
  <2> QED BY <2>1, <2>2
<1>6. m <= C /\ (m # 0 => s + m <= n)
  BY <1>1, <1>2, <1>3 DEF Smaller
<1>7. ASSUME NEW k \in 1..m PROVE FrameData(n, i)[k] = s + k /\ s + k <= n
  BY <1>4, <1>6
<1> QED BY <1>1, <1>2, <1>3, <1>4, <1>5, <1>6, <1>7

(* The frames of a video are frames, and fit into the data shards.        *)
LEMMA SentFacts ==
  ASSUME size \in Sizes, padding \in Paddings, NEW f \in Sent
  PROVE  f \in Frames /\ Length(f) \in 1..Codes[1].data /\ DOMAIN f.data = 1..Len(f.data)
<1>1. PICK M \in Nat, C \in Nat \ {0} : M = MaxFrames /\ C = Capacity /\ Codes[1].data = C + 1
  BY CapacityFacts
<1>2. CASE f \in PayloadFrames
  <2>1. PICK F \in Nat \ {0} : F = FrameCount(size) /\ F <= M
    BY <1>1, CapacityFacts
  <2>2. PICK i \in 0..(F - 1) : f = PlainFrame(i, F, FrameData(size, i))
    BY <1>2, <2>1 DEF PayloadFrames
  <2>3. i \in Nat /\ size \in Nat
    BY CapacityFacts
  <2>4. FrameData(size, i) \in Seq(Int) /\ Len(FrameData(size, i)) \in Nat /\ Len(FrameData(size, i)) <= C
    BY <1>1, <2>3, FrameDataFacts
  <2>5. f.index = i /\ f.total = F /\ f.data = FrameData(size, i)
    BY <2>2 DEF PlainFrame
  <2>6. f \in Frames
    BY <1>1, <2>1, <2>2, <2>4 DEF Frames, PlainFrame
  <2>7. Length(f) \in 1..Codes[1].data
    BY <1>1, <2>4, <2>5 DEF Length
  <2> QED BY <2>4, <2>5, <2>6, <2>7
<1>3. CASE f \in PaddingFrames
  <2>1. PICK i \in 0..(padding - 1) : f = PlainFrame(i, padding, [k \in 1..Capacity |-> Noise])
    BY <1>3 DEF PaddingFrames
  <2>2. PICK data : data = [k \in 1..C |-> Noise]
    OBVIOUS
  <2>3. data \in Seq(Int) /\ Len(data) = C
    BY <2>2 DEF Noise
  <2>4. f = PlainFrame(i, padding, data)
    BY <1>1, <2>1, <2>2
  <2>5. padding \in 0..M /\ i \in 0..(padding - 1)
    BY <1>1, CapacityFacts
  <2>6. f \in Frames
    BY <1>1, <2>3, <2>4, <2>5 DEF Frames, PlainFrame
  <2>7. Length(f) \in 1..Codes[1].data
    BY <1>1, <2>3, <2>4 DEF Length, PlainFrame
  <2>8. DOMAIN f.data = 1..Len(f.data)
    BY <2>3, <2>4 DEF PlainFrame
  <2> QED BY <2>6, <2>7, <2>8
<1> QED BY <1>2, <1>3 DEF Sent

(* What an outcome of error correction lets an attempt return. *)
LEMMA ReadingsFacts ==
  ASSUME NEW f \in Frames, NEW c, c.result \in {"verified", "unverified", "error"},
         c.result = "verified" => IsRight(c), NEW r \in Readings(f, c)
  PROVE  ResultOK(r, f) /\ r \in Candidates /\ (c.result = "verified" => r = Verified(f))
<1> DEFINE frames == CASE c.header = "sent" /\ c.data -> {f}
                       [] c.header = "sent" /\ ~c.data -> {Damaged(f)}
                       [] OTHER -> Misread(f)
<1>1. Readings(f, c) = CASE c.result = "verified" -> {Verified(g) : g \in frames}
                         [] c.result = "unverified" -> {Unverified(g) : g \in frames}
                         [] OTHER -> {Error}
  BY Zenon DEF Readings
<1>2. ASSUME IsRight(c) PROVE frames = {f}
  <2>1. c.header = "sent" /\ c.data
    BY <1>2, Zenon DEF IsRight
  <2>2. c.header = "sent" /\ ~c.data <=> FALSE
    BY <2>1, Zenon
  <2>3. frames = CASE TRUE -> {f} [] FALSE -> {Damaged(f)} [] OTHER -> Misread(f)
    BY <2>1, <2>2
  <2> QED BY <2>3
<1>3. ASSUME ~IsRight(c) PROVE frames = {Damaged(f)} \/ frames = Misread(f)
  <2>1. ~(c.header = "sent" /\ c.data)
    BY <1>3, Zenon DEF IsRight
  <2> QED BY <2>1
<1>4. f.index \in 0..(MaxFrames - 1) /\ f.total \in 1..MaxFrames /\ f.data \in Seq(Int)
  BY DEF Frames
<1>5. PICK junk : junk = [k \in DOMAIN f.data |-> Junk]
  OBVIOUS
<1>6. junk \in Seq(Int)
  <2>1. PICK m \in Nat : DOMAIN f.data = 1..m
    BY <1>4
  <2> QED BY <1>5, <2>1 DEF Junk
<1>7. Damaged(f) \in Frames
  BY <1>4, <1>5, <1>6 DEF Damaged, Frames
<1>8. \A g \in Misread(f) : g \in Frames
  <2>1. \A i \in 0..(MaxFrames - 1) : PlainFrame(i, f.total, junk) \in Frames
    BY <1>4, <1>6 DEF Frames, PlainFrame
  <2>2. \A t \in 1..MaxFrames : PlainFrame(f.index, t, junk) \in Frames
    BY <1>4, <1>6 DEF Frames, PlainFrame
  <2> HIDE DEF Frames
  <2> QED BY <1>5, <2>1, <2>2 DEF Misread
<1>9. \A g \in frames : g \in Frames
  BY <1>2, <1>3, <1>7, <1>8
<1> HIDE DEF frames
<1>10. CASE c.result = "verified"
  <2>1. r \in {Verified(g) : g \in {f}}
    BY <1>1, <1>2, <1>10
  <2> QED BY <2>1 DEF ResultOK, Candidates
<1>11. CASE c.result = "unverified"
  <2>1. r \in {Unverified(g) : g \in frames}
    BY <1>1, <1>11
  <2> QED BY <1>9, <1>11, <2>1 DEF ResultOK, Candidates
<1>12. CASE c.result = "error"
  <2>1. r = Error
    BY <1>1, <1>12
  <2> QED BY <1>12, <2>1 DEF ResultOK, Candidates
<1> QED BY <1>10, <1>11, <1>12

(* What comes back of a frame. *)
LEMMA ImagesOfFrame ==
  ASSUME size \in Sizes, padding \in Paddings, NEW f \in Sent
  PROVE  /\ \A i \in UnharmedImages(f) \cup HarmedImages(f) :
              i \in Images /\ i.of = f /\ i.attempts \in Seq(Candidates)
         /\ \A i \in UnharmedImages(f) : i.correctable
<1>1. f \in Frames /\ Length(f) \in 1..Codes[1].data
  BY SentFacts
<1>2. ASSUME NEW b \in Buffers, NEW r \in Readings(f, TryCodes(b, Length(f)))
      PROVE  ResultOK(r, f) /\ r \in Candidates /\ (Correctable(b) => r = Verified(f))
  <2>1. PICK kept : kept = TryCodes(b, Length(f))
    OBVIOUS
  <2>2. /\ kept.result \in {"verified", "unverified", "error"}
        /\ kept.result = "verified" => IsRight(kept)
        /\ Correctable(b) => kept.result = "verified"
    BY <1>1, <2>1, TryCodesFacts
  <2>3. r \in Readings(f, kept)
    BY <2>1
  <2> QED BY <1>1, <2>2, <2>3, ReadingsFacts
<1>3. ASSUME NEW r, NEW correctable \in BOOLEAN, r \in Candidates, ResultOK(r, f),
             correctable => r = Verified(f), NEW i, i = Image(f, <<r>>, correctable)
      PROVE  i \in Images /\ i.of = f /\ i.attempts \in Seq(Candidates) /\ i.correctable = correctable
  <2>1. PICK a : a = <<r>>
    OBVIOUS
  <2>2. a \in Seq(Candidates) /\ DOMAIN a = {1} /\ a[1] = r
    BY <1>3, <2>1
  <2>3. /\ i.of = f /\ i.attempts = a /\ i.correctable = correctable
        /\ i \in [of : Sent, attempts : Seq(Candidates), correctable : BOOLEAN]
    <3> HIDE DEF Sent, Candidates
    <3> QED BY <1>3, <2>1, <2>2 DEF Image
  <2>4. ImageOK(i)
    BY <1>3, <2>2, <2>3 DEF ImageOK
  <2> QED BY <2>2, <2>3, <2>4 DEF Images
<1>4. ASSUME NEW i \in UnharmedImages(f)
      PROVE  i \in Images /\ i.of = f /\ i.attempts \in Seq(Candidates) /\ i.correctable
  <2>1. PICK r \in Readings(f, TryCodes(Intact, Length(f))) : i = Image(f, <<r>>, TRUE)
    BY DEF UnharmedImages
  <2>2. Intact \in Buffers /\ Intact.damaged = {}
    <3>1. {} \in SUBSET Shards(Codes[1]) /\ "sent" \in {"sent", "other", "none"} /\ TRUE \in BOOLEAN
      OBVIOUS
    <3>2. Intact.header = "sent" /\ Intact.damaged = {} /\ Intact.columns
      BY DEF Intact, Buffer
    <3> DEFINE All == {Buffer(d, h, s) : d \in SUBSET Shards(Codes[1]),
                       h \in {"sent", "other", "none"}, s \in BOOLEAN}
    <3>3. Intact \in All
      <4>1. PICK d \in SUBSET Shards(Codes[1]), h \in {"sent", "other", "none"}, s \in BOOLEAN :
              d = {} /\ h = "sent" /\ s = TRUE
        BY <3>1, Zenon
      <4>2. Buffer(d, h, s) \in All
        OBVIOUS
      <4>3. Intact = Buffer(d, h, s)
        BY <4>1, Zenon DEF Intact
      <4> QED BY <4>2, <4>3
    <3> HIDE DEF All
    <3>4. Buffers = {b \in All : /\ b.header # "sent" => 0 \in b.damaged
                                 /\ ~b.columns => b.damaged # {}}
      BY DEF Buffers, All
    <3>5. ~Intact.columns => Intact.damaged # {}
      BY <3>2, Zenon
    <3>6. Intact.header # "sent" => 0 \in Intact.damaged
      BY <3>2
    <3>7. Intact \in Buffers
      BY <3>3, <3>4, <3>5, <3>6, Zenon
    <3> QED BY <3>2, <3>7
  <2>3. Correctable(Intact)
    <3>1. Cardinality(Intact.damaged) = 0
      BY <2>2, FS_EmptySet
    <3>2. MaxRepairErasures(Codes[1]) = SearchLimit
      BY CodeFacts DEF MaxRepairErasures
    <3> QED BY <3>1, <3>2, CodeFacts DEF Correctable
  <2>4. r = Verified(f) /\ r \in Candidates /\ ResultOK(r, f)
    BY <1>2, <2>1, <2>2, <2>3
  <2>5. TRUE \in BOOLEAN
    OBVIOUS
  <2>6. i \in Images /\ i.of = f /\ i.attempts \in Seq(Candidates) /\ i.correctable = TRUE
    BY <1>3, <2>1, <2>4, <2>5
  <2> QED BY <2>6
<1>5. ASSUME NEW i \in HarmedImages(f)
      PROVE  i \in Images /\ i.of = f /\ i.attempts \in Seq(Candidates)
  <2>1. PICK o \in Outcomes :
          /\ o.length = Length(f)
          /\ \E r \in Readings(f, o.candidate) : i = Image(f, <<r>>, o.correctable)
    BY DEF HarmedImages
  <2> PICK r \in Readings(f, o.candidate) : i = Image(f, <<r>>, o.correctable)
    BY <2>1
  <2>2. PICK b \in Buffers, l \in 1..Codes[1].data :
          o = [length |-> l, candidate |-> TryCodes(b, l), correctable |-> Correctable(b)]
    BY DEF Outcomes
  <2>3. /\ o.length = l /\ o.candidate = TryCodes(b, Length(f))
        /\ o.correctable = Correctable(b)
    BY <2>1, <2>2
  <2>4. ResultOK(r, f) /\ r \in Candidates /\ (Correctable(b) => r = Verified(f))
    <3>1. r \in Readings(f, TryCodes(b, Length(f)))
      BY <2>3
    <3> QED BY <1>2, <3>1
  <2>5. Correctable(b) \in BOOLEAN
    BY DEF Correctable
  <2>6. PICK correctable \in BOOLEAN : correctable = Correctable(b)
    BY <2>5
  <2>7. i = Image(f, <<r>>, correctable) /\ (correctable => r = Verified(f))
    BY <2>1, <2>3, <2>4, <2>6
  <2> QED BY <1>3, <2>4, <2>7
<1> QED BY <1>4, <1>5

(* An image that is right at a later attempt only. *)
LEMMA LaterAttempt ==
  ASSUME NEW f \in Sent, NEW i \in Images, NEW j \in Images, i.of = f, j.of = f, j.correctable,
         NEW h, h = Image(f, i.attempts \o j.attempts, TRUE)
  PROVE  h \in Images /\ h.of = f
<1>1. PICK p \in Seq(Candidates), q \in Seq(Candidates) : p = i.attempts /\ q = j.attempts
  BY DEF Images
<1>2. PICK a : a = p \o q
  OBVIOUS
<1>3. a \in Seq(Candidates) /\ DOMAIN a = 1..(Len(p) + Len(q)) /\ Len(p) \in Nat /\ Len(q) \in Nat
  BY <1>2
<1>4. /\ \A k \in 1..Len(p) : a[k] = p[k]
      /\ \A k \in 1..Len(q) : a[Len(p) + k] = q[k]
  BY <1>2
<1>5. /\ \A k \in 1..Len(p) : ResultOK(p[k], f)
      /\ \A k \in 1..Len(q) : ResultOK(q[k], f)
      /\ \E k \in 1..Len(q) : q[k] = Verified(f)
  BY <1>1 DEF Images, ImageOK
<1>6. ASSUME NEW k \in DOMAIN a PROVE ResultOK(a[k], f)
  <2>1. CASE k \in 1..Len(p)
    BY <1>4, <1>5, <2>1
  <2>2. CASE k \notin 1..Len(p)
    <3>1. PICK m \in 1..Len(q) : k = Len(p) + m
      <4>1. k - Len(p) \in 1..Len(q) /\ k = Len(p) + (k - Len(p))
        BY <1>3, <2>2
      <4> QED BY <4>1
    <3> QED BY <1>4, <1>5, <3>1
  <2> QED BY <2>1, <2>2
<1>7. \E k \in DOMAIN a : a[k] = Verified(f)
  <2>1. PICK m \in 1..Len(q) : q[m] = Verified(f)
    BY <1>5
  <2>2. Len(p) + m \in DOMAIN a
    BY <1>3
  <2> QED BY <1>4, <2>1, <2>2
<1>8. /\ h.of = f /\ h.attempts = a /\ h.correctable = TRUE
      /\ h \in [of : Sent, attempts : Seq(Candidates), correctable : BOOLEAN]
  <2> HIDE DEF Sent, Candidates
  <2> QED BY <1>1, <1>2, <1>3 DEF Image
<1>9. ImageOK(h)
  BY <1>6, <1>7, <1>8 DEF ImageOK
<1> QED BY <1>8, <1>9 DEF Images

(* What processFrame makes of an image: what verifies is the frame itself, *)
(* and damage that is searched for does not keep it from being verified.   *)
LEMMA ProcessFrameFacts ==
  ASSUME NEW i \in Images, NEW r, r = ProcessFrame(i.attempts)
  PROVE  ResultOK(r, i.of) /\ (i.correctable => r = Verified(i.of))
<1>1. PICK a \in Seq(Candidates) : a = i.attempts
  BY DEF Images
<1>2. DOMAIN a \subseteq Nat
  <2>1. DOMAIN a = 1..Len(a)
    OBVIOUS
  <2> QED BY <2>1
<1>3. \A k \in DOMAIN a : ResultOK(a[k], i.of)
  BY <1>1 DEF Images, ImageOK
<1> DEFINE Those(result) == {k \in DOMAIN a : a[k].result = result}
           Least(result) == CHOOSE k \in Those(result) : \A j \in Those(result) : k <= j
<1>4. ASSUME NEW result, Those(result) # {}
      PROVE  Least(result) \in DOMAIN a /\ a[Least(result)].result = result
  <2>1. PICK T \in SUBSET Nat : T = Those(result)
    BY <1>2
  <2>2. \E k \in T : \A j \in T : k <= j
    BY <1>4, <2>1, LeastOf
  <2>3. (CHOOSE k \in T : \A j \in T : k <= j) \in T
    BY <2>2
  <2> QED BY <2>1, <2>3
<1>5. r = IF Those("verified") # {} THEN a[Least("verified")]
          ELSE IF Those("unverified") # {} THEN a[Least("unverified")]
          ELSE Error
  <2>1. \A result : Those(result) # {} <=> \E k \in DOMAIN a : a[k].result = result
    OBVIOUS
  <2>2. r = IF \E k \in DOMAIN a : a[k].result = "verified" THEN a[Least("verified")]
            ELSE IF \E k \in DOMAIN a : a[k].result = "unverified" THEN a[Least("unverified")]
            ELSE Error
    <3>1. r = ProcessFrame(a)
      BY <1>1
    <3> QED BY <3>1, Zenon DEF ProcessFrame
  <2> HIDE DEF Those, Least
  <2> QED BY <2>1, <2>2
<1> HIDE DEF Least
<1>6. ResultOK(r, i.of)
  <2>1. ResultOK(Error, i.of)
    BY DEF ResultOK
  <2> QED BY <1>3, <1>4, <1>5, <2>1
<1>7. ASSUME i.correctable PROVE r = Verified(i.of)
  <2>1. PICK k \in DOMAIN a : a[k] = Verified(i.of)
    BY <1>1, <1>7 DEF Images, ImageOK
  <2>2. k \in Those("verified")
    BY <2>1 DEF Verified
  <2>3. r = a[Least("verified")] /\ Least("verified") \in DOMAIN a /\ r.result = "verified"
    BY <1>4, <1>5, <2>2
  <2>4. ResultOK(r, i.of)
    BY <1>3, <2>3
  <2> QED BY <2>3, <2>4 DEF ResultOK, Error, Unverified
<1> QED BY <1>6, <1>7

-----------------------------------------------------------------------------
(* What is joined *)

(* What Join takes of the i-th frame. *)
Part(frames, i, total) ==
  LET kept == frames[i - 1]
  IN  IF kept.result # "error" /\ kept.frame.total = total THEN kept.frame.data ELSE <<>>

(* Join is the last of the prefixes that its loop goes through.            *)
LEMMA JoinByPrefixes ==
  ASSUME NEW frames, NEW total \in Nat
  PROVE  \E f : /\ Join(frames, total) = f[total] /\ f[0] = <<>>
                /\ \A i \in 1..total : f[i] = f[i - 1] \o Part(frames, i, total)
<1> DEFINE Goes(g, m) == g = [i \in 0..m |-> IF i = 0 THEN <<>> ELSE g[i - 1] \o Part(frames, i, total)]
           upTo == CHOOSE g : Goes(g, total)
           E == {m \in 0..total : \E g : Goes(g, m)}
<1>1. 0 \in E
  <2>1. PICK g : g = [i \in 0..0 |-> <<>>]
    OBVIOUS
  <2>2. Goes(g, 0)
    BY <2>1
  <2> QED BY <2>2
<1>2. ASSUME NEW m \in E, m < total PROVE m + 1 \in E
  <2>1. m \in 0..total /\ m + 1 \in 0..total /\ \E g : Goes(g, m)
    <3> HIDE DEF Goes
    <3> QED BY <1>2
  <2>2. PICK g : Goes(g, m)
    BY <2>1
  <2>3. PICK h : h = [i \in 0..(m + 1) |-> IF i = m + 1 THEN g[m] \o Part(frames, m + 1, total) ELSE g[i]]
    OBVIOUS
  <2>4. \A i \in 0..m : g[i] = IF i = 0 THEN <<>> ELSE g[i - 1] \o Part(frames, i, total)
    BY <2>2
  <2>5. \A i \in 0..m : i \in 0..(m + 1) /\ i # m + 1 /\ h[i] = g[i]
    BY <2>1, <2>3
  <2>6. ASSUME NEW i \in 0..(m + 1)
        PROVE  h[i] = IF i = 0 THEN <<>> ELSE h[i - 1] \o Part(frames, i, total)
    <3>1. CASE i \in 0..m
      <4>1. i # 0 => i - 1 \in 0..m
        BY <2>1, <3>1
      <4> QED BY <2>4, <2>5, <3>1, <4>1
    <3>2. CASE i = m + 1
      <4>1. i # 0 /\ i - 1 = m /\ m \in 0..m
        BY <2>1, <3>2
      <4>2. h[i] = g[m] \o Part(frames, m + 1, total)
        BY <2>3, <3>2
      <4> QED BY <2>5, <3>2, <4>1, <4>2
    <3>3. i \in 0..m \/ i = m + 1
      BY <2>1
    <3> QED BY <3>1, <3>2, <3>3
  <2>7. Goes(h, m + 1)
    <3>1. h = [i \in 0..(m + 1) |-> h[i]]
      BY <2>3
    <3> QED BY <2>6, <3>1
  <2> HIDE DEF Goes
  <2> QED BY <2>1, <2>7
<1>3. total \in E
  <2>1. E \in SUBSET (0..total)
    OBVIOUS
  <2>2. total \in 0..total
    OBVIOUS
  <2> HIDE DEF E
  <2> QED BY <1>1, <1>2, <2>1, <2>2, Induction
<1>4. Goes(upTo, total)
  <2>1. \E g : Goes(g, total)
    BY <1>3
  <2> HIDE DEF Goes
  <2> QED BY <2>1
<1>5. Join(frames, total) = upTo[total]
  BY Zenon DEF Join, Part
<1> HIDE DEF upTo, Goes
<1>6. PICK f : f = upTo
  OBVIOUS
<1>7. Goes(f, total)
  BY <1>4, <1>6
<1>8. \A i \in 0..total : f[i] = IF i = 0 THEN <<>> ELSE f[i - 1] \o Part(frames, i, total)
  BY <1>7 DEF Goes
<1>9. f[0] = <<>> /\ \A i \in 1..total : f[i] = f[i - 1] \o Part(frames, i, total)
  <2>1. 0 \in 0..total /\ \A i \in 1..total : i \in 0..total /\ i # 0
    OBVIOUS
  <2> QED BY <1>8, <2>1
<1> QED BY <1>5, <1>6, <1>9

(* What holds of no bytes, and after every part if it held before, holds of *)
(* the output: a set of sequences stands for the property of each prefix.   *)
LEMMA JoinInduction ==
  ASSUME NEW frames, NEW total \in Nat, NEW Good,
         <<0, <<>>>> \in Good,
         \A i \in 1..total : \A s : <<i - 1, s>> \in Good => <<i, s \o Part(frames, i, total)>> \in Good
  PROVE  <<total, Join(frames, total)>> \in Good
<1>1. PICK f : /\ Join(frames, total) = f[total] /\ f[0] = <<>>
               /\ \A i \in 1..total : f[i] = f[i - 1] \o Part(frames, i, total)
  BY JoinByPrefixes
<1> DEFINE S == {i \in 0..total : <<i, f[i]>> \in Good}
<1>2. 0 \in S
  BY <1>1
<1>3. ASSUME NEW k \in S, k < total PROVE k + 1 \in S
  <2>1. PICK i \in 1..total : i = k + 1 /\ i - 1 = k /\ i \in 0..total
    BY <1>3
  <2>2. <<i - 1, f[i - 1]>> \in Good
    BY <2>1
  <2>3. <<i, f[i - 1] \o Part(frames, i, total)>> \in Good
    BY <2>2
  <2>4. <<i, f[i]>> \in Good
    BY <1>1, <2>3
  <2> QED BY <2>1, <2>4
<1>4. S \in SUBSET (0..total) /\ total \in 0..total
  OBVIOUS
<1>5. total \in S
  <2> HIDE DEF S
  <2> QED BY <1>2, <1>3, <1>4, Induction
<1> QED BY <1>1, <1>5

-----------------------------------------------------------------------------
(* The inductive invariant *)

Typed ==
  /\ size \in Sizes /\ padding \in Paddings
  /\ coming \in SUBSET Sent
  /\ images \in Seq(Images)
  /\ waiting \in SUBSET (DOMAIN images)
  /\ frameByIndex \in [0..(MaxFrames - 1) -> Candidates]
  /\ DOMAIN votes = 1..MaxFrames
  /\ phase \in {"transport", "collect", "done", "failed"}

(* Before the results are collected nothing is kept; afterwards what is     *)
(* kept for an index is what some image was read as.                       *)
KeptAreRead ==
  \A i \in 0..(MaxFrames - 1) : frameByIndex[i].result # "error" =>
    /\ phase # "transport"
    /\ frameByIndex[i].frame.index = i
    /\ \E k \in DOMAIN images : frameByIndex[i] = ProcessFrame(images[k].attempts)

(* A result that verifies has been kept, or one that did before it, unless  *)
(* an image like it waits.                                                 *)
VerifiedAreKept ==
  phase # "transport" =>
    \A k \in DOMAIN images :
      ProcessFrame(images[k].attempts).result = "verified" =>
        \/ \E j \in waiting : images[j] = images[k]
        \/ frameByIndex[ProcessFrame(images[k].attempts).frame.index].result = "verified"

OutputIsJoined ==
  phase = "done" => waiting = {} /\ \E total \in Winners : output = Join(frameByIndex, total)

IInv == Typed /\ KeptAreRead /\ VerifiedAreKept /\ OutputIsJoined

(* Only what is no error has a frame to speak of.                          *)
LEMMA CandidatesFacts ==
  /\ Error \in Candidates /\ Error.result = "error"
  /\ \A r \in Candidates :
       /\ r.result \in {"verified", "unverified", "error"}
       /\ r.result # "error" => r.frame \in Frames
  /\ \A r, f : ResultOK(r, f) => r.result \in {"verified", "unverified", "error"}
  /\ \A r, f : ResultOK(r, f) /\ r.result = "verified" => r = Verified(f) /\ r.frame = f
BY DEF Candidates, ResultOK, Error, Verified, Unverified

(* What the results of images are. *)
LEMMA ResultsFacts ==
  ASSUME Typed, NEW k \in DOMAIN images, NEW r, r = ProcessFrame(images[k].attempts)
  PROVE  /\ images[k] \in Images /\ images[k].of \in Sent /\ ResultOK(r, images[k].of)
         /\ images[k].correctable => r = Verified(images[k].of)
         /\ r \in Candidates
         /\ r.result # "error" => r.frame.index \in 0..(MaxFrames - 1) /\ r.frame.total \in 1..MaxFrames
         /\ r.result = "verified" => r.frame = images[k].of
<1>1. images[k] \in Images
  BY DEF Typed
<1>2. images[k].of \in Sent
  BY <1>1 DEF Images
<1>3. ResultOK(r, images[k].of) /\ (images[k].correctable => r = Verified(images[k].of))
  BY <1>1, ProcessFrameFacts
<1>4. images[k].of \in Frames
  BY <1>2, SentFacts DEF Typed
<1>5. r \in Candidates
  BY <1>3, <1>4 DEF ResultOK, Candidates
<1>6. r.result # "error" => r.frame \in Frames
  BY <1>5, CandidatesFacts
<1>7. r.frame \in Frames => r.frame.index \in 0..(MaxFrames - 1) /\ r.frame.total \in 1..MaxFrames
  BY DEF Frames
<1>8. r.result = "verified" => r.frame = images[k].of
  BY <1>3, CandidatesFacts
<1> QED BY <1>1, <1>2, <1>3, <1>5, <1>6, <1>7, <1>8

(* Nothing was read yet. *)
LEMMA InitIInv == Init => IInv
<1> SUFFICES ASSUME Init PROVE IInv
  OBVIOUS
<1>1. /\ size \in Sizes /\ padding \in Paddings /\ coming = Sent
      /\ images = <<>> /\ waiting = {}
      /\ frameByIndex = [i \in 0..(MaxFrames - 1) |-> Error]
      /\ DOMAIN votes = 1..MaxFrames /\ phase = "transport"
  BY DEF Init, Sent
<1>2. \A i \in 0..(MaxFrames - 1) : frameByIndex[i] = Error
  BY <1>1
<1>3. Typed
  BY <1>1, CandidatesFacts DEF Typed
<1>4. KeptAreRead
  BY <1>2, CandidatesFacts DEF KeptAreRead
<1>5. VerifiedAreKept /\ OutputIsJoined
  BY <1>1 DEF VerifiedAreKept, OutputIsJoined
<1> QED BY <1>3, <1>4, <1>5 DEF IInv

(* The video stays what it is. *)
LEMMA VideoStays ==
  ASSUME size' = size, padding' = padding
  PROVE  Sent' = Sent /\ Images' = Images
<1>1. Sent' = Sent
  BY DEF Sent, PayloadFrames, PaddingFrames
<1>2. Images' = Images
  BY <1>1 DEF Images
<1> QED BY <1>1, <1>2

(* Images are added, each as its frame allows, before any is collected.   *)
LEMMA TransportKeepsIInv == IInv /\ Transport => IInv'
<1> SUFFICES ASSUME IInv, Transport PROVE IInv'
  OBVIOUS
<1>1. /\ size' = size /\ padding' = padding /\ waiting' = waiting
      /\ frameByIndex' = frameByIndex /\ votes' = votes
      /\ phase' = phase /\ phase = "transport"
  BY DEF Transport, video
<1>2. /\ size \in Sizes /\ padding \in Paddings /\ coming \in SUBSET Sent /\ images \in Seq(Images)
      /\ waiting \in SUBSET (DOMAIN images)
      /\ frameByIndex \in [0..(MaxFrames - 1) -> Candidates] /\ DOMAIN votes = 1..MaxFrames
  BY DEF IInv, Typed
<1>3. PICK f \in coming : coming' = coming \ {f} /\ (Unharmed(f) \/ Harmed(f))
  <2>1. coming # {}
    BY DEF Transport
  <2>2. (CHOOSE g \in coming : TRUE) \in coming
    BY <2>1
  <2> QED BY <2>2 DEF Transport
<1>4. f \in Sent
  BY <1>2, <1>3
<1>5. /\ \A i \in UnharmedImages(f) \cup HarmedImages(f) : i \in Images /\ i.of = f
      /\ \A i \in UnharmedImages(f) : i.correctable
  BY <1>2, <1>4, ImagesOfFrame
<1> DEFINE Extended == \E new \in Seq(Images) : images' = images \o new
<1>6. ASSUME NEW i \in Images, images' = Append(images, i) PROVE Extended
  <2>1. <<i>> \in Seq(Images)
    OBVIOUS
  <2>2. Append(images, i) = images \o <<i>>
    BY <1>2, AppendIsConcat
  <2>3. images' = images \o <<i>>
    BY <1>6, <2>2
  <2> QED BY <2>1, <2>3
<1>7. ASSUME NEW i \in Images, NEW j \in Images, images' = images \o <<i, j>> PROVE Extended
  <2>1. <<i, j>> \in Seq(Images)
    OBVIOUS
  <2> QED BY <1>7, <2>1
<1>8. Extended
  <2> HIDE DEF Extended
  <2>1. CASE Unharmed(f)
    BY <1>5, <1>6, <2>1 DEF Unharmed
  <2>2. CASE Harmed(f) /\ images' = images
    <3>1. <<>> \in Seq(Images) /\ images = images \o <<>>
      BY <1>2
    <3> QED BY <2>2, <3>1 DEF Extended
  <2>3. CASE \E i \in UnharmedImages(f) : images' = images \o <<i, i>>
    BY <1>5, <1>7, <2>3
  <2>4. CASE \E i \in HarmedImages(f) : images' = Append(images, i)
    BY <1>5, <1>6, <2>4
  <2>5. CASE \E i \in HarmedImages(f), j \in UnharmedImages(f) :
               \/ images' = images \o <<i, j>>
               \/ images' = Append(images, Image(f, i.attempts \o j.attempts, TRUE))
    <3>1. PICK i \in HarmedImages(f), j \in UnharmedImages(f) :
               \/ images' = images \o <<i, j>>
               \/ images' = Append(images, Image(f, i.attempts \o j.attempts, TRUE))
      BY <2>5
    <3>2. i \in Images /\ j \in Images /\ i.of = f /\ j.of = f /\ j.correctable
      BY <1>5
    <3>3. PICK h : h = Image(f, i.attempts \o j.attempts, TRUE)
      OBVIOUS
    <3>4. h \in Images
      BY <1>4, <3>2, <3>3, LaterAttempt
    <3> QED BY <1>6, <1>7, <3>1, <3>2, <3>3, <3>4
  <2> QED BY <1>3, <2>1, <2>2, <2>3, <2>4, <2>5 DEF Harmed
<1>9. images' \in Seq(Images) /\ DOMAIN images \subseteq DOMAIN images'
  <2>1. PICK new \in Seq(Images) : images' = images \o new
    BY <1>8
  <2>2. images \o new \in Seq(Images) /\ DOMAIN images \subseteq DOMAIN (images \o new)
    BY <1>2
  <2> QED BY <2>1, <2>2
<1>10. Typed'
  <2>1. Sent' = Sent /\ Images' = Images
    BY <1>1, VideoStays
  <2> QED BY <1>1, <1>2, <1>3, <1>9, <2>1 DEF Typed
<1>11. KeptAreRead'
  <2>1. \A i \in 0..(MaxFrames - 1) : frameByIndex[i].result = "error"
    BY <1>1 DEF IInv, KeptAreRead
  <2> QED BY <1>1, <2>1 DEF KeptAreRead
<1>12. VerifiedAreKept' /\ OutputIsJoined'
  BY <1>1 DEF VerifiedAreKept, OutputIsJoined
<1> QED BY <1>10, <1>11, <1>12 DEF IInv

(* Dropping equal images leaves one of each. *)
LEMMA StartKeepsIInv == IInv /\ StartReconstruct => IInv'
<1> SUFFICES ASSUME IInv, StartReconstruct PROVE IInv'
  OBVIOUS
<1>1. /\ size' = size /\ padding' = padding /\ coming' = coming /\ images' = images
      /\ frameByIndex' = frameByIndex /\ votes' = votes
      /\ waiting' = Unique \/ waiting' = DOMAIN images
      /\ phase' = "collect" /\ phase = "transport"
  BY DEF StartReconstruct, video
<1>2. /\ size \in Sizes /\ padding \in Paddings /\ coming \in SUBSET Sent /\ images \in Seq(Images)
      /\ frameByIndex \in [0..(MaxFrames - 1) -> Candidates] /\ DOMAIN votes = 1..MaxFrames
  BY DEF IInv, Typed
<1>3. Unique \subseteq DOMAIN images
  BY DEF Unique
<1>4. ASSUME NEW k \in DOMAIN images PROVE \E j \in Unique : images[j] = images[k]
  <2>1. PICK Same : Same = {j \in DOMAIN images : images[j] = images[k]}
    OBVIOUS
  <2>2. DOMAIN images = 1..Len(images) /\ Len(images) \in Nat
    BY <1>2
  <2>3. Same \in SUBSET Nat /\ k \in Same
    BY <2>1, <2>2
  <2>4. PICK j \in Same : \A m \in Same : j <= m
    BY <2>3, LeastOf
  <2>5. ASSUME NEW m \in 1..(j - 1) PROVE images[m] # images[j]
    <3>1. j \in 1..Len(images)
      BY <2>1, <2>2
    <3>2. m \in 1..Len(images) /\ ~(j <= m)
      BY <2>2, <3>1
    <3>3. m \notin Same
      BY <2>4, <3>2
    <3> QED BY <2>1, <2>2, <3>2, <3>3
  <2>6. j \in Unique
    BY <2>1, <2>5 DEF Unique
  <2> QED BY <2>1, <2>6
<1>5. waiting' \subseteq DOMAIN images /\ \A k \in DOMAIN images : \E j \in waiting' : images[j] = images[k]
  BY <1>1, <1>3, <1>4
<1>6. Typed'
  <2>1. Sent' = Sent /\ Images' = Images
    BY <1>1, VideoStays
  <2> QED BY <1>1, <1>2, <1>5, <2>1 DEF Typed
<1>7. KeptAreRead'
  BY <1>1 DEF IInv, KeptAreRead
<1>8. VerifiedAreKept'
  BY <1>1, <1>5 DEF VerifiedAreKept
<1>9. OutputIsJoined'
  BY <1>1 DEF OutputIsJoined
<1> QED BY <1>6, <1>7, <1>8, <1>9 DEF IInv

(* A result takes the place Keep gives it, and no verified one leaves its  *)
(* place.                                                                  *)
LEMMA CollectKeepsIInv == IInv /\ Collect => IInv'
<1> SUFFICES ASSUME IInv, Collect PROVE IInv'
  OBVIOUS
<1>1. /\ size' = size /\ padding' = padding /\ coming' = coming /\ images' = images
      /\ phase' = "collect" /\ phase = "collect"
  BY DEF Collect, video
<1>2. /\ size \in Sizes /\ padding \in Paddings /\ coming \in SUBSET Sent /\ images \in Seq(Images)
      /\ waiting \in SUBSET (DOMAIN images)
      /\ frameByIndex \in [0..(MaxFrames - 1) -> Candidates] /\ DOMAIN votes = 1..MaxFrames
  BY DEF IInv, Typed
<1>3. PICK k \in waiting :
        LET result == ProcessFrame(images[k].attempts)
            f == result.frame
        IN  /\ waiting' = waiting \ {k}
            /\ IF result.result = "error"
               THEN UNCHANGED <<frameByIndex, votes>>
               ELSE /\ frameByIndex' = IF Keep(result)
                                       THEN [frameByIndex EXCEPT ![f.index] = result]
                                       ELSE frameByIndex
                    /\ votes' = [votes EXCEPT ![f.total] = @ + 1]
  BY Zenon DEF Collect
<1>4. PICK r : r = ProcessFrame(images[k].attempts)
  OBVIOUS
<1>5. /\ waiting' = waiting \ {k}
      /\ r.result = "error" => frameByIndex' = frameByIndex /\ votes' = votes
      /\ r.result # "error" =>
           /\ frameByIndex' = IF Keep(r) THEN [frameByIndex EXCEPT ![r.frame.index] = r]
                              ELSE frameByIndex
           /\ votes' = [votes EXCEPT ![r.frame.total] = @ + 1]
  BY <1>3, <1>4
<1>6. /\ k \in DOMAIN images /\ r \in Candidates
      /\ r.result # "error" => r.frame.index \in 0..(MaxFrames - 1)
  BY <1>2, <1>4, ResultsFacts DEF IInv
<1>7. \A i \in 0..(MaxFrames - 1) :
        \/ frameByIndex'[i] = frameByIndex[i]
        \/ /\ i = r.frame.index /\ r.result # "error" /\ frameByIndex'[i] = r
           /\ \/ frameByIndex[i].result = "error"
              \/ frameByIndex[i].result = "unverified" /\ r.result = "verified"
  BY <1>2, <1>5, <1>6 DEF Keep
<1>8. Typed'
  <2>1. Sent' = Sent /\ Images' = Images
    BY <1>1, VideoStays
  <2>2. frameByIndex' \in [0..(MaxFrames - 1) -> Candidates]
    BY <1>2, <1>5, <1>6
  <2>3. DOMAIN votes' = 1..MaxFrames
    BY <1>2, <1>5
  <2>4. waiting' \in SUBSET (DOMAIN images)
    BY <1>2, <1>5
  <2> QED BY <1>1, <1>2, <2>1, <2>2, <2>3, <2>4 DEF Typed
<1>9. KeptAreRead'
  <2> SUFFICES ASSUME NEW i \in 0..(MaxFrames - 1), frameByIndex'[i].result # "error"
               PROVE  /\ frameByIndex'[i].frame.index = i
                      /\ \E m \in DOMAIN images : frameByIndex'[i] = ProcessFrame(images[m].attempts)
    BY <1>1 DEF KeptAreRead
  <2>1. CASE frameByIndex'[i] = frameByIndex[i]
    BY <2>1 DEF IInv, KeptAreRead
  <2>2. CASE frameByIndex'[i] = r /\ i = r.frame.index
    BY <1>4, <1>6, <2>2
  <2> QED BY <1>7, <2>1, <2>2
<1>10. VerifiedAreKept'
  <2> SUFFICES ASSUME NEW m \in DOMAIN images, NEW s, s = ProcessFrame(images[m].attempts),
                      s.result = "verified"
               PROVE  \/ \E j \in waiting' : images[j] = images[m]
                      \/ frameByIndex'[s.frame.index].result = "verified"
    BY <1>1 DEF VerifiedAreKept
  <2>1. s.frame.index \in 0..(MaxFrames - 1)
    BY ResultsFacts DEF IInv
  <2>2. \/ \E j \in waiting : images[j] = images[m]
        \/ frameByIndex[s.frame.index].result = "verified"
    BY <1>1 DEF IInv, VerifiedAreKept
  <2>3. CASE frameByIndex[s.frame.index].result = "verified"
    BY <1>7, <2>1, <2>3
  <2>4. CASE \E j \in waiting : images[j] = images[m] /\ j # k
    BY <1>5, <2>4
  <2>5. CASE images[k] = images[m]
    <3>1. r = s
      BY <1>4, <2>5
    <3>2. CASE frameByIndex[s.frame.index].result = "verified"
      BY <2>3, <3>2
    <3>3. CASE frameByIndex[s.frame.index].result # "verified"
      <4>1. frameByIndex[s.frame.index].result \in {"verified", "unverified", "error"}
        BY <1>2, <2>1, CandidatesFacts
      <4>2. Keep(r)
        BY <3>1, <3>3, <4>1 DEF Keep
      <4>3. frameByIndex' = [frameByIndex EXCEPT ![r.frame.index] = r]
        BY <1>5, <3>1, <4>2
      <4> QED BY <1>2, <2>1, <3>1, <4>3
    <3> QED BY <3>2, <3>3
  <2> QED BY <2>2, <2>3, <2>4, <2>5
<1>11. OutputIsJoined'
  BY <1>1 DEF OutputIsJoined
<1> QED BY <1>8, <1>9, <1>10, <1>11 DEF IInv

(* The output is joined when no image waits. *)
LEMMA WriteKeepsIInv == IInv /\ (WriteOutput \/ NoValidFrame) => IInv'
<1> SUFFICES ASSUME IInv, WriteOutput \/ NoValidFrame PROVE IInv'
  OBVIOUS
<1>1. /\ size' = size /\ padding' = padding /\ coming' = coming /\ images' = images
      /\ waiting' = waiting /\ frameByIndex' = frameByIndex /\ votes' = votes
      /\ phase = "collect" /\ waiting = {} /\ phase' \in {"done", "failed"}
      /\ phase' = "done" => \E total \in Winners : output' = Join(frameByIndex, total)
  BY DEF WriteOutput, NoValidFrame, video
<1>2. Typed'
  <2>1. Sent' = Sent /\ Images' = Images
    BY <1>1, VideoStays
  <2> QED BY <1>1, <2>1 DEF IInv, Typed
<1>3. KeptAreRead' /\ VerifiedAreKept'
  BY <1>1 DEF IInv, KeptAreRead, VerifiedAreKept
<1>4. OutputIsJoined'
  <2>1. Winners' = Winners
    BY <1>1 DEF Winners
  <2> QED BY <1>1, <2>1 DEF OutputIsJoined
<1> QED BY <1>2, <1>3, <1>4 DEF IInv

(* No step leaves the invariant. *)
LEMMA NextIInv == IInv /\ [Next]_vars => IInv'
<1> SUFFICES ASSUME IInv, [Next]_vars PROVE IInv'
  OBVIOUS
<1>1. CASE UNCHANGED vars
  <2>1. /\ size' = size /\ padding' = padding /\ coming' = coming /\ images' = images
        /\ waiting' = waiting /\ frameByIndex' = frameByIndex /\ votes' = votes
        /\ phase' = phase /\ output' = output
    BY <1>1 DEF vars
  <2>2. Sent' = Sent /\ Images' = Images
    BY <2>1, VideoStays
  <2>3. Typed'
    BY <2>1, <2>2 DEF IInv, Typed
  <2>4. KeptAreRead' /\ VerifiedAreKept'
    BY <2>1 DEF IInv, KeptAreRead, VerifiedAreKept
  <2>5. OutputIsJoined'
    <3>1. Winners' = Winners
      BY <2>1 DEF Winners
    <3> QED BY <2>1, <3>1 DEF IInv, OutputIsJoined
  <2> QED BY <2>3, <2>4, <2>5 DEF IInv
<1> QED BY <1>1, TransportKeepsIInv, StartKeepsIInv, CollectKeepsIInv, WriteKeepsIInv DEF Next

(* The inductive invariant of ReconstructFile holds in every behaviour.    *)
LEMMA ResultsAreKept == Spec => []IInv
<1> QED BY InitIInv, NextIInv, PTL DEF Spec

-----------------------------------------------------------------------------
(* The properties *)

(* What is kept as verified is a frame that was drawn, with its data, for   *)
(* every pair of codes of which the first keeps parity back, and every      *)
(* damage (reconstructor.go:436-450, 506-550).                             *)
THEOREM VerifiedSent == Spec => []VerifiedIsSent
<1>1. IInv => VerifiedIsSent
  <2> SUFFICES ASSUME IInv, NEW i \in DOMAIN frameByIndex, frameByIndex[i].result = "verified"
               PROVE  frameByIndex[i].frame \in PayloadFrames \cup PaddingFrames
    BY DEF VerifiedIsSent
  <2>1. i \in 0..(MaxFrames - 1)
    BY DEF IInv, Typed
  <2>2. PICK k \in DOMAIN images : frameByIndex[i] = ProcessFrame(images[k].attempts)
    BY <2>1 DEF IInv, KeptAreRead
  <2>3. frameByIndex[i].frame = images[k].of /\ images[k].of \in Sent
    BY <2>2, ResultsFacts DEF IInv
  <2> QED BY <2>3 DEF Sent
<1> QED BY <1>1, ResultsAreKept, PTL

(* The part of the output a frame makes up is what one image was read as.   *)
LEMMA PartFacts ==
  ASSUME IInv, NEW total \in 1..MaxFrames, NEW i \in 1..total
  PROVE  /\ i - 1 \in 0..(MaxFrames - 1)
         /\ Part(frameByIndex, i, total) \in Seq(Int)
         /\ \/ Part(frameByIndex, i, total) = <<>>
            \/ \E r \in Results : /\ r.result # "error"
                                  /\ r.frame.index = i - 1 /\ r.frame.total = total
                                  /\ Part(frameByIndex, i, total) = r.frame.data
<1>1. i - 1 \in 0..(MaxFrames - 1)
  BY CapacityFacts
<1>2. PICK r : r = frameByIndex[i - 1]
  OBVIOUS
<1>3. r \in Candidates
  BY <1>1, <1>2 DEF IInv, Typed
<1>4. CASE r.result # "error" /\ r.frame.total = total
  <2>1. Part(frameByIndex, i, total) = r.frame.data
    BY <1>2, <1>4 DEF Part
  <2>2. r.frame \in Frames
    BY <1>3, <1>4, CandidatesFacts
  <2>3. r.frame.data \in Seq(Int)
    BY <2>2 DEF Frames
  <2>4. r.frame.index = i - 1 /\ \E k \in DOMAIN images : r = ProcessFrame(images[k].attempts)
    BY <1>1, <1>2, <1>4 DEF IInv, KeptAreRead
  <2>5. r \in Results
    BY <2>4 DEF Results
  <2> QED BY <1>1, <1>4, <2>1, <2>3, <2>4, <2>5
<1>5. CASE ~(r.result # "error" /\ r.frame.total = total)
  <2>1. Part(frameByIndex, i, total) = <<>>
    BY <1>2, <1>5 DEF Part
  <2> QED BY <1>1, <2>1
<1> QED BY <1>4, <1>5

(* Only numbers of frames that headers can hold are voted for.             *)
LEMMA WinnersFacts == Typed => Winners \subseteq 1..MaxFrames
BY DEF Typed, Winners

(* A frame of the payload is told by its index. *)
LEMMA PayloadFrameFacts ==
  ASSUME Typed, NEW f \in PayloadFrames
  PROVE  /\ size \in Nat /\ f.total = FrameCount(size) /\ f.index \in 0..(FrameCount(size) - 1)
         /\ f.data = FrameData(size, f.index)
         /\ f = PlainFrame(f.index, FrameCount(size), FrameData(size, f.index))
<1>1. size \in Nat
  BY CapacityFacts DEF Typed
<1>2. PICK i \in 0..(FrameCount(size) - 1) : f = PlainFrame(i, FrameCount(size), FrameData(size, i))
  BY DEF PayloadFrames
<1>3. f.index = i /\ f.total = FrameCount(size) /\ f.data = FrameData(size, i)
  BY <1>2 DEF PlainFrame
<1> QED BY <1>1, <1>2, <1>3

(* As long as only frames of the payload were read their data follows each  *)
(* other: after i of them no byte is beyond those of i frames               *)
(* (reconstructor.go:163-170, 211-217).                                    *)
THEOREM InOrder == Spec => []OutputIsInOrder
<1> DEFINE Ascending(s) == \A j, k \in DOMAIN s : j < k => s[j] < s[k]
           Below(s, limit) == \A k \in DOMAIN s : s[k] <= limit
           Good == {p \in (0..MaxFrames) \X Seq(Int) : Ascending(p[2]) /\ Below(p[2], Offset(p[1]))}
<1>1. IInv => OutputIsInOrder
  <2> SUFFICES ASSUME IInv, phase = "done", padding = 0,
                      \A r \in Results : r.result # "error" => r.frame \in PayloadFrames
               PROVE  Ascending(output)
    BY DEF OutputIsInOrder
  <2>1. PICK total \in Winners : output = Join(frameByIndex, total)
    BY DEF IInv, OutputIsJoined
  <2>2. total \in 1..MaxFrames /\ total \in Nat /\ MaxFrames \in Nat
    BY WinnersFacts, CapacityFacts DEF IInv
  <2>3. PICK C \in Nat \ {0} : C = Capacity
    BY CapacityFacts
  <2>4. <<0, <<>>>> \in Good
    <3>1. PICK none \in Seq(Int) : none = <<>>
      <4>1. <<>> \in Seq(Int)
        OBVIOUS
      <4> QED BY <4>1, Zenon
    <3>2. DOMAIN none = {}
      BY <3>1
    <3>3. <<0, none>> \in (0..MaxFrames) \X Seq(Int) /\ <<0, none>>[1] = 0 /\ <<0, none>>[2] = none
      BY <2>2
    <3>4. Ascending(none) /\ Below(none, Offset(0))
      BY <3>2
    <3> HIDE DEF Ascending, Below
    <3> QED BY <3>1, <3>3, <3>4
  <2>5. ASSUME NEW i \in 1..total, NEW s, <<i - 1, s>> \in Good
        PROVE  <<i, s \o Part(frameByIndex, i, total)>> \in Good
    <3>1. PICK d \in Seq(Int) : d = Part(frameByIndex, i, total)
      BY <2>2, PartFacts
    <3>2. PICK b \in Nat : b = (i - 1) * C /\ b = Offset(i - 1)
      BY <2>3 DEF Offset
    <3>3. PICK e \in Nat : e = Offset(i) /\ e = b + C
      BY <2>3, <3>2 DEF Offset
    <3>4. s \in Seq(Int) /\ Ascending(s) /\ Below(s, b)
      BY <2>3, <3>2, <2>5
    <3>5. \A k \in DOMAIN d : d[k] = b + k /\ k \in Nat /\ d[k] <= e
      <4>1. CASE d = <<>>
        BY <4>1
      <4>2. CASE d # <<>>
        <5>1. PICK r \in Results : r.result # "error" /\ r.frame.index = i - 1 /\ d = r.frame.data
          BY <2>2, <3>1, <4>2, PartFacts
        <5> PICK h \in Nat : h = i - 1
          OBVIOUS
        <5>2. d = FrameData(size, h) /\ size \in Nat /\ Offset(h) = b
          BY <2>3, <3>2, <5>1, PayloadFrameFacts DEF IInv
        <5>3. /\ Len(d) <= C /\ Len(d) \in Nat
              /\ \A k \in 1..Len(d) : d[k] = b + k
          <6>1. b = Offset(h)
            BY <5>2
          <6>2. /\ Len(FrameData(size, h)) <= Capacity /\ Len(FrameData(size, h)) \in Nat
                /\ \A k \in 1..Len(FrameData(size, h)) : FrameData(size, h)[k] = Offset(h) + k
            <7>1. size \in Nat
              BY <5>2
            <7>2. \A n, o \in Nat : Len(FrameData(n, o)) <= Capacity
              BY FrameDataFacts
            <7>3. \A n, o \in Nat : Len(FrameData(n, o)) \in Nat
              BY FrameDataFacts
            <7>4. \A n, o \in Nat : \A k \in 1..Len(FrameData(n, o)) : FrameData(n, o)[k] = Offset(o) + k
              BY FrameDataFacts
            <7> QED BY <7>1, <7>2, <7>3, <7>4, Zenon
          <6> QED BY <2>3, <5>2, <6>1, <6>2
        <5>4. DOMAIN d = 1..Len(d)
          BY <3>1
        <5> SUFFICES ASSUME NEW k \in 1..Len(d)
                     PROVE  d[k] = b + k /\ k \in Nat /\ d[k] <= e
          BY <5>4
        <5>5. k \in Nat /\ k <= C /\ d[k] = b + k
          BY <5>3
        <5> QED BY <3>3, <5>5
      <4> QED BY <4>1, <4>2
    <3>6. PICK t : t = s \o d
      OBVIOUS
    <3>7. PICK m \in Nat, n \in Nat : m = Len(s) /\ n = Len(d)
      BY <3>4
    <3>8. /\ t \in Seq(Int) /\ DOMAIN t = 1..(m + n) /\ DOMAIN s = 1..m /\ DOMAIN d = 1..n
          /\ \A k \in 1..m : t[k] = s[k]
          /\ \A k \in 1..n : t[m + k] = d[k]
      BY <3>4, <3>6, <3>7
    <3>9. \A k \in 1..(m + n) : \/ k \in 1..m /\ t[k] = s[k] /\ t[k] <= b
                                \/ k > m /\ t[k] = b + (k - m) /\ t[k] <= e
      <4> TAKE k \in 1..(m + n)
      <4>1. CASE k \in 1..m
        BY <3>4, <3>8, <4>1
      <4>2. CASE k \notin 1..m
        <5>1. PICK o \in 1..n : k = m + o /\ k - m = o /\ k > m
          <6>1. k - m \in 1..n /\ k = m + (k - m) /\ k > m
            BY <4>2
          <6> QED BY <6>1
        <5>2. t[k] = d[o] /\ o \in DOMAIN d
          BY <3>8, <5>1
        <5>3. t[k] = b + o /\ t[k] <= e
          BY <3>5, <5>2
        <5> QED BY <5>1, <5>3
      <4> QED BY <4>1, <4>2
    <3>13. ASSUME NEW j \in 1..(m + n), NEW k \in 1..(m + n), j < k PROVE t[j] < t[k]
      <4>1. CASE k \in 1..m
        <5>1. j \in 1..m
          BY <3>13, <4>1
        <5> QED BY <3>4, <3>8, <3>13, <4>1, <5>1
      <4>2. CASE k \notin 1..m
        <5>1. t[k] = b + (k - m) /\ k > m
          BY <3>9, <4>2
        <5>2. CASE j \in 1..m
          <6>1. s[j] \in Int /\ s[j] <= b /\ t[j] = s[j]
            <7>1. j \in 1..Len(s)
              BY <3>7, <5>2
            <7>2. s[j] \in Int
              <8>1. s \in Seq(Int)
                BY <3>4
              <8> QED BY <7>1, <8>1
            <7> QED BY <3>4, <3>8, <5>2, <7>2
          <6> QED BY <5>1, <6>1
        <5>3. CASE j \notin 1..m
          <6>1. t[j] = b + (j - m)
            BY <3>9, <5>3
          <6> QED BY <3>13, <5>1, <6>1
        <5> QED BY <5>2, <5>3
      <4> QED BY <4>1, <4>2
    <3>10. ASSUME NEW k \in DOMAIN t PROVE t[k] <= e
      <4>1. k \in 1..(m + n)
        BY <3>8
      <4>2. CASE k \in 1..m
        <5>1. s[k] \in Int /\ s[k] <= b /\ t[k] = s[k]
          <6>1. k \in 1..Len(s)
            BY <3>7, <4>2
          <6>2. s[k] \in Int
            <7>1. s \in Seq(Int)
              BY <3>4
            <7> QED BY <6>1, <7>1
          <6> QED BY <3>4, <3>8, <4>2, <6>2
        <5> QED BY <3>3, <5>1
      <4> QED BY <3>9, <4>1, <4>2
    <3>11. i \in 0..MaxFrames
      BY <2>2
    <3>12. <<i, t>> \in (0..MaxFrames) \X Seq(Int) /\ <<i, t>>[1] = i /\ <<i, t>>[2] = t
      BY <3>8, <3>11
    <3>14. <<i, t>> \in Good
      <4>1. Ascending(t) /\ Below(t, Offset(i))
        BY <2>3, <3>3, <3>8, <3>10, <3>13
      <4> HIDE DEF Ascending, Below
      <4> QED BY <3>12, <4>1
    <3> QED BY <3>1, <3>6, <3>14
  <2>6. <<total, output>> \in Good
    <3> HIDE DEF Good
    <3> QED BY <2>1, <2>2, <2>4, <2>5, JoinInduction
  <2> QED BY <2>6
<1> QED BY <1>1, ResultsAreKept, PTL

(* Whatever parts are joined, all bytes are of the payload if the number of *)
(* frames that won is that of the payload, and all are padding otherwise    *)
(* (main.go:297-314; reconstructor.go:183-198).                            *)
THEOREM NotMixed == Spec => []NothingIsMixed
<1>1. IInv => NothingIsMixed
  <2> SUFFICES ASSUME IInv, phase = "done", padding # FrameCount(size),
                      \A r \in Results : r.result # "error" => r.frame \in PayloadFrames \cup PaddingFrames
               PROVE  (\A k \in DOMAIN output : output[k] = Noise)
                      \/ (\A k \in DOMAIN output : output[k] # Noise)
    BY DEF NothingIsMixed
  <2>1. PICK total \in Winners : output = Join(frameByIndex, total)
    BY DEF IInv, OutputIsJoined
  <2>2. total \in 1..MaxFrames /\ total \in Nat /\ MaxFrames \in Nat
    BY WinnersFacts, CapacityFacts DEF IInv
  <2>3. PICK bytes : bytes = IF total = FrameCount(size) THEN Int \ {Noise} ELSE {Noise}
    OBVIOUS
  <2> DEFINE Good == Nat \X Seq(bytes)
  <2>4. <<0, <<>>>> \in Good
    <3>1. <<>> \in Seq(bytes) /\ 0 \in Nat
      OBVIOUS
    <3> QED BY <3>1
  <2>5. ASSUME NEW i \in 1..total PROVE Part(frameByIndex, i, total) \in Seq(bytes)
    <3>1. PICK d \in Seq(Int) : d = Part(frameByIndex, i, total)
      BY <2>2, PartFacts
    <3>2. CASE d = <<>>
      <4>1. <<>> \in Seq(bytes)
        OBVIOUS
      <4> QED BY <3>1, <3>2, <4>1
    <3>3. CASE d # <<>>
      <4>1. PICK r \in Results : r.result # "error" /\ r.frame.total = total /\ d = r.frame.data
        BY <2>2, <3>1, <3>3, PartFacts
      <4>2. PICK m \in Nat : m = Len(d) /\ DOMAIN d = 1..m
        BY <3>1
      <4>3. ASSUME NEW k \in 1..m PROVE d[k] \in bytes
        <5>1. CASE r.frame \in PayloadFrames
          <6>1. r.frame.total = FrameCount(size) /\ size \in Nat /\ r.frame.data = FrameData(size, r.frame.index)
            BY <5>1, PayloadFrameFacts DEF IInv
          <6>2. FrameCount(size) \in Nat /\ r.frame.index \in 0..(FrameCount(size) - 1)
            BY <5>1, PayloadFrameFacts, CapacityFacts DEF IInv, Typed
          <6>3. PICK h \in Nat : h = r.frame.index
            BY <6>2
          <6>4. \A n, o \in Nat : \A j \in 1..Len(FrameData(n, o)) : FrameData(n, o)[j] = Offset(o) + j
            BY FrameDataFacts
          <6>5. d = FrameData(size, h)
            BY <4>1, <6>1, <6>3
          <6>6. PICK b \in Nat : b = Offset(h)
            <7>1. \A n, o \in Nat : Offset(o) \in Nat
              BY FrameDataFacts
            <7> QED BY <6>1, <7>1
          <6>8. d[k] = b + k /\ k \in Nat
            BY <4>2, <6>1, <6>4, <6>5, <6>6
          <6>7. d[k] \in Int /\ d[k] # Noise
            <7>1. PICK v \in Nat : v = b + k
              BY <6>8
            <7>2. v \in Int /\ v # Noise
              BY DEF Noise
            <7> QED BY <6>8, <7>1, <7>2
          <6> QED BY <2>3, <4>1, <6>1, <6>7
        <5>2. CASE r.frame \in PaddingFrames
          <6>1. PICK j \in 0..(padding - 1) : r.frame = PlainFrame(j, padding, [o \in 1..Capacity |-> Noise])
            BY <5>2 DEF PaddingFrames
          <6>2. r.frame.total = padding /\ r.frame.data = [o \in 1..Capacity |-> Noise]
            BY <6>1 DEF PlainFrame
          <6>3. d = [o \in 1..Capacity |-> Noise]
            BY <4>1, <6>2
          <6>4. d[k] = Noise
            BY <4>2, <6>3
          <6> QED BY <2>3, <4>1, <6>2, <6>4
        <5> QED BY <4>1, <5>1, <5>2
      <4>4. d \in [1..m -> bytes]
        BY <3>1, <4>2, <4>3
      <4> QED BY <3>1, <4>2, <4>4
    <3> QED BY <3>2, <3>3
  <2>6. ASSUME NEW i \in 1..total, NEW s, <<i - 1, s>> \in Good
        PROVE  <<i, s \o Part(frameByIndex, i, total)>> \in Good
    <3>1. PICK d \in Seq(bytes) : d = Part(frameByIndex, i, total)
      BY <2>5
    <3>2. s \in Seq(bytes) /\ i \in Nat
      BY <2>6
    <3>3. s \o d \in Seq(bytes)
      BY <3>2
    <3> QED BY <3>1, <3>2, <3>3
  <2>7. <<total, output>> \in Good
    <3> HIDE DEF Good
    <3> QED BY <2>1, <2>2, <2>4, <2>6, JoinInduction
  <2>8. output \in Seq(bytes)
    BY <2>7
  <2>9. \A k \in DOMAIN output : output[k] \in bytes
    <3>1. DOMAIN output = 1..Len(output)
      BY <2>8
    <3> QED BY <2>8, <3>1
  <2> QED BY <2>3, <2>9
<1> QED BY <1>1, ResultsAreKept, PTL

(* The frames are enough for the payload. *)
LEMMA FramesHoldPayload ==
  ASSUME NEW n \in Nat
  PROVE  FrameCount(n) \in Nat /\ n <= Offset(FrameCount(n))
<1>1. PICK C \in Nat \ {0} : C = Capacity
  BY CapacityFacts
<1>2. PICK rest \in Nat : rest = IF n > C THEN n - C ELSE 0
  <2>1. n > C => n - C \in Nat
    BY <1>1
  <2> QED BY <2>1
<1>3. PICK a \in Nat : a = rest + C - 1
  BY <1>1, <1>2
<1>4. PICK q \in Nat : q = a \div C
  BY <1>1, <1>3
<1>5. FrameCount(n) = 1 + q
  BY <1>1, <1>2, <1>3, <1>4 DEF FrameCount
<1>6. a < C * q + C
  <2>1. a < C * (a \div C) + C
    BY SMTT(20)
  <2> QED BY <1>4, <2>1
<1>7. PICK p \in Nat : p = C * q
  BY <1>1, <1>4
<1>8. n <= p + C
  BY <1>1, <1>2, <1>3, <1>6, <1>7
<1>9. Offset(1 + q) = p + C
  BY <1>1, <1>4, <1>7 DEF Offset
<1> QED BY <1>5, <1>8, <1>9

(* The frames of a payload that came back correctable are all kept, each    *)
(* verified under its own index, whatever else was read: then the parts     *)
(* follow each other up to the last byte                                   *)
(* (reconstructor.go:146-217, 506-550; video.go:102-125).                  *)
THEOREM Restored == Spec => []CompleteIsRestored
<1> DEFINE Good == {p \in Nat \X Seq(Int) : /\ Len(p[2]) = Smaller(Offset(p[1]), size)
                                            /\ \A k \in 1..Len(p[2]) : p[2][k] = k}
<1>1. IInv => CompleteIsRestored
  <2> SUFFICES ASSUME IInv, phase = "done", padding = 0, Winners = {FrameCount(size)},
                      \A f \in PayloadFrames : \E k \in DOMAIN images : images[k].of = f /\ images[k].correctable
               PROVE  output = Original
    BY DEF CompleteIsRestored
  <2>1. PICK total \in Winners : output = Join(frameByIndex, total)
    BY DEF IInv, OutputIsJoined
  <2>2. total \in 1..MaxFrames /\ total \in Nat /\ MaxFrames \in Nat /\ total = FrameCount(size)
    BY WinnersFacts, CapacityFacts DEF IInv
  <2>3. size \in Nat
    BY CapacityFacts DEF IInv, Typed
  <2>4. PICK C \in Nat \ {0} : C = Capacity
    BY CapacityFacts
  <2>5. ASSUME NEW i \in 1..total PROVE Part(frameByIndex, i, total) = FrameData(size, i - 1)
    <3>1. PICK h \in 0..(total - 1) : h = i - 1
      <4>1. i - 1 \in 0..(total - 1)
        BY <2>2
      <4> QED BY <4>1
    <3>2. h \in 0..(MaxFrames - 1)
      BY <2>2
    <3>3. PICK f \in PayloadFrames : f = PlainFrame(h, total, FrameData(size, h))
      BY <2>2 DEF PayloadFrames
    <3>4. f.index = h
      BY <3>3 DEF PlainFrame
    <3>5. PICK k \in DOMAIN images : images[k].of = f /\ images[k].correctable
      OBVIOUS
    <3>6. ProcessFrame(images[k].attempts) = Verified(f)
      BY <3>5, ResultsFacts DEF IInv
    <3>7. ProcessFrame(images[k].attempts).result = "verified" /\ ProcessFrame(images[k].attempts).frame.index = h
      BY <3>4, <3>6 DEF Verified
    <3>8. waiting = {}
      BY DEF IInv, OutputIsJoined
    <3>9. frameByIndex[h].result = "verified"
      BY <3>7, <3>8 DEF IInv, VerifiedAreKept
    <3>10. PICK g : g = frameByIndex[h].frame
      OBVIOUS
    <3>11. g.index = h /\ \E j \in DOMAIN images : frameByIndex[h] = ProcessFrame(images[j].attempts)
      BY <3>2, <3>9, <3>10 DEF IInv, KeptAreRead
    <3>12. g \in Sent
      BY <3>9, <3>10, <3>11, ResultsFacts DEF IInv
    <3>13. g \in PayloadFrames
      <4>1. PaddingFrames = {}
        BY DEF PaddingFrames
      <4> QED BY <3>12, <4>1 DEF Sent
    <3>14. g.total = total /\ g.data = FrameData(size, h)
      BY <2>2, <3>11, <3>13, PayloadFrameFacts DEF IInv
    <3> QED BY <3>1, <3>9, <3>10, <3>14 DEF Part
  <2>6. <<0, <<>>>> \in Good
    <3>1. PICK none \in Seq(Int) : none = <<>>
      <4>1. <<>> \in Seq(Int)
        OBVIOUS
      <4> QED BY <4>1, Zenon
    <3>2. Len(none) = 0
      BY <3>1
    <3>3. Smaller(Offset(0), size) = 0
      BY <2>3, <2>4 DEF Smaller, Offset
    <3>4. <<0, none>> \in Nat \X Seq(Int) /\ <<0, none>>[1] = 0 /\ <<0, none>>[2] = none
      OBVIOUS
    <3> QED BY <3>1, <3>2, <3>3, <3>4
  <2>7. ASSUME NEW i \in 1..total, NEW s, <<i - 1, s>> \in Good
        PROVE  <<i, s \o Part(frameByIndex, i, total)>> \in Good
    <3>1. PICK h \in Nat : h = i - 1 /\ i = h + 1
      OBVIOUS
    <3>2. PICK b \in Nat, e \in Nat : b = Offset(h) /\ e = Offset(i) /\ e = b + C
      BY <2>4, <3>1 DEF Offset
    <3>3. PICK d : d = FrameData(size, h)
      OBVIOUS
    <3>4. \A n, o \in Nat : /\ FrameData(n, o) \in Seq(Int)
                            /\ Len(FrameData(n, o)) = IF Offset(o) >= n THEN 0
                                                      ELSE Smaller(Offset(o) + Capacity, n) - Offset(o)
      BY FrameDataFacts
    <3>5. \A n, o \in Nat : \A j \in 1..Len(FrameData(n, o)) : FrameData(n, o)[j] = Offset(o) + j
      BY FrameDataFacts
    <3>6. /\ d \in Seq(Int)
          /\ Len(d) = IF b >= size THEN 0 ELSE Smaller(b + C, size) - b
      BY <2>3, <2>4, <3>2, <3>3, <3>4
    <3>7. \A j \in 1..Len(d) : d[j] = b + j
      BY <2>3, <3>2, <3>3, <3>5
    <3>8. s \in Seq(Int) /\ Len(s) = Smaller(b, size) /\ \A k \in 1..Len(s) : s[k] = k
      BY <2>7, <3>1, <3>2
    <3>9. PICK m \in Nat, n \in Nat : m = Len(s) /\ n = Len(d)
      BY <3>6, <3>8
    <3>10. PICK t : t = s \o d
      OBVIOUS
    <3>11. /\ t \in Seq(Int) /\ Len(t) = m + n
           /\ \A k \in 1..m : t[k] = s[k]
           /\ \A k \in 1..n : t[m + k] = d[k]
      <4>1. s \in Seq(Int) /\ d \in Seq(Int)
        BY <3>6, <3>8
      <4> QED BY <3>9, <3>10, <4>1
    <3>12. m + n = Smaller(e, size) /\ (n # 0 => m = b)
      <4>1. m = IF b < size THEN b ELSE size
        BY <3>8, <3>9 DEF Smaller
      <4>2. n = IF b >= size THEN 0 ELSE (IF b + C < size THEN b + C ELSE size) - b
        BY <3>6, <3>9 DEF Smaller
      <4>3. Smaller(e, size) = IF e < size THEN e ELSE size
        BY DEF Smaller
      <4>4. CASE b >= size
        BY <2>3, <3>2, <4>1, <4>2, <4>3, <4>4
      <4>5. CASE b < size
        BY <2>3, <3>2, <4>1, <4>2, <4>3, <4>5
      <4> QED BY <2>3, <4>4, <4>5
    <3>13. ASSUME NEW k \in 1..(m + n) PROVE t[k] = k
      <4>1. CASE k \in 1..m
        BY <3>8, <3>9, <3>11, <4>1
      <4>2. CASE k \notin 1..m
        <5>1. PICK o \in 1..n : k = m + o
          <6>1. k - m \in 1..n /\ k = m + (k - m)
            BY <4>2
          <6> QED BY <6>1
        <5>2. t[k] = d[o] /\ d[o] = b + o
          BY <3>7, <3>9, <3>11, <5>1
        <5>3. m = b
          BY <3>12
        <5> QED BY <5>1, <5>2, <5>3
      <4> QED BY <4>1, <4>2
    <3>14. <<i, t>> \in Nat \X Seq(Int) /\ <<i, t>>[1] = i /\ <<i, t>>[2] = t
      BY <3>11
    <3>15. Len(t) = Smaller(Offset(i), size) /\ \A k \in 1..Len(t) : t[k] = k
      BY <3>2, <3>11, <3>12, <3>13
    <3>16. <<i, t>> \in Good
      BY <3>14, <3>15
    <3>17. Part(frameByIndex, i, total) = d
      BY <2>5, <3>1, <3>3
    <3> QED BY <3>10, <3>16, <3>17
  <2>8. <<total, output>> \in Good
    <3> HIDE DEF Good
    <3> QED BY <2>1, <2>2, <2>6, <2>7, JoinInduction
  <2>9. output \in Seq(Int) /\ Len(output) = Smaller(Offset(total), size) /\ \A k \in 1..Len(output) : output[k] = k
    BY <2>8
  <2>10. Smaller(Offset(total), size) = size
    <3>1. size <= Offset(total)
      BY <2>2, <2>3, FramesHoldPayload
    <3>2. Offset(total) \in Nat
      BY <2>2, <2>4 DEF Offset
    <3> QED BY <2>3, <3>1, <3>2 DEF Smaller
  <2>11. output = [k \in 1..size |-> output[k]]
    BY <2>9, <2>10
  <2>12. \A k \in 1..size : output[k] = k
    BY <2>9, <2>10
  <2> QED BY <2>11, <2>12 DEF Original
<1> QED BY <1>1, ResultsAreKept, PTL
=============================================================================
