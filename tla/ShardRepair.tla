------------------------------ MODULE ShardRepair ------------------------------
(***************************************************************************)
(* The error correction of a frame of the presets before Weave, as the     *)
(* decoder uses it: FrameReconstructor.tryDecodePayload, which looks for   *)
(* the shards that came back damaged without knowing which they are.       *)
(*                                                                         *)
(* The Reed-Solomon library is taken by its distance: what as many shards  *)
(* as there are data shards say determines the others.  So whatever is     *)
(* left after all parity was spent on erasures verifies, and after fewer   *)
(* erasures damage among the other shards is seen; that made-up bytes      *)
(* happen to agree is left out.  Sizes of data are counted in shards: the  *)
(* header takes the first one.                                             *)
(***************************************************************************)
EXTENDS Integers, Sequences, FiniteSets

CONSTANTS
  Codes,        (* candidateECCConfigs: 16 + 8, which frames are drawn with, *)
                (* and 10 + 6, as records [data, parity]                   *)
  SearchAbove,  (* 6: a code of more parity is searched *)
  SearchLimit   (* 4: up to this number of erasures only *)

ASSUME CodeAssumption ==
  /\ Codes \in Seq([data : Nat \ {0}, parity : Nat \ {0}]) /\ Codes # <<>>
  /\ SearchAbove \in Nat \ {0} /\ SearchLimit \in 1..SearchAbove
  /\ Codes[1].parity > SearchAbove

Shards(c) == 0..(c.data + c.parity - 1)

(***************************************************************************)
(* A buffer is what the macropixels of an image were read as: which shards *)
(* are not as they were drawn; whether the header is the frame's, another  *)
(* one that still parses, or none; and whether the other shards are right  *)
(* in the columns of the header.                                           *)
(***************************************************************************)
Buffer(damaged, header, columns) ==
  [damaged |-> damaged, header |-> header, columns |-> columns]

Intact == Buffer({}, "sent", TRUE)

Buffers ==
  {b \in {Buffer(d, h, s) : d \in SUBSET Shards(Codes[1]), h \in {"sent", "other", "none"}, s \in BOOLEAN} :
     /\ b.header # "sent" => 0 \in b.damaged
     /\ ~b.columns => b.damaged # {}}

-----------------------------------------------------------------------------
(* repairCorruptShards *)

(* Mutant: a code is searched up to all of its parity shards. *)
RepairAll(c) == c.parity

MaxRepairErasures(c) == IF c.parity > SearchAbove THEN SearchLimit ELSE c.parity

(* Combinations of fewer shards are tried before those of more, and those   *)
(* of the same number in the order of their first shard that differs.      *)
Sooner(d, e) ==
  \/ Cardinality(d) < Cardinality(e)
  \/ /\ Cardinality(d) = Cardinality(e)
     /\ \E i \in d \ e : \A j \in (d \ e) \cup (e \ d) : i <= j

Damage(b, c) == b.damaged \cap Shards(c)

(* The bytes of a frame that was drawn with another code agree nowhere. *)
Verifies(b, c, own) == own /\ Damage(b, c) = {}

(* The combinations after whose erasure the shards verify. *)
Agreeing(b, c, own) ==
  {e \in SUBSET Shards(c) :
     /\ Cardinality(e) \in 1..MaxRepairErasures(c)
     /\ (own /\ Damage(b, c) \subseteq e) \/ Cardinality(e) = c.parity}

Repairs(b, c, own) == ~Verifies(b, c, own) /\ Agreeing(b, c, own) # {}

(* The erased shards are computed from the others and written into the      *)
(* bytes of the image.  They are right if all damaged ones were among them; *)
(* if not, only in the columns in which nothing else is damaged, and under *)
(* another code never.                                                     *)
Repaired(b, c, own) ==
  LET found == Agreeing(b, c, own)
      e == CHOOSE d \in found : \A o \in found \ {d} : Sooner(d, o)
      columns == own /\ b.columns
  IN  IF own /\ Damage(b, c) \subseteq e
      THEN Buffer(b.damaged \ Shards(c), "sent", TRUE)
      ELSE Buffer(b.damaged \cup e,
                  CASE 0 \notin e -> b.header
                    [] 0 \in e /\ columns -> "sent"
                    [] OTHER -> "none",
                  columns)

-----------------------------------------------------------------------------
(* tryDecodePayload *)

(* parsePlainFrame: header and data take length shards, which may be more  *)
(* than the code has for data.                                             *)
ParsePlainFrame(b, c, length) ==
  \/ b.header = "sent" /\ length <= c.data
  \/ b.header = "other"

(* What was made of a buffer, and whether the data in it is what was drawn. *)
Candidate(result, b, length) ==
  [result |-> result, header |-> b.header, data |-> b.damaged \cap 0..(length - 1) = {}]

NoCandidate == [result |-> "error", header |-> "none", data |-> FALSE]

(* First the shards as they are, then with repair.  What parses without     *)
(* having verified is kept for want of better.                             *)
TryDecodePayload(b, c, own, length) ==
  LET repaired == Repaired(b, c, own)
  IN  CASE Verifies(b, c, own) -> Candidate("verified", b, length)
        [] Repairs(b, c, own) /\ ParsePlainFrame(repaired, c, length) -> Candidate("verified", repaired, length)
        [] OTHER -> IF ParsePlainFrame(b, c, length) THEN Candidate("unverified", b, length) ELSE NoCandidate

(* The bytes the next code is tried on. *)
BufferAfter(b, c, own) == IF Repairs(b, c, own) THEN Repaired(b, c, own) ELSE b

(* The loop over the codes ends with the first that verifies; until then    *)
(* the first candidate that parses is kept.                                *)
TryCode(acc, c, length) ==
  LET own == c = Codes[1]
      tried == TryDecodePayload(acc.buffer, c, own, length)
  IN  CASE acc.kept.result = "verified" -> acc
        [] acc.kept.result = "unverified" /\ tried.result # "verified" ->
             [acc EXCEPT !.buffer = BufferAfter(@, c, own)]
        [] OTHER -> [buffer |-> BufferAfter(acc.buffer, c, own), kept |-> tried]

TryCodes(b, length) ==
  LET after[k \in 0..Len(Codes)] ==
        IF k = 0 THEN [buffer |-> b, kept |-> NoCandidate]
        ELSE TryCode(after[k - 1], Codes[k], length)
  IN  after[Len(Codes)].kept
=============================================================================
