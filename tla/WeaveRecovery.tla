---------------------------- MODULE WeaveRecovery ----------------------------
(***************************************************************************)
(* What the Weave codec promises: once the frames that survive the         *)
(* transport have arrived, in any order and however often, the file is     *)
(* restored exactly when they determine it, and given up otherwise.        *)
(***************************************************************************)
EXTENDS WeaveInterleave

CONSTANT Cfg

VARIABLES
  sent,     (* the size of the file that was sent                 *)
  arrived,  (* the intact frames that have come back              *)
  outcome   (* "pending", then "restored" or "lost"               *)

vars == <<sent, arrived, outcome>>

Init == PlanAccepts(sent, Cfg) /\ arrived = {} /\ outcome = "pending"

Arrive(f) ==
  /\ outcome = "pending"
  /\ arrived' = arrived \cup {f}
  /\ UNCHANGED <<sent, outcome>>

Decide ==
  /\ outcome = "pending"
  /\ outcome' = IF Recoverable(arrived, sent, Cfg) THEN "restored" ELSE "lost"
  /\ UNCHANGED <<sent, arrived>>

Next == Decide \/ \E f \in Encoded(sent, Cfg) : Arrive(f)

Spec == Init /\ [][Next]_vars /\ WF_vars(Decide)
=============================================================================
