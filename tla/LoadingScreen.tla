---------------------------- MODULE LoadingScreen ----------------------------
(***************************************************************************)
(* runWithLoading runs an operation behind an animated line of the         *)
(* terminal: a goroutine draws the last reported status at every tick      *)
(* until the operation has returned and Stop ends it.                      *)
(***************************************************************************)
EXTENDS Integers

CONSTANT Blank    (* no status yet, or nothing on the line *)

VARIABLES
  status,       (* what the operation reported last *)
  painter,      (* the goroutine of Start: "select", "print" or "exited" *)
  snapshot,     (* the status it is about to print *)
  line,         (* what the terminal shows *)
  cursor,       (* whether the cursor is visible *)
  stopping      (* stopCh is closed *)

screen == <<status, painter, snapshot, line, cursor, stopping>>

InitScreen ==
  /\ status = Blank /\ snapshot = Blank /\ line = Blank
  /\ painter = "select" /\ cursor = FALSE /\ stopping = FALSE

(* Update *)
Report(s) ==
  /\ status' = s
  /\ UNCHANGED <<painter, snapshot, line, cursor, stopping>>

(* render takes the status under the lock and prints it without.           *)
Tick ==
  /\ painter = "select" /\ status # Blank
  /\ snapshot' = status
  /\ painter' = "print"
  /\ UNCHANGED <<status, line, cursor, stopping>>

Draw ==
  /\ painter = "print"
  /\ line' = snapshot
  /\ painter' = "select"
  /\ UNCHANGED <<status, snapshot, cursor, stopping>>

Quit ==
  /\ painter = "select" /\ stopping
  /\ painter' = "exited"
  /\ UNCHANGED <<status, snapshot, line, cursor, stopping>>

Paint == Tick \/ Draw \/ Quit

(* Stop asks the goroutine to end, ...                                      *)
RequestStop ==
  /\ stopping' = TRUE
  /\ UNCHANGED <<status, painter, snapshot, line, cursor>>

(* Mutant: Stop does not wait for doneCh. *)
ClearAtOnce ==
  /\ line' = Blank /\ cursor' = TRUE
  /\ UNCHANGED <<status, painter, snapshot, stopping>>

(* ... waits for it, and clears the line.                                   *)
Clear ==
  /\ painter = "exited"
  /\ line' = Blank /\ cursor' = TRUE
  /\ UNCHANGED <<status, painter, snapshot, stopping>>

(* A select with a tick and a stop picks either, so a stop is taken in the  *)
(* end.                                                                     *)
PaintFairness == WF_screen(Draw) /\ SF_screen(Quit)

(* The terminal is left as it was found, for good: no late tick draws over  *)
(* what the menu prints next (main.go:77-100, 122-169).                     *)
CleanScreen == line = Blank /\ cursor /\ painter = "exited"
=============================================================================
