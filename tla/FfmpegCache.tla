----------------------------- MODULE FfmpegCache -----------------------------
(***************************************************************************)
(* The FFmpeg that is packed inside the executable is unpacked into a      *)
(* cache directory the first time a process needs it and shared by all     *)
(* processes of the user: Path, materialize, writeNotice and lockCache.    *)
(* Processes may crash at any step, and other programs may remove or       *)
(* damage what is in the cache.                                            *)
(***************************************************************************)
EXTENDS Naturals

CONSTANTS
  Procs,        (* NoiseCloud processes *)
  Nobody,
  OnWindows,    (* the lock is a named mutex of the session and an open file *)
                (* cannot be replaced; elsewhere the lock is the process's   *)
  MaxCrashes,
  MaxTampers    (* changes to the cache by other programs *)

ASSUME CacheAssumption ==
  /\ Nobody \notin Procs
  /\ OnWindows \in BOOLEAN
  /\ MaxCrashes \in Nat /\ MaxTampers \in Nat

VARIABLES
  intact,    (* the embedded bundle unpacks to its own size and digest *)
  exe,       (* ffmpeg.exe in the cache *)
  notices,   (* which notices beside it are the bundle's *)
  holder,    (* who holds the named mutex *)
  pc,        (* where each process is in Path *)
  seen,      (* the ffmpeg.exe a process has open for verification *)
  temp,      (* the temporary executable of a process *)
  draft,     (* whether a process has a temporary notice *)
  ok,        (* whether materialize will return the path *)
  resolved,  (* resolvedPath is set *)
  running,   (* the ffmpeg.exe a process executes *)
  crashes, tampers,
  touched    (* ffmpeg.exe was tampered with since the process verified it *)

files == <<exe, notices, temp, draft>>
env == <<intact, crashes, tampers>>
vars == <<intact, exe, notices, holder, pc, seen, temp, draft, ok, resolved,
          running, crashes, tampers, touched>>

None == "none"

NoticeNames == {"LICENSE.txt", "README.txt"}

(* Where materialize has an I/O call whose error it returns. *)
CanFail == {"mkdir", "copy", "close"} \cup NoticeNames

Inside == CanFail \cup {"verify", "matches", "rename", "recheck", "rematches", "return",
                        "unlock"}

Steps == Inside \cup {"idle", "lock", "exec"}

Go(p, from, to) == pc[p] = from /\ pc' = [pc EXCEPT ![p] = to]

-----------------------------------------------------------------------------
(* Path *)

(* A path resolved earlier is good as long as there is a file. *)
ReturnResolved(p) ==
  /\ resolved[p] /\ exe # "absent" /\ running[p] = None
  /\ Go(p, "idle", "exec")
  /\ UNCHANGED <<files, env, holder, seen, ok, resolved, running, touched>>

CallMaterialize(p) ==
  /\ ~(resolved[p] /\ exe # "absent") /\ running[p] = None
  /\ Go(p, "idle", "lock")
  /\ ok' = [ok EXCEPT ![p] = FALSE]
  /\ UNCHANGED <<files, env, holder, seen, resolved, running, touched>>

(* The caller of Path starts what is at the path by now. *)
Execute(p) ==
  /\ Go(p, "exec", "idle")
  /\ running' = [running EXCEPT ![p] = IF exe = "absent" THEN None ELSE exe]
  /\ UNCHANGED <<files, env, holder, seen, ok, resolved, touched>>

FfmpegEnds(p) ==
  /\ running[p] # None
  /\ running' = [running EXCEPT ![p] = None]
  /\ UNCHANGED <<files, env, holder, pc, seen, ok, resolved, touched>>

-----------------------------------------------------------------------------
(* lockCache *)

(* Mutant: the cache is verified and replaced without the lock. *)
LockNothing(p) ==
  /\ Go(p, "lock", "verify")
  /\ UNCHANGED <<files, env, holder, seen, ok, resolved, running, touched>>

(* The mutex of a process that crashed is granted as abandoned. *)
Lock(p) ==
  /\ OnWindows => holder = Nobody
  /\ Go(p, "lock", "verify")
  /\ holder' = IF OnWindows THEN p ELSE holder
  /\ UNCHANGED <<files, env, seen, ok, resolved, running, touched>>

(* Mutant: the process waits until it gets the mutex. *)
LockWaits(p) == FALSE /\ UNCHANGED <<vars, p>>

(* WaitForSingleObject gives up after two minutes, or CreateMutex fails. *)
LockFails(p) ==
  /\ OnWindows
  /\ Go(p, "lock", "idle")
  /\ resolved' = [resolved EXCEPT ![p] = FALSE]
  /\ UNCHANGED <<files, env, holder, seen, ok, running, touched>>

Unlock(p) == holder' = IF holder = p THEN Nobody ELSE holder

-----------------------------------------------------------------------------
(* materialize *)

(* matchesFile opens the file, and hashes what it opened even when another  *)
(* file has taken the name since.                                           *)
OpenExe(p) ==
  /\ \/ Go(p, "verify", "matches")
     \/ Go(p, "recheck", "rematches")
  /\ seen' = [seen EXCEPT ![p] = exe]
  /\ touched' = [touched EXCEPT ![p] = FALSE]
  /\ UNCHANGED <<files, env, holder, ok, resolved, running>>

(* Mutant: any file of that name will do. *)
AcceptExisting(p) ==
  /\ \/ Go(p, "matches", IF seen[p] # "absent" THEN "return" ELSE "mkdir")
     \/ Go(p, "rematches", "return")
  /\ ok' = [ok EXCEPT ![p] = seen[p] # "absent"]
  /\ seen' = [seen EXCEPT ![p] = None]
  /\ UNCHANGED <<files, env, holder, resolved, running, touched>>

(* A file that cannot be read to its end does not match either. *)
MatchesFile(p) ==
  /\ \E matches \in {seen[p] = "valid", FALSE} :
       /\ \/ Go(p, "matches", IF matches THEN "return" ELSE "mkdir")
          \/ Go(p, "rematches", "return")
       /\ ok' = [ok EXCEPT ![p] = matches]
  /\ seen' = [seen EXCEPT ![p] = None]
  /\ UNCHANGED <<files, env, holder, resolved, running, touched>>

(* Mutant: the executable is unpacked where it is executed. *)
CreateInPlace(p) ==
  /\ Go(p, "mkdir", "copy")
  /\ temp' = [temp EXCEPT ![p] = "partial"]
  /\ exe' = "partial"
  /\ UNCHANGED <<notices, draft, env, holder, seen, ok, resolved,
                 running, touched>>

(* MkdirAll and CreateTemp. *)
CreateTemp(p) ==
  /\ Go(p, "mkdir", "copy")
  /\ temp' = [temp EXCEPT ![p] = "partial"]
  /\ UNCHANGED <<exe, notices, draft, env, holder, seen, ok, resolved,
                 running, touched>>

(* Mutant: the size and the digest of what was unpacked are not compared. *)
CopyUnchecked(p) ==
  /\ temp' = [temp EXCEPT ![p] = IF intact THEN "valid" ELSE "broken"]
  /\ Go(p, "copy", "close")
  /\ UNCHANGED <<exe, notices, draft, env, holder, seen, ok, resolved,
                 running, touched>>

Copy(p) ==
  /\ temp' = [temp EXCEPT ![p] = IF intact THEN "valid" ELSE "broken"]
  /\ Go(p, "copy", IF intact THEN "close" ELSE "return")
  /\ UNCHANGED <<exe, notices, draft, env, holder, seen, ok, resolved,
                 running, touched>>

(* Chmod and Close of the temporary file. *)
CloseTemp(p) ==
  /\ Go(p, "close", "LICENSE.txt")
  /\ UNCHANGED <<files, env, holder, seen, ok, resolved, running, touched>>

(* Mutant: the executable is installed after the first notice. *)
AfterLicense(name) == "rename"

After(name) == IF name = "LICENSE.txt" THEN "README.txt" ELSE "rename"

(* writeNotice: CreateTemp and Write, unless the notice is there already. *)
DraftNotice(p) ==
  /\ pc[p] \in NoticeNames \ notices /\ ~draft[p]
  /\ draft' = [draft EXCEPT ![p] = TRUE]
  /\ UNCHANGED <<exe, notices, temp, env, holder, pc, seen, ok,
                 resolved, running, touched>>

(* writeNotice: the Rename of its temporary file. *)
RenameNotice(p) ==
  \E name \in NoticeNames :
    /\ Go(p, name, After(name))
    /\ draft[p]
    /\ notices' = notices \cup {name}
    /\ draft' = [draft EXCEPT ![p] = FALSE]
    /\ UNCHANGED <<exe, temp, env, holder, seen, ok, resolved, running, touched>>

(* writeNotice: it was there, or has been written while Rename was denied. *)
SkipNotice(p) ==
  \E name \in notices :
    /\ Go(p, name, After(name))
    /\ draft' = [draft EXCEPT ![p] = FALSE]
    /\ UNCHANGED <<exe, notices, temp, env, holder, seen, ok, resolved,
                   running, touched>>

(* The processes that keep ffmpeg.exe from being replaced. *)
Users == {q \in Procs : running[q] # None \/ seen[q] \notin {None, "absent"}}

RenameExe(p) ==
  /\ OnWindows => Users = {}
  /\ Go(p, "rename", "return")
  /\ exe' = temp[p]
  /\ temp' = [temp EXCEPT ![p] = None]
  /\ ok' = [ok EXCEPT ![p] = TRUE]
  /\ touched' = [touched EXCEPT ![p] = FALSE]
  /\ UNCHANGED <<notices, draft, env, holder, seen, resolved, running>>

(* Somebody uses the file, or Rename fails for another reason. *)
RenameDenied(p) ==
  /\ Go(p, "rename", "recheck")
  /\ UNCHANGED <<files, env, holder, seen, ok, resolved, running, touched>>

(* Any other call that fails ends materialize, and writeNotice removes its  *)
(* temporary file.                                                          *)
Fail(p) ==
  /\ pc[p] \in CanFail
  /\ pc' = [pc EXCEPT ![p] = "return"]
  /\ draft' = [draft EXCEPT ![p] = FALSE]
  /\ UNCHANGED <<exe, notices, temp, env, holder, seen, ok, resolved,
                 running, touched>>

(* Mutant: Remove is deferred after Close and fails on the open file. *)
KeepTemp(p) ==
  /\ Go(p, "return", "unlock")
  /\ UNCHANGED <<files, env, holder, seen, ok, resolved, running, touched>>

(* The deferred calls close and remove the temporary file, *)
RemoveTemp(p) ==
  /\ Go(p, "return", "unlock")
  /\ temp' = [temp EXCEPT ![p] = None]
  /\ UNCHANGED <<exe, notices, draft, env, holder, seen, ok, resolved, running, touched>>

(* and the last of them releases the lock. *)
Return(p) ==
  /\ Go(p, "unlock", IF ok[p] THEN "exec" ELSE "idle")
  /\ resolved' = [resolved EXCEPT ![p] = ok[p]]
  /\ Unlock(p)
  /\ UNCHANGED <<files, env, seen, ok, running, touched>>

-----------------------------------------------------------------------------
(* The environment *)

(* What a process that crashed leaves behind has a name of its own, which   *)
(* nobody uses again.                                                       *)
Crash(p) ==
  /\ crashes < MaxCrashes /\ pc[p] # "idle"
  /\ crashes' = crashes + 1
  /\ pc' = [pc EXCEPT ![p] = "idle"]
  /\ seen' = [seen EXCEPT ![p] = None]
  /\ temp' = [temp EXCEPT ![p] = None]
  /\ draft' = [draft EXCEPT ![p] = FALSE]
  /\ resolved' = [resolved EXCEPT ![p] = FALSE]
  /\ running' = [running EXCEPT ![p] = None]
  /\ Unlock(p)
  /\ UNCHANGED <<exe, notices, intact, tampers, ok, touched>>

(* Another program removes or damages a file; one in use cannot be changed  *)
(* on Windows.                                                              *)
Tamper ==
  /\ tampers < MaxTampers /\ tampers' = tampers + 1
  /\ \/ /\ OnWindows => Users = {}
        /\ exe' \in {"absent", "broken"} \ {exe}
        /\ touched' = [p \in Procs |-> TRUE]
        /\ UNCHANGED notices
     \/ /\ \E name \in notices : notices' = notices \ {name}
        /\ UNCHANGED <<exe, touched>>
  /\ UNCHANGED <<temp, draft, intact, crashes, holder, pc, seen, ok,
                 resolved, running>>

-----------------------------------------------------------------------------

Init ==
  /\ intact \in BOOLEAN
  /\ exe = "absent" /\ notices = {}
  /\ holder = Nobody
  /\ pc = [p \in Procs |-> "idle"]
  /\ seen = [p \in Procs |-> None]
  /\ temp = [p \in Procs |-> None]
  /\ draft = [p \in Procs |-> FALSE]
  /\ ok = [p \in Procs |-> FALSE]
  /\ resolved = [p \in Procs |-> FALSE]
  /\ running = [p \in Procs |-> None]
  /\ crashes = 0 /\ tampers = 0
  /\ touched = [p \in Procs |-> FALSE]

(* The steps of a call of Path that are not its start. *)
Proceed(p) ==
  \/ Lock(p) \/ LockFails(p)
  \/ OpenExe(p) \/ MatchesFile(p)
  \/ CreateTemp(p) \/ Copy(p) \/ CloseTemp(p)
  \/ DraftNotice(p) \/ RenameNotice(p) \/ SkipNotice(p)
  \/ RenameExe(p) \/ RenameDenied(p) \/ Fail(p)
  \/ RemoveTemp(p) \/ Return(p) \/ Execute(p)

Next ==
  \/ \E p \in Procs :
       ReturnResolved(p) \/ CallMaterialize(p) \/ Proceed(p) \/ FfmpegEnds(p) \/ Crash(p)
  \/ Tamper

(* A process that is in a call goes on with it. *)
Fairness == \A p \in Procs : WF_vars(Proceed(p))

Spec == Init /\ [][Next]_vars /\ Fairness

-----------------------------------------------------------------------------
(* Properties *)

Executables == {"broken", "valid"}

(* The values of the variables: every executable, installed, temporary or   *)
(* running, is valid or broken.                                            *)
TypeOK ==
  /\ intact \in BOOLEAN
  /\ exe \in Executables \cup {"absent"}
  /\ notices \subseteq NoticeNames
  /\ holder \in Procs \cup {Nobody}
  /\ pc \in [Procs -> Steps]
  /\ seen \in [Procs -> Executables \cup {None, "absent"}]
  /\ temp \in [Procs -> Executables \cup {None, "partial"}]
  /\ draft \in [Procs -> BOOLEAN]
  /\ ok \in [Procs -> BOOLEAN]
  /\ resolved \in [Procs -> BOOLEAN]
  /\ running \in [Procs -> Executables \cup {None}]
  /\ crashes \in Nat /\ tampers \in Nat
  /\ touched \in [Procs -> BOOLEAN]

(* "Separate NoiseCloud processes initialize the same version concurrently  *)
(* without executing partial files" (cache.go:37-38): what a process runs   *)
(* is the verified executable, unless another program changed it after the  *)
(* process verified it.  This does not rest on the named mutex.             *)
OnlyVerifiedRuns ==
  \A p \in Procs : running[p] # None /\ ~touched[p] => running[p] = "valid"

(* Whatever crashes and whatever the bundle holds, no NoiseCloud process    *)
(* replaces ffmpeg.exe by anything but the whole executable                 *)
(* (cache.go:64-70, 83).                                                    *)
InstallsOnlyWhole ==
  [][exe' # exe => exe' = "valid" \/ tampers' # tampers]_vars

(* The license and the readme accompany the runtime: they are in place      *)
(* before the executable is (cache.go:77-83).                               *)
NoticesComeFirst ==
  tampers = 0 /\ exe = "valid" => notices = NoticeNames

(* The mutex serializes verification and replacement                        *)
(* (lock_windows.go:11-12): a Rename is not denied because another process  *)
(* is verifying the file.                                                   *)
ReplacementMeetsNoVerifier ==
  OnWindows =>
    \A p, q \in Procs : pc[p] = "rename" => seen[q] = None

(* Temporary files belong to the holder of the lock, who removes them       *)
(* before releasing it; only a crash leaves any behind.                     *)
TempsAreTheHolders ==
  \A p \in Procs :
    temp[p] # None \/ draft[p] =>
      pc[p] \in Inside /\ (OnWindows => holder = p)

(* Every call of Path returns, also when other processes keep the lock      *)
(* busy.                                                                    *)
PathReturns == \A p \in Procs : pc[p] # "idle" ~> pc[p] = "idle"
=============================================================================
