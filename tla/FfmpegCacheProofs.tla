-------------------------- MODULE FfmpegCacheProofs --------------------------
(***************************************************************************)
(* Theorems about the FFmpeg cache for any number of processes, crashes    *)
(* and changes by other programs, on Windows and elsewhere.                *)
(***************************************************************************)
EXTENDS FfmpegCache, TLAPS

(* What keeps ffmpeg.exe whole: a temporary executable is renamed only      *)
(* after its digest was compared, and a process holds on to a path only     *)
(* while nobody has touched the file it verified.                           *)
InstallInv ==
  /\ \A p \in Procs :
       pc[p] \in NoticeNames \cup {"close", "rename"} => temp[p] = "valid"
  /\ \A p \in Procs : pc[p] \in CanFail => ~ok[p]
  /\ \A p \in Procs : pc[p] = "exec" => resolved[p]
  /\ \A p \in Procs : running[p] # None => pc[p] = "idle"

(* What a process that nobody interfered with knows about ffmpeg.exe. *)
VerifiedInv ==
  \A p \in Procs : ~touched[p] =>
    /\ pc[p] \in {"idle", "exec"} /\ resolved[p] => exe = "valid"
    /\ pc[p] \in {"return", "unlock"} /\ ok[p] => exe = "valid"
    /\ pc[p] \in {"matches", "rematches"} /\ seen[p] = "valid" => exe = "valid"
    /\ running[p] # None => running[p] = "valid"

LEMMA StepFacts ==
  /\ Inside \subseteq Steps /\ CanFail \subseteq Inside /\ NoticeNames \subseteq CanFail
  /\ {"idle", "lock", "exec"} \subseteq Steps
  /\ {"mkdir", "copy", "close", "verify", "matches", "rename", "recheck",
      "rematches", "return", "unlock", "LICENSE.txt", "README.txt"} \subseteq Steps
BY DEF Steps, Inside, CanFail, NoticeNames

LEMMA GoKeepsType ==
  ASSUME pc \in [Procs -> Steps], NEW p \in Procs, NEW from, NEW to \in Steps, Go(p, from, to)
  PROVE  pc' \in [Procs -> Steps]
BY DEF Go

LEMMA PcKeepsType ==
  ASSUME TypeOK, InstallInv, [Next]_vars
  PROVE  pc' \in [Procs -> Steps]
<1>0. pc \in [Procs -> Steps]
  BY DEF TypeOK
<1>1. CASE \E p \in Procs :
             ReturnResolved(p) \/ CallMaterialize(p) \/ Lock(p) \/ LockFails(p)
  BY <1>0, <1>1, StepFacts, GoKeepsType
     DEF ReturnResolved, CallMaterialize, Lock, LockFails
<1>2. CASE \E p \in Procs :
             OpenExe(p) \/ MatchesFile(p) \/ CreateTemp(p) \/ Copy(p) \/ CloseTemp(p)
  BY <1>0, <1>2, StepFacts, GoKeepsType
     DEF OpenExe, MatchesFile, CreateTemp, Copy, CloseTemp
<1>3. CASE \E p \in Procs : DraftNotice(p) \/ RenameNotice(p) \/ SkipNotice(p)
  BY <1>0, <1>3, StepFacts, GoKeepsType DEF DraftNotice, RenameNotice, SkipNotice, After
<1>4. CASE \E p \in Procs :
             RenameExe(p) \/ RenameDenied(p) \/ RemoveTemp(p) \/ Return(p) \/ Execute(p)
  BY <1>0, <1>4, StepFacts, GoKeepsType
     DEF RenameExe, RenameDenied, RemoveTemp, Return, Execute
<1>5. CASE \E p \in Procs : Fail(p) \/ FfmpegEnds(p) \/ Crash(p)
  BY <1>0, <1>5, StepFacts DEF Fail, FfmpegEnds, Crash
<1>6. CASE Tamper \/ UNCHANGED vars
  BY <1>0, <1>6 DEF Tamper, vars
<1> QED BY <1>1, <1>2, <1>3, <1>4, <1>5, <1>6 DEF Next, Proceed

LEMMA ExeKeepsType ==
  ASSUME TypeOK, InstallInv, [Next]_vars
  PROVE  /\ exe' \in Executables \cup {"absent"}
         /\ temp' \in [Procs -> Executables \cup {None, "partial"}]
<1>0. /\ exe \in Executables \cup {"absent"}
      /\ temp \in [Procs -> Executables \cup {None, "partial"}]
      /\ {"broken", "valid"} \subseteq Executables
  BY DEF TypeOK, Executables
<1>1. CASE \E p \in Procs : \/ ReturnResolved(p) \/ CallMaterialize(p) \/ Lock(p)
                            \/ LockFails(p) \/ OpenExe(p) \/ MatchesFile(p)
                            \/ CloseTemp(p) \/ RenameDenied(p) \/ Execute(p)
                            \/ FfmpegEnds(p) \/ DraftNotice(p) \/ RenameNotice(p)
                            \/ SkipNotice(p) \/ Fail(p) \/ Return(p)
  <2>1. UNCHANGED <<exe, temp>>
    BY <1>1 DEF Return, ReturnResolved, CallMaterialize, Lock, LockFails, OpenExe, MatchesFile,
                CloseTemp, RenameDenied, Execute, FfmpegEnds, DraftNotice,
                RenameNotice, SkipNotice, Fail, files
  <2> QED BY <1>0, <2>1
<1>2. CASE \E p \in Procs : CreateTemp(p) \/ Copy(p) \/ RemoveTemp(p) \/ Crash(p)
  BY <1>0, <1>2 DEF CreateTemp, Copy, RemoveTemp, Crash
<1>3. ASSUME NEW p \in Procs, RenameExe(p)
      PROVE  /\ exe' \in Executables \cup {"absent"}
             /\ temp' \in [Procs -> Executables \cup {None, "partial"}]
  <2>1. temp[p] = "valid"
    BY <1>3 DEF RenameExe, Go, InstallInv
  <2> QED BY <1>0, <1>3, <2>1 DEF RenameExe
<1>4. CASE Tamper \/ UNCHANGED vars
  BY <1>0, <1>4 DEF Tamper, vars
<1> QED BY <1>1, <1>2, <1>3, <1>4 DEF Next, Proceed

LEMMA UseKeepsType ==
  ASSUME TypeOK, [Next]_vars
  PROVE  /\ seen' \in [Procs -> Executables \cup {None, "absent"}]
         /\ running' \in [Procs -> Executables \cup {None}]
<1>0. /\ exe \in Executables \cup {"absent"}
      /\ seen \in [Procs -> Executables \cup {None, "absent"}]
      /\ running \in [Procs -> Executables \cup {None}]
  BY DEF TypeOK
<1>1. CASE \E p \in Procs : \/ ReturnResolved(p) \/ CallMaterialize(p) \/ Lock(p)
                            \/ LockFails(p) \/ CreateTemp(p) \/ Copy(p) \/ CloseTemp(p)
                            \/ DraftNotice(p) \/ RenameNotice(p) \/ SkipNotice(p)
                            \/ RenameExe(p) \/ RenameDenied(p) \/ Fail(p)
                            \/ RemoveTemp(p) \/ Return(p)
  <2>1. UNCHANGED <<seen, running>>
    BY <1>1 DEF ReturnResolved, CallMaterialize, Lock, LockFails, CreateTemp, Copy,
                CloseTemp, DraftNotice, RenameNotice, SkipNotice, RenameExe,
                RenameDenied, Fail, RemoveTemp, Return
  <2> QED BY <1>0, <2>1
<1>2. CASE \E p \in Procs : OpenExe(p) \/ MatchesFile(p)
  BY <1>0, <1>2 DEF OpenExe, MatchesFile
<1>3. CASE \E p \in Procs : Execute(p) \/ FfmpegEnds(p) \/ Crash(p)
  BY <1>0, <1>3 DEF Execute, FfmpegEnds, Crash
<1>4. CASE Tamper \/ UNCHANGED vars
  BY <1>0, <1>4 DEF Tamper, vars
<1> QED BY <1>1, <1>2, <1>3, <1>4 DEF Next, Proceed

LEMMA FlagsKeepType ==
  ASSUME TypeOK, [Next]_vars
  PROVE  /\ draft' \in [Procs -> BOOLEAN] /\ ok' \in [Procs -> BOOLEAN]
         /\ resolved' \in [Procs -> BOOLEAN] /\ touched' \in [Procs -> BOOLEAN]
<1>0. /\ draft \in [Procs -> BOOLEAN] /\ ok \in [Procs -> BOOLEAN]
      /\ resolved \in [Procs -> BOOLEAN] /\ touched \in [Procs -> BOOLEAN]
  BY DEF TypeOK
<1>1. CASE \E p \in Procs : \/ ReturnResolved(p) \/ CallMaterialize(p) \/ Lock(p)
                            \/ LockFails(p) \/ OpenExe(p) \/ MatchesFile(p)
                            \/ CreateTemp(p) \/ Copy(p) \/ CloseTemp(p)
  BY <1>0, <1>1 DEF ReturnResolved, CallMaterialize, Lock, LockFails, OpenExe,
                    MatchesFile, CreateTemp, Copy, CloseTemp, files
<1>2. CASE \E p \in Procs : \/ DraftNotice(p) \/ RenameNotice(p) \/ SkipNotice(p)
                            \/ RenameExe(p) \/ RenameDenied(p) \/ Fail(p)
                            \/ RemoveTemp(p)
  BY <1>0, <1>2 DEF DraftNotice, RenameNotice, SkipNotice, RenameExe, RenameDenied,
                    Fail, RemoveTemp, files
<1>3. CASE \E p \in Procs : Return(p) \/ Execute(p) \/ FfmpegEnds(p) \/ Crash(p)
  BY <1>0, <1>3 DEF Return, Execute, FfmpegEnds, Crash, files
<1>4. CASE Tamper \/ UNCHANGED vars
  BY <1>0, <1>4 DEF Tamper, vars
<1> QED BY <1>1, <1>2, <1>3, <1>4 DEF Next, Proceed

LEMMA RestKeepsType ==
  ASSUME TypeOK, [Next]_vars
  PROVE  /\ intact' \in BOOLEAN /\ notices' \subseteq NoticeNames
         /\ holder' \in Procs \cup {Nobody}
         /\ crashes' \in Nat /\ tampers' \in Nat
<1>0. /\ intact \in BOOLEAN /\ notices \subseteq NoticeNames
      /\ holder \in Procs \cup {Nobody}
      /\ crashes \in Nat /\ tampers \in Nat
  BY DEF TypeOK
<1>1. CASE \E p \in Procs : \/ ReturnResolved(p) \/ CallMaterialize(p) \/ Lock(p)
                            \/ LockFails(p) \/ OpenExe(p) \/ MatchesFile(p)
                            \/ CreateTemp(p) \/ Copy(p) \/ CloseTemp(p)
  BY <1>0, <1>1 DEF ReturnResolved, CallMaterialize, Lock, LockFails, OpenExe,
                    MatchesFile, CreateTemp, Copy, CloseTemp, files, env
<1>2. CASE \E p \in Procs : \/ DraftNotice(p) \/ RenameNotice(p) \/ SkipNotice(p)
                            \/ RenameExe(p) \/ RenameDenied(p) \/ Fail(p)
                            \/ RemoveTemp(p)
  BY <1>0, <1>2 DEF DraftNotice, RenameNotice, SkipNotice, RenameExe, RenameDenied,
                    Fail, RemoveTemp, files, env
<1>3. CASE \E p \in Procs : Return(p) \/ Execute(p) \/ FfmpegEnds(p)
  BY <1>0, <1>3 DEF Return, Unlock, Execute, FfmpegEnds, files, env
<1>4. CASE \E p \in Procs : Crash(p)
  BY <1>0, <1>4 DEF Crash, Unlock
<1>5. CASE Tamper \/ UNCHANGED vars
  BY <1>0, <1>5 DEF Tamper, vars
<1> QED BY <1>1, <1>2, <1>3, <1>4, <1>5 DEF Next, Proceed

LEMMA StepKeepsType ==
  ASSUME TypeOK, InstallInv, [Next]_vars
  PROVE  TypeOK'
BY PcKeepsType, ExeKeepsType, UseKeepsType, FlagsKeepType, RestKeepsType DEF TypeOK

-----------------------------------------------------------------------------
(* The executable *)

LEMMA StepKeepsInstall ==
  ASSUME TypeOK, InstallInv, [Next]_vars
  PROVE  InstallInv'
<1>0. /\ pc \in [Procs -> Steps] /\ ok \in [Procs -> BOOLEAN]
      /\ resolved \in [Procs -> BOOLEAN] /\ intact \in BOOLEAN
      /\ temp \in [Procs -> Executables \cup {None, "partial"}]
      /\ running \in [Procs -> Executables \cup {None}]
  BY DEF TypeOK
<1> USE DEF InstallInv, CanFail, NoticeNames
<1>1. ASSUME NEW p \in Procs, ReturnResolved(p) \/ CallMaterialize(p)
      PROVE  InstallInv'
  BY <1>0, <1>1 DEF ReturnResolved, CallMaterialize, Go, files
<1>2. ASSUME NEW p \in Procs, Lock(p) \/ LockFails(p)
      PROVE  InstallInv'
  BY <1>0, <1>2 DEF Lock, LockFails, Go, files
<1>3. ASSUME NEW p \in Procs, OpenExe(p)
      PROVE  InstallInv'
  BY <1>0, <1>3 DEF OpenExe, Go, files
<1>4. ASSUME NEW p \in Procs, MatchesFile(p)
      PROVE  InstallInv'
  BY <1>0, <1>4 DEF MatchesFile, Go, files
<1>5. ASSUME NEW p \in Procs, CreateTemp(p) \/ Copy(p) \/ CloseTemp(p)
      PROVE  InstallInv'
  BY <1>0, <1>5 DEF CreateTemp, Copy, CloseTemp, Go, files
<1>6. ASSUME NEW p \in Procs, DraftNotice(p) \/ RenameNotice(p) \/ SkipNotice(p)
      PROVE  InstallInv'
  <2>1. CASE DraftNotice(p)
    BY <2>1 DEF DraftNotice
  <2>2. CASE RenameNotice(p)
    BY <1>0, <2>2 DEF RenameNotice, After, Go
  <2>3. CASE SkipNotice(p)
    <3>1. notices \subseteq NoticeNames
      BY DEF TypeOK
    <3> QED BY <1>0, <2>3, <3>1 DEF SkipNotice, After, Go
  <2> QED BY <1>6, <2>1, <2>2, <2>3
<1>7. ASSUME NEW p \in Procs, RenameExe(p) \/ RenameDenied(p) \/ Fail(p)
      PROVE  InstallInv'
  BY <1>0, <1>7 DEF RenameExe, RenameDenied, Fail, Go, files
<1>8. ASSUME NEW p \in Procs, RemoveTemp(p) \/ Return(p)
      PROVE  InstallInv'
  BY <1>0, <1>8 DEF RemoveTemp, Return, Go, files
<1>9. ASSUME NEW p \in Procs, Execute(p) \/ FfmpegEnds(p)
      PROVE  InstallInv'
  BY <1>0, <1>9 DEF Execute, FfmpegEnds, Go, files
<1>10. ASSUME NEW p \in Procs, Crash(p)
       PROVE  InstallInv'
  BY <1>0, <1>10 DEF Crash
<1>11. CASE Tamper \/ UNCHANGED vars
  BY <1>11 DEF Tamper, vars
<1> QED BY <1>1, <1>2, <1>3, <1>4, <1>5, <1>6, <1>7, <1>8, <1>9, <1>10, <1>11
        DEF Next, Proceed

LEMMA StepKeepsVerified ==
  ASSUME TypeOK, InstallInv, VerifiedInv, [Next]_vars
  PROVE  VerifiedInv'
<1>0. /\ pc \in [Procs -> Steps] /\ ok \in [Procs -> BOOLEAN]
      /\ resolved \in [Procs -> BOOLEAN] /\ touched \in [Procs -> BOOLEAN]
      /\ seen \in [Procs -> Executables \cup {None, "absent"}]
      /\ running \in [Procs -> Executables \cup {None}]
      /\ exe \in Executables \cup {"absent"}
  BY DEF TypeOK
<1> USE DEF VerifiedInv
<1>1. ASSUME NEW p \in Procs, ReturnResolved(p) \/ CallMaterialize(p)
      PROVE  VerifiedInv'
  BY <1>0, <1>1 DEF ReturnResolved, CallMaterialize, Go, files
<1>2. ASSUME NEW p \in Procs, Lock(p) \/ LockFails(p)
      PROVE  VerifiedInv'
  BY <1>0, <1>2 DEF Lock, LockFails, Go, files
<1>3. ASSUME NEW p \in Procs, OpenExe(p)
      PROVE  VerifiedInv'
  BY <1>0, <1>3 DEF OpenExe, Go, files, InstallInv
<1>4. ASSUME NEW p \in Procs, MatchesFile(p)
      PROVE  VerifiedInv'
  BY <1>0, <1>4 DEF MatchesFile, Go, files
<1>5. ASSUME NEW p \in Procs, CreateTemp(p) \/ Copy(p) \/ CloseTemp(p)
      PROVE  VerifiedInv'
  BY <1>0, <1>5 DEF CreateTemp, Copy, CloseTemp, Go, files, InstallInv, CanFail
<1>6. ASSUME NEW p \in Procs, DraftNotice(p) \/ RenameNotice(p) \/ SkipNotice(p)
      PROVE  VerifiedInv'
  BY <1>0, <1>6 DEF DraftNotice, RenameNotice, SkipNotice, After, Go
<1>7. ASSUME NEW p \in Procs, RenameExe(p)
      PROVE  VerifiedInv'
  BY <1>0, <1>7 DEF RenameExe, Go, InstallInv
<1>8. ASSUME NEW p \in Procs, RenameDenied(p) \/ Fail(p)
      PROVE  VerifiedInv'
  BY <1>0, <1>8 DEF RenameDenied, Fail, Go, files, InstallInv
<1>9. ASSUME NEW p \in Procs, RemoveTemp(p) \/ Return(p)
      PROVE  VerifiedInv'
  BY <1>0, <1>9 DEF RemoveTemp, Return, Go, files
<1>10. ASSUME NEW p \in Procs, Execute(p) \/ FfmpegEnds(p)
       PROVE  VerifiedInv'
  BY <1>0, <1>10 DEF Execute, FfmpegEnds, Go, files, InstallInv
<1>11. ASSUME NEW p \in Procs, Crash(p)
       PROVE  VerifiedInv'
  BY <1>0, <1>11 DEF Crash
<1>12. CASE Tamper \/ UNCHANGED vars
  BY <1>0, <1>12 DEF Tamper, vars
<1> QED BY <1>1, <1>2, <1>3, <1>4, <1>5, <1>6, <1>7, <1>8, <1>9, <1>10, <1>11, <1>12
        DEF Next, Proceed

LEMMA InitHolds == Init => TypeOK /\ InstallInv /\ VerifiedInv
BY StepFacts DEF Init, TypeOK, InstallInv, VerifiedInv, CanFail, NoticeNames

LEMMA InstallCorrect == Spec => [](TypeOK /\ InstallInv /\ VerifiedInv)
<1>1. TypeOK /\ InstallInv /\ VerifiedInv /\ [Next]_vars
        => (TypeOK /\ InstallInv /\ VerifiedInv)'
  BY StepKeepsType, StepKeepsInstall, StepKeepsVerified
<1> QED BY <1>1, InitHolds, PTL DEF Spec

(* The type invariant. *)
THEOREM TypeCorrect == Spec => []TypeOK
BY InstallCorrect, PTL

(* No process runs an ffmpeg.exe that is not the verified one unless another *)
(* program changed it after this process verified it, with any number of     *)
(* processes and crashes, and whether or not the lock excludes other         *)
(* processes.                                                                *)
THEOREM RunsAreVerified == Spec => []OnlyVerifiedRuns
<1>1. VerifiedInv => OnlyVerifiedRuns
  BY DEF VerifiedInv, OnlyVerifiedRuns
<1> QED BY <1>1, InstallCorrect, PTL

(* ffmpeg.exe is only ever replaced by the whole executable. *)
THEOREM InstallsAreWhole == Spec => InstallsOnlyWhole
<1>1. TypeOK /\ InstallInv /\ [Next]_vars
        => [exe' # exe => exe' = "valid" \/ tampers' # tampers]_vars
  <2> SUFFICES ASSUME TypeOK, InstallInv, [Next]_vars, exe' # exe
               PROVE  exe' = "valid" \/ tampers' # tampers
    OBVIOUS
  <2>1. CASE Tamper
    BY <2>1, CacheAssumption DEF Tamper, TypeOK
  <2>2. CASE \E p \in Procs : RenameExe(p)
    BY <2>2 DEF RenameExe, Go, InstallInv
  <2>3. CASE ~Tamper /\ ~\E p \in Procs : RenameExe(p)
    BY <2>3 DEF Next, Proceed, vars, ReturnResolved, CallMaterialize, Lock, LockFails,
                OpenExe, MatchesFile, CreateTemp, Copy, CloseTemp, DraftNotice,
                RenameNotice, SkipNotice, RenameDenied, Fail, RemoveTemp, Return, Execute,
                FfmpegEnds, Crash, files
  <2> QED BY <2>1, <2>2, <2>3
<1> QED BY <1>1, InstallCorrect, PTL DEF Spec, InstallsOnlyWhole

-----------------------------------------------------------------------------
(* The lock *)

(* Whoever is between lockCache and the unlock holds the mutex, and what a  *)
(* call leaves open or in temporary files is gone when it unlocks.          *)
LockInv ==
  /\ OnWindows => \A p \in Procs : pc[p] \in Inside => holder = p
  /\ \A p \in Procs : seen[p] # None => pc[p] \in {"matches", "rematches"}
  /\ \A p \in Procs : temp[p] # None => pc[p] \in Inside \ {"unlock"}
  /\ \A p \in Procs : draft[p] => pc[p] \in NoticeNames

LEMMA StepKeepsLock ==
  ASSUME TypeOK, LockInv, [Next]_vars
  PROVE  LockInv'
<1>0. /\ pc \in [Procs -> Steps] /\ holder \in Procs \cup {Nobody}
      /\ seen \in [Procs -> Executables \cup {None, "absent"}]
      /\ temp \in [Procs -> Executables \cup {None, "partial"}]
      /\ draft \in [Procs -> BOOLEAN]
      /\ notices \subseteq NoticeNames /\ intact \in BOOLEAN
      /\ Nobody \notin Procs
  BY CacheAssumption DEF TypeOK
<1> USE DEF LockInv, Inside, CanFail, NoticeNames
<1>1. ASSUME NEW p \in Procs, ReturnResolved(p) \/ CallMaterialize(p)
      PROVE  LockInv'
  BY <1>0, <1>1 DEF ReturnResolved, CallMaterialize, Go, files
<1>2. ASSUME NEW p \in Procs, Lock(p) \/ LockFails(p)
      PROVE  LockInv'
  <2>1. CASE Lock(p)
    BY <1>0, <2>1 DEF Lock, Go, files
  <2>2. CASE LockFails(p)
    BY <1>0, <2>2 DEF LockFails, Go, files
  <2> QED BY <1>2, <2>1, <2>2
<1>3. ASSUME NEW p \in Procs, OpenExe(p)
      PROVE  LockInv'
  BY <1>0, <1>3 DEF OpenExe, Go, files
<1>4. ASSUME NEW p \in Procs, MatchesFile(p)
      PROVE  LockInv'
  BY <1>0, <1>4 DEF MatchesFile, Go, files
<1>5. ASSUME NEW p \in Procs, CreateTemp(p) \/ Copy(p) \/ CloseTemp(p)
      PROVE  LockInv'
  <2>1. CASE CreateTemp(p)
    BY <1>0, <2>1 DEF CreateTemp, Go
  <2>2. CASE Copy(p)
    BY <1>0, <2>2 DEF Copy, Go
  <2>3. CASE CloseTemp(p)
    BY <1>0, <2>3 DEF CloseTemp, Go, files
  <2> QED BY <1>5, <2>1, <2>2, <2>3
<1>6. ASSUME NEW p \in Procs, DraftNotice(p) \/ RenameNotice(p) \/ SkipNotice(p)
      PROVE  LockInv'
  <2>1. CASE DraftNotice(p)
    BY <1>0, <2>1 DEF DraftNotice
  <2>2. CASE RenameNotice(p)
    BY <1>0, <2>2 DEF RenameNotice, After, Go
  <2>3. CASE SkipNotice(p)
    BY <1>0, <2>3 DEF SkipNotice, After, Go
  <2> QED BY <1>6, <2>1, <2>2, <2>3
<1>7. ASSUME NEW p \in Procs, RenameExe(p) \/ RenameDenied(p)
      PROVE  LockInv'
  BY <1>0, <1>7 DEF RenameExe, RenameDenied, Go, files
<1>8. ASSUME NEW p \in Procs, Fail(p)
      PROVE  LockInv'
  BY <1>0, <1>8 DEF Fail
<1>9. ASSUME NEW p \in Procs, RemoveTemp(p) \/ Return(p)
      PROVE  LockInv'
  <2>1. CASE RemoveTemp(p)
    BY <1>0, <2>1 DEF RemoveTemp, Go
  <2>2. CASE Return(p)
    BY <1>0, <2>2 DEF Return, Unlock, Go, files
  <2> QED BY <1>9, <2>1, <2>2
<1>10. ASSUME NEW p \in Procs, Execute(p) \/ FfmpegEnds(p)
       PROVE  LockInv'
  BY <1>0, <1>10 DEF Execute, FfmpegEnds, Go, files
<1>11. ASSUME NEW p \in Procs, Crash(p)
       PROVE  LockInv'
  BY <1>0, <1>11 DEF Crash, Unlock
<1>12. CASE Tamper \/ UNCHANGED vars
  BY <1>12 DEF Tamper, vars
<1> QED BY <1>1, <1>2, <1>3, <1>4, <1>5, <1>6, <1>7, <1>8, <1>9, <1>10, <1>11, <1>12
        DEF Next, Proceed

LEMMA LockCorrect == Spec => []LockInv
<1>1. Init => LockInv
  BY DEF Init, LockInv, Inside, CanFail, NoticeNames, None
<1>2. TypeOK /\ LockInv /\ [Next]_vars => LockInv'
  BY StepKeepsLock
<1> QED BY <1>1, <1>2, TypeCorrect, PTL DEF Spec

(* Only the process inside the lock has temporary files, and it has none    *)
(* left when it returns.                                                    *)
THEOREM TempsAreRemoved == Spec => []TempsAreTheHolders
<1>1. LockInv => TempsAreTheHolders
  BY DEF LockInv, TempsAreTheHolders, Inside, CanFail
<1> QED BY <1>1, LockCorrect, PTL

(* The mutex serializes verification and replacement. *)
THEOREM ReplacementIsSerialized == Spec => []ReplacementMeetsNoVerifier
<1>1. LockInv => ReplacementMeetsNoVerifier
  <2> SUFFICES ASSUME LockInv, OnWindows, NEW p \in Procs, NEW q \in Procs,
                      pc[p] = "rename", seen[q] # None
               PROVE  FALSE
    BY DEF ReplacementMeetsNoVerifier
  <2>1. pc[q] \in {"matches", "rematches"}
    BY DEF LockInv
  <2>2. holder = p /\ holder = q
    BY <2>1 DEF LockInv, Inside
  <2> QED BY <2>1, <2>2
<1> QED BY <1>1, LockCorrect, PTL

-----------------------------------------------------------------------------
(* The notices *)

NoticeInv ==
  tampers = 0 =>
    /\ exe = "valid" => notices = NoticeNames
    /\ \A p \in Procs : pc[p] = "README.txt" => "LICENSE.txt" \in notices
    /\ \A p \in Procs : pc[p] = "rename" => notices = NoticeNames

LEMMA StepKeepsNotices ==
  ASSUME TypeOK, NoticeInv, [Next]_vars
  PROVE  NoticeInv'
<1>0. /\ pc \in [Procs -> Steps] /\ notices \subseteq NoticeNames /\ tampers \in Nat
  BY DEF TypeOK
<1> USE DEF NoticeInv
<1>1. ASSUME NEW p \in Procs,
             \/ ReturnResolved(p) \/ CallMaterialize(p) \/ Lock(p) \/ LockFails(p)
             \/ OpenExe(p) \/ MatchesFile(p)
      PROVE  NoticeInv'
  BY <1>0, <1>1 DEF ReturnResolved, CallMaterialize, Lock, LockFails, OpenExe,
                    MatchesFile, Go, files, env
<1>2. ASSUME NEW p \in Procs, CreateTemp(p) \/ Copy(p) \/ CloseTemp(p)
      PROVE  NoticeInv'
  BY <1>0, <1>2 DEF CreateTemp, Copy, CloseTemp, Go, files, env
<1>3. ASSUME NEW p \in Procs, DraftNotice(p) \/ RenameNotice(p) \/ SkipNotice(p)
      PROVE  NoticeInv'
  <2>1. CASE DraftNotice(p)
    BY <2>1 DEF DraftNotice, env
  <2>2. CASE RenameNotice(p)
    BY <1>0, <2>2 DEF RenameNotice, After, Go, env, NoticeNames
  <2>3. CASE SkipNotice(p)
    <3>1. PICK name \in notices : Go(p, name, After(name))
      BY <2>3 DEF SkipNotice
    <3>2. UNCHANGED <<exe, notices, tampers>>
      BY <2>3 DEF SkipNotice, env
    <3>3. name = "LICENSE.txt" \/ name = "README.txt"
      BY <1>0, <3>1 DEF NoticeNames
    <3>4. CASE name = "LICENSE.txt"
      BY <1>0, <3>1, <3>2, <3>4 DEF After, Go
    <3>5. CASE name = "README.txt"
      <4>1. tampers = 0 => notices = NoticeNames
        BY <1>0, <3>1, <3>5 DEF Go, NoticeNames
      <4> QED BY <1>0, <3>1, <3>2, <3>5, <4>1 DEF After, Go
    <3> QED BY <3>3, <3>4, <3>5
  <2> QED BY <1>3, <2>1, <2>2, <2>3
<1>4. ASSUME NEW p \in Procs, RenameExe(p) \/ RenameDenied(p) \/ Fail(p)
      PROVE  NoticeInv'
  BY <1>0, <1>4 DEF RenameExe, RenameDenied, Fail, Go, files, env
<1>5. ASSUME NEW p \in Procs,
             RemoveTemp(p) \/ Return(p) \/ Execute(p) \/ FfmpegEnds(p) \/ Crash(p)
      PROVE  NoticeInv'
  BY <1>0, <1>5 DEF RemoveTemp, Return, Execute, FfmpegEnds, Crash, Go, files, env
<1>6. CASE Tamper
  BY <1>0, <1>6 DEF Tamper
<1>7. CASE UNCHANGED vars
  BY <1>7 DEF vars
<1> QED BY <1>1, <1>2, <1>3, <1>4, <1>5, <1>6, <1>7 DEF Next, Proceed

(* The license and the readme are in the cache whenever the executable is. *)
THEOREM NoticesAccompany == Spec => []NoticesComeFirst
<1>1. Init => NoticeInv
  BY DEF Init, NoticeInv
<1>2. TypeOK /\ NoticeInv /\ [Next]_vars => NoticeInv'
  BY StepKeepsNotices
<1>3. NoticeInv => NoticesComeFirst
  BY DEF NoticeInv, NoticesComeFirst
<1> QED BY <1>1, <1>2, <1>3, TypeCorrect, PTL DEF Spec
=============================================================================
