-------------------------- MODULE DecodeCommandProofs --------------------------
(***************************************************************************)
(* Proofs about DecodeCommand for any number of processes, failing calls   *)
(* and crashes.                                                            *)
(***************************************************************************)
EXTENDS DecodeCommand, TLAPS

LEMMA InitTypeOK == Init => TypeOK
BY DecodeAssumption DEF Init, TypeOK, Old, Extracted

(* Every step keeps the types, one action at a time. *)
LEMMA NextTypeOK == TypeOK /\ [Next]_vars => TypeOK'
<1> SUFFICES ASSUME TypeOK, [Next]_vars PROVE TypeOK'
  OBVIOUS
<1> USE DecodeAssumption DEF TypeOK, Extracted
<1>1. ASSUME NEW p \in Procs, ReadTrailer(p) PROVE TypeOK'
  BY <1>1 DEF ReadTrailer, Goto, Fails, files, count
<1>2. ASSUME NEW p \in Procs, NewFrameExtractor(p) PROVE TypeOK'
  BY <1>2 DEF NewFrameExtractor, Goto, count
<1>3. ASSUME NEW p \in Procs, Extract(p) PROVE TypeOK'
  BY <1>3 DEF Extract, Goto, count
<1>4. ASSUME NEW p \in Procs, ExtractAgain(p) PROVE TypeOK'
  BY <1>4 DEF ExtractAgain, Goto, count
<1>18. ASSUME NEW p \in Procs, CleanupExtractedPNGs(p) PROVE TypeOK'
  BY <1>18 DEF CleanupExtractedPNGs, Goto, count
<1>5. ASSUME NEW p \in Procs, CreateRaw(p) PROVE TypeOK'
  BY <1>5 DEF CreateRaw, Goto, count
<1>6. ASSUME NEW p \in Procs, Reconstruct(p) PROVE TypeOK'
  BY <1>6 DEF Reconstruct, Goto, Fails, count
<1>7. ASSUME NEW p \in Procs, ReadRaw(p) PROVE TypeOK'
  BY <1>7 DEF ReadRaw, Goto, files, count
<1>8. ASSUME NEW p \in Procs, CheckFormat(p) PROVE TypeOK'
  BY <1>8 DEF CheckFormat, Goto, Fails, files, count
<1>9. ASSUME NEW p \in Procs, CreateTemp(p) PROVE TypeOK'
  BY <1>9 DEF CreateTemp, Goto, count
<1>10. ASSUME NEW p \in Procs, Copy(p) PROVE TypeOK'
  BY <1>10 DEF Copy, Goto, Fails, count
<1>11. ASSUME NEW p \in Procs, Close(p) PROVE TypeOK'
  BY <1>11 DEF Close, Goto, files, count
<1>12. ASSUME NEW p \in Procs, Rename(p) PROVE TypeOK'
  BY <1>12 DEF Rename, Goto, Ok, count
<1>13. ASSUME NEW p \in Procs, RemoveTemp(p) PROVE TypeOK'
  BY <1>13 DEF RemoveTemp, Removes, Goto, count, files
<1>14. ASSUME NEW p \in Procs, RemoveRaw(p) PROVE TypeOK'
  BY <1>14 DEF RemoveRaw, Removes, Goto, count, files
<1>19. ASSUME NEW p \in Procs, Cleanup(p) PROVE TypeOK'
  BY <1>19 DEF Cleanup, Removes, Goto, count, files
<1>15. ASSUME NEW p \in Procs, Fail(p) PROVE TypeOK'
  BY <1>15 DEF Fail, Goto, Fails
<1>16. ASSUME NEW p \in Procs, Crash(p) PROVE TypeOK'
  BY <1>16 DEF Crash, files
<1>17. CASE UNCHANGED vars
  BY <1>17 DEF vars
<1> QED
  BY <1>1, <1>2, <1>3, <1>4, <1>5, <1>6, <1>7, <1>8, <1>9, <1>10, <1>11, <1>12,
     <1>13, <1>14, <1>15, <1>16, <1>17, <1>18, <1>19 DEF Next, Step

(* Files, results and counters are always of the declared types             *)
(* (main.go:341-405; payload.go:44-95).                                    *)
THEOREM TypeCorrect == Spec => []TypeOK
BY InitTypeOK, NextTypeOK, PTL DEF Spec

-----------------------------------------------------------------------------
(* Why the destination is safe: a temporary file is whole only if its       *)
(* stream was checked, only a whole one reaches the rename, and a result is *)
(* final.                                                                  *)

Final == {"deferred", "return", "cleaned", "done", "dead"}

CopiesAreChecked ==
  \A p \in Procs : /\ tmp[p] = "whole" => input[p].stream = "valid"
                   /\ pc[p] \in {"close", "rename"} => tmp[p] = "whole"
                   /\ result[p] # "none" => pc[p] \in Final

IInv == CopiesAreChecked /\ DestinationIsSafe

LEMMA InitSafe == Init => IInv
BY DEF Init, IInv, CopiesAreChecked, DestinationIsSafe

(* A step that leaves the destination alone, and does not take a success    *)
(* back or announce one, keeps it safe.                                    *)
LEMMA DestinationKept ==
  ASSUME DestinationIsSafe, UNCHANGED <<input, dest>>,
         \A p \in Procs : result'[p] = "ok" <=> result[p] = "ok"
  PROVE  DestinationIsSafe'
BY DEF DestinationIsSafe

LEMMA NextSafe == TypeOK /\ IInv /\ [Next]_vars => IInv'
<1> SUFFICES ASSUME TypeOK, IInv, [Next]_vars PROVE IInv'
  OBVIOUS
<1>0. /\ pc = [p \in Procs |-> pc[p]]
      /\ tmp = [p \in Procs |-> tmp[p]] /\ result = [p \in Procs |-> result[p]]
  BY DEF TypeOK
<1> USE <1>0 DEF IInv, CopiesAreChecked, Final
<1>1. ASSUME NEW p \in Procs, pc[p] \notin Final, Fails(p, pc[p]),
             UNCHANGED <<input, tmp, dest>>
      PROVE  IInv'
  <2>1. CopiesAreChecked'
    BY <1>1 DEF Fails, Goto
  <2>2. DestinationIsSafe'
    BY <1>1, DestinationKept DEF Fails
  <2> QED
    BY <2>1, <2>2
<1>2. ASSUME NEW p \in Procs, NEW to, Goto(p, pc[p], to), to \notin {"close", "rename"},
             pc[p] \in Final => to \in Final,
             UNCHANGED <<input, tmp, dest, result>>
      PROVE  IInv'
  <2>1. CopiesAreChecked'
    BY <1>2 DEF Goto
  <2>2. DestinationIsSafe'
    BY <1>2, DestinationKept
  <2> QED
    BY <2>1, <2>2
<1>3. ASSUME NEW p \in Procs, Step(p) PROVE IInv'
  <2>1. CASE ReadTrailer(p)
    BY <2>1, <1>1, <1>2 DEF ReadTrailer, Goto, Fails, files
  <2>2. CASE \/ NewFrameExtractor(p) \/ Extract(p) \/ CleanupExtractedPNGs(p)
              \/ ExtractAgain(p) \/ CreateRaw(p)
    BY <2>2, <1>2
       DEF NewFrameExtractor, Extract, CleanupExtractedPNGs, ExtractAgain, CreateRaw, Goto
  <2>3. CASE Reconstruct(p)
    BY <2>3, <1>1, <1>2 DEF Reconstruct, Goto, Fails
  <2>4. CASE ReadRaw(p)
    BY <2>4, <1>2 DEF ReadRaw, Goto, files
  <2>5. CASE CheckFormat(p)
    BY <2>5, <1>1, <1>2 DEF CheckFormat, Goto, Fails, files
  <2>6. CASE CreateTemp(p)
    <3>1. CopiesAreChecked'
      BY <2>6 DEF CreateTemp, Goto
    <3>2. DestinationIsSafe'
      BY <2>6, DestinationKept DEF CreateTemp
    <3> QED
      BY <3>1, <3>2
  <2>7. CASE Copy(p)
    <3>1. CASE Fails(p, "copy") /\ UNCHANGED tmp
      BY <3>1, <2>7, <1>1 DEF Copy, Goto, Fails
    <3>2. CASE /\ input[p].stream = "valid" /\ Goto(p, "copy", "close")
               /\ tmp' = [tmp EXCEPT ![p] = "whole"] /\ UNCHANGED result
      <4>1. UNCHANGED <<input, dest>>
        BY <2>7 DEF Copy
      <4>2. CopiesAreChecked'
        BY <3>2, <4>1 DEF Goto
      <4>3. DestinationIsSafe'
        BY <3>2, <4>1, DestinationKept
      <4> QED
        BY <4>2, <4>3
    <3> QED
      BY <2>7, <3>1, <3>2 DEF Copy
  <2>8. CASE Close(p)
    <3>1. CopiesAreChecked'
      BY <2>8 DEF Close, Goto, files
    <3>2. DestinationIsSafe'
      BY <2>8, DestinationKept DEF Close, files
    <3> QED
      BY <3>1, <3>2
  <2>9. CASE Rename(p)
    <3>1. /\ pc[p] = "rename" /\ pc' = [pc EXCEPT ![p] = "deferred"]
          /\ result' = [result EXCEPT ![p] = "ok"]
          /\ dest' = FileOf(p, tmp[p])
          /\ tmp' = [tmp EXCEPT ![p] = "none"]
          /\ UNCHANGED input
      BY <2>9 DEF Rename, Goto, Ok
    <3>2. CopiesAreChecked'
      BY <3>1
    <3>3. /\ dest' = FileOf(p, "whole") /\ input'[p].stream = "valid" /\ result'[p] = "ok"
      BY <3>1
    <3>4. FileOf(p, "whole") # Old
      BY DEF FileOf, Old
    <3>5. DestinationIsSafe'
      BY <3>3, <3>4 DEF DestinationIsSafe, FileOf, Old
    <3> QED
      BY <3>2, <3>5
  <2>10. CASE RemoveTemp(p)
    <3>1. CopiesAreChecked'
      BY <2>10 DEF RemoveTemp, Removes, Goto, files
    <3>2. DestinationIsSafe'
      BY <2>10, DestinationKept DEF RemoveTemp, Removes, files
    <3> QED
      BY <3>1, <3>2
  <2>11. CASE RemoveRaw(p) \/ Cleanup(p)
    BY <2>11, <1>2 DEF RemoveRaw, Cleanup, Removes, Goto, files
  <2> QED
    BY <1>3, <2>1, <2>2, <2>3, <2>4, <2>5, <2>6, <2>7, <2>8, <2>9, <2>10, <2>11 DEF Step
<1>4. ASSUME NEW p \in Procs, Fail(p) PROVE IInv'
  BY <1>4, <1>1 DEF Fail, Fails, Goto
<1>5. ASSUME NEW p \in Procs, Crash(p) PROVE IInv'
  BY <1>5, <1>2 DEF Crash, Goto, files
<1>6. CASE UNCHANGED vars
  <2>1. CopiesAreChecked'
    BY <1>6 DEF vars
  <2>2. DestinationIsSafe'
    BY <1>6, DestinationKept DEF vars
  <2> QED
    BY <2>1, <2>2
<1> QED
  BY <1>3, <1>4, <1>5, <1>6 DEF Next

(* However many processes decode to one destination, and wherever each of   *)
(* them fails or crashes, the destination is the old file or the whole and  *)
(* checked file of a process that reports success (payload.go:73-94).      *)
THEOREM DestinationSafe == Spec => []DestinationIsSafe
<1>1. TypeOK /\ IInv /\ [Next]_vars => TypeOK' /\ IInv'
  BY NextTypeOK, NextSafe
<1> QED
  BY <1>1, InitTypeOK, InitSafe, PTL DEF Spec, IInv

-----------------------------------------------------------------------------
(* A command that returns has removed its files: each of the deferred calls *)
(* removes one of them, unless its removal fails, and none comes back.     *)

TempGone(p) == tmp[p] = "none" \/ <<p, "tmp">> \in kept
RawGone(p) == raw[p] = "none" \/ <<p, "raw">> \in kept
DirGone(p) == frameDir[p] = {} \/ <<p, "dir">> \in kept

Removed(p) ==
  /\ pc[p] \in {"return", "cleaned", "done"} => TempGone(p)
  /\ pc[p] \in {"cleaned", "done"} => RawGone(p)
  /\ pc[p] = "done" => DirGone(p)

(* A step of p leaves the files of the others as they are. *)
LEMMA OthersRemoved ==
  ASSUME NEW q \in Procs, Removed(q), pc'[q] = pc[q], kept \subseteq kept',
         tmp'[q] = tmp[q], raw'[q] = raw[q], frameDir'[q] = frameDir[q]
  PROVE  Removed(q)'
BY DEF Removed, TempGone, RawGone, DirGone

LEMMA NextRemoved ==
  TypeOK /\ (\A p \in Procs : Removed(p)) /\ [Next]_vars => (\A p \in Procs : Removed(p))'
<1> SUFFICES ASSUME TypeOK, \A p \in Procs : Removed(p), [Next]_vars, NEW q \in Procs
             PROVE  Removed(q)'
  OBVIOUS
<1>0. /\ pc = [p \in Procs |-> pc[p]] /\ tmp = [p \in Procs |-> tmp[p]]
      /\ frameDir = [p \in Procs |-> frameDir[p]] /\ raw = [p \in Procs |-> raw[p]]
  BY DEF TypeOK
<1> USE <1>0
(* The steps of another process. *)
<1>1. ASSUME NEW p \in Procs \ {q}, Step(p) \/ Fail(p) \/ Crash(p) PROVE Removed(q)'
  <2>1. pc'[q] = pc[q] /\ kept \subseteq kept'
    BY <1>1 DEF Step, ReadTrailer, NewFrameExtractor, Extract, CleanupExtractedPNGs,
       ExtractAgain, CreateRaw, Reconstruct, ReadRaw, CheckFormat, CreateTemp, Copy, Close,
       Rename, RemoveTemp, RemoveRaw, Cleanup, Removes, Fail, Crash, Fails, Goto, count
  <2>2. tmp'[q] = tmp[q] /\ raw'[q] = raw[q]
    BY <1>1 DEF Step, ReadTrailer, NewFrameExtractor, Extract, CleanupExtractedPNGs,
       ExtractAgain, CreateRaw, Reconstruct, ReadRaw, CheckFormat, CreateTemp, Copy, Close,
       Rename, RemoveTemp, RemoveRaw, Cleanup, Removes, Fail, Crash, files
  <2>3. frameDir'[q] = frameDir[q]
    BY <1>1 DEF Step, ReadTrailer, NewFrameExtractor, Extract, CleanupExtractedPNGs,
       ExtractAgain, CreateRaw, Reconstruct, ReadRaw, CheckFormat, CreateTemp, Copy, Close,
       Rename, RemoveTemp, RemoveRaw, Cleanup, Removes, Fail, Crash, files
  <2> QED
    BY <2>1, <2>2, <2>3, OthersRemoved
(* A step of q before its deferred calls, or a crash. *)
<1>2. ASSUME NEW to, pc' = [pc EXCEPT ![q] = to], to \notin {"return", "cleaned", "done"}
      PROVE  Removed(q)'
  BY <1>2 DEF Removed
<1>3. ASSUME Step(q) PROVE Removed(q)'
  <2>1. CASE ReadTrailer(q) \/ NewFrameExtractor(q) \/ CheckFormat(q)
    BY <2>1, <1>2 DEF ReadTrailer, NewFrameExtractor, CheckFormat, Goto, Fails
  <2>2. CASE Extract(q) \/ CleanupExtractedPNGs(q) \/ ExtractAgain(q)
    BY <2>2, <1>2 DEF Extract, CleanupExtractedPNGs, ExtractAgain, Goto
  <2>3. CASE CreateRaw(q) \/ Reconstruct(q) \/ ReadRaw(q)
    BY <2>3, <1>2 DEF CreateRaw, Reconstruct, ReadRaw, Goto, Fails
  <2>4. CASE CreateTemp(q) \/ Copy(q) \/ Close(q) \/ Rename(q)
    BY <2>4, <1>2 DEF CreateTemp, Copy, Close, Rename, Goto, Fails
  <2>5. CASE RemoveTemp(q)
    BY <2>5 DEF RemoveTemp, Removes, Goto, Removed, TempGone
  <2>6. CASE RemoveRaw(q)
    BY <2>6 DEF RemoveRaw, Removes, Goto, files, count, Removed, TempGone, RawGone
  <2>7. CASE Cleanup(q)
    BY <2>7 DEF Cleanup, Removes, Goto, files, count, Removed, TempGone, RawGone, DirGone
  <2> QED
    BY <1>3, <2>1, <2>2, <2>3, <2>4, <2>5, <2>6, <2>7 DEF Step
<1>4. ASSUME Fail(q) \/ Crash(q) PROVE Removed(q)'
  BY <1>4, <1>2 DEF Fail, Fails, Crash, Goto
<1>5. CASE UNCHANGED vars
  BY <1>5 DEF vars, Removed, TempGone, RawGone, DirGone
<1> QED
  BY <1>1, <1>3, <1>4, <1>5 DEF Next

(* A command that returns has left no file but the destination and those    *)
(* whose own removal failed (main.go:358, 376; payload.go:79-80).          *)
THEOREM FilesAreRemoved == Spec => []NothingIsLeft
<1>1. Init => TypeOK /\ \A p \in Procs : Removed(p)
  BY InitTypeOK DEF Init, Removed
<1>2. /\ TypeOK
      /\ \A p \in Procs : Removed(p)
      /\ [Next]_vars
      => TypeOK' /\ (\A p \in Procs : Removed(p))'
  BY NextTypeOK, NextRemoved
<1>3. (\A p \in Procs : Removed(p)) => NothingIsLeft
  BY DEF Removed, TempGone, RawGone, DirGone, NothingIsLeft
<1> QED
  BY <1>1, <1>2, <1>3, PTL DEF Spec

-----------------------------------------------------------------------------
(* Why a video that holds a valid payload is delivered: the payload in      *)
(* memory is the one that was sent unless the frames it came from are bad   *)
(* or of two runs, and they are used only without an intact trailer.       *)

Trailed(p) == input[p].preset = "weave" /\ input[p].trailer = "intact"
BadFrames(p) == input[p].frames # "recoverable" /\ ~Trailed(p)

Reason(p) ==
  \/ p \in faulty
  \/ input[p].stream # "valid"
  \/ input[p].preset = "weave" /\ input[p].trailer = "damaged"
  \/ BadFrames(p)

OneRun(p) == ~({"first", "second"} \subseteq frameDir[p]) \/ p \in faulty

(* The frames are those of one run of ffmpeg from the first run on, and     *)
(* those of the first are gone before the second, unless a call failed.    *)
Traced(p) ==
  /\ result[p] = "error" => Reason(p)
  /\ pc[p] \in {"extractor", "extract", "cleanup", "again", "raw", "reconstruct",
                "readRaw"} => ~Trailed(p)
  /\ pc[p] \in {"extract", "cleanup", "again"} => "second" \notin frameDir[p]
  /\ pc[p] = "again" => "first" \notin frameDir[p] \/ p \in faulty
  /\ pc[p] \in {"raw", "reconstruct"} => OneRun(p)
  /\ pc[p] = "readRaw" => raw[p] = "sent" \/ BadFrames(p) \/ p \in faulty
  /\ pc[p] \in {"format", "create", "copy"} =>
       data[p] = "sent" \/ BadFrames(p) \/ p \in faulty

(* A step of p leaves what is known of the others as it is. *)
LEMMA OthersTraced ==
  ASSUME NEW p \in Procs, NEW q \in Procs, Traced(q), UNCHANGED input,
         faulty \subseteq faulty', pc'[q] = pc[q], result'[q] = result[q],
         raw'[q] = raw[q], data'[q] = data[q], frameDir'[q] = frameDir[q]
  PROVE  Traced(q)'
BY DEF Traced, Reason, BadFrames, Trailed, OneRun

LEMMA NextTraced ==
  TypeOK /\ (\A p \in Procs : Traced(p)) /\ [Next]_vars => (\A p \in Procs : Traced(p))'
<1> SUFFICES ASSUME TypeOK, \A p \in Procs : Traced(p), [Next]_vars, NEW q \in Procs
             PROVE  Traced(q)'
  OBVIOUS
<1>0. /\ pc = [p \in Procs |-> pc[p]] /\ result = [p \in Procs |-> result[p]]
      /\ raw = [p \in Procs |-> raw[p]] /\ data = [p \in Procs |-> data[p]]
      /\ frameDir = [p \in Procs |-> frameDir[p]] /\ input[q] \in Inputs
  BY DEF TypeOK
<1> USE <1>0
(* The steps of another process. *)
<1>1. ASSUME NEW p \in Procs \ {q}, Step(p) \/ Fail(p) \/ Crash(p) PROVE Traced(q)'
  <2>1. /\ pc'[q] = pc[q] /\ UNCHANGED input
        /\ faulty \subseteq faulty'
    BY <1>1 DEF Step, ReadTrailer, NewFrameExtractor, Extract, CleanupExtractedPNGs,
       ExtractAgain, CreateRaw, Reconstruct, ReadRaw, CheckFormat, CreateTemp, Copy, Close,
       Rename, RemoveTemp, RemoveRaw, Cleanup, Removes, Fail, Crash, Fails, Goto, count
  <2>2. result'[q] = result[q]
    BY <1>1 DEF Step, ReadTrailer, NewFrameExtractor, Extract, CleanupExtractedPNGs,
       ExtractAgain, CreateRaw, Reconstruct, ReadRaw, CheckFormat, CreateTemp, Copy, Close,
       Rename, RemoveTemp, RemoveRaw, Cleanup, Fail, Crash, Fails, Ok
  <2>3. raw'[q] = raw[q] /\ data'[q] = data[q]
    BY <1>1 DEF Step, ReadTrailer, NewFrameExtractor, Extract, CleanupExtractedPNGs,
       ExtractAgain, CreateRaw, Reconstruct, ReadRaw, CheckFormat, CreateTemp, Copy, Close,
       Rename, RemoveTemp, RemoveRaw, Cleanup, Removes, Fail, Crash, files
  <2>4. frameDir'[q] = frameDir[q]
    BY <1>1 DEF Step, ReadTrailer, NewFrameExtractor, Extract, CleanupExtractedPNGs,
       ExtractAgain, CreateRaw, Reconstruct, ReadRaw, CheckFormat, CreateTemp, Copy, Close,
       Rename, RemoveTemp, RemoveRaw, Cleanup, Removes, Fail, Crash, files
  <2> QED
    BY <2>1, <2>2, <2>3, <2>4, OthersTraced
<1> USE DEF Traced, Reason, BadFrames, Trailed, OneRun
<1>2. ASSUME Step(q) PROVE Traced(q)'
  <2>1. CASE ReadTrailer(q)
    BY <2>1 DEF ReadTrailer, Goto, Fails, files, count, Inputs
  <2>2. CASE NewFrameExtractor(q)
    BY <2>2 DEF NewFrameExtractor, Goto, count
  <2>3. CASE Extract(q)
    BY <2>3 DEF Extract, Goto, count
  <2>15. CASE CleanupExtractedPNGs(q)
    BY <2>15 DEF CleanupExtractedPNGs, Goto, count
  <2>4. CASE ExtractAgain(q)
    BY <2>4 DEF ExtractAgain, Goto, count
  <2>5. CASE CreateRaw(q)
    BY <2>5 DEF CreateRaw, Goto, count
  <2>6. CASE Reconstruct(q)
    BY <2>6 DEF Reconstruct, Goto, Fails, count
  <2>7. CASE ReadRaw(q)
    BY <2>7 DEF ReadRaw, Goto, files, count
  <2>8. CASE CheckFormat(q)
    BY <2>8 DEF CheckFormat, Decodes, Goto, Fails, files, count
  <2>9. CASE CreateTemp(q)
    BY <2>9 DEF CreateTemp, Goto, count
  <2>10. CASE Copy(q)
    BY <2>10 DEF Copy, Decodes, Goto, Fails, count
  <2>11. CASE Close(q)
    BY <2>11 DEF Close, Goto, files, count
  <2>12. CASE Rename(q)
    BY <2>12 DEF Rename, Ok, Goto, count
  <2>13. CASE RemoveTemp(q)
    BY <2>13 DEF RemoveTemp, Removes, Goto, files, count
  <2>14. CASE RemoveRaw(q) \/ Cleanup(q)
    BY <2>14 DEF RemoveRaw, Cleanup, Removes, Goto, files, count
  <2> QED
    BY <1>2, <2>1, <2>2, <2>3, <2>4, <2>5, <2>6, <2>7, <2>8, <2>9, <2>10, <2>11,
       <2>12, <2>13, <2>14, <2>15 DEF Step
<1>3. ASSUME Fail(q) PROVE Traced(q)'
  BY <1>3 DEF Fail, Fails, Goto
<1>4. ASSUME Crash(q) PROVE Traced(q)'
  BY <1>4 DEF Crash, files
<1>5. CASE UNCHANGED vars
  BY <1>5 DEF vars
<1> QED
  BY <1>1, <1>2, <1>3, <1>4, <1>5 DEF Next

(* Among any number of processes, one that reports an error was failed by   *)
(* the system, or its video holds no payload that can be decoded            *)
(* (extractor.go:43-49; main.go:341-402; payload.go:44-87).                *)
THEOREM RecoverableDelivered == Spec => []RecoverableIsDelivered
<1>1. Init => TypeOK /\ \A p \in Procs : Traced(p)
  BY InitTypeOK DEF Init, Traced
<1>2. /\ TypeOK
      /\ \A p \in Procs : Traced(p)
      /\ [Next]_vars
      => TypeOK' /\ (\A p \in Procs : Traced(p))'
  BY NextTypeOK, NextTraced
<1>3. (\A p \in Procs : Traced(p)) => RecoverableIsDelivered
  BY DEF Traced, Reason, BadFrames, Trailed, RecoverableIsDelivered
<1> QED
  BY <1>1, <1>2, <1>3, PTL DEF Spec
=============================================================================
