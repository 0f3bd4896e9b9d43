-------------------------- MODULE EncodeCommandProofs --------------------------
(***************************************************************************)
(* Proofs about EncodeCommand for any number of frames, any sizes of the   *)
(* channels and of the pipe, and any number of failing calls.              *)
(***************************************************************************)
EXTENDS EncodeCommand, SequenceTheorems, TLAPS

-----------------------------------------------------------------------------
(* Why success is whole and no ffmpeg is left.  All five parts are about    *)
(* how far one actor may be while another is where it is.                  *)

(* Nothing is lost between the goroutine and ffmpeg. *)
FramesAreCounted ==
  /\ pipe + taken = sent
  /\ encoder = "progress" => sent > 0
  /\ encoder \in {"none", "start"} => sent = 0
  /\ encoder = "wait" => sent = TotalFrames

(* Where the caller waits for the goroutine, and where there is none. *)
CallerFollowsEncoder ==
  /\ caller \in {"stat", "read", "compress", "encode"} => encoder = "none"
  /\ caller \in {"drain", "await"} => encoder # "none"
  /\ caller \in {"stop", "clear", "end"} => encoder \in {"none", "exited"}
  /\ result # "none" => caller \in {"stop", "clear", "end"}
  /\ caller = "await" => progressCh = <<>> /\ progressClosed
  /\ progressClosed => encoder \in {"send", "exited"}

(* The process lives between StartFFmpegPipe and the deferred function. *)
FfmpegIsInside ==
  /\ ffmpeg = "running" => encoder \in {"write", "progress", "wait", "cleanup", "kill"}
  /\ ffmpeg = "none" => encoder \in {"none", "start", "close", "send", "exited"}
  /\ encoder \in {"none", "start"} => ffmpeg = "none"
  /\ waited => ffmpeg \notin {"none", "running"}
  /\ encoder \in {"close", "send", "exited"} => ffmpeg = "none" \/ waited

(* Without a failure the goroutine has seen the end of ffmpeg, ... *)
NoFailureMeansEnd ==
  encoder \in {"cleanup", "kill", "close", "send", "exited"} /\ ~failed =>
    ffmpeg = "ended" /\ sent = TotalFrames

(* ... which has read all that was written; ... *)
EndMeansEmptyPipe ==
  ffmpeg = "ended" => pipe = 0 /\ (taken = TotalFrames => video = "whole")

(* ... and what the caller returns is what the goroutine found. *)
ResultIsPassedOn ==
  /\ done # <<>> => encoder = "exited"
  /\ \A k \in DOMAIN done : done[k] = "ok" => ~failed
  /\ result = "ok" => encoder = "exited" /\ ~failed

IInv ==
  /\ FramesAreCounted /\ CallerFollowsEncoder /\ FfmpegIsInside
  /\ NoFailureMeansEnd /\ EndMeansEmptyPipe /\ ResultIsPassedOn

(* The reports on their way: the newest one is about the last frame, unless *)
(* the goroutine has still to send it.                                     *)
Reported == IF encoder = "progress" THEN sent - 1 ELSE sent

Newest == IF progressCh = <<>> THEN status ELSE progressCh[Len(progressCh)]

NothingRunsAhead ==
  /\ \A k \in DOMAIN progressCh : progressCh[k] <= sent
  /\ \A shown \in {status, snapshot, line} : shown # Blank => shown <= sent

ProgressInv ==
  /\ NothingRunsAhead
  /\ Reported > 0 => Newest = Reported
  /\ result = "ok" => status = TotalFrames

-----------------------------------------------------------------------------
(* Types *)

LEMMA InitTypeOK == Init => TypeOK /\ IInv
<1> SUFFICES ASSUME Init PROVE TypeOK /\ IInv
  OBVIOUS
<1>1. /\ progressCh \in Seq(1..TotalFrames) /\ Len(progressCh) <= ProgressSize
      /\ done \in Seq({"ok", "error"})
  BY EncodeAssumption DEF Init
<1>2. /\ sent \in 0..TotalFrames /\ taken \in 0..TotalFrames
      /\ pipe \in 0..PipeSize /\ faults \in 0..MaxFaults
  <2>1. sent = 0 /\ taken = 0 /\ pipe = 0 /\ faults = 0
    BY DEF Init
  <2> QED BY <2>1, EncodeAssumption
<1>3. TypeOK
  BY <1>1, <1>2 DEF TypeOK, Init, InitScreen
<1>4. IInv
  BY EncodeAssumption
     DEF Init, IInv, FramesAreCounted, CallerFollowsEncoder,
         FfmpegIsInside, NoFailureMeansEnd, EndMeansEmptyPipe, ResultIsPassedOn
<1> QED BY <1>3, <1>4

(* A step keeps the types, given that frames are counted: ffmpeg reads no   *)
(* more of them than were written.                                         *)
LEMMA NextTypeOK == TypeOK /\ FramesAreCounted /\ [Next]_vars => TypeOK'
<1> SUFFICES ASSUME TypeOK, FramesAreCounted, [Next]_vars PROVE TypeOK'
  OBVIOUS
<1> USE EncodeAssumption DEF TypeOK, FramesAreCounted, input, channels, writer, process, screen
<1>1. CASE Grow
  BY <1>1 DEF Grow
<1>2. CASE Stat
  BY <1>2 DEF Stat, Fail, Fault
<1>3. CASE Read
  BY <1>3 DEF Read, Fail, Fault
<1>4. CASE Compress
  BY <1>4 DEF Compress, Fail, Fault
<1>5. CASE StartEncoder
  <2>1. /\ caller' \in {"drain", "stop"} /\ encoder' \in {encoder, "start"}
        /\ result' \in {result, "error"} /\ faults' \in {faults, faults + 1} /\ faults' <= MaxFaults
        /\ UNCHANGED <<input, sent, failed, channels, process, screen>>
    BY <1>5 DEF StartEncoder, Fail, Fault
  <2> QED BY <2>1
<1>6. CASE Drain
  <2>1. progressCh # <<>> /\ progressCh' = Tail(progressCh) /\ status' = Head(progressCh)
    BY <1>6 DEF Drain, Report
  <2>2. /\ Tail(progressCh) \in Seq(1..TotalFrames) /\ Head(progressCh) \in 1..TotalFrames
        /\ Len(Tail(progressCh)) = Len(progressCh) - 1 /\ Len(progressCh) \in Nat
    <3>1. progressCh \in Seq(1..TotalFrames)
      OBVIOUS
    <3> QED BY <2>1, <3>1, HeadTailProperties, EmptySeq
  <2>3. progressCh' \in Seq(1..TotalFrames) /\ Len(progressCh') <= ProgressSize /\ status' \in 1..TotalFrames
    BY <2>1, <2>2
  <2> QED BY <1>6, <2>3 DEF Drain, Report
<1>7. CASE DrainEnds
  BY <1>7 DEF DrainEnds
<1>8. CASE Await
  BY <1>8 DEF Await
<1>9. CASE Stop
  <2>1. CASE caller = "stop"
    BY <1>9, <2>1 DEF Stop, RequestStop
  <2>2. CASE caller = "clear"
    BY <1>9, <2>2 DEF Stop, Clear
  <2> QED BY <1>9, <2>1, <2>2 DEF Stop
<1>10. CASE StartFFmpegPipe
  <2>1. CASE encoder' = "write"
    BY <1>10, <2>1 DEF StartFFmpegPipe
  <2>2. CASE encoder' = "close"
    BY <1>10, <2>2 DEF StartFFmpegPipe, Fault
  <2> QED BY <1>10, <2>1, <2>2 DEF StartFFmpegPipe
<1>11. CASE WriteFrame
  BY <1>11 DEF WriteFrame
<1>12. CASE WriteFails
  BY <1>12 DEF WriteFails
<1>13. CASE SendProgress
  BY <1>13 DEF SendProgress
<1>14. CASE CloseStdin
  BY <1>14 DEF CloseStdin
<1>15. CASE Wait
  BY <1>15 DEF Wait
<1>16. CASE Cleanup
  BY <1>16 DEF Cleanup
<1>17. CASE Kill
  BY <1>17 DEF Kill
<1>18. CASE Finish
  <2>1. CASE encoder = "close"
    BY <1>18, <2>1 DEF Finish
  <2>2. CASE encoder = "send"
    <3>1. PICK answer \in {"ok", "error"} : done' = Append(done, answer)
      BY <1>18, <2>2, Zenon DEF Finish
    <3>2. done' \in Seq({"ok", "error"})
      BY <3>1
    <3>3. encoder' = "exited" /\ sent' = sent /\ progressCh' = progressCh
      BY <1>18, <2>2 DEF Finish
    <3>4. UNCHANGED <<input, caller, result, failed, progressClosed, process, faults, screen>>
      BY <1>18, <2>2 DEF Finish
    <3> QED BY <3>2, <3>3, <3>4
  <2> QED BY <1>18, <2>1, <2>2 DEF Finish
<1>19. CASE StepFails
  BY <1>19 DEF StepFails, Fault
<1>20. CASE ReadFrame
  BY <1>20 DEF ReadFrame
<1>21. CASE FinishVideo
  BY <1>21 DEF FinishVideo
<1>22. CASE Die
  BY <1>22 DEF Die, Fault
<1>23. CASE Repaint
  BY <1>23 DEF Repaint, Paint, Tick, Draw, Quit
<1>24. CASE UNCHANGED vars
  BY <1>24 DEF vars
<1> QED
  BY <1>1, <1>2, <1>3, <1>4, <1>5, <1>6, <1>7, <1>8, <1>9, <1>10, <1>11, <1>12, <1>13, <1>14, <1>15, <1>16, <1>17, <1>18, <1>19, <1>20, <1>21, <1>22, <1>23, <1>24
     DEF Next, RunEncode, EncodePayloadsWeave, Ffmpeg, Returned

LEMMA NextIInv == TypeOK /\ IInv /\ [Next]_vars => IInv'
<1> SUFFICES ASSUME TypeOK, IInv, [Next]_vars PROVE IInv'
  OBVIOUS
<1> USE EncodeAssumption
    DEF TypeOK, IInv, FramesAreCounted, CallerFollowsEncoder, FfmpegIsInside,
        NoFailureMeansEnd, EndMeansEmptyPipe, ResultIsPassedOn,
        input, channels, writer, process, screen
<1>1. CASE Grow
  BY <1>1 DEF Grow
<1>2. CASE Stat
  BY <1>2 DEF Stat, Fail, Fault
<1>3. CASE Read
  BY <1>3 DEF Read, Fail, Fault
<1>4. CASE Compress
  BY <1>4 DEF Compress, Fail, Fault
<1>5. CASE StartEncoder
  BY <1>5 DEF StartEncoder, Fail, Fault
<1>6. CASE Drain
  BY <1>6 DEF Drain, Report
<1>7. CASE DrainEnds
  BY <1>7 DEF DrainEnds
<1>8. CASE Await
  BY <1>8 DEF Await
<1>9. CASE Stop
  <2>1. CASE caller = "stop"
    BY <1>9, <2>1 DEF Stop, RequestStop
  <2>2. CASE caller = "clear"
    BY <1>9, <2>2 DEF Stop, Clear
  <2> QED BY <1>9, <2>1, <2>2 DEF Stop
<1>10. CASE StartFFmpegPipe
  <2>1. CASE encoder' = "write"
    BY <1>10, <2>1 DEF StartFFmpegPipe
  <2>2. CASE encoder' = "close"
    BY <1>10, <2>2 DEF StartFFmpegPipe, Fault
  <2> QED BY <1>10, <2>1, <2>2 DEF StartFFmpegPipe
<1>11. CASE WriteFrame
  BY <1>11 DEF WriteFrame
<1>12. CASE WriteFails
  BY <1>12 DEF WriteFails
<1>13. CASE SendProgress
  BY <1>13 DEF SendProgress
<1>14. CASE CloseStdin
  BY <1>14 DEF CloseStdin
<1>15. CASE Wait
  <2>1. failed' <=> ffmpeg # "ended"
    BY <1>15 DEF Wait
  <2> QED BY <1>15, <2>1 DEF Wait
<1>16. CASE Cleanup
  BY <1>16 DEF Cleanup
<1>17. CASE Kill
  BY <1>17 DEF Kill
<1>18. CASE Finish
  <2>1. CASE encoder = "close"
    BY <1>18, <2>1 DEF Finish
  <2>2. CASE encoder = "send"
    <3>1. done = <<>> /\ done' = Append(done, IF failed THEN "error" ELSE "ok")
      BY <1>18, <2>2 DEF Finish
    <3>2. \A k \in DOMAIN done' : done'[k] = "ok" => ~failed
      BY <3>1
    <3> QED BY <1>18, <2>2, <3>1, <3>2 DEF Finish
  <2> QED BY <1>18, <2>1, <2>2 DEF Finish
<1>19. CASE StepFails
  BY <1>19 DEF StepFails, Fault
<1>20. CASE ReadFrame
  BY <1>20 DEF ReadFrame
<1>21. CASE FinishVideo
  BY <1>21 DEF FinishVideo
<1>22. CASE Die
  BY <1>22 DEF Die, Fault
<1>23. CASE Repaint
  BY <1>23 DEF Repaint, Paint, Tick, Draw, Quit
<1>24. CASE UNCHANGED vars
  BY <1>24 DEF vars
<1> QED
  BY <1>1, <1>2, <1>3, <1>4, <1>5, <1>6, <1>7, <1>8, <1>9, <1>10, <1>11, <1>12, <1>13, <1>14, <1>15, <1>16, <1>17, <1>18, <1>19, <1>20, <1>21, <1>22, <1>23, <1>24
     DEF Next, RunEncode, EncodePayloadsWeave, Ffmpeg, Returned

(* The whole state: types, and how far the actors are of each other.       *)
LEMMA Invariance == Spec => [](TypeOK /\ IInv)
<1>1. TypeOK /\ IInv /\ [Next]_vars => TypeOK' /\ IInv'
  BY NextTypeOK, NextIInv DEF IInv
<1> QED BY <1>1, InitTypeOK, PTL DEF Spec

(* The channels stay within their capacity, and ffmpeg never reads a frame  *)
(* that was not written (weave.go:55-82, main.go:320-333).                  *)
THEOREM TypeCorrect == Spec => []TypeOK
BY Invariance, PTL

(* For any number of frames, sizes of the channels and of the pipe, and     *)
(* failing calls: a menu that reports success has a whole video.           *)
THEOREM SuccessWhole == Spec => []SuccessIsWhole
<1>1. TypeOK /\ IInv => SuccessIsWhole
  BY DEF TypeOK, IInv, FramesAreCounted, NoFailureMeansEnd, EndMeansEmptyPipe,
         ResultIsPassedOn, SuccessIsWhole
<1> QED BY <1>1, Invariance, PTL

(* However the encode ends, ffmpeg was waited for before the goroutine      *)
(* returns and before the menu goes on (weave.go:37-43).                   *)
THEOREM FfmpegIsGone == Spec => []NoFfmpegIsLeft
<1>1. TypeOK /\ IInv => NoFfmpegIsLeft
  BY DEF TypeOK, IInv, CallerFollowsEncoder, FfmpegIsInside, NoFfmpegIsLeft
<1> QED BY <1>1, Invariance, PTL

-----------------------------------------------------------------------------
(* The loading screen *)

(* Taking the first report of the channel leaves the newest one the newest. *)
LEMMA TailKeepsNewest ==
  ASSUME NEW S, NEW q \in Seq(S), q # <<>>
  PROVE  /\ \A k \in DOMAIN Tail(q) : \E j \in DOMAIN q : Tail(q)[k] = q[j]
         /\ \E j \in DOMAIN q : Head(q) = q[j]
         /\ (IF Tail(q) = <<>> THEN Head(q) ELSE Tail(q)[Len(Tail(q))]) = q[Len(q)]
<1>1. /\ Len(q) \in Nat \ {0} /\ Tail(q) \in Seq(S) /\ Len(Tail(q)) = Len(q) - 1
      /\ \A k \in 1..Len(Tail(q)) : Tail(q)[k] = q[k + 1]
      /\ DOMAIN q = 1..Len(q) /\ DOMAIN Tail(q) = 1..Len(Tail(q)) /\ Head(q) = q[1]
  BY HeadTailProperties
<1>2. Tail(q) = <<>> <=> Len(q) = 1
  <2>1. Tail(q) = <<>> <=> Len(Tail(q)) = 0
    BY <1>1, EmptySeq, Zenon
  <2> QED BY <1>1, <2>1
<1>3. CASE Len(q) = 1
  BY <1>1, <1>2, <1>3
<1>4. CASE Len(q) > 1
  <2>1. Len(Tail(q)) \in 1..Len(Tail(q)) /\ Len(Tail(q)) + 1 = Len(q)
    BY <1>1, <1>4
  <2>2. Tail(q)[Len(Tail(q))] = q[Len(q)]
    BY <1>1, <2>1
  <2>3. Tail(q) # <<>>
    BY <1>2, <1>4
  <2>4. \A k \in 1..Len(Tail(q)) : k + 1 \in 1..Len(q)
    BY <1>1
  <2>5. 1 \in 1..Len(q)
    BY <1>4
  <2> QED BY <1>1, <2>2, <2>3, <2>4, <2>5
<1> QED BY <1>1, <1>3, <1>4

(* Sending a report adds it behind the others. *)
LEMMA AppendAddsLast ==
  ASSUME NEW S, NEW q \in Seq(S), NEW x \in S
  PROVE  /\ Len(q) \in Nat /\ Len(Append(q, x)) = Len(q) + 1 /\ Append(q, x) # <<>>
         /\ DOMAIN q = 1..Len(q) /\ DOMAIN Append(q, x) = 1..(Len(q) + 1)
         /\ \A k \in 1..Len(q) : Append(q, x)[k] = q[k]
         /\ Append(q, x)[Len(q) + 1] = x
BY AppendProperties, LenProperties

(* Every step of the goroutine that reports, of the caller that passes the  *)
(* reports on and of the painter keeps what is shown behind what was sent.  *)
LEMMA NextProgress == TypeOK /\ IInv /\ ProgressInv /\ [Next]_vars => ProgressInv'
<1> SUFFICES ASSUME TypeOK, IInv, ProgressInv, [Next]_vars PROVE ProgressInv'
  OBVIOUS
<1> USE EncodeAssumption
    DEF TypeOK, IInv, FramesAreCounted, CallerFollowsEncoder, ResultIsPassedOn,
        NoFailureMeansEnd, ProgressInv, NothingRunsAhead, Reported, Newest,
        input, channels, writer, process, screen
<1>1. CASE Grow
  BY <1>1 DEF Grow
<1>2. CASE Stat
  BY <1>2 DEF Stat, Fail, Fault
<1>3. CASE Read
  BY <1>3 DEF Read, Fail, Fault
<1>4. CASE Compress
  BY <1>4 DEF Compress, Fail, Fault
<1>5. CASE StartEncoder
  BY <1>5 DEF StartEncoder, Fail, Fault
<1>6. CASE Drain
  <2>1. /\ progressCh \in Seq(1..TotalFrames) /\ progressCh # <<>>
        /\ progressCh' = Tail(progressCh) /\ status' = Head(progressCh)
        /\ UNCHANGED <<sent, encoder, result, caller, snapshot, line>> /\ result # "ok"
    BY <1>6 DEF Drain, Report
  <2>2. /\ \A k \in DOMAIN progressCh' : \E j \in DOMAIN progressCh : progressCh'[k] = progressCh[j]
        /\ \E j \in DOMAIN progressCh : status' = progressCh[j]
        /\ Newest' = Newest
    <3>1. Newest' = (IF Tail(progressCh) = <<>> THEN Head(progressCh)
                     ELSE Tail(progressCh)[Len(Tail(progressCh))])
      BY <2>1
    <3>2. Newest = progressCh[Len(progressCh)]
      BY <2>1
    <3> HIDE DEF Newest, TypeOK, IInv, ProgressInv
    <3>3. /\ \A k \in DOMAIN Tail(progressCh) : \E j \in DOMAIN progressCh :
               Tail(progressCh)[k] = progressCh[j]
          /\ \E j \in DOMAIN progressCh : Head(progressCh) = progressCh[j]
          /\ (IF Tail(progressCh) = <<>> THEN Head(progressCh)
              ELSE Tail(progressCh)[Len(Tail(progressCh))]) = progressCh[Len(progressCh)]
      BY <2>1, TailKeepsNewest, Zenon
    <3>4. Newest' = Newest
      BY <3>1, <3>2, <3>3
    <3> QED BY <2>1, <3>3, <3>4, Zenon
  <2>3. NothingRunsAhead /\ (Reported > 0 => Newest = Reported)
    OBVIOUS
  <2> HIDE DEF TypeOK, IInv, FramesAreCounted, CallerFollowsEncoder, ResultIsPassedOn,
               NoFailureMeansEnd
  <2>4. NothingRunsAhead'
    BY <2>1, <2>2, <2>3
  <2>5. Reported' = Reported
    BY <2>1
  <2> HIDE DEF Newest, Reported, NothingRunsAhead
  <2> QED BY <2>1, <2>2, <2>3, <2>4, <2>5
<1>7. CASE DrainEnds
  BY <1>7 DEF DrainEnds
<1>8. CASE Await
  BY <1>8 DEF Await
<1>9. CASE Stop
  BY <1>9 DEF Stop, RequestStop, Clear
<1>10. CASE StartFFmpegPipe
  BY <1>10 DEF StartFFmpegPipe, Fault
<1>11. CASE WriteFrame
  <2>1. /\ encoder = "write" /\ encoder' = "progress" /\ sent' = sent + 1 /\ sent \in Nat
        /\ UNCHANGED <<progressCh, status, snapshot, line, result>>
        /\ \A k \in DOMAIN progressCh : progressCh[k] \in 1..TotalFrames
        /\ {status, snapshot, line} \subseteq (1..TotalFrames) \cup {Blank}
    BY <1>11 DEF WriteFrame
  <2>2. ProgressInv
    OBVIOUS
  <2> HIDE DEF TypeOK, IInv, FramesAreCounted, CallerFollowsEncoder, ResultIsPassedOn,
               NoFailureMeansEnd
  <2>3. NothingRunsAhead'
    BY <2>1, <2>2
  <2>4. Reported' = Reported /\ Newest' = Newest
    BY <2>1
  <2> QED BY <2>1, <2>2, <2>3, <2>4
<1>12. CASE WriteFails
  BY <1>12 DEF WriteFails
<1>13. CASE SendProgress
  <2>1. /\ progressCh \in Seq(1..TotalFrames) /\ sent \in 1..TotalFrames
        /\ progressCh' = Append(progressCh, sent) /\ encoder' = "write"
        /\ UNCHANGED <<sent, result, status, snapshot, line>>
    BY <1>13 DEF SendProgress
  <2>2. NothingRunsAhead /\ (result = "ok" => status = TotalFrames)
    OBVIOUS
  <2> HIDE DEF TypeOK, IInv, FramesAreCounted, CallerFollowsEncoder, ResultIsPassedOn,
               NoFailureMeansEnd
  <2>3. /\ Len(progressCh) \in Nat /\ Len(progressCh') = Len(progressCh) + 1
        /\ progressCh' # <<>> /\ DOMAIN progressCh' = 1..Len(progressCh')
        /\ DOMAIN progressCh = 1..Len(progressCh)
        /\ \A k \in 1..Len(progressCh) : progressCh'[k] = progressCh[k]
        /\ progressCh'[Len(progressCh')] = sent
    BY <2>1, AppendAddsLast
  <2>4. NothingRunsAhead'
    <3>1. \A k \in 1..Len(progressCh') : k \in 1..Len(progressCh) \/ k = Len(progressCh')
      BY <2>3
    <3>2. \A k \in DOMAIN progressCh' : progressCh'[k] <= sent
      BY <2>1, <2>2, <2>3, <3>1
    <3> QED BY <2>1, <2>2, <3>2
  <2>5. Newest' = sent /\ Reported' = sent
    BY <2>1, <2>3
  <2> QED BY <2>1, <2>2, <2>4, <2>5
<1>14. CASE CloseStdin
  BY <1>14 DEF CloseStdin
<1>15. CASE Wait
  BY <1>15 DEF Wait
<1>16. CASE Cleanup
  BY <1>16 DEF Cleanup
<1>17. CASE Kill
  BY <1>17 DEF Kill
<1>18. CASE Finish
  BY <1>18 DEF Finish
<1>19. CASE StepFails
  BY <1>19 DEF StepFails, Fault
<1>20. CASE ReadFrame
  BY <1>20 DEF ReadFrame
<1>21. CASE FinishVideo
  BY <1>21 DEF FinishVideo
<1>22. CASE Die
  BY <1>22 DEF Die, Fault
<1>23. CASE Repaint
  BY <1>23 DEF Repaint, Paint, Tick, Draw, Quit
<1>24. CASE UNCHANGED vars
  BY <1>24 DEF vars
<1> QED
  BY <1>1, <1>2, <1>3, <1>4, <1>5, <1>6, <1>7, <1>8, <1>9, <1>10, <1>11, <1>12, <1>13, <1>14, <1>15, <1>16, <1>17, <1>18, <1>19, <1>20, <1>21, <1>22, <1>23, <1>24
     DEF Next, RunEncode, EncodePayloadsWeave, Ffmpeg, Returned

(* No report is shown before its frame was written, and the last one is not *)
(* lost, whatever the sizes of the channels (main.go:326-330).             *)
THEOREM ProgressHonest == Spec => []ProgressIsHonest
<1>1. Init => ProgressInv
  BY EncodeAssumption DEF Init, InitScreen, ProgressInv, NothingRunsAhead, Reported
<1>2. ProgressInv => ProgressIsHonest
  BY DEF ProgressInv, NothingRunsAhead, ProgressIsHonest
<1> QED BY <1>1, <1>2, Invariance, NextProgress, PTL DEF Spec

(* No step after the return touches the screen: the painter is gone, and    *)
(* only it draws (main.go:77-100, 122-169).                                *)
LEMMA NextScreen == ScreenIsLeftClean /\ [Next]_vars => ScreenIsLeftClean'
<1> SUFFICES ASSUME ScreenIsLeftClean, [Next]_vars PROVE ScreenIsLeftClean'
  OBVIOUS
<1> USE DEF ScreenIsLeftClean, CleanScreen, input, channels, writer, process, screen
<1>1. CASE Grow
  BY <1>1 DEF Grow
<1>2. CASE Stat
  BY <1>2 DEF Stat, Fail, Fault
<1>3. CASE Read
  BY <1>3 DEF Read, Fail, Fault
<1>4. CASE Compress
  BY <1>4 DEF Compress, Fail, Fault
<1>5. CASE StartEncoder
  BY <1>5 DEF StartEncoder, Fail, Fault
<1>6. CASE Drain
  BY <1>6 DEF Drain, Report
<1>7. CASE DrainEnds
  BY <1>7 DEF DrainEnds
<1>8. CASE Await
  BY <1>8 DEF Await
<1>9. CASE Stop
  BY <1>9 DEF Stop, RequestStop, Clear
<1>10. CASE StartFFmpegPipe
  BY <1>10 DEF StartFFmpegPipe, Fault
<1>11. CASE WriteFrame
  BY <1>11 DEF WriteFrame
<1>12. CASE WriteFails
  BY <1>12 DEF WriteFails
<1>13. CASE SendProgress
  BY <1>13 DEF SendProgress
<1>14. CASE CloseStdin
  BY <1>14 DEF CloseStdin
<1>15. CASE Wait
  BY <1>15 DEF Wait
<1>16. CASE Cleanup
  BY <1>16 DEF Cleanup
<1>17. CASE Kill
  BY <1>17 DEF Kill
<1>18. CASE Finish
  BY <1>18 DEF Finish
<1>19. CASE StepFails
  BY <1>19 DEF StepFails, Fault
<1>20. CASE ReadFrame
  BY <1>20 DEF ReadFrame
<1>21. CASE FinishVideo
  BY <1>21 DEF FinishVideo
<1>22. CASE Die
  BY <1>22 DEF Die, Fault
<1>23. CASE Repaint
  BY <1>23 DEF Repaint, Paint, Tick, Draw, Quit
<1>24. CASE UNCHANGED vars
  BY <1>24 DEF vars
<1> QED
  BY <1>1, <1>2, <1>3, <1>4, <1>5, <1>6, <1>7, <1>8, <1>9, <1>10, <1>11, <1>12, <1>13, <1>14, <1>15, <1>16, <1>17, <1>18, <1>19, <1>20, <1>21, <1>22, <1>23, <1>24
     DEF Next, RunEncode, EncodePayloadsWeave, Ffmpeg, Returned

(* The terminal is left clean for good, whenever the painter is scheduled.  *)
THEOREM ScreenClean == Spec => []ScreenIsLeftClean
<1>1. Init => ScreenIsLeftClean
  BY DEF Init, ScreenIsLeftClean
<1> QED BY <1>1, NextScreen, PTL DEF Spec
=============================================================================
