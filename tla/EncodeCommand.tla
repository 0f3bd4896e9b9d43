---------------------------- MODULE EncodeCommand -----------------------------
(***************************************************************************)
(* runEncode with the presets of the menu: the file is read and compressed,*)
(* a goroutine runs EncodePayloadsWeave, which writes the frames to the    *)
(* pipe of ffmpeg, and the caller shows the progress until the goroutine   *)
(* is done.  runWithLoading draws the progress and cleans up behind it.    *)
(*                                                                         *)
(* ffmpeg and the program that may still write the file are the            *)
(* environment.                                                            *)
(***************************************************************************)
EXTENDS LoadingScreen, Sequences

CONSTANTS
  TotalFrames,   (* the frames of the video *)
  ProgressSize,  (* the capacity of progressCh, 100 *)
  DoneSize,      (* the capacity of done, 1 *)
  PipeSize,      (* frames that fit into the pipe of ffmpeg *)
  Sizes, Limit,  (* sizes of files, maxDecodedPayloadBytes *)
  MaxFaults      (* calls that fail, deaths of ffmpeg *)

ASSUME EncodeAssumption ==
  /\ TotalFrames \in Nat \ {0}
  /\ ProgressSize \in Nat \ {0} /\ DoneSize \in Nat /\ PipeSize \in Nat \ {0}
  /\ Sizes \subseteq Nat /\ Limit \in Nat
  /\ MaxFaults \in Nat
  /\ Blank \notin 0..TotalFrames

VARIABLES
  size,       (* the size of the input file *)
  data,       (* how much of it was read *)
  caller,     (* where runWithLoading and runEncode are *)
  result,     (* what runEncode returns *)
  encoder,    (* where the goroutine of EncodePayloadsWeave is *)
  sent,       (* frames written to the pipe *)
  failed,     (* EncodePayloadsWeave returns an error *)
  progressCh, progressClosed, done,
  ffmpeg,     (* "none", "running", "ended", "died" or "killed" *)
  waited,     (* the ffmpeg process was waited for *)
  pipe,       (* frames in the pipe *)
  pipeClosed,
  taken,      (* frames ffmpeg has read *)
  video,      (* the output: "old", "partial", "short" or "whole" *)
  faults

input == <<size, data>>
channels == <<progressCh, progressClosed, done>>
writer == <<encoder, sent, failed>>
process == <<ffmpeg, waited, pipe, pipeClosed, taken, video>>
vars == <<size, data, caller, result, encoder, sent, failed, progressCh,
          progressClosed, done, ffmpeg, waited, pipe, pipeClosed, taken, video,
          faults, screen>>

Fault == faults < MaxFaults /\ faults' = faults + 1

-----------------------------------------------------------------------------
(* runEncode *)

Fail == caller' = "stop" /\ result' = "error"

(* Somebody may be writing the file. *)
Grow ==
  /\ caller \in {"stat", "read"}
  /\ \E s \in Sizes : s > size /\ size' = s
  /\ UNCHANGED <<data, caller, result, writer, channels, process, faults, screen>>

Stat ==
  /\ caller = "stat"
  /\ \/ size <= Limit /\ caller' = "read" /\ UNCHANGED <<result, faults>>
     \/ size > Limit /\ Fail /\ UNCHANGED faults
     \/ Fail /\ Fault
  /\ UNCHANGED <<input, writer, channels, process, screen>>

Read ==
  /\ caller = "read"
  /\ \/ data' = size /\ caller' = "compress" /\ UNCHANGED <<result, faults>>
     \/ Fail /\ Fault /\ UNCHANGED data
  /\ UNCHANGED <<size, writer, channels, process, screen>>

(* compressData, which also fails if the result is too large for a video.  *)
Compress ==
  /\ caller = "compress"
  /\ \/ data <= Limit /\ caller' = "encode" /\ UNCHANGED <<result, faults>>
     \/ data > Limit /\ Fail /\ UNCHANGED faults
     \/ Fail /\ Fault
  /\ UNCHANGED <<input, writer, channels, process, screen>>

(* NewVideoEncoder, the channels and the goroutine. *)
StartEncoder ==
  /\ caller = "encode"
  /\ \/ caller' = "drain" /\ encoder' = "start" /\ UNCHANGED <<result, faults>>
     \/ Fail /\ Fault /\ UNCHANGED encoder
  /\ UNCHANGED <<input, sent, failed, channels, process, screen>>

Drain ==
  /\ caller = "drain" /\ progressCh # <<>>
  /\ progressCh' = Tail(progressCh)
  /\ Report(Head(progressCh))
  /\ UNCHANGED <<progressClosed, done, input, caller, result, writer, process, faults>>

(* Mutant: the caller stops listening when the goroutine is done. *)
DrainUntilDone ==
  /\ caller = "drain" /\ (done # <<>> \/ progressClosed)
  /\ caller' = "await"
  /\ UNCHANGED <<input, result, writer, channels, process, faults, screen>>

DrainEnds ==
  /\ caller = "drain" /\ progressCh = <<>> /\ progressClosed
  /\ caller' = "await"
  /\ UNCHANGED <<input, result, writer, channels, process, faults, screen>>

Await ==
  /\ caller = "await" /\ done # <<>>
  /\ result' = Head(done) /\ done' = Tail(done)
  /\ caller' = "stop"
  /\ UNCHANGED <<input, writer, progressCh, progressClosed, process, faults, screen>>

Stop ==
  \/ /\ caller = "stop" /\ RequestStop /\ caller' = "clear"
     /\ UNCHANGED <<input, result, writer, channels, process, faults>>
  \/ /\ caller = "clear" /\ Clear /\ caller' = "end"
     /\ UNCHANGED <<input, result, writer, channels, process, faults>>

-----------------------------------------------------------------------------
(* EncodePayloadsWeave *)

(* The frames are made and ffmpeg, started with -y, empties the output.     *)
StartFFmpegPipe ==
  /\ encoder = "start"
  /\ \/ /\ encoder' = "write" /\ ffmpeg' = "running" /\ video' = "partial"
        /\ UNCHANGED <<failed, faults>>
     \/ /\ encoder' = "close" /\ failed' = TRUE /\ Fault
        /\ UNCHANGED <<ffmpeg, video>>
  /\ UNCHANGED <<sent, waited, pipe, pipeClosed, taken, input, caller, result,
                 channels, screen>>

(* The write blocks while the pipe is full. *)
WriteFrame ==
  /\ encoder = "write" /\ sent < TotalFrames
  /\ ffmpeg = "running" /\ pipe < PipeSize
  /\ pipe' = pipe + 1 /\ sent' = sent + 1
  /\ encoder' = "progress"
  /\ UNCHANGED <<failed, ffmpeg, waited, pipeClosed, taken, video, input, caller,
                 result, channels, faults, screen>>

(* Mutant: a write that fails is tried again. *)
WriteAgain ==
  /\ encoder = "write" /\ sent < TotalFrames /\ ffmpeg # "running"
  /\ UNCHANGED vars

WriteFails ==
  /\ encoder = "write" /\ sent < TotalFrames /\ ffmpeg # "running"
  /\ failed' = TRUE /\ encoder' = "cleanup"
  /\ UNCHANGED <<sent, process, input, caller, result, channels, faults, screen>>

(* Serializing, rendering or closing the pipe fails. *)
StepFails ==
  /\ encoder = "write" /\ Fault
  /\ failed' = TRUE /\ encoder' = "cleanup"
  /\ UNCHANGED <<sent, process, input, caller, result, channels, screen>>

SendProgress ==
  /\ encoder = "progress" /\ Len(progressCh) < ProgressSize
  /\ progressCh' = Append(progressCh, sent)
  /\ encoder' = "write"
  /\ UNCHANGED <<sent, failed, progressClosed, done, input, caller, result,
                 process, faults, screen>>

CloseStdin ==
  /\ encoder = "write" /\ sent = TotalFrames
  /\ pipeClosed' = TRUE
  /\ encoder' = "wait"
  /\ UNCHANGED <<sent, failed, ffmpeg, waited, pipe, taken, video, input, caller,
                 result, channels, faults, screen>>

(* Mutant: the exit status of ffmpeg is ignored. *)
WaitIgnoringStatus ==
  /\ encoder = "wait" /\ ffmpeg # "running"
  /\ waited' = TRUE
  /\ encoder' = "cleanup"
  /\ UNCHANGED <<failed, sent, ffmpeg, pipe, pipeClosed, taken, video, input, caller,
                 result, channels, faults, screen>>

Wait ==
  /\ encoder = "wait" /\ ffmpeg # "running"
  /\ waited' = TRUE
  /\ failed' = (ffmpeg # "ended")
  /\ encoder' = "cleanup"
  /\ UNCHANGED <<sent, ffmpeg, pipe, pipeClosed, taken, video, input, caller,
                 result, channels, faults, screen>>

(* Mutant: the deferred function only closes the pipe. *)
CleanupWithoutKill ==
  /\ encoder = "cleanup"
  /\ pipeClosed' = TRUE
  /\ encoder' = "close"
  /\ UNCHANGED <<sent, failed, ffmpeg, waited, pipe, taken, video, input, caller,
                 result, channels, faults, screen>>

(* The deferred function closes the pipe, kills ffmpeg unless it was waited *)
(* for, and waits for it.                                                   *)
Cleanup ==
  /\ encoder = "cleanup"
  /\ pipeClosed' = TRUE
  /\ encoder' = IF waited THEN "close" ELSE "kill"
  /\ UNCHANGED <<sent, failed, ffmpeg, waited, pipe, taken, video, input, caller,
                 result, channels, faults, screen>>

Kill ==
  /\ encoder = "kill"
  /\ ffmpeg' = IF ffmpeg = "running" THEN "killed" ELSE ffmpeg
  /\ waited' = TRUE
  /\ encoder' = "close"
  /\ UNCHANGED <<sent, failed, pipe, pipeClosed, taken, video, input, caller,
                 result, channels, faults, screen>>

Finish ==
  \/ /\ encoder = "close"
     /\ progressClosed' = TRUE /\ encoder' = "send"
     /\ UNCHANGED <<sent, failed, progressCh, done, input, caller, result, process, faults, screen>>
  \/ /\ encoder = "send" /\ Len(done) < DoneSize
     /\ done' = Append(done, IF failed THEN "error" ELSE "ok")
     /\ encoder' = "exited"
     /\ UNCHANGED <<sent, failed, progressCh, progressClosed, input, caller, result, process,
                    faults, screen>>

-----------------------------------------------------------------------------
(* ffmpeg *)

ReadFrame ==
  /\ ffmpeg = "running" /\ pipe > 0
  /\ pipe' = pipe - 1 /\ taken' = taken + 1
  /\ UNCHANGED <<ffmpeg, waited, pipeClosed, video, input, caller, result, writer,
                 channels, faults, screen>>

FinishVideo ==
  /\ ffmpeg = "running" /\ pipe = 0 /\ pipeClosed
  /\ ffmpeg' = "ended"
  /\ video' = IF taken = TotalFrames THEN "whole" ELSE "short"
  /\ UNCHANGED <<waited, pipe, pipeClosed, taken, input, caller, result, writer,
                 channels, faults, screen>>

Die ==
  /\ ffmpeg = "running" /\ Fault
  /\ ffmpeg' = "died"
  /\ UNCHANGED <<waited, pipe, pipeClosed, taken, video, input, caller, result,
                 writer, channels, screen>>
-----------------------------------------------------------------------------

Init ==
  /\ InitScreen
  /\ size \in Sizes /\ data = 0
  /\ caller = "stat" /\ result = "none"
  /\ encoder = "none" /\ sent = 0 /\ failed = FALSE
  /\ progressCh = <<>> /\ progressClosed = FALSE /\ done = <<>>
  /\ ffmpeg = "none" /\ waited = FALSE
  /\ pipe = 0 /\ pipeClosed = FALSE /\ taken = 0 /\ video = "old"
  /\ faults = 0

RunEncode ==
  \/ Stat \/ Read \/ Compress \/ StartEncoder
  \/ Drain \/ DrainEnds \/ Await \/ Stop

EncodePayloadsWeave ==
  \/ StartFFmpegPipe \/ WriteFrame \/ WriteFails \/ SendProgress
  \/ CloseStdin \/ Wait \/ Cleanup \/ Kill \/ Finish

Ffmpeg == ReadFrame \/ FinishVideo

Repaint ==
  /\ Paint
  /\ UNCHANGED <<input, caller, result, writer, channels, process, faults>>

Returned == caller = "end" /\ UNCHANGED vars

Next ==
  \/ Grow \/ RunEncode \/ EncodePayloadsWeave \/ StepFails
  \/ Ffmpeg \/ Die \/ Repaint
  \/ Returned

(* The goroutines are scheduled, and ffmpeg reads its input and finishes;   *)
(* nothing is obliged to fail.                                              *)
Fairness ==
  /\ WF_vars(RunEncode) /\ WF_vars(EncodePayloadsWeave) /\ WF_vars(Ffmpeg)
  /\ PaintFairness

Spec == Init /\ [][Next]_vars /\ Fairness

-----------------------------------------------------------------------------
(* Properties *)

(* The values of the variables: channels within their capacity, the pipe    *)
(* within its size, progress within the number of frames.                  *)
TypeOK ==
  /\ size \in Sizes /\ data \in Sizes \cup {0}
  /\ caller \in {"stat", "read", "compress", "encode", "drain", "await", "stop",
                 "clear", "end"}
  /\ result \in {"none", "ok", "error"}
  /\ encoder \in {"none", "start", "write", "progress", "wait", "cleanup", "kill",
                  "close", "send", "exited"}
  /\ sent \in 0..TotalFrames /\ failed \in BOOLEAN
  /\ progressCh \in Seq(1..TotalFrames) /\ Len(progressCh) <= ProgressSize
  /\ progressClosed \in BOOLEAN /\ done \in Seq({"ok", "error"})
  /\ ffmpeg \in {"none", "running", "ended", "died", "killed"}
  /\ waited \in BOOLEAN
  /\ pipe \in 0..PipeSize /\ pipeClosed \in BOOLEAN /\ taken \in 0..TotalFrames
  /\ video \in {"old", "partial", "short", "whole"}
  /\ faults \in 0..MaxFaults
  /\ status \in (1..TotalFrames) \cup {Blank} /\ line \in (1..TotalFrames) \cup {Blank}
  /\ snapshot \in (1..TotalFrames) \cup {Blank}
  /\ painter \in {"select", "print", "exited"}
  /\ cursor \in BOOLEAN /\ stopping \in BOOLEAN

(* The menu says "Processo concluido" only when ffmpeg has finished a video *)
(* with every frame (weave.go:55-82, main.go:320-333).                      *)
SuccessIsWhole == result = "ok" => video = "whole" /\ ffmpeg = "ended"

(* However the encode ends, ffmpeg is gone and was waited for before        *)
(* EncodePayloadsWeave returns: it keeps neither running nor the output     *)
(* open while the menu goes on (weave.go:37-43).                            *)
NoFfmpegIsLeft ==
  encoder \in {"close", "send", "exited"} \/ caller = "end" =>
    ffmpeg = "none" \/ (ffmpeg # "running" /\ waited)

(* What is shown never runs ahead of the frames ffmpeg was given, and the   *)
(* last report is not lost when the encode ends (main.go:326-330).          *)
ProgressIsHonest ==
  /\ line # Blank => line <= sent
  /\ result = "ok" => status = TotalFrames

(* After the operation the terminal stays clean. *)
ScreenIsLeftClean == caller = "end" => CleanScreen

(* Neither a full progress channel, a full pipe, an ffmpeg that died nor    *)
(* the ticker keeps the operation from returning to the menu.               *)
EncodeReturns == <>(caller = "end")
=============================================================================
