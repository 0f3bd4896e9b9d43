---------------------------- MODULE EncodePipeline ----------------------------
(***************************************************************************)
(* VideoEncoder.EncodePayloads: a goroutine feeds the shuffled frames to   *)
(* workers that render them into pooled pixel buffers, and the caller puts *)
(* the results back in order and writes them to the pipe of ffmpeg.        *)
(*                                                                         *)
(* Frames are numbered in the order of the video.                          *)
(***************************************************************************)
EXTENDS Integers, Sequences, FiniteSets

CONSTANTS
  TotalFrames,
  Workers,
  JobsPerWorker,  (* the channels hold this many jobs for each worker: 4 *)
  MaxFaults       (* errors of workers or of ffmpeg *)

ASSUME PipelineAssumption ==
  /\ TotalFrames \in Nat \ {0}
  /\ Workers # {} /\ IsFiniteSet(Workers)
  /\ JobsPerWorker \in Nat \ {0}
  /\ MaxFaults \in Nat

VARIABLES
  fed,           (* how many jobs were put into the channel jobs *)
  jobs, jobsClosed,
  worker,        (* what each worker does: "new", "idle", "render", "send" or "exited" *)
  task,          (* the frame a worker renders, the result it is to send *)
  buffer,        (* the pixel buffer a worker holds *)
  results, resultsClosed,
  content,       (* the frame whose pixels are in each buffer *)
  pool,          (* the buffers in pixelPool *)
  fresh,         (* the buffers that were never allocated *)
  pending,       (* the buffer of each frame that waits for its turn *)
  next,          (* nextFrameIndex *)
  caller,        (* where EncodePayloads is *)
  written,       (* the frames whose pixels ffmpeg was sent *)
  ffmpeg,        (* "running", "died" or "exited" *)
  stdinClosed,
  faults

feeder == <<fed, jobs, jobsClosed>>
workers == <<worker, task, buffer>>
channel == <<results, resultsClosed>>
buffers == <<content, pool, fresh>>
writer == <<pending, next, caller, written, stdinClosed>>
vars == <<fed, jobs, jobsClosed, worker, task, buffer, results, resultsClosed,
          content, pool, fresh, pending, next, caller, written, ffmpeg,
          stdinClosed, faults>>

FrameIndexes == 0..(TotalFrames - 1)

Buffers == 1..TotalFrames

None == 0

(* The result of a worker that failed, and a worker without a frame. *)
Failed == -1

BufferSize ==
  LET size == Cardinality(Workers) * JobsPerWorker
  IN  IF size > TotalFrames THEN TotalFrames ELSE size

Fault == faults < MaxFaults /\ faults' = faults + 1

-----------------------------------------------------------------------------
(* The goroutine that feeds the workers *)

PushJob ==
  /\ fed < TotalFrames /\ Len(jobs) < BufferSize
  /\ jobs' = Append(jobs, fed)
  /\ fed' = fed + 1
  /\ UNCHANGED <<jobsClosed, workers, channel, buffers, writer, ffmpeg, faults>>

CloseJobs ==
  /\ fed = TotalFrames /\ ~jobsClosed
  /\ jobsClosed' = TRUE
  /\ UNCHANGED <<fed, jobs, workers, channel, buffers, writer, ffmpeg, faults>>

CloseResults ==
  /\ jobsClosed /\ ~resultsClosed
  /\ \A w \in Workers : worker[w] = "exited"
  /\ resultsClosed' = TRUE
  /\ UNCHANGED <<results, feeder, workers, buffers, writer, ffmpeg, faults>>

-----------------------------------------------------------------------------
(* The workers *)

(* NewECCEncoder, which may fail. *)
StartWorker(w) ==
  /\ worker[w] = "new"
  /\ \/ worker' = [worker EXCEPT ![w] = "idle"] /\ UNCHANGED faults
     \/ worker' = [worker EXCEPT ![w] = "send"] /\ Fault
  /\ UNCHANGED <<task, buffer, feeder, channel, buffers, writer, ffmpeg>>

(* A buffer comes from the pool or is allocated; the pool may be empty      *)
(* whenever it likes.                                                       *)
TakeJob(w) ==
  /\ worker[w] = "idle" /\ jobs # <<>>
  /\ worker' = [worker EXCEPT ![w] = "render"]
  /\ task' = [task EXCEPT ![w] = Head(jobs)]
  /\ jobs' = Tail(jobs)
  /\ \E b \in pool \cup fresh :
       /\ buffer' = [buffer EXCEPT ![w] = b]
       /\ pool' = pool \ {b} /\ fresh' = fresh \ {b}
  /\ UNCHANGED <<fed, jobsClosed, channel, content, writer, ffmpeg, faults>>

Render(w) ==
  /\ worker[w] = "render"
  /\ content' = [content EXCEPT ![buffer[w]] = task[w]]
  /\ worker' = [worker EXCEPT ![w] = "send"]
  /\ UNCHANGED <<task, buffer, feeder, channel, pool, fresh, writer, ffmpeg, faults>>

(* Mutant: the worker gives up without a result. *)
RenderFailsSilently(w) ==
  /\ worker[w] = "render" /\ Fault
  /\ pool' = pool \cup {buffer[w]}
  /\ buffer' = [buffer EXCEPT ![w] = None]
  /\ task' = [task EXCEPT ![w] = Failed]
  /\ worker' = [worker EXCEPT ![w] = "exited"]
  /\ UNCHANGED <<feeder, channel, content, fresh, writer, ffmpeg>>

RenderFails(w) ==
  /\ worker[w] = "render" /\ Fault
  /\ pool' = pool \cup {buffer[w]}
  /\ buffer' = [buffer EXCEPT ![w] = None]
  /\ task' = [task EXCEPT ![w] = Failed]
  /\ worker' = [worker EXCEPT ![w] = "send"]
  /\ UNCHANGED <<feeder, channel, content, fresh, writer, ffmpeg>>

(* Mutant: the worker returns its buffer to the pool with the result. *)
SendAndRelease(w) ==
  /\ worker[w] = "send" /\ Len(results) < BufferSize
  /\ results' = Append(results, <<task[w], buffer[w]>>)
  /\ worker' = [worker EXCEPT ![w] = IF task[w] = Failed THEN "exited" ELSE "idle"]
  /\ pool' = pool \cup ({buffer[w]} \ {None})
  /\ task' = [task EXCEPT ![w] = Failed]
  /\ buffer' = [buffer EXCEPT ![w] = None]
  /\ UNCHANGED <<resultsClosed, feeder, content, fresh, writer, ffmpeg, faults>>

Send(w) ==
  /\ worker[w] = "send" /\ Len(results) < BufferSize
  /\ results' = Append(results, <<task[w], buffer[w]>>)
  /\ worker' = [worker EXCEPT ![w] = IF task[w] = Failed THEN "exited" ELSE "idle"]
  /\ task' = [task EXCEPT ![w] = Failed]
  /\ buffer' = [buffer EXCEPT ![w] = None]
  /\ UNCHANGED <<resultsClosed, feeder, buffers, writer, ffmpeg, faults>>

ExitWorker(w) ==
  /\ worker[w] = "idle" /\ jobs = <<>> /\ jobsClosed
  /\ worker' = [worker EXCEPT ![w] = "exited"]
  /\ UNCHANGED <<task, buffer, feeder, channel, buffers, writer, ffmpeg, faults>>

-----------------------------------------------------------------------------
(* The caller *)

(* An error ends EncodePayloads; the deferred call closes the pipe. *)
ReturnError == caller' = "error" /\ stdinClosed' = TRUE

Receive ==
  /\ caller = "receive" /\ results # <<>>
  /\ results' = Tail(results)
  /\ LET frame == Head(results)[1]
     IN  IF frame = Failed
         THEN ReturnError /\ UNCHANGED pending
         ELSE /\ pending' = [pending EXCEPT ![frame] = Head(results)[2]]
              /\ caller' = "write"
              /\ UNCHANGED stdinClosed
  /\ UNCHANGED <<next, written, resultsClosed, feeder, workers, buffers, ffmpeg, faults>>

Due == next < TotalFrames /\ pending[next] # None

(* Mutant: whatever frame is there is written. *)
WriteAnyFrame ==
  /\ caller = "write" /\ ffmpeg = "running"
  /\ \E frame \in FrameIndexes :
       /\ pending[frame] # None
       /\ written' = Append(written, content[pending[frame]])
       /\ pool' = pool \cup {pending[frame]}
       /\ pending' = [pending EXCEPT ![frame] = None]
  /\ next' = next + 1
  /\ UNCHANGED <<caller, stdinClosed, feeder, workers, channel, content, fresh,
                 ffmpeg, faults>>

WriteFrame ==
  /\ caller = "write" /\ Due /\ ffmpeg = "running"
  /\ written' = Append(written, content[pending[next]])
  /\ pending' = [pending EXCEPT ![next] = None]
  /\ pool' = pool \cup {pending[next]}
  /\ next' = next + 1
  /\ UNCHANGED <<caller, stdinClosed, feeder, workers, channel, content, fresh,
                 ffmpeg, faults>>

WriteFails ==
  /\ caller = "write" /\ Due /\ ffmpeg # "running"
  /\ ReturnError
  /\ UNCHANGED <<pending, next, written, feeder, workers, channel, buffers, ffmpeg, faults>>

WaitForMore ==
  /\ caller = "write" /\ ~Due
  /\ caller' = "receive"
  /\ UNCHANGED <<pending, next, written, stdinClosed, feeder, workers, channel,
                 buffers, ffmpeg, faults>>

(* Mutant: Wait is called before the pipe is closed. *)
WaitWithOpenStdin ==
  /\ caller = "receive" /\ results = <<>> /\ resultsClosed
  /\ caller' = "wait"
  /\ UNCHANGED <<pending, next, written, stdinClosed, feeder, workers, channel,
                 buffers, ffmpeg, faults>>

CloseStdin ==
  /\ caller = "receive" /\ results = <<>> /\ resultsClosed
  /\ stdinClosed' = TRUE
  /\ caller' = "wait"
  /\ UNCHANGED <<pending, next, written, feeder, workers, channel, buffers, ffmpeg, faults>>

Wait ==
  /\ caller = "wait" /\ ffmpeg # "running"
  /\ caller' = IF ffmpeg = "exited" THEN "ok" ELSE "error"
  /\ UNCHANGED <<pending, next, written, stdinClosed, feeder, workers, channel,
                 buffers, ffmpeg, faults>>

-----------------------------------------------------------------------------
(* ffmpeg finishes the video at the end of its input, or dies before. *)

FfmpegExits ==
  /\ ffmpeg = "running" /\ stdinClosed
  /\ ffmpeg' = "exited"
  /\ UNCHANGED <<feeder, workers, channel, buffers, writer, faults>>

FfmpegDies ==
  /\ ffmpeg = "running" /\ Fault
  /\ ffmpeg' = "died"
  /\ UNCHANGED <<feeder, workers, channel, buffers, writer>>

-----------------------------------------------------------------------------

Init ==
  /\ fed = 0 /\ jobs = <<>> /\ jobsClosed = FALSE
  /\ worker = [w \in Workers |-> "new"]
  /\ task = [w \in Workers |-> Failed]
  /\ buffer = [w \in Workers |-> None]
  /\ results = <<>> /\ resultsClosed = FALSE
  /\ content = [b \in Buffers |-> Failed]
  /\ pool = {} /\ fresh = Buffers
  /\ pending = [frame \in FrameIndexes |-> None]
  /\ next = 0 /\ caller = "receive" /\ written = <<>>
  /\ ffmpeg = "running" /\ stdinClosed = FALSE
  /\ faults = 0

Feed == PushJob \/ CloseJobs \/ CloseResults

Work(w) ==
  \/ StartWorker(w) \/ TakeJob(w) \/ Render(w) \/ RenderFails(w)
  \/ Send(w) \/ ExitWorker(w)

Write ==
  \/ Receive \/ WriteFrame \/ WriteFails \/ WaitForMore \/ CloseStdin \/ Wait

Next ==
  \/ Feed
  \/ \E w \in Workers : Work(w)
  \/ Write
  \/ FfmpegExits \/ FfmpegDies

(* Goroutines that can run do, and ffmpeg finishes when its input ends. *)
Fairness ==
  /\ WF_vars(Feed) /\ WF_vars(Write) /\ WF_vars(FfmpegExits)
  /\ \A w \in Workers : WF_vars(Work(w))

Spec == Init /\ [][Next]_vars /\ Fairness

-----------------------------------------------------------------------------
(* Properties *)

(* The values of the variables: counters within the number of frames,       *)
(* channels and pending frames that hold frames and buffers only.          *)
TypeOK ==
  /\ fed \in 0..TotalFrames
  /\ jobs \in Seq(FrameIndexes) /\ jobsClosed \in BOOLEAN
  /\ worker \in [Workers -> {"new", "idle", "render", "send", "exited"}]
  /\ task \in [Workers -> FrameIndexes \cup {Failed}]
  /\ buffer \in [Workers -> Buffers \cup {None}]
  /\ results \in Seq((FrameIndexes \cup {Failed}) \X (Buffers \cup {None}))
  /\ resultsClosed \in BOOLEAN
  /\ content \in [Buffers -> FrameIndexes \cup {Failed}]
  /\ pool \subseteq Buffers /\ fresh \subseteq Buffers
  /\ pending \in [FrameIndexes -> Buffers \cup {None}]
  /\ next \in 0..TotalFrames
  /\ caller \in {"receive", "write", "wait", "ok", "error"}
  /\ written \in Seq(FrameIndexes)
  /\ ffmpeg \in {"running", "died", "exited"} /\ stdinClosed \in BOOLEAN
  /\ faults \in 0..MaxFaults

(* The places a buffer can be in. *)
Holders(b) ==
       {<<"worker", w>> : w \in {v \in Workers : buffer[v] = b}}
  \cup {<<"result", k>> : k \in {j \in DOMAIN results : results[j][2] = b}}
  \cup {<<"pending", f>> : f \in {g \in FrameIndexes : pending[g] = b}}
  \cup {<<"pool", 0>> : x \in {b} \cap pool}
  \cup {<<"fresh", 0>> : x \in {b} \cap fresh}

(* Pixels are not copied on their way from a worker to ffmpeg, so a buffer  *)
(* must have exactly one owner: never a worker that renders into it while   *)
(* it waits for its turn or is back in the pool (video.go:171-205, 286-312).*)
BuffersHaveOneOwner == \A b \in Buffers : Cardinality(Holders(b)) = 1

(* Whatever order the workers finish in, ffmpeg gets frame after frame,     *)
(* each with its own pixels.                                                *)
FramesInOrder == \A k \in DOMAIN written : written[k] = k - 1

(* EncodePayloads reports success only when ffmpeg has got every frame and  *)
(* has finished the video, and then no goroutine is left behind.            *)
SuccessIsWhole ==
  caller = "ok" =>
    /\ Len(written) = TotalFrames /\ ffmpeg = "exited"
    /\ \A w \in Workers : worker[w] = "exited"

(* Bounded channels between feeder, workers and caller, and a worker that   *)
(* exits early: the encode returns all the same.                            *)
EncodeReturns == <>(caller \in {"ok", "error"})
=============================================================================
