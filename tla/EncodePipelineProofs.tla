------------------------- MODULE EncodePipelineProofs -------------------------
(***************************************************************************)
(* Proofs about EncodePipeline for any number of frames, any finite set of *)
(* workers, any size of the channels and any number of errors.             *)
(***************************************************************************)
EXTENDS EncodePipeline, SequenceTheorems, FiniteSetTheorems, TLAPS

-----------------------------------------------------------------------------
(* The inductive invariant.  A frame travels from the channel jobs to a     *)
(* worker, from there with a buffer to the channel results, to pending and *)
(* to ffmpeg; each part below is about where frames or buffers can be.     *)

(* The channel jobs holds the frames that were fed last, in their order.    *)
Taken == fed - Len(jobs)

JobsAreInOrder ==
  /\ Len(jobs) <= fed
  /\ \A k \in 1..Len(jobs) : jobs[k] = Taken + k - 1

(* A worker has a buffer exactly while it has a frame, a result has both or *)
(* neither.                                                                *)
FrameHasBuffer ==
  /\ \A w \in Workers :
       /\ task[w] = Failed <=> buffer[w] = None
       /\ worker[w] \in {"new", "idle", "exited"} => task[w] = Failed
       /\ worker[w] = "render" => task[w] # Failed
  /\ \A k \in 1..Len(results) : results[k][1] = Failed <=> results[k][2] = None

(* A frame is in one place after it was taken and before it is written. *)
FrameIsOnce ==
  /\ next <= Taken
  /\ \A w \in Workers : task[w] # Failed => task[w] \in next..(Taken - 1)
  /\ \A k \in 1..Len(results) : results[k][1] # Failed => results[k][1] \in next..(Taken - 1)
  /\ \A f \in FrameIndexes : pending[f] # None => f \in next..(Taken - 1)
  /\ \A v, w \in Workers : task[v] # Failed /\ task[v] = task[w] => v = w
  /\ \A j, k \in 1..Len(results) : results[j][1] # Failed /\ results[j][1] = results[k][1] => j = k
  /\ \A w \in Workers, k \in 1..Len(results) : task[w] # Failed => task[w] # results[k][1]
  /\ \A w \in Workers : task[w] # Failed => pending[task[w]] = None
  /\ \A k \in 1..Len(results) : results[k][1] # Failed => pending[results[k][1]] = None

(* So is a buffer ... *)
BufferIsOnce ==
  /\ pool \cap fresh = {}
  /\ \A w \in Workers : buffer[w] \notin pool \cup fresh
  /\ \A k \in 1..Len(results) : results[k][2] \notin pool \cup fresh
  /\ \A f \in FrameIndexes : pending[f] \notin pool \cup fresh
  /\ \A v, w \in Workers : buffer[v] # None /\ buffer[v] = buffer[w] => v = w
  /\ \A j, k \in 1..Len(results) : results[j][2] # None /\ results[j][2] = results[k][2] => j = k
  /\ \A f, g \in FrameIndexes : pending[f] # None /\ pending[f] = pending[g] => f = g
  /\ \A w \in Workers, k \in 1..Len(results) : buffer[w] # None => buffer[w] # results[k][2]
  /\ \A w \in Workers, f \in FrameIndexes : buffer[w] # None => buffer[w] # pending[f]
  /\ \A k \in 1..Len(results), f \in FrameIndexes : pending[f] # None => pending[f] # results[k][2]

(* ... and it never disappears. *)
BufferIsSomewhere ==
  \A b \in Buffers :
    \/ b \in pool \cup fresh
    \/ \E w \in Workers : buffer[w] = b
    \/ \E k \in 1..Len(results) : results[k][2] = b
    \/ \E f \in FrameIndexes : pending[f] = b

OwnerInv == JobsAreInOrder /\ FrameHasBuffer /\ FrameIsOnce /\ BufferIsOnce /\ BufferIsSomewhere

(* From a worker that has rendered it until it is written, a frame's buffer *)
(* holds its pixels.                                                       *)
PixelsAreRight ==
  /\ \A w \in Workers : worker[w] = "send" /\ task[w] # Failed => content[buffer[w]] = task[w]
  /\ \A k \in 1..Len(results) : results[k][1] # Failed => content[results[k][2]] = results[k][1]
  /\ \A f \in FrameIndexes : pending[f] # None => content[pending[f]] = f

WrittenInOrder ==
  /\ Len(written) = next
  /\ \A k \in 1..next : written[k] = k - 1

(* A worker has failed, or the caller has learnt of it. *)
Trouble ==
  \/ caller = "error"
  \/ \E w \in Workers : worker[w] = "send" /\ task[w] = Failed
  \/ \E k \in 1..Len(results) : results[k][1] = Failed

(* A frame that was taken is written or on its way. *)
Kept(f) ==
  \/ f < next \/ pending[f] # None
  \/ \E w \in Workers : task[w] = f
  \/ \E k \in 1..Len(results) : results[k][1] = f

NoFrameIsLost == Trouble \/ \A f \in 0..(Taken - 1) : Kept(f)

(* Without a failure, workers leave when there is nothing left to do. *)
WorkersLeaveLast ==
  /\ jobsClosed => fed = TotalFrames
  /\ \A w \in Workers : worker[w] = "exited" => Trouble \/ (jobsClosed /\ jobs = <<>>)
  /\ resultsClosed => \A w \in Workers : worker[w] = "exited"

(* The caller stops at an open channel only when the next frame is missing, *)
(* and waits for ffmpeg only when there is no next frame.                  *)
CallerIsThrough ==
  /\ caller = "receive" => ~Due
  /\ caller \in {"wait", "ok"} =>
       next = TotalFrames /\ \A w \in Workers : worker[w] = "exited"
  /\ caller = "ok" => ffmpeg = "exited"

WholeInv == WrittenInOrder /\ NoFrameIsLost /\ WorkersLeaveLast /\ CallerIsThrough

-----------------------------------------------------------------------------
(* Types *)

LEMMA InitTypeOK == Init => TypeOK
<1> SUFFICES ASSUME Init PROVE TypeOK
  OBVIOUS
<1> USE PipelineAssumption DEF Init
<1>1. fed \in 0..TotalFrames /\ next \in 0..TotalFrames /\ faults \in 0..MaxFaults
  <2>1. fed = 0 /\ next = 0 /\ faults = 0
    OBVIOUS
  <2> QED BY <2>1
<1>2. /\ jobs \in Seq(FrameIndexes)
      /\ results \in Seq((FrameIndexes \cup {Failed}) \X (Buffers \cup {None}))
      /\ written \in Seq(FrameIndexes)
  OBVIOUS
<1>3. /\ worker \in [Workers -> {"new", "idle", "render", "send", "exited"}]
      /\ task \in [Workers -> FrameIndexes \cup {Failed}]
      /\ buffer \in [Workers -> Buffers \cup {None}]
      /\ content \in [Buffers -> FrameIndexes \cup {Failed}]
      /\ pending \in [FrameIndexes -> Buffers \cup {None}]
  OBVIOUS
<1> QED BY <1>1, <1>2, <1>3 DEF TypeOK

(* What a channel holds after a receive, for the two channels. *)
LEMMA TailIsShifted ==
  ASSUME NEW S, NEW seq \in Seq(S), seq # <<>>
  PROVE  /\ Head(seq) \in S /\ Head(seq) = seq[1] /\ Len(seq) \in Nat \ {0}
         /\ Tail(seq) \in Seq(S) /\ Len(Tail(seq)) = Len(seq) - 1
         /\ \A k \in 1..(Len(seq) - 1) : Tail(seq)[k] = seq[k + 1]
BY HeadTailProperties, EmptySeq

(* What a channel or the written frames hold after one is appended. *)
LEMMA AppendAddsLast ==
  ASSUME NEW S, NEW seq \in Seq(S), NEW x \in S
  PROVE  /\ Append(seq, x) \in Seq(S) /\ Len(seq) \in Nat
         /\ Len(Append(seq, x)) = Len(seq) + 1
         /\ Append(seq, x)[Len(seq) + 1] = x
         /\ \A k \in 1..Len(seq) : Append(seq, x)[k] = seq[k]
BY AppendProperties, LenProperties

(* A step keeps the types, given that frames and buffers go together: only  *)
(* buffers are rendered into, and only frames are written.                 *)
LEMMA NextTypeOK == TypeOK /\ FrameHasBuffer /\ PixelsAreRight /\ [Next]_vars => TypeOK'
<1> SUFFICES ASSUME TypeOK, FrameHasBuffer, PixelsAreRight, [Next]_vars PROVE TypeOK'
  OBVIOUS
<1> USE PipelineAssumption DEF TypeOK, feeder, workers, channel, buffers, writer
<1> DEFINE Answer == (FrameIndexes \cup {Failed}) \X (Buffers \cup {None})
<1>1. CASE PushJob
  <2>1. fed \in FrameIndexes
    BY <1>1 DEF PushJob, FrameIndexes
  <2>2. jobs' \in Seq(FrameIndexes)
    BY <1>1, <2>1, AppendAddsLast DEF PushJob
  <2> QED BY <1>1, <2>1, <2>2 DEF PushJob, FrameIndexes
<1>2. CASE CloseJobs
  BY <1>2 DEF CloseJobs
<1>3. CASE CloseResults
  BY <1>3 DEF CloseResults
<1>4. ASSUME NEW w \in Workers, StartWorker(w) PROVE TypeOK'
  <2>1. worker' \in [Workers -> {"new", "idle", "render", "send", "exited"}]
    BY <1>4 DEF StartWorker
  <2>2. faults' \in 0..MaxFaults
    BY <1>4 DEF StartWorker, Fault
  <2> QED BY <1>4, <2>1, <2>2 DEF StartWorker
<1>5. ASSUME NEW w \in Workers, TakeJob(w) PROVE TypeOK'
  <2>1. jobs' \in Seq(FrameIndexes) /\ Head(jobs) \in FrameIndexes
    BY <1>5, TailIsShifted DEF TakeJob
  <2> QED BY <1>5, <2>1 DEF TakeJob
<1>6. ASSUME NEW w \in Workers, Render(w) PROVE TypeOK'
  BY <1>6 DEF Render
<1>7. ASSUME NEW w \in Workers, RenderFails(w) PROVE TypeOK'
  <2>1. pool' \subseteq Buffers
    BY <1>7 DEF RenderFails, FrameHasBuffer
  <2> QED BY <1>7, <2>1 DEF RenderFails, Fault
<1>8. ASSUME NEW w \in Workers, Send(w) PROVE TypeOK'
  <2>1. <<task[w], buffer[w]>> \in Answer
    OBVIOUS
  <2>2. results' \in Seq(Answer)
    BY <1>8, <2>1, AppendAddsLast DEF Send
  <2>3. worker' \in [Workers -> {"new", "idle", "render", "send", "exited"}]
    BY <1>8 DEF Send
  <2> QED BY <1>8, <2>2, <2>3 DEF Send
<1>9. ASSUME NEW w \in Workers, ExitWorker(w) PROVE TypeOK'
  BY <1>9 DEF ExitWorker
<1>10. CASE Receive
  <2>1. results' \in Seq(Answer) /\ Head(results) \in Answer
    BY <1>10, TailIsShifted DEF Receive
  <2>2. pending' \in [FrameIndexes -> Buffers \cup {None}]
    <3>1. CASE Head(results)[1] = Failed
      BY <1>10, <3>1 DEF Receive
    <3>2. CASE Head(results)[1] # Failed
      BY <1>10, <2>1, <3>2 DEF Receive
    <3> QED BY <3>1, <3>2
  <2> QED BY <1>10, <2>1, <2>2 DEF Receive, ReturnError
<1>11. CASE WriteFrame
  <2>1. next \in FrameIndexes /\ pending[next] \in Buffers
    BY <1>11 DEF WriteFrame, Due, FrameIndexes
  <2>2. content[pending[next]] = next
    BY <1>11, <2>1 DEF WriteFrame, Due, PixelsAreRight
  <2>3. written' \in Seq(FrameIndexes)
    BY <1>11, <2>1, <2>2, AppendAddsLast DEF WriteFrame
  <2> QED BY <1>11, <2>1, <2>3 DEF WriteFrame, FrameIndexes
<1>12. CASE WriteFails
  BY <1>12 DEF WriteFails, ReturnError
<1>13. CASE WaitForMore
  BY <1>13 DEF WaitForMore
<1>14. CASE CloseStdin
  BY <1>14 DEF CloseStdin
<1>15. CASE Wait
  BY <1>15 DEF Wait
<1>16. CASE FfmpegExits
  BY <1>16 DEF FfmpegExits
<1>17. CASE FfmpegDies
  BY <1>17 DEF FfmpegDies, Fault
<1>18. CASE UNCHANGED vars
  BY <1>18 DEF vars
<1> QED BY <1>1, <1>2, <1>3, <1>4, <1>5, <1>6, <1>7, <1>8, <1>9, <1>10, <1>11, <1>12,
           <1>13, <1>14, <1>15, <1>16, <1>17, <1>18 DEF Next, Feed, Work, Write

-----------------------------------------------------------------------------
(* Every frame and every buffer is in one place *)

LEMMA InitOwnerInv == Init => OwnerInv /\ PixelsAreRight
<1> SUFFICES ASSUME Init PROVE OwnerInv /\ PixelsAreRight
  OBVIOUS
<1>1. jobs = <<>> /\ Len(jobs) = 0 /\ results = <<>> /\ Len(results) = 0
  BY DEF Init
<1>2. JobsAreInOrder
  BY <1>1 DEF Init, JobsAreInOrder, Taken
<1>3. FrameHasBuffer /\ FrameIsOnce
  BY <1>1 DEF Init, FrameHasBuffer, FrameIsOnce, Taken
<1>4. BufferIsOnce /\ BufferIsSomewhere
  BY <1>1 DEF Init, BufferIsOnce, BufferIsSomewhere, Buffers, None
<1>5. PixelsAreRight
  BY <1>1 DEF Init, PixelsAreRight
<1> QED BY <1>2, <1>3, <1>4, <1>5 DEF OwnerInv

(* The variables the invariant is about. *)
ownerVars == <<fed, jobs, worker, task, buffer, results, content, pool, fresh, pending, next>>

LEMMA OwnerInvIsAboutOwnerVars ==
  OwnerInv /\ PixelsAreRight /\ UNCHANGED ownerVars => OwnerInv' /\ PixelsAreRight'
BY DEF OwnerInv, JobsAreInOrder, Taken, FrameHasBuffer, FrameIsOnce, BufferIsOnce,
       BufferIsSomewhere, PixelsAreRight, ownerVars

LEMMA PushJobKeepsOwners ==
  TypeOK /\ OwnerInv /\ PixelsAreRight /\ PushJob => OwnerInv' /\ PixelsAreRight'
<1> SUFFICES ASSUME TypeOK, OwnerInv, PixelsAreRight, PushJob
             PROVE  OwnerInv' /\ PixelsAreRight'
  OBVIOUS
<1> USE PipelineAssumption DEF TypeOK
<1>1. /\ fed \in FrameIndexes /\ fed' = fed + 1 /\ fed \in Nat
      /\ jobs' = Append(jobs, fed)
      /\ UNCHANGED <<workers, results, content, pool, fresh, pending, next>>
  BY DEF PushJob, FrameIndexes, channel, buffers, writer
<1>2. /\ Len(jobs) \in Nat /\ Len(jobs') = Len(jobs) + 1 /\ jobs'[Len(jobs) + 1] = fed
      /\ \A k \in 1..Len(jobs) : jobs'[k] = jobs[k]
  BY <1>1, AppendAddsLast
<1>3. Taken' = Taken
  BY <1>1, <1>2 DEF Taken
<1>4. JobsAreInOrder'
  BY <1>1, <1>2, <1>3 DEF OwnerInv, JobsAreInOrder, Taken
<1>5. FrameHasBuffer' /\ FrameIsOnce' /\ BufferIsOnce' /\ BufferIsSomewhere' /\ PixelsAreRight'
  BY <1>1, <1>3 DEF OwnerInv, FrameHasBuffer, FrameIsOnce, BufferIsOnce, BufferIsSomewhere,
                    PixelsAreRight, workers
<1> QED BY <1>4, <1>5 DEF OwnerInv

LEMMA StartAndExitKeepOwners ==
  ASSUME TypeOK, OwnerInv, PixelsAreRight,
         NEW w \in Workers, StartWorker(w) \/ ExitWorker(w)
  PROVE  OwnerInv' /\ PixelsAreRight'
<1>1. /\ UNCHANGED <<fed, jobs, task, buffer, results, content, pool, fresh, pending, next>>
      /\ task[w] = Failed
      /\ \E s \in {"idle", "send", "exited"} : worker' = [worker EXCEPT ![w] = s]
  BY DEF StartWorker, ExitWorker, feeder, channel, buffers, writer, OwnerInv, FrameHasBuffer
<1>2. OwnerInv'
  <2>1. JobsAreInOrder' /\ FrameIsOnce' /\ BufferIsOnce' /\ BufferIsSomewhere'
    BY <1>1 DEF OwnerInv, JobsAreInOrder, Taken, FrameIsOnce, BufferIsOnce, BufferIsSomewhere
  <2>2. FrameHasBuffer'
    BY <1>1 DEF OwnerInv, FrameHasBuffer, TypeOK
  <2> QED BY <2>1, <2>2 DEF OwnerInv
<1>3. PixelsAreRight'
  BY <1>1 DEF PixelsAreRight, TypeOK
<1> QED BY <1>2, <1>3

(* The next job is for a frame no worker had before, and the buffer comes   *)
(* from where no one else has it.                                          *)
LEMMA TakeJobKeepsOwners ==
  ASSUME TypeOK, OwnerInv, PixelsAreRight, NEW w \in Workers, TakeJob(w)
  PROVE  OwnerInv' /\ PixelsAreRight'
<1> USE PipelineAssumption DEF TypeOK
<1>1. PICK b \in pool \cup fresh :
        /\ buffer' = [buffer EXCEPT ![w] = b]
        /\ pool' = pool \ {b} /\ fresh' = fresh \ {b}
  BY DEF TakeJob
<1>2. /\ b \in Buffers /\ b # None
      /\ worker[w] = "idle" /\ task[w] = Failed /\ buffer[w] = None
      /\ worker' = [worker EXCEPT ![w] = "render"]
      /\ UNCHANGED <<fed, results, content, pending, next>>
  BY <1>1 DEF TakeJob, Buffers, None, OwnerInv, FrameHasBuffer, channel, writer
<1> DEFINE f == Taken
<1>3. /\ task' = [task EXCEPT ![w] = Head(jobs)] /\ Head(jobs) = jobs[1]
      /\ jobs' = Tail(jobs) /\ Len(jobs) \in Nat \ {0}
      /\ Head(jobs) \in FrameIndexes
      /\ Len(jobs') = Len(jobs) - 1
      /\ \A k \in 1..(Len(jobs) - 1) : jobs'[k] = jobs[k + 1]
  BY TailIsShifted DEF TakeJob
<1>4. /\ task' = [task EXCEPT ![w] = Taken]
      /\ Taken \in FrameIndexes /\ Taken # Failed /\ Taken \in Nat /\ next <= Taken
      /\ Taken' = Taken + 1
  <2>1. fed \in Nat /\ Taken \in Int /\ jobs[1] = Taken + 1 - 1
    BY <1>3 DEF OwnerInv, JobsAreInOrder, Taken
  <2>2. jobs[1] = Taken
    BY <2>1
  <2>3. Taken' = Taken + 1
    BY <1>2, <1>3, <2>1 DEF Taken
  <2>4. next <= Taken
    BY DEF OwnerInv, FrameIsOnce
  <2>5. Taken \in FrameIndexes /\ Taken \in Nat /\ Taken # Failed
    BY <1>3, <2>2 DEF FrameIndexes, Failed
  <2> QED BY <1>3, <2>2, <2>3, <2>4, <2>5
<1>5. JobsAreInOrder'
  BY <1>2, <1>3, <1>4 DEF OwnerInv, JobsAreInOrder, Taken
<1>6. FrameHasBuffer'
  BY <1>1, <1>2, <1>4 DEF OwnerInv, FrameHasBuffer
<1>7. FrameIsOnce'
  <2>1. \A v \in Workers : task[v] # Taken
    BY <1>4 DEF OwnerInv, FrameIsOnce
  <2>2. \A k \in 1..Len(results) : results[k][1] # Taken
    BY <1>4 DEF OwnerInv, FrameIsOnce
  <2>3. pending[Taken] = None
    BY <1>4 DEF OwnerInv, FrameIsOnce
  <2> QED BY <1>2, <1>4, <2>1, <2>2, <2>3 DEF OwnerInv, FrameIsOnce
<1>8. BufferIsOnce'
  BY <1>1, <1>2 DEF OwnerInv, BufferIsOnce
<1>9. BufferIsSomewhere'
  <2> SUFFICES ASSUME NEW c \in Buffers
               PROVE  \/ c \in pool' \cup fresh'
                      \/ \E v \in Workers : buffer'[v] = c
                      \/ \E k \in 1..Len(results) : results[k][2] = c
                      \/ \E g \in FrameIndexes : pending[g] = c
    BY <1>2 DEF BufferIsSomewhere
  <2>1. CASE c = b
    BY <1>1, <2>1
  <2>2. CASE c \in pool \cup fresh /\ c # b
    BY <1>1, <2>2
  <2>3. CASE \E v \in Workers : buffer[v] = c
    BY <1>1, <1>2, <2>3 DEF Buffers, None
  <2> QED BY <2>1, <2>2, <2>3 DEF OwnerInv, BufferIsSomewhere
<1>10. PixelsAreRight'
  BY <1>1, <1>2, <1>4 DEF PixelsAreRight
<1> QED BY <1>5, <1>6, <1>7, <1>8, <1>9, <1>10 DEF OwnerInv

(* Nobody else holds the buffer a worker renders into. *)
LEMMA RenderKeepsOwners ==
  ASSUME TypeOK, OwnerInv, PixelsAreRight, NEW w \in Workers, Render(w)
  PROVE  OwnerInv' /\ PixelsAreRight'
<1> USE DEF TypeOK
<1>1. /\ worker[w] = "render" /\ worker' = [worker EXCEPT ![w] = "send"]
      /\ content' = [content EXCEPT ![buffer[w]] = task[w]]
      /\ UNCHANGED <<fed, jobs, task, buffer, results, pool, fresh, pending, next>>
      /\ task[w] # Failed /\ buffer[w] # None /\ buffer[w] \in Buffers
  BY DEF Render, feeder, channel, writer, OwnerInv, FrameHasBuffer
<1>2. OwnerInv'
  <2>1. JobsAreInOrder' /\ FrameIsOnce'
    BY <1>1 DEF OwnerInv, JobsAreInOrder, Taken, FrameIsOnce
  <2>2. BufferIsOnce'
    BY <1>1 DEF OwnerInv, BufferIsOnce
  <2>3. BufferIsSomewhere'
    BY <1>1 DEF OwnerInv, BufferIsSomewhere
  <2>4. FrameHasBuffer'
    BY <1>1 DEF OwnerInv, FrameHasBuffer
  <2> QED BY <2>1, <2>2, <2>3, <2>4 DEF OwnerInv
<1>3. PixelsAreRight'
  <2>1. \A v \in Workers : worker'[v] = "send" /\ task'[v] # Failed =>
          content'[buffer'[v]] = task'[v]
    BY <1>1 DEF PixelsAreRight, OwnerInv, BufferIsOnce, FrameHasBuffer
  <2>2. \A k \in 1..Len(results) : results[k][1] # Failed =>
          content'[results[k][2]] = results[k][1]
    <3> SUFFICES ASSUME NEW k \in 1..Len(results), results[k][1] # Failed
                 PROVE  content'[results[k][2]] = results[k][1]
      OBVIOUS
    <3>1. results[k][2] \in Buffers /\ results[k][2] # buffer[w]
      BY <1>1 DEF OwnerInv, BufferIsOnce, FrameHasBuffer
    <3> QED BY <1>1, <3>1 DEF PixelsAreRight
  <2>3. \A f \in FrameIndexes : pending[f] # None => content'[pending[f]] = f
    BY <1>1 DEF PixelsAreRight, OwnerInv, BufferIsOnce
  <2> QED BY <1>1, <2>1, <2>2, <2>3 DEF PixelsAreRight
<1> QED BY <1>2, <1>3

LEMMA RenderFailsKeepsOwners ==
  ASSUME TypeOK, OwnerInv, PixelsAreRight, NEW w \in Workers, RenderFails(w)
  PROVE  OwnerInv' /\ PixelsAreRight'
<1> USE DEF TypeOK
<1>1. /\ worker[w] = "render" /\ worker' = [worker EXCEPT ![w] = "send"]
      /\ pool' = pool \cup {buffer[w]}
      /\ buffer' = [buffer EXCEPT ![w] = None]
      /\ task' = [task EXCEPT ![w] = Failed]
      /\ UNCHANGED <<fed, jobs, results, content, fresh, pending, next>>
      /\ task[w] # Failed /\ buffer[w] # None /\ buffer[w] \in Buffers
  BY DEF RenderFails, feeder, channel, writer, OwnerInv, FrameHasBuffer
<1>2. JobsAreInOrder' /\ FrameHasBuffer'
  BY <1>1 DEF OwnerInv, JobsAreInOrder, Taken, FrameHasBuffer
<1>3. FrameIsOnce'
  BY <1>1 DEF OwnerInv, FrameIsOnce, Taken
<1>4. BufferIsOnce'
  BY <1>1 DEF OwnerInv, BufferIsOnce, Buffers, None
<1>5. BufferIsSomewhere'
  BY <1>1 DEF OwnerInv, BufferIsSomewhere
<1>6. PixelsAreRight'
  BY <1>1 DEF PixelsAreRight
<1> QED BY <1>2, <1>3, <1>4, <1>5, <1>6 DEF OwnerInv

(* The result takes the frame and the buffer from the worker. *)
LEMMA SendKeepsOwners ==
  ASSUME TypeOK, OwnerInv, PixelsAreRight, NEW w \in Workers, Send(w)
  PROVE  OwnerInv' /\ PixelsAreRight'
<1> USE DEF TypeOK
<1>1. /\ worker[w] = "send"
      /\ worker' = [worker EXCEPT ![w] = IF task[w] = Failed THEN "exited" ELSE "idle"]
      /\ results' = Append(results, <<task[w], buffer[w]>>)
      /\ buffer' = [buffer EXCEPT ![w] = None]
      /\ task' = [task EXCEPT ![w] = Failed]
      /\ UNCHANGED <<fed, jobs, content, pool, fresh, pending, next>>
  BY DEF Send, feeder, buffers, writer
<1> DEFINE n == Len(results)
<1>2. /\ n \in Nat /\ Len(results') = n + 1
      /\ results'[n + 1] = <<task[w], buffer[w]>>
      /\ \A k \in 1..n : results'[k] = results[k]
  <2>1. <<task[w], buffer[w]>> \in (FrameIndexes \cup {Failed}) \X (Buffers \cup {None})
    OBVIOUS
  <2> QED BY <1>1, <2>1, AppendAddsLast
<1>3. /\ \A k \in 1..Len(results') : k \in 1..n \/ k = n + 1
      /\ \A k \in 1..n : k \in 1..Len(results') /\ k # n + 1
      /\ results'[n + 1][1] = task[w] /\ results'[n + 1][2] = buffer[w]
      /\ n + 1 \in 1..Len(results')
  BY <1>2
<1> HIDE DEF n
<1>4. JobsAreInOrder' /\ FrameHasBuffer'
  BY <1>1, <1>2, <1>3 DEF OwnerInv, JobsAreInOrder, Taken, FrameHasBuffer, n
<1>a. /\ task'[w] = Failed /\ buffer'[w] = None
      /\ \A v \in Workers : v # w => task'[v] = task[v] /\ buffer'[v] = buffer[v]
      /\ \A k \in 1..n : results'[k][1] = results[k][1] /\ results'[k][2] = results[k][2]
      /\ None \notin pool \cup fresh
  BY <1>1, <1>2 DEF Buffers, None
<1>b. /\ 1..Len(results') = (1..n) \cup {n + 1} /\ n + 1 \notin 1..n /\ n \in Nat
      /\ UNCHANGED <<fed, jobs, pool, fresh, pending, next>>
      /\ content' = content
  BY <1>1, <1>2 DEF n
<1> HIDE DEF TypeOK
<1>5. FrameIsOnce'
  <2> USE DEF OwnerInv, FrameIsOnce, Taken, n
  <2>1. /\ next' <= Taken'
        /\ \A v \in Workers : task'[v] # Failed => task'[v] \in next'..(Taken' - 1)
        /\ \A k \in 1..Len(results') : results'[k][1] # Failed => results'[k][1] \in next'..(Taken' - 1)
        /\ \A g \in FrameIndexes : pending'[g] # None => g \in next'..(Taken' - 1)
    BY <1>3, <1>a, <1>b
  <2>2. \A u, v \in Workers : task'[u] # Failed /\ task'[u] = task'[v] => u = v
    BY <1>a
  <2>3. \A j, k \in 1..Len(results') : results'[j][1] # Failed /\ results'[j][1] = results'[k][1] => j = k
    BY <1>3, <1>a, <1>b
  <2>4. \A v \in Workers, k \in 1..Len(results') : task'[v] # Failed => task'[v] # results'[k][1]
    BY <1>3, <1>a, <1>b
  <2>5. \A v \in Workers : task'[v] # Failed => pending'[task'[v]] = None
    BY <1>a, <1>b
  <2>6. ASSUME NEW k \in 1..Len(results'), results'[k][1] # Failed
        PROVE  pending'[results'[k][1]] = None
    <3>1. CASE k \in 1..n
      BY <1>a, <1>b, <2>6, <3>1
    <3>2. CASE k = n + 1
      BY <1>3, <1>b, <2>6, <3>2
    <3> QED BY <1>b, <3>1, <3>2
  <2> HIDE DEF OwnerInv, Taken, n
  <2> QED BY <2>1, <2>2, <2>3, <2>4, <2>5, <2>6
<1>6. BufferIsOnce'
  <2> USE DEF OwnerInv, BufferIsOnce
  <2>1. /\ pool' \cap fresh' = {}
        /\ \A v \in Workers : buffer'[v] \notin pool' \cup fresh'
        /\ \A g \in FrameIndexes : pending'[g] \notin pool' \cup fresh'
        /\ \A u, v \in Workers : buffer'[u] # None /\ buffer'[u] = buffer'[v] => u = v
        /\ \A v \in Workers, g \in FrameIndexes : buffer'[v] # None => buffer'[v] # pending'[g]
    BY <1>a, <1>b
  <2>2. /\ \A g, h \in FrameIndexes : pending'[g] # None /\ pending'[g] = pending'[h] => g = h
        /\ \A k \in 1..Len(results') : results'[k][2] \notin pool' \cup fresh'
    BY <1>3, <1>a, <1>b DEF n
  <2>3. \A j, k \in 1..Len(results') : results'[j][2] # None /\ results'[j][2] = results'[k][2] => j = k
    BY <1>3, <1>a, <1>b DEF n
  <2>4. \A v \in Workers, k \in 1..Len(results') : buffer'[v] # None => buffer'[v] # results'[k][2]
    BY <1>3, <1>a, <1>b DEF n
  <2>5. \A k \in 1..Len(results'), g \in FrameIndexes : pending'[g] # None => pending'[g] # results'[k][2]
    BY <1>3, <1>a, <1>b DEF n
  <2> HIDE DEF OwnerInv
  <2> QED BY <2>1, <2>2, <2>3, <2>4, <2>5
<1>7. BufferIsSomewhere'
  <2> SUFFICES ASSUME NEW b \in Buffers
               PROVE  \/ b \in pool' \cup fresh'
                      \/ \E v \in Workers : buffer'[v] = b
                      \/ \E k \in 1..Len(results') : results'[k][2] = b
                      \/ \E g \in FrameIndexes : pending'[g] = b
    BY <1>b DEF BufferIsSomewhere
  <2>1. CASE buffer[w] = b
    BY <1>3, <2>1
  <2>2. CASE \E v \in Workers : v # w /\ buffer[v] = b
    BY <1>a, <2>2
  <2>3. CASE \E k \in 1..n : results[k][2] = b
    BY <1>3, <1>a, <2>3
  <2>4. CASE b \in pool \cup fresh \/ \E g \in FrameIndexes : pending[g] = b
    BY <1>b, <2>4
  <2> QED BY <2>1, <2>2, <2>3, <2>4 DEF OwnerInv, BufferIsSomewhere, n
<1> USE DEF TypeOK
<1>8. PixelsAreRight'
  BY <1>1, <1>2, <1>3 DEF PixelsAreRight, n
<1> QED BY <1>4, <1>5, <1>6, <1>7, <1>8 DEF OwnerInv

(* The caller takes the first result: its frame and its buffer go to        *)
(* pending, where neither was.                                             *)
LEMMA ReceiveKeepsOwners ==
  TypeOK /\ OwnerInv /\ PixelsAreRight /\ Receive => OwnerInv' /\ PixelsAreRight'
<1> SUFFICES ASSUME TypeOK, OwnerInv, PixelsAreRight, Receive
             PROVE  OwnerInv' /\ PixelsAreRight'
  OBVIOUS
<1> USE DEF TypeOK
<1> DEFINE n == Len(results)
           f == results[1][1]
           b == results[1][2]
<1>1. /\ UNCHANGED <<fed, jobs, worker, task, buffer, content, pool, fresh, next>>
      /\ results' = Tail(results) /\ Head(results) = results[1] /\ n \in Nat \ {0}
      /\ results[1] \in (FrameIndexes \cup {Failed}) \X (Buffers \cup {None})
      /\ \A k \in 1..(n - 1) : results'[k] = results[k + 1]
      /\ Len(results') = n - 1
  BY TailIsShifted DEF Receive, feeder, workers, buffers
<1>2. /\ f \in FrameIndexes \cup {Failed} /\ b \in Buffers \cup {None}
      /\ f = Failed <=> b = None
      /\ \A k \in 1..Len(results') : k + 1 \in 1..n /\ k + 1 # 1 /\ results'[k] = results[k + 1]
      /\ \A k \in 1..n : k = 1 \/ (k - 1 \in 1..Len(results') /\ results'[k - 1] = results[k])
      /\ 1 \in 1..n
  BY <1>1 DEF OwnerInv, FrameHasBuffer
<1>3. IF f = Failed THEN pending' = pending ELSE pending' = [pending EXCEPT ![f] = b]
  BY <1>1 DEF Receive
<1>4. Taken' = Taken
  BY <1>1 DEF Taken
<1> HIDE DEF n, f, b
<1>5. JobsAreInOrder' /\ FrameHasBuffer'
  BY <1>1, <1>2, <1>4 DEF OwnerInv, JobsAreInOrder, FrameHasBuffer, n
<1>6. FrameIsOnce'
  <2>1. CASE f = Failed
    BY <1>1, <1>2, <1>3, <1>4, <2>1 DEF OwnerInv, FrameIsOnce, n
  <2>2. CASE f # Failed
    BY <1>1, <1>2, <1>3, <1>4, <2>2 DEF OwnerInv, FrameIsOnce, n, f
  <2> QED BY <2>1, <2>2
<1>7. BufferIsOnce'
  <2>1. CASE f = Failed
    BY <1>1, <1>2, <1>3, <2>1 DEF OwnerInv, BufferIsOnce, n
  <2>2. CASE f # Failed
    <3>1. b \in Buffers /\ b # None /\ b = results[1][2] /\ pending' = [pending EXCEPT ![f] = b]
      BY <1>2, <1>3, <2>2 DEF b
    <3>2. /\ b \notin pool \cup fresh
          /\ \A w \in Workers : buffer[w] # b
          /\ \A g \in FrameIndexes : pending[g] # b
          /\ \A k \in 1..Len(results') : results'[k][2] # b
      BY <1>2, <3>1 DEF OwnerInv, BufferIsOnce, n
    <3>3. /\ \A k \in 1..Len(results') : results'[k][2] \notin pool \cup fresh
          /\ \A j, k \in 1..Len(results') :
               results'[j][2] # None /\ results'[j][2] = results'[k][2] => j = k
          /\ \A w \in Workers, k \in 1..Len(results') : buffer[w] # None => buffer[w] # results'[k][2]
      BY <1>1, <1>2 DEF OwnerInv, BufferIsOnce, n
    <3>4. /\ \A g \in FrameIndexes : pending'[g] \notin pool \cup fresh
          /\ \A g, h \in FrameIndexes : pending'[g] # None /\ pending'[g] = pending'[h] => g = h
          /\ \A w \in Workers, g \in FrameIndexes : buffer[w] # None => buffer[w] # pending'[g]
      BY <3>1, <3>2 DEF OwnerInv, BufferIsOnce
    <3>5. \A k \in 1..Len(results'), g \in FrameIndexes :
             pending'[g] # None => pending'[g] # results'[k][2]
      BY <1>2, <3>1, <3>2 DEF OwnerInv, BufferIsOnce, n
    <3> QED BY <1>1, <3>3, <3>4, <3>5 DEF OwnerInv, BufferIsOnce
  <2> QED BY <2>1, <2>2
<1>8. BufferIsSomewhere'
  <2> SUFFICES ASSUME NEW c \in Buffers
               PROVE  \/ c \in pool \cup fresh
                      \/ \E w \in Workers : buffer[w] = c
                      \/ \E k \in 1..Len(results') : results'[k][2] = c
                      \/ \E g \in FrameIndexes : pending'[g] = c
    BY <1>1 DEF BufferIsSomewhere
  <2>1. CASE c = b
    BY <1>2, <1>3, <2>1 DEF Buffers, None
  <2>2. CASE \E k \in 1..n : results[k][2] = c /\ c # b
    BY <1>2, <2>2 DEF b
  <2>3. CASE \E g \in FrameIndexes : pending[g] = c
    <3>1. PICK g \in FrameIndexes : pending[g] = c
      BY <2>3
    <3>2. f # Failed => g # f
      <4>1. pending[g] # None
        BY <3>1 DEF Buffers, None
      <4>2. f # Failed => pending[f] = None
        <5> HIDE DEF TypeOK
        <5> QED BY <1>2 DEF OwnerInv, FrameIsOnce, n, f
      <4> QED BY <4>1, <4>2
    <3> QED BY <1>3, <3>1, <3>2
  <2> QED BY <2>1, <2>2, <2>3 DEF OwnerInv, BufferIsSomewhere, n
<1>9. PixelsAreRight'
  <2>1. CASE f = Failed
    BY <1>1, <1>2, <1>3, <2>1 DEF PixelsAreRight, n
  <2>2. CASE f # Failed
    BY <1>1, <1>2, <1>3, <2>2 DEF PixelsAreRight, n, f, b
  <2> QED BY <2>1, <2>2
<1> QED BY <1>5, <1>6, <1>7, <1>8, <1>9 DEF OwnerInv

LEMMA WriteFrameKeepsOwners ==
  TypeOK /\ OwnerInv /\ PixelsAreRight /\ WriteFrame => OwnerInv' /\ PixelsAreRight'
<1> SUFFICES ASSUME TypeOK, OwnerInv, PixelsAreRight, WriteFrame
             PROVE  OwnerInv' /\ PixelsAreRight'
  OBVIOUS
<1> USE DEF TypeOK
<1>1. /\ UNCHANGED <<fed, jobs, worker, task, buffer, results, content, fresh>>
      /\ next \in FrameIndexes /\ pending[next] \in Buffers /\ pending[next] # None
      /\ pending' = [pending EXCEPT ![next] = None]
      /\ pool' = pool \cup {pending[next]}
      /\ next' = next + 1
  <2>1. next \in FrameIndexes /\ pending[next] # None
    BY PipelineAssumption DEF WriteFrame, Due, FrameIndexes
  <2>2. pending[next] \in Buffers
    BY <2>1
  <2>3. /\ UNCHANGED <<fed, jobs, worker, task, buffer, results, content, fresh>>
        /\ next' = next + 1 /\ pool' = pool \cup {pending[next]}
        /\ pending' = [pending EXCEPT ![next] = None]
    BY DEF WriteFrame, feeder, workers, channel
  <2> QED BY <2>1, <2>2, <2>3
<1>2. Taken' = Taken
  BY <1>1 DEF Taken
<1>3. JobsAreInOrder' /\ FrameHasBuffer'
  BY <1>1, <1>2 DEF OwnerInv, JobsAreInOrder, FrameHasBuffer
<1>4. FrameIsOnce'
  <2>1. next + 1 <= Taken /\ Taken \in Int
    BY <1>1 DEF OwnerInv, FrameIsOnce, Taken
  <2>2. \A w \in Workers : task[w] # Failed => task[w] \in (next + 1)..(Taken - 1)
    BY <1>1, <2>1 DEF OwnerInv, FrameIsOnce
  <2>3. \A k \in 1..Len(results) : results[k][1] # Failed => results[k][1] \in (next + 1)..(Taken - 1)
    BY <1>1, <2>1 DEF OwnerInv, FrameIsOnce
  <2>4. \A f \in FrameIndexes : pending'[f] # None => f \in (next + 1)..(Taken - 1)
    BY <1>1, <2>1 DEF OwnerInv, FrameIsOnce, FrameIndexes
  <2> QED BY <1>1, <1>2, <2>1, <2>2, <2>3, <2>4 DEF OwnerInv, FrameIsOnce
<1>5. BufferIsOnce'
  <2> DEFINE b == pending[next]
  <2>1. /\ b \in Buffers /\ b # None /\ b \notin fresh
        /\ \A w \in Workers : buffer[w] # b
        /\ \A k \in 1..Len(results) : results[k][2] # b
        /\ \A g \in FrameIndexes : g # next => pending[g] # b
    BY <1>1 DEF OwnerInv, BufferIsOnce
  <2>2. \A g \in FrameIndexes : pending'[g] = IF g = next THEN None ELSE pending[g]
    BY <1>1
  <2>3. None \notin pool' \cup fresh
    BY <1>1, <2>1 DEF Buffers, None
  <2> HIDE DEF b
  <2>4. pool' = pool \cup {b}
    BY <1>1 DEF b
  <2>5. /\ pool' \cap fresh' = {}
        /\ \A w \in Workers : buffer[w] \notin pool' \cup fresh
        /\ \A k \in 1..Len(results) : results[k][2] \notin pool' \cup fresh
        /\ \A g \in FrameIndexes : pending'[g] \notin pool' \cup fresh
    BY <1>1, <2>1, <2>2, <2>3, <2>4 DEF OwnerInv, BufferIsOnce
  <2>6. /\ \A f, g \in FrameIndexes : pending'[f] # None /\ pending'[f] = pending'[g] => f = g
        /\ \A w \in Workers, g \in FrameIndexes : buffer[w] # None => buffer[w] # pending'[g]
        /\ \A k \in 1..Len(results), g \in FrameIndexes :
             pending'[g] # None => pending'[g] # results[k][2]
    BY <2>2 DEF OwnerInv, BufferIsOnce
  <2> QED BY <1>1, <2>5, <2>6 DEF OwnerInv, BufferIsOnce
<1>6. BufferIsSomewhere'
  BY <1>1 DEF OwnerInv, BufferIsSomewhere
<1>7. PixelsAreRight'
  BY <1>1 DEF PixelsAreRight
<1> QED BY <1>3, <1>4, <1>5, <1>6, <1>7 DEF OwnerInv

LEMMA NextOwnerInv ==
  TypeOK /\ OwnerInv /\ PixelsAreRight /\ [Next]_vars => OwnerInv' /\ PixelsAreRight'
<1> SUFFICES ASSUME TypeOK, OwnerInv, PixelsAreRight, [Next]_vars
             PROVE  OwnerInv' /\ PixelsAreRight'
  OBVIOUS
<1>1. ASSUME NEW w \in Workers, Work(w) PROVE OwnerInv' /\ PixelsAreRight'
  BY <1>1, StartAndExitKeepOwners, TakeJobKeepsOwners, RenderKeepsOwners,
     RenderFailsKeepsOwners, SendKeepsOwners DEF Work
<1>2. CASE Feed
  <2>1. CASE PushJob
    BY <2>1, PushJobKeepsOwners
  <2>2. CASE CloseJobs \/ CloseResults
    <3>1. UNCHANGED ownerVars
      BY <2>2 DEF CloseJobs, CloseResults, ownerVars, feeder, workers, buffers, writer, channel
    <3> QED BY <3>1, OwnerInvIsAboutOwnerVars
  <2> QED BY <1>2, <2>1, <2>2 DEF Feed
<1>3. CASE Write
  <2>1. CASE Receive
    BY <2>1, ReceiveKeepsOwners
  <2>2. CASE WriteFrame
    BY <2>2, WriteFrameKeepsOwners
  <2>3. CASE WriteFails \/ WaitForMore \/ CloseStdin \/ Wait
    <3>1. UNCHANGED ownerVars
      BY <2>3 DEF WriteFails, WaitForMore, CloseStdin, Wait, ownerVars, feeder, workers,
                  buffers, channel
    <3> QED BY <3>1, OwnerInvIsAboutOwnerVars
  <2> QED BY <1>3, <2>1, <2>2, <2>3 DEF Write
<1>4. CASE FfmpegExits \/ FfmpegDies \/ UNCHANGED vars
  <2>1. UNCHANGED ownerVars
    BY <1>4 DEF FfmpegExits, FfmpegDies, vars, ownerVars, feeder, workers, buffers, channel, writer
  <2> QED BY <2>1, OwnerInvIsAboutOwnerVars
<1> QED BY <1>1, <1>2, <1>3, <1>4 DEF Next

(* The invariant says what BuffersHaveOneOwner says: there is a holder, and *)
(* there are no two.                                                       *)
LEMMA OwnerInvIsEnough == TypeOK /\ OwnerInv => BuffersHaveOneOwner
<1> SUFFICES ASSUME TypeOK, OwnerInv, NEW b \in Buffers PROVE Cardinality(Holders(b)) = 1
  BY DEF BuffersHaveOneOwner
<1> USE DEF TypeOK
<1>1. b # None /\ DOMAIN results = 1..Len(results)
  BY LenProperties DEF Buffers, None
<1>2. SUFFICES ASSUME NEW h, Holders(b) = {h} PROVE Cardinality(Holders(b)) = 1
  <2>1. \E h : Holders(b) = {h}
    <3>1. CASE b \in pool
      <4>1. Holders(b) = {<<"pool", 0>>}
        BY <1>1, <3>1 DEF Holders, OwnerInv, BufferIsOnce
      <4> QED BY <4>1
    <3>2. CASE b \in fresh
      <4>1. Holders(b) = {<<"fresh", 0>>}
        BY <1>1, <3>2 DEF Holders, OwnerInv, BufferIsOnce
      <4> QED BY <4>1
    <3>3. ASSUME NEW w \in Workers, buffer[w] = b PROVE \E h : Holders(b) = {h}
      <4>1. Holders(b) = {<<"worker", w>>}
        BY <1>1, <3>3 DEF Holders, OwnerInv, BufferIsOnce
      <4> QED BY <4>1
    <3>4. ASSUME NEW k \in 1..Len(results), results[k][2] = b PROVE \E h : Holders(b) = {h}
      <4>1. Holders(b) = {<<"result", k>>}
        BY <1>1, <3>4 DEF Holders, OwnerInv, BufferIsOnce
      <4> QED BY <4>1
    <3>5. ASSUME NEW f \in FrameIndexes, pending[f] = b PROVE \E h : Holders(b) = {h}
      <4>1. Holders(b) = {<<"pending", f>>}
        BY <1>1, <3>5 DEF Holders, OwnerInv, BufferIsOnce
      <4> QED BY <4>1
    <3> QED BY <3>1, <3>2, <3>3, <3>4, <3>5 DEF OwnerInv, BufferIsSomewhere
  <2> QED BY <2>1
<1> QED BY <1>2, FS_Singleton

-----------------------------------------------------------------------------
(* Success is whole *)

LEMMA InitWholeInv == Init => WholeInv
<1> SUFFICES ASSUME Init PROVE WholeInv
  OBVIOUS
<1>1. WrittenInOrder
  BY DEF Init, WrittenInOrder
<1>2. NoFrameIsLost
  <2>1. fed = 0 /\ Len(jobs) = 0
    BY DEF Init
  <2>2. Taken = 0
    BY <2>1 DEF Taken
  <2> QED BY <2>2 DEF NoFrameIsLost
<1>3. WorkersLeaveLast
  BY DEF Init, WorkersLeaveLast
<1>4. CallerIsThrough
  BY PipelineAssumption DEF Init, CallerIsThrough, Due, FrameIndexes
<1> QED BY <1>1, <1>2, <1>3, <1>4 DEF WholeInv

LEMMA NextWrittenInOrder ==
  TypeOK /\ PixelsAreRight /\ WrittenInOrder /\ [Next]_vars => WrittenInOrder'
<1> SUFFICES ASSUME TypeOK, PixelsAreRight, WrittenInOrder, [Next]_vars PROVE WrittenInOrder'
  OBVIOUS
<1>1. CASE WriteFrame
  <2>1. next \in FrameIndexes /\ pending[next] # None
    BY <1>1, PipelineAssumption DEF WriteFrame, Due, FrameIndexes, TypeOK
  <2>2. content[pending[next]] = next
    BY <2>1 DEF PixelsAreRight
  <2>3. written' = Append(written, next) /\ next' = next + 1 /\ next \in Nat
    BY <1>1, <2>2 DEF WriteFrame, TypeOK
  <2>4. /\ Len(written') = Len(written) + 1 /\ written'[Len(written) + 1] = next
        /\ \A k \in 1..Len(written) : written'[k] = written[k]
    BY <2>1, <2>3, AppendAddsLast DEF TypeOK
  <2> QED BY <2>3, <2>4 DEF WrittenInOrder
<1>2. CASE ~WriteFrame
  <2>1. UNCHANGED <<next, written>>
    BY <1>2 DEF Next, Feed, Work, Write, PushJob, CloseJobs, CloseResults, StartWorker, TakeJob,
                Render, RenderFails, Send, ExitWorker, Receive, WriteFails, WaitForMore,
                CloseStdin, Wait, FfmpegExits, FfmpegDies, vars, writer
  <2> QED BY <2>1 DEF WrittenInOrder
<1> QED BY <1>1, <1>2

(* A failure is not forgotten: it moves from the worker to the channel and  *)
(* from there to the caller, who returns it.                               *)
LEMMA TroubleStays == TypeOK /\ FrameHasBuffer /\ Trouble /\ [Next]_vars => Trouble'
<1> SUFFICES ASSUME TypeOK, FrameHasBuffer, Trouble, [Next]_vars PROVE Trouble'
  OBVIOUS
<1> USE DEF TypeOK
<1>1. ASSUME NEW w \in Workers, Send(w) PROVE Trouble'
  <2>1. <<task[w], buffer[w]>> \in (FrameIndexes \cup {Failed}) \X (Buffers \cup {None})
    OBVIOUS
  <2>2. /\ Len(results) \in Nat /\ Len(results') = Len(results) + 1
        /\ results'[Len(results) + 1] = <<task[w], buffer[w]>>
        /\ \A k \in 1..Len(results) : results'[k] = results[k]
        /\ caller' = caller
        /\ worker' = [worker EXCEPT ![w] = IF task[w] = Failed THEN "exited" ELSE "idle"]
        /\ task' = [task EXCEPT ![w] = Failed]
    BY <1>1, <2>1, AppendAddsLast DEF Send, writer
  <2>3. CASE caller = "error"
    BY <2>2, <2>3 DEF Trouble
  <2>4. CASE \E k \in 1..Len(results) : results[k][1] = Failed
    BY <2>2, <2>4 DEF Trouble
  <2>5. CASE \E v \in Workers : worker[v] = "send" /\ task[v] = Failed
    <3>1. CASE task[w] = Failed
      <4>1. results'[Len(results) + 1][1] = Failed /\ Len(results) + 1 \in 1..Len(results')
        BY <2>2, <3>1
      <4> QED BY <4>1 DEF Trouble
    <3>2. CASE task[w] # Failed
      BY <2>2, <2>5, <3>2 DEF Trouble
    <3> QED BY <3>1, <3>2
  <2> QED BY <2>3, <2>4, <2>5 DEF Trouble
<1>2. ASSUME NEW w \in Workers, StartWorker(w) \/ TakeJob(w) \/ Render(w) \/ RenderFails(w) \/ ExitWorker(w)
      PROVE  Trouble'
  <2>1. /\ worker[w] # "send" /\ UNCHANGED <<results, caller>>
        /\ \A v \in Workers : v # w => worker'[v] = worker[v] /\ task'[v] = task[v]
    BY <1>2 DEF StartWorker, TakeJob, Render, RenderFails, ExitWorker, writer, channel
  <2> QED BY <2>1 DEF Trouble
<1>3. CASE Receive
  <2>1. caller = "receive" /\ caller' \in {"error", "write"} /\ UNCHANGED <<worker, task>>
    BY <1>3 DEF Receive, ReturnError, workers
  <2>2. /\ Len(results) \in Nat \ {0} /\ Len(results') = Len(results) - 1
        /\ \A k \in 1..(Len(results) - 1) : results'[k] = results[k + 1]
        /\ Head(results) = results[1]
    BY <1>3, TailIsShifted DEF Receive
  <2>3. CASE results[1][1] = Failed
    BY <1>3, <2>2, <2>3 DEF Receive, ReturnError, Trouble
  <2>4. ASSUME NEW k \in 1..Len(results), results[k][1] = Failed, k # 1 PROVE Trouble'
    <3>1. k - 1 \in 1..Len(results') /\ results'[k - 1] = results[k]
      BY <2>2, <2>4
    <3> QED BY <2>4, <3>1 DEF Trouble
  <2> QED BY <2>1, <2>3, <2>4 DEF Trouble
<1>4. CASE UNCHANGED <<worker, task, results>> /\ (caller' = caller \/ caller # "error")
  BY <1>4 DEF Trouble
<1>5. CASE Feed \/ WriteFrame \/ WriteFails \/ WaitForMore \/ CloseStdin \/ Wait \/ FfmpegExits
           \/ FfmpegDies \/ UNCHANGED vars
  <2>1. UNCHANGED <<worker, task, results>>
    BY <1>5 DEF Feed, PushJob, CloseJobs, CloseResults, WriteFrame, WriteFails, WaitForMore,
                CloseStdin, Wait, FfmpegExits, FfmpegDies, vars, workers, channel
  <2>2. caller' = caller \/ caller # "error"
    BY <1>5 DEF Feed, PushJob, CloseJobs, CloseResults, WriteFrame, WriteFails, WaitForMore,
                CloseStdin, Wait, FfmpegExits, FfmpegDies, vars, writer
  <2> QED BY <1>4, <2>1, <2>2
<1> QED BY <1>1, <1>2, <1>3, <1>5 DEF Next, Work, Write

(* A frame that was taken moves on until ffmpeg has it, unless a worker     *)
(* fails.                                                                  *)
LEMMA NextKeepsFrames ==
  ASSUME TypeOK, OwnerInv, [Next]_vars, NEW f \in FrameIndexes, Kept(f)
  PROVE  Kept(f)' \/ Trouble'
<1> USE DEF TypeOK
<1>1. ASSUME NEW w \in Workers, TakeJob(w) PROVE Kept(f)'
  <2>1. UNCHANGED <<next, pending, results>> /\ task[w] = Failed
    BY <1>1 DEF TakeJob, writer, channel, OwnerInv, FrameHasBuffer
  <2>2. \A v \in Workers : v # w => task'[v] = task[v]
    BY <1>1 DEF TakeJob
  <2>3. \A v \in Workers : task[v] = f => v # w
    BY <2>1 DEF FrameIndexes, Failed
  <2> HIDE DEF TypeOK
  <2> QED BY <2>1, <2>2, <2>3 DEF Kept
<1>2. ASSUME NEW w \in Workers, StartWorker(w) \/ Render(w) \/ ExitWorker(w) PROVE Kept(f)'
  BY <1>2 DEF StartWorker, Render, ExitWorker, Kept, writer, channel
<1>3. ASSUME NEW w \in Workers, RenderFails(w) PROVE Trouble'
  BY <1>3 DEF RenderFails, Trouble
<1>4. ASSUME NEW w \in Workers, Send(w) PROVE Kept(f)'
  <2>1. <<task[w], buffer[w]>> \in (FrameIndexes \cup {Failed}) \X (Buffers \cup {None})
    OBVIOUS
  <2>2. /\ Len(results) \in Nat /\ Len(results') = Len(results) + 1
        /\ results'[Len(results) + 1] = <<task[w], buffer[w]>>
        /\ \A k \in 1..Len(results) : results'[k] = results[k]
        /\ UNCHANGED <<next, pending>>
        /\ task' = [task EXCEPT ![w] = Failed]
    BY <1>4, <2>1, AppendAddsLast DEF Send, writer
  <2>3. CASE task[w] = f
    <3>1. results'[Len(results) + 1][1] = f /\ Len(results) + 1 \in 1..Len(results')
      BY <2>2, <2>3
    <3> QED BY <3>1 DEF Kept
  <2>4. CASE task[w] # f
    BY <2>2, <2>4 DEF Kept
  <2> QED BY <2>3, <2>4
<1>5. CASE Receive
  <2>1. /\ Len(results) \in Nat \ {0} /\ Len(results') = Len(results) - 1
        /\ \A k \in 1..(Len(results) - 1) : results'[k] = results[k + 1]
        /\ Head(results) = results[1]
        /\ results[1] \in (FrameIndexes \cup {Failed}) \X (Buffers \cup {None})
        /\ results[1][1] = Failed <=> results[1][2] = None
        /\ UNCHANGED <<task, next>>
    BY <1>5, TailIsShifted DEF Receive, workers, OwnerInv, FrameHasBuffer
  <2>2. CASE results[1][1] = Failed
    BY <1>5, <2>1, <2>2 DEF Receive, ReturnError, Trouble
  <2>3. CASE results[1][1] # Failed
    <3>1. pending' = [pending EXCEPT ![results[1][1]] = results[1][2]]
      BY <1>5, <2>1, <2>3 DEF Receive
    <3>2. pending[f] # None \/ results[1][1] = f => pending'[f] # None
      <4>1. results[1][1] \in FrameIndexes /\ results[1][2] # None
        BY <2>1, <2>3
      <4> QED BY <3>1, <4>1
    <3>3. ASSUME NEW k \in 1..Len(results), results[k][1] = f, k # 1 PROVE Kept(f)'
      <4>1. k - 1 \in 1..(Len(results) - 1) /\ k - 1 + 1 = k
        BY <3>3
      <4>2. k - 1 \in 1..Len(results') /\ results'[k - 1] = results[k]
        BY <2>1, <4>1
      <4> QED BY <3>3, <4>2 DEF Kept
    <3> QED BY <2>1, <3>2, <3>3 DEF Kept
  <2> QED BY <2>2, <2>3
<1>6. CASE WriteFrame
  BY <1>6 DEF WriteFrame, Kept, FrameIndexes, workers, channel
<1>7. CASE Feed \/ WriteFails \/ WaitForMore \/ CloseStdin \/ Wait \/ FfmpegExits
           \/ FfmpegDies \/ UNCHANGED vars
  <2>1. UNCHANGED <<task, results, pending, next>>
    BY <1>7 DEF Feed, PushJob, CloseJobs, CloseResults, WriteFails, WaitForMore,
                CloseStdin, Wait, FfmpegExits, FfmpegDies, vars, workers, channel, writer
  <2> QED BY <2>1 DEF Kept
<1> QED BY <1>1, <1>2, <1>3, <1>4, <1>5, <1>6, <1>7 DEF Next, Work, Write

LEMMA NextNoFrameIsLost ==
  TypeOK /\ OwnerInv /\ NoFrameIsLost /\ [Next]_vars => NoFrameIsLost'
<1> SUFFICES ASSUME TypeOK, OwnerInv, NoFrameIsLost, [Next]_vars, ~Trouble'
             PROVE  \A f \in 0..(Taken' - 1) : Kept(f)'
  BY DEF NoFrameIsLost
<1> USE DEF TypeOK
<1>1. \A f \in 0..(Taken - 1) : Kept(f)
  BY TroubleStays DEF NoFrameIsLost, OwnerInv
<1>2. Taken \in Int /\ Taken <= TotalFrames /\ TotalFrames \in Nat
  BY PipelineAssumption DEF Taken
<1>3. \A f \in 0..(Taken - 1) : Kept(f)'
  <2> TAKE f \in 0..(Taken - 1)
  <2>1. f \in FrameIndexes
    BY <1>2 DEF FrameIndexes
  <2> QED BY <1>1, <2>1, NextKeepsFrames
<1>4. ASSUME NEW w \in Workers, TakeJob(w) PROVE \A f \in 0..(Taken' - 1) : Kept(f)'
  <2>1. /\ Head(jobs) = jobs[1] /\ Len(jobs) \in Nat \ {0} /\ Len(jobs') = Len(jobs) - 1
        /\ fed' = fed /\ jobs[1] = Taken + 1 - 1
        /\ task' = [task EXCEPT ![w] = Head(jobs)]
    BY <1>4, TailIsShifted DEF TakeJob, OwnerInv, JobsAreInOrder
  <2>2. task'[w] = Taken /\ Taken' = Taken + 1
    BY <1>2, <2>1 DEF Taken
  <2>3. ASSUME NEW f \in 0..(Taken' - 1) PROVE Kept(f)'
    <3>1. CASE f = Taken
      BY <2>2, <3>1 DEF Kept
    <3>2. CASE f # Taken
      <4>1. f \in 0..(Taken - 1)
        BY <1>2, <2>2, <3>2
      <4> QED BY <1>3, <4>1
    <3> QED BY <3>1, <3>2
  <2> QED BY <2>3
<1>5. CASE \A w \in Workers : ~TakeJob(w)
  <2>1. Taken' = Taken
    <3>1. CASE PushJob
      <4>1. fed \in FrameIndexes
        BY <3>1, PipelineAssumption DEF PushJob, FrameIndexes
      <4>2. fed' = fed + 1 /\ Len(jobs') = Len(jobs) + 1 /\ Len(jobs) \in Nat
        BY <3>1, <4>1, AppendAddsLast DEF PushJob
      <4> QED BY <4>2 DEF Taken
    <3>2. CASE ~PushJob
      <4>1. fed' = fed /\ jobs' = jobs
        BY <1>5, <3>2 DEF Next, Feed, Work, Write, CloseJobs, CloseResults, StartWorker,
               Render, RenderFails, Send, ExitWorker, Receive, WriteFrame, WriteFails,
               WaitForMore, CloseStdin, Wait, FfmpegExits, FfmpegDies, vars, feeder
      <4> QED BY <4>1 DEF Taken
    <3> QED BY <3>1, <3>2
  <2> QED BY <1>3, <2>1
<1> QED BY <1>4, <1>5

LEMMA NextWorkersLeaveLast ==
  TypeOK /\ FrameHasBuffer /\ WorkersLeaveLast /\ [Next]_vars => WorkersLeaveLast'
<1> SUFFICES ASSUME TypeOK, FrameHasBuffer, WorkersLeaveLast, [Next]_vars
             PROVE  WorkersLeaveLast'
  OBVIOUS
<1> USE DEF TypeOK, WorkersLeaveLast
<1>1. Trouble => Trouble'
  BY TroubleStays
<1>2. ASSUME NEW w \in Workers, Send(w) PROVE WorkersLeaveLast'
  <2>1. /\ UNCHANGED <<fed, jobs, jobsClosed, resultsClosed>> /\ worker[w] = "send"
        /\ worker' = [worker EXCEPT ![w] = IF task[w] = Failed THEN "exited" ELSE "idle"]
    BY <1>2 DEF Send, feeder
  <2>2. worker'[w] = "exited" => Trouble
    BY <2>1 DEF Trouble
  <2> QED BY <1>1, <2>1, <2>2
<1>3. ASSUME NEW w \in Workers, ExitWorker(w) PROVE WorkersLeaveLast'
  BY <1>1, <1>3 DEF ExitWorker, feeder, channel
<1>4. ASSUME NEW w \in Workers, StartWorker(w) \/ Render(w) \/ RenderFails(w)
      PROVE  WorkersLeaveLast'
  <2>1. /\ UNCHANGED <<fed, jobs, jobsClosed, resultsClosed>>
        /\ worker[w] # "exited" /\ worker'[w] # "exited"
        /\ \A v \in Workers : v # w => worker'[v] = worker[v]
    BY <1>4 DEF StartWorker, Render, RenderFails, feeder, channel
  <2> QED BY <1>1, <2>1
<1>5. ASSUME NEW w \in Workers, TakeJob(w) PROVE WorkersLeaveLast'
  <2>1. /\ UNCHANGED <<fed, jobsClosed, resultsClosed>> /\ jobs # <<>>
        /\ worker[w] = "idle" /\ worker' = [worker EXCEPT ![w] = "render"]
    BY <1>5 DEF TakeJob, channel
  <2> QED BY <1>1, <2>1
<1>6. CASE PushJob
  <2>1. jobsClosed' = jobsClosed /\ resultsClosed' = resultsClosed /\ worker' = worker /\ ~jobsClosed
    BY <1>6 DEF PushJob, workers, channel
  <2> QED BY <1>1, <2>1
<1>7. CASE CloseJobs
  BY <1>1, <1>7 DEF CloseJobs, workers, channel
<1>8. CASE CloseResults
  BY <1>1, <1>8 DEF CloseResults, workers, feeder
<1>9. CASE Write \/ FfmpegExits \/ FfmpegDies \/ UNCHANGED vars
  <2>1. UNCHANGED <<fed, jobs, jobsClosed, resultsClosed, worker>>
    BY <1>9 DEF Write, Receive, WriteFrame, WriteFails, WaitForMore, CloseStdin, Wait,
                FfmpegExits, FfmpegDies, vars, feeder, workers, channel
  <2> QED BY <1>1, <2>1
<1> QED BY <1>2, <1>3, <1>4, <1>5, <1>6, <1>7, <1>8, <1>9 DEF Next, Feed, Work

(* When all workers have left and no result is on its way, nothing has      *)
(* failed, every frame was taken, and none waits but for its turn.         *)
LEMMA NothingIsLeft ==
  ASSUME TypeOK, OwnerInv, WholeInv, caller = "receive", results = <<>>,
         \A w \in Workers : worker[w] = "exited"
  PROVE  next = TotalFrames
<1> USE PipelineAssumption DEF TypeOK
<1>1. Len(results) = 0 /\ \A w \in Workers : task[w] = Failed
  BY DEF OwnerInv, FrameHasBuffer
<1>2. ~Trouble
  BY <1>1 DEF Trouble
<1>3. fed = TotalFrames /\ Len(jobs) = 0
  BY <1>2 DEF WholeInv, WorkersLeaveLast
<1>4. Taken = TotalFrames
  BY <1>3 DEF Taken
<1>5. SUFFICES ASSUME next # TotalFrames PROVE FALSE
  OBVIOUS
<1>6. next \in 0..(Taken - 1) /\ next \in FrameIndexes /\ next < TotalFrames
  BY <1>4, <1>5 DEF FrameIndexes
<1>7. Kept(next)
  BY <1>2, <1>6 DEF WholeInv, NoFrameIsLost
<1>8. pending[next] # None
  BY <1>1, <1>6, <1>7 DEF Kept, FrameIndexes, Failed
<1> QED BY <1>6, <1>8 DEF WholeInv, CallerIsThrough, Due

LEMMA NextCallerIsThrough ==
  TypeOK /\ OwnerInv /\ WholeInv /\ [Next]_vars => CallerIsThrough'
<1> SUFFICES ASSUME TypeOK, OwnerInv, WholeInv, [Next]_vars PROVE CallerIsThrough'
  OBVIOUS
<1> USE DEF TypeOK, CallerIsThrough, WholeInv
<1>1. CASE CloseStdin
  <2>1. \A w \in Workers : worker[w] = "exited"
    BY <1>1 DEF CloseStdin, WorkersLeaveLast
  <2>2. next = TotalFrames
    BY <1>1, <2>1, NothingIsLeft DEF CloseStdin
  <2> QED BY <1>1, <2>1, <2>2 DEF CloseStdin, workers
<1>2. CASE Wait
  BY <1>2 DEF Wait, workers
<1>3. CASE WaitForMore
  BY <1>3 DEF WaitForMore, Due, workers
<1>4. CASE Receive \/ WriteFrame \/ WriteFails
  BY <1>4 DEF Receive, WriteFrame, WriteFails, ReturnError
<1>5. ASSUME NEW w \in Workers, Work(w) PROVE CallerIsThrough'
  <2>1. UNCHANGED <<caller, next, pending, ffmpeg>>
    BY <1>5 DEF Work, StartWorker, TakeJob, Render, RenderFails, Send, ExitWorker, writer
  <2>2. worker[w] # "exited"
    BY <1>5 DEF Work, StartWorker, TakeJob, Render, RenderFails, Send, ExitWorker
  <2> QED BY <2>1, <2>2 DEF Due
<1>6. CASE Feed \/ FfmpegDies \/ FfmpegExits \/ UNCHANGED vars
  <2>1. UNCHANGED <<caller, next, pending, worker>>
    BY <1>6 DEF Feed, PushJob, CloseJobs, CloseResults, FfmpegDies, FfmpegExits, vars, writer, workers
  <2>2. ffmpeg' = ffmpeg \/ ffmpeg = "running"
    BY <1>6 DEF Feed, PushJob, CloseJobs, CloseResults, FfmpegDies, FfmpegExits, vars
  <2> QED BY <2>1, <2>2 DEF Due
<1> QED BY <1>1, <1>2, <1>3, <1>4, <1>5, <1>6 DEF Next, Write

-----------------------------------------------------------------------------
(* The theorems *)

Inv == TypeOK /\ OwnerInv /\ PixelsAreRight /\ WholeInv

LEMMA Invariant == Spec => []Inv
<1>1. Init => Inv
  BY InitTypeOK, InitOwnerInv, InitWholeInv DEF Inv
<1>2. Inv /\ [Next]_vars => Inv'
  BY NextTypeOK, NextOwnerInv, NextWrittenInOrder, NextNoFrameIsLost, NextWorkersLeaveLast,
     NextCallerIsThrough DEF Inv, OwnerInv, WholeInv
<1> QED BY <1>1, <1>2, PTL DEF Spec

(* Channels, counters and buffers hold what the code declares them to hold, *)
(* with however many workers (video.go:148-243).                           *)
THEOREM TypeCorrect == Spec => []TypeOK
<1>1. Inv => TypeOK
  BY DEF Inv
<1> QED BY <1>1, Invariant, PTL

(* A pixel buffer has one owner at any time: a worker, the channel results, *)
(* pendingFrames, the pool, or no one yet (video.go:171-205, 286-312).     *)
THEOREM OneOwner == Spec => []BuffersHaveOneOwner
<1>1. Inv => BuffersHaveOneOwner
  BY OwnerInvIsEnough DEF Inv
<1> QED BY <1>1, Invariant, PTL

(* ffmpeg gets the frames in their order, each with the pixels that were    *)
(* rendered for it (video.go:286-312).                                     *)
THEOREM InOrder == Spec => []FramesInOrder
<1>1. Inv => FramesInOrder
  <2> SUFFICES ASSUME Inv, NEW k \in DOMAIN written PROVE written[k] = k - 1
    BY DEF FramesInOrder
  <2>1. DOMAIN written = 1..next
    BY LenProperties DEF Inv, TypeOK, WholeInv, WrittenInOrder
  <2> QED BY <2>1 DEF Inv, WholeInv, WrittenInOrder
<1> QED BY <1>1, Invariant, PTL

(* EncodePayloads succeeds only with every frame written, ffmpeg finished   *)
(* and every worker gone (video.go:262-334).                               *)
THEOREM SuccessWhole == Spec => []SuccessIsWhole
<1>1. Inv => SuccessIsWhole
  BY DEF Inv, WholeInv, CallerIsThrough, WrittenInOrder, SuccessIsWhole
<1> QED BY <1>1, Invariant, PTL
=============================================================================
