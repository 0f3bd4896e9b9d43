----------------------------- MODULE WeaveDecode -----------------------------
(***************************************************************************)
(* A Weave video on its way back to a file: the frames Encode made are     *)
(* shown in their interleaved order and come back as images, some of them  *)
(* lost, unreadable, repeated or with a damaged header.                    *)
(* ReconstructWeaveFile hands the images to a pool of goroutines through   *)
(* jobChan, collects what they parse from resultChan in the order it       *)
(* arrives, and Reconstruct repairs and reassembles the frames.            *)
(*                                                                         *)
(* The transport is the environment.  Each of its faults has a budget.     *)
(***************************************************************************)
EXTENDS WeaveInterleave, Sequences

CONSTANTS
  Cfg,          (* the weave.Config of both ends                         *)
  InputSizes,   (* the sizes of the files that may be sent               *)
  Workers,      (* the goroutines of the pool, NumCPU - 2 but at least 1 *)
  MaxLost,      (* frames that never come back                           *)
  MaxCorrupt,   (* images no reading attempt gets a CRC-valid packet of  *)
  MaxRepeated,  (* frames that come back twice                           *)
  MaxDamaged    (* frames whose header changed; the CRC covers only the  *)
                (* payload, so such a frame may still parse              *)

(* Both ends use DefaultRescueCount, which is not zero. *)
ASSUME DecodeAssumption ==
  /\ Cfg \in [PayloadSize : Nat, DataFramesPerBlock : Nat, RescueFramesPerBlock : Nat]
  /\ Valid(Cfg) /\ Cfg.RescueFramesPerBlock > 0
  /\ \A n \in InputSizes : PlanAccepts(n, Cfg)
  /\ Workers # {} /\ IsFiniteSet(Workers)
  /\ MaxLost \in Nat /\ MaxCorrupt \in Nat /\ MaxRepeated \in Nat /\ MaxDamaged \in Nat

VARIABLES
  n,          (* the number of bytes of the file that was sent             *)
  unsent,     (* the frames the video has yet to show                      *)
  faults,     (* how often each fault of the transport has happened        *)
  images,     (* framePaths: what each extracted image holds               *)
  pc,         (* where the decoding goroutine is                           *)
  fed,        (* how many images it has put into jobChan                   *)
  jobs,       (* jobChan: indexes of images                                *)
  jobsClosed,
  worker,     (* the image each worker is reading, Idle or Exited          *)
  results,    (* resultChan: indexes of images                             *)
  resultsClosed,
  processed,  (* how many results were received                            *)
  frames,     (* the frames that parsed, in the order their results arrived*)
  cursor,     (* the frame Reconstruct looks at, or the block it repairs   *)
  data,       (* dataFrames: a payload or NoPayload for every data frame   *)
  rescues,    (* rescueFrames, by the first frame of the block             *)
  output      (* the payloads copied to the output                         *)

transport == <<n, unsent, faults, images>>
pool == <<fed, jobs, jobsClosed, worker, results, resultsClosed, processed, frames>>
slots == <<data, rescues>>
vars == <<n, unsent, faults, images, pc, fed, jobs, jobsClosed, worker, results,
          resultsClosed, processed, frames, cursor, data, rescues, output>>

Idle == 0
Exited == -1

R == Cfg.RescueFramesPerBlock

Original(len) ==
  [i \in 0..(DataFrames(len, Cfg) - 1) |-> DataPayload(i, SliceSize(i, len, Cfg))]

-----------------------------------------------------------------------------
(* The transport *)

(* An image whose payload no attempt of processWeaveFrame reads back. *)
Corrupted(f) == [f EXCEPT !.FrameType = "unreadable"]

(* Header damage that ParseFrame cannot see.  DataSize is not among the     *)
(* fields: with another length the CRC of the payload fails.                *)
Damaged(f) ==
  {g \in    {[f EXCEPT !.FrameIndex = i] : i \in 0..(f.TotalFrames - 1)}
       \cup {[f EXCEPT !.RescueIndex = r] : r \in 0..R}
       \cup {[f EXCEPT !.FrameType = t] : t \in {Data, Rescue}}
       \cup {[f EXCEPT !.TotalFrames = @ + d] : d \in {-1, 1}}
       \cup {[f EXCEPT !.TotalDataBytes = @ + d] : d \in {-1, 1}}
       \cup {[f EXCEPT !.BlockSize = @ + 1]} : g # f /\ ParseAccepts(g)}

Transmit(f) == pc = "transport" /\ f = First(unsent) /\ unsent' = unsent \ {f}

Suffers(fault, limit) ==
  /\ faults[fault] < limit
  /\ faults' = [faults EXCEPT ![fault] = @ + 1]

Received == UNCHANGED <<n, pc, pool, cursor, slots, output>>

Show(f) ==
  Transmit(f) /\ images' = Append(images, f) /\ UNCHANGED faults /\ Received

Lose(f) ==
  Transmit(f) /\ Suffers("lost", MaxLost) /\ UNCHANGED images /\ Received

Corrupt(f) ==
  /\ Transmit(f) /\ Suffers("corrupt", MaxCorrupt)
  /\ images' = Append(images, Corrupted(f)) /\ Received

Repeat(f) ==
  /\ Transmit(f) /\ Suffers("repeated", MaxRepeated)
  /\ images' = Append(Append(images, f), f) /\ Received

Damage(f) ==
  /\ Transmit(f) /\ Suffers("damaged", MaxDamaged)
  /\ \E g \in Damaged(f) : images' = Append(images, g)
  /\ Received

Transport ==
  \E f \in unsent : Show(f) \/ Lose(f) \/ Corrupt(f) \/ Repeat(f) \/ Damage(f)

-----------------------------------------------------------------------------
(* The worker pool of ReconstructWeaveFile *)

(* The video has been extracted: the pool starts and gets its first jobs. *)
StartDecode ==
  /\ pc = "transport" /\ unsent = {}
  /\ pc' = "feed"
  /\ UNCHANGED <<transport, pool, cursor, slots, output>>

(* Mutant: room for one job and one result per worker. *)
CapacityPerWorker == Cardinality(Workers)

(* jobChan and resultChan are buffered for every image. *)
Capacity == Len(images)

(* Mutant: one job too many. *)
PushJobPastEnd ==
  /\ pc = "feed" /\ fed <= Len(images)
  /\ Len(jobs) < Capacity
  /\ fed' = fed + 1
  /\ jobs' = Append(jobs, fed + 1)
  /\ UNCHANGED <<transport, pc, jobsClosed, worker, results, resultsClosed,
                 processed, frames, cursor, slots, output>>

PushJob ==
  /\ pc = "feed" /\ fed < Len(images)
  /\ Len(jobs) < Capacity
  /\ fed' = fed + 1
  /\ jobs' = Append(jobs, fed + 1)
  /\ UNCHANGED <<transport, pc, jobsClosed, worker, results, resultsClosed,
                 processed, frames, cursor, slots, output>>

CloseJobs ==
  /\ pc = "feed" /\ fed = Len(images)
  /\ jobsClosed' = TRUE
  /\ pc' = "collect"
  /\ UNCHANGED <<transport, fed, jobs, worker, results, resultsClosed,
                 processed, frames, cursor, slots, output>>

TakeJob(w) ==
  /\ pc \in {"feed", "collect"}
  /\ worker[w] = Idle /\ jobs # <<>>
  /\ worker' = [worker EXCEPT ![w] = Head(jobs)]
  /\ jobs' = Tail(jobs)
  /\ UNCHANGED <<transport, pc, fed, jobsClosed, results, resultsClosed,
                 processed, frames, cursor, slots, output>>

SendResult(w) ==
  /\ worker[w] > 0 /\ Len(results) < Capacity
  /\ results' = Append(results, worker[w])
  /\ worker' = [worker EXCEPT ![w] = Idle]
  /\ UNCHANGED <<transport, pc, fed, jobs, jobsClosed, resultsClosed,
                 processed, frames, cursor, slots, output>>

ExitWorker(w) ==
  /\ worker[w] = Idle /\ jobs = <<>> /\ jobsClosed
  /\ worker' = [worker EXCEPT ![w] = Exited]
  /\ UNCHANGED <<transport, pc, fed, jobs, jobsClosed, results, resultsClosed,
                 processed, frames, cursor, slots, output>>

(* Mutant: the closer does not wait for the workers, only for the jobs. *)
CloseResultsEarly ==
  /\ pc = "collect" /\ ~resultsClosed
  /\ jobs = <<>>
  /\ resultsClosed' = TRUE
  /\ UNCHANGED <<transport, pc, fed, jobs, jobsClosed, worker, results,
                 processed, frames, cursor, slots, output>>

(* wg.Wait returns when every worker has exited. *)
CloseResults ==
  /\ pc = "collect" /\ ~resultsClosed
  /\ \A w \in Workers : worker[w] = Exited
  /\ resultsClosed' = TRUE
  /\ UNCHANGED <<transport, pc, fed, jobs, jobsClosed, worker, results,
                 processed, frames, cursor, slots, output>>

(* A result with an error is counted; the frame of any other is kept. *)
Collect ==
  /\ pc = "collect" /\ results # <<>>
  /\ LET image == images[Head(results)]
     IN  frames' = IF ParseAccepts(image) THEN Append(frames, image) ELSE frames
  /\ results' = Tail(results)
  /\ processed' = processed + 1
  /\ UNCHANGED <<transport, pc, fed, jobs, jobsClosed, worker, resultsClosed,
                 cursor, slots, output>>

StopCollecting ==
  /\ pc = "collect" /\ results = <<>> /\ resultsClosed
  /\ pc' = IF frames = <<>> THEN "failed" ELSE "scan"
  /\ UNCHANGED <<transport, pool, cursor, slots, output>>

-----------------------------------------------------------------------------
(* Reconstruct.  The first frame that arrived supplies the metadata. *)

Meta == frames[1]

Rejected ==
  \/ Len(frames) > 2 * MaxFrameCount
  \/ Meta.TotalFrames > Len(frames)
  \/ \E k \in DOMAIN frames :
       \/ ~FrameMetadataLooksValid(frames[k], Cfg)
       \/ frames[k].TotalFrames # Meta.TotalFrames
       \/ frames[k].TotalDataBytes # Meta.TotalDataBytes
       \/ frames[k].BlockSize # Meta.BlockSize

Reject ==
  /\ pc = "scan" /\ Rejected
  /\ pc' = "failed"
  /\ UNCHANGED <<transport, pool, cursor, slots, output>>

(* There are rescue frames to expect, so the fast path is never taken. *)
FreshSlots ==
  /\ pc = "scan" /\ ~Rejected
  /\ data' = [i \in 0..(Meta.TotalFrames - 1) |-> NoPayload]
  /\ rescues' = [s \in BlockStarts(Meta.TotalFrames, Cfg) |->
                   [r \in 0..(R - 1) |-> NoPayload]]
  /\ cursor' = 1
  /\ pc' = "fill"
  /\ UNCHANGED <<transport, pool, output>>

(* The slot a frame belongs to, and the slots with the frame in it. *)
SlotFor(f) == IF f.FrameType = Data THEN data[f.FrameIndex]
                                    ELSE rescues[f.FrameIndex][f.RescueIndex]

(* Mutant: the payload of an empty file stays nil, the sign of a missing frame. *)
PutEmptyAsNil(f) ==
  IF f.FrameType = Data
  THEN /\ data' = [data EXCEPT ![f.FrameIndex] =
                     IF f.Payload.size = 0 THEN NoPayload ELSE f.Payload]
       /\ UNCHANGED rescues
  ELSE /\ rescues' = [rescues EXCEPT ![f.FrameIndex][f.RescueIndex] = f.Payload]
       /\ UNCHANGED data

Put(f) ==
  IF f.FrameType = Data
  THEN /\ data' = [data EXCEPT ![f.FrameIndex] = f.Payload]
       /\ UNCHANGED rescues
  ELSE /\ rescues' = [rescues EXCEPT ![f.FrameIndex][f.RescueIndex] = f.Payload]
       /\ UNCHANGED data

(* Mutant: the last frame to arrive takes the slot. *)
FillLastWins ==
  /\ pc = "fill" /\ cursor <= Len(frames)
  /\ Put(frames[cursor])
  /\ cursor' = cursor + 1
  /\ UNCHANGED <<transport, pool, pc, output>>

Fill ==
  /\ pc = "fill" /\ cursor <= Len(frames)
  /\ LET f == frames[cursor]
     IN  \/ SlotFor(f) = NoPayload /\ Put(f)
         \/ SlotFor(f) = f.Payload /\ UNCHANGED slots
  /\ cursor' = cursor + 1
  /\ UNCHANGED <<transport, pool, pc, output>>

Conflict ==
  /\ pc = "fill" /\ cursor <= Len(frames)
  /\ SlotFor(frames[cursor]) \notin {NoPayload, frames[cursor].Payload}
  /\ pc' = "failed"
  /\ UNCHANGED <<transport, pool, cursor, slots, output>>

NothingToRepair == \A i \in DOMAIN data : data[i] # NoPayload

NoRescueSeen == \A s \in DOMAIN rescues, r \in 0..(R - 1) : rescues[s][r] = NoPayload

StartRepair ==
  /\ pc = "fill" /\ cursor > Len(frames)
  /\ pc' = IF NothingToRepair \/ NoRescueSeen THEN "check" ELSE "repair"
  /\ cursor' = 0
  /\ UNCHANGED <<transport, pool, slots, output>>

-----------------------------------------------------------------------------
(* repairBlocks: one block after the other *)

BlockStart == cursor * Cfg.DataFramesPerBlock

Block == BlockFrames(BlockStart, Meta.TotalFrames, Cfg)

Missing == {i \in Block : data[i] = NoPayload}

AvailableRescues == {r \in 0..(R - 1) : rescues[BlockStart][r] # NoPayload}

(* The first of the available rescues, one for each missing frame. *)
Used(r) ==
  /\ r \in AvailableRescues
  /\ Cardinality({q \in AvailableRescues : q < r}) < Cardinality(Missing)

(* The equations are solved for the missing frames: with the right data and *)
(* the right parities they yield the original, with any other something     *)
(* else (the Cauchy coefficients make every such system regular).           *)
SourcesIntact ==
  /\ \A i \in Block \ Missing : data[i] = DataPayload(i, SliceSize(i, n, Cfg))
  /\ \A r \in AvailableRescues :
       Used(r) => rescues[BlockStart][r] = RescuePayload(BlockStart, r, Cfg.PayloadSize)

RecoveredPayload(i) ==
  LET size == DataSizeForFrame(i, Meta.TotalDataBytes, Cfg)
  IN  IF SourcesIntact THEN DataPayload(i, size) ELSE Garbage(size)

Repairable == Cardinality(Missing) <= Cardinality(AvailableRescues)

RepairBlock ==
  /\ pc = "repair" /\ cursor < BlockCount(Meta.TotalFrames, Cfg)
  /\ data' = IF Repairable
             THEN [i \in DOMAIN data |->
                     IF i \in Missing THEN RecoveredPayload(i) ELSE data[i]]
             ELSE data
  /\ cursor' = cursor + 1
  /\ UNCHANGED <<transport, pool, pc, rescues, output>>

RepairDone ==
  /\ pc = "repair" /\ cursor = BlockCount(Meta.TotalFrames, Cfg)
  /\ pc' = "check"
  /\ UNCHANGED <<transport, pool, cursor, slots, output>>

-----------------------------------------------------------------------------
(* Reassembly: nothing is written while a frame is missing. *)

(* Mutant: only the frames that are there are looked at. *)
CompleteWhereReceived ==
  \A i \in DOMAIN data :
    data[i] # NoPayload =>
      data[i].size = DataSizeForFrame(i, Meta.TotalDataBytes, Cfg)

Complete ==
  \A i \in DOMAIN data :
    /\ data[i] # NoPayload
    /\ data[i].size = DataSizeForFrame(i, Meta.TotalDataBytes, Cfg)

Reassemble ==
  /\ pc = "check" /\ Complete
  /\ output' = data
  /\ pc' = "done"
  /\ UNCHANGED <<transport, pool, cursor, slots>>

GiveUp ==
  /\ pc = "check" /\ ~Complete
  /\ pc' = "failed"
  /\ UNCHANGED <<transport, pool, cursor, slots, output>>

Terminated == pc \in {"done", "failed"} /\ UNCHANGED vars

-----------------------------------------------------------------------------

Init ==
  /\ n \in InputSizes
  /\ unsent = Encoded(n, Cfg)
  /\ faults = [f \in {"lost", "corrupt", "repeated", "damaged"} |-> 0]
  /\ images = <<>>
  /\ pc = "transport"
  /\ fed = 0
  /\ jobs = <<>> /\ jobsClosed = FALSE
  /\ worker = [w \in Workers |-> Idle]
  /\ results = <<>> /\ resultsClosed = FALSE
  /\ processed = 0 /\ frames = <<>>
  /\ cursor = 0
  /\ data = <<>> /\ rescues = <<>> /\ output = <<>>

Work(w) == TakeJob(w) \/ SendResult(w) \/ ExitWorker(w)

Feed == StartDecode \/ PushJob \/ CloseJobs

Drain == Collect \/ StopCollecting

Reconstruct ==
  \/ Reject \/ FreshSlots
  \/ Fill \/ Conflict \/ StartRepair
  \/ RepairBlock \/ RepairDone
  \/ Reassemble \/ GiveUp

Next ==
  \/ Transport
  \/ Feed
  \/ \E w \in Workers : Work(w)
  \/ CloseResults
  \/ Drain
  \/ Reconstruct
  \/ Terminated

(* Every goroutine that can run eventually runs: the scheduler of Go is    *)
(* fair to runnable goroutines, and a video ends.                          *)
Fairness ==
  /\ WF_vars(Transport)
  /\ WF_vars(Feed)
  /\ \A w \in Workers : WF_vars(Work(w))
  /\ WF_vars(CloseResults)
  /\ WF_vars(Drain)
  /\ WF_vars(Reconstruct)

Spec == Init /\ [][Next]_vars /\ Fairness

-----------------------------------------------------------------------------
(* Properties *)

Outcomes == {"done", "failed"}

Payloads ==
  [kind : {Data, Rescue, "garbage", "none"}, index : Nat, rescue : Nat, size : Nat]

Frames ==
  [FrameType : {Data, Rescue, "unreadable"}, FrameIndex : Nat, RescueIndex : Nat,
   BlockSize : Nat, TotalFrames : Nat, TotalDataBytes : Int, Payload : Payloads]

(* The values of the variables: the channels hold images that exist, the   *)
(* frames collected are frames.                                            *)
TypeOK ==
  /\ n \in InputSizes
  /\ unsent \subseteq Encoded(n, Cfg)
  /\ faults \in [{"lost", "corrupt", "repeated", "damaged"} -> Nat]
  /\ images \in Seq(Frames)
  /\ pc \in {"transport", "feed", "collect", "scan", "fill", "repair", "check"}
             \cup Outcomes
  /\ fed \in 0..Len(images)
  /\ jobs \in Seq(1..Len(images)) /\ jobsClosed \in BOOLEAN
  /\ worker \in [Workers -> {Exited, Idle} \cup (1..Len(images))]
  /\ results \in Seq(1..Len(images)) /\ resultsClosed \in BOOLEAN
  /\ processed \in Nat
  /\ frames \in Seq(Frames)
  /\ cursor \in Nat

Busy == {w \in Workers : worker[w] > 0}

(* Every image is waiting, being read, waiting to be collected or collected *)
(* exactly once, and Reconstruct starts with all of them collected: closing *)
(* resultChan after wg.Wait loses no result (weave.go:51-69).               *)
EveryImageIsCollected ==
  /\ fed = Len(jobs) + Cardinality(Busy) + Len(results) + processed
  /\ pc \notin {"transport", "feed", "collect"} => processed = Len(images)

(* The pool is fed before anything is collected, so a worker that had to    *)
(* wait for room in resultChan would wait for ever (weave.go:25-49).        *)
SendNeverBlocks ==
  \A w \in Busy : Len(results) < Capacity

Arrived == {images[k] : k \in DOMAIN images} \cap Encoded(n, Cfg)

(* Whatever is lost, unreadable or repeated, and in whatever order the      *)
(* workers deliver: what is written is the file that was sent               *)
(* (decode.go:58-181).                                                      *)
OutputIsOriginal ==
  pc = "done" /\ faults["damaged"] = 0 => output = Original(n)

Identity(f) == <<f.FrameType, f.FrameIndex, f.RescueIndex>>

(* The CRC does not cover the header (frame.go:49), so a damaged frame can  *)
(* reach Reconstruct.  A wrong file is written only if such a frame takes a *)
(* slot whose own frame did not arrive: in any other case the comparison of *)
(* duplicates or of the metadata catches it (decode.go:76-83, 121-143).     *)
WrongFileNeedsVacantSlot ==
  pc = "done" /\ output # Original(n) =>
    \E k \in DOMAIN images :
      /\ ParseAccepts(images[k])
      /\ images[k] \notin Encoded(n, Cfg)
      /\ \A f \in Arrived : Identity(f) # Identity(images[k])

(* What the codec promises of a decode, seen in this one.                   *)
Recovery ==
  INSTANCE WeaveRecovery WITH
    sent <- n,
    arrived <- Arrived,
    outcome <- CASE pc = "failed"                       -> "lost"
                 [] pc = "done" /\ output = Original(n) -> "restored"
                 [] pc = "done" /\ output # Original(n) -> "wrong"
                 [] OTHER                               -> "pending"

(* The pipeline and Reconstruct implement the codec's promise as long as no *)
(* header that parses is damaged: the outcome is decided once, by the frames*)
(* that arrived and by nothing else, and it is decided in the end: nobody   *)
(* waits for ever (weave.go:15-76, decode.go:58-181).                       *)
RefinesRecovery == Recovery!Spec
=============================================================================
