-------------------------- MODULE WeaveDecodeProofs --------------------------
(***************************************************************************)
(* Proofs about what the decoder does: WeaveDecode, for every configura-   *)
(* tion, every set of input sizes, every number of workers and every       *)
(* budget of faults, and FrameImage, for every size of the pictures.       *)
(***************************************************************************)
EXTENDS WeaveDecode, FrameImage, FiniteSetTheorems, FunctionTheorems, SequenceTheorems, TLAPS

-----------------------------------------------------------------------------
(* The frame arithmetic *)

(* A valid configuration has the block and payload sizes the code divides by. *)
LEMMA CfgFacts ==
  /\ Cfg.PayloadSize \in Nat \ {0}
  /\ Cfg.DataFramesPerBlock \in Nat \ {0}
  /\ R \in Nat
  /\ \A len \in InputSizes : len \in Nat
BY DecodeAssumption, LimitsAssumption DEF Valid, PlanAccepts, R

(* Every input has at least one data frame and at least one block. *)
LEMMA DataFramesPositive ==
  ASSUME NEW len \in InputSizes
  PROVE  /\ DataFrames(len, Cfg) \in Nat \ {0}
         /\ BlockCount(DataFrames(len, Cfg), Cfg) \in Nat
<1> DEFINE P == Cfg.PayloadSize
           B == Cfg.DataFramesPerBlock
           D == DataFrames(len, Cfg)
<1>1. P \in Nat \ {0} /\ B \in Nat \ {0} /\ len \in Nat
  BY CfgFacts
<1> HIDE DEF P, B
<1>2. ASSUME len > 0 PROVE (len - 1) \div P \in Nat
  BY <1>1, <1>2
<1>3. D \in Nat \ {0}
  BY <1>1, <1>2 DEF DataFrames, P
<1> HIDE DEF D
<1>4. (D + B - 1) \div B \in Nat
  BY <1>1, <1>3
<1> QED BY <1>3, <1>4 DEF BlockCount, D, B

(* Both ends agree on the number of bytes in a data frame: the slice that
   Encode takes has the size dataSizeForFrame computes. *)
LEMMA SliceSizeIsDataSize ==
  ASSUME NEW len \in Nat, NEW i \in Nat
  PROVE  /\ SliceSize(i, len, Cfg) = DataSizeForFrame(i, len, Cfg)
         /\ SliceSize(i, len, Cfg) \in Nat
<1>1. PICK P \in Nat \ {0} : P = Cfg.PayloadSize
  BY CfgFacts
<1>2. PICK start \in Nat : start = i * Cfg.PayloadSize
  BY <1>1
<1>3. SliceSize(i, len, Cfg) =
        IF start < len THEN (IF start + P > len THEN len ELSE start + P) - start ELSE 0
  BY <1>1, <1>2 DEF SliceSize
<1>4. DataSizeForFrame(i, len, Cfg) =
        CASE start >= len    -> 0
          [] len - start > P -> P
          [] OTHER           -> len - start
  BY <1>1, <1>2 DEF DataSizeForFrame
<1> QED BY <1>1, <1>2, <1>3, <1>4

(* What the fields of an encoded frame are. *)
LEMMA EncodedShape ==
  ASSUME NEW len \in InputSizes, NEW f \in Encoded(len, Cfg)
  PROVE  /\ f \in Frames
         /\ f.TotalFrames = DataFrames(len, Cfg)
         /\ f.TotalDataBytes = len
         /\ \/ /\ f.FrameType = Data
               /\ f.FrameIndex \in 0..(DataFrames(len, Cfg) - 1)
               /\ f.Payload = DataPayload(f.FrameIndex, SliceSize(f.FrameIndex, len, Cfg))
            \/ /\ f.FrameType = Rescue
               /\ f.FrameIndex \in BlockStarts(DataFrames(len, Cfg), Cfg)
               /\ f.RescueIndex \in 0..(R - 1)
               /\ f.Payload = RescuePayload(f.FrameIndex, f.RescueIndex, Cfg.PayloadSize)
<1> DEFINE D == DataFrames(len, Cfg)
<1>1. len \in Nat /\ D \in Nat \ {0} /\ Cfg.DataFramesPerBlock \in Nat /\ Cfg.PayloadSize \in Nat
  BY CfgFacts, DataFramesPositive
<1> HIDE DEF D
<1>2. CASE \E i \in 0..(D - 1) : f = DataFrame(i, len, Cfg)
  <2>1. PICK i \in 0..(D - 1) : f = DataFrame(i, len, Cfg)
    BY <1>2
  <2>2. SliceSize(i, len, Cfg) \in Nat /\ i \in Nat
    BY <1>1, <2>1, SliceSizeIsDataSize
  <2> QED BY <1>1, <2>1, <2>2
          DEF DataFrame, Frame, DataPayload, PayloadOf, Frames, Payloads, Data, Rescue, D
<1>3. CASE \E s \in BlockStarts(D, Cfg), r \in 0..(R - 1) : f = RescueFrame(s, r, len, Cfg)
  <2>1. PICK s \in BlockStarts(D, Cfg), r \in 0..(R - 1) : f = RescueFrame(s, r, len, Cfg)
    BY <1>3
  <2>2. s \in Nat /\ r \in Nat
    <3>1. BlockCount(D, Cfg) \in Nat
      BY DataFramesPositive DEF D
    <3> QED BY <1>1, <2>1, <3>1, CfgFacts DEF BlockStarts
  <2> QED BY <1>1, <2>1, <2>2
          DEF RescueFrame, Frame, RescuePayload, PayloadOf, Frames, Payloads, Data, Rescue, D
<1>4. \/ \E i \in 0..(D - 1) : f = DataFrame(i, len, Cfg)
      \/ \E s \in BlockStarts(D, Cfg), r \in 0..(R - 1) : f = RescueFrame(s, r, len, Cfg)
  BY DEF Encoded, D, R
<1> QED BY <1>2, <1>3, <1>4

-----------------------------------------------------------------------------
(* Type correctness *)

(* A frame whose header is damaged but parses is still a frame. *)
LEMMA DamagedIsFrame ==
  ASSUME NEW f \in Frames, NEW g \in Damaged(f)
  PROVE  g \in Frames
BY CfgFacts DEF Frames, Damaged, ParseAccepts, Data, Rescue

(* A sequence over a set is one over every larger set. *)
LEMMA WiderSeq ==
  ASSUME NEW S, NEW T, S \subseteq T, NEW q \in Seq(S)
  PROVE  q \in Seq(T)
OBVIOUS

(* Every variable keeps its type: indexes point into the extracted images,
   frames have the fields Reconstruct reads, counters count. *)
THEOREM TypeCorrect == Spec => []TypeOK
<1>1. Init => TypeOK
  <2> SUFFICES ASSUME Init PROVE TypeOK
    OBVIOUS
  <2>1. images \in Seq(Frames) /\ Len(images) = 0 /\ frames \in Seq(Frames)
    BY DEF Init
  <2>2. jobs \in Seq(1..Len(images)) /\ results \in Seq(1..Len(images))
    BY DEF Init
  <2>3. worker \in [Workers -> {Exited, Idle} \cup (1..Len(images))]
    BY DEF Init
  <2>4. faults \in [{"lost", "corrupt", "repeated", "damaged"} -> Nat]
    BY DEF Init
  <2>5. n \in InputSizes /\ unsent \subseteq Encoded(n, Cfg)
    BY DEF Init
  <2>6. fed \in 0..Len(images) /\ processed \in Nat /\ cursor \in Nat
    BY <2>1 DEF Init
  <2>7. jobsClosed \in BOOLEAN /\ resultsClosed \in BOOLEAN /\ pc = "transport"
    BY DEF Init
  <2> QED BY <2>1, <2>2, <2>3, <2>4, <2>5, <2>6, <2>7 DEF TypeOK
<1>2. TypeOK /\ [Next]_vars => TypeOK'
  <2> SUFFICES ASSUME TypeOK, [Next]_vars PROVE TypeOK'
    OBVIOUS
  <2> USE DEF TypeOK
  <2>1. CASE Transport
    <3>1. PICK f \in unsent : Show(f) \/ Lose(f) \/ Corrupt(f) \/ Repeat(f) \/ Damage(f)
      BY <2>1 DEF Transport
    <3>2. f \in Frames
      BY EncodedShape
    <3>3. unsent' \subseteq Encoded(n, Cfg) /\ n' = n
      BY <3>1 DEF Show, Lose, Corrupt, Repeat, Damage, Transmit, Received
    <3>4. images' \in Seq(Frames) /\ Len(images') >= Len(images)
      <4>1. CASE Show(f)
        BY <3>2, <4>1 DEF Show
      <4>2. CASE Lose(f)
        BY <4>2 DEF Lose
      <4>3. CASE Corrupt(f)
        <5>1. Corrupted(f) \in Frames
          BY <3>2 DEF Corrupted, Frames
        <5> QED BY <4>3, <5>1 DEF Corrupt
      <4>4. CASE Repeat(f)
        <5>1. Append(images, f) \in Seq(Frames)
          BY <3>2
        <5> QED BY <4>4, <5>1 DEF Repeat
      <4>5. CASE Damage(f)
        <5>1. PICK g \in Damaged(f) : images' = Append(images, g)
          BY <4>5 DEF Damage
        <5>2. g \in Frames
          BY <3>2, <5>1, DamagedIsFrame
        <5> QED BY <5>1, <5>2
      <4> QED BY <3>1, <4>1, <4>2, <4>3, <4>4, <4>5
    <3>5. faults' \in [{"lost", "corrupt", "repeated", "damaged"} -> Nat]
      <4>1. CASE faults' = faults
        BY <4>1
      <4>2. CASE \E fault \in {"lost", "corrupt", "repeated", "damaged"}, limit \in Nat :
                   Suffers(fault, limit)
        BY <4>2 DEF Suffers
      <4>3. \/ faults' = faults
            \/ \E fault \in {"lost", "corrupt", "repeated", "damaged"}, limit \in Nat :
                 Suffers(fault, limit)
        BY <3>1, DecodeAssumption DEF Show, Lose, Corrupt, Repeat, Damage
      <4> QED BY <4>1, <4>2, <4>3
    <3>6. UNCHANGED <<pc, pool, cursor>>
      BY <3>1 DEF Show, Lose, Corrupt, Repeat, Damage, Received
    <3>7. 1..Len(images) \subseteq 1..Len(images') /\ fed' \in 0..Len(images')
      BY <3>4, <3>6 DEF pool
    <3>8. jobs' \in Seq(1..Len(images')) /\ results' \in Seq(1..Len(images'))
      BY <3>6, <3>7, WiderSeq DEF pool
    <3>9. worker' \in [Workers -> {Exited, Idle} \cup (1..Len(images'))]
      BY <3>6, <3>7 DEF pool
    <3> QED BY <3>3, <3>4, <3>5, <3>6, <3>7, <3>8, <3>9 DEF pool
  <2>2. CASE Feed
    <3>1. CASE StartDecode
      BY <3>1 DEF StartDecode, transport, pool
    <3>2. CASE PushJob
      BY <3>2 DEF PushJob, transport
    <3>3. CASE CloseJobs
      BY <3>3 DEF CloseJobs, transport
    <3> QED BY <2>2, <3>1, <3>2, <3>3 DEF Feed
  <2>3. CASE \E w \in Workers : Work(w)
    <3>1. PICK w \in Workers : Work(w)
      BY <2>3
    <3>2. CASE TakeJob(w)
      <4>1. Head(jobs) \in 1..Len(images) /\ Tail(jobs) \in Seq(1..Len(images))
        <5>1. jobs \in Seq(1..Len(images)) /\ jobs # <<>>
          BY <3>2 DEF TakeJob
        <5> HIDE DEF TypeOK
        <5> QED BY <5>1, HeadTailProperties
      <4> QED BY <3>2, <4>1 DEF TakeJob, transport
    <3>3. CASE SendResult(w)
      <4>1. worker[w] \in 1..Len(images)
        <5>1. worker[w] \in {Exited, Idle} \cup (1..Len(images)) /\ worker[w] > 0
          BY <3>1, <3>3 DEF SendResult
        <5> QED BY <5>1 DEF Idle, Exited
      <4> QED BY <3>3, <4>1 DEF SendResult, transport, slots, Idle, Exited
    <3>4. CASE ExitWorker(w)
      BY <3>4 DEF ExitWorker, transport, slots, Idle, Exited
    <3> QED BY <3>1, <3>2, <3>3, <3>4 DEF Work
  <2>4. CASE CloseResults
    BY <2>4 DEF CloseResults, transport, slots
  <2>5. CASE Drain
    <3>1. CASE Collect
      <4>1. Head(results) \in 1..Len(images) /\ Tail(results) \in Seq(1..Len(images))
        <5>1. results \in Seq(1..Len(images)) /\ results # <<>>
          BY <3>1 DEF Collect
        <5> HIDE DEF TypeOK
        <5> QED BY <5>1, HeadTailProperties
      <4>2. images[Head(results)] \in Frames
        <5>1. images \in Seq(Frames)
          OBVIOUS
        <5> HIDE DEF TypeOK
        <5> QED BY <4>1, <5>1, ElementOfSeq
      <4>3. frames' \in Seq(Frames)
        <5>1. frames \in Seq(Frames)
          OBVIOUS
        <5>2. frames' \in {frames, Append(frames, images[Head(results)])}
          BY <3>1 DEF Collect
        <5> HIDE DEF TypeOK
        <5> QED BY <4>2, <5>1, <5>2, AppendProperties
      <4>4. results' = Tail(results) /\ processed' = processed + 1
            /\ UNCHANGED <<transport, pc, fed, jobs, jobsClosed, worker, resultsClosed, cursor>>
        BY <3>1 DEF Collect
      <4>5. results' \in Seq(1..Len(images))
        BY <4>1, <4>4
      <4>6. processed' \in Nat
        BY <4>4
      <4> QED BY <4>3, <4>4, <4>5, <4>6 DEF transport
    <3>2. CASE StopCollecting
      BY <3>2 DEF StopCollecting, transport, pool, slots, Outcomes
    <3> QED BY <2>5, <3>1, <3>2 DEF Drain
  <2>6. CASE Reconstruct
    <3>1. UNCHANGED <<transport, pool>>
      BY <2>6 DEF Reconstruct, Reject, FreshSlots, Fill, Conflict,
                  StartRepair, RepairBlock, RepairDone, Reassemble, GiveUp
    <3>2. cursor' \in Nat
      BY <2>6 DEF Reconstruct, Reject, FreshSlots, Fill, Conflict,
                  StartRepair, RepairBlock, RepairDone, Reassemble, GiveUp
    <3>3. pc' \in {"scan", "fill", "repair", "check"} \cup Outcomes
      BY <2>6 DEF Reconstruct, Reject, FreshSlots, Fill, Conflict,
                  StartRepair, RepairBlock, RepairDone, Reassemble, GiveUp, Outcomes
    <3> QED BY <3>1, <3>2, <3>3 DEF transport, pool
  <2>7. CASE Terminated
    BY <2>7 DEF Terminated, vars
  <2>8. CASE UNCHANGED vars
    BY <2>8 DEF vars
  <2> QED BY <2>1, <2>2, <2>3, <2>4, <2>5, <2>6, <2>7, <2>8 DEF Next
<1> QED BY <1>1, <1>2, PTL DEF Spec

-----------------------------------------------------------------------------
(* What is written is what was sent *)

D == DataFrames(n, Cfg)

(* The slots hold nothing but what belongs there. *)
DataGenuine ==
  /\ data = [i \in 0..(D - 1) |-> data[i]]
  /\ \A i \in 0..(D - 1) : data[i] \in {NoPayload, DataPayload(i, SliceSize(i, n, Cfg))}

RescuesGenuine ==
  /\ DOMAIN rescues = BlockStarts(D, Cfg)
  /\ \A s \in BlockStarts(D, Cfg) :
       /\ DOMAIN rescues[s] = 0..(R - 1)
       /\ \A r \in 0..(R - 1) :
            rescues[s][r] \in {NoPayload, RescuePayload(s, r, Cfg.PayloadSize)}

(* Without damaged headers, every frame that parses is one that was sent,
   from the image to the slot it is copied from. *)
GenuineInv ==
  faults["damaged"] = 0 =>
    /\ \A k \in DOMAIN images : ParseAccepts(images[k]) => images[k] \in Encoded(n, Cfg)
    /\ \A k \in DOMAIN frames : frames[k] \in Encoded(n, Cfg)
    /\ pc \in {"scan", "fill", "repair", "check"} => frames # <<>>
    /\ pc \in {"fill", "repair", "check"} => DataGenuine /\ RescuesGenuine
    /\ pc = "fill" => cursor > 0
    /\ pc = "done" => output = Original(n)

(* An unreadable image does not parse. *)
LEMMA CorruptedDoesNotParse ==
  ASSUME NEW f \in Frames
  PROVE  ~ParseAccepts(Corrupted(f))
BY DEF ParseAccepts, Corrupted, Frames, Data, Rescue

(* Nothing in the decoding pipeline after the transport invents a frame. *)
LEMMA TransportKeepsGenuine ==
  ASSUME TypeOK, GenuineInv, Transport
  PROVE  GenuineInv'
<1> USE DEF TypeOK
<1>1. PICK f \in unsent : Show(f) \/ Lose(f) \/ Corrupt(f) \/ Repeat(f) \/ Damage(f)
  BY DEF Transport
<1>2. f \in Encoded(n, Cfg) /\ f \in Frames
  BY EncodedShape
<1>3. pc = "transport" /\ n' = n /\ pc' = pc /\ frames' = frames
  BY <1>1 DEF Show, Lose, Corrupt, Repeat, Damage, Transmit, Received, pool
<1>4. ASSUME faults'["damaged"] = 0
      PROVE  /\ faults["damaged"] = 0
             /\ ~Damage(f)
  <2>1. CASE Damage(f)
    BY <2>1, <1>4 DEF Damage, Suffers
  <2>2. CASE ~Damage(f)
    BY <1>1, <2>2, <1>4 DEF Show, Lose, Corrupt, Repeat, Suffers
  <2> QED BY <2>1, <2>2
<1>5. ASSUME faults'["damaged"] = 0, NEW k \in DOMAIN images', ParseAccepts(images'[k])
      PROVE  images'[k] \in Encoded(n, Cfg)
  <2>1. \A j \in DOMAIN images : ParseAccepts(images[j]) => images[j] \in Encoded(n, Cfg)
    BY <1>4, <1>5 DEF GenuineInv
  <2>2. CASE Show(f)
    BY <1>2, <1>5, <2>1, <2>2 DEF Show
  <2>3. CASE Lose(f)
    BY <1>5, <2>1, <2>3 DEF Lose
  <2>4. CASE Corrupt(f)
    <3>1. ~ParseAccepts(Corrupted(f))
      BY <1>2, CorruptedDoesNotParse
    <3> QED BY <1>5, <2>1, <2>4, <3>1 DEF Corrupt
  <2>5. CASE Repeat(f)
    <3>1. images' = Append(Append(images, f), f) /\ Append(images, f) \in Seq(Frames)
      BY <1>2, <2>5 DEF Repeat
    <3>2. images' \in Seq(Frames) /\ Len(images') = Len(images) + 2
      BY <1>2, <3>1
    <3>3. CASE k \in DOMAIN images
      <4>1. images'[k] = images[k]
        BY <1>2, <3>1, <3>3
      <4> QED BY <1>5, <2>1, <3>3, <4>1
    <3>4. CASE k \notin DOMAIN images
      <4>1. images'[k] = f
        BY <1>2, <1>5, <3>1, <3>2, <3>4
      <4> QED BY <1>2, <4>1
    <3> QED BY <3>3, <3>4
  <2> QED BY <1>1, <1>4, <1>5, <2>2, <2>3, <2>4, <2>5
<1> QED BY <1>3, <1>4, <1>5 DEF GenuineInv

(* The metadata of the first frame is the metadata of the file. *)
LEMMA GenuineMeta ==
  ASSUME TypeOK, GenuineInv, faults["damaged"] = 0,
         pc \in {"scan", "fill", "repair", "check"}
  PROVE  Meta.TotalFrames = D /\ Meta.TotalDataBytes = n
<1>1. frames # <<>> /\ frames \in Seq(Frames)
  BY DEF GenuineInv, TypeOK
<1>2. 1 \in DOMAIN frames
  BY <1>1
<1>3. Meta \in Encoded(n, Cfg) /\ n \in InputSizes
  BY <1>2 DEF GenuineInv, Meta, TypeOK
<1> QED BY <1>3, EncodedShape DEF D

(* Filling the slots puts every frame where it belongs. *)
LEMMA FillKeepsGenuine ==
  ASSUME TypeOK, GenuineInv, faults["damaged"] = 0, Fill
  PROVE  DataGenuine' /\ RescuesGenuine'
<1> USE DEF TypeOK
<1> DEFINE f == frames[cursor]
<1>1. pc = "fill" /\ cursor \in DOMAIN frames
  <2>1. cursor <= Len(frames) /\ cursor \in Nat /\ pc = "fill"
    BY DEF Fill
  <2>2. cursor > 0
    BY <2>1 DEF GenuineInv
  <2> QED BY <2>1, <2>2
<1>2. f \in Encoded(n, Cfg) /\ n \in InputSizes
  BY <1>1 DEF GenuineInv
<1>3. DataGenuine /\ RescuesGenuine /\ n' = n
  BY <1>1 DEF GenuineInv, Fill, transport
<1>4. Put(f) \/ UNCHANGED slots
  BY DEF Fill
<1> HIDE DEF f
<1>5. CASE UNCHANGED slots
  BY <1>3, <1>5 DEF slots, DataGenuine, RescuesGenuine, D
<1>6. CASE Put(f) /\ f.FrameType = Data
  <2>1. /\ f.FrameIndex \in 0..(D - 1)
        /\ f.Payload = DataPayload(f.FrameIndex, SliceSize(f.FrameIndex, n, Cfg))
    BY <1>2, <1>6, EncodedShape DEF D, Data, Rescue
  <2>2. data' = [data EXCEPT ![f.FrameIndex] = f.Payload] /\ rescues' = rescues
    BY <1>6 DEF Put
  <2> QED BY <1>3, <2>1, <2>2 DEF DataGenuine, RescuesGenuine, D
<1>7. CASE Put(f) /\ f.FrameType # Data
  <2>1. /\ f.FrameIndex \in BlockStarts(D, Cfg)
        /\ f.RescueIndex \in 0..(R - 1)
        /\ f.Payload = RescuePayload(f.FrameIndex, f.RescueIndex, Cfg.PayloadSize)
    BY <1>2, <1>7, EncodedShape DEF D, Data, Rescue
  <2>2. /\ rescues' = [rescues EXCEPT ![f.FrameIndex][f.RescueIndex] = f.Payload]
        /\ data' = data
    BY <1>7 DEF Put
  <2> QED BY <1>3, <2>1, <2>2 DEF DataGenuine, RescuesGenuine, D
<1> QED BY <1>4, <1>5, <1>6, <1>7

(* A repaired frame is the original: what the equations are solved from is. *)
LEMMA RepairKeepsGenuine ==
  ASSUME TypeOK, GenuineInv, faults["damaged"] = 0, RepairBlock
  PROVE  DataGenuine' /\ RescuesGenuine'
<1> USE DEF TypeOK
<1>1. pc = "repair" /\ DataGenuine /\ RescuesGenuine /\ n' = n /\ rescues' = rescues
  BY DEF RepairBlock, GenuineInv, transport
<1>2. Meta.TotalFrames = D /\ Meta.TotalDataBytes = n
  BY <1>1, GenuineMeta
<1>3. D \in Nat \ {0} /\ BlockCount(D, Cfg) \in Nat /\ n \in Nat
  BY DataFramesPositive, CfgFacts DEF D
<1>4. BlockStart \in BlockStarts(D, Cfg)
  <2>1. cursor \in Nat /\ cursor < BlockCount(D, Cfg)
    BY <1>2 DEF RepairBlock
  <2>2. cursor \in 0..(BlockCount(D, Cfg) - 1)
    BY <1>3, <2>1
  <2> QED BY <2>2 DEF BlockStart, BlockStarts
<1>5. Block \subseteq 0..(D - 1)
  BY <1>2 DEF Block, BlockFrames
<1>6. SourcesIntact
  BY <1>1, <1>4, <1>5 DEF SourcesIntact, DataGenuine, RescuesGenuine, Missing, AvailableRescues
<1>7. ASSUME NEW i \in 0..(D - 1)
      PROVE  RecoveredPayload(i) = DataPayload(i, SliceSize(i, n, Cfg))
  BY <1>2, <1>3, <1>6, SliceSizeIsDataSize DEF RecoveredPayload
<1>8. \/ data' = data
      \/ data' = [i \in DOMAIN data |->
                   IF i \in Missing THEN RecoveredPayload(i) ELSE data[i]]
  BY DEF RepairBlock
<1>9. DOMAIN data = 0..(D - 1)
  BY <1>1 DEF DataGenuine
<1>10. RescuesGenuine'
  BY <1>1 DEF RescuesGenuine, D
<1>11. DataGenuine'
  <2>1. D' = D /\ n' = n
    BY <1>1 DEF D
  <2>2. \A i \in 0..(D - 1) : data[i] \in {NoPayload, DataPayload(i, SliceSize(i, n, Cfg))}
    BY <1>1 DEF DataGenuine
  <2>3. data' = [i \in 0..(D - 1) |-> data'[i]]
    BY <1>1, <1>8, <1>9 DEF DataGenuine
  <2>4. \A i \in 0..(D - 1) : data'[i] \in {data[i], RecoveredPayload(i)}
    BY <1>8, <1>9
  <2>5. \A i \in 0..(D - 1) : data'[i] \in {NoPayload, DataPayload(i, SliceSize(i, n, Cfg))}
    BY <1>7, <2>2, <2>4
  <2> HIDE DEF TypeOK
  <2> QED BY <2>1, <2>3, <2>5 DEF DataGenuine
<1> QED BY <1>10, <1>11

(* What is copied to the output is the file. *)
LEMMA OutputKeepsGenuine ==
  ASSUME TypeOK, GenuineInv, faults["damaged"] = 0, Reassemble
  PROVE  output' = Original(n)
<1>1. /\ output' = data /\ DataGenuine
      /\ \A i \in DOMAIN data : data[i] # NoPayload
  BY DEF Reassemble, Complete, GenuineInv
<1>2. data = [i \in 0..(D - 1) |-> data[i]]
  BY <1>1 DEF DataGenuine
<1> QED BY <1>1, <1>2 DEF DataGenuine, Original, D

(* Every step keeps the invariant. *)
LEMMA StepKeepsGenuine ==
  ASSUME TypeOK, GenuineInv, [Next]_vars
  PROVE  GenuineInv'
<1> USE DEF TypeOK
<1>1. CASE Transport
  BY <1>1, TransportKeepsGenuine
<1>2. CASE Feed \/ (\E w \in Workers : Work(w)) \/ CloseResults
  <2>1. /\ UNCHANGED <<n, faults, images, frames, cursor, data, rescues, output>>
        /\ pc' = pc \/ pc' \in {"feed", "collect"}
    BY <1>2 DEF Feed, StartDecode, PushJob, CloseJobs, Work, TakeJob, SendResult, ExitWorker,
                CloseResults, transport, pool, slots
  <2> QED BY <2>1 DEF GenuineInv, DataGenuine, RescuesGenuine, D
<1>3. CASE Collect
  <2>1. /\ UNCHANGED <<n, faults, images, pc>>
        /\ pc = "collect"
        /\ Head(results) \in DOMAIN images
        /\ frames' = IF ParseAccepts(images[Head(results)])
                     THEN Append(frames, images[Head(results)]) ELSE frames
    BY <1>3 DEF Collect, transport
  <2>2. images[Head(results)] \in Frames
    BY <2>1
  <2>3. ASSUME faults["damaged"] = 0, NEW k \in DOMAIN frames'
        PROVE  frames'[k] \in Encoded(n, Cfg)
    <3>1. CASE ParseAccepts(images[Head(results)])
      <4>1. images[Head(results)] \in Encoded(n, Cfg)
        BY <2>1, <2>3, <3>1 DEF GenuineInv
      <4> QED BY <2>1, <2>2, <2>3, <3>1, <4>1 DEF GenuineInv
    <3>2. CASE ~ParseAccepts(images[Head(results)])
      BY <2>1, <2>3, <3>2 DEF GenuineInv
    <3> QED BY <3>1, <3>2
  <2> QED BY <2>1, <2>3 DEF GenuineInv
<1>4. CASE StopCollecting
  BY <1>4 DEF StopCollecting, transport, pool, slots, GenuineInv
<1>5. CASE Reconstruct
  <2>1. UNCHANGED <<n, faults, images, frames>>
    BY <1>5 DEF Reconstruct, Reject, FreshSlots, Fill, Conflict, StartRepair,
                RepairBlock, RepairDone, Reassemble, GiveUp, transport, pool
  <2> SUFFICES ASSUME faults["damaged"] = 0
               PROVE  /\ pc' \in {"scan", "fill", "repair", "check"} => frames # <<>>
                      /\ pc' \in {"fill", "repair", "check"} =>
                           DataGenuine' /\ RescuesGenuine'
                      /\ pc' = "fill" => cursor' > 0
                      /\ pc' = "done" => output' = Original(n)
    BY <2>1 DEF GenuineInv
  <2>2. pc \in {"scan", "fill", "repair", "check"} /\ frames # <<>>
    BY <1>5 DEF Reconstruct, Reject, FreshSlots, Fill, Conflict, StartRepair,
                RepairBlock, RepairDone, Reassemble, GiveUp, GenuineInv
  <2>3. CASE Reject \/ Conflict \/ GiveUp
    BY <2>3 DEF Reject, Conflict, GiveUp
  <2>4. CASE Reassemble
    BY <2>4, OutputKeepsGenuine DEF Reassemble
  <2>5. CASE FreshSlots
    <3>1. Meta.TotalFrames = D
      BY <2>5, GenuineMeta DEF FreshSlots
    <3> QED BY <2>1, <2>2, <2>5, <3>1 DEF FreshSlots, DataGenuine, RescuesGenuine, D
  <2>6. CASE Fill
    <3>1. pc = "fill" /\ pc' = "fill" /\ cursor' = cursor + 1
      BY <2>6 DEF Fill
    <3>2. cursor' > 0
      BY <3>1 DEF GenuineInv
    <3> QED BY <2>2, <2>6, <3>1, <3>2, FillKeepsGenuine
  <2>7. CASE StartRepair \/ RepairDone
    BY <2>1, <2>2, <2>7
       DEF StartRepair, RepairDone, slots, GenuineInv, DataGenuine, RescuesGenuine, D
  <2>8. CASE RepairBlock
    BY <2>2, <2>8, RepairKeepsGenuine DEF RepairBlock
  <2> QED BY <1>5, <2>3, <2>4, <2>5, <2>6, <2>7, <2>8 DEF Reconstruct
<1>6. CASE Terminated \/ UNCHANGED vars
  BY <1>6 DEF Terminated, vars, GenuineInv, DataGenuine, RescuesGenuine, D
<1> QED BY <1>1, <1>2, <1>3, <1>4, <1>5, <1>6 DEF Next, Drain

(* The central promise of the decoder: whatever the transport loses, corrupts
   or repeats, and in whatever order the workers deliver, a decode that
   succeeds writes the file that was sent. *)
THEOREM OutputCorrect == Spec => []OutputIsOriginal
<1>1. Init => GenuineInv
  BY DEF Init, GenuineInv
<1>2. TypeOK /\ GenuineInv /\ [Next]_vars => GenuineInv'
  BY StepKeepsGenuine
<1>3. GenuineInv => OutputIsOriginal
  BY DEF GenuineInv, OutputIsOriginal
<1> QED BY <1>1, <1>2, <1>3, TypeCorrect, PTL DEF Spec

-----------------------------------------------------------------------------
(* No image is lost in the pool *)

(* A closed channel has been drained of what it will ever hold: workers exit
   only when there are no jobs left to come, and resultChan is closed when no
   worker can send any more. *)
PoolInv ==
  /\ fed = Len(jobs) + Cardinality(Busy) + Len(results) + processed
  /\ pc = "transport" => fed = 0
  /\ pc \notin {"transport", "feed"} => jobsClosed
  /\ jobsClosed => pc \notin {"transport", "feed"} /\ fed = Len(images)
  /\ \A w \in Workers : worker[w] = Exited => jobs = <<>> /\ jobsClosed
  /\ resultsClosed => \A w \in Workers : worker[w] = Exited
  /\ pc \notin {"transport", "feed", "collect"} =>
       resultsClosed /\ results = <<>>

LEMMA BusyFinite == IsFiniteSet(Busy) /\ Cardinality(Busy) \in Nat
<1>1. Busy \subseteq Workers /\ IsFiniteSet(Workers)
  BY DecodeAssumption DEF Busy
<1>2. IsFiniteSet(Busy)
  BY <1>1, FS_Subset
<1> QED BY <1>2, FS_CardinalityType

(* The pool hands every image on, from one queue to the next. *)
LEMMA StepKeepsPool ==
  ASSUME TypeOK, PoolInv, [Next]_vars
  PROVE  PoolInv'
<1>0. /\ jobs \in Seq(1..Len(images)) /\ results \in Seq(1..Len(images))
      /\ worker \in [Workers -> {Exited, Idle} \cup (1..Len(images))]
  BY DEF TypeOK
<1>1. /\ IsFiniteSet(Busy) /\ Cardinality(Busy) \in Nat
      /\ processed \in Nat /\ Len(jobs) \in Nat /\ Len(results) \in Nat /\ fed \in Nat /\ Len(images) \in Nat
      /\ fed = Len(jobs) + Cardinality(Busy) + Len(results) + processed
  <2>1. images \in Seq(Frames) /\ processed \in Nat /\ fed \in 0..Len(images)
    BY DEF TypeOK
  <2>2. Len(jobs) \in Nat /\ Len(results) \in Nat /\ Len(images) \in Nat
    BY <1>0, <2>1, LenProperties
  <2> QED BY <2>1, <2>2, BusyFinite DEF PoolInv
<1>2. CASE Transport
  <2>1. UNCHANGED <<pc, fed, jobs, jobsClosed, worker, results, resultsClosed, processed>>
    BY <1>2 DEF Transport, Show, Lose, Corrupt, Repeat, Damage, Received, pool
  <2>2. pc = "transport" /\ ~jobsClosed
    BY <1>2 DEF Transport, Show, Lose, Corrupt, Repeat, Damage, Transmit, PoolInv
  <2> QED BY <2>1, <2>2 DEF PoolInv, Busy
<1>3. CASE StartDecode
  BY <1>3 DEF StartDecode, pool, transport, PoolInv, Busy
<1>4. CASE PushJob
  <2>1. /\ pc = "feed" /\ fed' = fed + 1 /\ Len(jobs') = Len(jobs) + 1
        /\ UNCHANGED <<pc, images, jobsClosed, worker, results, resultsClosed, processed>>
    BY <1>0, <1>4 DEF PushJob, transport
  <2>2. ~jobsClosed /\ ~resultsClosed
    BY <2>1, DecodeAssumption DEF PoolInv
  <2>3. \A w \in Workers : worker[w] # Exited
    BY <2>2 DEF PoolInv
  <2>4. Cardinality(Busy') = Cardinality(Busy)
    BY <2>1 DEF Busy
  <2>5. fed' = Len(jobs') + Cardinality(Busy') + Len(results') + processed'
    <3>1. fed' = fed + 1 /\ Len(jobs') = Len(jobs) + 1
      BY <2>1
    <3>2. Len(results') = Len(results) /\ processed' = processed
      BY <2>1
    <3> HIDE DEF TypeOK, PoolInv
    <3>3. fed + 1 = (Len(jobs) + 1) + Cardinality(Busy) + Len(results) + processed
      BY <1>1
    <3> QED BY <2>4, <3>1, <3>2, <3>3
  <2> QED BY <2>1, <2>2, <2>3, <2>5 DEF PoolInv
<1>5. CASE CloseJobs
  BY <1>5 DEF CloseJobs, transport, PoolInv, Busy
<1>6. ASSUME NEW w \in Workers, TakeJob(w)
      PROVE  PoolInv'
  <2>1. /\ worker[w] = Idle /\ jobs # <<>>
        /\ worker' = [worker EXCEPT ![w] = Head(jobs)]
        /\ Len(jobs') = Len(jobs) - 1
        /\ UNCHANGED <<pc, images, fed, jobsClosed, results, resultsClosed, processed>>
    BY <1>0, <1>6 DEF TakeJob, transport
  <2>2. Head(jobs) > 0
    BY <1>0, <2>1
  <2>3. Busy' = Busy \cup {w} /\ w \notin Busy
    BY <1>0, <1>6, <2>1, <2>2 DEF Busy, Idle
  <2>4. Cardinality(Busy') = Cardinality(Busy) + 1
    BY <1>1, <2>3, FS_AddElement
  <2>5. \A v \in Workers : worker[v] # Exited
    BY <2>1 DEF PoolInv
  <2>6. \A v \in Workers : worker'[v] # Exited
    BY <1>0, <2>1, <2>2, <2>5 DEF Exited
  <2>7. ~resultsClosed
    BY <1>6, <2>5 DEF PoolInv
  <2>8. fed' = Len(jobs') + Cardinality(Busy') + Len(results') + processed'
    BY <1>1, <2>1, <2>4
  <2>9. pc \in {"feed", "collect"}
    BY <1>6 DEF TakeJob
  <2> QED BY <2>1, <2>6, <2>7, <2>8, <2>9 DEF PoolInv
<1>7. ASSUME NEW w \in Workers, SendResult(w)
      PROVE  PoolInv'
  <2>1. /\ worker[w] > 0
        /\ worker' = [worker EXCEPT ![w] = Idle]
        /\ UNCHANGED <<pc, images, fed, jobs, jobsClosed, resultsClosed, processed>>
        /\ results' = Append(results, worker[w])
    BY <1>0, <1>7 DEF SendResult, transport
  <2>2. worker[w] \in 1..Len(images)
    <3>1. worker[w] \in {Exited, Idle} \cup (1..Len(images))
      BY <1>0, <1>7
    <3> QED BY <2>1, <3>1 DEF Exited, Idle
  <2>3. Len(results') = Len(results) + 1
    BY <1>0, <2>1, <2>2
  <2>4. Busy' = Busy \ {w} /\ w \in Busy
    <3>1. worker'[w] = Idle /\ \A v \in Workers \ {w} : worker'[v] = worker[v]
      BY <1>0, <1>7, <2>1
    <3>2. w \in Busy /\ w \notin Busy'
      BY <1>7, <2>1, <3>1 DEF Busy, Idle
    <3>3. \A v \in Workers \ {w} : v \in Busy' <=> v \in Busy
      BY <3>1 DEF Busy
    <3>4. Busy \subseteq Workers /\ Busy' \subseteq Workers
      BY DEF Busy
    <3> QED BY <3>2, <3>3, <3>4
  <2>5. Cardinality(Busy') = Cardinality(Busy) - 1
    BY <1>1, <2>4, FS_RemoveElement
  <2>6. ~resultsClosed /\ pc \in {"transport", "feed", "collect"}
    BY <1>7, <2>2 DEF PoolInv, Exited
  <2>7. \A v \in Workers : worker'[v] = Exited => worker[v] = Exited
    BY <1>0, <2>1 DEF Exited, Idle
  <2>8. fed' = fed /\ Len(jobs') = Len(jobs) /\ processed' = processed
    BY <2>1
  <2>9. fed' = Len(jobs') + Cardinality(Busy') + Len(results') + processed'
    <3> HIDE DEF TypeOK, PoolInv
    <3>1. fed = Len(jobs) + (Cardinality(Busy) - 1) + (Len(results) + 1) + processed
      BY <1>1
    <3> QED BY <2>3, <2>5, <2>8, <3>1
  <2> QED BY <2>1, <2>6, <2>7, <2>9 DEF PoolInv
<1>8. ASSUME NEW w \in Workers, ExitWorker(w)
      PROVE  PoolInv'
  <2>1. /\ worker[w] = Idle /\ jobs = <<>> /\ jobsClosed
        /\ worker' = [worker EXCEPT ![w] = Exited]
        /\ UNCHANGED <<pc, images, fed, jobs, jobsClosed, results, resultsClosed, processed>>
    BY <1>0, <1>8 DEF ExitWorker, transport
  <2>2. Cardinality(Busy') = Cardinality(Busy)
    <3>1. Busy' = Busy
      BY <1>0, <1>8, <2>1 DEF Busy, Idle, Exited
    <3> QED BY <3>1
  <2>3. \A v \in Workers : worker'[v] = Exited => jobs' = <<>> /\ jobsClosed'
    BY <1>0, <2>1 DEF PoolInv
  <2>4. resultsClosed' => \A v \in Workers : worker'[v] = Exited
    BY <1>0, <1>8, <2>1 DEF PoolInv
  <2>5. /\ fed' = fed /\ Len(jobs') = Len(jobs)
        /\ Len(results') = Len(results) /\ processed' = processed
    BY <2>1
  <2>6. fed' = Len(jobs') + Cardinality(Busy') + Len(results') + processed'
    <3> HIDE DEF TypeOK, PoolInv
    <3> QED BY <1>1, <2>2, <2>5
  <2> QED BY <2>1, <2>3, <2>4, <2>6 DEF PoolInv
<1>9. CASE CloseResults
  BY <1>9 DEF CloseResults, transport, PoolInv, Busy
<1>10. CASE Collect
  <2>1. /\ pc = "collect" /\ processed' = processed + 1
        /\ Len(results') = Len(results) - 1
        /\ UNCHANGED <<pc, images, fed, jobs, jobsClosed, worker, resultsClosed>>
    <3>1. results # <<>> /\ results' = Tail(results)
      BY <1>10 DEF Collect
    <3>2. Len(results') = Len(results) - 1
      BY <1>0, <3>1, HeadTailProperties
    <3> QED BY <1>10, <3>2 DEF Collect, transport
  <2>2. Cardinality(Busy') = Cardinality(Busy)
    BY <2>1 DEF Busy
  <2>3. fed' = Len(jobs') + Cardinality(Busy') + Len(results') + processed'
    <3>1. fed' = fed /\ Len(jobs') = Len(jobs)
      BY <2>1
    <3>2. Len(results') = Len(results) - 1 /\ processed' = processed + 1
      BY <2>1
    <3> HIDE DEF TypeOK, PoolInv
    <3>3. fed = Len(jobs) + Cardinality(Busy) + (Len(results) - 1) + (processed + 1)
      BY <1>1
    <3> QED BY <2>2, <3>1, <3>2, <3>3
  <2> QED BY <2>1, <2>3 DEF PoolInv
<1>11. CASE StopCollecting
  BY <1>11 DEF StopCollecting, transport, pool, PoolInv, Busy
<1>12. CASE Reconstruct
  <2>1. /\ UNCHANGED <<images, fed, jobs, jobsClosed, worker, results, resultsClosed, processed>>
        /\ pc \in {"scan", "fill", "repair", "check"}
        /\ pc' \in {"fill", "repair", "check", "done", "failed"}
    BY <1>12 DEF Reconstruct, Reject, FreshSlots, Fill, Conflict, StartRepair,
                 RepairBlock, RepairDone, Reassemble, GiveUp, transport, pool
  <2> QED BY <2>1 DEF PoolInv, Busy
<1>13. CASE Terminated \/ UNCHANGED vars
  <2>1. UNCHANGED <<images, pc, fed, jobs, jobsClosed, worker, results, resultsClosed, processed>>
    BY <1>13 DEF Terminated, vars
  <2>2. Busy' = Busy
    BY <2>1 DEF Busy
  <2> QED BY <2>1, <2>2 DEF PoolInv
<1>14. CASE \E w \in Workers : Work(w)
  BY <1>6, <1>7, <1>8, <1>14 DEF Work
<1> QED BY <1>2, <1>3, <1>4, <1>5, <1>9, <1>10, <1>11, <1>12, <1>13, <1>14
        DEF Next, Feed, Drain

LEMMA PoolCorrect == Spec => []PoolInv
<1>1. Init => PoolInv
  <2> SUFFICES ASSUME Init PROVE PoolInv
    OBVIOUS
  <2>1. Busy = {}
    BY DEF Init, Busy, Idle
  <2>2. Cardinality(Busy) = 0
    BY <2>1, FS_EmptySet
  <2> QED BY <2>2 DEF Init, PoolInv, Idle, Exited
<1>2. TypeOK /\ PoolInv /\ [Next]_vars => PoolInv'
  BY StepKeepsPool
<1> QED BY <1>1, <1>2, TypeCorrect, PTL DEF Spec

(* Every image is in exactly one place of the pool at any time, and when
   Reconstruct starts the result of every image has been collected. *)
THEOREM ImagesCollected == Spec => []EveryImageIsCollected
<1>1. TypeOK /\ PoolInv => EveryImageIsCollected
  <2> SUFFICES ASSUME TypeOK, PoolInv, pc \notin {"transport", "feed", "collect"}
               PROVE  processed = Len(images)
    BY DEF PoolInv, EveryImageIsCollected
  <2>1. jobsClosed /\ resultsClosed /\ results = <<>>
    BY DEF PoolInv
  <2>2. \A w \in Workers : worker[w] = Exited
    BY <2>1 DEF PoolInv
  <2>3. jobs = <<>> /\ fed = Len(images)
    BY <2>1, <2>2, DecodeAssumption DEF PoolInv
  <2>4. Busy = {}
    BY <2>2 DEF Busy, Exited
  <2>5. Cardinality(Busy) = 0
    BY <2>4, FS_EmptySet
  <2> QED BY <2>1, <2>3, <2>5 DEF PoolInv, TypeOK
<1> QED BY <1>1, TypeCorrect, PoolCorrect, PTL

(* A worker that has read an image always finds room in resultChan: feeding
   the whole pool before collecting anything cannot deadlock. *)
THEOREM SendsNeverBlock == Spec => []SendNeverBlocks
<1>1. TypeOK /\ PoolInv => SendNeverBlocks
  <2> SUFFICES ASSUME TypeOK, PoolInv, NEW w \in Busy
               PROVE  Len(results) < Len(images)
    BY DEF SendNeverBlocks, Capacity
  <2>1. Cardinality(Busy) \in Nat /\ Cardinality(Busy) # 0
    BY BusyFinite, FS_EmptySet
  <2>2. Len(jobs) \in Nat /\ Len(results) \in Nat /\ processed \in Nat
        /\ fed <= Len(images) /\ fed \in Nat /\ Len(images) \in Nat
    BY DEF TypeOK
  <2> QED BY <2>1, <2>2 DEF PoolInv
<1> QED BY <1>1, TypeCorrect, PoolCorrect, PTL

-----------------------------------------------------------------------------
(* The arithmetic of blocks *)

(* Quotient and rest, for the block size. *)
LEMMA Division ==
  ASSUME NEW a \in Nat, NEW B \in Nat \ {0}
  PROVE  \E q \in Nat, r \in 0..(B - 1) : q = a \div B /\ r = a % B /\ a = q * B + r
<1>1. PICK q \in Nat : q = a \div B
  OBVIOUS
<1>2. PICK r \in 0..(B - 1) : r = a % B
  OBVIOUS
<1>3. a = q * B + r
  BY <1>1, <1>2
<1> QED BY <1>1, <1>2, <1>3, Zenon

LEMMA MultipleHasNoRest ==
  ASSUME NEW b \in Nat, NEW B \in Nat \ {0}
  PROVE  (b * B) % B = 0 /\ (b * B) \div B = b
<1>1. PICK a \in Nat : a = b * B
  OBVIOUS
<1>2. PICK q \in Nat, r \in 0..(B - 1) : q = a \div B /\ r = a % B /\ a = q * B + r
  BY Division
<1>3. PICK d \in Int : d = b - q
  OBVIOUS
<1>4. d * B = r
  BY <1>1, <1>2, <1>3
<1>5. d = 0
  <2>1. CASE d >= 1
    <3>1. d * B >= B
      BY <2>1
    <3> QED BY <1>4, <3>1
  <2>2. CASE d <= -1
    <3>1. d * B <= -B
      BY <2>2
    <3> QED BY <1>4, <3>1
  <2> QED BY <2>1, <2>2
<1>6. r = 0 /\ q = b
  BY <1>3, <1>4, <1>5
<1> QED BY <1>1, <1>2, <1>6

LEMMA MultiplesKeepOrder ==
  ASSUME NEW a \in Nat, NEW b \in Nat, NEW B \in Nat \ {0}
  PROVE  /\ a <= b => a * B <= b * B
         /\ a < b => a * B + B <= b * B
<1>1. ASSUME NEW d \in Nat, b = a + d PROVE b * B = a * B + d * B
  BY <1>1
<1>2. ASSUME NEW d \in Nat PROVE d * B >= 0 /\ (d >= 1 => d * B >= B)
  BY <1>2
<1>3. ASSUME a <= b PROVE a * B <= b * B
  <2>1. b - a \in Nat /\ b = a + (b - a)
    BY <1>3
  <2>2. b * B = a * B + (b - a) * B /\ (b - a) * B >= 0
    BY <1>1, <1>2, <2>1
  <2> QED BY <2>1, <2>2
<1>4. ASSUME a < b PROVE a * B + B <= b * B
  <2>1. b - a \in Nat /\ b = a + (b - a) /\ b - a >= 1
    BY <1>4
  <2>2. b * B = a * B + (b - a) * B /\ (b - a) * B >= B
    BY <1>1, <1>2, <2>1
  <2> QED BY <2>1, <2>2
<1> QED BY <1>3, <1>4

(* A number of frames makes so many blocks that the last one is not empty. *)
LEMMA BlockCountFacts ==
  ASSUME NEW total \in Nat \ {0}, NEW b \in Nat
  PROVE  /\ BlockCount(total, Cfg) \in Nat \ {0}
         /\ b < BlockCount(total, Cfg) <=> b * Cfg.DataFramesPerBlock < total
<1>1. PICK B \in Nat \ {0} : B = Cfg.DataFramesPerBlock
  BY CfgFacts
<1>2. PICK q \in Nat, r \in 0..(B - 1) : q = BlockCount(total, Cfg) /\ total + B - 1 = q * B + r
  <2>1. total + B - 1 \in Nat
    OBVIOUS
  <2>2. PICK q \in Nat, r \in 0..(B - 1) :
          q = (total + B - 1) \div B /\ total + B - 1 = q * B + r
    BY <2>1, Division
  <2>3. BlockCount(total, Cfg) = (total + B - 1) \div B
    BY <1>1 DEF BlockCount
  <2> QED BY <2>2, <2>3
<1>3. q * B \in Nat /\ b * B \in Nat /\ q * B >= total /\ q * B <= total + B - 1
  BY <1>2
<1>4. q # 0
  BY <1>3
<1>5. ASSUME b < q PROVE b * B < total
  <2>1. b * B + B <= q * B
    BY <1>5, MultiplesKeepOrder
  <2> QED BY <1>3, <2>1
<1>6. ASSUME ~(b < q) PROVE ~(b * B < total)
  <2>1. q * B <= b * B
    BY <1>6, MultiplesKeepOrder
  <2> QED BY <1>3, <2>1
<1> QED BY <1>1, <1>2, <1>4, <1>5, <1>6

(* The blocks start at the multiples of the block size below the number of  *)
(* frames.                                                                 *)
LEMMA BlockStartsFacts ==
  ASSUME NEW total \in Nat \ {0}, NEW s
  PROVE  s \in BlockStarts(total, Cfg) <=>
           s \in 0..(total - 1) /\ s % Cfg.DataFramesPerBlock = 0
<1>1. PICK B \in Nat \ {0} : B = Cfg.DataFramesPerBlock
  BY CfgFacts
<1>2. PICK q \in Nat \ {0} : q = BlockCount(total, Cfg)
  BY BlockCountFacts
<1>3. ASSUME s \in BlockStarts(total, Cfg) PROVE s \in 0..(total - 1) /\ s % B = 0
  <2>1. PICK b \in 0..(q - 1) : s = b * B
    BY <1>1, <1>2, <1>3 DEF BlockStarts
  <2>2. b \in Nat /\ b < q
    BY <2>1
  <2>3. b * B < total /\ b * B \in Nat
    BY <1>1, <1>2, <2>2, BlockCountFacts
  <2>4. (b * B) % B = 0
    BY <2>2, MultipleHasNoRest
  <2> QED BY <2>1, <2>3, <2>4
<1>4. ASSUME s \in 0..(total - 1), s % B = 0 PROVE s \in BlockStarts(total, Cfg)
  <2>1. s \in Nat /\ s < total
    BY <1>4
  <2>2. PICK b \in Nat, r \in 0..(B - 1) : b = s \div B /\ r = s % B /\ s = b * B + r
    BY <2>1, Division
  <2>3. s = b * B
    BY <1>4, <2>2
  <2>4. b < q
    BY <1>1, <1>2, <2>1, <2>3, BlockCountFacts
  <2>5. b \in 0..(q - 1)
    BY <2>4
  <2> QED BY <1>1, <1>2, <2>3, <2>5 DEF BlockStarts
<1> QED BY <1>1, <1>3, <1>4

(* Every frame is in the block its index says, and in no other. *)
LEMMA BlockOfFrame ==
  ASSUME NEW total \in Nat \ {0}, NEW i \in 0..(total - 1)
  PROVE  /\ BlockStartOf(i, Cfg) \in BlockStarts(total, Cfg)
         /\ i \in BlockFrames(BlockStartOf(i, Cfg), total, Cfg)
         /\ \A b \in Nat :
              i \in BlockFrames(b * Cfg.DataFramesPerBlock, total, Cfg) =>
                BlockStartOf(i, Cfg) = b * Cfg.DataFramesPerBlock
<1>1. PICK B \in Nat \ {0} : B = Cfg.DataFramesPerBlock
  BY CfgFacts
<1>2. PICK q \in Nat, r \in 0..(B - 1) : q = i \div B /\ r = i % B /\ i = q * B + r
  BY Division
<1>3. PICK s \in Nat : s = q * B
  BY <1>2
<1>4. BlockStartOf(i, Cfg) = s
  <2>1. i - r = s
    BY <1>2, <1>3
  <2>2. BlockStartOf(i, Cfg) = i - (i % B)
    BY <1>1 DEF BlockStartOf
  <2>3. i % B = r
    BY <1>2
  <2> QED BY <2>1, <2>2, <2>3
<1>5. s \in 0..(total - 1) /\ s <= i /\ i < s + B
  BY <1>2, <1>3
<1>6. s % B = 0
  BY <1>3, MultipleHasNoRest
<1>7. s \in BlockStarts(total, Cfg)
  BY <1>1, <1>5, <1>6, BlockStartsFacts
<1>8. ASSUME NEW b \in Nat, i \in BlockFrames(b * B, total, Cfg) PROVE s = b * B
  <2>1. b * B <= i /\ i < b * B + B /\ b * B \in Nat
    BY <1>1, <1>8 DEF BlockFrames
  <2>2. ~(b < q)
    <3>1. b < q => b * B + B <= q * B
      BY MultiplesKeepOrder
    <3> QED BY <1>3, <1>5, <2>1, <3>1
  <2>3. ~(q < b)
    <3>1. q < b => q * B + B <= b * B
      BY MultiplesKeepOrder
    <3> QED BY <1>3, <1>5, <2>1, <3>1
  <2>4. b = q
    BY <2>2, <2>3
  <2> QED BY <1>3, <2>4
<1>9. i \in BlockFrames(s, total, Cfg)
  BY <1>1, <1>5 DEF BlockFrames
<1> QED BY <1>1, <1>4, <1>7, <1>8, <1>9

-----------------------------------------------------------------------------
(* The frames of Encode *)

(* A frame is determined by its type and its indexes. *)
LEMMA EncodedByIdentity ==
  ASSUME NEW len \in InputSizes, NEW f \in Encoded(len, Cfg)
  PROVE  \/ /\ f.FrameType = Data /\ f = DataFrame(f.FrameIndex, len, Cfg)
            /\ f.FrameIndex \in 0..(DataFrames(len, Cfg) - 1) /\ f.RescueIndex = 0
         \/ /\ f.FrameType = Rescue /\ f = RescueFrame(f.FrameIndex, f.RescueIndex, len, Cfg)
            /\ f.FrameIndex \in BlockStarts(DataFrames(len, Cfg), Cfg)
            /\ f.RescueIndex \in 0..(R - 1)
<1>1. CASE \E i \in 0..(DataFrames(len, Cfg) - 1) : f = DataFrame(i, len, Cfg)
  BY <1>1 DEF DataFrame, Frame
<1>2. CASE \E s \in BlockStarts(DataFrames(len, Cfg), Cfg), r \in 0..(R - 1) :
             f = RescueFrame(s, r, len, Cfg)
  BY <1>2 DEF RescueFrame, Frame
<1> QED BY <1>1, <1>2 DEF Encoded, R

(* Every frame of Encode parses, passes the checks of the decoder and has a *)
(* payload, for every input PlanFor accepts: the two ends compute indexes,  *)
(* sizes and block starts each on their own (encode.go:43-80,              *)
(* frame.go:106-114, decode.go:216-235).                                   *)
THEOREM EncodedIsAccepted ==
  ASSUME NEW len \in InputSizes, NEW f \in Encoded(len, Cfg)
  PROVE  /\ ParseAccepts(f) /\ FrameMetadataLooksValid(f, Cfg)
         /\ f.BlockSize = Cfg.DataFramesPerBlock /\ f.Payload # NoPayload
         /\ f.Payload.size = 0 => len = 0
<1> DEFINE total == DataFrames(len, Cfg)
           B == Cfg.DataFramesPerBlock
<1>1. /\ total \in 1..MaxFrameCount /\ total \in Nat \ {0} /\ len \in 0..MaxPayloadBytes
      /\ len \in Nat /\ PlanAccepts(len, Cfg)
      /\ B \in 1..255 /\ B \in Nat \ {0} /\ Cfg.PayloadSize \in Nat \ {0}
  BY DataFramesPositive, CfgFacts, DecodeAssumption, LimitsAssumption DEF PlanAccepts, Valid
<1>2. /\ f.TotalFrames = total /\ f.TotalDataBytes = len /\ f.BlockSize = B
  BY EncodedShape DEF Encoded, DataFrame, RescueFrame, Frame
<1> HIDE DEF total, B
<1>3. CASE f.FrameType = Data
  <2>1. /\ f.FrameIndex \in 0..(total - 1) /\ f.RescueIndex = 0
        /\ f.Payload = DataPayload(f.FrameIndex, SliceSize(f.FrameIndex, len, Cfg))
    BY <1>3, EncodedByIdentity, EncodedShape DEF Data, Rescue, total
  <2>2. f.Payload.kind = Data /\ f.Payload.size = SliceSize(f.FrameIndex, len, Cfg)
    BY <2>1 DEF DataPayload, PayloadOf
  <2>3. f.FrameIndex \in Nat /\ f.FrameIndex < total
    BY <1>1, <2>1
  <2>4. SliceSize(f.FrameIndex, len, Cfg) = DataSizeForFrame(f.FrameIndex, len, Cfg)
    BY <1>1, <2>3, SliceSizeIsDataSize
  <2>5. f.Payload # NoPayload
    BY <2>2 DEF NoPayload, PayloadOf, Data
  <2>6. ParseAccepts(f)
    BY <1>1, <1>2, <1>3, <2>3 DEF ParseAccepts
  <2>7. FrameMetadataLooksValid(f, Cfg)
    BY <1>1, <1>2, <1>3, <2>1, <2>2, <2>3, <2>4 DEF FrameMetadataLooksValid, total, B
  <2>8. f.Payload.size = 0 => len = 0
    <3> SUFFICES ASSUME SliceSize(f.FrameIndex, len, Cfg) = 0, len > 0 PROVE FALSE
      BY <1>1, <2>2
    <3>1. PICK P \in Nat \ {0} : P = Cfg.PayloadSize
      BY <1>1
    <3>2. PICK q \in Nat, r \in 0..(P - 1) : q = (len - 1) \div P /\ len - 1 = q * P + r
      <4>1. PICK a \in Nat : a = len - 1
        BY <1>1
      <4>2. PICK q \in Nat, r \in 0..(P - 1) : q = a \div P /\ r = a % P /\ a = q * P + r
        BY <3>1, Division
      <4>3. q = (len - 1) \div P
        BY <4>1, <4>2
      <4>4. len - 1 = q * P + r
        BY <4>1, <4>2
      <4> QED BY <4>2, <4>3, <4>4, Zenon
    <3>3. total = 1 + q
      BY <1>1, <3>1, <3>2 DEF DataFrames, total
    <3>4. PICK i \in Nat : i = f.FrameIndex
      BY <2>3
    <3>5. i * P <= q * P /\ i * P \in Nat /\ q * P \in Nat
      BY <2>3, <3>3, <3>4, MultiplesKeepOrder
    <3>6. PICK start \in Nat : start = i * P
      BY <3>5
    <3>7. start < len
      <4>1. PICK top \in Nat : top = q * P
        BY <3>5
      <4>2. start <= top /\ len - 1 = top + r
        BY <3>2, <3>5, <3>6, <4>1
      <4> QED BY <1>1, <3>2, <4>2
    <3>8. SliceSize(i, len, Cfg) =
            IF start < len THEN (IF start + P > len THEN len ELSE start + P) - start ELSE 0
      BY <3>1, <3>6 DEF SliceSize
    <3> QED BY <1>1, <3>4, <3>7, <3>8
  <2> QED BY <1>2, <2>5, <2>6, <2>7, <2>8 DEF B
<1>4. CASE f.FrameType = Rescue
  <2>1. /\ f.FrameIndex \in BlockStarts(total, Cfg) /\ f.RescueIndex \in 0..(R - 1)
        /\ f.Payload = RescuePayload(f.FrameIndex, f.RescueIndex, Cfg.PayloadSize)
    BY <1>4, EncodedShape DEF Data, Rescue, total
  <2>2. f.Payload.kind = Rescue /\ f.Payload.size = Cfg.PayloadSize
    BY <2>1 DEF RescuePayload, PayloadOf
  <2>3. f.FrameIndex \in 0..(total - 1) /\ f.FrameIndex % B = 0
    BY <1>1, <2>1, BlockStartsFacts DEF B
  <2>4. f.Payload # NoPayload
    BY <2>2 DEF NoPayload, PayloadOf, Rescue
  <2>5. f.FrameIndex < total /\ f.RescueIndex < Cfg.RescueFramesPerBlock
    BY <1>1, <2>1, <2>3, CfgFacts DEF R
  <2>6. ParseAccepts(f)
    BY <1>1, <1>2, <1>4, <2>5 DEF ParseAccepts
  <2>7. FrameMetadataLooksValid(f, Cfg)
    BY <1>1, <1>2, <1>4, <2>2, <2>3, <2>5 DEF FrameMetadataLooksValid, total, B
  <2> QED BY <1>1, <1>2, <2>2, <2>4, <2>6, <2>7 DEF B
<1> QED BY <1>3, <1>4, EncodedShape

-----------------------------------------------------------------------------
(* What decides a decode.  The parts below follow the frames from the images *)
(* to the output, whether headers are damaged or not.                      *)

(* Every image that parses reaches Reconstruct, and nothing else does. *)
CollectInv ==
  /\ pc = "transport" => frames = <<>>
  /\ \A k \in DOMAIN images : images[k].Payload # NoPayload
  /\ \A j \in DOMAIN frames :
       \E k \in DOMAIN images : ParseAccepts(images[k]) /\ frames[j] = images[k]
  /\ \A k \in DOMAIN images : ParseAccepts(images[k]) =>
       \/ k > fed
       \/ \E j \in DOMAIN jobs : jobs[j] = k
       \/ \E w \in Workers : worker[w] = k
       \/ \E j \in DOMAIN results : results[j] = k
       \/ \E j \in DOMAIN frames : frames[j] = images[k]

(* What a queue holds after its first element is taken. *)
LEMMA TailIsShifted ==
  ASSUME NEW S, NEW seq \in Seq(S), seq # <<>>
  PROVE  /\ Head(seq) \in S /\ Head(seq) = seq[1] /\ Len(seq) \in Nat \ {0}
         /\ Tail(seq) \in Seq(S) /\ Len(Tail(seq)) = Len(seq) - 1
         /\ \A k \in 1..(Len(seq) - 1) : Tail(seq)[k] = seq[k + 1]
BY HeadTailProperties, EmptySeq

(* What a queue holds after an element is added. *)
LEMMA AppendAddsLast ==
  ASSUME NEW S, NEW seq \in Seq(S), NEW x \in S
  PROVE  /\ Append(seq, x) \in Seq(S) /\ Len(seq) \in Nat
         /\ Len(Append(seq, x)) = Len(seq) + 1
         /\ Append(seq, x)[Len(seq) + 1] = x
         /\ \A k \in 1..Len(seq) : Append(seq, x)[k] = seq[k]
BY AppendProperties, LenProperties

(* Nothing in a queue but its head is lost when the head is taken. *)
LEMMA TakenOrQueued ==
  ASSUME NEW S, NEW seq \in Seq(S), seq # <<>>, NEW x,
         \E j \in DOMAIN seq : seq[j] = x
  PROVE  x = Head(seq) \/ \E j \in DOMAIN Tail(seq) : Tail(seq)[j] = x
<1>1. PICK j \in 1..Len(seq) : seq[j] = x
  OBVIOUS
<1>2. /\ Head(seq) = seq[1] /\ Len(seq) \in Nat \ {0}
      /\ Tail(seq) \in Seq(S) /\ Len(Tail(seq)) = Len(seq) - 1
      /\ \A k \in 1..(Len(seq) - 1) : Tail(seq)[k] = seq[k + 1]
  BY TailIsShifted
<1>3. DOMAIN Tail(seq) = 1..(Len(seq) - 1)
  BY <1>2
<1>4. CASE j = 1
  BY <1>1, <1>2, <1>4
<1>5. CASE j # 1
  <2>1. j - 1 \in 1..(Len(seq) - 1) /\ (j - 1) + 1 = j
    BY <1>1, <1>2, <1>5
  <2>2. Tail(seq)[j - 1] = x
    BY <1>1, <1>2, <2>1
  <2> QED BY <1>3, <2>1, <2>2
<1> QED BY <1>4, <1>5

(* A queue that holds what seq holds, and y. *)
Adds(longer, seq, y) ==
  /\ \E j \in DOMAIN longer : longer[j] = y
  /\ \A x : (\E j \in DOMAIN seq : seq[j] = x) => \E j \in DOMAIN longer : longer[j] = x
  /\ \A j \in DOMAIN longer : longer[j] = y \/ \E i \in DOMAIN seq : longer[j] = seq[i]

(* What is in a queue stays there, and what is added is there. *)
LEMMA AddedIsQueued ==
  ASSUME NEW S, NEW seq \in Seq(S), NEW y \in S
  PROVE  Adds(Append(seq, y), seq, y)
<1> DEFINE longer == Append(seq, y)
<1>1. /\ longer \in Seq(S) /\ Len(seq) \in Nat
      /\ Len(longer) = Len(seq) + 1
      /\ longer[Len(seq) + 1] = y
      /\ \A k \in 1..Len(seq) : longer[k] = seq[k]
  BY AppendAddsLast
<1> HIDE DEF longer
<1>2. DOMAIN seq = 1..Len(seq) /\ DOMAIN longer = 1..(Len(seq) + 1)
  BY <1>1
<1>3. \A j \in 1..(Len(seq) + 1) : j = Len(seq) + 1 \/ j \in 1..Len(seq)
  BY <1>1
<1>4. Len(seq) + 1 \in 1..(Len(seq) + 1) /\ 1..Len(seq) \subseteq 1..(Len(seq) + 1)
  BY <1>1
<1>5. Adds(longer, seq, y)
  BY <1>1, <1>2, <1>3, <1>4, Zenon DEF Adds
<1> QED BY <1>5 DEF longer

(* The transport only adds images, and what it adds has a payload. *)
LEMMA TransportAddsImages ==
  ASSUME TypeOK, Transport
  PROVE  /\ pc = "transport" /\ UNCHANGED <<n, pc, fed, jobs, worker, results, frames>>
         /\ \A k \in DOMAIN images : k \in DOMAIN images' /\ images'[k] = images[k]
         /\ \A k \in DOMAIN images' \ DOMAIN images :
              k \in Nat /\ k > Len(images) /\ images'[k].Payload # NoPayload
<1> USE DEF TypeOK
<1>1. PICK f \in unsent : Show(f) \/ Lose(f) \/ Corrupt(f) \/ Repeat(f) \/ Damage(f)
  BY DEF Transport
<1>2. f \in Frames /\ f.Payload # NoPayload
  BY EncodedShape, EncodedIsAccepted
<1>3. pc = "transport" /\ UNCHANGED <<n, pc, fed, jobs, worker, results, frames>>
  BY <1>1 DEF Show, Lose, Corrupt, Repeat, Damage, Transmit, Received, pool
<1>4. ASSUME NEW g \in Frames, g.Payload # NoPayload, images' = Append(images, g)
      PROVE  /\ \A k \in DOMAIN images : k \in DOMAIN images' /\ images'[k] = images[k]
             /\ \A k \in DOMAIN images' \ DOMAIN images :
                  k \in Nat /\ k > Len(images) /\ images'[k].Payload # NoPayload
  BY <1>4
<1>5. CASE Show(f)
  BY <1>2, <1>3, <1>4, <1>5 DEF Show
<1>6. CASE Lose(f)
  BY <1>3, <1>6 DEF Lose
<1>7. CASE Corrupt(f)
  <2>1. Corrupted(f) \in Frames /\ Corrupted(f).Payload = f.Payload
    BY <1>2 DEF Corrupted, Frames
  <2> QED BY <1>2, <1>3, <1>4, <1>7, <2>1 DEF Corrupt
<1>8. CASE Repeat(f)
  <2>1. images' = Append(Append(images, f), f)
    BY <1>8 DEF Repeat
  <2>2. /\ Append(images, f) \in Seq(Frames) /\ Len(Append(images, f)) = Len(images) + 1
        /\ \A k \in 1..Len(images) : Append(images, f)[k] = images[k]
        /\ Append(images, f)[Len(images) + 1] = f
    BY <1>2, AppendAddsLast
  <2>3. /\ Len(images') = Len(images) + 2 /\ images' \in Seq(Frames)
        /\ \A k \in 1..(Len(images) + 1) : images'[k] = Append(images, f)[k]
        /\ images'[Len(images) + 2] = f
    BY <1>2, <2>1, <2>2, AppendAddsLast
  <2>4. DOMAIN images' = 1..(Len(images) + 2)
    BY <2>3
  <2>5. PICK last \in Nat : last = Len(images) /\ DOMAIN images = 1..last
    BY LenProperties
  <2>6. ASSUME NEW k \in DOMAIN images
        PROVE  k \in DOMAIN images' /\ images'[k] = images[k]
    <3>1. k \in 1..last /\ k \in 1..(last + 1) /\ k \in 1..(last + 2)
      BY <2>5, <2>6
    <3> QED BY <2>2, <2>3, <2>4, <2>5, <3>1
  <2>7. ASSUME NEW k \in DOMAIN images' \ DOMAIN images
        PROVE  k \in Nat /\ k > Len(images) /\ images'[k].Payload # NoPayload
    <3>1. k \in 1..(last + 2) /\ k \notin 1..last
      BY <2>4, <2>5, <2>7
    <3>2. k > last /\ k \in {last + 1, last + 2} /\ last + 1 \in 1..(last + 1)
      BY <3>1
    <3>3. images'[k] = f
      BY <2>2, <2>3, <2>5, <3>2
    <3> QED BY <1>2, <2>5, <3>2, <3>3
  <2> QED BY <1>3, <2>6, <2>7
<1>9. CASE Damage(f)
  <2>1. PICK g \in Damaged(f) : images' = Append(images, g)
    BY <1>9 DEF Damage
  <2>2. g \in Frames
    BY <1>2, DamagedIsFrame
  <2>3. g.Payload = f.Payload
    BY <1>2 DEF Damaged, Frames
  <2> QED BY <1>2, <1>3, <1>4, <2>1, <2>2, <2>3
<1> QED BY <1>1, <1>5, <1>6, <1>7, <1>8, <1>9

(* Every image that parses is handed on until it is a frame. *)
LEMMA NextCollectInv ==
  ASSUME TypeOK, CollectInv, [Next]_vars
  PROVE  CollectInv'
<1> DEFINE At(k) == \/ k > fed
                    \/ \E j \in DOMAIN jobs : jobs[j] = k
                    \/ \E w \in Workers : worker[w] = k
                    \/ \E j \in DOMAIN results : results[j] = k
                    \/ \E j \in DOMAIN frames : frames[j] = images[k]
<1>0. /\ images \in Seq(Frames) /\ frames \in Seq(Frames)
      /\ jobs \in Seq(1..Len(images)) /\ results \in Seq(1..Len(images))
      /\ worker \in [Workers -> {Exited, Idle} \cup (1..Len(images))]
      /\ fed \in 0..Len(images)
  BY DEF TypeOK
<1>1. CASE Transport
  <2>1. /\ pc = "transport" /\ UNCHANGED <<n, pc, fed, jobs, worker, results, frames>>
        /\ \A k \in DOMAIN images : k \in DOMAIN images' /\ images'[k] = images[k]
        /\ \A k \in DOMAIN images' \ DOMAIN images :
             k \in Nat /\ k > Len(images) /\ images'[k].Payload # NoPayload
    BY <1>1, TransportAddsImages
  <2>2. fed \in Nat /\ Len(images) \in Nat /\ fed <= Len(images)
    BY <1>0, LenProperties
  <2>3. \A k \in DOMAIN images' \ DOMAIN images : k > fed
    BY <2>1, <2>2
  <2>4. \A k \in DOMAIN images' : images'[k].Payload # NoPayload
    BY <2>1 DEF CollectInv
  <2>5. DOMAIN frames' = {}
    BY <2>1 DEF CollectInv
  <2>6. \A k \in DOMAIN images' : ParseAccepts(images'[k]) => At(k)'
    <3> SUFFICES ASSUME NEW k \in DOMAIN images', ParseAccepts(images'[k]) PROVE At(k)'
      OBVIOUS
    <3>1. CASE k \in DOMAIN images
      <4>1. At(k) /\ images'[k] = images[k]
        BY <2>1, <3>1 DEF CollectInv
      <4> QED BY <2>1, <4>1, Zenon
    <3>2. CASE k \notin DOMAIN images
      BY <2>1, <2>3, <3>2
    <3> QED BY <3>1, <3>2
  <2> QED BY <2>1, <2>4, <2>5, <2>6 DEF CollectInv
<1>2. ASSUME pc' # "transport", images' = images, frames' = frames,
             \A k \in DOMAIN images : ParseAccepts(images[k]) /\ At(k) => At(k)'
      PROVE  CollectInv'
  BY <1>2 DEF CollectInv
<1>3. CASE StartDecode \/ CloseJobs \/ CloseResults \/ StopCollecting \/ Reconstruct
  <2>1. pc' # "transport" /\ UNCHANGED <<images, frames, fed, jobs, worker, results>>
    BY <1>3 DEF StartDecode, CloseJobs, CloseResults, StopCollecting, Reconstruct,
                Reject, FreshSlots, Fill, Conflict, StartRepair, RepairBlock, RepairDone,
                Reassemble, GiveUp, transport, pool
  <2> QED BY <1>2, <2>1
<1>4. CASE PushJob
  <2>1. /\ pc' # "transport" /\ UNCHANGED <<images, frames, worker, results>>
        /\ fed' = fed + 1 /\ jobs' = Append(jobs, fed + 1) /\ fed < Len(images)
    BY <1>4 DEF PushJob, transport
  <2>2. fed + 1 \in 1..Len(images)
    BY <1>0, <2>1, LenProperties
  <2>3. /\ \E j \in DOMAIN jobs' : jobs'[j] = fed + 1
        /\ \A k : (\E j \in DOMAIN jobs : jobs[j] = k) => \E j \in DOMAIN jobs' : jobs'[j] = k
    <3>1. jobs \in Seq(1..Len(images))
      BY <1>0
    <3>2. Adds(Append(jobs, fed + 1), jobs, fed + 1)
      BY <2>2, <3>1, AddedIsQueued
    <3>3. Adds(jobs', jobs, fed + 1)
      BY <2>1, <3>2
    <3> QED BY <3>3 DEF Adds
  <2>4. \A k \in DOMAIN images : k > fed => k > fed' \/ k = fed + 1
    BY <1>0, <2>1
  <2> QED BY <1>2, <2>1, <2>3, <2>4
<1>5. ASSUME NEW w \in Workers, TakeJob(w) PROVE CollectInv'
  <2>1. /\ pc' # "transport" /\ UNCHANGED <<images, frames, fed, results>>
        /\ jobs # <<>> /\ jobs' = Tail(jobs) /\ worker[w] = Idle
        /\ worker' = [worker EXCEPT ![w] = Head(jobs)]
    BY <1>5 DEF TakeJob, transport
  <2>2. \A k : (\E j \in DOMAIN jobs : jobs[j] = k) =>
                 k = Head(jobs) \/ \E j \in DOMAIN jobs' : jobs'[j] = k
    BY <1>0, <2>1, TakenOrQueued
  <2>3. worker'[w] = Head(jobs)
    BY <1>0, <1>5, <2>1
  <2>4. \A k \in DOMAIN images : (\E v \in Workers : worker[v] = k) =>
                                   \E v \in Workers : worker'[v] = k
    <3> SUFFICES ASSUME NEW k \in DOMAIN images, NEW v \in Workers, worker[v] = k
                 PROVE  worker'[v] = k
      OBVIOUS
    <3>1. k # Idle
      BY <1>0 DEF Idle
    <3> QED BY <1>0, <1>5, <2>1, <3>1
  <2> QED BY <1>2, <1>5, <2>1, <2>2, <2>3, <2>4
<1>6. ASSUME NEW w \in Workers, SendResult(w) PROVE CollectInv'
  <2>1. /\ UNCHANGED <<pc, images, frames, fed, jobs>>
        /\ results' = Append(results, worker[w]) /\ worker[w] > 0
        /\ worker' = [worker EXCEPT ![w] = Idle]
    BY <1>6 DEF SendResult, transport
  <2>2. worker[w] \in 1..Len(images)
    <3>1. worker[w] \in {Exited, Idle} \cup (1..Len(images))
      BY <1>0, <1>6
    <3> QED BY <2>1, <3>1 DEF Idle, Exited
  <2>3. /\ \E j \in DOMAIN results' : results'[j] = worker[w]
        /\ \A k : (\E j \in DOMAIN results : results[j] = k) =>
                    \E j \in DOMAIN results' : results'[j] = k
    <3>1. results \in Seq(1..Len(images))
      BY <1>0
    <3>2. Adds(Append(results, worker[w]), results, worker[w])
      BY <2>2, <3>1, AddedIsQueued
    <3>3. Adds(results', results, worker[w])
      BY <2>1, <3>2
    <3> QED BY <3>3 DEF Adds
  <2>4. \A v \in Workers : v # w => worker'[v] = worker[v]
    BY <1>0, <2>1
  <2>5. \A k \in DOMAIN images : (\E v \in Workers : worker[v] = k) =>
          k = worker[w] \/ \E v \in Workers : worker'[v] = k
    BY <2>4
  <2>6. \A k \in DOMAIN images : At(k) => At(k)'
    BY <2>1, <2>3, <2>5, Zenon
  <2> QED BY <2>1, <2>6 DEF CollectInv
<1>7. ASSUME NEW w \in Workers, ExitWorker(w) PROVE CollectInv'
  <2>1. /\ UNCHANGED <<pc, images, frames, fed, jobs, results>>
        /\ worker[w] = Idle /\ worker' = [worker EXCEPT ![w] = Exited]
    BY <1>7 DEF ExitWorker, transport
  <2>2. \A k \in DOMAIN images : (\E v \in Workers : worker[v] = k) =>
                                   \E v \in Workers : worker'[v] = k
    <3> SUFFICES ASSUME NEW k \in DOMAIN images, NEW v \in Workers, worker[v] = k
                 PROVE  worker'[v] = k
      OBVIOUS
    <3>1. k # Idle
      BY <1>0 DEF Idle
    <3> QED BY <1>0, <1>7, <2>1, <3>1
  <2>3. \A k \in DOMAIN images : At(k) => At(k)'
    BY <2>1, <2>2
  <2> QED BY <2>1, <2>3 DEF CollectInv
<1>8. CASE Collect
  <2>1. /\ pc' # "transport" /\ UNCHANGED <<images, fed, jobs, worker>>
        /\ results # <<>> /\ results' = Tail(results)
        /\ frames' = IF ParseAccepts(images[Head(results)])
                     THEN Append(frames, images[Head(results)]) ELSE frames
    BY <1>8 DEF Collect, transport
  <2>2. Head(results) \in DOMAIN images
    BY <1>0, <2>1, TailIsShifted
  <2>3. \A k : (\E j \in DOMAIN results : results[j] = k) =>
                 k = Head(results) \/ \E j \in DOMAIN results' : results'[j] = k
    BY <1>0, <2>1, TakenOrQueued
  <2>4. images[Head(results)] \in Frames
    BY <1>0, <2>2
  <2>5. CASE ParseAccepts(images[Head(results)])
    <3>1. frames' = Append(frames, images[Head(results)])
      BY <2>1, <2>5
    <3>2. /\ \E j \in DOMAIN frames' : frames'[j] = images[Head(results)]
          /\ \A x : (\E j \in DOMAIN frames : frames[j] = x) =>
                      \E j \in DOMAIN frames' : frames'[j] = x
          /\ \A j \in DOMAIN frames' :
               frames'[j] = images[Head(results)] \/ \E i \in DOMAIN frames : frames'[j] = frames[i]
      <4>1. frames \in Seq(Frames)
        BY <1>0
      <4>2. Adds(Append(frames, images[Head(results)]), frames, images[Head(results)])
        BY <2>4, <4>1, AddedIsQueued
      <4>3. Adds(frames', frames, images[Head(results)])
        BY <3>1, <4>2
      <4> QED BY <4>3 DEF Adds
    <3>3. ASSUME NEW k \in DOMAIN images, At(k) PROVE At(k)'
      <4>1. images' = images /\ fed' = fed /\ jobs' = jobs /\ worker' = worker
        BY <2>1
      <4>2. CASE \E j \in DOMAIN results : results[j] = k
        BY <2>3, <3>2, <4>1, <4>2, Zenon
      <4>3. CASE \E j \in DOMAIN frames : frames[j] = images[k]
        BY <3>2, <4>1, <4>3, Zenon
      <4> QED BY <3>3, <4>1, <4>2, <4>3, Zenon
    <3>4. \A j \in DOMAIN frames' :
            \E k \in DOMAIN images' : ParseAccepts(images'[k]) /\ frames'[j] = images'[k]
      <4> SUFFICES ASSUME NEW j \in DOMAIN frames'
                   PROVE  \E k \in DOMAIN images : ParseAccepts(images[k]) /\ frames'[j] = images[k]
        BY <2>1
      <4>1. CASE frames'[j] = images[Head(results)]
        BY <2>2, <2>5, <4>1
      <4>2. CASE \E i \in DOMAIN frames : frames'[j] = frames[i]
        BY <4>2 DEF CollectInv
      <4> QED BY <3>2, <4>1, <4>2
    <3> QED BY <2>1, <3>3, <3>4 DEF CollectInv
  <2>6. CASE ~ParseAccepts(images[Head(results)])
    <3>1. \A k \in DOMAIN images : ParseAccepts(images[k]) /\ At(k) => At(k)'
      BY <2>1, <2>3, <2>6
    <3> QED BY <1>2, <2>1, <2>6, <3>1
  <2> QED BY <2>5, <2>6
<1>9. CASE Terminated \/ UNCHANGED vars
  <2>1. UNCHANGED <<pc, images, frames, fed, jobs, worker, results>>
    BY <1>9 DEF Terminated, vars
  <2> QED BY <2>1 DEF CollectInv
<1> QED BY <1>1, <1>3, <1>4, <1>5, <1>6, <1>7, <1>8, <1>9 DEF Next, Feed, Work, Drain

(* All the images that parse have become frames when resultChan is drained. *)
LEMMA AllCollected ==
  ASSUME TypeOK, PoolInv, CollectInv, resultsClosed, results = <<>>,
         NEW k \in DOMAIN images, ParseAccepts(images[k])
  PROVE  \E j \in DOMAIN frames : frames[j] = images[k]
<1>1. resultsClosed /\ results = <<>>
  OBVIOUS
<1>2. \A w \in Workers : worker[w] = Exited
  BY <1>1 DEF PoolInv
<1>3. jobs = <<>> /\ fed = Len(images)
  BY <1>2, DecodeAssumption DEF PoolInv
<1>4. k \in 1..Len(images)
  BY DEF TypeOK
<1>5. ~(k > fed) /\ \A w \in Workers : worker[w] # k
  BY <1>2, <1>3, <1>4 DEF Exited
<1>6. DOMAIN jobs = {} /\ DOMAIN results = {}
  BY <1>1, <1>3
<1> QED BY <1>5, <1>6 DEF CollectInv

-----------------------------------------------------------------------------
(* The slots are filled with the frames, each once *)

(* A slot holds the payload of every frame that was put there, and is empty *)
(* when there is none.                                                     *)
SlotsAreFrames(last) ==
  /\ \A k \in DOMAIN frames : k <= last => SlotFor(frames[k]) = frames[k].Payload
  /\ \A i \in DOMAIN data : data[i] # NoPayload =>
       \E k \in DOMAIN frames :
         k <= last /\ frames[k].FrameType = Data /\ frames[k].FrameIndex = i
  /\ \A s \in DOMAIN rescues, r \in 0..(R - 1) : rescues[s][r] # NoPayload =>
       \E k \in DOMAIN frames :
         /\ k <= last /\ frames[k].FrameType = Rescue
         /\ frames[k].FrameIndex = s /\ frames[k].RescueIndex = r

SlotsHaveRoom ==
  /\ data = [i \in DOMAIN data |-> data[i]]
  /\ DOMAIN data = 0..(Meta.TotalFrames - 1)
  /\ DOMAIN rescues = BlockStarts(Meta.TotalFrames, Cfg)
  /\ \A s \in DOMAIN rescues : DOMAIN rescues[s] = 0..(R - 1)

FillInv ==
  /\ pc \in {"scan", "fill", "repair", "check", "done"} => frames # <<>>
  /\ pc \in {"fill", "repair", "check", "done"} => ~Rejected
  /\ pc = "fill" => cursor > 0 /\ SlotsHaveRoom /\ SlotsAreFrames(cursor - 1)

(* A frame that is not rejected has a slot of its own. *)
LEMMA FrameFits ==
  ASSUME TypeOK, ~Rejected, NEW k \in DOMAIN frames
  PROVE  /\ frames[k].TotalFrames = Meta.TotalFrames
         /\ frames[k].TotalDataBytes = Meta.TotalDataBytes
         /\ Meta.TotalFrames \in Nat \ {0}
         /\ \/ /\ frames[k].FrameType = Data /\ frames[k].RescueIndex = 0
               /\ frames[k].FrameIndex \in 0..(Meta.TotalFrames - 1)
            \/ /\ frames[k].FrameType = Rescue
               /\ frames[k].FrameIndex \in BlockStarts(Meta.TotalFrames, Cfg)
               /\ frames[k].RescueIndex \in 0..(R - 1)
<1>1. PICK f \in Frames : f = frames[k]
  BY DEF TypeOK
<1>2. PICK total \in Nat : total = f.TotalFrames
  BY <1>1 DEF Frames
<1>3. /\ FrameMetadataLooksValid(f, Cfg) /\ total = Meta.TotalFrames
      /\ f.TotalDataBytes = Meta.TotalDataBytes
  BY <1>1, <1>2 DEF Rejected
<1>4. f.FrameIndex \in Nat /\ f.RescueIndex \in Nat
  BY <1>1 DEF Frames
<1>5. f.FrameIndex < total /\ f.BlockSize = Cfg.DataFramesPerBlock
  BY <1>2, <1>3 DEF FrameMetadataLooksValid
<1>6. total \in Nat \ {0} /\ f.FrameIndex \in 0..(total - 1)
  BY <1>2, <1>4, <1>5
<1>7. CASE f.FrameType = Data /\ f.RescueIndex = 0
  BY <1>1, <1>2, <1>3, <1>6, <1>7
<1>8. CASE /\ f.FrameType = Rescue /\ f.RescueIndex < Cfg.RescueFramesPerBlock
           /\ f.FrameIndex % f.BlockSize = 0
  <2>1. f.FrameIndex \in BlockStarts(total, Cfg)
    BY <1>5, <1>6, <1>8, BlockStartsFacts
  <2>2. f.RescueIndex \in 0..(R - 1)
    BY <1>4, <1>8, CfgFacts DEF R
  <2> QED BY <1>1, <1>2, <1>3, <1>6, <1>8, <2>1, <2>2
<1> QED BY <1>3, <1>7, <1>8 DEF FrameMetadataLooksValid

(* A frame that takes an empty slot disturbs no other frame. *)
LEMMA FillKeepsSlots ==
  ASSUME TypeOK, CollectInv, FillInv, Fill
  PROVE  SlotsHaveRoom' /\ SlotsAreFrames(cursor - 1)'
<1> DEFINE Now(g) == IF g.FrameType = Data THEN data'[g.FrameIndex]
                                           ELSE rescues'[g.FrameIndex][g.RescueIndex]
<1>1. /\ pc = "fill" /\ cursor \in DOMAIN frames /\ frames' = frames
      /\ SlotsHaveRoom /\ SlotsAreFrames(cursor - 1) /\ ~Rejected
  BY DEF Fill, FillInv, TypeOK, pool
<1>2. PICK f : f = frames[cursor]
  OBVIOUS
<1>3. PICK c \in Nat : c = cursor /\ c \in DOMAIN frames /\ f = frames[c]
  BY <1>1, <1>2 DEF TypeOK
<1>4. PICK total \in Nat : total = Meta.TotalFrames
  BY <1>1, FrameFits
<1>5. /\ \A k \in DOMAIN frames : frames[k].Payload # NoPayload
      /\ \A k \in DOMAIN frames : k \in Nat
  BY DEF CollectInv, TypeOK
<1>6. \/ /\ f.FrameType = Data /\ f.FrameIndex \in DOMAIN data
      \/ /\ f.FrameType # Data /\ f.FrameType = Rescue /\ f.FrameIndex \in DOMAIN rescues
         /\ f.RescueIndex \in DOMAIN rescues[f.FrameIndex]
  BY <1>1, <1>2, FrameFits DEF SlotsHaveRoom, Data, Rescue
<1>7. /\ cursor' = c + 1
      /\ \/ SlotFor(f) = NoPayload /\ Put(f)
         \/ SlotFor(f) = f.Payload /\ UNCHANGED slots
  BY <1>2, <1>3 DEF Fill
<1>8. /\ \A k \in DOMAIN frames : k < c => SlotFor(frames[k]) = frames[k].Payload
      /\ \A i \in DOMAIN data : data[i] # NoPayload =>
           \E k \in DOMAIN frames :
             k < c /\ frames[k].FrameType = Data /\ frames[k].FrameIndex = i
      /\ \A s \in DOMAIN rescues, r \in 0..(R - 1) : rescues[s][r] # NoPayload =>
           \E k \in DOMAIN frames :
             /\ k < c /\ frames[k].FrameType = Rescue
             /\ frames[k].FrameIndex = s /\ frames[k].RescueIndex = r
  <2>1. \A k \in Nat : k <= c - 1 <=> k < c
    BY <1>3
  <2> QED BY <1>1, <1>3, <1>5, <2>1 DEF SlotsAreFrames
<1>9. ASSUME SlotsHaveRoom',
             \A k \in DOMAIN frames : k < c => Now(frames[k]) = frames[k].Payload,
             Now(f) = f.Payload,
             \A i \in DOMAIN data' : data'[i] # NoPayload =>
               \/ data'[i] = data[i] /\ i \in DOMAIN data
               \/ f.FrameType = Data /\ f.FrameIndex = i,
             \A s \in DOMAIN rescues', r \in 0..(R - 1) : rescues'[s][r] # NoPayload =>
               \/ rescues'[s][r] = rescues[s][r] /\ s \in DOMAIN rescues
               \/ f.FrameType = Rescue /\ f.FrameIndex = s /\ f.RescueIndex = r
      PROVE  SlotsAreFrames(cursor - 1)'
  <2>1. \A k \in Nat : k <= cursor' - 1 <=> k < c \/ k = c
    BY <1>3, <1>7
  <2>2. \A k \in DOMAIN frames : k <= cursor' - 1 => Now(frames[k]) = frames[k].Payload
    BY <1>3, <1>5, <1>9, <2>1
  <2>3. ASSUME NEW i \in DOMAIN data', data'[i] # NoPayload
        PROVE  \E k \in DOMAIN frames :
                 k <= cursor' - 1 /\ frames[k].FrameType = Data /\ frames[k].FrameIndex = i
    BY <1>3, <1>5, <1>8, <1>9, <2>1, <2>3
  <2>4. ASSUME NEW s \in DOMAIN rescues', NEW r \in 0..(R - 1), rescues'[s][r] # NoPayload
        PROVE  \E k \in DOMAIN frames :
                 /\ k <= cursor' - 1 /\ frames[k].FrameType = Rescue
                 /\ frames[k].FrameIndex = s /\ frames[k].RescueIndex = r
    BY <1>3, <1>5, <1>8, <1>9, <2>1, <2>4
  <2> QED BY <1>1, <2>2, <2>3, <2>4 DEF SlotsAreFrames, SlotFor
<1>10. CASE SlotFor(f) = f.Payload /\ UNCHANGED slots
  <2>1. data' = data /\ rescues' = rescues
    BY <1>10 DEF slots
  <2>2. SlotsHaveRoom'
    BY <1>1, <2>1 DEF SlotsHaveRoom, Meta
  <2>3. \A g : Now(g) = SlotFor(g)
    BY <2>1 DEF SlotFor
  <2> QED BY <1>8, <1>9, <1>10, <2>1, <2>2, <2>3
<1>11. CASE SlotFor(f) = NoPayload /\ Put(f) /\ f.FrameType = Data
  <2>1. /\ data' = [data EXCEPT ![f.FrameIndex] = f.Payload] /\ rescues' = rescues
        /\ data[f.FrameIndex] = NoPayload
    BY <1>11 DEF Put, SlotFor
  <2>2. /\ f.FrameIndex \in DOMAIN data /\ DOMAIN data' = DOMAIN data
        /\ data'[f.FrameIndex] = f.Payload
        /\ \A i \in DOMAIN data : i # f.FrameIndex => data'[i] = data[i]
    BY <1>6, <1>11, <2>1
  <2>3. SlotsHaveRoom'
    BY <1>1, <2>1, <2>2 DEF SlotsHaveRoom, Meta
  <2>4. ASSUME NEW k \in DOMAIN frames, k < c PROVE Now(frames[k]) = frames[k].Payload
    <3>1. SlotFor(frames[k]) = frames[k].Payload /\ frames[k].Payload # NoPayload
      BY <1>5, <1>8, <2>4
    <3>2. CASE frames[k].FrameType = Data
      <4>1. frames[k].FrameIndex # f.FrameIndex
        BY <2>1, <3>1, <3>2 DEF SlotFor
      <4>2. frames[k].FrameIndex \in DOMAIN data
        BY <1>1, <3>2, FrameFits DEF SlotsHaveRoom, Data, Rescue
      <4> QED BY <1>1, <2>2, <3>1, <3>2, <4>1, <4>2 DEF SlotFor
    <3>3. CASE frames[k].FrameType # Data
      BY <1>1, <2>1, <3>1, <3>3 DEF SlotFor
    <3> QED BY <3>2, <3>3
  <2>5. Now(f) = f.Payload
    BY <1>11, <2>2 DEF SlotFor
  <2> QED BY <1>9, <1>11, <2>1, <2>2, <2>3, <2>4, <2>5
<1>12. CASE SlotFor(f) = NoPayload /\ Put(f) /\ f.FrameType # Data
  <2>1. /\ rescues' = [rescues EXCEPT ![f.FrameIndex][f.RescueIndex] = f.Payload]
        /\ data' = data
        /\ rescues[f.FrameIndex][f.RescueIndex] = NoPayload
    BY <1>12 DEF Put, SlotFor
  <2>2. /\ f.FrameIndex \in DOMAIN rescues /\ DOMAIN rescues' = DOMAIN rescues
        /\ \A s \in DOMAIN rescues : DOMAIN rescues'[s] = DOMAIN rescues[s]
        /\ rescues'[f.FrameIndex][f.RescueIndex] = f.Payload
        /\ \A s \in DOMAIN rescues, r \in 0..(R - 1) :
             s # f.FrameIndex \/ r # f.RescueIndex => rescues'[s][r] = rescues[s][r]
    BY <1>1, <1>6, <1>12, <2>1 DEF SlotsHaveRoom
  <2>3. SlotsHaveRoom'
    BY <1>1, <2>1, <2>2 DEF SlotsHaveRoom, Meta
  <2>4. ASSUME NEW k \in DOMAIN frames, k < c PROVE Now(frames[k]) = frames[k].Payload
    <3>1. SlotFor(frames[k]) = frames[k].Payload /\ frames[k].Payload # NoPayload
      BY <1>5, <1>8, <2>4
    <3>2. CASE frames[k].FrameType # Data
      <4>1. frames[k].FrameIndex # f.FrameIndex \/ frames[k].RescueIndex # f.RescueIndex
        BY <2>1, <3>1, <3>2 DEF SlotFor
      <4>2. frames[k].FrameIndex \in DOMAIN rescues /\ frames[k].RescueIndex \in 0..(R - 1)
        BY <1>1, <3>2, FrameFits DEF SlotsHaveRoom, Data, Rescue
      <4> QED BY <1>1, <2>2, <3>1, <3>2, <4>1, <4>2 DEF SlotFor
    <3>3. CASE frames[k].FrameType = Data
      BY <1>1, <2>1, <3>1, <3>3 DEF SlotFor
    <3> QED BY <3>2, <3>3
  <2>5. Now(f) = f.Payload
    BY <1>12, <2>2 DEF SlotFor
  <2>6. f.FrameType = Rescue
    BY <1>6, <1>12
  <2> QED BY <1>9, <1>12, <2>1, <2>2, <2>3, <2>4, <2>5, <2>6
<1>13. SlotsHaveRoom'
  <2>1. CASE UNCHANGED slots
    BY <1>1, <2>1 DEF SlotsHaveRoom, Meta, slots
  <2>2. CASE Put(f)
    BY <1>1, <1>6, <2>2 DEF SlotsHaveRoom, Meta, Put
  <2> QED BY <1>7, <2>1, <2>2
<1> QED BY <1>7, <1>10, <1>11, <1>12, <1>13

LEMMA NextFillInv ==
  ASSUME TypeOK, CollectInv, FillInv, [Next]_vars
  PROVE  FillInv'
<1>1. CASE Transport \/ Feed \/ CloseResults \/ Collect \/ (\E w \in Workers : Work(w))
  <2>1. pc' \in {"transport", "feed", "collect"} \/ UNCHANGED <<pc, frames, cursor, data, rescues>>
    BY <1>1 DEF Transport, Show, Lose, Corrupt, Repeat, Damage, Received, Transmit,
                Feed, StartDecode, PushJob, CloseJobs, CloseResults, Collect,
                Work, TakeJob, SendResult, ExitWorker, transport, pool, slots
  <2> QED BY <2>1 DEF FillInv, Rejected, Meta, SlotsHaveRoom, SlotsAreFrames, SlotFor
<1>2. CASE StopCollecting
  BY <1>2 DEF StopCollecting, FillInv, pool
<1>3. CASE Terminated \/ UNCHANGED vars
  <2>1. UNCHANGED <<pc, frames, cursor, data, rescues>>
    BY <1>3 DEF Terminated, vars
  <2> QED BY <2>1 DEF FillInv, Rejected, Meta, SlotsHaveRoom, SlotsAreFrames, SlotFor
<1>4. CASE Reject \/ Conflict \/ GiveUp
  BY <1>4 DEF Reject, Conflict, GiveUp, FillInv
<1>5. CASE StartRepair \/ RepairBlock \/ RepairDone \/ Reassemble
  <2>1. frames' = frames /\ pc \in {"fill", "repair", "check"} /\ pc' \in {"repair", "check", "done"}
    BY <1>5 DEF StartRepair, RepairBlock, RepairDone, Reassemble, pool
  <2>2. ~Rejected /\ frames # <<>>
    BY <2>1 DEF FillInv
  <2>3. ~Rejected' /\ frames' # <<>>
    BY <2>1, <2>2 DEF Rejected, Meta
  <2> QED BY <2>1, <2>3 DEF FillInv
<1>6. CASE FreshSlots
  <2>1. /\ pc = "scan" /\ pc' = "fill" /\ frames' = frames /\ ~Rejected /\ cursor' = 1
        /\ data' = [i \in 0..(Meta.TotalFrames - 1) |-> NoPayload]
        /\ rescues' = [s \in BlockStarts(Meta.TotalFrames, Cfg) |->
                         [r \in 0..(R - 1) |-> NoPayload]]
    BY <1>6 DEF FreshSlots, pool
  <2>2. ~Rejected' /\ frames' # <<>> /\ Meta' = Meta
    BY <2>1 DEF Rejected, Meta, FillInv
  <2>3. SlotsHaveRoom'
    BY <2>1, <2>2 DEF SlotsHaveRoom
  <2>4. \A k \in DOMAIN frames' : ~(k <= cursor' - 1)
    BY <2>1 DEF TypeOK
  <2>5. SlotsAreFrames(cursor - 1)'
    BY <2>1, <2>4 DEF SlotsAreFrames
  <2> QED BY <2>1, <2>2, <2>3, <2>5 DEF FillInv
<1>7. CASE Fill
  <2>1. /\ pc = "fill" /\ pc' = "fill" /\ frames' = frames /\ ~Rejected /\ frames # <<>>
        /\ cursor' = cursor + 1 /\ cursor \in Nat
    BY <1>7 DEF Fill, FillInv, TypeOK, pool
  <2>2. ~Rejected' /\ frames' # <<>> /\ cursor' > 0
    BY <2>1 DEF Rejected, Meta
  <2> QED BY <1>7, <2>1, <2>2, FillKeepsSlots DEF FillInv
<1> QED BY <1>1, <1>2, <1>3, <1>4, <1>5, <1>6, <1>7 DEF Next, Drain, Reconstruct

-----------------------------------------------------------------------------
(* Repair makes good exactly what it can *)

(* A damaged frame does no harm when the frame whose place it takes is there.*)
Honest ==
  \A k \in DOMAIN images :
    ParseAccepts(images[k]) /\ images[k] \notin Encoded(n, Cfg) =>
      \E f \in Arrived : Identity(f) = Identity(images[k])

HasArrived(i) == DataFrame(i, n, Cfg) \in Arrived

RescueArrived(s, r) == RescueFrame(s, r, n, Cfg) \in Arrived

(* repairBlocks can make up for what the block that starts at s misses. *)
Solvable(s) ==
  Cardinality(MissingOf(s, Arrived, n, Cfg)) <= Cardinality(RescuesOf(s, Arrived, n, Cfg))

Right(i) == DataPayload(i, SliceSize(i, n, Cfg))

RescuesAreRight ==
  /\ DOMAIN rescues = BlockStarts(D, Cfg)
  /\ \A s \in BlockStarts(D, Cfg), r \in 0..(R - 1) :
       rescues[s][r] = IF RescueArrived(s, r) THEN RescuePayload(s, r, Cfg.PayloadSize)
                                              ELSE NoPayload

(* The frames of the blocks repairBlocks has seen, and the others. *)
DataIsRight(seen) ==
  /\ data = [i \in 0..(D - 1) |-> data[i]]
  /\ \A i \in 0..(D - 1) :
       data[i] = IF HasArrived(i) \/ (i < seen /\ Solvable(BlockStartOf(i, Cfg)))
                 THEN Right(i) ELSE NoPayload

RepairInv ==
  Honest =>
    /\ pc = "repair" => /\ RescuesAreRight
                        /\ cursor <= BlockCount(D, Cfg)
                        /\ DataIsRight(cursor * Cfg.DataFramesPerBlock)
    /\ pc = "check" => DataIsRight(D)
    /\ pc = "done" => output = Original(n) /\ Recoverable(Arrived, n, Cfg)

(* The sizes the proofs below are about. *)
LEMMA FileFacts ==
  ASSUME TypeOK
  PROVE  /\ n \in InputSizes /\ n \in Nat /\ D \in Nat \ {0}
         /\ BlockCount(D, Cfg) \in Nat \ {0}
         /\ Cfg.DataFramesPerBlock \in Nat \ {0} /\ R \in Nat
<1>1. n \in InputSizes /\ n \in Nat
  BY CfgFacts DEF TypeOK
<1>2. D \in Nat \ {0}
  BY <1>1, DataFramesPositive DEF D
<1>3. BlockCount(D, Cfg) \in Nat \ {0}
  BY <1>2, BlockCountFacts
<1> QED BY <1>1, <1>2, <1>3, CfgFacts

(* What a decoder misses of a block and what it has to repair it with are   *)
(* finite.                                                                 *)
LEMMA BlockIsFinite ==
  ASSUME NEW len \in InputSizes, NEW received, NEW s
  PROVE  /\ IsFiniteSet(MissingOf(s, received, len, Cfg))
         /\ Cardinality(MissingOf(s, received, len, Cfg)) \in Nat
         /\ IsFiniteSet(RescuesOf(s, received, len, Cfg))
         /\ Cardinality(RescuesOf(s, received, len, Cfg)) \in Nat
<1>1. DataFrames(len, Cfg) \in Nat /\ R \in Nat
  BY DataFramesPositive, CfgFacts
<1>2. IsFiniteSet(0..(DataFrames(len, Cfg) - 1)) /\ IsFiniteSet(0..(R - 1))
  <2>1. DataFrames(len, Cfg) - 1 \in Int /\ R - 1 \in Int
    BY <1>1
  <2> QED BY <2>1, FS_Interval
<1>3. /\ MissingOf(s, received, len, Cfg) \subseteq 0..(DataFrames(len, Cfg) - 1)
      /\ RescuesOf(s, received, len, Cfg) \subseteq 0..(R - 1)
  BY DEF MissingOf, RescuesOf, BlockFrames, R
<1> QED BY <1>2, <1>3, FS_Subset, FS_CardinalityType

(* The frames that arrived are among those Reconstruct got. *)
LEMMA ArrivedIsFramed ==
  ASSUME TypeOK, PoolInv, CollectInv, resultsClosed, results = <<>>, NEW f \in Arrived
  PROVE  f \in Encoded(n, Cfg) /\ \E j \in DOMAIN frames : frames[j] = f
<1>1. PICK k \in DOMAIN images : f = images[k] /\ f \in Encoded(n, Cfg)
  BY DEF Arrived
<1>2. ParseAccepts(f)
  BY <1>1, FileFacts, EncodedIsAccepted
<1> QED BY <1>1, <1>2, AllCollected

(* A frame Reconstruct got either arrived or stands in for one that did. *)
LEMMA FrameStandsForArrived ==
  ASSUME TypeOK, CollectInv, Honest, NEW j \in DOMAIN frames
  PROVE  \E f \in Arrived : Identity(f) = Identity(frames[j])
<1>1. PICK k \in DOMAIN images : ParseAccepts(images[k]) /\ frames[j] = images[k]
  BY DEF CollectInv
<1>2. CASE images[k] \in Encoded(n, Cfg)
  BY <1>1, <1>2 DEF Arrived
<1>3. CASE images[k] \notin Encoded(n, Cfg)
  BY <1>1, <1>3 DEF Honest
<1> QED BY <1>2, <1>3

(* The metadata Reconstruct goes by is that of the file. *)
LEMMA HonestMeta ==
  ASSUME TypeOK, PoolInv, CollectInv, FillInv, Honest, pc \in {"fill", "repair", "check"}
  PROVE  Meta.TotalFrames = D /\ Meta.TotalDataBytes = n
<1>1. frames # <<>> /\ ~Rejected /\ frames \in Seq(Frames)
  BY DEF FillInv, TypeOK
<1>2. 1 \in DOMAIN frames
  BY <1>1
<1>3. PICK f \in Arrived : Identity(f) = Identity(frames[1])
  BY <1>2, FrameStandsForArrived
<1>4. f \in Encoded(n, Cfg) /\ \E j \in DOMAIN frames : frames[j] = f
  <2>1. resultsClosed /\ results = <<>>
    BY DEF PoolInv
  <2> QED BY <2>1, ArrivedIsFramed
<1>5. f.TotalFrames = D /\ f.TotalDataBytes = n
  BY <1>4, FileFacts, EncodedShape DEF D
<1> QED BY <1>1, <1>4, <1>5, FrameFits

(* The originals of a data frame and of a rescue frame. *)
LEMMA EncodedFields ==
  /\ \A i : /\ DataFrame(i, n, Cfg).FrameType = Data
            /\ DataFrame(i, n, Cfg).FrameIndex = i
            /\ DataFrame(i, n, Cfg).Payload = Right(i)
  /\ \A s, r : /\ RescueFrame(s, r, n, Cfg).FrameType = Rescue
               /\ RescueFrame(s, r, n, Cfg).FrameIndex = s
               /\ RescueFrame(s, r, n, Cfg).RescueIndex = r
               /\ RescueFrame(s, r, n, Cfg).Payload = RescuePayload(s, r, Cfg.PayloadSize)
  /\ \A i : Right(i) # NoPayload
  /\ \A s, r : RescuePayload(s, r, Cfg.PayloadSize) # NoPayload
<1>1. \A i : /\ DataFrame(i, n, Cfg).FrameType = Data
             /\ DataFrame(i, n, Cfg).FrameIndex = i
             /\ DataFrame(i, n, Cfg).Payload = Right(i)
  BY DEF DataFrame, Frame, Right
<1>2. \A s, r : /\ RescueFrame(s, r, n, Cfg).FrameType = Rescue
                /\ RescueFrame(s, r, n, Cfg).FrameIndex = s
                /\ RescueFrame(s, r, n, Cfg).RescueIndex = r
                /\ RescueFrame(s, r, n, Cfg).Payload = RescuePayload(s, r, Cfg.PayloadSize)
  BY DEF RescueFrame, Frame
<1>3. \A i : Right(i) # NoPayload
  BY DEF Right, DataPayload, NoPayload, PayloadOf, Data
<1>4. \A s, r : RescuePayload(s, r, Cfg.PayloadSize) # NoPayload
  BY DEF RescuePayload, NoPayload, PayloadOf, Rescue
<1> QED BY <1>1, <1>2, <1>3, <1>4

(* When the slots are filled, they hold the payloads of the frames that     *)
(* arrived and no other.                                                   *)
LEMMA FilledIsRight ==
  ASSUME TypeOK, PoolInv, CollectInv, FillInv, Honest, pc = "fill", cursor > Len(frames)
  PROVE  RescuesAreRight /\ DataIsRight(0)
<1>1. /\ Meta.TotalFrames = D /\ SlotsHaveRoom /\ ~Rejected
      /\ \A k \in DOMAIN frames : SlotFor(frames[k]) = frames[k].Payload
      /\ \A i \in DOMAIN data : data[i] # NoPayload =>
           \E k \in DOMAIN frames : frames[k].FrameType = Data /\ frames[k].FrameIndex = i
      /\ \A s \in DOMAIN rescues, r \in 0..(R - 1) : rescues[s][r] # NoPayload =>
           \E k \in DOMAIN frames :
             /\ frames[k].FrameType = Rescue
             /\ frames[k].FrameIndex = s /\ frames[k].RescueIndex = r
  <2>1. Meta.TotalFrames = D /\ SlotsHaveRoom /\ ~Rejected /\ SlotsAreFrames(cursor - 1)
    BY HonestMeta DEF FillInv
  <2>2. \A k \in DOMAIN frames : k <= cursor - 1
    <3>1. PICK last \in Nat : last = Len(frames) /\ DOMAIN frames = 1..last
      BY LenProperties DEF TypeOK
    <3>2. cursor \in Nat /\ cursor > last
      BY <3>1 DEF TypeOK
    <3> QED BY <3>1, <3>2
  <2> QED BY <2>1, <2>2 DEF SlotsAreFrames
<1>2. ASSUME NEW f \in Arrived PROVE f \in Encoded(n, Cfg) /\ SlotFor(f) = f.Payload
  <2>1. resultsClosed /\ results = <<>>
    BY DEF PoolInv
  <2> QED BY <1>1, <2>1, ArrivedIsFramed
<1>3. ASSUME NEW i \in DOMAIN data, data[i] # NoPayload PROVE HasArrived(i)
  <2>1. PICK k \in DOMAIN frames : frames[k].FrameType = Data /\ frames[k].FrameIndex = i
    BY <1>1, <1>3
  <2>2. PICK f \in Arrived : Identity(f) = Identity(frames[k])
    BY FrameStandsForArrived
  <2>3. f.FrameType = Data /\ f.FrameIndex = i /\ f \in Encoded(n, Cfg)
    BY <1>2, <2>1, <2>2 DEF Identity
  <2>4. f = DataFrame(i, n, Cfg)
    BY <2>3, FileFacts, EncodedByIdentity DEF Data, Rescue
  <2> QED BY <2>2, <2>4 DEF HasArrived
<1>4. ASSUME NEW s \in DOMAIN rescues, NEW r \in 0..(R - 1), rescues[s][r] # NoPayload
      PROVE  RescueArrived(s, r)
  <2>1. PICK k \in DOMAIN frames : /\ frames[k].FrameType = Rescue
                                   /\ frames[k].FrameIndex = s /\ frames[k].RescueIndex = r
    BY <1>1, <1>4
  <2>2. PICK f \in Arrived : Identity(f) = Identity(frames[k])
    BY FrameStandsForArrived
  <2>3. /\ f.FrameType = Rescue /\ f.FrameIndex = s /\ f.RescueIndex = r
        /\ f \in Encoded(n, Cfg)
    BY <1>2, <2>1, <2>2 DEF Identity
  <2>4. f = RescueFrame(s, r, n, Cfg)
    BY <2>3, FileFacts, EncodedByIdentity DEF Data, Rescue
  <2> QED BY <2>2, <2>4 DEF RescueArrived
<1>5. ASSUME NEW i, HasArrived(i) PROVE data[i] = Right(i)
  BY <1>2, <1>5, EncodedFields DEF HasArrived, SlotFor
<1>6. ASSUME NEW s, NEW r, RescueArrived(s, r)
      PROVE  rescues[s][r] = RescuePayload(s, r, Cfg.PayloadSize)
  BY <1>2, <1>6, EncodedFields DEF RescueArrived, SlotFor, Data, Rescue
<1>7. RescuesAreRight
  BY <1>1, <1>4, <1>6 DEF RescuesAreRight, SlotsHaveRoom
<1>8. DataIsRight(0)
  <2>1. DOMAIN data = 0..(D - 1) /\ data = [i \in 0..(D - 1) |-> data[i]]
    BY <1>1 DEF SlotsHaveRoom
  <2>2. \A i \in 0..(D - 1) : ~(i < 0)
    BY FileFacts
  <2> QED BY <1>3, <1>5, <2>1, <2>2 DEF DataIsRight
<1> QED BY <1>7, <1>8

(* What depends on the file and the images only. *)
LEMMA SameImages ==
  ASSUME UNCHANGED <<n, images>>
  PROVE  /\ Arrived' = Arrived /\ D' = D /\ Honest' = Honest
         /\ Original(n)' = Original(n)
         /\ Recoverable(Arrived, n, Cfg)' = Recoverable(Arrived, n, Cfg)
         /\ \A i : HasArrived(i)' = HasArrived(i) /\ Right(i)' = Right(i)
         /\ \A s, r : RescueArrived(s, r)' = RescueArrived(s, r)
         /\ \A s : Solvable(s)' = Solvable(s)
<1>1. Arrived' = Arrived
  BY DEF Arrived
<1>2. D' = D /\ Original(n)' = Original(n)
  BY DEF D, Original
<1>3. Recoverable(Arrived, n, Cfg)' = Recoverable(Arrived, n, Cfg)
  BY <1>1
<1>4. Honest' = Honest
  BY <1>1 DEF Honest
<1>5. \A i : HasArrived(i)' = HasArrived(i) /\ Right(i)' = Right(i)
  BY <1>1 DEF HasArrived, Right
<1>6. \A s, r : RescueArrived(s, r)' = RescueArrived(s, r)
  BY <1>1 DEF RescueArrived
<1>7. \A s : Solvable(s)' = Solvable(s)
  BY <1>1 DEF Solvable
<1> QED BY <1>1, <1>2, <1>3, <1>4, <1>5, <1>6, <1>7

(* A block is repaired exactly when enough of it arrived, and then rightly. *)
LEMMA RepairKeepsRight ==
  ASSUME TypeOK, PoolInv, CollectInv, FillInv, RepairInv, Honest, RepairBlock
  PROVE  /\ RescuesAreRight'
         /\ cursor' <= BlockCount(D, Cfg)
         /\ DataIsRight(cursor * Cfg.DataFramesPerBlock)'
<1>1. PICK B \in Nat \ {0} : B = Cfg.DataFramesPerBlock
  BY CfgFacts
<1>2. PICK c \in Nat : c = cursor
  BY DEF TypeOK
<1>3. PICK s \in Nat : s = c * B
  OBVIOUS
<1>4. PICK total \in Nat \ {0} : total = D
  BY FileFacts
<1>5. /\ pc = "repair" /\ UNCHANGED <<n, images, rescues>> /\ cursor' = c + 1
      /\ Meta.TotalFrames = total /\ Meta.TotalDataBytes = n
      /\ c < BlockCount(total, Cfg)
  <2>1. pc = "repair" /\ UNCHANGED <<n, images, rescues>> /\ cursor' = c + 1
    BY <1>2 DEF RepairBlock, transport
  <2>2. Meta.TotalFrames = total /\ Meta.TotalDataBytes = n
    BY <1>4, <2>1, HonestMeta
  <2> QED BY <1>2, <2>1, <2>2 DEF RepairBlock
<1>6. BlockStart = s /\ Block = BlockFrames(s, total, Cfg)
  BY <1>1, <1>2, <1>3, <1>5 DEF BlockStart, Block
<1>7. /\ RescuesAreRight /\ data = [i \in 0..(total - 1) |-> data[i]]
      /\ \A i \in 0..(total - 1) :
           data[i] = IF HasArrived(i) \/ (i < s /\ Solvable(BlockStartOf(i, Cfg)))
                     THEN Right(i) ELSE NoPayload
  BY <1>1, <1>2, <1>3, <1>4, <1>5 DEF RepairInv, DataIsRight
<1>8. s \in BlockStarts(total, Cfg)
  <2>1. BlockCount(total, Cfg) \in Nat
    BY BlockCountFacts
  <2>2. c \in 0..(BlockCount(total, Cfg) - 1)
    BY <1>5, <2>1
  <2> QED BY <1>1, <1>3, <2>2 DEF BlockStarts
<1>9. ASSUME NEW i \in Block
      PROVE  i \in 0..(total - 1) /\ s <= i /\ i < s + B /\ BlockStartOf(i, Cfg) = s
  <2>1. i \in 0..(total - 1) /\ s <= i /\ i < s + B
    BY <1>1, <1>6, <1>9 DEF BlockFrames
  <2>2. BlockStartOf(i, Cfg) = s
    BY <1>1, <1>3, <1>6, <1>9, <2>1, BlockOfFrame
  <2> QED BY <2>1, <2>2
<1>10. ASSUME NEW i \in Block PROVE data[i] = IF HasArrived(i) THEN Right(i) ELSE NoPayload
  <2>1. i \in 0..(total - 1) /\ ~(i < s)
    BY <1>9
  <2> QED BY <1>7, <2>1
<1>11. Missing = MissingOf(s, Arrived, n, Cfg)
  <2>1. MissingOf(s, Arrived, n, Cfg) = {i \in Block : ~HasArrived(i)}
    BY <1>4, <1>6 DEF MissingOf, HasArrived, D
  <2>2. Missing = {i \in Block : ~HasArrived(i)}
    BY <1>10, EncodedFields DEF Missing
  <2> QED BY <2>1, <2>2
<1>12. AvailableRescues = RescuesOf(s, Arrived, n, Cfg)
  <2>1. \A r \in 0..(R - 1) :
          rescues[s][r] = IF RescueArrived(s, r) THEN RescuePayload(s, r, Cfg.PayloadSize)
                                                 ELSE NoPayload
    BY <1>4, <1>7, <1>8 DEF RescuesAreRight
  <2>2. AvailableRescues = {r \in 0..(R - 1) : RescueArrived(s, r)}
    BY <1>6, <2>1, EncodedFields DEF AvailableRescues
  <2> QED BY <2>2 DEF RescuesOf, RescueArrived, R
<1>13. Repairable = Solvable(s)
  BY <1>11, <1>12 DEF Repairable, Solvable
<1>14. SourcesIntact
  <2>1. \A i \in Block \ Missing : data[i] = DataPayload(i, SliceSize(i, n, Cfg))
    BY <1>10 DEF Missing, Right
  <2>2. \A r \in AvailableRescues :
          rescues[BlockStart][r] = RescuePayload(BlockStart, r, Cfg.PayloadSize)
    BY <1>4, <1>6, <1>7, <1>8 DEF RescuesAreRight, AvailableRescues
  <2> QED BY <2>1, <2>2 DEF SourcesIntact
<1>15. ASSUME NEW i \in 0..(total - 1) PROVE RecoveredPayload(i) = Right(i)
  <2>1. i \in Nat /\ n \in Nat
    BY FileFacts
  <2> QED BY <1>5, <1>14, <2>1, SliceSizeIsDataSize DEF RecoveredPayload, Right
<1>16. /\ data' = [i \in 0..(total - 1) |-> data'[i]]
       /\ \A i \in 0..(total - 1) :
            data'[i] = IF Solvable(s) /\ i \in Missing THEN Right(i) ELSE data[i]
  <2>1. DOMAIN data = 0..(total - 1)
    BY <1>7
  <2>2. CASE Solvable(s)
    <3>1. data' = [i \in 0..(total - 1) |-> IF i \in Missing THEN RecoveredPayload(i) ELSE data[i]]
      BY <1>13, <2>1, <2>2 DEF RepairBlock
    <3> QED BY <1>15, <2>2, <3>1
  <2>3. CASE ~Solvable(s)
    <3>1. data' = data
      BY <1>13, <2>3 DEF RepairBlock
    <3> QED BY <1>7, <2>3, <3>1
  <2> QED BY <2>2, <2>3
<1>17. ASSUME NEW i \in 0..(total - 1)
       PROVE  data'[i] = IF HasArrived(i) \/ (i < s + B /\ Solvable(BlockStartOf(i, Cfg)))
                         THEN Right(i) ELSE NoPayload
  <2>1. CASE i < s
    <3>1. i \notin Missing /\ i < s + B
      BY <1>9, <2>1 DEF Missing
    <3> QED BY <1>7, <1>16, <2>1, <3>1
  <2>2. CASE s <= i /\ i < s + B
    <3>1. i \in Block
      BY <1>1, <1>6, <2>2 DEF BlockFrames
    <3>2. /\ BlockStartOf(i, Cfg) = s
          /\ data[i] = IF HasArrived(i) THEN Right(i) ELSE NoPayload
          /\ i \in Missing <=> ~HasArrived(i)
      BY <1>9, <1>10, <3>1, EncodedFields DEF Missing
    <3> QED BY <1>16, <2>2, <3>2
  <2>3. CASE ~(i < s) /\ ~(i < s + B)
    <3>1. i \notin Missing
      BY <1>9, <2>3 DEF Missing
    <3> QED BY <1>7, <1>16, <2>3, <3>1
  <2> QED BY <2>1, <2>2, <2>3
<1>18. cursor' * Cfg.DataFramesPerBlock = s + B
  BY <1>1, <1>3, <1>5
<1>19. DataIsRight(cursor * Cfg.DataFramesPerBlock)'
  BY <1>4, <1>5, <1>16, <1>17, <1>18, SameImages DEF DataIsRight
<1>20. RescuesAreRight'
  BY <1>5, <1>7, SameImages DEF RescuesAreRight
<1>21. cursor' <= BlockCount(D, Cfg)
  BY <1>4, <1>5, BlockCountFacts
<1> QED BY <1>19, <1>20, <1>21

(* Nothing is left to repair, or nothing to repair it with. *)
LEMMA StartKeepsRight ==
  ASSUME TypeOK, PoolInv, CollectInv, FillInv, Honest, StartRepair
  PROVE  /\ pc' = "repair" => /\ RescuesAreRight'
                              /\ cursor' <= BlockCount(D, Cfg)
                              /\ DataIsRight(cursor * Cfg.DataFramesPerBlock)'
         /\ pc' = "check" => DataIsRight(D)'
<1>1. /\ UNCHANGED <<n, images, data, rescues>> /\ cursor' = 0 /\ pc' \in {"repair", "check"}
      /\ pc' = "check" => NothingToRepair \/ NoRescueSeen
  BY DEF StartRepair, transport, slots
<1>2. RescuesAreRight /\ DataIsRight(0)
  <2>1. pc = "fill" /\ cursor > Len(frames)
    BY DEF StartRepair
  <2> QED BY <2>1, FilledIsRight
<1>3. RescuesAreRight'
  BY <1>1, <1>2, SameImages DEF RescuesAreRight
<1>4. PICK total \in Nat \ {0} : total = D
  BY FileFacts
<1>5. /\ data = [i \in 0..(total - 1) |-> data[i]]
      /\ \A i \in 0..(total - 1) : data[i] = IF HasArrived(i) THEN Right(i) ELSE NoPayload
  <2>1. \A i \in 0..(total - 1) : ~(i < 0)
    OBVIOUS
  <2> QED BY <1>2, <1>4, <2>1 DEF DataIsRight
<1>6. DataIsRight(cursor * Cfg.DataFramesPerBlock)'
  <2>1. cursor' * Cfg.DataFramesPerBlock = 0
    BY <1>1, FileFacts
  <2> QED BY <1>1, <1>2, <2>1, SameImages DEF DataIsRight
<1>7. cursor' <= BlockCount(D, Cfg)
  BY <1>1, FileFacts
<1>8. ASSUME NothingToRepair \/ NoRescueSeen, NEW i \in 0..(total - 1),
             Solvable(BlockStartOf(i, Cfg))
      PROVE  HasArrived(i)
  <2>1. CASE NothingToRepair
    BY <1>5, <2>1 DEF NothingToRepair
  <2>2. CASE NoRescueSeen
    <3> DEFINE s == BlockStartOf(i, Cfg)
    <3>1. s \in BlockStarts(total, Cfg) /\ i \in BlockFrames(s, total, Cfg)
      BY BlockOfFrame
    <3> HIDE DEF s
    <3>2. RescuesOf(s, Arrived, n, Cfg) = {}
      <4>1. \A r \in 0..(R - 1) : ~RescueArrived(s, r)
        BY <1>2, <1>4, <2>2, <3>1, EncodedFields DEF RescuesAreRight, NoRescueSeen
      <4> QED BY <4>1 DEF RescuesOf, RescueArrived, R
    <3>3. Cardinality(MissingOf(s, Arrived, n, Cfg)) <= 0
      BY <1>8, <3>2, FS_EmptySet DEF Solvable, s
    <3>4. MissingOf(s, Arrived, n, Cfg) = {}
      BY <3>3, FileFacts, BlockIsFinite, FS_EmptySet
    <3>5. i \in BlockFrames(s, DataFrames(n, Cfg), Cfg)
      BY <1>4, <3>1 DEF D
    <3> QED BY <3>4, <3>5 DEF MissingOf, HasArrived
  <2> QED BY <1>8, <2>1, <2>2
<1>9. ASSUME pc' = "check" PROVE DataIsRight(D)'
  <2>1. \A i \in 0..(total - 1) :
          data[i] = IF HasArrived(i) \/ (i < total /\ Solvable(BlockStartOf(i, Cfg)))
                    THEN Right(i) ELSE NoPayload
    BY <1>1, <1>5, <1>8, <1>9
  <2>2. DataIsRight(D)
    BY <1>4, <1>5, <2>1 DEF DataIsRight
  <2> QED BY <1>1, <2>2, SameImages DEF DataIsRight
<1> QED BY <1>1, <1>3, <1>6, <1>7, <1>9

(* What is copied to the output is the file, and the file was recoverable. *)
LEMMA ReassembleKeepsRight ==
  ASSUME TypeOK, RepairInv, Honest, Reassemble
  PROVE  output' = Original(n) /\ Recoverable(Arrived, n, Cfg)
<1>1. PICK total \in Nat \ {0} : total = D
  BY FileFacts
<1>2. /\ output' = data /\ data = [i \in 0..(total - 1) |-> data[i]]
      /\ \A i \in 0..(total - 1) :
           data[i] = IF HasArrived(i) \/ (i < total /\ Solvable(BlockStartOf(i, Cfg)))
                     THEN Right(i) ELSE NoPayload
      /\ \A i \in DOMAIN data : data[i] # NoPayload
  BY <1>1 DEF Reassemble, Complete, RepairInv, DataIsRight
<1>3. \A i \in 0..(total - 1) :
        data[i] = Right(i) /\ (HasArrived(i) \/ Solvable(BlockStartOf(i, Cfg)))
  <2>1. DOMAIN data = 0..(total - 1)
    BY <1>2
  <2> QED BY <1>2, <2>1
<1>4. output' = Original(n)
  BY <1>1, <1>2, <1>3 DEF Original, Right, D
<1>5. ASSUME NEW s \in BlockStarts(total, Cfg) PROVE Solvable(s)
  <2>1. PICK b \in Nat : s = b * Cfg.DataFramesPerBlock
    <3>1. BlockCount(total, Cfg) \in Nat
      BY BlockCountFacts
    <3> QED BY <1>5, <3>1 DEF BlockStarts
  <2>2. CASE \E i \in BlockFrames(s, total, Cfg) : ~HasArrived(i)
    <3>1. PICK i \in BlockFrames(s, total, Cfg) : ~HasArrived(i)
      BY <2>2
    <3>2. i \in 0..(total - 1)
      BY DEF BlockFrames
    <3>3. BlockStartOf(i, Cfg) = s
      BY <2>1, <3>2, BlockOfFrame
    <3> QED BY <1>3, <3>1, <3>2, <3>3
  <2>3. CASE \A i \in BlockFrames(s, total, Cfg) : HasArrived(i)
    <3>1. MissingOf(s, Arrived, n, Cfg) = {}
      BY <1>1, <2>3 DEF MissingOf, HasArrived, D
    <3>2. Cardinality(MissingOf(s, Arrived, n, Cfg)) = 0
      BY <3>1, FS_EmptySet
    <3>3. Cardinality(RescuesOf(s, Arrived, n, Cfg)) \in Nat
      BY FileFacts, BlockIsFinite
    <3> QED BY <3>2, <3>3 DEF Solvable
  <2> QED BY <2>2, <2>3
<1>6. Recoverable(Arrived, n, Cfg)
  BY <1>1, <1>5 DEF Recoverable, Solvable, D
<1> QED BY <1>4, <1>6

LEMMA SameRepair ==
  ASSUME RepairInv, UNCHANGED <<n, images, pc, cursor, data, rescues, output>>
  PROVE  RepairInv'
<1>1. RescuesAreRight => RescuesAreRight'
  BY SameImages DEF RescuesAreRight
<1>2. DataIsRight(D) => DataIsRight(D)'
  BY SameImages DEF DataIsRight
<1>3. DataIsRight(cursor * Cfg.DataFramesPerBlock) => DataIsRight(cursor * Cfg.DataFramesPerBlock)'
  BY SameImages DEF DataIsRight
<1>4. /\ Honest' = Honest /\ D' = D /\ Original(n)' = Original(n)
      /\ Recoverable(Arrived, n, Cfg)' = Recoverable(Arrived, n, Cfg)
  BY SameImages
<1> QED BY <1>1, <1>2, <1>3, <1>4 DEF RepairInv

(* Every step keeps the repair right. *)
LEMMA NextRepairInv ==
  ASSUME TypeOK, PoolInv, CollectInv, FillInv, RepairInv, [Next]_vars
  PROVE  RepairInv'
<1>1. CASE Transport \/ Feed \/ CloseResults \/ Drain \/ (\E w \in Workers : Work(w))
  <2>1. \/ pc' \in {"transport", "feed", "collect", "scan", "failed"}
        \/ UNCHANGED <<n, images, pc, cursor, data, rescues, output>>
    BY <1>1 DEF Transport, Show, Lose, Corrupt, Repeat, Damage, Received, Transmit,
                Feed, StartDecode, PushJob, CloseJobs, CloseResults, Drain, Collect,
                StopCollecting, Work, TakeJob, SendResult, ExitWorker, transport, pool, slots
  <2>2. CASE pc' \in {"transport", "feed", "collect", "scan", "failed"}
    BY <2>2 DEF RepairInv
  <2>3. CASE UNCHANGED <<n, images, pc, cursor, data, rescues, output>>
    BY <2>3, SameRepair
  <2> QED BY <2>1, <2>2, <2>3
<1>2. CASE Terminated \/ UNCHANGED vars
  <2>1. UNCHANGED <<n, images, pc, cursor, data, rescues, output>>
    BY <1>2 DEF Terminated, vars
  <2> QED BY <2>1, SameRepair
<1>3. CASE Reconstruct
  <2>1. UNCHANGED <<n, images>>
    BY <1>3 DEF Reconstruct, Reject, FreshSlots, Fill, Conflict, StartRepair,
                RepairBlock, RepairDone, Reassemble, GiveUp, transport
  <2>2. Honest' = Honest /\ D' = D /\ Original(n)' = Original(n)
        /\ Recoverable(Arrived, n, Cfg)' = Recoverable(Arrived, n, Cfg)
    BY <2>1, SameImages
  <2> SUFFICES ASSUME Honest
               PROVE  /\ pc' = "repair" => /\ RescuesAreRight'
                                           /\ cursor' <= BlockCount(D, Cfg)
                                           /\ DataIsRight(cursor * Cfg.DataFramesPerBlock)'
                      /\ pc' = "check" => DataIsRight(D)'
                      /\ pc' = "done" => output' = Original(n) /\ Recoverable(Arrived, n, Cfg)
    BY <2>2 DEF RepairInv
  <2>3. CASE Reject \/ FreshSlots \/ Fill \/ Conflict \/ GiveUp
    BY <2>3 DEF Reject, FreshSlots, Fill, Conflict, GiveUp
  <2>4. CASE StartRepair
    <3>1. pc' # "done"
      BY <2>4 DEF StartRepair
    <3> QED BY <2>4, <3>1, StartKeepsRight
  <2>5. CASE RepairBlock
    <3>1. pc' = "repair"
      BY <2>5 DEF RepairBlock
    <3> QED BY <2>5, <3>1, RepairKeepsRight
  <2>6. CASE RepairDone
    <3>1. /\ pc = "repair" /\ pc' = "check" /\ UNCHANGED <<data, rescues>>
          /\ cursor = BlockCount(Meta.TotalFrames, Cfg)
      BY <2>6 DEF RepairDone, slots
    <3>2. PICK c \in Nat, total \in Nat \ {0} :
            c = cursor /\ total = D /\ c = BlockCount(total, Cfg)
      BY <3>1, HonestMeta, FileFacts DEF TypeOK
    <3>3. DataIsRight(c * Cfg.DataFramesPerBlock)
      BY <3>1, <3>2 DEF RepairInv
    <3>4. ~(c * Cfg.DataFramesPerBlock < total)
      BY <3>2, BlockCountFacts
    <3>5. PICK seen \in Nat : seen = c * Cfg.DataFramesPerBlock
      BY <3>2, FileFacts
    <3>6. \A i \in 0..(total - 1) : i < seen /\ i < total
      BY <3>4, <3>5
    <3>7. DataIsRight(D)
      BY <3>2, <3>3, <3>5, <3>6 DEF DataIsRight
    <3>8. DataIsRight(D)'
      BY <2>1, <3>1, <3>7, SameImages DEF DataIsRight
    <3> QED BY <3>1, <3>8
  <2>7. CASE Reassemble
    <3>1. pc' = "done"
      BY <2>7 DEF Reassemble
    <3> QED BY <2>7, <3>1, ReassembleKeepsRight
  <2> QED BY <1>3, <2>3, <2>4, <2>5, <2>6, <2>7 DEF Reconstruct
<1> QED BY <1>1, <1>2, <1>3 DEF Next

(* The invariant of the decode as a whole. *)
DecodeInv == TypeOK /\ PoolInv /\ CollectInv /\ FillInv /\ RepairInv

LEMMA DecodeCorrect == Spec => []DecodeInv
<1>1. Init => CollectInv /\ FillInv /\ RepairInv
  <2> SUFFICES ASSUME Init PROVE CollectInv /\ FillInv /\ RepairInv
    OBVIOUS
  <2>1. images = <<>> /\ frames = <<>> /\ pc = "transport"
    BY DEF Init
  <2>2. DOMAIN images = {} /\ DOMAIN frames = {}
    BY <2>1
  <2> QED BY <2>1, <2>2 DEF CollectInv, FillInv, RepairInv
<1>2. TypeOK /\ PoolInv /\ CollectInv /\ FillInv /\ RepairInv /\ [Next]_vars
        => CollectInv' /\ FillInv' /\ RepairInv'
  BY NextCollectInv, NextFillInv, NextRepairInv
<1> QED BY <1>1, <1>2, TypeCorrect, PoolCorrect, PTL DEF Spec, DecodeInv

(* A wrong file is written only if a frame with a damaged header took a slot
   whose own frame did not arrive. *)
THEOREM WrongFileNeedsVacant == Spec => []WrongFileNeedsVacantSlot
<1>1. DecodeInv => WrongFileNeedsVacantSlot
  BY DEF DecodeInv, RepairInv, Honest, WrongFileNeedsVacantSlot
<1> QED BY <1>1, DecodeCorrect, PTL

-----------------------------------------------------------------------------
(* A decode fails only when it must *)

(* As many things as fit into a set can be told apart by its elements. *)
LEMMA SmallerFits ==
  ASSUME NEW S, NEW T, IsFiniteSet(S), IsFiniteSet(T), Cardinality(S) <= Cardinality(T)
  PROVE  ExistsInjection(S, T)
<1>1. PICK s \in Nat : s = Cardinality(S) /\ ExistsBijection(1..s, S)
  BY FS_CardinalityType
<1>2. PICK t \in Nat : t = Cardinality(T) /\ ExistsBijection(1..t, T)
  BY FS_CardinalityType
<1>3. ExistsInjection(1..s, 1..t)
  BY <1>1, <1>2, Fun_NatInjLeq
<1>4. ExistsBijection(S, 1..s)
  BY <1>1, Fun_ExistsBijSymmetric
<1>5. ExistsInjection(S, 1..s) /\ ExistsInjection(1..t, T)
  BY <1>2, <1>4 DEF ExistsBijection, ExistsInjection, Bijection
<1> QED BY <1>3, <1>5, Fun_ExistsInjTransitive

(* No file can be recovered from fewer frames than it has data frames: each *)
(* missing frame needs a rescue frame of its own.                          *)
LEMMA RecoverableNeedsFrames ==
  ASSUME NEW len \in InputSizes, NEW A, IsFiniteSet(A), Recoverable(A, len, Cfg)
  PROVE  DataFrames(len, Cfg) <= Cardinality(A)
<1>1. PICK total \in Nat \ {0} : total = DataFrames(len, Cfg)
  BY DataFramesPositive
<1> DEFINE Starts == BlockStarts(total, Cfg)
           M(s) == MissingOf(s, A, len, Cfg)
           Q(s) == RescuesOf(s, A, len, Cfg)
           Spare(s) == CHOOSE g : g \in Injection(M(s), Q(s))
           S(i) == BlockStartOf(i, Cfg)
           h == [i \in 0..(total - 1) |->
                   IF DataFrame(i, len, Cfg) \in A THEN DataFrame(i, len, Cfg)
                   ELSE RescueFrame(S(i), Spare(S(i))[i], len, Cfg)]
<1>2. ASSUME NEW s \in Starts PROVE Spare(s) \in Injection(M(s), Q(s))
  <2>1. IsFiniteSet(M(s)) /\ IsFiniteSet(Q(s))
    BY BlockIsFinite
  <2>2. Cardinality(M(s)) <= Cardinality(Q(s))
    BY <1>1, <1>2 DEF Recoverable
  <2> HIDE DEF M, Q
  <2>3. ExistsInjection(M(s), Q(s))
    BY <2>1, <2>2, SmallerFits
  <2> QED BY <2>3 DEF ExistsInjection
<1>3. ASSUME NEW i \in 0..(total - 1), DataFrame(i, len, Cfg) \notin A
      PROVE  /\ S(i) \in Starts /\ i \in M(S(i))
             /\ Spare(S(i))[i] \in Q(S(i))
  <2>1. S(i) \in Starts /\ i \in BlockFrames(S(i), total, Cfg)
    BY BlockOfFrame
  <2> HIDE DEF S
  <2>2. i \in M(S(i))
    BY <1>1, <1>3, <2>1 DEF MissingOf
  <2>3. Spare(S(i)) \in Injection(M(S(i)), Q(S(i)))
    BY <1>2, <2>1
  <2> HIDE DEF Spare, M, Q
  <2>4. Spare(S(i))[i] \in Q(S(i))
    BY <2>2, <2>3 DEF Injection
  <2> QED BY <2>1, <2>2, <2>4
<1>4. ASSUME NEW i \in 0..(total - 1) PROVE h[i] \in A
  <2>1. CASE DataFrame(i, len, Cfg) \in A
    BY <2>1
  <2>2. CASE DataFrame(i, len, Cfg) \notin A
    <3>1. Spare(S(i))[i] \in Q(S(i))
      BY <1>3, <2>2
    <3> HIDE DEF Spare, S
    <3>2. RescueFrame(S(i), Spare(S(i))[i], len, Cfg) \in A
      BY <3>1 DEF RescuesOf
    <3> QED BY <2>2, <3>2
  <2> QED BY <2>1, <2>2
<1>5. ASSUME NEW i \in 0..(total - 1), NEW j \in 0..(total - 1), h[i] = h[j]
      PROVE  i = j
  <2>1. /\ \A k : /\ DataFrame(k, len, Cfg).FrameType = Data
                  /\ DataFrame(k, len, Cfg).FrameIndex = k
        /\ \A s, r : /\ RescueFrame(s, r, len, Cfg).FrameType = Rescue
                     /\ RescueFrame(s, r, len, Cfg).FrameIndex = s
                     /\ RescueFrame(s, r, len, Cfg).RescueIndex = r
        /\ Data # Rescue
    BY DEF DataFrame, RescueFrame, Frame, Data, Rescue
  <2>2. h[i] = IF DataFrame(i, len, Cfg) \in A THEN DataFrame(i, len, Cfg)
               ELSE RescueFrame(S(i), Spare(S(i))[i], len, Cfg)
    OBVIOUS
  <2>3. h[j] = IF DataFrame(j, len, Cfg) \in A THEN DataFrame(j, len, Cfg)
               ELSE RescueFrame(S(j), Spare(S(j))[j], len, Cfg)
    OBVIOUS
  <2> HIDE DEF h
  <2> HIDE DEF Spare, S
  <2>4. PICK di : di = DataFrame(i, len, Cfg) /\ di.FrameType = Data /\ di.FrameIndex = i
    BY <2>1
  <2>5. PICK dj : dj = DataFrame(j, len, Cfg) /\ dj.FrameType = Data /\ dj.FrameIndex = j
    BY <2>1
  <2>6. PICK ri : /\ ri = RescueFrame(S(i), Spare(S(i))[i], len, Cfg) /\ ri.FrameType = Rescue
                  /\ ri.FrameIndex = S(i) /\ ri.RescueIndex = Spare(S(i))[i]
    BY <2>1
  <2>7. PICK rj : /\ rj = RescueFrame(S(j), Spare(S(j))[j], len, Cfg) /\ rj.FrameType = Rescue
                  /\ rj.FrameIndex = S(j) /\ rj.RescueIndex = Spare(S(j))[j]
    BY <2>1
  <2>8. /\ h[i] = IF di \in A THEN di ELSE ri
        /\ h[j] = IF dj \in A THEN dj ELSE rj
    <3>1. h[i] = IF di \in A THEN di ELSE ri
      BY <2>2, <2>4, <2>6
    <3>2. h[j] = IF dj \in A THEN dj ELSE rj
      BY <2>3, <2>5, <2>7
    <3> QED BY <3>1, <3>2
  <2>9. CASE di \in A
    BY <1>5, <2>1, <2>4, <2>5, <2>7, <2>8, <2>9
  <2>10. CASE di \notin A
    <3>1. dj \notin A
      BY <1>5, <2>1, <2>5, <2>6, <2>8, <2>10
    <3>2. S(i) = S(j) /\ Spare(S(i))[i] = Spare(S(j))[j]
      BY <1>5, <2>6, <2>7, <2>8, <2>10, <3>1
    <3>3. S(i) \in Starts /\ i \in M(S(i)) /\ j \in M(S(j))
      BY <1>3, <2>4, <2>5, <2>10, <3>1
    <3>4. Spare(S(i)) \in Injection(M(S(i)), Q(S(i)))
      BY <1>2, <3>3
    <3> HIDE DEF M, Q
    <3>5. \A a, b \in M(S(i)) : Spare(S(i))[a] = Spare(S(i))[b] => a = b
      BY <3>4 DEF Injection, IsInjective
    <3> QED BY <3>2, <3>3, <3>5
  <2> QED BY <2>9, <2>10
<1>6. h \in Injection(0..(total - 1), A)
  <2>1. h \in [0..(total - 1) -> A]
    <3> HIDE DEF Spare, S
    <3>1. h = [i \in 0..(total - 1) |-> h[i]]
      OBVIOUS
    <3> HIDE DEF h
    <3> QED BY <1>4, <3>1
  <2> HIDE DEF h
  <2> QED BY <1>5, <2>1, Fun_IsInj
<1> HIDE DEF h
<1>7. Cardinality(0..(total - 1)) <= Cardinality(A)
  BY <1>6, FS_Injection
<1>8. Cardinality(0..(total - 1)) = total
  <2>1. 0 \in Int /\ total - 1 \in Int
    OBVIOUS
  <2> QED BY <2>1, FS_Interval
<1> QED BY <1>1, <1>7, <1>8

(* The frames that arrived are no more than the frames Reconstruct got. *)
LEMMA ArrivedIsCounted ==
  ASSUME TypeOK, PoolInv, CollectInv, resultsClosed, results = <<>>
  PROVE  IsFiniteSet(Arrived) /\ Cardinality(Arrived) \in Nat /\ Cardinality(Arrived) <= Len(frames)
<1> DEFINE All == {frames[k] : k \in 1..Len(frames)}
<1>1. frames \in Seq(Frames) /\ Len(frames) \in Nat
  BY DEF TypeOK
<1>2. frames \in Surjection(1..Len(frames), All)
  BY <1>1 DEF Surjection
<1>3. IsFiniteSet(1..Len(frames)) /\ Cardinality(1..Len(frames)) = Len(frames)
  <2>1. PICK last \in Nat : last = Len(frames)
    BY <1>1
  <2>2. IsFiniteSet(1..last) /\ Cardinality(1..last) = IF 1 > last THEN 0 ELSE last - 1 + 1
    BY FS_Interval
  <2> QED BY <2>1, <2>2
<1>4. Arrived \subseteq All
  BY <1>1, ArrivedIsFramed
<1> HIDE DEF All
<1>5. IsFiniteSet(All) /\ Cardinality(All) <= Len(frames)
  BY <1>2, <1>3, FS_Surjection
<1>6. /\ IsFiniteSet(Arrived) /\ Cardinality(Arrived) \in Nat /\ Cardinality(All) \in Nat
      /\ Cardinality(Arrived) <= Cardinality(All)
  BY <1>4, <1>5, FS_Subset, FS_CardinalityType
<1> QED BY <1>1, <1>5, <1>6

(* Without damaged headers a decode that fails has not got enough. *)
FailInv == faults["damaged"] = 0 /\ pc = "failed" => ~Recoverable(Arrived, n, Cfg)

LEMMA Indexes ==
  ASSUME NEW k \in Nat
  PROVE  IsFiniteSet(0..(k - 1)) /\ Cardinality(0..(k - 1)) = k
<1>1. k - 1 \in Int /\ (IF 0 > k - 1 THEN 0 ELSE (k - 1) - 0 + 1) = k
  OBVIOUS
<1>2. /\ IsFiniteSet(0..(k - 1))
      /\ Cardinality(0..(k - 1)) = IF 0 > k - 1 THEN 0 ELSE (k - 1) - 0 + 1
  BY <1>1, FS_Interval
<1> QED BY <1>1, <1>2

(* Encode makes no more frames than the plan allows. *)
LEMMA EncodedIsBounded ==
  ASSUME NEW len \in InputSizes
  PROVE  /\ IsFiniteSet(Encoded(len, Cfg))
         /\ Cardinality(Encoded(len, Cfg)) \in Nat
         /\ Cardinality(Encoded(len, Cfg)) <= MaxFrameCount
<1> DEFINE total == DataFrames(len, Cfg)
           blocks == BlockCount(total, Cfg)
           Sources == {DataFrame(i, len, Cfg) : i \in 0..(total - 1)}
           Starts == BlockStarts(total, Cfg)
           Pairs == Starts \X (0..(R - 1))
           Parities == {RescueFrame(s, r, len, Cfg) : s \in Starts, r \in 0..(R - 1)}
<1>1. /\ total \in Nat \ {0} /\ blocks \in Nat \ {0} /\ R \in Nat \ {0}
      /\ total + blocks * R <= MaxFrameCount /\ MaxFrameCount \in Nat
  <2>1. total \in Nat \ {0}
    BY DataFramesPositive
  <2>2. PlanAccepts(len, Cfg) /\ R > 0 /\ R \in Nat
    BY CfgFacts, DecodeAssumption DEF R
  <2>3. total + blocks * R <= MaxFrameCount
    BY <2>2 DEF PlanAccepts, RescueFrames, R
  <2> HIDE DEF total
  <2>4. BlockCount(total, Cfg) \in Nat \ {0}
    BY <2>1, BlockCountFacts
  <2> QED BY <2>1, <2>2, <2>3, <2>4, LimitsAssumption
<1>2. Encoded(len, Cfg) = Sources \cup Parities
  BY DEF Encoded, R
<1>3. /\ IsFiniteSet(Sources) /\ Cardinality(Sources) \in Nat
      /\ Cardinality(Sources) <= total
  <2> DEFINE at == [i \in 0..(total - 1) |-> DataFrame(i, len, Cfg)]
  <2> HIDE DEF total
  <2>1. at \in Surjection(0..(total - 1), Sources)
    BY DEF Surjection
  <2>2. IsFiniteSet(0..(total - 1)) /\ Cardinality(0..(total - 1)) = total
    BY <1>1, Indexes
  <2> HIDE DEF at, Sources
  <2> QED BY <2>1, <2>2, FS_Surjection, FS_CardinalityType
<1>4. /\ IsFiniteSet(Starts) /\ Cardinality(Starts) \in Nat
      /\ Cardinality(Starts) <= blocks
  <2> DEFINE at == [b \in 0..(blocks - 1) |-> b * Cfg.DataFramesPerBlock]
  <2>1. Starts = {b * Cfg.DataFramesPerBlock : b \in 0..(blocks - 1)}
    BY DEF BlockStarts
  <2> HIDE DEF blocks, Starts
  <2>2. at \in Surjection(0..(blocks - 1), Starts)
    BY <2>1 DEF Surjection
  <2>3. IsFiniteSet(0..(blocks - 1)) /\ Cardinality(0..(blocks - 1)) = blocks
    BY <1>1, Indexes
  <2> HIDE DEF at
  <2> QED BY <2>2, <2>3, FS_Surjection, FS_CardinalityType
<1>5. IsFiniteSet(0..(R - 1)) /\ Cardinality(0..(R - 1)) = R
  BY <1>1, Indexes
<1> HIDE DEF total, blocks, Sources, Starts
<1>6. /\ IsFiniteSet(Parities) /\ Cardinality(Parities) \in Nat
      /\ Cardinality(Parities) <= Cardinality(Starts) * R
  <2> DEFINE at == [p \in Pairs |-> RescueFrame(p[1], p[2], len, Cfg)]
  <2>1. at \in Surjection(Pairs, Parities)
    <3>1. \A p \in Pairs : at[p] \in Parities
      OBVIOUS
    <3>2. ASSUME NEW f \in Parities PROVE \E p \in Pairs : at[p] = f
      <4>1. PICK s \in Starts, r \in 0..(R - 1) : f = RescueFrame(s, r, len, Cfg)
        OBVIOUS
      <4>2. <<s, r>> \in Pairs /\ at[<<s, r>>] = f
        BY <4>1
      <4> QED BY <4>2
    <3> HIDE DEF Pairs, Parities
    <3> QED BY <3>1, <3>2 DEF Surjection
  <2>2. IsFiniteSet(Pairs) /\ Cardinality(Pairs) = Cardinality(Starts) * R
    BY <1>4, <1>5, FS_Product
  <2> HIDE DEF at, Pairs, Parities
  <2> QED BY <2>1, <2>2, FS_Surjection, FS_CardinalityType
<1>7. Cardinality(Starts) * R <= blocks * R
  BY <1>1, <1>4, MultiplesKeepOrder
<1> HIDE DEF Parities
<1>8. /\ IsFiniteSet(Sources \cup Parities) /\ Cardinality(Sources \cup Parities) \in Nat
      /\ Cardinality(Sources \cup Parities) <= Cardinality(Sources) + Cardinality(Parities)
  <2>1. /\ IsFiniteSet(Sources \cup Parities) /\ IsFiniteSet(Sources \cap Parities)
        /\ Cardinality(Sources \cup Parities) =
             Cardinality(Sources) + Cardinality(Parities) - Cardinality(Sources \cap Parities)
    BY <1>3, <1>6, FS_Union, FS_Intersection
  <2>2. Cardinality(Sources \cup Parities) \in Nat /\ Cardinality(Sources \cap Parities) \in Nat
    BY <2>1, FS_CardinalityType
  <2> QED BY <1>3, <1>6, <2>1, <2>2
<1>9. PICK most \in Nat : most = blocks * R
  BY <1>1
<1>10. Cardinality(Parities) <= most
  <2>1. Cardinality(Starts) * R \in Nat
    BY <1>1, <1>4
  <2> QED BY <1>6, <1>7, <1>9, <2>1
<1>11. Cardinality(Sources \cup Parities) <= MaxFrameCount
  BY <1>1, <1>3, <1>6, <1>8, <1>9, <1>10
<1> QED BY <1>2, <1>8, <1>11

(* No frame comes back more than twice, and no image is collected twice. *)
CountInv ==
  /\ IsFiniteSet(unsent)
  /\ Len(images) + 2 * Cardinality(unsent) <= 2 * MaxFrameCount
  /\ Len(frames) <= processed

LEMMA InitCountInv == Init => CountInv
<1> SUFFICES ASSUME Init PROVE CountInv
  OBVIOUS
<1>1. n \in InputSizes /\ unsent = Encoded(n, Cfg) /\ Len(images) = 0
      /\ Len(frames) = 0 /\ processed = 0
  BY DEF Init
<1> QED BY <1>1, EncodedIsBounded, LimitsAssumption DEF CountInv

LEMMA NextCountInv ==
  ASSUME TypeOK, CountInv, [Next]_vars
  PROVE  CountInv'
<1>1. /\ images \in Seq(Frames) /\ frames \in Seq(Frames) /\ processed \in Nat
      /\ Len(images) \in Nat /\ Len(frames) \in Nat
      /\ IsFiniteSet(unsent) /\ Cardinality(unsent) \in Nat /\ MaxFrameCount \in Nat
  BY FS_CardinalityType, LimitsAssumption DEF TypeOK, CountInv
<1>2. CASE Transport
  <2>1. PICK f \in unsent : Show(f) \/ Lose(f) \/ Corrupt(f) \/ Repeat(f) \/ Damage(f)
    BY <1>2 DEF Transport
  <2>2. f \in Frames
    BY EncodedShape DEF TypeOK
  <2>3. unsent' = unsent \ {f} /\ frames' = frames /\ processed' = processed
    BY <2>1 DEF Show, Lose, Corrupt, Repeat, Damage, Transmit, Received, pool
  <2>4. IsFiniteSet(unsent') /\ Cardinality(unsent') = Cardinality(unsent) - 1
    BY <1>1, <2>3, FS_RemoveElement
  <2>5. Len(images') \in Nat /\ Len(images') <= Len(images) + 2
    <3>1. CASE Repeat(f)
      <4>1. /\ Append(images, f) \in Seq(Frames) /\ Len(Append(images, f)) = Len(images) + 1
            /\ images' = Append(Append(images, f), f)
        BY <1>1, <2>2, <3>1, AppendAddsLast DEF Repeat
      <4>2. Len(images') = Len(images) + 2
        BY <1>1, <2>2, <4>1, AppendAddsLast
      <4> QED BY <1>1, <4>2
    <3>2. CASE ~Repeat(f)
      <4>1. images' = images \/ \E g \in Frames : images' = Append(images, g)
        <5>1. Corrupted(f) \in Frames
          BY <2>2 DEF Corrupted, Frames
        <5>2. \A g \in Damaged(f) : g \in Frames
          BY <2>2, DamagedIsFrame
        <5> QED BY <2>1, <2>2, <3>2, <5>1, <5>2 DEF Show, Lose, Corrupt, Damage
      <4> QED BY <1>1, <4>1, AppendAddsLast
    <3> QED BY <3>1, <3>2
  <2>6. Len(images') + 2 * (Cardinality(unsent) - 1) <= 2 * MaxFrameCount
    <3>1. \A a, b, u, m \in Nat : a + 2 * u <= 2 * m /\ b <= a + 2 => b + 2 * (u - 1) <= 2 * m
      OBVIOUS
    <3>2. Len(images) + 2 * Cardinality(unsent) <= 2 * MaxFrameCount
      BY DEF CountInv
    <3> HIDE DEF TypeOK, CountInv
    <3> QED BY <1>1, <2>5, <3>1, <3>2
  <2>7. Len(frames') <= processed'
    BY <2>3 DEF CountInv
  <2> QED BY <2>4, <2>6, <2>7 DEF CountInv
<1>3. CASE Collect
  <2>1. unsent' = unsent /\ images' = images /\ processed' = processed + 1
    BY <1>3 DEF Collect, transport
  <2>2. images[Head(results)] \in Frames
    BY <1>3 DEF Collect, TypeOK
  <2>3. frames' = frames \/ frames' = Append(frames, images[Head(results)])
    BY <1>3 DEF Collect
  <2>4. Len(frames') \in Nat /\ Len(frames') <= Len(frames) + 1
    BY <1>1, <2>2, <2>3, AppendAddsLast
  <2> QED BY <1>1, <2>1, <2>4 DEF CountInv
<1>4. CASE ~Transport /\ ~Collect
  <2>1. UNCHANGED <<unsent, images, frames, processed>>
    BY <1>4 DEF Next, vars, transport, pool, Feed, StartDecode, PushJob, CloseJobs, Work,
                TakeJob, SendResult, ExitWorker, CloseResults, Drain, StopCollecting,
                Reconstruct, Reject, FreshSlots, Fill, Conflict, StartRepair,
                RepairBlock, RepairDone, Reassemble, GiveUp, Terminated
  <2> QED BY <2>1 DEF CountInv
<1> QED BY <1>2, <1>3, <1>4

(* So there are never more frames than Reconstruct takes. *)
LEMMA FramesAreFew ==
  ASSUME TypeOK, PoolInv, CountInv
  PROVE  ~(Len(frames) > 2 * MaxFrameCount)
<1>1. /\ Len(images) \in Nat /\ Len(frames) \in Nat /\ Len(jobs) \in Nat
      /\ Len(results) \in Nat /\ processed \in Nat /\ fed \in 0..Len(images)
  BY DEF TypeOK
<1>2. Cardinality(Busy) \in Nat /\ Cardinality(unsent) \in Nat /\ MaxFrameCount \in Nat
  BY BusyFinite, FS_CardinalityType, LimitsAssumption DEF CountInv
<1>3. fed = Len(jobs) + Cardinality(Busy) + Len(results) + processed
  BY DEF PoolInv
<1>4. Len(frames) <= processed /\ Len(images) + 2 * Cardinality(unsent) <= 2 * MaxFrameCount
  BY DEF CountInv
<1>5. Len(frames) <= Len(images)
  BY <1>1, <1>2, <1>3, <1>4
<1> QED BY <1>1, <1>2, <1>4, <1>5

(* Too few frames are never enough. *)
LEMMA TooFewFrames ==
  ASSUME TypeOK, PoolInv, CollectInv, resultsClosed, results = <<>>, Len(frames) < D
  PROVE  ~Recoverable(Arrived, n, Cfg)
<1> SUFFICES ASSUME Recoverable(Arrived, n, Cfg) PROVE FALSE
  OBVIOUS
<1>1. /\ IsFiniteSet(Arrived) /\ Cardinality(Arrived) \in Nat
      /\ Cardinality(Arrived) <= Len(frames) /\ Len(frames) \in Nat
  BY ArrivedIsCounted DEF TypeOK
<1>2. DataFrames(n, Cfg) <= Cardinality(Arrived)
  BY <1>1, FileFacts, RecoverableNeedsFrames
<1> QED BY <1>1, <1>2, FileFacts DEF D

(* Genuine frames are rejected only when there are too few of them. *)
LEMMA RejectMeansTooFew ==
  ASSUME TypeOK, PoolInv, CountInv, GenuineInv, faults["damaged"] = 0, Reject
  PROVE  Len(frames) < D
<1>1. pc = "scan" /\ Rejected
  BY DEF Reject
<1>2. Meta.TotalFrames = D /\ Meta.TotalDataBytes = n /\ frames # <<>>
  BY <1>1, GenuineMeta DEF GenuineInv
<1>3. \A k \in DOMAIN frames :
        /\ FrameMetadataLooksValid(frames[k], Cfg)
        /\ frames[k].TotalFrames = D /\ frames[k].TotalDataBytes = n
        /\ frames[k].BlockSize = Cfg.DataFramesPerBlock
  <2>1. \A k \in DOMAIN frames : frames[k] \in Encoded(n, Cfg)
    BY DEF GenuineInv
  <2> QED BY <2>1, FileFacts, EncodedShape, EncodedIsAccepted DEF D
<1>4. 1 \in DOMAIN frames
  BY <1>2 DEF TypeOK
<1>5. Meta.BlockSize = Cfg.DataFramesPerBlock
  BY <1>3, <1>4 DEF Meta
<1>6. Meta.TotalFrames > Len(frames)
  BY <1>1, <1>2, <1>3, <1>5, FramesAreFew DEF Rejected
<1>7. Len(frames) \in Nat
  BY DEF TypeOK
<1> QED BY <1>2, <1>6, <1>7, FileFacts

(* Genuine frames never conflict. *)
LEMMA NoConflict ==
  ASSUME TypeOK, GenuineInv, faults["damaged"] = 0, Conflict
  PROVE  FALSE
<1>1. pc = "fill" /\ cursor \in DOMAIN frames
  <2>1. cursor <= Len(frames) /\ cursor \in Nat /\ pc = "fill"
    BY DEF Conflict, TypeOK
  <2>2. cursor > 0
    BY <2>1 DEF GenuineInv
  <2> QED BY <2>1, <2>2 DEF TypeOK
<1>2. PICK f \in Encoded(n, Cfg) : f = frames[cursor]
  BY <1>1 DEF GenuineInv
<1>3. DataGenuine /\ RescuesGenuine
  BY <1>1 DEF GenuineInv
<1>4. SlotFor(f) \notin {NoPayload, f.Payload}
  BY <1>2 DEF Conflict
<1>5. CASE f.FrameType = Data
  <2>1. /\ f.FrameIndex \in 0..(D - 1)
        /\ f.Payload = DataPayload(f.FrameIndex, SliceSize(f.FrameIndex, n, Cfg))
    BY <1>5, FileFacts, EncodedShape DEF D, Data, Rescue
  <2> QED BY <1>3, <1>4, <1>5, <2>1 DEF DataGenuine, SlotFor
<1>6. CASE f.FrameType # Data
  <2>1. /\ f.FrameIndex \in BlockStarts(D, Cfg) /\ f.RescueIndex \in 0..(R - 1)
        /\ f.Payload = RescuePayload(f.FrameIndex, f.RescueIndex, Cfg.PayloadSize)
    BY <1>6, FileFacts, EncodedShape DEF D
  <2> QED BY <1>3, <1>4, <1>6, <2>1 DEF RescuesGenuine, SlotFor
<1> QED BY <1>5, <1>6

(* A decoder that gives up misses too much of some block. *)
LEMMA GiveUpMeansLost ==
  ASSUME TypeOK, PoolInv, CollectInv, FillInv, RepairInv, Honest, GiveUp
  PROVE  ~Recoverable(Arrived, n, Cfg)
<1>1. PICK total \in Nat \ {0} : total = D
  BY FileFacts
<1>2. /\ Meta.TotalDataBytes = n /\ data = [i \in 0..(total - 1) |-> data[i]]
      /\ \A i \in 0..(total - 1) :
           data[i] = IF HasArrived(i) \/ (i < total /\ Solvable(BlockStartOf(i, Cfg)))
                     THEN Right(i) ELSE NoPayload
  <2>1. pc = "check"
    BY DEF GiveUp
  <2> QED BY <1>1, <2>1, HonestMeta DEF RepairInv, DataIsRight
<1>3. PICK i \in 0..(total - 1) :
        data[i] = NoPayload \/ data[i].size # DataSizeForFrame(i, n, Cfg)
  <2>1. DOMAIN data = 0..(total - 1)
    BY <1>2
  <2> QED BY <1>2, <2>1 DEF GiveUp, Complete
<1>4. Right(i).size = DataSizeForFrame(i, n, Cfg)
  <2>1. i \in Nat /\ n \in Nat
    BY FileFacts
  <2>2. Right(i).size = SliceSize(i, n, Cfg)
    BY DEF Right, DataPayload, PayloadOf
  <2> QED BY <2>1, <2>2, SliceSizeIsDataSize
<1>5. data[i] = NoPayload
  BY <1>2, <1>3, <1>4
<1>6. ~Solvable(BlockStartOf(i, Cfg))
  <2>1. i < total
    OBVIOUS
  <2> QED BY <1>2, <1>5, <2>1, EncodedFields
<1>7. BlockStartOf(i, Cfg) \in BlockStarts(total, Cfg)
  BY BlockOfFrame
<1> QED BY <1>1, <1>6, <1>7 DEF Recoverable, Solvable, D

(* Genuine frames stand in for nobody. *)
LEMMA GenuineIsHonest ==
  ASSUME GenuineInv, faults["damaged"] = 0
  PROVE  Honest
BY DEF GenuineInv, Honest

LEMMA NextFailInv ==
  ASSUME DecodeInv, CountInv, GenuineInv, FailInv, [Next]_vars
  PROVE  FailInv'
<1> SUFFICES ASSUME faults'["damaged"] = 0, pc' = "failed"
             PROVE  ~Recoverable(Arrived, n, Cfg)'
  BY DEF FailInv
<1> USE DEF DecodeInv
<1>1. CASE Transport \/ Feed \/ (\E w \in Workers : Work(w)) \/ CloseResults \/ Collect
  <2>1. UNCHANGED <<n, images, faults, pc>>
    BY <1>1 DEF Transport, Show, Lose, Corrupt, Repeat, Damage, Received, Transmit,
                Feed, StartDecode, PushJob, CloseJobs, CloseResults, Collect,
                Work, TakeJob, SendResult, ExitWorker, transport
  <2> QED BY <2>1, SameImages DEF FailInv
<1>2. CASE Terminated \/ UNCHANGED vars
  <2>1. UNCHANGED <<n, images, faults, pc>>
    BY <1>2 DEF Terminated, vars
  <2> QED BY <2>1, SameImages DEF FailInv
<1>3. CASE StopCollecting
  <2>1. UNCHANGED <<n, images>> /\ resultsClosed /\ results = <<>> /\ frames = <<>>
    BY <1>3 DEF StopCollecting, transport
  <2>2. Len(frames) = 0
    BY <2>1
  <2>3. Len(frames) < D
    BY <2>2, FileFacts
  <2> QED BY <2>1, <2>3, TooFewFrames, SameImages
<1>4. CASE Reconstruct
  <2>1. UNCHANGED <<n, images, faults>> /\ pc \notin {"transport", "feed", "collect"}
    BY <1>4 DEF Reconstruct, Reject, FreshSlots, Fill, Conflict, StartRepair,
                RepairBlock, RepairDone, Reassemble, GiveUp, transport
  <2>2. resultsClosed /\ results = <<>> /\ Honest /\ faults["damaged"] = 0
    BY <2>1, GenuineIsHonest DEF PoolInv
  <2> SUFFICES ~Recoverable(Arrived, n, Cfg)
    BY <2>1, SameImages
  <2>3. CASE Reject
    BY <2>2, <2>3, RejectMeansTooFew, TooFewFrames
  <2>4. CASE Conflict
    BY <2>2, <2>4, NoConflict
  <2>5. CASE GiveUp
    BY <2>2, <2>5, GiveUpMeansLost
  <2>6. Reject \/ Conflict \/ GiveUp
    BY <1>4 DEF Reconstruct, FreshSlots, Fill, StartRepair, RepairBlock, RepairDone, Reassemble
  <2> QED BY <2>3, <2>4, <2>5, <2>6
<1> QED BY <1>1, <1>2, <1>3, <1>4 DEF Next, Drain

-----------------------------------------------------------------------------
(* The pipeline implements the promise of the codec, step by step *)

(* What WeaveRecovery means by a file, its frames and what determines it.  *)
LEMMA SamePromise ==
  ASSUME NEW len, NEW A
  PROVE  /\ Recovery!PlanAccepts(len, Cfg) = PlanAccepts(len, Cfg)
         /\ Recovery!Encoded(len, Cfg) = Encoded(len, Cfg)
         /\ Recovery!Recoverable(A, len, Cfg) <=> Recoverable(A, len, Cfg)
<1>1. \A x : Recovery!DataFrames(x, Cfg) = DataFrames(x, Cfg)
  BY DEF Recovery!DataFrames, DataFrames
<1>2. \A x : Recovery!BlockCount(x, Cfg) = BlockCount(x, Cfg)
  BY DEF Recovery!BlockCount, BlockCount
<1>3. \A x : Recovery!BlockStarts(x, Cfg) = BlockStarts(x, Cfg)
  BY <1>2 DEF Recovery!BlockStarts, BlockStarts
<1>4. \A i : Recovery!DataFrame(i, len, Cfg) = DataFrame(i, len, Cfg)
  BY <1>1 DEF Recovery!DataFrame, DataFrame, Recovery!Frame, Frame, Recovery!DataPayload,
              DataPayload, Recovery!PayloadOf, PayloadOf, Recovery!SliceSize, SliceSize,
              Recovery!Data, Data
<1>5. \A s, r : Recovery!RescueFrame(s, r, len, Cfg) = RescueFrame(s, r, len, Cfg)
  BY <1>1 DEF Recovery!RescueFrame, RescueFrame, Recovery!Frame, Frame, Recovery!RescuePayload,
              RescuePayload, Recovery!PayloadOf, PayloadOf, Recovery!Rescue, Rescue
<1>6. Recovery!Encoded(len, Cfg) = Encoded(len, Cfg)
  BY <1>1, <1>3, <1>4, <1>5 DEF Recovery!Encoded, Encoded
<1>7. \A s, x : Recovery!BlockFrames(s, x, Cfg) = BlockFrames(s, x, Cfg)
  BY DEF Recovery!BlockFrames, BlockFrames
<1>8. \A s : Recovery!MissingOf(s, A, len, Cfg) = MissingOf(s, A, len, Cfg)
  BY <1>1, <1>4, <1>7 DEF Recovery!MissingOf, MissingOf
<1>9. \A s : Recovery!RescuesOf(s, A, len, Cfg) = RescuesOf(s, A, len, Cfg)
  BY <1>5 DEF Recovery!RescuesOf, RescuesOf
<1>10. Recovery!Recoverable(A, len, Cfg) <=> Recoverable(A, len, Cfg)
  <2>1. Recovery!BlockStarts(Recovery!DataFrames(len, Cfg), Cfg) = BlockStarts(DataFrames(len, Cfg), Cfg)
    BY <1>1, <1>3
  <2>2. \A S : Recovery!Cardinality(S) = Cardinality(S)
    BY DEF Recovery!Cardinality, Cardinality
  <2>3. \A s : /\ Recovery!Cardinality(Recovery!MissingOf(s, A, len, Cfg))
                = Cardinality(MissingOf(s, A, len, Cfg))
              /\ Recovery!Cardinality(Recovery!RescuesOf(s, A, len, Cfg))
                = Cardinality(RescuesOf(s, A, len, Cfg))
    BY <1>8, <1>9, <2>2
  <2> QED BY <2>1, <2>3 DEF Recovery!Recoverable, Recoverable
<1>11. Recovery!PlanAccepts(len, Cfg) = PlanAccepts(len, Cfg)
  <2>1. \A x : Recovery!RescueFrames(x, Cfg) = RescueFrames(x, Cfg)
    BY <1>1, <1>2 DEF Recovery!RescueFrames, RescueFrames
  <2> QED BY <1>1, <2>1 DEF Recovery!PlanAccepts, PlanAccepts, Recovery!Valid, Valid,
                            Recovery!MaxProtectedBytes, MaxProtectedBytes
<1> QED BY <1>6, <1>10, <1>11

Outcome == CASE pc = "failed"                       -> "lost"
             [] pc = "done" /\ output = Original(n) -> "restored"
             [] pc = "done" /\ output # Original(n) -> "wrong"
             [] OTHER                               -> "pending"

LEMMA OutcomeValues ==
  /\ pc = "failed" => Outcome = "lost"
  /\ pc = "done" /\ output = Original(n) => Outcome = "restored"
  /\ pc \notin {"done", "failed"} => Outcome = "pending"
BY DEF Outcome

(* A frame that is shown arrives, and nothing else does. *)
LEMMA TransportArrives ==
  ASSUME TypeOK, Transport, ~(\E f \in unsent : Damage(f))
  PROVE  \/ Arrived' = Arrived
         \/ \E f \in Encoded(n, Cfg) : Arrived' = Arrived \cup {f}
<1>1. PICK f \in unsent : Show(f) \/ Lose(f) \/ Corrupt(f) \/ Repeat(f)
  BY DEF Transport
<1>2. f \in Encoded(n, Cfg) /\ f \in Frames /\ images \in Seq(Frames)
  BY <1>1, FileFacts, EncodedShape DEF TypeOK
<1>3. n' = n
  BY <1>1 DEF Show, Lose, Corrupt, Repeat, Received
<1> DEFINE Seen(seq) == {seq[k] : k \in DOMAIN seq}
<1>4. \A seq \in Seq(Frames), g \in Frames :
        Append(seq, g) \in Seq(Frames) /\ Seen(Append(seq, g)) = Seen(seq) \cup {g}
  <2> SUFFICES ASSUME NEW seq \in Seq(Frames), NEW g \in Frames
               PROVE  /\ Append(seq, g) \in Seq(Frames)
                      /\ Seen(Append(seq, g)) = Seen(seq) \cup {g}
    OBVIOUS
  <2> DEFINE longer == Append(seq, g)
  <2>0. longer \in Seq(Frames)
    BY AppendAddsLast
  <2>1. Adds(longer, seq, g)
    BY AddedIsQueued
  <2> HIDE DEF longer
  <2>2. ASSUME NEW x \in Seen(longer) PROVE x \in Seen(seq) \cup {g}
    BY <2>1 DEF Adds
  <2>3. ASSUME NEW x \in Seen(seq) \cup {g} PROVE x \in Seen(longer)
    BY <2>1 DEF Adds
  <2> HIDE DEF Seen
  <2>4. Seen(longer) = Seen(seq) \cup {g}
    BY <2>2, <2>3
  <2> QED BY <2>0, <2>4 DEF longer
<1>5. Arrived = Seen(images) \cap Encoded(n, Cfg)
  BY DEF Arrived
<1>6. Arrived' = Seen(images') \cap Encoded(n, Cfg)
  BY <1>3 DEF Arrived
<1> HIDE DEF Seen
<1>7. CASE Show(f)
  <2>1. Seen(images') = Seen(images) \cup {f}
    BY <1>2, <1>4, <1>7 DEF Show
  <2> QED BY <1>2, <1>5, <1>6, <2>1
<1>8. CASE Lose(f)
  BY <1>5, <1>6, <1>8 DEF Lose
<1>9. CASE Corrupt(f)
  <2>1. Corrupted(f) \in Frames
    BY <1>2 DEF Corrupted, Frames
  <2>2. Seen(images') = Seen(images) \cup {Corrupted(f)}
    BY <1>2, <1>4, <1>9, <2>1 DEF Corrupt
  <2>3. Corrupted(f) \notin Encoded(n, Cfg)
    BY <1>2, FileFacts, CorruptedDoesNotParse, EncodedIsAccepted
  <2> QED BY <1>5, <1>6, <2>2, <2>3
<1>10. CASE Repeat(f)
  <2>1. /\ Append(images, f) \in Seq(Frames)
        /\ Seen(Append(images, f)) = Seen(images) \cup {f}
    BY <1>2, <1>4
  <2>2. Seen(images') = Seen(Append(images, f)) \cup {f}
    BY <1>2, <1>4, <1>10, <2>1 DEF Repeat
  <2> QED BY <1>2, <1>5, <1>6, <2>1, <2>2
<1> QED BY <1>1, <1>7, <1>8, <1>9, <1>10

(* Every step of the pipeline is a step of the promise, or none of it. *)
LEMMA StepRefines ==
  ASSUME DecodeInv, GenuineInv, faults["damaged"] = 0, [Next]_vars,
         RepairInv', FailInv', GenuineInv', faults'["damaged"] = 0
  PROVE  [Recovery!Next]_(Recovery!vars)
<1> USE DEF DecodeInv
<1>1. ASSUME UNCHANGED <<n, Arrived, Outcome>> PROVE UNCHANGED Recovery!vars
  BY <1>1 DEF Recovery!vars, Outcome
<1>2. ASSUME NEW f \in Encoded(n, Cfg), Outcome = "pending", Arrived' = Arrived \cup {f},
             UNCHANGED <<n, Outcome>>
      PROVE  Recovery!Next
  <2>1. Recovery!Arrive(f)
    BY <1>2 DEF Recovery!Arrive, Outcome
  <2> QED BY <2>1, SamePromise DEF Recovery!Next
<1>3. ASSUME Outcome = "pending", UNCHANGED <<n, Arrived>>,
             Outcome' = IF Recoverable(Arrived, n, Cfg) THEN "restored" ELSE "lost"
      PROVE  Recovery!Next
  <2>1. Recovery!Decide
    BY <1>3, SamePromise DEF Recovery!Decide, Outcome
  <2> QED BY <2>1 DEF Recovery!Next
<1>4. CASE Transport
  <2>1. UNCHANGED <<n, pc>> /\ pc = "transport"
    BY <1>4, TransportAddsImages
  <2>2. Outcome = "pending" /\ Outcome' = "pending"
    BY <2>1 DEF Outcome
  <2>3. ~(\E f \in unsent : Damage(f))
    BY DEF Damage, Suffers, TypeOK
  <2> QED BY <1>1, <1>2, <1>4, <2>1, <2>2, <2>3, TransportArrives
<1>5. CASE Terminated \/ UNCHANGED vars
  <2>1. UNCHANGED <<n, images, pc, output>>
    BY <1>5 DEF Terminated, vars
  <2>2. Arrived' = Arrived /\ Outcome' = Outcome
    BY <2>1, SameImages DEF Outcome
  <2> QED BY <1>1, <2>1, <2>2
<1>6. CASE Feed \/ (\E w \in Workers : Work(w)) \/ CloseResults \/ Drain \/ Reconstruct
  <2>1. UNCHANGED <<n, images>>
    BY <1>6 DEF Feed, StartDecode, PushJob, CloseJobs, Work, TakeJob, SendResult, ExitWorker,
                CloseResults, Drain, Collect, StopCollecting, Reconstruct, Reject, FreshSlots,
                Fill, Conflict, StartRepair, RepairBlock, RepairDone, Reassemble, GiveUp,
                transport
  <2>2. /\ Arrived' = Arrived
        /\ Original(n)' = Original(n)
        /\ Recoverable(Arrived, n, Cfg)' = Recoverable(Arrived, n, Cfg)
    BY <2>1, SameImages
  <2>3. pc \notin {"done", "failed"} \/ UNCHANGED <<pc, output>>
    BY <1>6 DEF Feed, StartDecode, PushJob, CloseJobs, Work, TakeJob, SendResult, ExitWorker,
                CloseResults, Drain, Collect, StopCollecting, Reconstruct, Reject, FreshSlots,
                Fill, Conflict, StartRepair, RepairBlock, RepairDone, Reassemble, GiveUp
  <2>4. CASE UNCHANGED <<pc, output>>
    <3>1. Outcome' = Outcome
      BY <2>2, <2>4 DEF Outcome
    <3> QED BY <1>1, <2>1, <2>2, <3>1
  <2>5. CASE pc \notin {"done", "failed"} /\ pc' = "done"
    <3>1. Honest
      BY GenuineIsHonest
    <3>2. output' = Original(n) /\ Recoverable(Arrived, n, Cfg)
      BY <2>1, <2>2, <2>5, <3>1, SameImages DEF RepairInv
    <3>3. Outcome = "pending" /\ Outcome' = "restored"
      BY <2>2, <2>5, <3>2 DEF Outcome
    <3> QED BY <1>3, <2>1, <2>2, <3>2, <3>3
  <2>6. CASE pc \notin {"done", "failed"} /\ pc' = "failed"
    <3>1. ~Recoverable(Arrived, n, Cfg)
      BY <2>2, <2>6 DEF FailInv
    <3>2. Outcome = "pending" /\ Outcome' = "lost"
      BY <2>6 DEF Outcome
    <3> QED BY <1>3, <2>1, <2>2, <3>1, <3>2
  <2>7. CASE pc \notin {"done", "failed"} /\ pc' \notin {"done", "failed"}
    <3>1. Outcome' = Outcome
      BY <2>7 DEF Outcome
    <3> QED BY <1>1, <2>1, <2>2, <3>1
  <2> QED BY <2>3, <2>4, <2>5, <2>6, <2>7
<1> QED BY <1>4, <1>5, <1>6 DEF Next

LEMMA FailureIsLoss == Spec => [](FailInv /\ GenuineInv)
<1>1. Init => CountInv /\ FailInv /\ GenuineInv
  BY InitCountInv DEF Init, FailInv, GenuineInv
<1>2. DecodeInv /\ CountInv /\ GenuineInv /\ FailInv /\ [Next]_vars
        => CountInv' /\ FailInv' /\ GenuineInv'
  BY NextCountInv, NextFailInv, StepKeepsGenuine DEF DecodeInv
<1> QED BY <1>1, <1>2, DecodeCorrect, PTL DEF Spec

(* As long as no header that parses is damaged, the pipeline implements the
   safety part of the codec's promise: frames arrive one by one, and the
   outcome is decided once, restored exactly when the frames that arrived
   determine the file. *)
THEOREM StepsRefineRecovery ==
  Spec /\ [](faults["damaged"] = 0) => Recovery!Init /\ [][Recovery!Next]_(Recovery!vars)
<1>1. Init => Recovery!Init
  <2> SUFFICES ASSUME Init PROVE Recovery!Init
    OBVIOUS
  <2>1. n \in InputSizes /\ pc = "transport" /\ images = <<>>
    BY DEF Init
  <2>2. PlanAccepts(n, Cfg)
    BY <2>1, DecodeAssumption
  <2>3. Arrived = {}
    BY <2>1 DEF Arrived
  <2>4. Outcome = "pending"
    BY <2>1 DEF Outcome
  <2> QED BY <2>2, <2>3, <2>4, SamePromise DEF Recovery!Init, Outcome
<1>2. DecodeInv /\ GenuineInv /\ faults["damaged"] = 0 /\ [Next]_vars
        /\ DecodeInv' /\ FailInv' /\ GenuineInv' /\ (faults["damaged"] = 0)'
          => [Recovery!Next]_(Recovery!vars)
  <2> SUFFICES ASSUME DecodeInv, GenuineInv, faults["damaged"] = 0, [Next]_vars,
                      DecodeInv', FailInv', GenuineInv', (faults["damaged"] = 0)'
               PROVE  [Recovery!Next]_(Recovery!vars)
    OBVIOUS
  <2>1. RepairInv' /\ faults'["damaged"] = 0
    BY DEF DecodeInv
  <2> QED BY <2>1, StepRefines
<1> QED BY <1>1, <1>2, DecodeCorrect, FailureIsLoss, PTL DEF Spec

-----------------------------------------------------------------------------
(* Where the decoder samples a picture *)

(* The nearest integer is no more than one half away. *)
Near(a, b, r) == 2 * a - b <= 2 * (b * r) /\ 2 * (b * r) <= 2 * a + b

LEMMA RoundIsNear ==
  ASSUME NEW a \in Nat, NEW b \in Nat \ {0}, NEW half \in Halves
  PROVE  Round(a, b, half) \in Nat /\ Near(a, b, Round(a, b, half))
<1>1. half \in 0..1
  BY DEF Halves
<1>2. PICK top \in Nat : top = 2 * a + b - half
  BY <1>1
<1>3. PICK B \in Nat \ {0} : B = 2 * b
  OBVIOUS
<1>4. PICK q \in Nat, r \in 0..(B - 1) : q = top \div B /\ top = q * B + r
  BY Division
<1>5. PICK m \in Nat : m = b * q
  OBVIOUS
<1>6. q * B = 2 * m
  BY <1>3, <1>5
<1>7. 2 * a - b <= 2 * m /\ 2 * m <= 2 * a + b
  BY <1>1, <1>2, <1>3, <1>4, <1>6
<1>8. Round(a, b, half) = q
  BY <1>2, <1>3, <1>4 DEF Round
<1> QED BY <1>5, <1>7, <1>8 DEF Near

(* An interval of at least four pixels inside the picture is kept, and the
   part of it that is sampled leaves out its first and its last. *)
SampledWithin(sample, from, to) ==
  sample[1] \in Int /\ sample[2] \in Int /\ sample[1] < sample[2]
  /\ from + 1 <= sample[1] /\ sample[2] <= to - 1

LEMMA InsetLies ==
  ASSUME NEW from \in Nat, NEW to \in Nat, NEW limit \in Nat, from + 4 <= to, to <= limit
  PROVE  SampledWithin(Inset(Span(from, to, limit)), from, to)
<1>1. Clamp(from, 0, limit) = from /\ Clamp(to, 0, limit) = to
  BY DEF Clamp
<1>2. Span(from, to, limit) = <<from, to>>
  BY <1>1 DEF Span
<1>3. PICK length \in Nat : length = to - from /\ length >= 4
  OBVIOUS
<1>4. PICK quarter \in Nat : quarter = length \div 4 /\ 4 * quarter <= length /\ quarter >= 1
  BY <1>3
<1>5. Inset(<<from, to>>) = <<from + quarter, to - quarter>>
  BY <1>3, <1>4 DEF Inset
<1> QED BY <1>2, <1>3, <1>4, <1>5 DEF SampledWithin

(* Edges of squares that lie more than four pixels apart are at least four
   apart when they are rounded, and the last is no later than the end. *)
LEMMA EdgesAreApart ==
  ASSUME NEW M \in Nat, NEW B \in Nat \ {0}, NEW g \in Nat, NEW row \in Nat,
         M * g > 4 * B, (row + 1) * M <= B,
         NEW first \in Nat, Near(row * M * g, B, first),
         NEW last \in Nat, Near((row + 1) * M * g, B, last)
  PROVE  first + 4 <= last /\ last <= g
<1>1. PICK a \in Nat : a = row * M * g
  OBVIOUS
<1>2. PICK s \in Nat : s = M * g
  OBVIOUS
<1>3. (row + 1) * M * g = a + s
  BY <1>1, <1>2
<1>4. a + s <= B * g
  <2>1. PICK e \in Nat : e = (row + 1) * M
    OBVIOUS
  <2>2. e * g <= B * g
    BY <2>1
  <2> QED BY <1>3, <2>1, <2>2
<1>5. PICK f \in Nat, l \in Nat : f = B * first /\ l = B * last
  OBVIOUS
<1>6. 2 * a - B <= 2 * f /\ 2 * f <= 2 * a + B /\ 2 * (a + s) - B <= 2 * l /\ 2 * l <= 2 * (a + s) + B
  BY <1>1, <1>3, <1>5 DEF Near
<1>7. first + 4 <= last
  <2>1. SUFFICES ASSUME last <= first + 3 PROVE FALSE
    OBVIOUS
  <2>2. B * last <= B * (first + 3)
    BY <2>1
  <2>3. l <= f + 3 * B
    BY <2>2, <1>5
  <2> QED BY <2>3, <1>2, <1>6
<1>8. last <= g
  <2>1. SUFFICES ASSUME g + 1 <= last PROVE FALSE
    OBVIOUS
  <2>2. B * (g + 1) <= B * last
    BY <2>1
  <2>3. PICK x \in Nat : x = B * g
    OBVIOUS
  <2>4. x + B <= l
    BY <2>2, <2>3, <1>5
  <2> QED BY <2>3, <2>4, <1>4, <1>6
<1> QED BY <1>7, <1>8
(* What is sampled of a column lies in it. *)
LEMMA ColumnLies ==
  ASSUME NEW M \in Nat, NEW W \in Nat \ {0}, NEW w \in Nat, NEW col \in Nat,
         NEW first \in Nat, Near(col * M * w, W, first),
         NEW last \in Nat, Near((col + 1) * M * w, W, last)
  PROVE  /\ (first + 1) * W >= col * M * w
         /\ (last - 1) * W <= (col + 1) * M * w
<1>1. PICK a \in Nat, b \in Nat : a = col * M * w /\ b = (col + 1) * M * w
  OBVIOUS
<1>2. PICK f \in Nat, l \in Nat : f = W * first /\ l = W * last
  OBVIOUS
<1>3. 2 * a - W <= 2 * f /\ 2 * l <= 2 * b + W
  BY <1>1, <1>2 DEF Near
<1>4. (first + 1) * W = f + W /\ (last - 1) * W = l - W
  BY <1>2
<1> QED BY <1>1, <1>3, <1>4

(* The scaled bar is off by no more than half a pixel of the drawing. *)
BarNear(H, CH, h, bar) ==
  2 * (H * bar) <= 2 * (CH * h) + H /\ 2 * (CH * h) - H <= 2 * (H * bar)

(* The upper edge of what is sampled of a row: by what the rounding of the bar
   moves the first row, it moves the later ones less. *)
LEMMA RowBegins ==
  ASSUME NEW H \in Nat \ {0}, NEW B \in Nat \ {0}, NEW CH \in Nat, H = B + CH,
         NEW h \in Nat, NEW bar \in Nat, 2 * (CH * h) - H <= 2 * (H * bar), bar <= h,
         NEW e \in Nat, e <= B, NEW first \in Nat, Near(e * (h - bar), B, first)
  PROVE  (bar + first + 1) * H >= (CH + e) * h
<1>1. PICK d \in Int : d = H * bar - CH * h
  OBVIOUS
<1>2. 2 * d + H >= 0
  <2>1. PICK x \in Nat, y \in Nat : x = CH * h /\ y = H * bar
    OBVIOUS
  <2> QED BY <1>1, <2>1
<1>3. PICK g \in Nat : g = h - bar
  OBVIOUS
<1>4. H * g = B * h - d
  BY <1>1, <1>3
<1>5. PICK t \in Nat : t = B - e
  OBVIOUS
<1>6. PICK u \in Int : u = (bar + first + 1) * H - (CH + e) * h
  OBVIOUS
<1>7. u = H * first + H + d - e * h
  <2>1. PICK x \in Nat, y \in Nat, z \in Nat, v \in Nat :
          x = H * bar /\ y = H * first /\ z = CH * h /\ v = e * h
    OBVIOUS
  <2>2. (bar + first + 1) * H = x + y + H /\ (CH + e) * h = z + v
    BY <2>1
  <2>3. d = x - z
    BY <1>1, <2>1
  <2> QED BY <1>6, <2>1, <2>2, <2>3
<1>8. H * (2 * (B * first)) >= H * (2 * (e * g) - B)
  <2>1. PICK f \in Nat : f = B * first
    OBVIOUS
  <2>2. PICK p \in Nat : p = e * g
    OBVIOUS
  <2>3. PICK x \in Int : x = 2 * f
    OBVIOUS
  <2>0. 2 * p - B \in Int
    OBVIOUS
  <2>4. PICK y \in Int : y = 2 * p - B
    BY <2>0, Zenon
  <2>5. y <= x
    BY <1>3, <2>1, <2>2, <2>3, <2>4 DEF Near
  <2>6. H * y <= H * x
    BY <2>5
  <2> QED BY <2>1, <2>2, <2>3, <2>4, <2>6
<1>9. H * (e * g) = e * B * h - e * d
  <2>1. H * (e * g) = e * (H * g)
    OBVIOUS
  <2>2. e * (B * h - d) = e * B * h - e * d
    OBVIOUS
  <2> QED BY <1>4, <2>1, <2>2
<1>10. 2 * (B * u) >= 2 * (d * t) + H * B
  <2>1. B * u = H * (B * first) + H * B + B * d - e * B * h
    BY <1>7
  <2>2. d * t = B * d - e * d
    BY <1>5
  <2>3. PICK v \in Int, x \in Int, y \in Int, z \in Int :
          v = H * (B * first) /\ x = B * d /\ y = e * B * h /\ z = H * B
    OBVIOUS
  <2>4. H * (2 * (B * first)) = 2 * v
    BY <2>3
  <2>5. H * (2 * (e * g) - B) = 2 * (H * (e * g)) - z
    BY <2>3
  <2>6. PICK o \in Int : o = e * d
    OBVIOUS
  <2>7. 2 * v >= 2 * (y - o) - z
    BY <1>8, <1>9, <2>3, <2>4, <2>5, <2>6
  <2>8. B * u = v + z + x - y /\ d * t = x - o
    BY <2>1, <2>2, <2>3, <2>6
  <2> QED BY <2>3, <2>7, <2>8
<1>11. 2 * (d * t) + H * B >= 0
  <2>1. PICK o \in Nat : o = 2 * d + H
    BY <1>2
  <2>2. o * t >= 0
    OBVIOUS
  <2>3. o * t = 2 * (d * t) + H * t
    BY <2>1
  <2>4. H * t <= H * B
    BY <1>5
  <2> QED BY <2>2, <2>3, <2>4
<1>12. B * u >= 0
  BY <1>10, <1>11
<1>13. u >= 0
  BY <1>12
<1> QED BY <1>6, <1>13

(* The same at its lower edge. *)
LEMMA RowEnds ==
  ASSUME NEW H \in Nat \ {0}, NEW B \in Nat \ {0}, NEW CH \in Nat, H = B + CH,
         NEW h \in Nat, NEW bar \in Nat, 2 * (H * bar) <= 2 * (CH * h) + H, bar <= h,
         NEW e \in Nat, e <= B, NEW last \in Nat, Near(e * (h - bar), B, last)
  PROVE  (bar + last - 1) * H <= (CH + e) * h
<1>1. PICK d \in Int : d = H * bar - CH * h
  OBVIOUS
<1>2. 2 * d <= H
  <2>1. PICK x \in Nat, y \in Nat : x = CH * h /\ y = H * bar
    OBVIOUS
  <2> QED BY <1>1, <2>1
<1>3. PICK g \in Nat : g = h - bar
  OBVIOUS
<1>4. H * g = B * h - d
  BY <1>1, <1>3
<1>5. PICK t \in Nat : t = B - e
  OBVIOUS
<1>6. PICK u \in Int : u = (CH + e) * h - (bar + last - 1) * H
  OBVIOUS
<1>7. u = e * h + H - d - H * last
  <2>1. PICK x \in Nat, y \in Nat, z \in Nat, v \in Nat :
          x = H * bar /\ y = H * last /\ z = CH * h /\ v = e * h
    OBVIOUS
  <2>2. (bar + last - 1) * H = x + y - H /\ (CH + e) * h = z + v
    BY <2>1
  <2>3. d = x - z
    BY <1>1, <2>1
  <2> QED BY <1>6, <2>1, <2>2, <2>3
<1>8. H * (2 * (B * last)) <= H * (2 * (e * g) + B)
  <2>1. PICK f \in Nat : f = B * last
    OBVIOUS
  <2>2. PICK p \in Nat : p = e * g
    OBVIOUS
  <2>3. PICK x \in Int : x = 2 * f
    OBVIOUS
  <2>0. 2 * p + B \in Int
    OBVIOUS
  <2>4. PICK y \in Int : y = 2 * p + B
    BY <2>0, Zenon
  <2>5. x <= y
    BY <1>3, <2>1, <2>2, <2>3, <2>4 DEF Near
  <2>6. H * x <= H * y
    BY <2>5
  <2> QED BY <2>1, <2>2, <2>3, <2>4, <2>6
<1>9. H * (e * g) = e * B * h - e * d
  <2>1. H * (e * g) = e * (H * g)
    OBVIOUS
  <2>2. e * (B * h - d) = e * B * h - e * d
    OBVIOUS
  <2> QED BY <1>4, <2>1, <2>2
<1>10. 2 * (B * u) >= H * B - 2 * (d * t)
  <2>1. B * u = e * B * h + H * B - B * d - H * (B * last)
    BY <1>7
  <2>2. d * t = B * d - e * d
    BY <1>5
  <2>3. PICK v \in Int, x \in Int, y \in Int, z \in Int :
          v = H * (B * last) /\ x = B * d /\ y = e * B * h /\ z = H * B
    OBVIOUS
  <2>4. H * (2 * (B * last)) = 2 * v
    BY <2>3
  <2>5. H * (2 * (e * g) + B) = 2 * (H * (e * g)) + z
    BY <2>3
  <2>6. PICK o \in Int : o = e * d
    OBVIOUS
  <2>7. 2 * v <= 2 * (y - o) + z
    BY <1>8, <1>9, <2>3, <2>4, <2>5, <2>6
  <2>8. B * u = y + z - x - v /\ d * t = x - o
    BY <2>1, <2>2, <2>3, <2>6
  <2> QED BY <2>3, <2>7, <2>8
<1>11. H * B - 2 * (d * t) >= 0
  <2>1. PICK o \in Nat : o = H - 2 * d
    BY <1>2
  <2>2. o * t >= 0
    OBVIOUS
  <2>3. o * t = H * t - 2 * (d * t)
    BY <2>1
  <2>4. H * t <= H * B
    BY <1>5
  <2> QED BY <2>2, <2>3, <2>4
<1>12. B * u >= 0
  BY <1>10, <1>11
<1>13. u >= 0
  BY <1>12
<1> QED BY <1>6, <1>13

(* The grids of the six configurations. *)
Grid(W, H, M, CH) ==
  \/ W = 1280 /\ H = 720 /\ M = 16 /\ CH = 16
  \/ W = 1280 /\ H = 720 /\ M = 10 /\ CH = 16
  \/ W = 640 /\ H = 360 /\ M = 8 /\ CH = 8
  \/ W = 1920 /\ H = 1080 /\ M = 24 /\ CH = 16
  \/ W = 1080 /\ H = 1080 /\ M = 24 /\ CH = 24
  \/ W = 1080 /\ H = 1920 /\ M = 45 /\ CH = 90

(* Every preset is drawn on one of them. *)
LEMMA DrawnHasGrid ==
  Grid(Drawn.Width, Drawn.Height, Drawn.MacroSize, Drawn.CalibrationHeight)
<1>1. Drawn \in {Compact, TikTok, HQ, Square, HighDensity, Default}
  BY DEF Drawn, ConfigOf
<1>2. ASSUME NEW c \in {Compact, TikTok, HQ, Square, HighDensity, Default}
      PROVE  Grid(c.Width, c.Height, c.MacroSize, c.CalibrationHeight)
  BY <1>2 DEF Compact, TikTok, HQ, Square, HighDensity, Default, FrameConfig, Grid
<1> QED BY <1>1, <1>2

(* How the height of the bar follows that of the picture: it is near, but for
   the smallest pictures of the preset hq, where four rows are the least. *)
ScaledBar(h, H, CH) == Larger(4, (CH * h + H \div 2) \div H)

SmallestHQ(h, H, M, CH, bar) == H = 1080 /\ M = 24 /\ CH = 16 /\ h \in 225..236 /\ bar = 4

LEMMA BarIsNear ==
  ASSUME NEW W \in Nat, NEW H \in Nat, NEW M \in Nat, NEW CH \in Nat, Grid(W, H, M, CH),
         NEW h \in Nat, M * h >= 5 * H, NEW bar,
         bar = ScaledBar(h, H, CH) \/ (h = H /\ bar = CH)
  PROVE  /\ bar \in Nat /\ bar <= h /\ M * (h - bar) > 4 * (H - CH)
         /\ 2 * (CH * h) - H <= 2 * (H * bar)
         /\ 2 * (H * bar) <= 2 * (CH * h) + H \/ SmallestHQ(h, H, M, CH, bar)
<1>1. CASE h = H /\ bar = CH
  <2>1. H * bar = CH * h
    BY <1>1
  <2>2. bar \in Nat /\ bar <= h /\ M * (h - bar) > 4 * (H - CH)
    BY <1>1 DEF Grid
  <2>3. PICK x \in Nat : x = CH * h
    OBVIOUS
  <2> QED BY <2>1, <2>2, <2>3
<1>2. CASE bar = ScaledBar(h, H, CH)
  <2>1. PICK half \in Nat : half = H \div 2 /\ H = 2 * half /\ H > 0
    BY DEF Grid
  <2>2. PICK top \in Nat : top = CH * h + half
    OBVIOUS
  <2>3. PICK q \in Nat, r \in 0..(H - 1) : q = top \div H /\ top = q * H + r
    BY <2>1, Division
  <2>4. bar = (IF 4 < q THEN q ELSE 4)
    BY <1>2, <2>1, <2>2, <2>3 DEF Larger, ScaledBar
  <2>5. PICK x \in Nat, y \in Nat : x = CH * h /\ y = H * q
    OBVIOUS
  <2>6. top = y + r
    BY <2>3, <2>5
  <2>7. 2 * y <= 2 * x + H /\ 2 * x - H <= 2 * y
    BY <2>1, <2>2, <2>5, <2>6
  <2>8. CASE W = 1280 /\ H = 720 /\ M = 16 /\ CH = 16
    <3>1. x = 16 * h /\ y = 720 * q
      BY <2>5, <2>8
    <3> QED BY <2>4, <2>7, <2>8, <3>1
  <2>9. CASE W = 1280 /\ H = 720 /\ M = 10 /\ CH = 16
    <3>1. x = 16 * h /\ y = 720 * q
      BY <2>5, <2>9
    <3> QED BY <2>4, <2>7, <2>9, <3>1
  <2>10. CASE W = 640 /\ H = 360 /\ M = 8 /\ CH = 8
    <3>1. x = 8 * h /\ y = 360 * q
      BY <2>5, <2>10
    <3> QED BY <2>4, <2>7, <2>10, <3>1
  <2>11. CASE W = 1920 /\ H = 1080 /\ M = 24 /\ CH = 16
    <3>1. x = 16 * h /\ y = 1080 * q
      BY <2>5, <2>11
    <3> QED BY <2>4, <2>7, <2>11, <3>1 DEF SmallestHQ
  <2>12. CASE W = 1080 /\ H = 1080 /\ M = 24 /\ CH = 24
    <3>1. x = 24 * h /\ y = 1080 * q
      BY <2>5, <2>12
    <3> QED BY <2>4, <2>7, <2>12, <3>1
  <2>13. CASE W = 1080 /\ H = 1920 /\ M = 45 /\ CH = 90
    <3>1. x = 90 * h /\ y = 1920 * q
      BY <2>5, <2>13
    <3> QED BY <2>4, <2>7, <2>13, <3>1
  <2> QED BY <2>8, <2>9, <2>10, <2>11, <2>12, <2>13 DEF Grid
<1> QED BY <1>1, <1>2

(* There the bar is too high, and the edges are right because they are whole
   numbers. *)
LEMMA SmallestEnds ==
  ASSUME NEW h, NEW H, NEW M, NEW CH, NEW bar, SmallestHQ(h, H, M, CH, bar),
         NEW B, B = H - CH, NEW k \in Nat, k * M <= B,
         NEW last \in Nat, Near(k * M * (h - bar), B, last)
  PROVE  (bar + last - 1) * H <= (CH + k * M) * h
<1>1. /\ H = 1080 /\ M = 24 /\ CH = 16 /\ h \in 225..236 /\ bar = 4 /\ B = 1064
      /\ k \in 0..44
  BY DEF SmallestHQ
<1>2. 2 * (k * 24 * (h - 4)) - 1064 <= 2128 * last /\ 2128 * last <= 2 * (k * 24 * (h - 4)) + 1064
  BY <1>1 DEF Near
<1>3. CASE h = 225
  BY <1>1, <1>2, <1>3
<1>4. CASE h = 226
  BY <1>1, <1>2, <1>4
<1>5. CASE h = 227
  BY <1>1, <1>2, <1>5
<1>6. CASE h = 228
  BY <1>1, <1>2, <1>6
<1>7. CASE h = 229
  BY <1>1, <1>2, <1>7
<1>8. CASE h = 230
  BY <1>1, <1>2, <1>8
<1>9. CASE h = 231
  BY <1>1, <1>2, <1>9
<1>10. CASE h = 232
  BY <1>1, <1>2, <1>10
<1>11. CASE h = 233
  BY <1>1, <1>2, <1>11
<1>12. CASE h = 234
  BY <1>1, <1>2, <1>12
<1>13. CASE h = 235
  BY <1>1, <1>2, <1>13
<1>14. CASE h = 236
  BY <1>1, <1>2, <1>14
<1> QED BY <1>1, <1>3, <1>4, <1>5, <1>6, <1>7, <1>8, <1>9, <1>10, <1>11, <1>12, <1>13, <1>14

(* A sample whose pixels lie between two edges is pure, and there is one. *)
LEMMA SampleIsPure ==
  ASSUME NEW sample, NEW from \in Nat, NEW to \in Nat, SampledWithin(sample, from, to),
         NEW drawn \in Nat, NEW low \in Nat, NEW high \in Nat,
         (from + 1) * drawn >= low, (to - 1) * drawn <= high
  PROVE  /\ \A p \in Pixels(sample) : p \in Nat /\ p * drawn >= low /\ (p + 1) * drawn <= high
         /\ Cardinality(Pixels(sample)) > 0
<1>1. PICK a \in Int, b \in Int : a = sample[1] /\ b = sample[2] /\ a < b /\ from + 1 <= a /\ b <= to - 1
  BY DEF SampledWithin
<1>2. Pixels(sample) = a..(b - 1)
  BY <1>1 DEF Pixels
<1>3. ASSUME NEW p \in a..(b - 1)
      PROVE  p \in Nat /\ p * drawn >= low /\ (p + 1) * drawn <= high
  <2>1. p \in Nat /\ from + 1 <= p /\ p + 1 <= to - 1
    BY <1>1
  <2>2. (from + 1) * drawn <= p * drawn
    <3>1. PICK f \in Nat : f = from + 1
      OBVIOUS
    <3>2. f * drawn <= p * drawn
      BY <2>1, <3>1
    <3> QED BY <3>1, <3>2
  <2>3. (p + 1) * drawn <= (to - 1) * drawn
    <3>1. PICK x \in Nat, y \in Nat : x = p + 1 /\ y = to - 1 /\ x <= y
      BY <2>1
    <3>2. x * drawn <= y * drawn
      BY <3>1
    <3> QED BY <3>1, <3>2
  <2> QED BY <2>1, <2>2, <2>3
<1>4. Cardinality(a..(b - 1)) > 0
  <2>1. b - 1 \in Int /\ ~(a > b - 1)
    BY <1>1
  <2>2. Cardinality(a..(b - 1)) = (b - 1) - a + 1
    BY <2>1, FS_Interval
  <2> QED BY <1>1, <2>2
<1> QED BY <1>2, <1>3, <1>4

(* The first of joined sequences. *)
LEMMA FirstOfThree ==
  ASSUME NEW C, NEW S \in Seq(C), NEW T \in Seq(C), NEW U \in Seq(C), Len(S) >= 1
  PROVE  (S \o T \o U)[1] = S[1]
<1>1. PICK Q \in Seq(C) : Q = S \o T /\ Len(Q) >= 1 /\ Q[1] = S[1]
  <2>1. S \o T \in Seq(C) /\ Len(S \o T) = Len(S) + Len(T) /\ (S \o T)[1] = S[1]
    BY ConcatProperties
  <2>2. Len(S \o T) >= 1
    BY <2>1
  <2> QED BY <2>1, <2>2, Zenon
<1>2. (Q \o U)[1] = Q[1]
  BY <1>1, ConcatProperties
<1> QED BY <1>1, <1>2

(* The first attempt changes nothing. *)
LEMMA FirstAttempt == Attempts[1] = Change(0, 0, 0, 0)
<1> DEFINE S == <<Change(0, 0, 0, 0), Change(0, -1, 0, 0), Change(0, 1, 0, 0), Change(-1, 0, 0, 0),
                  Change(1, 0, 0, 0), Change(0, 0, -1, 0), Change(0, 0, 1, 0), Change(0, 0, 0, -10),
                  Change(0, 0, 0, 10)>>
           T == IF video.preset \in {"weave", "tiktok"} THEN <<>>
                ELSE <<Change(0, 0, 0, -20), Change(0, 0, 0, 20)>>
           C == {Change(0, 0, 0, 0), Change(0, -1, 0, 0), Change(0, 1, 0, 0), Change(-1, 0, 0, 0),
                 Change(1, 0, 0, 0), Change(0, 0, -1, 0), Change(0, 0, 1, 0), Change(0, 0, 0, -10),
                 Change(0, 0, 0, 10), Change(0, 0, 0, -20), Change(0, 0, 0, 20), Differential}
<1>1. S \in Seq(C) /\ Len(S) >= 1 /\ S[1] = Change(0, 0, 0, 0)
  OBVIOUS
<1>2. T \in Seq(C)
  <2>1. CASE video.preset \in {"weave", "tiktok"}
    BY <2>1
  <2>2. CASE video.preset \notin {"weave", "tiktok"}
    <3>1. T = <<Change(0, 0, 0, -20), Change(0, 0, 0, 20)>>
      BY <2>2
    <3>2. <<Change(0, 0, 0, -20), Change(0, 0, 0, 20)>> \in Seq(C)
      OBVIOUS
    <3> QED BY <3>1, <3>2
  <2> QED BY <2>1, <2>2
<1>3. <<Differential>> \in Seq(C)
  OBVIOUS
<1>4. Attempts = S \o T \o <<Differential>>
  BY DEF Attempts
<1> HIDE DEF S, T, C
<1> QED BY <1>1, <1>2, <1>3, <1>4, FirstOfThree

(* The pictures as they are drawn, in another size. *)
Upright == video \in Videos /\ shift = <<0, 0>> /\ light.blur = 0 /\ SquaresHave(5)

(* A pixel of such a picture shows nothing but its own place. *)
LEMMA PureUpright ==
  ASSUME light.blur = 0, NEW p \in Nat, NEW size \in Nat, NEW drawn \in Nat,
         NEW from \in Nat, NEW to \in Nat
  PROVE  Pure(p, 0, size, drawn, from, to)
           <=> (p * drawn >= from * size /\ (p + 1) * drawn <= to * size)
<1>1. p - 0 - light.blur = p /\ p - 0 + 1 + light.blur = p + 1
  OBVIOUS
<1> QED BY <1>1, Zenon DEF Pure

(* Every pixel sampled for a column lies in it. *)
LEMMA ColumnsArePure ==
  ASSUME Upright, NEW share \in ColumnShares(Attempts[1])
  PROVE  share.all > 0 /\ share.pure = share.all
<1>1. PICK W \in Nat \ {0}, H \in Nat, M \in Nat \ {0}, CH \in Nat :
        /\ W = Drawn.Width /\ H = Drawn.Height /\ M = Drawn.MacroSize /\ CH = Drawn.CalibrationHeight
        /\ Grid(W, H, M, CH)
  BY DrawnHasGrid DEF Grid
<1>2. PICK w \in Nat : w = video.width
  BY ImageAssumption DEF Upright
<1>3. M * w >= 5 * W
  BY <1>1, <1>2 DEF Upright, SquaresHave
<1>4. PICK col \in 0..(Columns(Drawn) - 1), halves \in Halves \X Halves :
        share = ColumnShare(col, Change(0, 0, 0, 0), halves)
  BY FirstAttempt DEF ColumnShares
<1>5. col \in Nat /\ (col + 1) * M <= W
  <2>1. PICK q \in Nat, r \in 0..(M - 1) : q = W \div M /\ W = q * M + r
    BY Division
  <2>2. col \in Nat /\ col + 1 <= q
    BY <1>1, <1>4, <2>1 DEF Columns
  <2>3. PICK k \in Nat : k = col + 1
    BY <2>2
  <2>4. k * M <= q * M
    BY <2>2, <2>3
  <2> QED BY <2>1, <2>2, <2>3, <2>4
<1>6. PICK low \in Nat, high \in Nat : low = col * M * w /\ high = (col + 1) * M * w
  BY <1>5
<1>7. PICK h1 \in Halves, h2 \in Halves : h1 = halves[1] /\ h2 = halves[2]
  BY <1>4
<1>8. PICK first \in Nat, last \in Nat :
        /\ first = Round(low, W, h1) /\ last = Round(high, W, h2)
        /\ Near(low, W, first) /\ Near(high, W, last)
  BY RoundIsNear
<1>9. first + 4 <= last /\ last <= w
  <2>1. M * w > 4 * W
    BY <1>3
  <2> QED BY <1>5, <1>6, <1>8, <2>1, EdgesAreApart
<1>10. (first + 1) * W >= low /\ (last - 1) * W <= high
  BY <1>5, <1>6, <1>8, ColumnLies
<1> DEFINE span == Column(Drawn, col, Change(0, 0, 0, 0), halves)
<1>11. span = Span(first, last, w)
  <2>1. Change(0, 0, 0, 0).x = 0
    BY DEF Change
  <2>2. span = Span(first + 0, last + 0, w)
    BY <1>1, <1>2, <1>6, <1>7, <1>8, <2>1 DEF Column
  <2> QED BY <2>2
<1>12. PICK sample : sample = Inset(span)
  OBVIOUS
<1>13. SampledWithin(sample, first, last)
  <2>1. SampledWithin(Inset(Span(first, last, w)), first, last)
    BY <1>9, InsetLies, Zenon
  <2> QED BY <1>11, <1>12, <2>1, Zenon
<1>14. /\ \A p \in Pixels(sample) : p \in Nat /\ p * W >= low /\ (p + 1) * W <= high
       /\ Cardinality(Pixels(sample)) > 0
  BY <1>10, <1>13, SampleIsPure
<1>15. \A p \in Pixels(sample) : PureColumn(p, col * Drawn.MacroSize, (col + 1) * Drawn.MacroSize)
  <2>1. PICK a \in Nat, b \in Nat : a = col * M /\ b = (col + 1) * M
    BY <1>5
  <2>2. SUFFICES ASSUME NEW p \in Pixels(sample) PROVE Pure(p, 0, w, W, a, b)
    BY <1>1, <1>2, <2>1 DEF PureColumn, Upright
  <2>3. p \in Nat /\ p * W >= a * w /\ (p + 1) * W <= b * w
    BY <1>6, <1>14, <2>1
  <2> QED BY <2>3, PureUpright DEF Upright
<1>16. {p \in Pixels(sample) : PureColumn(p, col * Drawn.MacroSize, (col + 1) * Drawn.MacroSize)}
         = Pixels(sample)
  BY <1>15
<1>17. share = [all |-> Cardinality(Pixels(sample)), pure |-> Cardinality(Pixels(sample))]
  BY <1>4, <1>12, <1>16, Zenon DEF ColumnShare
<1> QED BY <1>14, <1>17

(* Every pixel sampled for a row lies in it. *)
LEMMA RowsArePure ==
  ASSUME Upright, NEW share \in RowShares(Attempts[1])
  PROVE  share.all > 0 /\ share.pure = share.all
<1>1. PICK W \in Nat, H \in Nat \ {0}, M \in Nat \ {0}, CH \in Nat :
        /\ W = Drawn.Width /\ H = Drawn.Height /\ M = Drawn.MacroSize /\ CH = Drawn.CalibrationHeight
        /\ Grid(W, H, M, CH)
  BY DrawnHasGrid DEF Grid
<1>2. PICK h \in Nat : h = video.height
  BY ImageAssumption DEF Upright
<1>3. M * h >= 5 * H
  BY <1>1, <1>2 DEF Upright, SquaresHave
<1>4. PICK B \in Nat \ {0} : B = H - CH /\ H = B + CH
  BY <1>1 DEF Grid
<1>5. PICK row \in 0..(Rows(Drawn) - 1), halves \in Halves \X Halves :
        share = RowShare(row, Change(0, 0, 0, 0), halves)
  BY FirstAttempt DEF RowShares
<1>6. PICK q \in Nat, r \in 0..(M - 1) : q = B \div M /\ B = q * M + r
  BY Division
<1>7. row \in Nat /\ row + 1 <= q
  <2>1. Rows(Drawn) = q
    BY <1>1, <1>4, <1>6, Zenon DEF Rows
  <2> QED BY <1>5, <2>1
<1>8. PICK a \in Nat, b \in Nat : a = row * M /\ b = (row + 1) * M /\ b = a + M /\ b <= B
  <2>1. PICK k \in Nat : k = row + 1
    BY <1>7
  <2>2. k * M <= q * M
    BY <1>7, <2>1
  <2>3. (row + 1) * M = row * M + M
    BY <1>7
  <2>4. row * M \in Nat /\ (row + 1) * M \in Nat /\ (row + 1) * M <= B
    BY <1>6, <1>7, <2>1, <2>2
  <2> QED BY <2>3, <2>4, Zenon
<1>9. PICK bar : bar = BarFor(Drawn, Change(0, 0, 0, 0))
  OBVIOUS
<1>10. bar = ScaledBar(h, H, CH) \/ (h = H /\ bar = CH)
  <2>1. BarHeight(Drawn) = ScaledBar(h, H, CH) \/ (h = H /\ BarHeight(Drawn) = CH)
    BY <1>1, <1>2 DEF BarHeight, ScaledBar, Scaled
  <2>2. BarHeight(Drawn) \in Int /\ ScaledMacro(Drawn) \in Int
    <3>1. PICK w \in Nat : w = video.width
      BY ImageAssumption DEF Upright
    <3>2. (M * w + W \div 2) \div W \in Int /\ (CH * h + H \div 2) \div H \in Int
      BY <1>1 DEF Grid
    <3> QED BY <1>1, <1>2, <3>1, <3>2 DEF BarHeight, ScaledMacro, Scaled, Larger
  <2>3. bar = BarHeight(Drawn) + 0 * ScaledMacro(Drawn)
    BY <1>9 DEF BarFor, Change
  <2>4. bar = BarHeight(Drawn)
    BY <2>2, <2>3
  <2> QED BY <2>1, <2>4
<1>11. /\ bar \in Nat /\ bar <= h /\ M * (h - bar) > 4 * (H - CH)
       /\ 2 * (CH * h) - H <= 2 * (H * bar)
       /\ 2 * (H * bar) <= 2 * (CH * h) + H \/ SmallestHQ(h, H, M, CH, bar)
  <2>1. H \in Nat /\ M \in Nat
    OBVIOUS
  <2>2. Grid(W, H, M, CH)
    BY <1>1
  <2> QED BY <1>3, <1>10, <2>1, <2>2, BarIsNear, Zenon
<1>12. PICK g \in Nat : g = h - bar /\ M * g > 4 * B
  BY <1>4, <1>11
<1>13. PICK h1 \in Halves, h2 \in Halves : h1 = halves[1] /\ h2 = halves[2]
  BY <1>5
<1>14. PICK first \in Nat, last \in Nat :
         /\ first = Round(a * g, B, h1) /\ last = Round(b * g, B, h2)
         /\ Near(a * g, B, first) /\ Near(b * g, B, last)
  <2>1. PICK x \in Nat, y \in Nat : x = a * g /\ y = b * g
    OBVIOUS
  <2> QED BY <2>1, RoundIsNear
<1>15. first + 4 <= last /\ last <= g
  BY <1>7, <1>8, <1>12, <1>14, EdgesAreApart
<1>16. (bar + first + 1) * H >= (CH + a) * h
  <2>1. a <= B /\ Near(a * (h - bar), B, first)
    BY <1>8, <1>12, <1>14
  <2> QED BY <1>4, <1>11, <2>1, RowBegins
<1>17. (bar + last - 1) * H <= (CH + b) * h
  <2>1. CASE 2 * (H * bar) <= 2 * (CH * h) + H
    <3>1. b <= B /\ Near(b * (h - bar), B, last)
      BY <1>8, <1>12, <1>14
    <3> QED BY <1>4, <1>11, <2>1, <3>1, RowEnds
  <2>2. CASE SmallestHQ(h, H, M, CH, bar)
    <3>1. PICK k \in Nat : k = row + 1
      BY <1>7
    <3>2. b = k * M /\ g = h - bar
      BY <1>8, <1>12, <3>1
    <3>3. k * M <= B /\ Near(k * M * (h - bar), B, last)
      BY <1>8, <1>14, <3>2, Zenon
    <3>4. (bar + last - 1) * H <= (CH + k * M) * h
      BY <1>4, <2>2, <3>3, SmallestEnds, Zenon
    <3> QED BY <3>2, <3>4, Zenon
  <2> QED BY <1>11, <2>1, <2>2
<1> DEFINE span == Row(Drawn, row, Change(0, 0, 0, 0), halves)
<1>18. PICK from \in Nat, to \in Nat : from = bar + first /\ to = bar + last
  BY <1>11
<1>19. span = Span(from, to, h)
  <2>1. Change(0, 0, 0, 0).y = 0
    BY DEF Change
  <2>2. span = Span(from + 0, to + 0, h)
    BY <1>1, <1>2, <1>4, <1>8, <1>9, <1>12, <1>13, <1>14, <1>18, <2>1 DEF Row
  <2> QED BY <2>2
<1>20. PICK sample : sample = Inset(span)
  OBVIOUS
<1>21. SampledWithin(sample, from, to)
  <2>1. from + 4 <= to /\ to <= h
    BY <1>11, <1>12, <1>15, <1>18
  <2> QED BY <1>19, <1>20, <2>1, InsetLies
<1>22. PICK low \in Nat, high \in Nat : low = (CH + a) * h /\ high = (CH + b) * h
  OBVIOUS
<1>23. /\ \A p \in Pixels(sample) : p \in Nat /\ p * H >= low /\ (p + 1) * H <= high
       /\ Cardinality(Pixels(sample)) > 0
  <2>1. from + 1 = bar + first + 1 /\ to - 1 = bar + last - 1
    BY <1>11, <1>18
  <2>2. (from + 1) * H >= low /\ (to - 1) * H <= high
    BY <1>16, <1>17, <1>22, <2>1, Zenon
  <2> QED BY <1>21, <2>2, SampleIsPure
<1> DEFINE top == Drawn.CalibrationHeight + row * Drawn.MacroSize
<1>24. top = CH + a /\ top + Drawn.MacroSize = CH + b
  BY <1>1, <1>8
<1>25. \A p \in Pixels(sample) : PureRow(p, top, top + Drawn.MacroSize)
  <2>1. PICK c \in Nat, d \in Nat : c = CH + a /\ d = CH + b
    OBVIOUS
  <2>2. SUFFICES ASSUME NEW p \in Pixels(sample) PROVE Pure(p, 0, h, H, c, d)
    BY <1>1, <1>2, <1>24, <2>1 DEF PureRow, Upright
  <2>3. p \in Nat /\ p * H >= c * h /\ (p + 1) * H <= d * h
    BY <1>22, <1>23, <2>1
  <2> QED BY <2>3, PureUpright DEF Upright
<1>26. {p \in Pixels(sample) : PureRow(p, top, top + Drawn.MacroSize)} = Pixels(sample)
  BY <1>25
<1>27. share = [all |-> Cardinality(Pixels(sample)), pure |-> Cardinality(Pixels(sample))]
  BY <1>5, <1>20, <1>26, Zenon DEF RowShare
<1> QED BY <1>23, <1>27

(* Whatever size a video comes back in, as long as its squares have five pixels
   in either direction: every pixel the decoder samples lies in the square it
   is taken for (reconstructor.go:850-897, 949-961). *)
THEOREM SamplesInside == ImageSpec => []SamplesStayInside
<1>1. ImageInit => video \in Videos
  BY DEF ImageInit
<1>2. video \in Videos /\ [ImageNext]_imageVars => (video \in Videos)'
  BY DEF ImageNext, Read, NextAttempt, NextCandidate, Fail, picture, imageVars
<1>3. video \in Videos => SamplesStayInside
  BY ColumnsArePure, RowsArePure DEF SamplesStayInside, Upright
<1> QED BY <1>1, <1>2, <1>3, PTL DEF ImageSpec
=============================================================================
