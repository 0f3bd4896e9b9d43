----------------------------- MODULE WeaveBurst ------------------------------
(***************************************************************************)
(* Encode's frames in the order of the video, and a burst: consecutive     *)
(* frames of the video that are lost together.  Every configuration, input *)
(* and first lost frame is tried, and the burst grows frame by frame.      *)
(***************************************************************************)
EXTENDS WeaveInterleave

CONSTANTS
  Configurations, (* the configurations that are tried *)
  InputSizes      (* the sizes of the inputs           *)

VARIABLES
  config,    (* the configuration                       *)
  inputSize, (* the size of the input                   *)
  video,     (* its frames in the order of the video    *)
  from,      (* the place of the first lost frame       *)
  len        (* the length of the burst                 *)

burstVars == <<config, inputSize, video, from, len>>

(* Mutant: the order of Encode, block after block. *)
KeepBlocksTogether(stream) == stream

(* The loops of InterleaveByBlock: the frames of a slot, by ascending block. *)
InterleaveByBlock(stream) ==
  LET place == [k \in DOMAIN stream |-> <<SlotOf(stream[k]), BlockOf(stream[k])>>]
      slots == {place[k][1] : k \in DOMAIN stream}
      starts == Ascending({place[k][2] : k \in DOMAIN stream})
      maxSlot == CHOOSE m \in slots : \A t \in slots : t <= m
      At(slot, start) ==
        LET k == {x \in DOMAIN stream : place[x] = <<slot, start>>}
        IN  IF k = {} THEN <<>> ELSE <<stream[CHOOSE x \in k : TRUE]>>
      Slot(slot) == FlattenSeq([k \in DOMAIN starts |-> At(slot, starts[k])])
  IN  FlattenSeq([slot \in 1..(maxSlot + 1) |-> Slot(slot - 1)])

BurstInit ==
  /\ config \in Configurations
  /\ inputSize \in InputSizes /\ PlanAccepts(inputSize, config)
  /\ video = InterleaveByBlock(Encode(inputSize, config))
  /\ from \in 1..Len(video)
  /\ len = 0

LoseNext ==
  /\ from + len <= Len(video)
  /\ len' = len + 1
  /\ UNCHANGED <<config, inputSize, video, from>>

BurstSpec == BurstInit /\ [][LoseNext]_burstVars

Lost == {video[k] : k \in from..(from + len - 1)}

FullBlocks == DataFrames(inputSize, config) \div config.DataFramesPerBlock

(* Every frame Encode makes parses and passes the checks of the decoder,    *)
(* which computes sizes, block starts and the number of frames on its own,  *)
(* for every budget PlanFor accepts; the data frames, taken by their        *)
(* indexes, add up to the input, and only an empty input has an empty one   *)
(* (encode.go:43-80, frame.go:106-114, decode.go:216-235).                  *)
EncodeIsAccepted == len = 0 =>
  /\ \A f \in ToSet(video) :
       /\ ParseAccepts(f) /\ FrameMetadataLooksValid(f, config)
       /\ f.Payload.size = 0 => inputSize = 0
  /\ LET size == [i \in 1..DataFrames(inputSize, config) |->
                   (CHOOSE f \in ToSet(video) :
                      f.FrameType = Data /\ f.FrameIndex = i - 1).Payload.size]
         sum[i \in 0..DataFrames(inputSize, config)] == IF i = 0 THEN 0 ELSE sum[i - 1] + size[i]
     IN  inputSize = sum[DataFrames(inputSize, config)]

(* Interleaving keeps every frame, shows it once, and shows the frames in   *)
(* the order `Before`: slot by slot, in a slot by block (interleave.go:56). *)
VideoIsOrderedPermutation == len = 0 =>
  /\ ToSet(video) = Encoded(inputSize, config)
  /\ \A i, j \in DOMAIN video : i < j => Before(video[i], video[j])

(* The promise behind the interleaving, with the short last block counted   *)
(* in: a burst of R frames for every full block, R if there is none, leaves *)
(* a recoverable rest (interleave.go:5, encode.go:33-81).                   *)
BurstIsRecoverable ==
  len <= config.RescueFramesPerBlock * (IF FullBlocks = 0 THEN 1 ELSE FullBlocks) =>
    Recoverable(Encoded(inputSize, config) \ Lost, inputSize, config)

(* The comment on InterleaveByBlock (interleave.go:5): consecutive losses   *)
(* are spread across different blocks.  Where the stream has blocks to      *)
(* choose from, two consecutive losses would not hit the same one.          *)
ConsecutiveLossesHitDifferentBlocks ==
  len = 2 /\ BlockCount(DataFrames(inputSize, config), config) > 1 =>
    BlockOf(video[from]) # BlockOf(video[from + 1])
=============================================================================
