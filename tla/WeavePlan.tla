------------------------------ MODULE WeavePlan ------------------------------
(***************************************************************************)
(* The arithmetic of the Weave format: how an input of some number of      *)
(* bytes is cut into data frames and blocks, how many rescue frames are    *)
(* added, and which headers Encode writes and Reconstruct accepts.         *)
(*                                                                         *)
(* A configuration is a record with the fields of weave.Config, a frame a  *)
(* record with the fields of weave.Header that Reconstruct looks at plus   *)
(* its payload.  The bytes of a payload are abstracted to what they encode *)
(* and how many they are: the slice of the input that belongs to a data    *)
(* frame, the r-th parity of the block that starts at data frame s,        *)
(* garbage, or no payload at all (a nil slice).  A header's DataSize is    *)
(* the length of its payload: ParseFrame cuts the payload to DataSize and  *)
(* checks its CRC.                                                         *)
(***************************************************************************)
EXTENDS Integers, FiniteSets

CONSTANTS
  MaxPayloadBytes,   (* weave.MaxPayloadBytes, 256 MiB in the code  *)
  MaxFrameCount,     (* weave.maxFrameCount, 2^20 in the code       *)
  MaxUint16,         (* math.MaxUint16, bounds Config.PayloadSize   *)
  MaxBlockFrames     (* 255: data and rescue frames of a block      *)

ASSUME LimitsAssumption ==
  /\ MaxPayloadBytes \in Nat
  /\ MaxFrameCount \in Nat \ {0}
  /\ MaxUint16 \in Nat \ {0}
  /\ MaxBlockFrames \in 1..255

MaxProtectedBytes == 2 * MaxPayloadBytes

Data == "data"
Rescue == "rescue"

(* Config.validate *)
Valid(cfg) ==
  /\ cfg.PayloadSize \in 1..MaxUint16
  /\ cfg.DataFramesPerBlock \in 1..MaxBlockFrames
  /\ cfg.RescueFramesPerBlock \in 0..MaxBlockFrames
  /\ cfg.DataFramesPerBlock + cfg.RescueFramesPerBlock <= MaxBlockFrames

-----------------------------------------------------------------------------
(* The frame budget *)

DataFrames(n, cfg) == IF n > 0 THEN 1 + (n - 1) \div cfg.PayloadSize ELSE 1

BlockCount(frames, cfg) ==
  (frames + cfg.DataFramesPerBlock - 1) \div cfg.DataFramesPerBlock

RescueFrames(n, cfg) ==
  BlockCount(DataFrames(n, cfg), cfg) * cfg.RescueFramesPerBlock

(* PlanFor returns a plan (and no error) exactly for these inputs. *)
PlanAccepts(n, cfg) ==
  /\ Valid(cfg)
  /\ n \in 0..MaxPayloadBytes
  /\ DataFrames(n, cfg) <= MaxFrameCount
  /\ DataFrames(n, cfg) + RescueFrames(n, cfg) <= MaxFrameCount
  /\ n + RescueFrames(n, cfg) * cfg.PayloadSize <= MaxProtectedBytes

DataSizeForFrame(i, n, cfg) ==
  LET start == i * cfg.PayloadSize
  IN  CASE start >= n                  -> 0
        [] n - start > cfg.PayloadSize -> cfg.PayloadSize
        [] OTHER                       -> n - start

BlockStarts(frames, cfg) ==
  {b * cfg.DataFramesPerBlock : b \in 0..(BlockCount(frames, cfg) - 1)}

BlockStartOf(i, cfg) == i - (i % cfg.DataFramesPerBlock)

(* The data frames of the block that starts at s: a last block may be short. *)
BlockFrames(s, frames, cfg) ==
  {i \in 0..(frames - 1) : s <= i /\ i < s + cfg.DataFramesPerBlock}

-----------------------------------------------------------------------------
(* Frames *)

PayloadOf(kind, index, rescue, size) ==
  [kind |-> kind, index |-> index, rescue |-> rescue, size |-> size]

DataPayload(i, size) == PayloadOf(Data, i, 0, size)
RescuePayload(s, r, size) == PayloadOf(Rescue, s, r, size)
Garbage(size) == PayloadOf("garbage", 0, 0, size)
NoPayload == PayloadOf("none", 0, 0, 0)

Frame(type, index, rescue, n, payload, cfg) ==
  [FrameType |-> type, FrameIndex |-> index, RescueIndex |-> rescue,
   BlockSize |-> cfg.DataFramesPerBlock, TotalFrames |-> DataFrames(n, cfg),
   TotalDataBytes |-> n, Payload |-> payload]

(* The bytes encodeToValidated slices out of the input for frame i. *)
SliceSize(i, n, cfg) ==
  LET start == i * cfg.PayloadSize
      end == IF start + cfg.PayloadSize > n THEN n ELSE start + cfg.PayloadSize
  IN  IF start < n THEN end - start ELSE 0

DataFrame(i, n, cfg) ==
  Frame(Data, i, 0, n, DataPayload(i, SliceSize(i, n, cfg)), cfg)

(* Mutant: the header of a rescue frame holds the number of its block. *)
RescueFrameByBlock(s, r, n, cfg) ==
  Frame(Rescue, s \div cfg.DataFramesPerBlock, r, n,
        RescuePayload(s, r, cfg.PayloadSize), cfg)

RescueFrame(s, r, n, cfg) ==
  Frame(Rescue, s, r, n, RescuePayload(s, r, cfg.PayloadSize), cfg)

(* The frames Encode makes of n bytes. *)
Encoded(n, cfg) ==
  {DataFrame(i, n, cfg) : i \in 0..(DataFrames(n, cfg) - 1)}
    \cup {RescueFrame(s, r, n, cfg) :
            s \in BlockStarts(DataFrames(n, cfg), cfg),
            r \in 0..(cfg.RescueFramesPerBlock - 1)}

(* What ParseFrameView checks of a header whose payload passed its CRC. *)
ParseAccepts(h) ==
  /\ h.FrameType \in {Data, Rescue}
  /\ h.TotalDataBytes \in 0..MaxPayloadBytes
  /\ h.TotalFrames \in 1..MaxFrameCount
  /\ h.FrameIndex < h.TotalFrames
  /\ h.BlockSize \in 1..255

FrameMetadataLooksValid(h, cfg) ==
  /\ h.TotalDataBytes <= MaxPayloadBytes
  /\ h.BlockSize = cfg.DataFramesPerBlock
  /\ PlanAccepts(h.TotalDataBytes, cfg)
  /\ h.TotalFrames = DataFrames(h.TotalDataBytes, cfg)
  /\ h.FrameIndex < h.TotalFrames
  /\ \/ /\ h.FrameType = Data
        /\ h.RescueIndex = 0
        /\ h.Payload.size = DataSizeForFrame(h.FrameIndex, h.TotalDataBytes, cfg)
     \/ /\ h.FrameType = Rescue
        /\ h.RescueIndex < cfg.RescueFramesPerBlock
        /\ h.FrameIndex % h.BlockSize = 0
        /\ h.Payload.size = cfg.PayloadSize
=============================================================================
