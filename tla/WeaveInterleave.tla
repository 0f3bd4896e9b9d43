--------------------------- MODULE WeaveInterleave ---------------------------
(***************************************************************************)
(* The order in which Encode emits the frames, the order they have in the  *)
(* video (InterleaveByBlock), and the losses                               *)
(* the rescue frames of each block make up for.                            *)
(***************************************************************************)
EXTENDS WeavePlan, SequencesExt

BlockOf(f) ==
  IF f.FrameType = Data THEN (f.FrameIndex \div f.BlockSize) * f.BlockSize
                        ELSE f.FrameIndex

SlotOf(f) ==
  IF f.FrameType = Data THEN f.FrameIndex - BlockOf(f)
                        ELSE f.BlockSize + f.RescueIndex

(* The loop of encodeToValidated: a block's data frames, then its rescues. *)
Encode(size, c) ==
  LET total == DataFrames(size, c)
      Block(b) ==
        LET s == (b - 1) * c.DataFramesPerBlock
        IN  [k \in 1..Cardinality(BlockFrames(s, total, c)) |->
               DataFrame(s + k - 1, size, c)]
            \o [k \in 1..c.RescueFramesPerBlock |-> RescueFrame(s, k - 1, size, c)]
  IN  FlattenSeq([b \in 1..BlockCount(total, c) |-> Block(b)])

(* InterleaveByBlock goes slot by slot, and in a slot block by block. *)
Before(f, g) ==
  \/ SlotOf(f) < SlotOf(g)
  \/ SlotOf(f) = SlotOf(g) /\ BlockOf(f) < BlockOf(g)

(* The elements of a set by the number of elements that precede them. *)
Sorted(S, Precedes(_, _)) ==
  [k \in 1..Cardinality(S) |->
     CHOOSE x \in S : Cardinality({y \in S : Precedes(y, x)}) = k - 1]

Ascending(S) == Sorted(S, <)

(* The frame that follows the frames outside `unsent`. *)
First(unsent) == CHOOSE f \in unsent : \A g \in unsent \ {f} : Before(f, g)

-----------------------------------------------------------------------------
(* The received frames determine the n bytes when every block has at least *)
(* as many rescue frames as it misses data frames.                         *)
MissingOf(s, received, n, cfg) ==
  {i \in BlockFrames(s, DataFrames(n, cfg), cfg) :
     DataFrame(i, n, cfg) \notin received}

RescuesOf(s, received, n, cfg) ==
  {r \in 0..(cfg.RescueFramesPerBlock - 1) : RescueFrame(s, r, n, cfg) \in received}

Recoverable(received, n, cfg) ==
  \A s \in BlockStarts(DataFrames(n, cfg), cfg) :
    Cardinality(MissingOf(s, received, n, cfg))
      <= Cardinality(RescuesOf(s, received, n, cfg))
=============================================================================
