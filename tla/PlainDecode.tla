------------------------------ MODULE PlainDecode ------------------------------
(***************************************************************************)
(* The format of the presets before Weave: the slices VideoEncoder puts    *)
(* into frames, the way of the frames through a video, and                 *)
(* FrameReconstructor.ReconstructFile, which reads every image in several  *)
(* ways, takes the results in whatever order its workers finish, votes on  *)
(* the number of frames and joins what it has.                             *)
(*                                                                         *)
(* The bytes of the payload are numbered from 1, so that a byte out of     *)
(* place shows.  Noise stands for the bytes of padding frames, Junk for    *)
(* data that is not what was drawn.  What an image is read as comes from   *)
(* ShardRepair; a byte of data takes a shard.                              *)
(***************************************************************************)
EXTENDS Integers, Sequences, ShardRepair

CONSTANTS
  Sizes,       (* sizes of the payload *)
  Paddings,    (* numbers of padding frames *)
  MaxFrames,   (* above every index, and the largest number of frames, in a header *)
  MaxTrouble,  (* frames that do not come back as they were *)
  DedupAbove   (* equal images are dropped above this number of images: 100 *)

VARIABLES
  size, padding,  (* the video: its payload and its padding *)
  coming,         (* the frames that are still on their way *)
  trouble,
  images,         (* the images extracted, each as the results of its attempts *)
  waiting,        (* the images whose results were not yet collected *)
  frameByIndex,   (* the candidate kept for each index *)
  votes,          (* totalFrameVotes *)
  phase,          (* "transport", "collect", "done" or "failed" *)
  output

vars == <<size, padding, coming, trouble, images, waiting, frameByIndex, votes,
          phase, output>>
video == <<size, padding>>

Noise == -1
Junk == -2

-----------------------------------------------------------------------------
(* What EncodePayloads puts into the frames *)

(* The header takes one of the data shards. *)
Capacity == Codes[1].data - 1

FrameCount(n) ==
  LET remaining == IF n > Capacity THEN n - Capacity ELSE 0
  IN  1 + (remaining + Capacity - 1) \div Capacity

ASSUME PlainAssumption ==
  /\ Capacity > 0 /\ MaxFrames \in Nat
  /\ Sizes \subseteq Nat /\ \A n \in Sizes : FrameCount(n) <= MaxFrames
  /\ Paddings \subseteq 0..MaxFrames
  /\ MaxTrouble \in Nat /\ DedupAbove \in Nat

Smaller(a, b) == IF a < b THEN a ELSE b

(* Mutant: the last byte of a frame is the first of the next one, too. *)
FrameDataOverlapping(n, i) ==
  LET start == i * Capacity
      end == Smaller(start + Capacity + 1, n)
  IN  IF start >= n THEN <<>> ELSE [k \in 1..(end - start) |-> start + k]

FrameData(n, i) ==
  LET start == i * Capacity
      end == Smaller(start + Capacity, n)
  IN  IF start >= n THEN <<>> ELSE [k \in 1..(end - start) |-> start + k]

PlainFrame(i, total, data) == [index |-> i, total |-> total, data |-> data]

PayloadFrames == {PlainFrame(i, FrameCount(size), FrameData(size, i)) : i \in 0..(FrameCount(size) - 1)}

(* runEncode adds a payload of noise that fills its frames; their indexes   *)
(* begin with 0 again.                                                     *)
PaddingFrames == {PlainFrame(i, padding, [k \in 1..Capacity |-> Noise]) : i \in 0..(padding - 1)}

-----------------------------------------------------------------------------
(* What the attempts to read an image return *)

Verified(f) == [result |-> "verified", frame |-> f]
Unverified(f) == [result |-> "unverified", frame |-> f]
Error == [result |-> "error", frame |-> PlainFrame(0, 1, <<>>)]

(* One of the fields of a misread header is another number. *)
Misread(f) ==
  LET junk == [k \in DOMAIN f.data |-> Junk]
  IN  {g \in {PlainFrame(i, f.total, junk) : i \in 0..(MaxFrames - 1)}
             \cup {PlainFrame(f.index, t, junk) : t \in 1..MaxFrames} : g.index < g.total}

Damaged(f) == [f EXCEPT !.data = [k \in DOMAIN @ |-> Junk]]

(* The damage that the search for corrupt shards finds. *)
Correctable(b) == Cardinality(b.damaged) <= MaxRepairErasures(Codes[1])

(* What can be made of an image of a frame with some length, for every      *)
(* damage: a table, since it is the same for all frames.                   *)
Outcomes ==
  {[length |-> l, candidate |-> TryCodes(b, l), correctable |-> Correctable(b)] :
     b \in Buffers, l \in 1..Codes[1].data}

Length(f) == 1 + Len(f.data)

(* The results of an attempt with such an outcome. *)
Readings(f, c) ==
  LET frames == CASE c.header = "sent" /\ c.data -> {f}
                  [] c.header = "sent" /\ ~c.data -> {Damaged(f)}
                  [] OTHER -> Misread(f)
  IN  CASE c.result = "verified" -> {Verified(g) : g \in frames}
        [] c.result = "unverified" -> {Unverified(g) : g \in frames}
        [] OTHER -> {Error}

(* The first verified frame, or the first one that at least parses. *)
ProcessFrame(attempts) ==
  LET First(result) ==
        LET those == {k \in DOMAIN attempts : attempts[k].result = result}
        IN  attempts[CHOOSE k \in those : \A j \in those : k <= j]
      Some(result) == \E k \in DOMAIN attempts : attempts[k].result = result
  IN  IF Some("verified") THEN First("verified")
      ELSE IF Some("unverified") THEN First("unverified")
      ELSE Error

-----------------------------------------------------------------------------
(* The way of the video: of each frame come back some images.  The shuffled *)
(* order of the frames in the video is left out: results come in any order. *)

(* An image is kept as the frame it shows, what its attempts return, and    *)
(* whether one of them meets no more damage than can be corrected.         *)
Image(f, attempts, correctable) == [of |-> f, attempts |-> attempts, correctable |-> correctable]

UnharmedImages(f) ==
  {Image(f, <<r>>, TRUE) : r \in Readings(f, TryCodes(Intact, Length(f)))}

HarmedImages(f) ==
  UNION {{Image(f, <<r>>, o.correctable) : r \in Readings(f, o.candidate)} :
           o \in {x \in Outcomes : x.length = Length(f)}}

Unharmed(f) ==
  /\ \E i \in UnharmedImages(f) : images' = Append(images, i)
  /\ UNCHANGED trouble

(* No image, one with any damage, the same one twice, or one that is right  *)
(* at a later attempt only; and besides a damaged one there can be another *)
(* one that is not.                                                        *)
Harmed(f) ==
  /\ trouble < MaxTrouble /\ trouble' = trouble + 1
  /\ \/ UNCHANGED images
     \/ \E i \in UnharmedImages(f) : images' = images \o <<i, i>>
     \/ \E i \in HarmedImages(f) : images' = Append(images, i)
     \/ \E i \in HarmedImages(f), j \in UnharmedImages(f) :
          \/ images' = images \o <<i, j>>
          \/ images' = Append(images, Image(f, i.attempts \o j.attempts, TRUE))

Transport ==
  /\ phase = "transport"
  /\ coming # {}
  /\ LET f == CHOOSE g \in coming : TRUE
     IN  /\ coming' = coming \ {f}
         /\ Unharmed(f) \/ Harmed(f)
  /\ UNCHANGED <<video, waiting, frameByIndex, votes, phase, output>>

-----------------------------------------------------------------------------
(* ReconstructFile *)

Unique ==
  {k \in DOMAIN images : \A j \in 1..(k - 1) : images[j] # images[k]}

StartReconstruct ==
  /\ phase = "transport" /\ coming = {}
  /\ waiting' = IF Len(images) > DedupAbove THEN Unique ELSE DOMAIN images
  /\ phase' = "collect"
  /\ UNCHANGED <<video, coming, trouble, images, frameByIndex, votes, output>>

(* Mutant: the first result for an index is kept, whatever it is. *)
KeepFirst(result) == frameByIndex[result.frame.index].result = "error"

(* A frame that was verified replaces one that was not; otherwise the first *)
(* result for an index is kept.                                            *)
Keep(result) ==
  LET fi == result.frame.index
  IN  \/ frameByIndex[fi].result = "error"
      \/ frameByIndex[fi].result = "unverified" /\ result.result = "verified"

Collect ==
  /\ phase = "collect"
  /\ \E k \in waiting :
       LET result == ProcessFrame(images[k].attempts)
           f == result.frame
       IN  /\ waiting' = waiting \ {k}
           /\ IF result.result = "error"
              THEN UNCHANGED <<frameByIndex, votes>>
              ELSE /\ frameByIndex' = IF Keep(result)
                                      THEN [frameByIndex EXCEPT ![f.index] = result]
                                      ELSE frameByIndex
                   /\ votes' = [votes EXCEPT ![f.total] = @ + 1]
  /\ UNCHANGED <<video, coming, trouble, images, phase, output>>

(* Mutant: the frames of a number of frames that lost the vote are joined   *)
(* with the others.                                                        *)
JoinAny(frames, total) ==
  LET upTo[i \in 0..total] ==
        IF i = 0 THEN <<>>
        ELSE upTo[i - 1] \o frames[i - 1].frame.data
  IN  upTo[total]

Join(frames, total) ==
  LET upTo[i \in 0..total] ==
        IF i = 0 THEN <<>>
        ELSE LET kept == frames[i - 1]
             IN  upTo[i - 1] \o IF kept.result # "error" /\ kept.frame.total = total
                                THEN kept.frame.data ELSE <<>>
  IN  upTo[total]

(* The loop over the map finds any of the numbers with the most votes. *)
Winners == {t \in DOMAIN votes : votes[t] > 0 /\ \A u \in DOMAIN votes : votes[u] <= votes[t]}

(* Frames that are missing are passed over. *)
WriteOutput ==
  /\ phase = "collect" /\ waiting = {}
  /\ \E total \in Winners : output' = Join(frameByIndex, total)
  /\ phase' = "done"
  /\ UNCHANGED <<video, coming, trouble, images, waiting, frameByIndex, votes>>

NoValidFrame ==
  /\ phase = "collect" /\ waiting = {}
  /\ \A t \in DOMAIN votes : votes[t] = 0
  /\ phase' = "failed"
  /\ UNCHANGED <<video, coming, trouble, images, waiting, frameByIndex, votes, output>>

-----------------------------------------------------------------------------

Init ==
  /\ size \in Sizes /\ padding \in Paddings
  /\ coming = PayloadFrames \cup PaddingFrames
  /\ trouble = 0 /\ images = <<>> /\ waiting = {}
  /\ frameByIndex = [i \in 0..(MaxFrames - 1) |-> Error]
  /\ votes = [t \in 1..MaxFrames |-> 0]
  /\ phase = "transport" /\ output = <<>>

Next == Transport \/ StartReconstruct \/ Collect \/ WriteOutput \/ NoValidFrame

Spec == Init /\ [][Next]_vars

-----------------------------------------------------------------------------
(* Properties *)

Original == [k \in 1..size |-> k]

Results == {ProcessFrame(images[k].attempts) : k \in DOMAIN images}

(* A frame that verified is one that was drawn, with the data it had: the   *)
(* search keeps part of the parity back, so that no repair is taken that   *)
(* only seems right, and the other code makes no frame up                  *)
(* (reconstructor.go:436-450, 506-550).                                    *)
VerifiedIsSent ==
  \A i \in DOMAIN frameByIndex :
    frameByIndex[i].result = "verified" => frameByIndex[i].frame \in PayloadFrames \cup PaddingFrames

(* If every frame of a payload without padding comes back in some image     *)
(* with no more damaged shards than are searched for, and most images agree *)
(* on the number of frames, the payload is restored: whatever images were  *)
(* misread, in whatever order the workers return them                      *)
(* (reconstructor.go:146-217, 506-550; video.go:102-125).                  *)
CompleteIsRestored ==
  (/\ phase = "done" /\ padding = 0
   /\ \A f \in PayloadFrames : \E k \in DOMAIN images : images[k].of = f /\ images[k].correctable
   /\ Winners = {FrameCount(size)}) => output = Original

(* As long as what was kept is what was drawn the output is in order: lost  *)
(* frames leave gaps, and repeated ones are not repeated                   *)
(* (reconstructor.go:163-170, 211-217).                                    *)
OutputIsInOrder ==
  (/\ phase = "done" /\ padding = 0
   /\ \A r \in Results : r.result # "error" => r.frame \in PayloadFrames) =>
     \A j, k \in DOMAIN output : j < k => output[j] < output[k]

(* Padding has the indexes of the payload again.  As long as the numbers of *)
(* frames differ and no frame is misread, one of the two is lost, and they  *)
(* are not mixed (main.go:297-314; reconstructor.go:183-198).              *)
NothingIsMixed ==
  (/\ phase = "done" /\ padding # FrameCount(size)
   /\ \A r \in Results : r.result # "error" => r.frame \in PayloadFrames \cup PaddingFrames) =>
     \/ \A k \in DOMAIN output : output[k] = Noise
     \/ \A k \in DOMAIN output : output[k] # Noise
=============================================================================
