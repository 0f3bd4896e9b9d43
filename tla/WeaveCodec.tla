------------------------------ MODULE WeaveCodec ------------------------------
(***************************************************************************)
(* A weave.Codec and the calls of EncodeTo and ReconstructTo, one after    *)
(* the other.  From call to call the Codec keeps its workspace: the slots  *)
(* of the frames, the inverse matrices of repair patterns and the buffers  *)
(* of the recovered payloads.  (The scratch rows are cleared or written    *)
(* over before they are read.)  Every call of this module computes bytes,  *)
(* over the field of WeaveField.                                           *)
(*                                                                         *)
(* A frame is the record of WeavePlan: its payload says what it encodes,   *)
(* and Bytes gives the bytes it then has for the file that was sent.       *)
(***************************************************************************)
EXTENDS WeaveInterleave, WeaveField

CONSTANTS
  Configs,      (* the configurations a Codec may have                     *)
  Files,        (* the files that are sent: sequences of bytes             *)
  Lossy(_, _),  (* the sets of frames of a file the transport may lose     *)
  CacheLimit,   (* inverse matrices that are kept, 64 in the code          *)
  MaxCalls      (* bound: the calls of a Codec                             *)

ASSUME CodecAssumption ==
  /\ \A c \in Configs : Valid(c)
  /\ MaxBlockFrames < Order
  /\ Files \subseteq Seq(Field)
  /\ \A c \in Configs, file \in Files : PlanAccepts(Len(file), c)
  /\ CacheLimit \in Nat \ {0} /\ MaxCalls \in Nat

VARIABLES
  cfg,   (* Codec.cfg                                                       *)
  block, (* Codec.blockPayloads, the payloads of the block being encoded    *)
  ws,    (* Codec.reconstruct, the workspace                                *)
  dst,   (* the array the caller lends for the output                       *)
  calls, (* how many calls were made                                        *)
  last   (* the last call: the file, the frames it got and its result      *)

vars == <<cfg, block, ws, dst, calls, last>>

-----------------------------------------------------------------------------
(* Encode: the bytes of the frames *)

Slice(file, i) ==
  SubSeq(file, i * cfg.PayloadSize + 1,
         i * cfg.PayloadSize + SliceSize(i, Len(file), cfg))

Coefficient(r, slot) == RescueCoefficient(r, slot, cfg.RescueFramesPerBlock)

(* The padding of a short payload is zero and adds nothing. *)
Padded(bytes, k) == IF k <= Len(bytes) THEN bytes[k] ELSE 0

NoPayloads == [slot \in 1..cfg.DataFramesPerBlock |-> <<>>]

(* The array of the block that starts at s: cleared, then filled. *)
BlockPayloads(array, file, s) ==
  [slot \in DOMAIN array |->
     IF s + slot <= DataFrames(Len(file), cfg) THEN Slice(file, s + slot - 1)
                                               ELSE <<>>]

RescueBytes(payloads, r) ==
  [k \in 1..cfg.PayloadSize |->
     SumOf([slot \in DOMAIN payloads |->
               Mul(Coefficient(r, slot - 1), Padded(payloads[slot], k))])]

(* The bytes a payload of the file's frames has. *)
Bytes(payload, file) ==
  CASE payload.kind = Data   -> Slice(file, payload.index)
    [] payload.kind = Rescue ->
         RescueBytes(BlockPayloads(NoPayloads, file, payload.index), payload.rescue)
    [] OTHER                 -> [k \in 1..payload.size |-> 0]

-----------------------------------------------------------------------------
(* The workspace *)

(* A slot is empty, holds the payload of a frame, or one of the buffers. *)
SlotOfBuffer(k, size) == [buffer |-> k, size |-> size, bytes |-> <<>>]
SlotOfPayload(bytes) == [buffer |-> 0, size |-> Len(bytes), bytes |-> bytes]
Empty == [buffer |-> -1, size |-> 0, bytes |-> <<>>]

(* What a slot holds now: buffers change when they are handed out again. *)
Read(slot, buffers) ==
  IF slot.buffer > 0 THEN SubSeq(buffers[slot.buffer], 1, slot.size) ELSE slot.bytes

NewWorkspace ==
  [data |-> <<>>, present |-> <<>>, rescues |-> <<>>, inverses |-> <<>>,
   buffers |-> <<>>, cursor |-> 0]

(* An array of at least n entries, the first n of them cleared.  What lies *)
(* beyond them stays as an earlier call left it.                           *)
Slots(array, n, empty) ==
  IF Len(array) < n THEN [i \in 1..n |-> empty]
  ELSE [i \in DOMAIN array |-> IF i <= n THEN empty ELSE array[i]]

Prepared(w, total) ==
  LET noRescues == [r \in 1..cfg.RescueFramesPerBlock |-> Empty]
  IN  [w EXCEPT
         !.data = Slots(@, total, Empty),
         !.present = Slots(@, total, FALSE),
         !.rescues = IF cfg.RescueFramesPerBlock = 0 THEN @
                     ELSE Slots(@, BlockCount(total, cfg), noRescues)]

BlockNumber(f) == f.FrameIndex \div cfg.DataFramesPerBlock + 1

Taken(w, f) ==
  IF f.FrameType = Data
  THEN w.present[f.FrameIndex + 1]
  ELSE w.rescues[BlockNumber(f)][f.RescueIndex + 1] # Empty

SlotFor(w, f) ==
  IF f.FrameType = Data THEN w.data[f.FrameIndex + 1]
                        ELSE w.rescues[BlockNumber(f)][f.RescueIndex + 1]

Placed(w, f, slot) ==
  IF f.FrameType = Data
  THEN [w EXCEPT !.data[f.FrameIndex + 1] = slot, !.present[f.FrameIndex + 1] = TRUE]
  ELSE [w EXCEPT !.rescues[BlockNumber(f)][f.RescueIndex + 1] = slot]

(* A second frame for a slot must be equal to the first. *)
PutFrame(acc, f, bytes) ==
  IF ~Taken(acc.ws, f) THEN [acc EXCEPT !.ws = Placed(@, f, SlotOfPayload(bytes))]
  ELSE [acc EXCEPT !.conflict = Read(SlotFor(acc.ws, f), acc.ws.buffers) # bytes]

FillNext(acc, f, bytes) == IF acc.conflict THEN acc ELSE PutFrame(acc, f, bytes)

(* The frames up to the first conflict, if there is one. *)
Filled(w, frames, file) ==
  LET filled[k \in 0..Len(frames)] ==
        IF k = 0 THEN [ws |-> w, conflict |-> FALSE]
                 ELSE FillNext(filled[k - 1], frames[k], Bytes(frames[k].Payload, file))
  IN  filled[Len(frames)]

-----------------------------------------------------------------------------
(* repairBlocksWithWorkspace *)

(* What data frame i adds to byte k of rescue frame r of the block at start, *)
(* nothing if it is not there.                                             *)
Share(w, start, n, r, i, k) ==
  IF i < DataFrames(n, cfg) /\ w.data[i + 1] # Empty
  THEN Mul(Coefficient(r, i - start), Padded(Read(w.data[i + 1], w.buffers), k))
  ELSE 0

(* What remains of rescue frame r without the frames that are there. *)
Residual(w, start, n, r) ==
  LET rescue == w.rescues[start \div cfg.DataFramesPerBlock + 1][r + 1].bytes
  IN  [k \in 1..cfg.PayloadSize |->
         Add(rescue[k], SumOf([slot \in 1..cfg.DataFramesPerBlock |->
                                 Share(w, start, n, r, start + slot - 1, k)]))]

(* Mutant: every payload of a call is computed into the same buffer. *)
HandOutFirst(w, i, bytes, n) ==
  LET size == DataSizeForFrame(i, n, cfg)
  IN  [w EXCEPT !.buffers = <<bytes>>, !.data[i + 1] = SlotOfBuffer(1, size)]

(* The next buffer takes the first bytes of a recovered row, and the slot of *)
(* data frame i refers to it.  An empty payload needs no buffer.             *)
HandOut(w, i, bytes, n) ==
  LET size == DataSizeForFrame(i, n, cfg)
      next == w.cursor + 1
      old == IF next <= Len(w.buffers) THEN w.buffers[next] ELSE <<>>
      new == SubSeq(bytes, 1, size) \o SubSeq(old, size + 1, Len(old))
  IN  IF size = 0 THEN [w EXCEPT !.data[i + 1] = SlotOfPayload(<<>>)]
      ELSE [w EXCEPT !.cursor = next,
                     !.buffers = SubSeq(@, 1, w.cursor) \o <<new>>
                                   \o SubSeq(@, next + 1, Len(@)),
                     !.data[i + 1] = SlotOfBuffer(next, size)]

SystemOf(slots, used) ==
  [row \in DOMAIN used |->
     [col \in DOMAIN slots |-> Coefficient(used[row], slots[col])]]

(* recoverOneMissingFrame divides by its coefficient. *)
Reciprocal(m) == IF m[1][1] = 0 THEN <<>> ELSE <<<<Inv(m[1][1])>>>>

(* recoverTwoMissingFrames: Cramer's rule. *)
Cramer(m) ==
  LET det == Add(Mul(m[1][1], m[2][2]), Mul(m[2][1], m[1][2]))
      adjugate == <<<<m[2][2], m[1][2]>>, <<m[2][1], m[1][1]>>>>
  IN  IF det = 0 THEN <<>>
      ELSE [c \in 1..2 |-> [q \in 1..2 |-> Mul(Inv(det), adjugate[c][q])]]

(* Mutant: which rescue frames arrived is not part of the key. *)
KeyWithoutRescues(slots, used) == <<slots, [k \in DOMAIN used |-> k - 1]>>

(* inverseCacheKey: the missing frames by their place in the block. *)
InverseCacheKey(slots, used) == <<slots, used>>

With(inverses, key, inverse) ==
  [k \in DOMAIN inverses \cup {key} |-> IF k = key THEN inverse ELSE inverses[k]]

(* Mutant: nothing is ever dropped. *)
KeepAll(inverses, key, inverse) == With(inverses, key, inverse)

(* A new inverse is kept; a full cache is emptied first. *)
Remember(inverses, key, inverse) ==
  With(IF Cardinality(DOMAIN inverses) >= CacheLimit THEN <<>> ELSE inverses, key, inverse)

(* The kept matrices when the one of these frames is needed: an inverse is *)
(* computed only if it is not there, and kept only if there is one.         *)
WithInverse(inverses, slots, used) ==
  LET key == InverseCacheKey(slots, used)
      Added(inverse) == IF inverse = <<>> THEN inverses ELSE Remember(inverses, key, inverse)
  IN  IF key \in DOMAIN inverses THEN inverses
      ELSE Added(InvertMatrix(SystemOf(slots, used)))

InverseOf(inverses, slots, used) ==
  CASE Len(slots) = 1 -> Reciprocal(SystemOf(slots, used))
    [] Len(slots) = 2 -> Cramer(SystemOf(slots, used))
    [] Len(slots) > 2 /\ InverseCacheKey(slots, used) \in DOMAIN inverses ->
         inverses[InverseCacheKey(slots, used)]
    [] OTHER -> <<>>

(* The missing rows: an inverse, <<>> if there is none, times the residuals. *)
Rows(inverse, residuals) ==
  [c \in DOMAIN inverse |->
     [k \in 1..cfg.PayloadSize |->
        SumOf([q \in DOMAIN residuals |-> Mul(inverse[c][q], residuals[q][k])])]]

HandOutRows(w, missing, rows, n) ==
  LET after[k \in 0..Len(rows)] ==
        IF k = 0 THEN w ELSE HandOut(after[k - 1], missing[k], rows[k], n)
  IN  after[Len(rows)]

Solved(w, start, n, missing, used) ==
  LET slots == [k \in DOMAIN missing |-> missing[k] - start]
      after == IF Len(slots) < 3 THEN w
               ELSE [w EXCEPT !.inverses = WithInverse(@, slots, used)]
      residuals == [q \in DOMAIN used |-> Residual(w, start, n, used[q])]
  IN  HandOutRows(after, missing, Rows(InverseOf(after.inverses, slots, used), residuals), n)

Missing(w, start, n) ==
  Ascending({i \in BlockFrames(start, DataFrames(n, cfg), cfg) : w.data[i + 1] = Empty})

AvailableRescues(w, b) ==
  Ascending({r \in 0..(cfg.RescueFramesPerBlock - 1) :
               w.rescues[b][r + 1].size >= cfg.PayloadSize})

RepairBlock(w, b, n) ==
  LET start == (b - 1) * cfg.DataFramesPerBlock
      missing == Missing(w, start, n)
      available == AvailableRescues(w, b)
  IN  IF missing = <<>> \/ Len(missing) > Len(available) THEN w
      ELSE Solved(w, start, n, missing, SubSeq(available, 1, Len(missing)))

Repaired(w, n) ==
  LET blocks == BlockCount(DataFrames(n, cfg), cfg)
      after[b \in 0..blocks] ==
        IF b = 0 THEN [w EXCEPT !.cursor = 0] ELSE RepairBlock(after[b - 1], b, n)
  IN  after[blocks]

-----------------------------------------------------------------------------
(* reconstructToValidated *)

Rejected(frames) ==
  \/ Len(frames) > 2 * MaxFrameCount
  \/ frames[1].TotalFrames > Len(frames)
  \/ \E k \in DOMAIN frames :
       \/ ~FrameMetadataLooksValid(frames[k], cfg)
       \/ frames[k].TotalFrames # frames[1].TotalFrames
       \/ frames[k].TotalDataBytes # frames[1].TotalDataBytes
       \/ frames[k].BlockSize # frames[1].BlockSize

(* Every data frame once and in order, and no rescue frames to expect. *)
FastPath(frames) ==
  /\ cfg.RescueFramesPerBlock = 0
  /\ Len(frames) = frames[1].TotalFrames
  /\ \A k \in DOMAIN frames : frames[k].FrameIndex = k - 1

(* sizedOutput and the copy: an array that is long enough is reused. *)
Written(out, bytes) == bytes \o SubSeq(out, Len(bytes) + 1, Len(out))

Result(w, out, error, bytes) == [ws |-> w, out |-> out, error |-> error, bytes |-> bytes]

Contents(w, total) == FlattenSeq([i \in 1..total |-> Read(w.data[i], w.buffers)])

Delivered(w, out, bytes) == Result(w, Written(out, bytes), "none", bytes)

(* Mutant: what is there is copied before it is known to be everything. *)
ReassembleEarly(w, out, n) ==
  LET delivered == Delivered(w, out, Contents(w, DataFrames(n, cfg)))
  IN  IF \E i \in 1..DataFrames(n, cfg) : w.data[i] = Empty
      THEN Result(w, delivered.out, "Unrecoverable", <<>>)
      ELSE delivered

Reassemble(w, out, n) ==
  LET total == DataFrames(n, cfg)
  IN  IF \E i \in 1..total : w.data[i] = Empty \/ w.data[i].size # DataSizeForFrame(i - 1, n, cfg)
      THEN Result(w, out, "Unrecoverable", <<>>)
      ELSE Delivered(w, out, Contents(w, total))

(* What is missing is repaired when there was a rescue frame at all. *)
Completed(filled, out, n, rescueSeen) ==
  LET incomplete == \E i \in 1..DataFrames(n, cfg) : filled.ws.data[i] = Empty
  IN  IF filled.conflict THEN Result(filled.ws, out, "Unrecoverable", <<>>)
      ELSE Reassemble(IF incomplete /\ rescueSeen THEN Repaired(filled.ws, n)
                                                  ELSE filled.ws, out, n)

Reconstructed(w, out, frames, file) ==
  LET n == frames[1].TotalDataBytes
      rescueSeen == \E k \in DOMAIN frames : frames[k].FrameType = Rescue
  IN  CASE frames = <<>> -> Result(w, out, "NoValidFrames", <<>>)
        [] frames # <<>> /\ Rejected(frames) -> Result(w, out, "Unrecoverable", <<>>)
        [] frames # <<>> /\ ~Rejected(frames) /\ FastPath(frames) ->
             Delivered(w, out, FlattenSeq([k \in DOMAIN frames |-> Bytes(frames[k].Payload, file)]))
        [] OTHER ->
             Completed(Filled(Prepared(w, DataFrames(n, cfg)), frames, file), out, n, rescueSeen)

-----------------------------------------------------------------------------
(* The calls *)

Sent(file) == Encoded(Len(file), cfg)

(* The frames of a stream that are not lost, in its order. *)
Rest(stream, lost) ==
  LET kept == Ascending({k \in DOMAIN stream : stream[k] \notin lost})
  IN  [k \in DOMAIN kept |-> stream[kept[k]]]

(* What may arrive of a file: some frames are lost, and the others come in  *)
(* order, or twice and in reverse first.  Or all frames come, three times   *)
(* or with one more: the last one with other bytes, or one of a longer file.*)
Deliveries(file) ==
  LET all == Encode(Len(file), cfg)
      Twice(stream) == Reverse(stream) \o stream
      changed == [Last(all) EXCEPT !.Payload = Garbage(@.size)]
      stranger == DataFrame(0, Len(file) + cfg.PayloadSize, cfg)
      rests == {Rest(all, lost) : lost \in Lossy(Len(file), cfg)}
  IN  rests \cup {Twice(rest) : rest \in rests}
      \cup {all \o Twice(all), <<changed>> \o all, Append(all, stranger)}

(* The frames of block b: its data, then the rescues computed of the array. *)
EncodeBlock(acc, b, file) ==
  LET s == (b - 1) * cfg.DataFramesPerBlock
      array == BlockPayloads(acc.array, file, s)
      count == Cardinality(BlockFrames(s, DataFrames(Len(file), cfg), cfg))
  IN  [array |-> array,
       bytes |-> acc.bytes \o SubSeq(array, 1, count)
                   \o [r \in 1..cfg.RescueFramesPerBlock |-> RescueBytes(array, r - 1)]]

EncodeBlocks(array, file) ==
  LET blocks == BlockCount(DataFrames(Len(file), cfg), cfg)
      encoded[b \in 0..blocks] ==
        IF b = 0 THEN [array |-> array, bytes |-> <<>>]
                 ELSE EncodeBlock(encoded[b - 1], b, file)
  IN  encoded[blocks]

EncodeTo ==
  /\ calls < MaxCalls /\ calls' = calls + 1
  /\ \E file \in Files :
       LET encoded == EncodeBlocks(block, file)
       IN  /\ block' = encoded.array
           /\ last' = [call |-> "encode", file |-> file, frames |-> Encode(Len(file), cfg),
                       error |-> "none", bytes |-> encoded.bytes]
  /\ UNCHANGED <<cfg, ws, dst>>

ReconstructTo ==
  /\ calls < MaxCalls /\ calls' = calls + 1
  /\ \E file \in Files : \E frames \in Deliveries(file) :
       LET result == Reconstructed(ws, dst, frames, file)
       IN  /\ ws' = result.ws
           /\ dst' = result.out
           /\ last' = [call |-> "reconstruct", file |-> file, frames |-> frames,
                       error |-> result.error, bytes |-> result.bytes]
  /\ UNCHANGED <<cfg, block>>

NewCodec ==
  /\ cfg \in Configs
  /\ block = NoPayloads
  /\ ws = NewWorkspace
  /\ dst = <<>>
  /\ calls = 0
  /\ last = [call |-> "none", file |-> <<>>, frames |-> <<>>, error |-> "none", bytes |-> <<>>]

Next == EncodeTo \/ ReconstructTo

Spec == NewCodec /\ [][Next]_vars

-----------------------------------------------------------------------------
(* Properties *)

(* Nothing an earlier call left in the workspace shows: a call returns what *)
(* the same call of a new Codec returns, whether slots, matrices and        *)
(* buffers were used before or not, and whether the calls before it failed  *)
(* half way (codec.go:3-7, 55-120).                                         *)
CallsAreIndependent ==
  LET fresh == Reconstructed(NewWorkspace, <<>>, last.frames, last.file)
  IN  /\ last.call = "reconstruct" =>
           last.error = fresh.error /\ last.bytes = fresh.bytes
      /\ last.call = "encode" =>
           last.bytes = [k \in DOMAIN last.frames |-> Bytes(last.frames[k].Payload, last.file)]

(* The frames of a file, in any order, are turned back into its very bytes  *)
(* exactly when every block has a rescue frame for each data frame it       *)
(* misses and there are not too many of them: the Cauchy systems all have a *)
(* solution, and each of the three ways to solve them finds it              *)
(* (decode.go:63-65, 284-376).                                             *)
RestoresExactly ==
  last.call = "reconstruct" /\ ToSet(last.frames) \subseteq Sent(last.file) =>
    IF /\ Len(last.frames) <= 2 * MaxFrameCount
       /\ Recoverable(ToSet(last.frames), Len(last.file), cfg)
    THEN last.error = "none" /\ last.bytes = last.file
    ELSE last.error # "none"

(* Every matrix that is kept is the inverse for its missing and rescue      *)
(* frames, whatever was dropped and computed again, and the cache is never  *)
(* over its limit (decode.go:313-335).                                      *)
CacheIsRight ==
  /\ Cardinality(DOMAIN ws.inverses) <= CacheLimit
  /\ \A key \in DOMAIN ws.inverses :
       LET system == SystemOf(key[1], key[2])
           inverse == ws.inverses[key]
       IN  \A i, j \in DOMAIN system :
             SumOf([k \in DOMAIN system |-> Mul(inverse[i][k], system[k][j])])
               = IF i = j THEN 1 ELSE 0

(* A call that fails leaves the caller's array as it was (decode.go:157).   *)
FailedCallKeepsOutput == [][last'.error # "none" => dst' = dst]_vars
=============================================================================
