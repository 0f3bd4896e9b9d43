# A verification of NoiseCloud

NoiseCloud (`ncc`) turns a file into a video of black and white squares and back.
This directory holds TLA+ models of the program, the TLC configurations that check
them on small instances, and proofs, checked by TLAPS, that hold for every value
of their parameters. Paths such as `decode.go:66` are relative to the directory a
section names; all sources are Go.

    tlc -config MCWeavePool.cfg MCWeaveDecode      # a run
    tlapm WeaveDecodeProofs.tla                    # the proofs of a module

## 1. Inventory

| Component | State | Operations | Hard parts | Correct when |
|---|---|---|---|---|
| Frame budget, headers (`internal/weave`: `config.go`, `plan.go`, `encode.go`, `frame.go`) | none, pure | `PlanFor`, `Encode`, `AppendBinary`, `ParseFrameView` | rounding, limits; encoder and decoder compute the same sizes separately | slices cover the input, everything encoded is accepted |
| Interleaving (`interleave.go`) | none | `InterleaveByBlock` | a short last block | an ordered permutation; bursts stay recoverable |
| Reconstruction (`decode.go`) | slots, rescue frames, output | `Reconstruct`, `repairBlocks` | any order of arrival, repeated, missing and damaged frames | the output is the original or an error; a recoverable file is never refused; the caller's array survives a failure |
| Arithmetic, workspace (`gf256.go`, `coefficients.go`, `codec.go`) | tables; slots, inverses and buffers kept by a `Codec` | products, elimination, `EncodeTo`, `ReconstructTo` | state left by an earlier call, three ways to solve a block | every solvable system is solved; calls are independent |
| Decoding pipeline (`internal/decoder/weave.go`) | two channels, workers | `ReconstructWeaveFile` | closing a channel while workers send; feeding before collecting | no result lost, nobody blocked |
| Trailer (`internal/weave/trailer.go`) | the end of a file | `AppendTrailer`, `ReadTrailer` | torn appends, readers next to writers | a payload is read whole or not at all |
| Encode command (`cmd/cli/main.go`, `payload.go`, `internal/encoder/weave.go`) | goroutine, ffmpeg, pipe, progress channels | `runEncode`, `EncodePayloadsWeave` | every step may fail; blocked pipes and channels; a file that grows | success means a whole video; no ffmpeg left; it returns |
| Loading screen (`main.go:53-229`) | ticker goroutine, status, terminal line | `Start`, `Update`, `render`, `Stop` | stop against a tick | the line is cleared, the cursor back |
| Decode command (`main.go:336-408`, `payload.go`, `internal/decoder/extractor.go`) | temporary files, destination | `runDecode`, `ExtractFrames`, `writeDecompressedPayload` | errors and crashes at every step; other processes | the destination is old or whole; nothing left behind |
| FFmpeg cache (`internal/ffmpeg`) | files shared by processes, a named mutex | `Path`, `materialize`, `writeNotice`, `lockCache` | concurrent first use, crashes, abandoned locks, changes by others | only the verified executable runs |
| Encoder of the older presets (`internal/encoder/video.go`) | workers, channels, pool of buffers, ffmpeg | `EncodePayloads` | order, ownership of buffers, early exits | frames in order, each with its own pixels |
| Format of the older presets (`framer.go`, `internal/decoder/reconstructor.go`) | frames by index, votes | `NewFrame`, `ReconstructFile`, `processFrame` | order of results, misread headers, silent gaps | a complete payload is restored |
| Reed-Solomon shards (`reed_solomon.go`, `reconstructor.go:338-562`) | the bytes of an image, repaired in place | `tryDecodePayload`, `repairCorruptShards` | damage at unknown places, a repair that only seems right, two codes | what verifies is what was drawn |
| Macropixels, calibration (`macro_pixel.go`, `framer.go`, `reconstructor.go:564-971`, `decoder/weave.go:93-167`) | none between frames | drawing, sampling, thresholds, attempts | rounding, shift, blur and levels at once | a frame is read in another resolution |
| GPU choice, menu, external ffmpeg, bundling script, web page | - | - | - | see section 7 |

How they interact. The menu calls `runEncode` or `runDecode` inside
`runWithLoading`, one at a time; a process that encodes and one that decodes share
nothing but files. `runEncode` compresses the file and starts a goroutine that calls
`EncodePayloads`, which hands both presets of the menu to `EncodePayloadsWeave`:
`Encode`, `InterleaveByBlock`, then one frame after the other through a pipe to
ffmpeg, whose path the cache resolves. `runDecode` tries the trailer (preset
`weave` only), else has ffmpeg extract the frames, and calls `ReconstructFile`,
which hands both presets to `ReconstructWeaveFile`: a pool of goroutines parses the
images and `Reconstruct` restores the payload, which is decompressed to a temporary
file and renamed. The hazards of each part, at the lines where they bite, are listed
in `PROJECT.json`.

## 2. Modules

| Module | Models | Checked by |
|---|---|---|
| `WeavePlan` | budget, slices, headers, acceptance | `MCWeaveBurst`, `WeaveCodecProofs`, `WeaveDecodeProofs` |
| `WeaveInterleave`, `WeaveBurst` | order in the video; bursts of losses | `MCWeaveBurst`, `WeaveCodecProofs` |
| `WeaveRecovery` | abstract: what the codec promises | refined by `WeaveDecode`: a run, and its steps in `WeaveDecodeProofs` |
| `WeaveDecode` | transport, worker pool, `Reconstruct` | `MCWeaveDecode`, `WeaveDecodeProofs` |
| `WeaveArithmetic`, `WeaveTables` | products bit by bit, the tables made of them | `MCWeaveCodec` |
| `WeaveField` | sums, coefficients and elimination over any field | `MCWeaveCodec`, `WeaveCodecProofs` |
| `WeaveCodec` | a `Codec` over successive calls, with bytes | `MCWeaveCodec`, `WeaveCodecProofs` |
| `FrameImage` | drawing squares and reading them back | `MCFrameImage`, `WeaveDecodeProofs` |
| `WeaveTrailer` | trailer of compact videos | `MCWeaveTrailer`, `WeaveTrailerProofs` |
| `EncodeCommand` on `LoadingScreen` | `runEncode` with its goroutines and ffmpeg | `MCEncodeCommand`, `EncodeCommandProofs` |
| `DecodeCommand` | `runDecode` in several processes | `MCDecodeCommand`, `DecodeCommandProofs` |
| `FfmpegCache` | `Path` and the cache | `MCFfmpegCache`, `FfmpegCacheProofs` |
| `EncodePipeline` | `EncodePayloads` of the older presets | `MCEncodePipeline`, `EncodePipelineProofs` |
| `PlainDecode` on `ShardRepair` | format, `ReconstructFile` and error correction of the older presets | `MCPlainDecode`, `PlainDecodeProofs` |

Correspondence to the code, and what is abstracted:

- **WeavePlan.** A configuration and a frame are records with the code's fields. A
  payload is a record of what it encodes (slice of a data frame, r-th parity of a
  block, garbage, nil) and its size: bytes matter only for equality. The limits of
  the code (256 MiB, 2^20 frames, 255 frames to a block) are constants.
- **WeaveDecode.** `Show`, `Lose`, `Corrupt`, `Repeat` and `Damage` are the
  transport, in the interleaved order, each fault with a budget. `StartDecode` to
  `StopCollecting` are `ReconstructWeaveFile`, one action for each channel operation;
  workers interleave freely. `Reject` to `GiveUp` are `Reconstruct` in the code's
  order of checks. Solving for missing frames is taken as: as many rescue frames as
  missing frames restore them, which is what `WeaveCodec` shows. The file has rescue
  frames (`DecodeAssumption`): without any, `Reconstruct` may take the fast path,
  and that is in `WeaveCodec`. A damaged header is one with another number in one of
  its fields; ParseFrame decides whether it still parses. Several fields of one header
  are never damaged together. A frame comes back at most twice, so that the bound of
  `2 * maxFrameCount` frames (`decode.go:63`) is in `Rejected` but never reached: the
  theorems prove that (`CountInv`), and `weave_codec` reaches it.
- **WeaveRecovery** knows only which intact frames arrived and decides once. The
  refinement maps `pc` and `output` to its `outcome`; under damage that parses it
  does not hold, and `WrongFileNeedsVacantSlot` says what does.
- **WeaveCodec.** One action for a call, because a `Codec` is not shared. The frames
  are those of `WeavePlan`; `Bytes` gives the symbols of their payloads the bytes that
  `buildRescuePayloads` computes. A slot refers to the payload of a frame or to one of
  the buffers of the workspace, so a buffer that is handed out twice, or by a later
  call, shows (`Read`). Entries beyond the length of a short call keep what they held.
  Scratch rows are always written over before they are read and are left out; the
  functions for 16 + 2 compute what the general ones do.
- **WeaveField** has the field as a parameter: its elements are numbers, and of its
  operations only the laws of a field of characteristic 2 are assumed
  (`FieldAssumption`). `WeaveArithmetic` has the products as `init` computes them and
  `WeaveTables` the tables it fills from them, for any width and polynomial. The run
  takes the operations of GF(8) from the tables, and TLC evaluates the assumption. Of
  GF(256) the run checks what the laws follow from, because all triples would be too
  many: doubling distributes over sums, the products of powers of two commute and
  associate, and 2 generates the field, so that the tables hold every element.
- **FrameImage.** A picture is the size it comes back in, a shift, a blur and its
  levels. The edges and margins the decoder computes are kept exactly, per axis; a
  product that lies half way is rounded either way, as floats may. A sampled pixel is
  pure if all it shows lies in its square; the rest of an average may be anything
  between the darkest and the brightest. `Read` is possible at every attempt with the
  right grid; `NextAttempt` only when the attempt is not sure to read every square.
- **WeaveTrailer.** A file is a sequence of cells; a footer is one cell with a length
  and a CRC, which stands for the cells it was computed from. Damage destroys a cell,
  cuts the file, or changes only the length or only the CRC of a footer, so that its
  magic stays and `ReadTrailer` has to refuse it by the limit, the start or the CRC.
  Writing the payload cell by cell is the possible progress of a `Write`. A payload that
  contains a footer is left out: `AppendTrailer` is given compressed payloads.
- **EncodeCommand.** Three actors: `runEncode` (`caller`), its goroutine (`encoder`)
  and ffmpeg. The pipe and the channels are bounded, so a send or write that has to
  wait is a disabled action. Every early return is a disjunct, and those of system
  calls have the budget `MaxFaults`. `LoadingScreen` splits reading the status
  (`Tick`, under the lock) from drawing it (`Draw`).
- **DecodeCommand.** Every process has a video described by what it still holds:
  trailer, frames, stream. The frames of the first and of the second run of ffmpeg are
  told apart: what the first leaves is removed by a step of its own, which may fail
  unnoticed (`CleanupExtractedPNGs`), and what then comes of a mixture is left open. An
  error in `writeDecompressedPayload` passes through its deferred removal
  (`RemoveTemp`) and then through those of `runDecode` (`RemoveRaw`, `Cleanup`); each
  removal may fail (`kept`), and the next one is made all the same.
  `CheckFormat` may let a wrong payload pass, because it looks at four bytes; `Copy`
  does not, because Zstandard and gzip compare checksums at the end: that the
  checksum detects a wrong payload is assumed.
- **FfmpegCache.** Each step of `materialize` that touches the cache is an action;
  `Tamper` is another program. A valid file that cannot be read does not match. The
  deferred calls are two steps, the removal of the temporary file and the unlock; that
  this removal fails, and leaves a file of a unique name, is left out. On Windows a
  rename over a file in use is denied, and the mutex is abandoned by a crash or times
  out; elsewhere `lockCache` is empty.
- **EncodePipeline.** Frames are numbered in the order of the video. Buffers have
  identities, since pixels are not copied between a worker and the pipe.
- **ShardRepair.** A buffer says which shards are damaged, what its header says and
  whether the damage touches the columns of the header. The library is taken by the
  distance of the code: the shards verify after an erasure if it covers the damage, or
  if it spends all parity. A repair writes into the buffer that the next code is tried
  on. The plain presets are drawn with 16 + 8 (`tiktok` and `weave` go to Weave at both
  ends, `reconstructor.go:72`, `video.go:99`), and under another code or size of shards
  nothing agrees: the loops over the other sizes (`reconstructor.go:348, 363`) are the
  one size that can verify. A damaged header is wrong in the index or in the number of
  frames; a misread length of the data, and several wrong fields at once, are left out.
- **PlainDecode.** An image is the list of what its reading attempts return, each by
  `ShardRepair` from some damage: verified, unverified or an error. `ProcessFrame`
  chooses as `processFrame` does. Results are collected in every order.

Definitions whose comment begins with "Mutant" are not part of a model: each is a
plausible bug, put in the place of a definition to see that a property notices it.

## 3. Runs

| Run | States | Question |
|---|---|---|
| `weave_budget` | 12 467 | Do encoder and decoder agree on all numbers, is the order a permutation, and does it survive bursts? |
| `weave_neighbours` | violated | Do consecutive losses hit different blocks, as the comment says? |
| `weave_pool` | 184 059 | Does the pool lose or block anything, and does the decoder implement `WeaveRecovery`, termination included? |
| `weave_damage` | 114 619 | What can two damaged headers do? |
| `weave_codec` | 4 500 | Does a call see what another left, and is every solvable block solved? |
| `frame_image` | 8 840 | Where does the decoder sample, and does it read the frame? |
| `weave_trailer` | 437 201 | Torn appends, a reader at any moment |
| `encode_command` | 14 409 | Does an encode end, and end clean, whatever fails? |
| `decode_command` | 4 302 810 | Is the destination safe, and is what can be decoded delivered? |
| `ffmpeg_windows` | 224 921 | Does only the verified executable run? |
| `encode_pipeline` | 457 744 | Do frames reach ffmpeg in order from buffers nobody else uses? |
| `plain_decode` | 832 627 | Is what verifies what was drawn, and is a complete payload restored from results in any order? |

Bounds, and why they are enough to be interesting:

- `weave_pool`: an empty file and one of three data frames in two blocks, the second
  short; one frame lost, one unreadable, one repeated, two workers. This has a block
  with a missing frame and a rescue frame, one without, and more images than workers.
  `weave_damage` has two rescue frames, so that both frames of a block can be lost,
  and two damages, because two damaged frames can agree with each other; one worker,
  because the order of arrival is `weave_pool`'s question.
- `weave_budget`: payloads of one to three bytes, up to four data and three rescue
  frames to a block, and files around every multiple, beyond the limits of `PlanFor`;
  every burst of every length, so that the last block is full, short or alone.
- `weave_codec`: three calls, so that a long call, a short one and a long one again
  follow each other, and a failing call comes between two that succeed; a cache of one
  matrix, so that it overflows; blocks that miss no frame, one (the short last block),
  two, three, and more than can be solved, for each of the solvers and the refusal; a
  configuration without rescue frames for the fast path; deliveries of all frames three
  times, more than `2 * MaxFrameCount` = 24 frames, which are refused. In GF(8) seven
  points are just enough for blocks of three with four rescues.
- `frame_image`: the presets in the sizes platforms return, every shift up to three
  pixels, and three lights: perfect, video range with noise and blur, and pale.
- `weave_trailer`: three appends, so that one goes behind the remains of another
  while a third is read; payloads of one and two cells that share a cell, so that a
  wrong start can be noticed only by the CRC, and one beyond `MaxPayload`, which is not
  appended; two damages, so that a footer with a wrong length meets wrong cells.
- `encode_command`: channels and pipe of two and four frames, so that each of them
  fills up; two faults, so that cleaning up after one meets another.
- `decode_command`: every pair of the 36 videos, one failing call or removal and one
  crash.
- `ffmpeg_windows`: three processes, so that one waits for the mutex while another
  verifies and a third executes; one crash, two changes by others. Elsewhere than on
  Windows there is no lock: the theorems hold for both values of `OnWindows`.
- `encode_pipeline`: four frames, two workers, channels of two, one error anywhere.
- `plain_decode`: one to three frames, up to two of padding, two frames in trouble with
  every set of damaged shards, and repeated images both dropped and kept (`DedupAbove`).
  Codes of 4 + 3, searched up to one erasure, and 3 + 2, searched up to all, stand for
  16 + 8, searched up to four of eight, and 10 + 6, searched up to six of six: what
  matters is that the first search keeps parity back and the second does not.
  A misread header has an index and a number of frames up to `MaxFrames` = 4, one more
  than any payload has.

Deadlock is checked where a system must not stop: `weave_pool` and its siblings,
`encode_command`, the cache. The others stop when they are done, and their cfgs say
`CHECK_DEADLOCK FALSE`; `encode_pipeline` needs it because `EncodePayloads` returns
at an error and leaves goroutines blocked, which is what the code does.

## 4. Fairness

- Goroutines: weak fairness for each one, because the scheduler of Go runs every
  runnable goroutine. A goroutine that waits for a channel is not runnable; its
  action is disabled.
- ffmpeg reads its pipe and ends at the end of its input, weakly fair. Its death and
  all failing calls have no fairness: nothing relies on them.
- The painter of the loading screen: its `select` may pick the ticker whenever it
  fires, and Go chooses among ready cases at random, so that a stop that stays ready
  is taken eventually: strong fairness for `Quit`, weak for `Draw`.
- Processes that use the cache: weak fairness for each, and waiting for the mutex
  ends by its timeout (`lock_windows.go:25`), which is why `PathReturns` needs no
  fairness of the mutex.
- `WeaveTrailer`, `DecodeCommand`, `PlainDecode`, `WeaveCodec`, `FrameImage`: safety
  only; the last two end by counting calls and attempts.

## 5. What is proved

Assumptions are the named ASSUMEs of the modules, no more: positive sizes, finite sets
of workers, budgets that are natural numbers, blocks of at most 255 frames, for the
codec the laws of the field, in which every frame of a block has a point of its own, for
the decoder rescue frames, for the trailer payloads that are not empty and contain no
footer, and for the older format that the code it is drawn with has more parity than
the search spends without keeping some back (8 against 6, `reconstructor.go:436-439`).

**WeaveDecodeProofs.** `TypeCorrect`: the types, with frames that damage produces.
`OutputCorrect`: a successful decode writes the original, for every configuration,
file, budget of losses and number of workers. `OutputIsOriginal` speaks of the end
only, so the induction carries `GenuineInv`: without damage, every image that parses
and every collected frame is one that was sent, every filled slot holds the slice of
its index and every kept rescue frame is the parity of its block. `GenuineMeta` turns
the metadata of the first frame into that of the file, `FillKeepsGenuine` and
`RepairKeepsGenuine` carry it through `Reconstruct`, and `SliceSizeIsDataSize` shows
that both ends compute the same sizes. `ImagesCollected` and `SendsNeverBlock` rest
on `PoolInv`, a count: what was fed is waiting, being read, waiting to be
collected or collected; a worker has exited only when jobs is closed and empty.

`EncodedIsAccepted` is the agreement of both ends on the headers: what `Encode` emits
passes every check of the decoder. It needs the arithmetic of blocks (`Division`,
`BlockStartsFacts`, `BlockOfFrame`), because the decoder computes again to which block
a frame belongs and how long that block is.

`WrongFileNeedsVacant` and `StepsRefineRecovery` share `DecodeInv`, which says where
every frame is: each image that parses is queued, being read or collected
(`CollectInv`), and after the loop over the frames a slot is filled exactly if a frame
for it was collected (`FillInv`). For the first, damage may be anything: as long as every
identity of a damaged frame was also sent and arrived (`Honest`), the comparison of
duplicates leaves only right payloads, so the repaired file is the original
(`RepairInv`). For the second, the steps of the transport are steps of
`WeaveRecovery` that lose or repeat frames, success maps to its success, and failure has
to be a loss (`FailInv`): each of the three checks that give up proves that some block
kept fewer frames than it has data. The early one compares totals
(`decode.go:69`), and `RecoverableNeedsFrames` justifies it by an injection of the data
frames of a recoverable file into the frames that arrived.

**WeaveCodecProofs, order and bursts.** The video is the result of two folds, and the induction over
them is done with sets: the numbers k for which the first k parts, joined, are as
claimed hold 1 and with k also k + 1, so they are all (`Induction`). `FlattenByPrefixes`
gives the folds their prefixes; `FlattenProperties` says that what is joined keeps its
elements and, if every part is in order and before the next, their order.
`EncodeEmitsEncoded` and `InterleaveOrders` apply that to the loops of `Encode` and
`InterleaveByBlock`, and `VideoOrdered` follows. Every frame has a place, a block and a
slot, and every place but the slots a short last block leaves empty has a frame
(`PlaceOfFrame`, `FrameOfPlace`).

`BurstRecoverable` counts. Between two frames of a block, in slots t < u, the
video shows of every full block the frame in slot t, if it comes later in the slot, or
the one in slot t + 1 (`NextIsBetween`). So the lost frames of a block but the last,
paired with the full blocks, map into the burst without two pairs meeting
(`BurstSpreads`), and a burst of R frames for every full block takes at most R of any
block (`BlockLoses`): what it takes of the data frames is left of the rescue frames
(`LossesAddUp`). `EncodeAccepted` adds to the acceptance of each frame that the slices
are as long as the decoder thinks and follow each other to the end of the input
(`SliceFacts`, `SumIsTotal`).

**WeaveCodecProofs, the codec.** From the bottom up. Sums of sequences over the field
may be reordered, added and scaled, and sums of sums exchanged. `InvertMatrixInverts`:
every row of the extended matrix has as its left half its right half times the original
(`IsRow`), scaling and adding rows keeps that, and in the end the left half is the unit
(`Reduced`). `CauchyInverts`: clearing a column of a Cauchy matrix leaves one, up to
factors of rows and columns (`CauchyBelow`), whose next pivot is therefore not zero; with
`SystemIsCauchy` every system of missing frames and as many rescue frames is solved, in
blocks of every size. `CramerInverts` is the same for the shortcut for two.

`ReconstructedIs` is one call of `Reconstruct`, on a workspace as earlier calls may have
left it (`IsWorkspace`, `IsCache`), for any frames of the file, in any order, repeated, or
behind one whose bytes were changed, however many: more than `2 * maxFrameCount` are
refused, and for the others the checks before the repair pass (`RestoresIsAccepted`); slots hold the bytes of their frames (`IsFilling`), a
buffer that is handed out is in no other slot (`HandOutHolds`), and what the solvers write
there are the missing slices, because the rescue frames are sums of the data frames with
the coefficients of the system. So the call returns the file if there are not too many frames and every block has a
rescue frame for each missing data frame, and else an error, with the caller's array
untouched. `CodecCorrect` carries this over any number of calls (`CodecInv`); from it
follow `CallsIndependent`, `FileRestored`, `KeptInversesRight` and
`FailureKeepsOutput`.

**WeaveDecodeProofs, pictures.** `SamplesInside` holds for every size in which the squares
have five pixels in either direction. A rounded edge is off by half a pixel, and the
sample leaves out the first and the last pixel (`InsetLies`), which settles columns. For
rows the height of the bar is rounded too, and the rows are scaled to what it leaves: by
what it moves the first row, it moves the later ones less (`RowBegins`, `RowEnds`). Pictures
of `hq` of 225 to 236 rows are an exception, because a bar has at least four rows; there
the edges are right because they are whole numbers (`SmallestEnds`).

**EncodePipelineProofs.** `OneOwner` and `InOrder` are about where a frame and a buffer
can be. `OwnerInv`: jobs holds the frames that were fed last, in order; what was
taken and not yet written is with one worker, in one result or pending; a worker has a
buffer exactly while it has a frame; and a buffer is with one of these, in the pool or
not yet made. `InOrder` adds that the pixels in a buffer are those of the frame it
travels with (`PixelsAreRight`). `SuccessWhole` needs that no frame vanishes
without an error on record (`NoFrameIsLost`), and that the last worker leaves after
the channel is drained (`WorkersLeaveLast`, `CallerIsThrough`).

**EncodeCommandProofs.** `SuccessWhole` and `FfmpegIsGone` rest on five parts that
relate how far one actor can be to where another is: the frames in the pipe and
in ffmpeg are those the goroutine sent (`FramesAreCounted`), the process lives between
its start and the deferred function (`FfmpegIsInside`), and a goroutine without
a failure has seen the end of ffmpeg (`NoFailureMeansEnd`). `ProgressHonest` follows
reports through the channel, whose senders wait while it is full; `TailKeepsNewest` shows
that taking the oldest report leaves the newest one the newest. `ScreenClean` is inductive by itself.

**WeaveTrailerProofs.** `WholePayload`: a reader looks at a file that only grows behind
the place where it looks, and a footer is only believed if the cells in front of it are
those it was computed from. `TrailerReadable`: the end of the file is what the
writer has written of its payload (`WriterIsInside`), so that a footer is appended
directly behind the whole of it and, without damage, stays behind it
(`FootersFollowPayloads`).

**FfmpegCacheProofs.** `RunsAreVerified` and `InstallsAreWhole` use that a temporary
file is valid from the check of its digest to its rename, and what a process that
nobody interfered with knows of the executable; the mutex is not used.
`TempsAreRemoved` and `ReplacementIsSerialized` use that a process inside holds the
mutex, `NoticesAccompany` that the second notice follows the first. All hold for any
number of processes, crashes and changes.

**DecodeCommandProofs.** `DestinationSafe`: a temporary file is whole only if its
stream was checked, only a whole one reaches the rename, and a result is final
(`CopiesAreChecked`). `FilesAreRemoved`: each deferred call removes one file or
notes that it could not, and nothing brings it back (`Removed`).
`RecoverableDelivered`: the frames are those of one run of ffmpeg, the payload in memory
is the one that was sent unless they are bad, and frames are used only without an
intact trailer (`Traced`). All hold for any number of processes, faults and crashes.

**PlainDecodeProofs.** `VerifiedSent` begins with one image. With the code the frame was
drawn with, the search erases fewer shards than there is parity, so the shards left
over decide: erasures that agree cover the damage (`OwnAgreeing`), and what the search
writes back is what was drawn (`OwnRepair`). A code tried after it may agree on
anything and write into the bytes of the image, but its first erasures take the
header along (`ForeignTry`). `TryCodesFacts` carries both through the loop over the codes:
what verifies is right, and damage within the limit verifies. `IInv` then holds of
`ReconstructFile` in any order of results: what is kept is what some image was read as,
under its own index (`KeptAreRead`), and a verified result is kept, or another one for
its index, unless an image like it still waits (`VerifiedAreKept`), which is where equal
images that are dropped come in.

The other three theorems are about the output that `Join` makes of the map.
`JoinInduction` does the induction over the loop with a set of pairs (number of
frames, bytes so far): `InOrder` takes the ascending sequences below the end of the
last slice, `NotMixed` those of one kind of bytes, `Restored` the prefix of the
payload. All hold for any payload, codes, number of misread frames and padding.

Only model-checked:

- Liveness (`EncodeReturns` of both encoders, `PathReturns`, the termination that
  `RefinesRecovery` includes), which is out of the prover's reach. Of the
  refinement the initial state and every step are proved.
- `FrameIsRead`, for the sizes, shifts, blurs and levels of the run: which of the attempts
  reads a picture depends on each size, and for other sizes the limits of `SmallShift` and
  `DistinctLevels` may be others.
- That GF(256) is a field, as far as `MCWeaveCodec` checks it: the step from the powers of
  two to all elements is an induction over bits, and no module with proofs can use the
  exclusive or of `Bitwise`.

The library's induction theorems take operators and cannot be cited; where a proof needs
induction over data it is done with sets, as above.

Where `TypeOK` is in no run (`EncodePipeline`, `EncodeCommand`, `WeaveTrailer`,
`DecodeCommand`) it is proved.

## 6. Findings

`InterleaveByBlock` is said to spread consecutive losses across different blocks
(`interleave.go:5`). With a short last block that does not hold for all neighbours
(`weave_neighbours`). What holds is weaker and still useful (`weave_budget`): a burst
of as many frames as there are rescue frames in all full blocks can be repaired.

What else the models made plain, without a document that says otherwise:

- The CRC of a frame covers its payload only. A damaged header is caught by the
  comparison with other frames unless it takes the slot of a frame that is missing.
- A damaged trailer ends `runDecode`, also when the frames could be decoded.
- A failed encode has already replaced an older video of the same name, and may leave
  a short one that plays. `EncodePayloads` also leaves goroutines and an ffmpeg that
  nobody waits for; `EncodePayloadsWeave` does not.
- The search for corrupt shards of 10 + 6 spends all parity, so its first combination
  of six always verifies and is written into the bytes of the image
  (`reconstructor.go:535`). It is harmless because 16 + 8 is tried first, the header
  that comes out does not parse, and no code follows; with 10 + 6 first,
  `VerifiedIsSent` and `CompleteIsRestored` fail.
- What the attempts reach: `SmallShift` and `DistinctLevels` say how far a picture may
  be moved and how pale it may be. A compact video at 426x240 is read only if it is
  sharp; `dense`, with four levels, needs eight times the contrast of the others.
- With padding (`targetDuration`, which the menu always sets to 0) the padding frames
  of the older format have the indexes of the payload again, and without keys the
  decoder keeps whichever has more frames.

## 7. What is not modelled

- The attempt that compares the halves of a square (`reconstructor.go:899-947`): what
  the encoders draw has no halves, and `FrameImage` leaves open what it reads.
- The bytes of macropixels in a frame, `binary` encoding of headers and CRC32 as
  functions: an image is read or not, a checksum fits or not.
- The reports of progress of the decoder and of the older encoder
  (`decoder/weave.go:61-63`, `reconstructor.go:174-176`, `video.go:308-310`): they are sends that
  wait while the channel is full, and the collector or writer stands still meanwhile.
  `runDecode` and `runEncode` take reports until the channel is closed, so the wait ends;
  for `runEncode` with the preset of the menu, `EncodeCommand` models it. The extractor's
  own report (`extractor.go:67`) is never made: its channel is nil.
- A damaged trailer next to frames that could be decoded (`RecoverableIsDelivered` exempts
  it), a change of ffmpeg.exe after its verification (`OnlyVerifiedRuns` exempts it), and
  that the payload wins a tie of votes (`CompleteIsRestored` demands a single winner): the
  code does not handle them, and no document says that it does.
- Concurrent use of a `Codec`, which `codec.go:6` excludes.
- GPU probing, ffmpeg arguments, the search for an external ffmpeg, menu and prompts,
  the unused checksum utility, the bundling script and the web page: no state to get
  wrong, or other programs' output.
- The writer of WEV1 trailers in the encoder package, which nothing calls.

## 8. Plan

Done, in this order: budget and headers; decoder with pool, transport and the
refinement; interleaving; their proofs; the cache and its proofs; the older encoder;
the encode command with the loading screen; the trailer; the decode command and its
proofs; the older format; the codec with its field; error correction; pictures; the proofs about
the encoders, the trailer, the refinement, what damaged headers can do, the order of the
video with the bursts it survives, the older format with its error correction, the codec
over any field, and where a picture of any size is sampled.

To do: compositions, of `DecodeCommand` with the outcomes of `WeaveDecode` and of two
processes that encode and decode the same file.
