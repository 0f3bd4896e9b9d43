----------------------------- MODULE DecodeCommand -----------------------------
(***************************************************************************)
(* The decode command, runDecode of src/cmd/cli/main.go, with              *)
(* writeDecompressedPayload of payload.go and the frame extractor.         *)
(*                                                                         *)
(* Several processes may decode, each its own video, to one destination.   *)
(* What a video still holds is its input; files of unique names (the       *)
(* directory of extracted frames, the raw file, the temporary file) belong *)
(* to one process, the destination to all.  Reconstruction is taken by     *)
(* what WeaveDecode shows of it; both presets of the menu use it, and only *)
(* "weave" looks for a trailer first.                                      *)
(***************************************************************************)
EXTENDS Naturals

CONSTANTS
  Procs,
  MaxFaults,   (* calls of the system that fail *)
  MaxCrashes

ASSUME DecodeAssumption == MaxFaults \in Nat /\ MaxCrashes \in Nat

(* A video: its preset, the state of its trailer and of its frames, and    *)
(* whether the stream that was put into it is one writeDecompressedPayload *)
(* accepts.                                                                *)
Inputs == [preset : {"weave", "tiktok"}, trailer : {"none", "intact", "damaged"},
           frames : {"recoverable", "bad"},
           stream : {"valid", "oversize", "broken"}]

VARIABLES
  input, pc,
  data,        (* the payload in memory: "none", "sent" or "wrong" *)
  frameDir,    (* what there is of the extractor's directory *)
  raw,         (* the raw file: "none", "empty", "sent" or "wrong" *)
  tmp,         (* the temporary file: "none", "partial" or "whole" *)
  dest,        (* the destination *)
  result,      (* "none", "ok" or "error" *)
  faulty,      (* the processes a system call has failed *)
  kept,        (* the files whose removal has failed *)
  faults, crashes

vars == <<input, pc, data, frameDir, raw, tmp, dest, result, faulty, kept, faults, crashes>>
files == <<frameDir, raw, tmp, dest>>
count == <<faulty, kept, faults, crashes>>

(* The directory, and in it the frames of the first and of the second run   *)
(* of ffmpeg.                                                              *)
Extracted == {"dir", "first", "second"}

Old == [from |-> {}, content |-> "whole"]
FileOf(p, content) == [from |-> {p}, content |-> content]

Goto(p, from, to) == pc[p] = from /\ pc' = [pc EXCEPT ![p] = to]

(* An early return: the deferred calls of writeDecompressedPayload run, if  *)
(* it has begun, and then those of runDecode.                              *)
Fails(p, from) ==
  /\ Goto(p, from, "deferred")
  /\ result' = [result EXCEPT ![p] = "error"]

Ok(p) == result' = [result EXCEPT ![p] = "ok"]

-----------------------------------------------------------------------------
(* runDecode, up to the payload *)

(* Only the weave preset looks for a trailer, and one that cannot be read   *)
(* ends the command: the frames are not tried.                             *)
ReadTrailer(p) ==
  /\ LET trailer == IF input[p].preset = "weave" THEN input[p].trailer ELSE "none"
     IN  \/ /\ trailer = "none" /\ Goto(p, "start", "extractor")
            /\ UNCHANGED <<data, result>>
         \/ /\ trailer = "intact" /\ Goto(p, "start", "format")
            /\ data' = [data EXCEPT ![p] = "sent"]
            /\ UNCHANGED result
         \/ trailer = "damaged" /\ Fails(p, "start") /\ UNCHANGED data
  /\ UNCHANGED <<input, files, count>>

NewFrameExtractor(p) ==
  /\ Goto(p, "extractor", "extract")
  /\ frameDir' = [frameDir EXCEPT ![p] = {"dir"}]
  /\ UNCHANGED <<input, data, raw, tmp, dest, result, count>>

(* The run of ffmpeg with -fps_mode.  An older ffmpeg refuses it, and some  *)
(* videos end it in the middle.                                            *)
Extract(p) ==
  /\ \/ /\ Goto(p, "extract", "raw")
        /\ frameDir' = [frameDir EXCEPT ![p] = @ \cup {"first"}]
     \/ /\ Goto(p, "extract", "cleanup")
        /\ frameDir' \in {frameDir, [frameDir EXCEPT ![p] = @ \cup {"first"}]}
  /\ UNCHANGED <<input, data, raw, tmp, dest, result, count>>

(* Mutant: the frames of the first run stay where they are. *)
KeepExtractedPNGs(p) ==
  /\ Goto(p, "cleanup", "again")
  /\ UNCHANGED <<input, data, files, result, count>>

(* What the first run has left is removed; nobody looks whether it is. *)
CleanupExtractedPNGs(p) ==
  /\ Goto(p, "cleanup", "again")
  /\ \/ /\ frameDir' = [frameDir EXCEPT ![p] = @ \ {"first"}]
        /\ UNCHANGED count
     \/ /\ faults < MaxFaults
        /\ faults' = faults + 1 /\ faulty' = faulty \cup {p}
        /\ UNCHANGED <<frameDir, kept, crashes>>
  /\ UNCHANGED <<input, data, raw, tmp, dest, result>>

(* The run is repeated with -vsync.  It gives its frames the same names, so *)
(* those of the first run that are still there are replaced, or it writes   *)
(* fewer and some remain.                                                  *)
ExtractAgain(p) ==
  /\ Goto(p, "again", "raw")
  /\ \E rest \in SUBSET (frameDir[p] \cap {"first"}) :
        frameDir' = [frameDir EXCEPT ![p] = {"dir", "second"} \cup rest]
  /\ UNCHANGED <<input, data, raw, tmp, dest, result, count>>

CreateRaw(p) ==
  /\ Goto(p, "raw", "reconstruct")
  /\ raw' = [raw EXCEPT ![p] = "empty"]
  /\ UNCHANGED <<input, data, frameDir, tmp, dest, result, count>>

(* Too few frames are noticed, and wrong ones not always                    *)
(* (WrongFileNeedsVacantSlot in WeaveDecode says when not).  All files of   *)
(* the directory are given to it: what it makes of the frames of two runs   *)
(* is left open.                                                           *)
Reconstruct(p) ==
  /\ LET mixed == {"first", "second"} \subseteq frameDir[p]
         good == input[p].frames = "recoverable"
         Writes(content) == /\ Goto(p, "reconstruct", "readRaw")
                            /\ raw' = [raw EXCEPT ![p] = content]
                            /\ UNCHANGED result
     IN  \/ good /\ Writes("sent")
         \/ (mixed \/ ~good) /\ Writes("wrong")
         \/ (mixed \/ ~good) /\ Fails(p, "reconstruct") /\ UNCHANGED raw
  /\ UNCHANGED <<input, data, frameDir, tmp, dest, count>>

ReadRaw(p) ==
  /\ Goto(p, "readRaw", "format")
  /\ data' = [data EXCEPT ![p] = raw[p]]
  /\ UNCHANGED <<input, files, result, count>>

-----------------------------------------------------------------------------
(* writeDecompressedPayload *)

Decodes(p) == data[p] = "sent" /\ input[p].stream # "broken"

(* Only the beginning of the payload is looked at. *)
CheckFormat(p) ==
  /\ \/ Goto(p, "format", "create") /\ UNCHANGED result
     \/ ~Decodes(p) /\ Fails(p, "format")
  /\ UNCHANGED <<input, data, files, count>>

(* Mutant: the destination itself is written. *)
CreateTempInPlace(p) ==
  /\ Goto(p, "create", "copy")
  /\ tmp' = [tmp EXCEPT ![p] = "partial"]
  /\ dest' = FileOf(p, "partial")
  /\ UNCHANGED <<input, data, frameDir, raw, result, count>>

CreateTemp(p) ==
  /\ Goto(p, "create", "copy")
  /\ tmp' = [tmp EXCEPT ![p] = "partial"]
  /\ UNCHANGED <<input, data, frameDir, raw, dest, result, count>>

(* Everything is decompressed, and the checksum at its end compared, before *)
(* anything else happens; the limit counts one byte too many.              *)
Copy(p) ==
  /\ \/ /\ Decodes(p) /\ input[p].stream = "valid"
        /\ Goto(p, "copy", "close")
        /\ tmp' = [tmp EXCEPT ![p] = "whole"]
        /\ UNCHANGED result
     \/ /\ ~(Decodes(p) /\ input[p].stream = "valid")
        /\ Fails(p, "copy")
        /\ UNCHANGED tmp
  /\ UNCHANGED <<input, data, frameDir, raw, dest, count>>

Close(p) ==
  /\ Goto(p, "close", "rename")
  /\ UNCHANGED <<input, data, files, result, count>>

Rename(p) ==
  /\ Goto(p, "rename", "deferred") /\ Ok(p)
  /\ dest' = FileOf(p, tmp[p])
  /\ tmp' = [tmp EXCEPT ![p] = "none"]
  /\ UNCHANGED <<input, data, frameDir, raw, count>>

(* A deferred removal, whose error nobody sees. *)
Removes(p, file, remove) ==
  \/ remove /\ UNCHANGED count
  \/ /\ faults < MaxFaults
     /\ faults' = faults + 1 /\ kept' = kept \cup {<<p, file>>}
     /\ UNCHANGED <<files, faulty, crashes>>

(* The deferred call of writeDecompressedPayload. *)
RemoveTemp(p) ==
  /\ Goto(p, "deferred", "return")
  /\ Removes(p, "tmp", /\ tmp' = [tmp EXCEPT ![p] = "none"]
                       /\ UNCHANGED <<frameDir, raw, dest>>)
  /\ UNCHANGED <<input, data, result>>

(* Mutant: the raw file is removed only after a success. *)
RemoveRawOfSuccess(p) ==
  /\ Goto(p, "return", "cleaned")
  /\ Removes(p, "raw", /\ raw' = IF result[p] = "ok" THEN [raw EXCEPT ![p] = "none"] ELSE raw
                       /\ UNCHANGED <<frameDir, tmp, dest>>)
  /\ UNCHANGED <<input, data, result>>

(* The deferred calls of runDecode, the last one first. *)
RemoveRaw(p) ==
  /\ Goto(p, "return", "cleaned")
  /\ Removes(p, "raw", /\ raw' = [raw EXCEPT ![p] = "none"]
                       /\ UNCHANGED <<frameDir, tmp, dest>>)
  /\ UNCHANGED <<input, data, result>>

Cleanup(p) ==
  /\ Goto(p, "cleaned", "done")
  /\ Removes(p, "dir", /\ frameDir' = [frameDir EXCEPT ![p] = {}]
                       /\ UNCHANGED <<raw, tmp, dest>>)
  /\ UNCHANGED <<input, data, result>>

-----------------------------------------------------------------------------
(* A call of the system fails: no space, no permission, no ffmpeg, a        *)
(* destination that somebody has open.  The raw file may be partly written. *)
Fail(p) ==
  /\ faults < MaxFaults
  /\ faults' = faults + 1 /\ faulty' = faulty \cup {p}
  /\ \/ \E at \in {"start", "extractor", "extract", "again", "raw", "readRaw", "create",
                   "copy", "close", "rename"} : Fails(p, at) /\ UNCHANGED raw
     \/ Fails(p, "reconstruct") /\ raw' = [raw EXCEPT ![p] = "wrong"]
  /\ UNCHANGED <<input, data, frameDir, tmp, dest, kept, crashes>>

Crash(p) ==
  /\ crashes < MaxCrashes /\ pc[p] \notin {"done", "dead"}
  /\ crashes' = crashes + 1
  /\ pc' = [pc EXCEPT ![p] = "dead"]
  /\ UNCHANGED <<input, data, files, result, faulty, kept, faults>>

Init ==
  /\ input \in [Procs -> Inputs]
  /\ pc = [p \in Procs |-> "start"]
  /\ data = [p \in Procs |-> "none"]
  /\ frameDir = [p \in Procs |-> {}]
  /\ raw = [p \in Procs |-> "none"]
  /\ tmp = [p \in Procs |-> "none"]
  /\ dest = Old
  /\ result = [p \in Procs |-> "none"]
  /\ faulty = {} /\ kept = {} /\ faults = 0 /\ crashes = 0

Step(p) ==
  \/ ReadTrailer(p) \/ NewFrameExtractor(p)
  \/ Extract(p) \/ CleanupExtractedPNGs(p) \/ ExtractAgain(p)
  \/ CreateRaw(p) \/ Reconstruct(p) \/ ReadRaw(p)
  \/ CheckFormat(p) \/ CreateTemp(p) \/ Copy(p) \/ Close(p) \/ Rename(p)
  \/ RemoveTemp(p) \/ RemoveRaw(p) \/ Cleanup(p)

Next == \E p \in Procs : Step(p) \/ Fail(p) \/ Crash(p)

Spec == Init /\ [][Next]_vars

-----------------------------------------------------------------------------
(* Properties *)

(* The values of the variables (main.go:341-405; payload.go:79-95). *)
TypeOK ==
  /\ input \in [Procs -> Inputs]
  /\ pc \in [Procs -> {"start", "extractor", "extract", "cleanup", "again", "raw",
                       "reconstruct", "readRaw", "format", "create", "copy", "close",
                       "rename", "deferred", "return", "cleaned", "done", "dead"}]
  /\ data \in [Procs -> {"none", "empty", "sent", "wrong"}]
  /\ frameDir \in [Procs -> SUBSET Extracted]
  /\ raw \in [Procs -> {"none", "empty", "sent", "wrong"}]
  /\ tmp \in [Procs -> {"none", "partial", "whole"}]
  /\ dest \in {Old} \cup {FileOf(p, c) : p \in Procs, c \in {"none", "partial", "whole"}}
  /\ result \in [Procs -> {"none", "ok", "error"}]
  /\ faulty \subseteq Procs /\ kept \subseteq Procs \X {"dir", "raw", "tmp"}
  /\ faults \in 0..MaxFaults /\ crashes \in 0..MaxCrashes

(* The destination is the old file or the whole, checked file of a video    *)
(* that really holds one, at every moment and whoever crashes; a process    *)
(* that reports an error has not touched it, and after one that reports     *)
(* success it is no longer the old one (payload.go:73-94; README.md:405).  *)
DestinationIsSafe ==
  /\ \/ dest = Old
     \/ \E p \in Procs : /\ dest = FileOf(p, "whole")
                         /\ result[p] = "ok"
                         /\ input[p].stream = "valid"
  /\ (\E p \in Procs : result[p] = "ok") => dest # Old

(* A video whose trailer or, without one, whose frames hold a valid payload *)
(* is decoded unless a call of the system fails: with an old ffmpeg, after  *)
(* a first run that ended in the middle, and next to other processes with   *)
(* the same destination (extractor.go:43-49).                              *)
RecoverableIsDelivered ==
  \A p \in Procs :
    result[p] = "error" =>
      \/ p \in faulty
      \/ input[p].stream # "valid"
      \/ (input[p].preset = "weave" /\ input[p].trailer = "damaged")
      \/ (input[p].frames # "recoverable"
            /\ ~(input[p].preset = "weave" /\ input[p].trailer = "intact"))

(* A command that returns, with an error or without, has left no file but   *)
(* the destination and those whose own removal failed: a removal that fails *)
(* does not keep the others from being made (main.go:358, 376;             *)
(* payload.go:79-80).                                                      *)
NothingIsLeft ==
  \A p \in Procs :
    pc[p] = "done" =>
      /\ frameDir[p] = {} \/ <<p, "dir">> \in kept
      /\ raw[p] = "none" \/ <<p, "raw">> \in kept
      /\ tmp[p] = "none" \/ <<p, "tmp">> \in kept
=============================================================================
