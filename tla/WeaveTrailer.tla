----------------------------- MODULE WeaveTrailer -----------------------------
(***************************************************************************)
(* A compact video carries its payload behind the video: AppendTrailer     *)
(* writes the payload and then a footer with its length and CRC, and       *)
(* ReadTrailer looks for the footer at the end of the file.  A writer may  *)
(* be interrupted at any write, and a reader may look while a writer is at *)
(* work.                                                                   *)
(*                                                                         *)
(* The file is a sequence of cells.  A footer is one cell that can be       *)
(* destroyed as a whole, magic included, or change in its length or in its *)
(* CRC; the CRC stands for the cells of the payload it was computed from.  *)
(***************************************************************************)
EXTENDS Integers, Sequences

CONSTANTS
  Payloads,     (* what is appended *)
  MaxPayload,   (* maxProtectedBytes *)
  MaxAppends,
  MaxDamage     (* cells that change, and ends that are cut off *)

PayloadCells == UNION {{p[k] : k \in DOMAIN p} : p \in Payloads}

(* No payload is empty, and none has the magic of a footer at the end of a  *)
(* cell or a cell that is the sign of a changed CRC.                       *)
ASSUME TrailerAssumption ==
  /\ Payloads \subseteq Seq(PayloadCells) /\ <<>> \notin Payloads
  /\ \A c \in PayloadCells : c.kind \notin {"footer", "unmatched"}
  /\ MaxPayload \in Nat /\ MaxAppends \in Nat /\ MaxDamage \in Nat

VARIABLES
  file,
  payload,   (* what the writer appends, <<>> while there is no writer *)
  toWrite,   (* the part of it that is not yet in the file *)
  appends, damage,
  reader,    (* "idle", "footer" or "payload" *)
  size,      (* info.Size *)
  answer     (* what ReadTrailer returned last *)

writer == <<payload, toWrite, appends>>
vars == <<file, payload, toWrite, appends, damage, reader, size, answer>>

Cell(kind) == [kind |-> kind, length |-> 0, crc |-> <<>>]
Video == Cell("video")
Damaged == Cell("damaged")

(* A CRC that belongs to no cells of a file. *)
Unmatched == <<Cell("unmatched")>>

Footer(p) == [kind |-> "footer", length |-> Len(p), crc |-> p]

NoTrailer == [found |-> "none", payload |-> <<>>]
Invalid == [found |-> "invalid", payload |-> <<>>]
Found(p) == [found |-> "ok", payload |-> p]

-----------------------------------------------------------------------------
(* AppendTrailer *)

(* A payload that is too long is refused before the file is opened. *)
Accepted == {p \in Payloads : Len(p) <= MaxPayload}

Open ==
  /\ payload = <<>> /\ appends < MaxAppends
  /\ appends' = appends + 1
  /\ \E p \in Accepted : payload' = p /\ toWrite' = p
  /\ UNCHANGED <<file, damage, reader, size, answer>>

WritePayload ==
  /\ toWrite # <<>>
  /\ file' = Append(file, Head(toWrite))
  /\ toWrite' = Tail(toWrite)
  /\ UNCHANGED <<payload, appends, damage, reader, size, answer>>

WriteFooter ==
  /\ payload # <<>> /\ toWrite = <<>>
  /\ file' = Append(file, Footer(payload))
  /\ payload' = <<>>
  /\ UNCHANGED <<toWrite, appends, damage, reader, size, answer>>

(* A write fails or the process ends, also in the middle of the footer. *)
Interrupt ==
  /\ payload # <<>>
  /\ payload' = <<>> /\ toWrite' = <<>>
  /\ file' \in {file} \cup (IF toWrite = <<>> THEN {Append(file, Damaged)} ELSE {})
  /\ UNCHANGED <<appends, damage, reader, size, answer>>

-----------------------------------------------------------------------------
(* What happens to the file between the two ends *)

(* What a cell can become.  A length above the bound is as good as any     *)
(* other.                                                                  *)
DamagedForms(c) ==
  {Damaged} \cup
    IF c.kind = "footer"
    THEN {[c EXCEPT !.length = l] : l \in 0..(MaxPayload + 1)}
           \cup {[c EXCEPT !.crc = Unmatched]}
    ELSE {}

Damage ==
  /\ payload = <<>> /\ reader = "idle" /\ damage < MaxDamage
  /\ damage' = damage + 1
  /\ \/ \E k \in DOMAIN file :
          \E c \in DamagedForms(file[k]) : file' = [file EXCEPT ![k] = c]
     \/ \E k \in DOMAIN file : file' = SubSeq(file, 1, k)
  /\ UNCHANGED <<writer, reader, size, answer>>

-----------------------------------------------------------------------------
(* ReadTrailer *)

Stat ==
  /\ reader = "idle"
  /\ size' = Len(file)
  /\ reader' = "footer"
  /\ answer' = NoTrailer
  /\ UNCHANGED <<file, writer, damage>>

(* A file that does not end in a footer has no trailer. *)
ReadFooter ==
  /\ reader = "footer"
  /\ reader' = IF file[size].kind = "footer" THEN "payload" ELSE "idle"
  /\ UNCHANGED <<file, writer, damage, size, answer>>

(* Mutant: the CRC is not compared. *)
ReadPayloadUnchecked ==
  /\ reader = "payload"
  /\ LET footer == file[size]
         start == size - 1 - footer.length
     IN  answer' = IF footer.length > MaxPayload \/ start < 0
                   THEN Invalid ELSE Found(SubSeq(file, start + 1, size - 1))
  /\ reader' = "idle"
  /\ UNCHANGED <<file, writer, damage, size>>

(* Mutant: the payload is looked for at the present end of the file. *)
ReadPayloadAtEnd ==
  /\ reader = "payload"
  /\ LET footer == file[size]
         start == Len(file) - 1 - footer.length
         found == SubSeq(file, start + 1, start + footer.length)
     IN  answer' = IF footer.length > MaxPayload \/ start < 0 \/ found # footer.crc
                   THEN Invalid ELSE Found(found)
  /\ reader' = "idle"
  /\ UNCHANGED <<file, writer, damage, size>>

ReadPayload ==
  /\ reader = "payload"
  /\ LET footer == file[size]
         start == size - 1 - footer.length
         found == SubSeq(file, start + 1, size - 1)
     IN  answer' = IF footer.length > MaxPayload \/ start < 0 \/ found # footer.crc
                   THEN Invalid ELSE Found(found)
  /\ reader' = "idle"
  /\ UNCHANGED <<file, writer, damage, size>>

-----------------------------------------------------------------------------

Init ==
  /\ file = <<Video>>
  /\ payload = <<>> /\ toWrite = <<>> /\ appends = 0 /\ damage = 0
  /\ reader = "idle" /\ size = 0 /\ answer = NoTrailer

Next ==
  \/ Open \/ WritePayload \/ WriteFooter \/ Interrupt
  \/ Damage
  \/ Stat \/ ReadFooter \/ ReadPayload

Spec == Init /\ [][Next]_vars

-----------------------------------------------------------------------------
(* Properties *)

Footers == [kind : {"footer"}, length : Nat, crc : Accepted \cup {Unmatched}]

Cells == {Video, Damaged} \cup PayloadCells \cup Footers

(* The values of the variables: a file is never empty and consists of video *)
(* and of pieces of trailers.                                              *)
TypeOK ==
  /\ file \in Seq(Cells) /\ file # <<>>
  /\ payload \in Accepted \cup {<<>>} /\ toWrite \in Seq(Cells)
  /\ appends \in 0..MaxAppends /\ damage \in 0..MaxDamage
  /\ reader \in {"idle", "footer", "payload"}
  /\ size \in 0..Len(file) \/ reader = "idle"
  /\ answer.found \in {"none", "invalid", "ok"}

(* A decoder that gets a payload gets one that was appended, whole and      *)
(* undamaged: never the rest of an interrupted append, a mixture with an    *)
(* append that goes on while it reads, nor what a damaged length leads to   *)
(* (trailer.go:25-34, 44-81).                                              *)
ReadsWholePayload == answer.found = "ok" => answer.payload \in Accepted

(* As long as nothing is damaged, a file that ends in a footer has a        *)
(* trailer that can be read, however many appends were interrupted before,  *)
(* and no append is accepted that the reader refuses (trailer.go:16, 62).   *)
LastTrailerIsReadable ==
  [][reader = "payload" /\ reader' = "idle" /\ damage = 0 =>
       answer'.found = "ok" /\ answer'.payload = file[size].crc]_vars
=============================================================================
