-------------------------- MODULE WeaveTrailerProofs --------------------------
(***************************************************************************)
(* Proofs about WeaveTrailer for any payloads, any number of appends and   *)
(* any amount of damage.                                                   *)
(***************************************************************************)
EXTENDS WeaveTrailer, SequenceTheorems, TLAPS

-----------------------------------------------------------------------------
(* The inductive invariant *)

(* The end of the file is what the writer has written of its payload. *)
Written == Len(payload) - Len(toWrite)

WriterIsInside ==
  /\ payload = <<>> => toWrite = <<>>
  /\ Written >= 0 /\ Written <= Len(file)
  /\ \A k \in 1..Written : file[Len(file) - Written + k] = payload[k]
  /\ \A k \in 1..Len(toWrite) : toWrite[k] = payload[Written + k]

(* The reader looks at a file that only grows under it. *)
ReaderIsInside ==
  /\ reader # "idle" => size \in 1..Len(file)
  /\ reader = "payload" => file[size].kind = "footer"

(* Every footer of an undamaged file has its payload in front of it. *)
FollowsPayload(k) ==
  /\ file[k].crc \in Accepted /\ file[k].length = Len(file[k].crc)
  /\ file[k].length < k
  /\ \A i \in 1..file[k].length : file[k - 1 - file[k].length + i] = file[k].crc[i]

FootersFollowPayloads ==
  damage = 0 => \A k \in 1..Len(file) : file[k].kind = "footer" => FollowsPayload(k)

IInv == TypeOK /\ WriterIsInside /\ ReaderIsInside /\ ReadsWholePayload

(* A cell of the file that is a footer has the fields of one, and none is   *)
(* the sign of a changed CRC.                                              *)
LEMMA FooterType ==
  ASSUME NEW c \in Cells
  PROVE  /\ c.kind = "footer" => c \in Footers
         /\ c # Cell("unmatched")
<1>1. \A d \in {Video, Damaged} : d.kind \notin {"footer", "unmatched"}
  BY DEF Video, Damaged, Cell
<1>2. \A d \in PayloadCells : d.kind \notin {"footer", "unmatched"}
  BY TrailerAssumption
<1>3. \A d \in Footers : d.kind # "unmatched"
  BY DEF Footers
<1>4. Cell("unmatched").kind = "unmatched"
  BY DEF Cell
<1> QED BY <1>1, <1>2, <1>3, <1>4 DEF Cells

(* What the payloads are. *)
LEMMA PayloadType ==
  ASSUME NEW p \in Accepted
  PROVE  /\ p \in Seq(PayloadCells) /\ p \in Seq(Cells) /\ p # <<>>
         /\ Len(p) \in Nat \ {0} /\ Len(p) <= MaxPayload
         /\ Footer(p) \in Cells
         /\ Footer(p).kind = "footer" /\ Footer(p).length = Len(p) /\ Footer(p).crc = p
<1>1. p \in Seq(PayloadCells) /\ p # <<>> /\ Len(p) <= MaxPayload
  BY TrailerAssumption DEF Accepted
<1>2. Len(p) \in Nat \ {0}
  BY <1>1, EmptySeq
<1>3. PayloadCells \subseteq Cells /\ Footers \subseteq Cells
  BY DEF Cells
<1>4. Footer(p) \in Footers
  BY <1>2 DEF Footer, Footers
<1>5. Footer(p).kind = "footer" /\ Footer(p).length = Len(p) /\ Footer(p).crc = p
  BY DEF Footer
<1> QED BY <1>1, <1>2, <1>3, <1>4, <1>5

(* Damage makes cells of cells. *)
LEMMA DamagedType ==
  ASSUME NEW c \in Cells, NEW d \in DamagedForms(c)
  PROVE  d \in Cells
<1>1. Damaged \in Cells
  BY DEF Cells
<1>2. CASE d # Damaged
  <2>1. c \in Footers
    BY <1>2, FooterType DEF DamagedForms
  <2>2. CASE d = [c EXCEPT !.crc = Unmatched]
    BY <2>1, <2>2 DEF Footers, Cells
  <2>3. CASE \E l \in 0..(MaxPayload + 1) : d = [c EXCEPT !.length = l]
    <3>1. PICK l \in 0..(MaxPayload + 1) : d = [c EXCEPT !.length = l]
      BY <2>3
    <3>2. l \in Nat
      BY TrailerAssumption
    <3> QED BY <2>1, <3>1, <3>2 DEF Footers, Cells
  <2> QED BY <1>2, <2>2, <2>3 DEF DamagedForms
<1> QED BY <1>1, <1>2

LEMMA AppendAddsLast ==
  ASSUME NEW S, NEW seq \in Seq(S), NEW x \in S
  PROVE  /\ Append(seq, x) \in Seq(S) /\ Append(seq, x) # <<>> /\ Len(seq) \in Nat
         /\ Len(Append(seq, x)) = Len(seq) + 1
         /\ Append(seq, x)[Len(seq) + 1] = x
         /\ \A k \in 1..Len(seq) : Append(seq, x)[k] = seq[k]
BY AppendProperties, LenProperties

LEMMA TailIsShifted ==
  ASSUME NEW S, NEW seq \in Seq(S), seq # <<>>
  PROVE  /\ Head(seq) \in S /\ Head(seq) = seq[1] /\ Len(seq) \in Nat \ {0}
         /\ Tail(seq) \in Seq(S) /\ Len(Tail(seq)) = Len(seq) - 1
         /\ \A k \in 1..(Len(seq) - 1) : Tail(seq)[k] = seq[k + 1]
BY HeadTailProperties, EmptySeq

(* The part of the file in front of a footer is its payload when the cells  *)
(* are.                                                                    *)
LEMMA PayloadIsFound ==
  ASSUME TypeOK, NEW k \in 1..Len(file), file[k].kind = "footer", FollowsPayload(k)
  PROVE  SubSeq(file, k - file[k].length, k - 1) = file[k].crc
<1>1. file[k] \in Cells /\ Len(file) \in Nat
  BY DEF TypeOK
<1>2. PICK p \in Accepted : file[k].crc = p /\ file[k].length = Len(p)
  BY DEF FollowsPayload
<1>3. p \in Seq(Cells) /\ Len(p) \in Nat
  BY PayloadType
<1> DEFINE found == SubSeq(file, k - Len(p), k - 1)
<1>4. /\ k - Len(p) \in 1..(Len(file) + 1) /\ k - 1 \in 0..Len(file) /\ k - Len(p) <= k - 1 + 1
      /\ \A i \in 1..Len(p) : file[k - 1 - Len(p) + i] = p[i]
  BY <1>1, <1>2, <1>3 DEF FollowsPayload
<1>5. /\ found \in Seq(Cells) /\ Len(found) = Len(p)
      /\ \A i \in 1..Len(p) : found[i] = file[k - Len(p) + i - 1]
  BY <1>1, <1>3, <1>4, SubSeqProperties DEF TypeOK
<1>6. \A i \in 1..Len(p) : found[i] = p[i]
  <2> TAKE i \in 1..Len(p)
  <2>1. k - Len(p) + i - 1 = k - 1 - Len(p) + i
    BY <1>1, <1>3
  <2> QED BY <1>4, <1>5, <2>1
<1>7. found = p
  BY <1>3, <1>5, <1>6, SeqEqual
<1> QED BY <1>2, <1>7

-----------------------------------------------------------------------------
(* Types *)

LEMMA InitTypeOK == Init => TypeOK
<1> SUFFICES ASSUME Init PROVE TypeOK
  OBVIOUS
<1>1. Video \in Cells
  BY DEF Cells
<1>2. file \in Seq(Cells) /\ file # <<>> /\ toWrite \in Seq(Cells)
  BY <1>1 DEF Init
<1>3. appends \in 0..MaxAppends /\ damage \in 0..MaxDamage
  <2>1. appends = 0 /\ damage = 0
    BY DEF Init
  <2> QED BY <2>1, TrailerAssumption
<1> QED BY <1>2, <1>3 DEF Init, TypeOK, NoTrailer

LEMMA NextTypeOK == TypeOK /\ WriterIsInside /\ ReaderIsInside /\ [Next]_vars => TypeOK'
<1> SUFFICES ASSUME TypeOK, WriterIsInside, ReaderIsInside, [Next]_vars PROVE TypeOK'
  OBVIOUS
<1> USE TrailerAssumption DEF TypeOK, writer
<1>1. Damaged \in Cells
  BY DEF Cells
<1>2. Len(file) \in Nat \ {0}
  BY EmptySeq
<1>3. CASE Open
  BY <1>3, PayloadType DEF Open
<1>4. CASE WritePayload
  <2>1. Head(toWrite) \in Cells /\ toWrite' \in Seq(Cells)
    BY <1>4, TailIsShifted DEF WritePayload
  <2>2. file' \in Seq(Cells) /\ file' # <<>> /\ Len(file') = Len(file) + 1
    BY <1>4, <2>1, AppendAddsLast DEF WritePayload
  <2> QED BY <1>2, <1>4, <2>1, <2>2 DEF WritePayload
<1>5. CASE WriteFooter
  <2>1. Footer(payload) \in Cells
    BY <1>5, PayloadType DEF WriteFooter
  <2>2. file' \in Seq(Cells) /\ file' # <<>> /\ Len(file') = Len(file) + 1
    BY <1>5, <2>1, AppendAddsLast DEF WriteFooter
  <2> QED BY <1>2, <1>5, <2>2 DEF WriteFooter
<1>6. CASE Interrupt
  <2>1. CASE file' = file
    BY <1>6, <2>1 DEF Interrupt
  <2>2. CASE file' = Append(file, Damaged)
    <3>1. file' \in Seq(Cells) /\ file' # <<>> /\ Len(file') = Len(file) + 1
      BY <1>1, <2>2, AppendAddsLast
    <3> QED BY <1>2, <1>6, <3>1 DEF Interrupt
  <2> QED BY <1>6, <2>1, <2>2 DEF Interrupt
<1>7. CASE Damage
  <2>1. file' \in Seq(Cells) /\ file' # <<>>
    <3>1. ASSUME NEW k \in DOMAIN file, NEW c \in DamagedForms(file[k]),
                 file' = [file EXCEPT ![k] = c]
          PROVE  file' \in Seq(Cells) /\ file' # <<>>
      <4>1. k \in 1..Len(file) /\ file[k] \in Cells
        BY LenProperties
      <4>2. c \in Cells
        BY <4>1, DamagedType
      <4>3. file' \in Seq(Cells) /\ Len(file') = Len(file)
        BY <3>1, <4>2, ExceptSeq
      <4> QED BY <1>2, <4>3, EmptySeq
    <3>2. ASSUME NEW k \in DOMAIN file, file' = SubSeq(file, 1, k)
          PROVE  file' \in Seq(Cells) /\ file' # <<>>
      <4>1. k \in 1..Len(file)
        BY LenProperties
      <4>2. file' \in Seq(Cells) /\ Len(file') = k
        BY <1>2, <3>2, <4>1, SubSeqProperties
      <4> QED BY <4>1, <4>2, EmptySeq
    <3> QED BY <1>7, <3>1, <3>2 DEF Damage
  <2> QED BY <1>7, <2>1 DEF Damage
<1>8. CASE Stat
  BY <1>2, <1>8 DEF Stat, NoTrailer
<1>9. CASE ReadFooter
  BY <1>9 DEF ReadFooter, ReaderIsInside
<1>10. CASE ReadPayload
  <2>1. answer'.found \in {"invalid", "ok"}
    BY <1>10 DEF ReadPayload, Invalid, Found
  <2> QED BY <1>10, <2>1 DEF ReadPayload
<1>11. CASE UNCHANGED vars
  BY <1>11 DEF vars
<1> QED BY <1>3, <1>4, <1>5, <1>6, <1>7, <1>8, <1>9, <1>10, <1>11 DEF Next

-----------------------------------------------------------------------------
(* Writer and reader *)

LEMMA InitIInv == Init => WriterIsInside /\ ReaderIsInside /\ ReadsWholePayload
<1> SUFFICES ASSUME Init PROVE WriterIsInside /\ ReaderIsInside /\ ReadsWholePayload
  OBVIOUS
<1>1. Len(payload) = 0 /\ Len(toWrite) = 0 /\ Len(file) = 1
  BY DEF Init
<1>2. WriterIsInside
  BY <1>1 DEF Init, WriterIsInside, Written
<1>3. ReaderIsInside /\ ReadsWholePayload
  BY DEF Init, ReaderIsInside, ReadsWholePayload, NoTrailer
<1> QED BY <1>2, <1>3

LEMMA NextWriterIsInside == TypeOK /\ WriterIsInside /\ [Next]_vars => WriterIsInside'
<1> SUFFICES ASSUME TypeOK, WriterIsInside, [Next]_vars PROVE WriterIsInside'
  OBVIOUS
<1> USE DEF TypeOK, WriterIsInside, Written
<1>1. Len(file) \in Nat /\ Len(toWrite) \in Nat /\ Len(payload) \in Nat
  BY PayloadType, EmptySeq
<1>2. CASE Open
  <2>1. PICK p \in Accepted : payload' = p /\ toWrite' = p
    BY <1>2 DEF Open
  <2>2. Len(p) \in Nat \ {0} /\ p # <<>>
    BY PayloadType
  <2>3. Written' = 0 /\ file' = file
    BY <1>2, <2>1, <2>2 DEF Open
  <2> QED BY <1>1, <2>1, <2>2, <2>3
<1>3. CASE WritePayload
  <2> DEFINE n == Len(file)
             m == Len(toWrite)
  <2>1. /\ Head(toWrite) \in Cells /\ Head(toWrite) = toWrite[1] /\ m \in Nat \ {0}
        /\ Len(toWrite') = m - 1 /\ \A k \in 1..(m - 1) : toWrite'[k] = toWrite[k + 1]
    BY <1>3, TailIsShifted DEF WritePayload
  <2>2. /\ Len(file') = n + 1 /\ file'[n + 1] = toWrite[1]
        /\ \A k \in 1..n : file'[k] = file[k]
    BY <1>3, <2>1, AppendAddsLast DEF WritePayload
  <2>3. payload' = payload /\ payload # <<>> /\ Written \in Int /\ Written' = Written + 1
    BY <1>1, <1>3, <2>1 DEF WritePayload
  <2>4. \A k \in 1..(Written + 1) : file'[n + 1 - (Written + 1) + k] = payload[k]
    <3> TAKE k \in 1..(Written + 1)
    <3>1. CASE k = Written + 1
      <4>1. n + 1 - (Written + 1) + k = n + 1 /\ toWrite[1] = payload[Written + 1]
        BY <1>1, <2>1, <2>3, <3>1
      <4> QED BY <2>2, <3>1, <4>1
    <3>2. CASE k # Written + 1
      <4>1. n + 1 - (Written + 1) + k = n - Written + k /\ n - Written + k \in 1..n /\ k \in 1..Written
        BY <1>1, <2>3, <3>2
      <4> QED BY <2>2, <4>1
    <3> QED BY <3>1, <3>2
  <2>5. \A k \in 1..(m - 1) : toWrite'[k] = payload[Written + 1 + k]
    <3> TAKE k \in 1..(m - 1)
    <3>1. k + 1 \in 1..m /\ Written + 1 + k = Written + (k + 1)
      BY <2>1, <2>3
    <3> QED BY <2>1, <3>1
  <2>6. Written + 1 >= 0 /\ Written + 1 <= n + 1
    BY <1>1, <2>3
  <2> HIDE DEF Written
  <2> QED BY <2>1, <2>2, <2>3, <2>4, <2>5, <2>6
<1>4. CASE WriteFooter \/ Interrupt
  <2>1. payload' = <<>> /\ toWrite' = <<>> /\ Len(payload') = 0 /\ Len(toWrite') = 0
    BY <1>4 DEF WriteFooter, Interrupt
  <2>2. Len(file') \in Nat
    <3>1. CASE Interrupt
      <4>1. file' = file \/ file' = Append(file, Damaged)
        BY <3>1 DEF Interrupt
      <4>2. Damaged \in Cells
        BY DEF Cells
      <4> QED BY <1>1, <4>1, <4>2, AppendAddsLast
    <3>2. CASE WriteFooter
      <4>1. Footer(payload) \in Cells
        BY <3>2, PayloadType DEF WriteFooter
      <4> QED BY <1>1, <3>2, <4>1, AppendAddsLast DEF WriteFooter
    <3> QED BY <1>4, <3>1, <3>2
  <2> QED BY <2>1, <2>2
<1>5. CASE Damage
  <2>1. payload = <<>> /\ payload' = payload /\ toWrite' = toWrite /\ Len(payload) = 0 /\ Len(toWrite) = 0
    BY <1>5 DEF Damage, writer
  <2>2. Len(file') \in Nat
    <3>1. ASSUME NEW k \in DOMAIN file, NEW c \in DamagedForms(file[k]),
                 file' = [file EXCEPT ![k] = c]
          PROVE  Len(file') \in Nat
      <4>1. k \in 1..Len(file) /\ file[k] \in Cells
        BY LenProperties
      <4>2. c \in Cells
        BY <4>1, DamagedType
      <4> QED BY <1>1, <3>1, <4>2, ExceptSeq
    <3>2. ASSUME NEW k \in DOMAIN file, file' = SubSeq(file, 1, k)
          PROVE  Len(file') \in Nat
      <4>1. k \in 1..Len(file)
        BY LenProperties
      <4> QED BY <1>1, <3>2, <4>1, SubSeqProperties
    <3> QED BY <1>5, <3>1, <3>2 DEF Damage
  <2> QED BY <2>1, <2>2
<1>6. CASE Stat \/ ReadFooter \/ ReadPayload \/ UNCHANGED vars
  BY <1>6 DEF Stat, ReadFooter, ReadPayload, vars, writer
<1> QED BY <1>2, <1>3, <1>4, <1>5, <1>6 DEF Next

(* A step keeps the file, adds a cell to its end or damages it, and only    *)
(* the last needs an idle reader.                                          *)
LEMMA HowTheFileChanges ==
  ASSUME TypeOK, WriterIsInside, [Next]_vars
  PROVE  \/ file' = file
         \/ /\ Len(file') = Len(file) + 1
            /\ \A k \in 1..Len(file) : file'[k] = file[k]
         \/ Damage
<1> USE DEF TypeOK
<1>1. CASE WritePayload
  <2>1. Head(toWrite) \in Cells
    BY <1>1, TailIsShifted DEF WritePayload
  <2> QED BY <1>1, <2>1, AppendAddsLast DEF WritePayload
<1>2. CASE WriteFooter
  <2>1. Footer(payload) \in Cells
    BY <1>2, PayloadType DEF WriteFooter
  <2> QED BY <1>2, <2>1, AppendAddsLast DEF WriteFooter
<1>3. CASE Interrupt
  <2>1. Damaged \in Cells
    BY DEF Cells
  <2>2. file' = file \/ file' = Append(file, Damaged)
    BY <1>3 DEF Interrupt
  <2> QED BY <2>1, <2>2, AppendAddsLast
<1> QED BY <1>1, <1>2, <1>3 DEF Next, Open, Stat, ReadFooter, ReadPayload, vars

LEMMA NextReaderIsInside ==
  TypeOK /\ WriterIsInside /\ ReaderIsInside /\ [Next]_vars => ReaderIsInside'
<1> SUFFICES ASSUME TypeOK, WriterIsInside, ReaderIsInside, [Next]_vars PROVE ReaderIsInside'
  OBVIOUS
<1> USE DEF TypeOK, ReaderIsInside
<1>1. Len(file) \in Nat \ {0}
  BY EmptySeq
<1>2. CASE Stat
  BY <1>1, <1>2 DEF Stat
<1>3. CASE ReadFooter
  BY <1>3 DEF ReadFooter
<1>4. CASE ReadPayload
  BY <1>4 DEF ReadPayload
<1>5. CASE Damage
  BY <1>5 DEF Damage
<1>6. CASE Open \/ WritePayload \/ WriteFooter \/ Interrupt \/ UNCHANGED vars
  <2>1. reader' = reader /\ size' = size /\ (reader # "idle" => ~Damage)
    BY <1>6 DEF Open, WritePayload, WriteFooter, Interrupt, Damage, vars
  <2>2. CASE reader = "idle"
    BY <2>1, <2>2
  <2>3. CASE reader # "idle"
    <3>1. \/ file' = file
          \/ Len(file') = Len(file) + 1 /\ \A k \in 1..Len(file) : file'[k] = file[k]
      BY <2>1, <2>3, HowTheFileChanges
    <3> QED BY <1>1, <2>1, <2>3, <3>1
  <2> QED BY <2>2, <2>3
<1> QED BY <1>2, <1>3, <1>4, <1>5, <1>6 DEF Next

(* The CRC of a footer is that of a payload, so what matches it is one. *)
LEMMA NextReadsWholePayload ==
  TypeOK /\ ReaderIsInside /\ ReadsWholePayload /\ [Next]_vars => ReadsWholePayload'
<1> SUFFICES ASSUME TypeOK, ReaderIsInside, ReadsWholePayload, [Next]_vars
             PROVE  ReadsWholePayload'
  OBVIOUS
<1> USE DEF ReadsWholePayload
<1>1. CASE ReadPayload
  <2> DEFINE footer == file[size]
             start == size - 1 - footer.length
             found == SubSeq(file, start + 1, size - 1)
  <2>1. /\ footer \in Cells /\ footer.kind = "footer"
        /\ size \in 1..Len(file) /\ Len(file) \in Nat /\ file \in Seq(Cells)
    BY <1>1 DEF TypeOK, ReaderIsInside, ReadPayload
  <2>2. footer.length \in Nat /\ footer.crc \in Accepted \cup {Unmatched}
    BY <2>1, FooterType DEF Footers
  <2>3. CASE footer.length > MaxPayload \/ start < 0 \/ found # footer.crc
    BY <1>1, <2>3 DEF ReadPayload, Invalid
  <2>4. CASE ~(start < 0) /\ found = footer.crc /\ ~(footer.length > MaxPayload)
    <3>1. start \in Nat /\ start + 1 \in 1..(Len(file) + 1) /\ size - 1 \in 0..Len(file)
          /\ start + 1 <= size - 1 + 1
      <4>1. \A l \in Nat : \A z \in 1..Len(file) : ~(z - 1 - l < 0) =>
              /\ z - 1 - l \in Nat /\ z - 1 - l + 1 \in 1..(Len(file) + 1)
              /\ z - 1 \in 0..Len(file) /\ z - 1 - l + 1 <= z - 1 + 1
        BY <2>1
      <4> QED BY <2>1, <2>2, <2>4, <4>1
    <3>2. found \in Seq(Cells)
      <4> HIDE DEF start
      <4> QED BY <2>1, <3>1, SubSeqProperties
    <3>3. found # Unmatched
      <4> HIDE DEF found
      <4>1. SUFFICES ASSUME found = Unmatched PROVE FALSE
        OBVIOUS
      <4>2. Len(found) = 1 /\ found[1] = Cell("unmatched")
        BY <4>1 DEF Unmatched
      <4>3. found[1] \in Cells
        BY <3>2, <4>2
      <4> QED BY <4>2, <4>3, FooterType
    <3>4. answer' = Found(found) /\ found \in Accepted
      BY <1>1, <2>2, <2>4, <3>3 DEF ReadPayload
    <3> QED BY <3>4 DEF Found
  <2> QED BY <2>3, <2>4
<1>2. CASE Stat
  BY <1>2 DEF Stat, NoTrailer
<1>3. CASE ~ReadPayload /\ ~Stat
  <2>1. answer' = answer
    BY <1>3 DEF Next, Open, WritePayload, WriteFooter, Interrupt, Damage, ReadFooter, vars
  <2> QED BY <2>1
<1> QED BY <1>1, <1>2, <1>3

-----------------------------------------------------------------------------
(* Footers *)

LEMMA InitFootersFollowPayloads == Init => FootersFollowPayloads
<1> SUFFICES ASSUME Init, NEW k \in 1..Len(file) PROVE file[k].kind # "footer"
  BY DEF FootersFollowPayloads
<1>1. file[k] = Video
  BY DEF Init
<1> QED BY <1>1 DEF Video, Cell

(* What stands in front of a cell stays there when the file grows. *)
LEMMA GrowingKeepsFooters ==
  ASSUME TypeOK, NEW k \in 1..Len(file), file[k].kind = "footer", FollowsPayload(k),
         Len(file') = Len(file) + 1, \A j \in 1..Len(file) : file'[j] = file[j]
  PROVE  FollowsPayload(k)'
<1>1. file[k] \in Cells /\ Len(file) \in Nat
  BY DEF TypeOK
<1>2. file[k].length \in Nat
  BY PayloadType DEF FollowsPayload
<1>3. \A i \in 1..file[k].length : k - 1 - file[k].length + i \in 1..Len(file)
  <2>1. file[k].length < k
    BY DEF FollowsPayload
  <2>2. \A l \in Nat : l < k => \A i \in 1..l : k - 1 - l + i \in 1..Len(file)
    BY <1>1
  <2> QED BY <1>2, <2>1, <2>2
<1> QED BY <1>1, <1>2, <1>3 DEF FollowsPayload

LEMMA NextFootersFollowPayloads ==
  TypeOK /\ WriterIsInside /\ FootersFollowPayloads /\ [Next]_vars => FootersFollowPayloads'
<1> SUFFICES ASSUME TypeOK, WriterIsInside, FootersFollowPayloads, [Next]_vars, damage' = 0,
                    NEW k \in 1..Len(file'), file'[k].kind = "footer"
             PROVE  FollowsPayload(k)'
  BY DEF FootersFollowPayloads
<1>1. damage = 0 /\ ~Damage
  <2>1. ~Damage
    BY DEF Damage, TypeOK
  <2> QED BY <2>1 DEF Next, Open, WritePayload, WriteFooter, Interrupt, Stat, ReadFooter,
                      ReadPayload, vars
<1>2. Len(file) \in Nat \ {0}
  BY EmptySeq DEF TypeOK
<1>3. CASE file' = file
  BY <1>1, <1>3 DEF FootersFollowPayloads, FollowsPayload
<1>4. CASE Len(file') = Len(file) + 1 /\ \A j \in 1..Len(file) : file'[j] = file[j]
  <2>1. CASE k # Len(file')
    <3>1. k \in 1..Len(file) /\ file[k].kind = "footer"
      BY <1>2, <1>4, <2>1
    <3> QED BY <1>1, <1>4, <3>1, GrowingKeepsFooters DEF FootersFollowPayloads
  <2>2. CASE k = Len(file')
    <3> DEFINE n == Len(file)
    <3>1. CASE WriteFooter
      <4>1. /\ payload \in Accepted /\ Len(payload) \in Nat /\ Len(toWrite) = 0
            /\ Footer(payload) \in Cells
        BY <3>1, PayloadType DEF WriteFooter, TypeOK
      <4>2. file'[n + 1] = Footer(payload) /\ k = n + 1
        BY <1>4, <2>2, <3>1, <4>1, AppendAddsLast DEF WriteFooter, TypeOK
      <4>3. file'[k].length = Len(payload) /\ file'[k].crc = payload
        BY <4>1, <4>2, PayloadType
      <4>4. Len(payload) <= n /\ \A i \in 1..Len(payload) : file[n - Len(payload) + i] = payload[i]
        BY <4>1 DEF WriterIsInside, Written
      <4>5. \A i \in 1..Len(payload) : file'[k - 1 - Len(payload) + i] = payload[i]
        <5> TAKE i \in 1..Len(payload)
        <5>1. k - 1 - Len(payload) + i = n - Len(payload) + i /\ n - Len(payload) + i \in 1..n
          BY <1>2, <4>1, <4>2, <4>4
        <5> QED BY <1>4, <4>4, <5>1
      <4>6. Len(payload) < k
        BY <1>2, <4>1, <4>2, <4>4
      <4> QED BY <4>1, <4>3, <4>5, <4>6 DEF FollowsPayload
    <3>2. CASE WritePayload
      <4>1. /\ toWrite[1] = payload[Written + 1] /\ Head(toWrite) = toWrite[1]
            /\ Head(toWrite) \in Cells /\ Len(toWrite) \in Nat \ {0}
        <5>1. Len(toWrite) \in Nat \ {0} /\ Head(toWrite) = toWrite[1] /\ Head(toWrite) \in Cells
          BY <3>2, TailIsShifted DEF WritePayload, TypeOK
        <5> QED BY <5>1 DEF WriterIsInside
      <4>2. payload \in Accepted /\ Written + 1 \in 1..Len(payload)
        <5>1. payload \in Accepted /\ Len(payload) \in Nat
          BY <3>2, PayloadType DEF WriterIsInside, WritePayload, TypeOK
        <5> QED BY <4>1, <5>1 DEF WriterIsInside, Written
      <4>3. toWrite[1] \in PayloadCells
        BY <4>1, <4>2, PayloadType
      <4>4. file'[k] = toWrite[1]
        BY <1>4, <2>2, <3>2, <4>1, AppendAddsLast DEF WritePayload, TypeOK
      <4> QED BY <4>3, <4>4, TrailerAssumption
    <3>3. CASE Interrupt
      <4>1. Damaged \in Cells /\ Damaged.kind # "footer"
        BY DEF Cells, Damaged, Cell
      <4>2. file' = Append(file, Damaged)
        BY <1>2, <1>4, <3>3 DEF Interrupt
      <4>3. file'[k] = Damaged
        BY <1>4, <2>2, <4>1, <4>2, AppendAddsLast DEF TypeOK
      <4> QED BY <4>1, <4>3
    <3>4. CASE file' = file
      BY <1>2, <1>4, <3>4
    <3> QED BY <1>1, <3>1, <3>2, <3>3, <3>4 DEF Next, Open, Stat, ReadFooter, ReadPayload, vars
  <2> QED BY <2>1, <2>2
<1> QED BY <1>1, <1>3, <1>4, HowTheFileChanges

-----------------------------------------------------------------------------
(* The theorems *)

LEMMA Invariant == Spec => [](IInv /\ FootersFollowPayloads)
<1>1. Init => IInv /\ FootersFollowPayloads
  BY InitTypeOK, InitIInv, InitFootersFollowPayloads DEF IInv
<1>2. IInv /\ FootersFollowPayloads /\ [Next]_vars => (IInv /\ FootersFollowPayloads)'
  BY NextTypeOK, NextWriterIsInside, NextReaderIsInside, NextReadsWholePayload,
     NextFootersFollowPayloads DEF IInv
<1> QED BY <1>1, <1>2, PTL DEF Spec

(* A file is never empty and consists of video and of pieces of trailers,   *)
(* and its reader stays inside of it (trailer.go:14-81).                   *)
THEOREM TypeCorrect == Spec => []TypeOK
<1>1. IInv => TypeOK
  BY DEF IInv
<1> QED BY <1>1, Invariant, PTL

(* What a decoder gets was appended as it is, whatever was interrupted,     *)
(* damaged or is being appended (trailer.go:44-81).                        *)
THEOREM WholePayload == Spec => []ReadsWholePayload
<1>1. IInv => ReadsWholePayload
  BY DEF IInv
<1> QED BY <1>1, Invariant, PTL

(* In a file without damage a footer at the end is enough: what stands in   *)
(* front of it is its payload (trailer.go:25-34, 44-81).                   *)
THEOREM TrailerReadable == Spec => LastTrailerIsReadable
<1>1. IInv /\ FootersFollowPayloads /\ [Next]_vars =>
        [reader = "payload" /\ reader' = "idle" /\ damage = 0 =>
           answer'.found = "ok" /\ answer'.payload = file[size].crc]_vars
  <2> SUFFICES ASSUME IInv, FootersFollowPayloads, [Next]_vars, reader = "payload",
                      reader' = "idle", damage = 0
               PROVE  answer'.found = "ok" /\ answer'.payload = file[size].crc
    OBVIOUS
  <2> USE DEF IInv
  <2>1. ReadPayload
    BY DEF Next, Open, WritePayload, WriteFooter, Interrupt, Damage, Stat, ReadFooter, vars
  <2>2. size \in 1..Len(file) /\ file[size].kind = "footer"
    BY DEF ReaderIsInside
  <2>3. FollowsPayload(size)
    BY <2>2 DEF FootersFollowPayloads
  <2>4. SubSeq(file, size - file[size].length, size - 1) = file[size].crc
    BY <2>2, <2>3, PayloadIsFound
  <2>5. file[size].length \in Nat /\ size \in Int /\ file[size].length <= MaxPayload
    BY <2>2, <2>3, PayloadType DEF TypeOK, FollowsPayload
  <2> DEFINE start == size - 1 - file[size].length
             found == SubSeq(file, start + 1, size - 1)
  <2>6. start \in Int /\ ~(start < 0) /\ start + 1 = size - file[size].length
    BY <2>3, <2>5 DEF FollowsPayload
  <2>7. found = file[size].crc
    BY <2>4, <2>6
  <2>8. answer' = IF file[size].length > MaxPayload \/ start < 0 \/ found # file[size].crc
                  THEN Invalid ELSE Found(found)
    BY <2>1 DEF ReadPayload
  <2>9. ~(file[size].length > MaxPayload)
    <3>1. \A l \in Nat : l <= MaxPayload => ~(l > MaxPayload)
      BY TrailerAssumption
    <3> QED BY <2>5, <3>1
  <2>10. answer' = Found(file[size].crc)
    <3> HIDE DEF start, found
    <3>1. answer' = Found(found)
      BY <2>6, <2>7, <2>8, <2>9
    <3> QED BY <2>7, <3>1
  <2> QED BY <2>10 DEF Found
<1> QED BY <1>1, Invariant, PTL DEF Spec, LastTrailerIsReadable
=============================================================================
