------------------------- MODULE PacketStreamProofs -------------------------
(***************************************************************************)
(* Theorems about PacketStream, for every set of payloads, every garbage,  *)
(* every checksum function and every bound.                                *)
(***************************************************************************)
EXTENDS PacketStream, SequenceTheorems, WellFoundedInduction, TLAPS

\* Every buffer has a scan position: the number of bytes ahead of its first
\* START_BYTE, or all of them.
LEMMA SkipToStartFinds ==
  ASSUME NEW b \in Seq(Byte)
  PROVE  /\ SkipToStart(b) \in 0..Len(b)
         /\ \A i \in 1..SkipToStart(b) : b[i] # START_BYTE
         /\ SkipToStart(b) < Len(b) => b[SkipToStart(b) + 1] = START_BYTE
<1> DEFINE T    == {n \in Nat : n = Len(b) \/ (n < Len(b) /\ b[n + 1] = START_BYTE)}
           Less == {ss \in Nat \X Nat : ss[1] < ss[2]}
<1>1. Len(b) \in Nat
  BY LenProperties
<1>2. T \subseteq Nat /\ T # {}
  BY <1>1
<1>3. IsWellFoundedOn(Less, Nat)
  BY NatLessThanWellFounded DEF OpToRel
<1>4. PICK m \in T : \A y \in T : ~ (<<y, m>> \in Less)
  <2> HIDE DEF T, Less
  <2> QED BY <1>2, <1>3, WFMin
<1>5. \A y \in T : ~ (y < m)
  BY <1>4
<1>6. /\ m \in 0..Len(b)
      /\ \A i \in 1..m : b[i] # START_BYTE
      /\ m < Len(b) => b[m + 1] = START_BYTE
  <2>1. ASSUME NEW i \in 1..m, b[i] = START_BYTE PROVE FALSE
    <3>1. i - 1 \in T /\ i - 1 < m
      BY <1>1, <2>1
    <3> QED BY <3>1, <1>5
  <2> QED BY <1>1, <2>1
<1> QED BY <1>6 DEF SkipToStart

\* What a framed payload holds at which place.
LEMMA Framed ==
  ASSUME NEW B, NEW p \in Seq(B),
         NEW start \in B, NEW n \in B, NEW c1 \in B, NEW c2 \in B, NEW end \in B
  PROVE  LET f == <<start, n>> \o p \o <<c1, c2>> \o <<end>>
         IN  /\ f \in Seq(B)
             /\ Len(f) = 5 + Len(p)
             /\ f[1] = start /\ f[2] = n
             /\ \A i \in 1..Len(p) : f[i + 2] = p[i]
             /\ f[Len(p) + 3] = c1 /\ f[Len(p) + 4] = c2
             /\ f[Len(p) + 5] = end
OBVIOUS

LEMMA FrameLayout ==
  ASSUME NEW p \in Payloads
  PROVE  /\ p \in Seq(Byte) /\ Len(p) \in 1..255
         /\ Frame(p) \in Seq(Byte)
         /\ Len(Frame(p)) = NUM_NON_PAYLOAD_BYTE + Len(p)
         /\ Frame(p)[1] = START_BYTE
         /\ Frame(p)[2] = Len(p)
         /\ \A i \in 1..Len(p) : Frame(p)[i + 2] = p[i]
         /\ <<Frame(p)[Len(p) + 3], Frame(p)[Len(p) + 4]>> = Crc(p)
         /\ Frame(p)[Len(p) + 5] = END_BYTE
<1>1. p \in Seq(Byte) /\ Len(p) \in 1..255
  BY PayloadsAssumption
<1>2. PICK c1 \in Byte, c2 \in Byte : Crc(p) = <<c1, c2>>
  BY PayloadsAssumption
<1>3. START_BYTE \in Byte /\ END_BYTE \in Byte /\ Len(p) \in Byte
  BY <1>1 DEF START_BYTE, END_BYTE, Byte
<1>4. Frame(p) = <<START_BYTE, Len(p)>> \o p \o <<c1, c2>> \o <<END_BYTE>>
  BY <1>2 DEF Frame
<1>5. LET f == <<START_BYTE, Len(p)>> \o p \o <<c1, c2>> \o <<END_BYTE>>
      IN  /\ f \in Seq(Byte)
          /\ Len(f) = 5 + Len(p)
          /\ f[1] = START_BYTE /\ f[2] = Len(p)
          /\ \A i \in 1..Len(p) : f[i + 2] = p[i]
          /\ f[Len(p) + 3] = c1 /\ f[Len(p) + 4] = c2
          /\ f[Len(p) + 5] = END_BYTE
  BY <1>1, <1>2, <1>3, Framed
<1>6. /\ Frame(p) \in Seq(Byte)
      /\ Len(Frame(p)) = 5 + Len(p)
      /\ Frame(p)[1] = START_BYTE /\ Frame(p)[2] = Len(p)
      /\ \A i \in 1..Len(p) : Frame(p)[i + 2] = p[i]
      /\ Frame(p)[Len(p) + 3] = c1 /\ Frame(p)[Len(p) + 4] = c2
      /\ Frame(p)[Len(p) + 5] = END_BYTE
  BY <1>4, <1>5, Zenon
<1> QED BY <1>1, <1>2, <1>6 DEF NUM_NON_PAYLOAD_BYTE

-----------------------------------------------------------------------------
\* Dropping the first n elements of a window of s moves its left edge by n.
LEMMA DropFromWindow ==
  ASSUME NEW S, NEW s \in Seq(S), NEW e \in Nat, NEW f \in e..Len(s), NEW n \in 0..f - e
  PROVE  SubSeq(SubSeq(s, e + 1, f), n + 1, f - e) = SubSeq(s, e + n + 1, f)
OBVIOUS

\* What a window of s holds.
LEMMA WindowElements ==
  ASSUME NEW S, NEW s \in Seq(S), NEW e \in Nat, NEW f \in e..Len(s)
  PROVE  LET w == SubSeq(s, e + 1, f)
         IN  w \in Seq(S) /\ Len(w) = f - e /\ \A i \in 1..f - e : w[i] = s[e + i]
OBVIOUS

\* Two adjacent windows make one.
LEMMA AdjacentWindows ==
  ASSUME NEW S, NEW s \in Seq(S), NEW e \in Nat, NEW f \in e..Len(s), NEW k \in f..Len(s)
  PROVE  SubSeq(s, e + 1, f) \o SubSeq(s, f + 1, k) = SubSeq(s, e + 1, k)
OBVIOUS

\* A window is not moved by what is put behind the sequence.
LEMMA WindowOfLonger ==
  ASSUME NEW S, NEW s \in Seq(S), NEW t \in Seq(S), NEW e \in Nat, NEW f \in e..Len(s)
  PROVE  SubSeq(s \o t, e + 1, f) = SubSeq(s, e + 1, f)
OBVIOUS

-----------------------------------------------------------------------------
\* The indices Receive computes from a buffer that holds enough bytes.
LEMMA CandidateType ==
  ASSUME TypeOK
  PROVE  /\ Len(buffer) \in Nat
         /\ Start \in Nat
         /\ Enough => /\ Start + 2 \in 1..Len(buffer)
                      /\ PayloadSize = buffer[Start + 2]
                      /\ PayloadSize \in 0..255
                      /\ FrameEnd \in Nat
                      /\ FrameEnd = Start + 5 + PayloadSize
<1>1. buffer \in Seq(Byte) /\ Len(buffer) \in Nat /\ start_idx \in Nat
  BY DEF TypeOK
<1>2. Start \in Nat
  BY <1>1, SkipToStartFinds DEF Start
<1>3. PayloadSize = buffer[Start + 2]
  BY DEF PayloadSize
<1>4. ASSUME Enough
      PROVE  /\ Start + 2 \in 1..Len(buffer)
             /\ PayloadSize \in 0..255
             /\ FrameEnd \in Nat
             /\ FrameEnd = Start + 5 + PayloadSize
  <2>1. Start + 2 \in 1..Len(buffer)
    BY <1>1, <1>2, <1>4 DEF Enough, HeadPresent
  <2>2. buffer[Start + 2] \in Byte
    BY <1>1, <2>1, ElementOfSeq
  <2>3. PayloadSize \in 0..255
    BY <1>3, <2>2 DEF Byte
  <2>4. FrameEnd \in Nat /\ FrameEnd = Start + 5 + PayloadSize
    BY <1>2, <2>3 DEF FrameEnd, NUM_NON_PAYLOAD_BYTE
  <2> QED BY <2>1, <2>3, <2>4
<1> QED BY <1>1, <1>2, <1>3, <1>4

\* What Receive has found when it accepts a packet.
LEMMA IntactFits ==
  ASSUME TypeOK, Intact
  PROVE  /\ Enough
         /\ Start + 5 + PayloadSize <= Len(buffer)
         /\ PayloadSize \in 1..255
         /\ buffer[FrameEnd] = END_BYTE
         /\ Crc(Payload) = Checksum
<1>1. /\ Enough /\ FrameEnd <= Len(buffer)
      /\ buffer[FrameEnd] = END_BYTE /\ PayloadSize >= 1
      /\ Crc(Payload) = Checksum
  BY DEF Intact, Delimited, Complete
<1>2. /\ Len(buffer) \in Nat /\ Start \in Nat
      /\ PayloadSize \in 0..255 /\ FrameEnd = Start + 5 + PayloadSize
  BY <1>1, CandidateType
<1> QED BY <1>1, <1>2

\* A turn of the loop erases n bytes from the front of the buffer.
Erases(n) == buffer' = SubSeq(buffer, n + 1, Len(buffer))

\* Every turn of the loop erases a prefix of the buffer, by its number of bytes.
LEMMA LookErasesPrefix ==
  ASSUME TypeOK, Look
  PROVE  \E n \in 0..Len(buffer) : Erases(n) /\ Len(buffer') = Len(buffer) - n
<1>1. buffer \in Seq(Byte) /\ Len(buffer) \in Nat
  BY DEF TypeOK
<1>2. \E n \in 0..Len(buffer) : Erases(n)
  <2>1. CASE NoStart
    <3>1. buffer' = SubSeq(buffer, Len(buffer) + 1, Len(buffer))
      BY <1>1, <2>1 DEF NoStart
    <3> QED BY <1>1, <3>1 DEF Erases
  <2>2. CASE AwaitHead \/ AwaitBody \/ Undefined
    <3>1. buffer' = SubSeq(buffer, 0 + 1, Len(buffer))
      BY <1>1, <2>2 DEF AwaitHead, AwaitBody, Wait, Undefined
    <3> QED BY <1>1, <3>1 DEF Erases
  <2>3. CASE DropMalformed
    <3>1. Start + 1 \in 0..Len(buffer)
      BY <2>3, CandidateType DEF DropMalformed, Complete
    <3> QED BY <2>3, <3>1 DEF DropMalformed, Erase, Erases
  <2>4. CASE DropCorrupt
    <3>1. FrameEnd \in 0..Len(buffer)
      BY <2>4, CandidateType DEF DropCorrupt, Delimited, Complete
    <3> QED BY <2>4, <3>1 DEF DropCorrupt, Erase, Erases
  <2>5. CASE Deliver
    <3>1. /\ Len(buffer) \in Nat /\ Start \in Nat /\ PayloadSize \in 1..255
          /\ Start + 5 + PayloadSize <= Len(buffer)
      BY <2>5, IntactFits, CandidateType DEF Deliver
    <3>2. NUM_NON_PAYLOAD_BYTE + PayloadSize \in 0..Len(buffer)
      BY <3>1 DEF NUM_NON_PAYLOAD_BYTE
    <3> QED BY <2>5, <3>2 DEF Deliver, Erase, Erases
  <2> QED BY <2>1, <2>2, <2>3, <2>4, <2>5 DEF Look
<1>3. ASSUME NEW n \in 0..Len(buffer), Erases(n) PROVE Len(buffer') = Len(buffer) - n
  BY <1>1, <1>3 DEF Erases
<1> QED BY <1>2, <1>3

-----------------------------------------------------------------------------
\* The typing of what the parser does not share with the line.
LEMMA LookType ==
  ASSUME TypeOK, Look
  PROVE  /\ start_idx' \in Nat
         /\ pc' \in {"idle", "look", "undefined"}
         /\ published' \in Seq(Seq(Byte))
<1>1. Start \in Nat /\ pc \in {"idle", "look", "undefined"} /\ published \in Seq(Seq(Byte))
  BY CandidateType DEF TypeOK
<1>2. ASSUME Deliver PROVE published' \in Seq(Seq(Byte))
  <2>1. /\ Len(buffer) \in Nat /\ PayloadSize \in 1..255
        /\ Start + 5 + PayloadSize <= Len(buffer)
    BY <1>2, IntactFits, CandidateType DEF Deliver
  <2>2. \A i \in Start + 3 .. Start + 2 + PayloadSize : buffer[i] \in Byte
    <3>1. buffer \in Seq(Byte)
      BY DEF TypeOK
    <3> QED BY <1>1, <2>1, <3>1, ElementOfSeq
  <2>3. Payload \in Seq(Byte)
    BY <1>1, <2>1, <2>2, SubSeqProperties DEF Payload
  <2> QED BY <1>1, <1>2, <2>3 DEF Deliver
<1>3. start_idx' = 0 \/ start_idx' = Start \/ start_idx' = start_idx
  BY DEF Look, NoStart, AwaitHead, AwaitBody, Wait, DropMalformed, DropCorrupt,
         Deliver, Undefined
<1>4. pc' \in {"idle", "look", "undefined"}
  BY <1>1 DEF Look, NoStart, AwaitHead, AwaitBody, Wait, DropMalformed, DropCorrupt,
              Deliver, Undefined
<1>5. Deliver \/ published' = published
  BY DEF Look, NoStart, AwaitHead, AwaitBody, Wait, DropMalformed, DropCorrupt, Undefined
<1>6. start_idx' \in Nat
  BY <1>1, <1>3 DEF TypeOK
<1> QED BY <1>1, <1>2, <1>4, <1>5, <1>6

\* Initially everything is empty.
LEMMA InitInv == Init => TypeOK /\ BufferIsWindow
BY DEF Init, FactoryInit, TypeOK, BufferIsWindow

LEMMA PutInv ==
  ASSUME TypeOK, BufferIsWindow, NEW b \in Seq(Byte), Put(b), sent' \in Seq(Payloads)
  PROVE  TypeOK' /\ BufferIsWindow'
<1>1. stream \in Seq(Byte) /\ fed \in 0..Len(stream) /\ erased \in 0..fed /\ ends \in Seq(Nat)
  BY DEF TypeOK
<1>2. /\ stream' = stream \o b /\ fed' = fed /\ erased' = erased /\ factoryVars' = factoryVars
      /\ ends' = Append(ends, Len(stream) + Len(b))
  BY DEF Put
<1>3. stream' \in Seq(Byte) /\ fed' \in 0..Len(stream') /\ ends' \in Seq(Nat)
  BY <1>1, <1>2
<1>4. SubSeq(stream', erased' + 1, fed') = SubSeq(stream, erased + 1, fed)
  BY <1>1, <1>2, WindowOfLonger
<1> QED BY <1>1, <1>2, <1>3, <1>4 DEF TypeOK, BufferIsWindow, factoryVars

LEMMA ArriveInv ==
  ASSUME TypeOK, BufferIsWindow, NEW k \in fed + 1 .. Len(stream), Chunk(k)
  PROVE  TypeOK' /\ BufferIsWindow'
<1>1. stream \in Seq(Byte) /\ fed \in 0..Len(stream) /\ erased \in 0..fed
  BY DEF TypeOK
<1>2. buffer' = SubSeq(stream, erased + 1, k)
  BY <1>1, AdjacentWindows DEF Chunk, Receive, BufferIsWindow
<1>3. buffer' \in Seq(Byte)
  BY <1>1, <1>2
<1>4. k \in 0..Len(stream) /\ erased \in 0..k
  BY <1>1
<1> QED BY <1>2, <1>3, <1>4 DEF TypeOK, BufferIsWindow, Chunk, Receive, lineVars

LEMMA ParseInv ==
  ASSUME TypeOK, BufferIsWindow, Parse
  PROVE  TypeOK' /\ BufferIsWindow'
<1>1. stream \in Seq(Byte) /\ fed \in 0..Len(stream) /\ erased \in 0..fed
  BY DEF TypeOK
<1>2. Len(buffer) = fed - erased
  BY <1>1, WindowElements DEF BufferIsWindow
<1>3. PICK n \in 0..Len(buffer) : Erases(n) /\ Len(buffer') = Len(buffer) - n
  BY LookErasesPrefix DEF Parse
<1>4. n \in 0..fed - erased /\ erased' = erased + n /\ erased' \in 0..fed
  BY <1>1, <1>2, <1>3 DEF Parse
<1>5. buffer' = SubSeq(stream, erased' + 1, fed)
  BY <1>1, <1>2, <1>3, <1>4, DropFromWindow DEF Erases, BufferIsWindow
<1>6. buffer' \in Seq(Byte)
  BY <1>1, <1>4, <1>5, WindowElements
<1>7. stream' = stream /\ fed' = fed /\ ends' = ends /\ sent' = sent
  BY DEF Parse, lineVars
<1> QED BY <1>4, <1>5, <1>6, <1>7, LookType DEF Parse, TypeOK, BufferIsWindow

LEMMA StepInv ==
  ASSUME TypeOK, BufferIsWindow, [Next]_vars
  PROVE  TypeOK' /\ BufferIsWindow'
<1>1. ASSUME NEW p \in Payloads, Send(p) PROVE TypeOK' /\ BufferIsWindow'
  <2>1. Frame(p) \in Seq(Byte) /\ sent' \in Seq(Payloads)
    BY <1>1, FrameLayout DEF Send, TypeOK
  <2> QED BY <1>1, <2>1, PutInv DEF Send
<1>2. ASSUME NEW g \in Garbage, Disturb(g) PROVE TypeOK' /\ BufferIsWindow'
  <2>1. g \in Seq(Byte) /\ sent' \in Seq(Payloads)
    BY <1>2, GarbageAssumption DEF Disturb, TypeOK
  <2> QED BY <1>2, <2>1, PutInv DEF Disturb
<1>3. CASE Arrive
  BY <1>3, ArriveInv DEF Arrive
<1>4. CASE Parse
  BY <1>4, ParseInv
<1>5. CASE UNCHANGED vars
  BY <1>5 DEF vars, factoryVars, lineVars, TypeOK, BufferIsWindow
<1> QED BY <1>1, <1>2, <1>3, <1>4, <1>5 DEF Next

\* Type correctness: the parser's indices stay natural numbers and it never
\* erases more than it was fed, on any line.
THEOREM TypeCorrect == Spec => []TypeOK
<1>1. Init => TypeOK /\ BufferIsWindow
  BY InitInv
<1>2. TypeOK /\ BufferIsWindow /\ [Next]_vars => (TypeOK /\ BufferIsWindow)'
  BY StepInv
<1> QED BY <1>1, <1>2, PTL DEF Spec

\* _buffer is always a window of the line: a contiguous run of the bytes fed,
\* ending with the last of them, whatever Receive has erased.
THEOREM BufferWindow == Spec => []BufferIsWindow
<1>1. Init => TypeOK /\ BufferIsWindow
  BY InitInv
<1>2. TypeOK /\ BufferIsWindow /\ [Next]_vars => (TypeOK /\ BufferIsWindow)'
  BY StepInv
<1> QED BY <1>1, <1>2, PTL DEF Spec

-----------------------------------------------------------------------------
\* What Receive accepts as a packet stands on the line, checksum and all.
LEMMA IntactIsChecksummed ==
  ASSUME TypeOK, BufferIsWindow, Intact
  PROVE  \E i, n \in 1..Len(stream) : /\ i + n - 1 <= Len(stream)
                                      /\ Payload = SubSeq(stream, i, i + n - 1)
                                      /\ Checksummed(Payload)
<1>1. /\ stream \in Seq(Byte) /\ Len(stream) \in Nat
      /\ fed \in 0..Len(stream) /\ erased \in Nat /\ fed \in erased..Len(stream)
      /\ buffer \in Seq(Byte)
  BY DEF TypeOK
<1>2. buffer = SubSeq(stream, erased + 1, fed) /\ Len(buffer) = fed - erased
  BY <1>1, WindowElements DEF BufferIsWindow
<1>3. PICK n \in Nat \ {0} : n = PayloadSize
  BY IntactFits
<1>4. PICK i \in Nat \ {0} : i = erased + Start + 2
  BY <1>1, CandidateType
<1>5. /\ Start \in Nat /\ Start + 5 + n <= fed - erased
      /\ buffer[Start + 2] = n
      /\ buffer[Start + 5 + n] = END_BYTE
      /\ Crc(Payload) = <<buffer[Start + 3 + n], buffer[Start + 4 + n]>>
  <2>1. Start \in Nat /\ n = buffer[Start + 2] /\ FrameEnd = Start + 5 + n
    BY <1>3, IntactFits, CandidateType
  <2>2. Start + 5 + n <= fed - erased /\ buffer[FrameEnd] = END_BYTE
    BY <1>2, <1>3, IntactFits
  <2>3. FrameEnd - 2 = Start + 3 + n /\ FrameEnd - 1 = Start + 4 + n
    BY <2>1
  <2> QED BY <2>1, <2>2, <2>3, IntactFits DEF Checksum
<1>6. Payload = SubSeq(buffer, Start + 3, Start + 2 + n)
  BY <1>3 DEF Payload
<1>7. /\ i + n + 3 <= Len(stream)
      /\ Payload = SubSeq(stream, i + 1, i + n)
      /\ Payload \in Seq(Byte) /\ Len(Payload) = n
      /\ n = stream[i]
      /\ Crc(Payload) = <<stream[i + n + 1], stream[i + n + 2]>>
      /\ stream[i + n + 3] = END_BYTE
  <2>1. /\ i + n + 3 <= Len(stream)
        /\ SubSeq(buffer, Start + 3, Start + 2 + n) = SubSeq(stream, i + 1, i + n)
        /\ SubSeq(buffer, Start + 3, Start + 2 + n) \in Seq(Byte)
        /\ Len(SubSeq(buffer, Start + 3, Start + 2 + n)) = n
        /\ buffer[Start + 2] = stream[i]
        /\ buffer[Start + 3 + n] = stream[i + n + 1]
        /\ buffer[Start + 4 + n] = stream[i + n + 2]
        /\ buffer[Start + 5 + n] = stream[i + n + 3]
    <3>1. Start \in Nat /\ Start + 5 + n <= fed - erased
      BY <1>5
    <3> QED BY <1>1, <1>2, <1>4, <3>1
  <2> QED BY <1>5, <1>6, <2>1, Zenon
<1>8. Checksummed(Payload)
  <2>1. SubSeq(stream, i, i + n + 3)
          = <<stream[i]>> \o Payload \o <<stream[i + n + 1], stream[i + n + 2]>>
                                     \o <<stream[i + n + 3]>>
    <3>1. i + n + 3 <= Len(stream) /\ Payload \in Seq(Byte) /\ Payload = SubSeq(stream, i + 1, i + n)
      BY <1>7
    <3> QED BY <1>1, <3>1
  <2>2. SubSeq(stream, i, i + n + 3) = <<n>> \o Payload \o Crc(Payload) \o <<END_BYTE>>
    BY <1>7, <2>1, Zenon
  <2>3. i \in 1..Len(stream)
    BY <1>1, <1>7
  <2> QED BY <1>7, <2>2, <2>3, Zenon DEF Checksummed
<1>9. /\ i + 1 \in 1..Len(stream) /\ n \in 1..Len(stream)
      /\ (i + 1) + n - 1 <= Len(stream) /\ (i + 1) + n - 1 = i + n
  <2>1. i + n + 3 <= Len(stream)
    BY <1>7
  <2> QED BY <1>1, <2>1
<1> QED BY <1>7, <1>8, <1>9, Zenon

\* Bytes put on the line later change nothing about those already there.
LEMMA ChecksummedStable ==
  ASSUME NEW p, Checksummed(p), stream \in Seq(Byte), Len(p) \in Nat,
         NEW b \in Seq(Byte), stream' = stream \o b
  PROVE  Checksummed(p)'
<1>1. PICK i \in 1..Len(stream) :
        /\ i + Len(p) + 3 <= Len(stream)
        /\ SubSeq(stream, i, i + Len(p) + 3) = <<Len(p)>> \o p \o Crc(p) \o <<END_BYTE>>
  BY DEF Checksummed
<1>2. SubSeq(stream', i, i + Len(p) + 3) = SubSeq(stream, i, i + Len(p) + 3)
  BY <1>1
<1>3. i \in 1..Len(stream') /\ i + Len(p) + 3 <= Len(stream')
  BY <1>1
<1> QED BY <1>1, <1>2, <1>3 DEF Checksummed

\* No step of the line or the parser takes a packet back off the line.
LEMMA LineGrows ==
  ASSUME TypeOK, [Next]_vars
  PROVE  \E b \in Seq(Byte) : stream' = stream \o b
<1>1. stream \in Seq(Byte) /\ << >> \in Seq(Byte) /\ stream = stream \o << >>
  BY DEF TypeOK
<1>2. ASSUME NEW p \in Payloads, Send(p) PROVE \E b \in Seq(Byte) : stream' = stream \o b
  BY <1>2, FrameLayout DEF Send, Put
<1>3. ASSUME NEW g \in Garbage, Disturb(g) PROVE \E b \in Seq(Byte) : stream' = stream \o b
  BY <1>3, GarbageAssumption DEF Disturb, Put
<1>4. CASE Arrive \/ Parse \/ UNCHANGED vars
  <2>1. stream' = stream
    BY <1>4 DEF Arrive, Chunk, Parse, vars, lineVars
  <2> QED BY <1>1, <2>1
<1> QED BY <1>2, <1>3, <1>4 DEF Next

\* Only Deliver publishes, and it publishes what the scan has accepted.
LEMMA OnlyDeliverPublishes ==
  ASSUME [Next]_vars
  PROVE  \/ published' = published
         \/ Intact /\ published' = Append(published, Payload)
BY DEF Next, Send, Disturb, Put, Arrive, Chunk, Receive, Parse, Look, NoStart, AwaitHead,
       AwaitBody, Wait, DropMalformed, DropCorrupt, Deliver, Undefined, vars, factoryVars

\* What is published was on the line with its checksum, whatever else was: the
\* CRC comparison of Receive, for every garbage and every way to cut the chunks.
THEOREM NothingFabricated == Spec => []NoFabrication
<1> DEFINE Inv == TypeOK /\ BufferIsWindow /\ NoFabrication
<1>1. Init => Inv
  BY InitInv DEF Init, FactoryInit, NoFabrication
<1>2. ASSUME Inv, [Next]_vars PROVE Inv'
  <2>1. TypeOK' /\ BufferIsWindow'
    BY <1>2, StepInv
  <2>2. PICK b \in Seq(Byte) : stream' = stream \o b
    BY <1>2, LineGrows
  <2>3. published \in Seq(Seq(Byte)) /\ stream \in Seq(Byte)
    BY <1>2 DEF TypeOK
  <2>4. ASSUME NEW p \in Seq(Byte), Checksummed(p) PROVE Checksummed(p)'
    <3>1. Len(p) \in Nat
      OBVIOUS
    <3> QED BY <2>2, <2>3, <2>4, <3>1, ChecksummedStable
  <2>5. ASSUME NEW k \in 1..Len(published'), NEW p \in Seq(Byte), published'[k] = p, Checksummed(p)'
        PROVE  Checksummed(published[k])'
    BY <2>5 DEF Checksummed
  <2>6. \A k \in 1..Len(published) : published[k] \in Seq(Byte) /\ Checksummed(published[k])
    BY <1>2, <2>3, ElementOfSeq DEF NoFabrication
  <2>7. ASSUME published' = published PROVE NoFabrication'
    <3>1. ASSUME NEW k \in 1..Len(published') PROVE Checksummed(published[k])'
      BY <2>4, <2>5, <2>6, <2>7
    <3> QED BY <3>1 DEF NoFabrication
  <2>8. ASSUME Intact, published' = Append(published, Payload) PROVE NoFabrication'
    <3>1. PICK q \in Seq(Byte) : q = Payload /\ Checksummed(q)
      <4>1. /\ Checksummed(Payload)
            /\ \E i, n \in 1..Len(stream) : i + n - 1 <= Len(stream)
                                              /\ Payload = SubSeq(stream, i, i + n - 1)
        BY <1>2, <2>8, IntactIsChecksummed
      <4>2. Payload \in Seq(Byte)
        BY <2>3, <4>1
      <4> QED BY <4>1, <4>2
    <3>2. /\ Len(published') = Len(published) + 1 /\ Len(published) \in Nat
          /\ published'[Len(published) + 1] = q
          /\ \A k \in 1..Len(published) : published'[k] = published[k]
      BY <2>3, <2>8, <3>1
    <3>3. ASSUME NEW k \in 1..Len(published') PROVE Checksummed(published[k])'
      <4>1. CASE k = Len(published) + 1
        BY <2>4, <2>5, <3>1, <3>2, <4>1
      <4>2. CASE k \in 1..Len(published)
        BY <2>4, <2>5, <2>6, <3>2, <4>2
      <4> QED BY <3>2, <3>3, <4>1, <4>2
    <3> QED BY <3>3 DEF NoFabrication
  <2> QED BY <1>2, <2>1, <2>7, <2>8, OnlyDeliverPublishes
<1> QED BY <1>1, <1>2, PTL DEF Spec

-----------------------------------------------------------------------------
\* A foreign packet stands on the line: the factory cannot decode it.
LEMMA UndefinedStep ==
  ASSUME TypeOK, [Next]_vars, pc' = "undefined"
  PROVE  pc = "undefined" \/ (Intact /\ ~Decodable(Payload) /\ stream' = stream)
<1>1. ASSUME Parse PROVE pc = "undefined" \/ (Intact /\ ~Decodable(Payload) /\ stream' = stream)
  BY <1>1 DEF Parse, Look, NoStart, AwaitHead, AwaitBody, Wait, DropMalformed, DropCorrupt,
              Deliver, Undefined, lineVars
<1>2. ASSUME Arrive PROVE FALSE
  BY <1>2 DEF Arrive, Chunk, Receive
<1>3. ASSUME ~Parse, ~Arrive PROVE pc' = pc
  BY <1>3 DEF Next, Send, Disturb, Put, vars, factoryVars
<1> QED BY <1>1, <1>2, <1>3

\* Receive leaves its defined behaviour only on a packet of a kind or a size this
\* library does not know, and which arrived whole, with its checksum: noise alone
\* cannot do it, for every garbage and every way to cut the chunks.
THEOREM UndefinedIsForeign == Spec => []UndefinedOnlyOnForeignPacket
<1> DEFINE Inv == TypeOK /\ BufferIsWindow /\ UndefinedOnlyOnForeignPacket
<1>1. Init => Inv
  BY InitInv DEF Init, FactoryInit, UndefinedOnlyOnForeignPacket
<1>2. ASSUME Inv, [Next]_vars PROVE Inv'
  <2>1. TypeOK' /\ BufferIsWindow'
    BY <1>2, StepInv
  <2>2. PICK b \in Seq(Byte) : stream' = stream \o b
    BY <1>2, LineGrows
  <2>3. stream \in Seq(Byte)
    BY <1>2 DEF TypeOK
  <2>4. ASSUME pc' = "undefined" PROVE UndefinedOnlyOnForeignPacket'
    <3>1. PICK i, n \in 1..Len(stream) : /\ i + n - 1 <= Len(stream)
                                         /\ Checksummed(SubSeq(stream, i, i + n - 1))
                                         /\ ~Decodable(SubSeq(stream, i, i + n - 1))
      <4>1. CASE pc = "undefined"
        BY <1>2, <4>1, Zenon DEF UndefinedOnlyOnForeignPacket
      <4>2. CASE Intact /\ ~Decodable(Payload)
        <5>1. PICK i, n \in 1..Len(stream) : /\ i + n - 1 <= Len(stream)
                                             /\ Payload = SubSeq(stream, i, i + n - 1)
                                             /\ Checksummed(Payload)
          BY <1>2, <4>2, IntactIsChecksummed
        <5> QED BY <4>2, <5>1, Zenon
      <4> QED BY <1>2, <2>4, <4>1, <4>2, UndefinedStep
    <3> DEFINE p == SubSeq(stream, i, i + n - 1)
    <3>2. p \in Seq(Byte) /\ Len(p) \in Nat
      BY <2>3, <3>1
    <3>3. SubSeq(stream', i, i + n - 1) = p
      BY <2>2, <2>3, <3>1
    <3>4. Len(stream') = Len(stream) + Len(b) /\ Len(b) \in Nat
      BY <2>2, <2>3
    <3>5. i \in 1..Len(stream') /\ n \in 1..Len(stream') /\ i + n - 1 <= Len(stream')
      BY <2>3, <3>1, <3>4
    <3> HIDE DEF p
    <3>6. PICK q \in Seq(Byte) : q = p
      BY <3>2
    <3>7. Checksummed(q)
      BY <3>1, <3>6, Zenon DEF p
    <3>8. Checksummed(q)'
      BY <2>2, <2>3, <3>2, <3>6, <3>7, ChecksummedStable
    <3> QED BY <3>1, <3>3, <3>5, <3>6, <3>8 DEF UndefinedOnlyOnForeignPacket, p
  <2>5. ASSUME pc' # "undefined" PROVE UndefinedOnlyOnForeignPacket'
    BY <2>5 DEF UndefinedOnlyOnForeignPacket
  <2> QED BY <2>1, <2>4, <2>5
<1> QED BY <1>1, <1>2, PTL DEF Spec
=============================================================================
