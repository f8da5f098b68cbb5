------------------------ MODULE PacketChannelProofs ------------------------
(***************************************************************************)
(* On a clean line (PacketStream!CleanLine) the parser implements the      *)
(* channel of PacketChannel.tla: it loses, repeats and reorders nothing.   *)
(***************************************************************************)
EXTENDS PacketStreamProofs

\* The frame the parser is at, when bytes of it have been fed.
Next1 == sent[Len(published) + 1]

\* What the invariant says of the buffer: it begins at the frame of the first
\* payload not yet published.
LEMMA BufferIsFrame ==
  ASSUME CleanInv, buffer # << >>
  PROVE  /\ Len(published) < Len(sent)
         /\ Next1 \in Payloads
         /\ \A j \in 1..Len(buffer) : j <= Len(Frame(Next1)) => buffer[j] = Frame(Next1)[j]
         /\ Len(buffer) >= 2
<1> DEFINE n == Len(published)
<1>1. /\ stream \in Seq(Byte) /\ fed \in 0..Len(stream) /\ erased \in 0..fed
      /\ buffer \in Seq(Byte) /\ sent \in Seq(Payloads) /\ n \in Nat /\ Len(sent) \in Nat
  BY DEF CleanInv, TypeOK
<1>2. /\ Len(buffer) = fed - erased
      /\ \A j \in 1..fed - erased : buffer[j] = stream[erased + j]
  BY <1>1, WindowElements DEF CleanInv, BufferIsWindow
<1>3. n <= Len(sent) /\ erased = EndOf(ends, n) /\ EndOf(ends, Len(sent)) = Len(stream)
  BY DEF CleanInv, PublishedInOrder, AtFrame, FramesOnly
<1>4. Len(buffer) \in Nat \ {0}
  BY <1>1
<1>5. n < Len(sent)
  <2>1. erased # Len(stream)
    BY <1>1, <1>2, <1>4
  <2> QED BY <1>1, <1>3, <2>1
<1>6. Next1 \in Payloads /\ n + 1 \in 1..Len(sent) /\ (n + 1) - 1 = n
  BY <1>1, <1>5 DEF Next1
<1>7. \A j \in 1..Len(Frame(Next1)) : stream[erased + j] = Frame(Next1)[j]
  BY <1>3, <1>6 DEF CleanInv, FramesOnly, Next1
<1>8. fed # erased + 1
  BY <1>1, <1>3 DEF CleanInv, AtFrame
<1>9. Len(buffer) >= 2
  BY <1>1, <1>2, <1>4, <1>8
<1>10. ASSUME NEW j \in 1..Len(buffer), j <= Len(Frame(Next1)) PROVE buffer[j] = Frame(Next1)[j]
  <2>1. j \in 1..fed - erased
    BY <1>2
  <2>2. j \in 1..Len(Frame(Next1))
    BY <1>4, <1>6, <1>10, FrameLayout
  <2> QED BY <1>2, <1>7, <2>1, <2>2
<1> QED BY <1>5, <1>6, <1>9, <1>10

\* Where the scan of a clean buffer finds things.
LEMMA CleanScan ==
  ASSUME CleanInv, CleanLine
  PROVE  /\ Start = 0
         /\ HeadPresent <=> buffer # << >>
         /\ Enough => PayloadSize = Len(Next1) /\ FrameEnd = Len(Frame(Next1))
         /\ Complete => Intact /\ Payload = Next1 /\ Decodable(Payload)
<1> DEFINE L == Len(buffer)
<1>1. buffer \in Seq(Byte) /\ L \in Nat /\ start_idx = 0
  BY DEF CleanInv, TypeOK, AtFrame
<1>2. buffer = << >> <=> L = 0
  BY <1>1
<1>3. Start = 0
  <2>1. SkipToStart(buffer) \in 0..L /\ \A i \in 1..SkipToStart(buffer) : buffer[i] # START_BYTE
    BY <1>1, SkipToStartFinds
  <2>2. CASE buffer = << >>
    BY <1>1, <1>2, <2>1, <2>2 DEF Start
  <2>3. CASE buffer # << >>
    <3>1. Next1 \in Payloads /\ L >= 2
          /\ \A j \in 1..L : j <= Len(Frame(Next1)) => buffer[j] = Frame(Next1)[j]
      BY <2>3, BufferIsFrame
    <3>2. Len(Frame(Next1)) \in Nat /\ 1 <= Len(Frame(Next1)) /\ Frame(Next1)[1] = START_BYTE
      BY <3>1, FrameLayout DEF NUM_NON_PAYLOAD_BYTE
    <3>3. buffer[1] = START_BYTE
      BY <1>1, <3>1, <3>2
    <3> QED BY <1>1, <2>1, <3>3 DEF Start
  <2> QED BY <2>2, <2>3
<1>4. HeadPresent <=> buffer # << >>
  BY <1>1, <1>2, <1>3, BufferIsFrame DEF HeadPresent
<1>5. ASSUME Enough PROVE PayloadSize = Len(Next1) /\ FrameEnd = Len(Frame(Next1))
  <2>1. buffer # << >> /\ L >= 6
    BY <1>1, <1>3, <1>4, <1>5 DEF Enough, MIN_PACKET_SIZE
  <2>2. /\ Next1 \in Payloads
        /\ \A j \in 1..L : j <= Len(Frame(Next1)) => buffer[j] = Frame(Next1)[j]
    BY <2>1, BufferIsFrame
  <2>3. /\ Len(Frame(Next1)) = 5 + Len(Next1) /\ Len(Next1) \in 1..255
        /\ Frame(Next1)[2] = Len(Next1)
    BY <2>2, FrameLayout DEF NUM_NON_PAYLOAD_BYTE
  <2>4. buffer[2] = Len(Next1)
    BY <1>1, <2>1, <2>2, <2>3
  <2>5. PayloadSize = Len(Next1)
    BY <1>3, <2>4 DEF PayloadSize
  <2> QED BY <1>3, <2>3, <2>5 DEF FrameEnd, NUM_NON_PAYLOAD_BYTE
<1>6. ASSUME Complete PROVE Intact /\ Payload = Next1 /\ Decodable(Payload)
  <2> DEFINE m == Len(Next1)
  <2>1. Enough /\ FrameEnd <= L
    BY <1>6 DEF Complete
  <2>2. buffer # << >>
    BY <1>4, <2>1 DEF Enough
  <2>3. /\ Next1 \in Payloads
        /\ \A j \in 1..L : j <= Len(Frame(Next1)) => buffer[j] = Frame(Next1)[j]
    BY <2>2, BufferIsFrame
  <2>4. /\ Next1 \in Seq(Byte) /\ m \in 1..255
        /\ Len(Frame(Next1)) = 5 + m
        /\ \A i \in 1..m : Frame(Next1)[i + 2] = Next1[i]
        /\ <<Frame(Next1)[m + 3], Frame(Next1)[m + 4]>> = Crc(Next1)
        /\ Frame(Next1)[m + 5] = END_BYTE
    BY <2>3, FrameLayout DEF NUM_NON_PAYLOAD_BYTE
  <2>5. PayloadSize = m /\ FrameEnd = m + 5 /\ m + 5 <= L
    BY <1>5, <2>1, <2>4
  <2>6. \A j \in 1..m + 5 : buffer[j] = Frame(Next1)[j]
    BY <1>1, <2>3, <2>4, <2>5
  <2>7. buffer[FrameEnd] = END_BYTE /\ PayloadSize >= 1
    BY SMTT(30), <2>4, <2>5, <2>6
  <2>8. Payload = Next1
    <3>1. Payload = SubSeq(buffer, 3, 2 + m)
      BY <1>3, <2>5 DEF Payload
    <3>2. \A i \in 1..m : buffer[i + 2] = Next1[i]
      BY <2>4, <2>6
    <3> HIDE DEF m
    <3>3. Len(Next1) = m
      BY DEF m
    <3>4. SubSeq(buffer, 3, 2 + m) = Next1
      BY <1>1, <2>4, <2>5, <3>2, <3>3
    <3> QED BY <3>1, <3>4
  <2>9. Checksum = Crc(Next1)
    <3>1. FrameEnd - 2 = m + 3 /\ FrameEnd - 1 = m + 4
      BY <2>4, <2>5
    <3>2. buffer[m + 3] = Frame(Next1)[m + 3] /\ buffer[m + 4] = Frame(Next1)[m + 4]
      BY <2>4, <2>6
    <3> QED BY <2>4, <3>1, <3>2 DEF Checksum
  <2>10. Intact
    BY <1>6, <2>7, <2>8, <2>9 DEF Intact, Delimited
  <2> QED BY <2>3, <2>8, <2>10 DEF CleanLine
<1> QED BY <1>3, <1>4, <1>5, <1>6

-----------------------------------------------------------------------------
LEMMA CleanInit == Init => CleanInv
BY InitInv DEF Init, FactoryInit, CleanInv, FramesOnly, PublishedInOrder, AtFrame, EndOf

\* Append and \o leave the front of a sequence alone.
LEMMA AppendKeeps ==
  ASSUME NEW T, NEW s \in Seq(T), NEW x \in T
  PROVE  /\ Len(Append(s, x)) = Len(s) + 1
         /\ \A i \in 1..Len(s) : Append(s, x)[i] = s[i]
         /\ Append(s, x)[Len(s) + 1] = x
         /\ \A m \in 0..Len(s) : SubSeq(Append(s, x), 1, m) = SubSeq(s, 1, m)
OBVIOUS

LEMMA ConcatKeeps ==
  ASSUME NEW T, NEW s \in Seq(T), NEW t \in Seq(T)
  PROVE  /\ Len(s \o t) = Len(s) + Len(t)
         /\ \A i \in 1..Len(s) : (s \o t)[i] = s[i]
         /\ \A i \in 1..Len(t) : (s \o t)[Len(s) + i] = t[i]
OBVIOUS

LEMMA CleanSend ==
  ASSUME CleanInv, NEW p \in Payloads, Send(p)
  PROVE  FramesOnly' /\ PublishedInOrder' /\ AtFrame'
<1> DEFINE n == Len(sent)
           L == Len(stream)
           z == Len(Frame(p))
<1>1. stream \in Seq(Byte) /\ ends \in Seq(Nat) /\ sent \in Seq(Payloads)
  BY DEF CleanInv, TypeOK
<1>2. published \in Seq(Seq(Byte)) /\ fed \in 0..L
  BY DEF CleanInv, TypeOK
<1>3. n \in Nat /\ L \in Nat /\ Len(published) \in Nat
  BY <1>1, <1>2
<1>4. Len(ends) = n /\ EndOf(ends, n) = L
  BY DEF CleanInv, FramesOnly
<1>5. Frame(p) \in Seq(Byte) /\ z \in Nat /\ z >= 6
  <2>1. Frame(p) \in Seq(Byte) /\ z = 5 + Len(p) /\ Len(p) \in 1..255
    BY FrameLayout DEF NUM_NON_PAYLOAD_BYTE
  <2> DEFINE l == Len(p)
  <2> HIDE DEF z, l
  <2>2. z \in Nat /\ z >= 6
    <3>1. z = 5 + l /\ l \in 1..255
      BY <2>1 DEF l
    <3> QED BY <3>1
  <2> QED BY <2>1, <2>2
<1>6. /\ stream' = stream \o Frame(p)
      /\ ends' = Append(ends, L + z)
      /\ sent' = Append(sent, p)
      /\ UNCHANGED <<buffer, start_idx, pc, published, fed, erased>>
  BY DEF Send, Put, factoryVars
<1>7. /\ Len(sent') = n + 1
      /\ \A i \in 1..n : sent'[i] = sent[i]
      /\ sent'[n + 1] = p
      /\ \A m \in 0..n : SubSeq(sent', 1, m) = SubSeq(sent, 1, m)
  BY <1>1, <1>6, AppendKeeps
<1>8. /\ Len(ends') = n + 1
      /\ \A i \in 1..n : ends'[i] = ends[i]
      /\ ends'[n + 1] = L + z
  <2>1. L + z \in Nat
    BY <1>3, <1>5
  <2> HIDE DEF n, L, z
  <2> QED BY <1>1, <1>4, <1>6, <2>1, AppendKeeps
<1>9. /\ Len(stream') = L + z
      /\ \A j \in 1..L : stream'[j] = stream[j]
      /\ \A j \in 1..z : stream'[L + j] = Frame(p)[j]
  BY <1>1, <1>5, <1>6, ConcatKeeps
<1>10. \A i \in 0..n : ends[i] \in Nat \/ i = 0
  BY <1>1, <1>3, <1>4
<1> HIDE DEF n, L, z
<1>11. /\ \A i \in 0..n : EndOf(ends', i) = EndOf(ends, i) /\ EndOf(ends, i) \in Nat
       /\ EndOf(ends', n + 1) = L + z
  BY <1>3, <1>8, <1>10 DEF EndOf
<1>12. ASSUME NEW i \in 1..n + 1
       PROVE  /\ ends'[i] = EndOf(ends', i - 1) + Len(Frame(sent'[i]))
              /\ ends'[i] <= L + z
              /\ \A j \in 1..Len(Frame(sent'[i])) :
                    stream'[EndOf(ends', i - 1) + j] = Frame(sent'[i])[j]
  <2>1. CASE i = n + 1
    <3>1. i - 1 = n /\ EndOf(ends', i - 1) = L /\ ends'[i] = L + z /\ sent'[i] = p
      BY <1>3, <1>4, <1>7, <1>8, <1>11, <2>1
    <3> QED BY <1>3, <1>5, <1>9, <3>1 DEF z
  <2>2. CASE i \in 1..n
    <3>1. /\ ends[i] = EndOf(ends, i - 1) + Len(Frame(sent[i]))
          /\ ends[i] <= L
          /\ \A j \in 1..Len(Frame(sent[i])) : stream[EndOf(ends, i - 1) + j] = Frame(sent[i])[j]
      BY <2>2 DEF CleanInv, FramesOnly, n, L
    <3>2. sent[i] \in Payloads
      BY <1>1, <2>2 DEF n
    <3>3. Len(Frame(sent[i])) \in Nat
      BY <3>2, FrameLayout
    <3>4. i - 1 \in 0..n /\ EndOf(ends', i - 1) = EndOf(ends, i - 1) /\ EndOf(ends, i - 1) \in Nat
      BY <1>3, <1>11, <2>2
    <3>5. \A j \in 1..Len(Frame(sent[i])) : EndOf(ends, i - 1) + j \in 1..L
      BY <1>3, <3>1, <3>3, <3>4
    <3>6. ends'[i] = ends[i] /\ sent'[i] = sent[i]
      BY <1>7, <1>8, <2>2
    <3>7. ends[i] <= L + z
      BY <1>3, <1>5, <3>1, <3>3, <3>4
    <3> QED BY <1>9, <3>1, <3>4, <3>5, <3>6, <3>7
  <2> QED BY <1>3, <2>1, <2>2
<1>13. FramesOnly'
  BY <1>3, <1>7, <1>8, <1>9, <1>11, <1>12 DEF FramesOnly
<1>14. Len(published) <= n /\ published = SubSeq(sent, 1, Len(published))
  BY DEF CleanInv, PublishedInOrder, n
<1>15. PublishedInOrder'
  BY <1>3, <1>6, <1>7, <1>14 DEF PublishedInOrder
<1>16. AtFrame'
  <2>1. /\ start_idx = 0 /\ pc # "undefined" /\ erased = EndOf(ends, Len(published))
        /\ \A i \in 0..n : fed # EndOf(ends, i) + 1
        /\ pc = "idle" /\ buffer # << >> =>
              /\ Len(published) < n
              /\ Len(buffer) < Len(Frame(sent[Len(published) + 1]))
    BY DEF CleanInv, AtFrame, n
  <2>2. erased' = EndOf(ends', Len(published'))
    BY <1>3, <1>6, <1>11, <1>14, <2>1
  <2>3. \A i \in 0..n + 1 : fed' # EndOf(ends', i) + 1
    <3>1. fed' = fed /\ fed \in 0..L
      BY <1>2, <1>6 DEF L
    <3>2. fed # L + z + 1
      BY <1>3, <1>5, <3>1
    <3>3. ASSUME NEW i \in 0..n + 1, i # n + 1 PROVE i \in 0..n
      BY <1>3, <3>3
    <3> QED BY <1>11, <2>1, <3>1, <3>2, <3>3
  <2>4. Len(published) < n => sent'[Len(published) + 1] = sent[Len(published) + 1]
    BY <1>3, <1>7
  <2>5. /\ start_idx' = 0 /\ pc' # "undefined"
        /\ pc' = "idle" /\ buffer' # << >> =>
              /\ Len(published') < Len(sent')
              /\ Len(buffer') < Len(Frame(sent'[Len(published') + 1]))
    BY <1>3, <1>6, <1>7, <2>1, <2>4
  <2> QED BY <1>7, <2>2, <2>3, <2>5 DEF AtFrame
<1> QED BY <1>13, <1>15, <1>16

LEMMA CleanArrive ==
  ASSUME CleanInv, CleanLine, NEW k \in fed + 1 .. Len(stream), Chunk(k)
  PROVE  FramesOnly' /\ PublishedInOrder' /\ AtFrame'
<1>1. /\ fed' = k /\ pc' = "look"
      /\ UNCHANGED <<start_idx, published, stream, ends, sent, erased>>
  BY DEF Chunk, Receive, lineVars
<1>2. FramesOnly' /\ PublishedInOrder'
  BY <1>1 DEF CleanInv, FramesOnly, PublishedInOrder, EndOf
<1>3. \A i \in 0..Len(sent) : k # EndOf(ends, i) + 1
  <2>1. k - 1 \notin Boundaries
    BY DEF Chunk, MayEndAt, CleanLine
  <2>2. Len(ends) = Len(sent) /\ ends \in Seq(Nat) /\ Len(sent) \in Nat /\ k \in Nat
    BY DEF CleanInv, FramesOnly, TypeOK
  <2>3. \A i \in 0..Len(sent) : EndOf(ends, i) \in Boundaries /\ EndOf(ends, i) \in Nat
    BY <2>2 DEF EndOf, Boundaries
  <2> QED BY <2>1, <2>2, <2>3
<1>4. AtFrame'
  BY <1>1, <1>3 DEF CleanInv, AtFrame, EndOf
<1> QED BY <1>2, <1>4

\* A published prefix of what was sent, and one more of it, are a prefix.
LEMMA PrefixGrows ==
  ASSUME NEW T, NEW s \in Seq(T), NEW n \in Nat, n < Len(s)
  PROVE  Append(SubSeq(s, 1, n), s[n + 1]) = SubSeq(s, 1, n + 1)
OBVIOUS

\* On a clean line, what is complete is the next frame, and it is delivered.
LEMMA CleanDeliver ==
  ASSUME CleanInv, CleanLine, Parse, Deliver
  PROVE  FramesOnly' /\ PublishedInOrder' /\ AtFrame'
<1> DEFINE n == Len(published)
           z == Len(Frame(Next1))
<1>1. stream \in Seq(Byte) /\ fed \in 0..Len(stream) /\ erased \in 0..fed
  BY DEF CleanInv, TypeOK
<1>2. buffer \in Seq(Byte) /\ sent \in Seq(Payloads) /\ published \in Seq(Seq(Byte))
  BY DEF CleanInv, TypeOK
<1>3. Complete /\ Enough /\ Len(buffer) \in Nat /\ n \in Nat /\ Len(sent) \in Nat
  BY <1>2 DEF Deliver, Intact, Delimited, Complete
<1>4. FrameEnd = z /\ Payload = Next1 /\ Start = 0 /\ z <= Len(buffer) /\ buffer # << >>
  BY <1>3, CleanScan DEF Complete, Enough
<1>5. Next1 \in Payloads /\ n < Len(sent)
  BY <1>4, BufferIsFrame
<1>6. z \in Nat
  BY <1>5, FrameLayout
<1>7. PayloadSize = Len(Next1) /\ NUM_NON_PAYLOAD_BYTE + PayloadSize = z
  BY <1>3, <1>5, CleanScan, FrameLayout
<1>8. /\ published' = Append(published, Next1)
      /\ start_idx' = 0 /\ pc' = "look"
      /\ buffer' = SubSeq(buffer, z + 1, Len(buffer))
  BY <1>4, <1>7 DEF Deliver, Erase
<1>9. UNCHANGED <<stream, ends, sent, fed>> /\ erased' = erased + (Len(buffer) - Len(buffer'))
  BY DEF Parse, lineVars
<1>10. Len(buffer') = Len(buffer) - z
  <2> HIDE DEF z
  <2>1. Len(SubSeq(buffer, z + 1, Len(buffer))) = Len(buffer) - z
    BY <1>2, <1>4, <1>6
  <2> QED BY <1>8, <2>1
<1>11. FramesOnly'
  BY <1>9 DEF CleanInv, FramesOnly
<1>12. n <= Len(sent) /\ published = SubSeq(sent, 1, n) /\ erased = EndOf(ends, n)
  BY DEF CleanInv, PublishedInOrder, AtFrame
<1>13. /\ published' = SubSeq(sent, 1, n + 1)
       /\ Len(published') = n + 1
  <2>1. Next1 = sent[n + 1]
    BY DEF Next1
  <2>2. Len(published') = n + 1
    BY <1>2, <1>5, <1>8, FrameLayout
  <2>3. Append(SubSeq(sent, 1, n), sent[n + 1]) = SubSeq(sent, 1, n + 1)
    BY <1>2, <1>3, <1>5, PrefixGrows
  <2> QED BY <1>8, <1>12, <2>1, <2>2, <2>3
<1>14. PublishedInOrder'
  BY <1>3, <1>5, <1>9, <1>13 DEF PublishedInOrder
<1>15. erased' = EndOf(ends', n + 1)
  <2>1. erased' = erased + z
    BY <1>1, <1>3, <1>6, <1>9, <1>10
  <2>2. n + 1 \in 1..Len(sent) /\ (n + 1) - 1 = n
    BY <1>3, <1>5
  <2>3. ends[n + 1] = EndOf(ends, n) + z
    BY <2>2 DEF CleanInv, FramesOnly, Next1
  <2>4. EndOf(ends, n + 1) = ends[n + 1]
    BY <1>3 DEF EndOf
  <2> QED BY <1>9, <1>12, <2>1, <2>3, <2>4
<1>16. AtFrame'
  <2>1. \A i \in 0..Len(sent) : fed # EndOf(ends, i) + 1
    BY DEF CleanInv, AtFrame
  <2> QED BY <1>8, <1>9, <1>13, <1>15, <2>1 DEF AtFrame
<1> QED BY <1>11, <1>14, <1>16

LEMMA CleanParse ==
  ASSUME CleanInv, CleanLine, Parse
  PROVE  FramesOnly' /\ PublishedInOrder' /\ AtFrame'
<1>1. /\ Start = 0
      /\ HeadPresent <=> buffer # << >>
      /\ Enough => FrameEnd = Len(Frame(Next1))
      /\ Complete => Intact /\ Decodable(Payload)
  BY CleanScan
<1>2. buffer \in Seq(Byte) /\ Len(buffer) \in Nat /\ fed \in Nat /\ erased \in Nat
  BY DEF CleanInv, TypeOK
<1>3. UNCHANGED <<stream, ends, sent, fed>> /\ erased' = erased + (Len(buffer) - Len(buffer'))
  BY DEF Parse, lineVars
<1>4. ASSUME UNCHANGED <<buffer, published>>, start_idx' = 0, pc' = "idle",
             buffer # << >> => /\ Len(published) < Len(sent)
                               /\ Len(buffer) < Len(Frame(Next1))
      PROVE  FramesOnly' /\ PublishedInOrder' /\ AtFrame'
  <2>1. erased' = erased
    BY <1>2, <1>3, <1>4
  <2>2. FramesOnly' /\ PublishedInOrder'
    BY <1>3, <1>4 DEF CleanInv, FramesOnly, PublishedInOrder
  <2>3. AtFrame'
    BY <1>3, <1>4, <2>1 DEF CleanInv, AtFrame, Next1
  <2> QED BY <2>2, <2>3
<1>5. CASE NoStart
  BY <1>1, <1>4, <1>5 DEF NoStart
<1>6. CASE AwaitHead
  <2>1. buffer # << >> /\ ~Enough /\ start_idx' = 0 /\ pc' = "idle" /\ UNCHANGED <<buffer, published>>
    BY <1>1, <1>6 DEF AwaitHead, Wait
  <2>2. Len(buffer) < 6
    BY <1>1, <1>2, <2>1 DEF Enough, MIN_PACKET_SIZE
  <2>3. Len(published) < Len(sent) /\ Next1 \in Payloads
    BY <2>1, BufferIsFrame
  <2>4. Len(Frame(Next1)) = 5 + Len(Next1) /\ Len(Next1) \in 1..255
    BY <2>3, FrameLayout DEF NUM_NON_PAYLOAD_BYTE
  <2>5. Len(buffer) < Len(Frame(Next1))
    <3> DEFINE l == Len(Next1)
    <3>1. Len(Frame(Next1)) = 5 + l /\ l \in 1..255
      BY <2>4
    <3> HIDE DEF l
    <3> QED BY <1>2, <2>2, <3>1
  <2> QED BY <1>4, <2>1, <2>3, <2>5
<1>7. CASE AwaitBody
  <2>1. Enough /\ ~Complete /\ start_idx' = 0 /\ pc' = "idle" /\ UNCHANGED <<buffer, published>>
    BY <1>1, <1>7 DEF AwaitBody, Wait
  <2>2. buffer # << >>
    BY <1>1, <2>1 DEF Enough
  <2>3. Len(published) < Len(sent) /\ Next1 \in Payloads
    BY <2>2, BufferIsFrame
  <2>4. Len(Frame(Next1)) \in Nat
    BY <2>3, FrameLayout
  <2>5. Len(buffer) < Len(Frame(Next1))
    BY <1>1, <1>2, <2>1, <2>4 DEF Complete
  <2> QED BY <1>4, <2>1, <2>3, <2>5
<1>8. CASE Deliver
  BY <1>8, CleanDeliver
<1>9. ~DropMalformed /\ ~DropCorrupt /\ ~Undefined
  BY <1>1 DEF DropMalformed, DropCorrupt, Undefined, Intact, Delimited
<1> QED BY <1>5, <1>6, <1>7, <1>8, <1>9 DEF Parse, Look

-----------------------------------------------------------------------------
LEMMA CleanStep ==
  ASSUME CleanInv, CleanLine, [Next]_vars
  PROVE  CleanInv'
<1>1. TypeOK' /\ BufferIsWindow'
  BY StepInv DEF CleanInv
<1>2. FramesOnly' /\ PublishedInOrder' /\ AtFrame'
  <2>1. ASSUME NEW p \in Payloads, Send(p) PROVE FramesOnly' /\ PublishedInOrder' /\ AtFrame'
    BY <2>1, CleanSend
  <2>2. ~\E g \in Garbage : Disturb(g)
    BY DEF CleanLine
  <2>3. CASE Arrive
    BY <2>3, CleanArrive DEF Arrive
  <2>4. CASE Parse
    BY <2>4, CleanParse
  <2>5. CASE UNCHANGED vars
    BY <2>5 DEF vars, factoryVars, lineVars, CleanInv, FramesOnly, PublishedInOrder, AtFrame
  <2> QED BY <2>1, <2>2, <2>3, <2>4, <2>5 DEF Next
<1> QED BY <1>1, <1>2 DEF CleanInv

\* On a clean line the inductive invariant CleanInv of PacketStream.tla holds throughout.
THEOREM CleanInvariant == CleanLine => (Spec => []CleanInv)
<1> SUFFICES ASSUME CleanLine PROVE Spec => []CleanInv
  OBVIOUS
<1>1. Init => CleanInv
  BY CleanInit
<1>2. CleanInv /\ [Next]_vars => CleanInv'
  BY CleanStep
<1> QED BY <1>1, <1>2, PTL DEF Spec

\* On a clean line Receive loses no packet, repeats none and reorders none.
THEOREM InOrder == CleanLine => (Spec => []PublishedInOrder)
<1>1. CleanInv => PublishedInOrder
  BY DEF CleanInv
<1> QED BY <1>1, CleanInvariant, PTL

\* On a clean line Receive holds no packet back: when it has returned and all
\* that was sent has been fed to it, all that was sent has been published.
THEOREM NothingLeft == CleanLine => (Spec => []NothingHeldBack)
<1>1. ASSUME CleanInv PROVE NothingHeldBack
  <2> SUFFICES ASSUME pc = "idle", fed = Len(stream), ~(Len(published) >= Len(sent))
               PROVE  FALSE
    BY DEF NothingHeldBack
  <2> DEFINE n == Len(published)
  <2>1. /\ stream \in Seq(Byte) /\ Len(stream) \in Nat /\ fed \in Nat /\ erased \in 0..fed
        /\ n \in Nat /\ Len(sent) \in Nat
    BY <1>1 DEF CleanInv, TypeOK
  <2>2. n + 1 \in 1..Len(sent) /\ (n + 1) - 1 = n
    BY <2>1
  <2>3. /\ ends[n + 1] = EndOf(ends, n) + Len(Frame(Next1))
        /\ ends[n + 1] <= Len(stream)
    BY <1>1, <2>2 DEF CleanInv, FramesOnly, Next1
  <2>4. Next1 \in Payloads
    BY <1>1, <2>2 DEF CleanInv, TypeOK, Next1
  <2>5. Len(Frame(Next1)) \in Nat /\ Len(Frame(Next1)) >= 6
    <3> DEFINE l == Len(Next1)
    <3>1. Len(Frame(Next1)) = 5 + l /\ l \in 1..255
      BY <2>4, FrameLayout DEF NUM_NON_PAYLOAD_BYTE
    <3> HIDE DEF l
    <3> QED BY <3>1
  <2>6. Len(buffer) = fed - erased
    BY <1>1, <2>1, WindowElements DEF CleanInv, BufferIsWindow
  <2>7. erased = EndOf(ends, n)
    BY <1>1 DEF CleanInv, AtFrame
  <2>8. Len(buffer) >= Len(Frame(Next1))
    BY <2>1, <2>3, <2>5, <2>6, <2>7
  <2>9. buffer # << >> => Len(buffer) < Len(Frame(Next1))
    BY <1>1 DEF CleanInv, AtFrame, Next1
  <2>10. buffer # << >>
    BY <2>5, <2>8
  <2> QED BY <2>1, <2>5, <2>6, <2>8, <2>9, <2>10
<1> QED BY <1>1, CleanInvariant, PTL

\* On a clean line _buffer holds less than one frame between two calls.
THEOREM Bounded == CleanLine => (Spec => []BufferBounded)
<1>1. ASSUME CleanInv PROVE BufferBounded
  <2> SUFFICES ASSUME pc = "idle", buffer # << >>
               PROVE  \E p \in Payloads : Len(buffer) < Len(Frame(p))
    BY DEF BufferBounded
  <2>1. Next1 \in Payloads
    BY <1>1, BufferIsFrame
  <2>2. Len(buffer) < Len(Frame(Next1))
    BY <1>1 DEF CleanInv, AtFrame, Next1
  <2> QED BY <2>1, <2>2
<1> QED BY <1>1, CleanInvariant, PTL

\* On a clean line the parser implements the channel of PacketChannel.tla: it
\* begins as the channel does, and each of its steps is a step of the channel
\* or changes neither what was sent nor what was published.
THEOREM ImplementsChannel ==
  CleanLine => (Spec => Channel!Init /\ [][Channel!Next]_Channel!channelVars)
<1> SUFFICES ASSUME CleanLine PROVE Spec => Channel!Init /\ [][Channel!Next]_Channel!channelVars
  OBVIOUS
<1>1. Init => Channel!Init
  BY DEF Init, FactoryInit, Channel!Init
<1>2. ASSUME CleanInv, CleanInv', [Next]_vars PROVE [Channel!Next]_Channel!channelVars
  <2>1. ASSUME NEW p \in Payloads, Send(p) PROVE Channel!Next
    BY <2>1 DEF Send, Put, factoryVars, Channel!Next, Channel!Send
  <2>2. ~\E g \in Garbage : Disturb(g)
    BY DEF CleanLine
  <2>3. CASE Arrive
    BY <2>3 DEF Arrive, Chunk, Receive, lineVars, Channel!channelVars
  <2>4. CASE Parse
    <3>1. sent' = sent
      BY <2>4 DEF Parse, lineVars
    <3>2. CASE Deliver
      <4>1. published' = Append(published, Next1) /\ Len(published) < Len(sent)
        <5>1. Complete /\ Enough
          BY <3>2 DEF Deliver, Intact, Delimited, Complete
        <5>2. Payload = Next1 /\ buffer # << >>
          BY <1>2, <5>1, CleanScan DEF Enough
        <5> QED BY <1>2, <3>2, <5>2, BufferIsFrame DEF Deliver
      <4> QED BY <3>1, <4>1 DEF Channel!Next, Channel!Deliver, Next1
    <3>3. CASE ~Deliver
      BY <2>4, <3>1, <3>3 DEF Parse, Look, NoStart, AwaitHead, AwaitBody, Wait, DropMalformed,
                              DropCorrupt, Undefined, Channel!channelVars
    <3> QED BY <3>2, <3>3
  <2>5. CASE UNCHANGED vars
    BY <2>5 DEF vars, factoryVars, lineVars, Channel!channelVars
  <2> QED BY <1>2, <2>1, <2>2, <2>3, <2>4, <2>5 DEF Next
<1> QED BY <1>1, <1>2, CleanInvariant, PTL DEF Spec

=============================================================================
