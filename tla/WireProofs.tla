----------------------------- MODULE WireProofs -----------------------------
(***************************************************************************)
(* The safety of WireCheck.tla for every set of well-formed packets, every *)
(* table whose entries are the remainders of their indices, and every set  *)
(* of bursts within BurstAssumption, at payloads of any size.              *)
(***************************************************************************)
EXTENDS WireCheck, CodecProofs, CrcProofs

\* What the variables hold: the payload is the encoded packet, what arrives is as long,
\* and nothing is summed before it is encoded.
WireTypeOK ==
  /\ packet \in Packets
  /\ payload # << >> => payload = encode(packet)
  /\ payload \in Seq(Octet) /\ received \in Seq(Octet) /\ Len(received) = Len(payload)
  /\ k \in 0..Len(payload)
  /\ checksum \in Words /\ receivedSum \in Words
  /\ remainder \in Words /\ receivedRemainder \in Words
  /\ payload = << >> => checksum = {} /\ receivedSum = {}

\* The inductive invariant.  That a burst is caught says nothing of the checksums before
\* the last byte; what their difference is, byte by byte, does (SyndromeOfBurst).
WireInv == WireTypeOK /\ TableIsDivision /\ SyndromeOfBurst /\ RoundTrip

-----------------------------------------------------------------------------
(* Bursts. *)

\* A hit byte differs from the one sent in the wrong bits, and is a byte.
LEMMA HitByte ==
  ASSUME NEW byte \in 0..255, NEW wrong \in Octets
  PROVE  /\ Number(Xor(Bits(byte), wrong)) \in 0..255
         /\ Xor(Bits(byte), Bits(Number(Xor(Bits(byte), wrong)))) = wrong
<1>1. Bits(byte) \in Octets /\ Xor(Bits(byte), wrong) \in Octets
  BY NumberOfBits, XorType
<1>2. Xor(Bits(byte), Xor(Bits(byte), wrong)) = wrong
  BY DEF Xor, SymDiff
<1> QED BY <1>1, <1>2, BitsOfNumber

\* What a burst does to the bytes of a payload.
LEMMA FlippedBytes ==
  ASSUME NEW p \in Seq(Octet), NEW at \in 1..Len(p), NEW e \in Bursts
  PROVE  /\ Flip(p, at, e) \in Seq(Octet) /\ Len(Flip(p, at, e)) = Len(p)
         /\ \A i \in 1..Len(p) :
              Xor(Bits(p[i]), Bits(Flip(p, at, e)[i])) = IF i < at THEN {} ELSE Wrong(e, i - at + 1)
<1>1. e \in Seq(Octets) /\ Len(e) \in 1..3
  BY BurstAssumption
<1>2. ASSUME NEW i \in 1..Len(p)
      PROVE  /\ Flip(p, at, e)[i] \in Octet
             /\ Xor(Bits(p[i]), Bits(Flip(p, at, e)[i]))
                  = IF i < at THEN {} ELSE Wrong(e, i - at + 1)
  <2>1. p[i] \in 0..255
    <3>1. p[i] \in Octet
      OBVIOUS
    <3> QED BY <3>1 DEF Octet
  <2>2. CASE i \in at..at + Len(e) - 1
    <3>1. i - at + 1 \in 1..Len(e) /\ ~(i < at) /\ i - at + 1 <= Len(e)
      BY <1>1, <2>2
    <3>2. e[i - at + 1] \in Octets
      BY <1>1, <3>1
    <3>3. Flip(p, at, e)[i] = Number(Xor(Bits(p[i]), e[i - at + 1]))
      BY <2>2 DEF Flip
    <3>4. Wrong(e, i - at + 1) = e[i - at + 1]
      BY <3>1 DEF Wrong
    <3>5. /\ Flip(p, at, e)[i] \in 0..255
          /\ Xor(Bits(p[i]), Bits(Flip(p, at, e)[i])) = e[i - at + 1]
      <4> DEFINE byte == p[i]
                 wrong == e[i - at + 1]
      <4>1. byte \in 0..255 /\ wrong \in Octets
        BY <2>1, <3>2
      <4> HIDE DEF byte, wrong
      <4>2. /\ Number(Xor(Bits(byte), wrong)) \in 0..255
            /\ Xor(Bits(byte), Bits(Number(Xor(Bits(byte), wrong)))) = wrong
        BY <4>1, HitByte
      <4> QED BY <3>3, <4>2 DEF byte, wrong
    <3> QED BY <3>1, <3>4, <3>5 DEF Octet
  <2>3. CASE i \notin at..at + Len(e) - 1
    <3>1. Flip(p, at, e)[i] = p[i]
      BY <2>3 DEF Flip
    <3>2. ~(i < at) => ~(i - at + 1 <= Len(e))
      BY <1>1, <2>3
    <3>3. Xor(Bits(p[i]), Bits(p[i])) = {}
      BY XorGroup
    <3> QED BY <3>1, <3>2, <3>3 DEF Wrong
  <2> QED BY <2>2, <2>3
<1>3. Flip(p, at, e) = [i \in 1..Len(p) |-> Flip(p, at, e)[i]]
  BY DEF Flip
<1>4. Flip(p, at, e) \in [1..Len(p) -> Octet]
  BY <1>2, <1>3
<1>5. Flip(p, at, e) \in Seq(Octet) /\ Len(Flip(p, at, e)) = Len(p)
  BY <1>4
<1> QED BY <1>2, <1>5

\* What the differences of the checksums come to.
LEMMA DifferenceOfBurst ==
  ASSUME NEW e \in Bursts
  PROVE  LET one == Shift8(Up(Wrong(e, 1)))
             two == Shift8(Xor(one, Up(Wrong(e, 2))))
         IN  /\ Wrong(e, 1) \in Octets /\ Wrong(e, 2) \in Octets /\ Wrong(e, 3) \in Octets
             /\ one # {} /\ two # {} /\ Shift8(Xor(two, Up(Wrong(e, 3)))) # {}
             /\ one \in Words /\ two \in Words
             /\ \A i \in Nat : i > 3 => Wrong(e, i) = {}
<1> DEFINE x1  == Wrong(e, 1)
           x2  == Wrong(e, 2)
           x3  == Wrong(e, 3)
           one == Shift8(Up(x1))
           two == Shift8(Xor(one, Up(x2)))
<1>1. /\ e \in Seq(Octets) /\ Len(e) \in 1..3 /\ e[1] # {}
      /\ Len(e) = 3 => e[1] \cap e[3] = {}
  BY BurstAssumption
<1>2. x1 \in Octets /\ x2 \in Octets /\ x3 \in Octets
  BY <1>1 DEF Wrong, Octets
<1>3. x1 # {} /\ x1 \cap x3 = {}
  BY <1>1 DEF Wrong
<1>4. \A i \in Nat : i > 3 => Wrong(e, i) = {}
  BY <1>1 DEF Wrong
<1>5. {} \in Octets /\ x1 \cap {} = {} /\ Up({}) = {} /\ Xor(two, {}) = two
  BY UpHighType, XorGroup DEF Octets
<1> HIDE DEF x1, x2, x3
<1>6. one \in Words /\ two \in Words /\ one # {} /\ Shift8(Xor(two, Up(x3))) # {}
  BY <1>2, <1>3, BurstShows
<1>7. two # {}
  <2>1. Shift8(Xor(two, Up({}))) # {}
    BY <1>2, <1>3, <1>5, BurstShows
  <2> QED BY <1>5, <1>6, <2>1, Shift8Linear
<1> QED BY <1>2, <1>4, <1>6, <1>7 DEF x1, x2, x3

-----------------------------------------------------------------------------
(* Every step preserves the invariant. *)

\* What encode() and decode() do with the packets of this specification.
LEMMA PacketsEncoded ==
  ASSUME NEW p \in Packets
  PROVE  /\ encode(p) = Written(p) /\ encode(p) \in Seq(Octet) /\ Len(encode(p)) \in 1..255
         /\ decode(encode(p)) = p /\ encode(p) # << >>
<1>1. WellFormed(p)
  BY PacketsAssumption
<1>2. /\ encode(p) = Written(p) /\ encode(p) \in Seq(Octet) /\ Len(encode(p)) \in 1..255
      /\ decode(encode(p)) = p
  BY <1>1, DecodeOfEncode
<1>3. encode(p) # << >>
  <2> SUFFICES ASSUME encode(p) = << >> PROVE FALSE
    OBVIOUS
  <2>1. Len(<< >>) = 0 /\ 0 \notin 1..255
    OBVIOUS
  <2> QED BY <1>2, <2>1
<1> QED BY <1>2, <1>3

\* The properties that follow from the invariant where the sums are compared.
LEMMA SumsTell == WireInv => BurstsAreCaught
<1> SUFFICES ASSUME WireInv, k = Len(payload), received # payload
             PROVE  receivedSum # checksum
  BY DEF BurstsAreCaught
<1>1. CASE received = payload /\ receivedSum = checksum
  BY <1>1
<1>2. CASE \E at \in 1..Len(payload), e \in Bursts :
             received = Flip(payload, at, e) /\ Syndrome(at, e)
  <2>1. PICK at \in 1..Len(payload), e \in Bursts : Syndrome(at, e)
    BY <1>2
  <2>2. k = at \/ k = at + 1 \/ k > at + 1
    BY <2>1
  <2>3. Xor(checksum, receivedSum) # {}
    BY <2>1, <2>2, DifferenceOfBurst DEF Syndrome
  <2> QED BY <2>3, XorGroup
<1> QED BY <1>1, <1>2 DEF WireInv, SyndromeOfBurst

\* Nothing is encoded, summed or published at first.
LEMMA InitWire == Init => WireInv
<1> SUFFICES ASSUME Init PROVE WireInv
  OBVIOUS
<1>1. << >> \in Seq(Octet) /\ Len(<< >>) = 0 /\ {} \in Words
  BY DEF Words
<1>2. WireTypeOK
  BY <1>1 DEF Init, WireTypeOK
<1>3. TableIsDivision /\ SyndromeOfBurst /\ RoundTrip
  BY DEF Init, TableIsDivision, SyndromeOfBurst, RoundTrip
<1> QED BY <1>2, <1>3 DEF WireInv

\* What encode() writes is a payload; a burst hits it before any byte is summed, when the
\* two checksums are alike.
LEMMA EncodeWire == WireInv /\ Encode => WireInv'
<1> SUFFICES ASSUME WireInv, Encode PROVE WireInv'
  OBVIOUS
<1>1. /\ packet \in Packets /\ payload = << >> /\ k = 0 /\ checksum = {} /\ receivedSum = {}
      /\ remainder \in Words /\ receivedRemainder \in Words
  BY DEF WireInv, WireTypeOK, Encode
<1>2. /\ payload' = encode(packet) /\ payload' \in Seq(Octet) /\ Len(payload') \in 1..255
      /\ received' \in Arrivals(payload')
      /\ UNCHANGED <<packet, k, checksum, receivedSum, remainder, receivedRemainder, decoded>>
  BY <1>1, PacketsEncoded DEF Encode, sumVars
<1>3. \/ received' = payload'
      \/ \E at \in 1..Len(payload'), e \in Bursts : received' = Flip(payload', at, e)
  BY <1>2 DEF Arrivals
<1>4. received' \in Seq(Octet) /\ Len(received') = Len(payload')
  BY <1>2, <1>3, FlippedBytes
<1>5. WireTypeOK'
  <2>1. payload' # << >>
    BY <1>1, <1>2, PacketsEncoded
  <2>2. 0 \in 0..Len(payload')
    BY <1>2
  <2>3. packet' \in Packets /\ payload' = encode(packet') /\ k' \in 0..Len(payload')
    BY <1>1, <1>2, <2>2
  <2>4. /\ checksum' \in Words /\ receivedSum' \in Words
        /\ remainder' \in Words /\ receivedRemainder' \in Words
    BY <1>1, <1>2 DEF Words
  <2> QED BY <1>2, <1>4, <2>1, <2>3, <2>4, Zenon DEF WireTypeOK
<1>6. TableIsDivision' /\ RoundTrip'
  BY <1>2 DEF WireInv, TableIsDivision, RoundTrip
<1>7. SyndromeOfBurst'
  <2>1. CASE received' = payload'
    BY <1>1, <1>2, <2>1 DEF SyndromeOfBurst
  <2>2. CASE \E at \in 1..Len(payload'), e \in Bursts : received' = Flip(payload', at, e)
    <3>1. PICK at \in 1..Len(payload'), e \in Bursts : received' = Flip(payload', at, e)
      BY <2>2
    <3>2. k' < at /\ k' # at /\ k' # at + 1 /\ ~(k' > at + 1)
      BY <1>1, <1>2, <3>1
    <3>3. Xor(checksum', receivedSum') = {}
      BY <1>1, <1>2, XorGroup
    <3>4. Syndrome(at, e)'
      BY <3>2, <3>3 DEF Syndrome
    <3> QED BY <3>1, <3>4 DEF SyndromeOfBurst
  <2> QED BY <1>3, <2>1, <2>2
<1> QED BY <1>5, <1>6, <1>7 DEF WireInv

\* One turn of both loops: each checksum takes one more byte, and their difference takes
\* the wrong bits of that byte, by DivideDifference.
LEMMA ByteWire == WireInv /\ Byte => WireInv'
<1> SUFFICES ASSUME WireInv, Byte PROVE WireInv'
  OBVIOUS
<1>1. /\ payload \in Seq(Octet) /\ received \in Seq(Octet) /\ Len(received) = Len(payload)
      /\ k \in 0..Len(payload) /\ k < Len(payload) /\ k' = k + 1
      /\ checksum \in Words /\ receivedSum \in Words
      /\ remainder = checksum /\ receivedRemainder = receivedSum
      /\ payload # << >>
  BY DEF WireInv, WireTypeOK, TableIsDivision, Byte
<1>2. k' \in 1..Len(payload) /\ payload[k'] \in 0..255 /\ received[k'] \in 0..255
  <2>1. k' \in 1..Len(payload)
    BY <1>1
  <2>2. payload[k'] \in Octet /\ received[k'] \in Octet
    BY <1>1, <2>1
  <2> QED BY <2>1, <2>2 DEF Octet
<1>3. /\ checksum' = Divide(checksum, payload[k']) /\ checksum' \in Words
      /\ receivedSum' = Divide(receivedSum, received[k']) /\ receivedSum' \in Words
      /\ remainder' = checksum' /\ receivedRemainder' = receivedSum'
      /\ UNCHANGED <<packet, payload, received, decoded>>
  BY <1>1, <1>2, StepIsDivision DEF Byte
<1>4. WireTypeOK'
  BY <1>1, <1>2, <1>3 DEF WireInv, WireTypeOK
<1>5. TableIsDivision' /\ RoundTrip'
  BY <1>3 DEF WireInv, TableIsDivision, RoundTrip
<1>6. SyndromeOfBurst'
  <2>1. CASE received = payload /\ receivedSum = checksum
    BY <1>3, <2>1 DEF SyndromeOfBurst
  <2>2. CASE \E at \in 1..Len(payload), e \in Bursts :
               received = Flip(payload, at, e) /\ Syndrome(at, e)
    <3>1. PICK at \in 1..Len(payload), e \in Bursts :
                 received = Flip(payload, at, e) /\ Syndrome(at, e)
      BY <2>2
    <3> DEFINE x     == Xor(Bits(payload[k']), Bits(received[k']))
               d     == Xor(checksum, receivedSum)
               one   == Shift8(Up(Wrong(e, 1)))
               two   == Shift8(Xor(one, Up(Wrong(e, 2))))
    <3>2. x = IF k' < at THEN {} ELSE Wrong(e, k' - at + 1)
      BY <1>1, <1>2, <3>1, FlippedBytes
    <3>3. Xor(checksum', receivedSum') = Shift8(Xor(d, Up(x)))
      <4> DEFINE b1 == payload[k']
                 b2 == received[k']
      <4>1. b1 \in 0..255 /\ b2 \in 0..255 /\ checksum \in Words /\ receivedSum \in Words
        BY <1>1, <1>2
      <4>2. x = Xor(Bits(b1), Bits(b2))
        OBVIOUS
      <4>3. Xor(checksum', receivedSum') = Xor(Divide(checksum, b1), Divide(receivedSum, b2))
        BY <1>3
      <4> HIDE DEF d, x, b1, b2
      <4>4. Xor(Divide(checksum, b1), Divide(receivedSum, b2))
              = Shift8(Xor(Xor(checksum, receivedSum), Up(Xor(Bits(b1), Bits(b2)))))
        BY <4>1, DivideDifference
      <4> QED BY <4>2, <4>3, <4>4 DEF d
    <3>4. /\ k < at => d = {}
          /\ k = at => d = one
          /\ k = at + 1 => d = two
          /\ k > at + 1 => d # {}
      BY <3>1 DEF Syndrome
    <3>5. /\ one # {} /\ two # {} /\ Shift8(Xor(two, Up(Wrong(e, 3)))) # {}
          /\ \A i \in Nat : i > 3 => Wrong(e, i) = {}
      BY DifferenceOfBurst
    <3>6. d \in Words /\ Up({}) = {} /\ Xor(d, {}) = d
      BY <1>1, XorType, XorGroup, UpHighType
    <3>7. Shift8({}) = {} /\ Xor({}, {}) = {} /\ \A w : Xor({}, w) = w
      BY XorGroup, Shift8Linear DEF Words
    <3> DEFINE d1 == Xor(checksum', receivedSum')
    <3> HIDE DEF x, d, d1
    <3>8. ASSUME k' < at PROVE d1 = {}
      <4>1. x = {} /\ d = {}
        BY <1>1, <3>2, <3>4, <3>8
      <4> QED BY <3>3, <3>6, <3>7, <4>1 DEF d1
    <3>9. ASSUME k' = at PROVE d1 = one
      <4>1. k < at /\ k' - at + 1 = 1 /\ ~(k' < at)
        BY <1>1, <3>9
      <4>2. x = Wrong(e, 1) /\ d = {}
        BY <3>2, <3>4, <4>1
      <4> QED BY <3>3, <3>7, <4>2 DEF d1
    <3>10. ASSUME k' = at + 1 PROVE d1 = two
      <4>1. k = at /\ k' - at + 1 = 2 /\ ~(k' < at)
        BY <1>1, <3>10
      <4>2. x = Wrong(e, 2) /\ d = one
        BY <3>2, <3>4, <4>1
      <4> QED BY <3>3, <4>2 DEF d1
    <3>11. ASSUME k' = at + 2 PROVE d1 # {}
      <4>1. k = at + 1 /\ k' - at + 1 = 3 /\ ~(k' < at)
        BY <1>1, <3>11
      <4>2. x = Wrong(e, 3) /\ d = two
        BY <3>2, <3>4, <4>1
      <4> QED BY <3>3, <3>5, <4>2 DEF d1
    <3>12. ASSUME k' > at + 2 PROVE d1 # {}
      <4>1. k > at + 1 /\ k' - at + 1 > 3 /\ k' - at + 1 \in Nat /\ ~(k' < at)
        BY <1>1, <3>12
      <4>2. x = {} /\ d # {}
        BY <3>2, <3>4, <3>5, <4>1
      <4>3. d1 = Shift8(d)
        BY <3>3, <3>6, <4>2 DEF d1
      <4> QED BY <3>6, <4>2, <4>3, Shift8Linear
    <3>13. k' > at + 1 => d1 # {}
      BY <1>1, <3>11, <3>12
    <3>14. Syndrome(at, e)'
      BY <3>8, <3>9, <3>10, <3>13 DEF Syndrome, d1
    <3> QED BY <1>3, <3>1, <3>14 DEF SyndromeOfBurst
  <2> QED BY <2>1, <2>2 DEF WireInv, SyndromeOfBurst
<1> QED BY <1>4, <1>5, <1>6 DEF WireInv

\* Where the sums agree no burst has hit, and decode() undoes encode().
LEMMA DecodeWire == WireInv /\ Decode => WireInv'
<1> SUFFICES ASSUME WireInv, Decode PROVE WireInv'
  OBVIOUS
<1>1. received = payload
  BY SumsTell DEF Decode, BurstsAreCaught
<1>2. decoded' = packet
  BY <1>1, PacketsEncoded DEF Decode, WireInv, WireTypeOK
<1>3. UNCHANGED <<packet, payload, received, k,
                  checksum, receivedSum, remainder, receivedRemainder>>
  BY DEF Decode, sumVars
<1>4. WireTypeOK' /\ TableIsDivision' /\ RoundTrip'
  BY <1>2, <1>3 DEF WireInv, WireTypeOK, TableIsDivision, RoundTrip
<1>5. SyndromeOfBurst'
  BY <1>3 DEF WireInv, SyndromeOfBurst, Syndrome
<1> QED BY <1>4, <1>5 DEF WireInv

\* The invariant holds in every state.
THEOREM WireInvariant == Spec => []WireInv
<1>1. WireInv /\ [Next]_vars => WireInv'
  <2> SUFFICES ASSUME WireInv, [Next]_vars PROVE WireInv'
    OBVIOUS
  <2>1. CASE Encode
    BY <2>1, EncodeWire
  <2>2. CASE Byte
    BY <2>2, ByteWire
  <2>3. CASE Decode
    BY <2>3, DecodeWire
  <2>4. CASE UNCHANGED vars
    BY <2>4 DEF vars, sumVars, WireInv, WireTypeOK, TableIsDivision, SyndromeOfBurst, Syndrome,
                RoundTrip
  <2> QED BY <2>1, <2>2, <2>3, <2>4 DEF Next
<1> QED BY <1>1, InitWire, PTL DEF Spec

-----------------------------------------------------------------------------
(* The properties. *)

\* TableIsDivision: the checksums calc_crc16 computes of the payload and of what arrives
\* are, after every byte, the remainders of the division bit by bit.
THEOREM TableAlwaysDivides == Spec => []TableIsDivision
<1>1. WireInv => TableIsDivision
  BY DEF WireInv
<1> QED BY <1>1, WireInvariant, PTL

\* SyndromeOfBurst: the two checksums differ by what the burst alone comes to.
THEOREM SyndromeAlways == Spec => []SyndromeOfBurst
<1>1. WireInv => SyndromeOfBurst
  BY DEF WireInv
<1> QED BY <1>1, WireInvariant, PTL

\* BurstsAreCaught: Receive never takes a payload hit by a burst for the one sent.
THEOREM BurstsAlwaysCaught == Spec => []BurstsAreCaught
BY SumsTell, WireInvariant, PTL

\* RoundTrip: what is published is the packet that was sent.
THEOREM RoundTripAlways == Spec => []RoundTrip
<1>1. WireInv => RoundTrip
  BY DEF WireInv
<1> QED BY <1>1, WireInvariant, PTL

\* The factory knows every kind, and asks for no more bytes than encode() allocates.
LEMMA KindsKnown ==
  ASSUME NEW kind \in Kind
  PROVE  \E e \in Library!fb_lookup :
           e.fb = FIRST_BYTE[kind] /\ e.size = IF kind = "Log" THEN 2 ELSE allocated[kind]
BY DEF Kind, FIRST_BYTE, allocated, Library!fb_lookup, Configurables, SensorValues

\* A log's text has a length.
LEMMA TextOfLog ==
  ASSUME NEW p, WellFormed(p), p.kind = "Log"
  PROVE  Len(p.value.what) \in 0..253
<1>1. writes["Log"] = <<"level", "what">>
  BY DEF writes
<1>2. "what" \in ToSet(writes["Log"])
  BY <1>1 DEF ToSet
<1> DEFINE text == p.value["what"]
<1>3. text \in Seq(0..255) /\ Len(text) <= 253
  BY <1>2 DEF WellFormed
<1>4. p.value.what = text
  OBVIOUS
<1> DEFINE n == Len(text)
<1>5. n \in Nat /\ n <= 253
  BY <1>3
<1> HIDE DEF n
<1>6. n \in 0..253
  BY <1>5
<1> QED BY <1>4, <1>6 DEF n

\* EncodeFits: encode() fills its payload exactly, in 255 bytes or less, and the factory
\* finds it long enough for its decode().
THEOREM EncodeAlwaysFits == Spec => []EncodeFits
<1>1. WireInv => EncodeFits
  <2> SUFFICES ASSUME WireInv, payload # << >>
               PROVE  /\ Len(Written(packet)) = Len(payload) /\ Len(payload) <= 255
                      /\ Library!Decodable(payload)
    BY DEF EncodeFits
  <2>1. packet \in Packets /\ payload = encode(packet) /\ WellFormed(packet)
    BY PacketsAssumption DEF WireInv, WireTypeOK
  <2>2. payload = Written(packet) /\ Len(payload) \in 1..255
    BY <2>1, PacketsEncoded
  <2>3. payload[1] = FIRST_BYTE[packet.kind] /\ Len(payload) = Allocated(packet)
    BY <2>1, <2>2, FieldsAreRead
  <2>4. packet.kind \in Kind
    BY <2>1 DEF WellFormed
  <2>5. PICK e \in Library!fb_lookup :
               /\ e.fb = FIRST_BYTE[packet.kind]
               /\ e.size = IF packet.kind = "Log" THEN 2 ELSE allocated[packet.kind]
    BY <2>4, KindsKnown
  <2>6. Allocated(packet) >= e.size
    <3>1. CASE packet.kind = "Log"
      BY <2>1, <2>5, <3>1, TextOfLog DEF Allocated, log_allocated
    <3>2. CASE packet.kind # "Log"
      <4>1. Allocated(packet) = allocated[packet.kind] /\ allocated[packet.kind] \in 1..49
        BY <2>4, <3>2, Layout DEF Allocated
      <4> DEFINE size == e.size
      <4>2. size = Allocated(packet) /\ size \in 1..49
        BY <2>5, <3>2, <4>1
      <4> HIDE DEF size
      <4>3. Allocated(packet) >= size
        BY <4>2
      <4> QED BY <4>3 DEF size
    <3> QED BY <3>1, <3>2
  <2>7. Library!Decodable(payload)
    BY <2>3, <2>5, <2>6 DEF Library!Decodable
  <2>8. Len(Written(packet)) = Len(payload) /\ Len(payload) <= 255
    <3> DEFINE n == Len(payload)
    <3>1. n \in 1..255
      BY <2>2
    <3> HIDE DEF n
    <3>2. n <= 255
      BY <3>1
    <3> QED BY <2>2, <3>2 DEF n
  <2> QED BY <2>7, <2>8
<1> QED BY <1>1, WireInvariant, PTL
=============================================================================
