----------------------------- MODULE WireCheck -----------------------------
(***************************************************************************)
(* One packet's way over the wire: encode, the checksum of RawGkcPacket's  *)
(* constructor, the line, the checksum Receive recomputes, decode.  The    *)
(* two calls of calc_crc16 go in lock step, one turn of the loop each, and *)
(* beside them the bit-serial division by x^16 + x^12 + x^5 + 1 that the   *)
(* table stands for.                                                       *)
(***************************************************************************)
EXTENDS GkcCrc16, GkcCodec

CONSTANTS
  Packets,   \* the packets sent
  Bursts,    \* error patterns: the wrong bits of each byte, from the first byte hit
  MaxHit     \* bound: payloads of this size or less are hit

Library == INSTANCE GkcPackets WITH Crc <- LAMBDA p : Wire(calc_crc16(p))

ASSUME PacketsAssumption == \A p \in Packets : WellFormed(p)

\* A burst begins with a wrong bit and is two bytes wide, or three with no bit wrong in
\* both the first and the third: every burst of at most 16 bits is such a one.
ASSUME BurstAssumption ==
  \A e \in Bursts : /\ e \in Seq(Octets) /\ Len(e) \in 1..3 /\ e[1] # {}
                    /\ Len(e) = 3 => e[1] \cap e[3] = {}

ASSUME MaxHitAssumption == MaxHit \in Nat

VARIABLES
  packet,
  payload,      \* << >> until it is encoded
  received,     \* the payload as it arrives
  k,            \* turns of the loop done
  checksum, receivedSum,
  remainder, receivedRemainder,   \* history: of the bit-serial division
  decoded       \* the packet published, or << >>

sumVars == <<checksum, receivedSum, remainder, receivedRemainder>>
vars == <<packet, payload, received, k, sumVars, decoded>>

Init ==
  /\ packet \in Packets
  /\ payload = << >> /\ received = << >> /\ decoded = << >>
  /\ k = 0 /\ checksum = {} /\ receivedSum = {} /\ remainder = {} /\ receivedRemainder = {}

Flip(p, at, e) == [i \in 1..Len(p) |-> IF i \in at..at + Len(e) - 1
                                       THEN Number(Xor(Bits(p[i]), e[i - at + 1])) ELSE p[i]]

\* The payload arrives intact, or with a burst of wrong bits.
Arrivals(p) ==
  {p} \cup (IF Len(p) > MaxHit THEN {}
            ELSE {Flip(p, at, e) : at \in 1..Len(p), e \in {b \in Bursts : Len(b) <= Len(p)}})

Encode ==
  /\ payload = << >>
  /\ payload' = encode(packet)
  /\ received' \in Arrivals(payload')
  /\ UNCHANGED <<packet, k, sumVars, decoded>>

Byte ==
  /\ k < Len(payload) /\ k' = k + 1
  /\ checksum' = Step(checksum, payload[k'])
  /\ receivedSum' = Step(receivedSum, received[k'])
  /\ remainder' = Divide(remainder, payload[k'])
  /\ receivedRemainder' = Divide(receivedRemainder, received[k'])
  /\ UNCHANGED <<packet, payload, received, decoded>>

Decode ==
  /\ payload # << >> /\ k = Len(payload) /\ decoded = << >>
  /\ receivedSum = checksum
  /\ decoded' = decode(received)
  /\ UNCHANGED <<packet, payload, received, k, sumVars>>

Next == Encode \/ Byte \/ Decode
Spec == Init /\ [][Next]_vars

-----------------------------------------------------------------------------
\* After every byte the table-driven checksum is the remainder of the bit-serial
\* division of the bytes so far: no entry of the table is wrong.
TableIsDivision == checksum = remainder /\ receivedSum = receivedRemainder

\* The checksum of what arrives differs from the sender's by what the burst alone comes
\* to, whatever the payload (calc_crc16 is linear): nothing before the burst at byte
\* at, the remainder of its first two bytes after them, and never nothing again.
Wrong(e, i) == IF i <= Len(e) THEN e[i] ELSE {}

Syndrome(at, e) ==
  LET difference == Xor(checksum, receivedSum)
      one        == Shift8(Up(Wrong(e, 1)))
      two        == Shift8(Xor(one, Up(Wrong(e, 2))))
  IN  /\ k < at => difference = {}
      /\ k = at => difference = one
      /\ k = at + 1 => difference = two
      /\ k > at + 1 => difference # {}

SyndromeOfBurst ==
  \/ received = payload /\ receivedSum = checksum
  \/ \E at \in 1..Len(payload), e \in Bursts : received = Flip(payload, at, e) /\ Syndrome(at, e)

\* A payload hit by a burst (of at most 16 bits, or wider) never has the checksum it
\* was sent with: Receive's comparison at its line 79 catches it.
BurstsAreCaught == k = Len(payload) /\ received # payload => receivedSum # checksum

\* encode() writes exactly the payload it has allocated, which its uint8_t size can
\* hold, and the factory finds it long enough for the decode() it is handed to.
EncodeFits == payload # << >> => /\ Len(Written(packet)) = Len(payload)
                                 /\ Len(payload) <= 255
                                 /\ Library!Decodable(payload)

\* What is published is the packet that was sent, field by field: the receiver finds
\* its kind under the first byte and reads each field where the sender wrote it.
RoundTrip == decoded # << >> => decoded = packet
=============================================================================
