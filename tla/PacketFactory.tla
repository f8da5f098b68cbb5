--------------------------- MODULE PacketFactory ---------------------------
(***************************************************************************)
(* GkcPacketFactory::Receive: the parser that cuts the packets out of the  *)
(* bytes the serial port hands over, a chunk at a time.  It runs in the    *)
(* receiving thread of SerialInterface.  A call appends its chunk to       *)
(* _buffer and then goes round the loop at look_for_next_start until it    *)
(* returns; each turn of that loop is one action here.  start_idx is the   *)
(* function's static local: it survives a return unless it is reset.       *)
(***************************************************************************)
EXTENDS GkcPackets, Integers

VARIABLES
  buffer,     \* _buffer
  start_idx,  \* the static local start_idx
  pc,         \* "idle": no call; "look": at look_for_next_start;
              \* "undefined": the call ran into undefined behaviour
  published   \* the payloads handed to the subscriber, in order

factoryVars == <<buffer, start_idx, pc, published>>

FactoryInit ==
  /\ buffer = << >>
  /\ start_idx = 0
  /\ pc = "idle"
  /\ published = << >>

-----------------------------------------------------------------------------
\* How many bytes stand before the first START_BYTE (all of them if none does).
SkipToStart(b) ==
  CHOOSE n \in 0..Len(b) : /\ \A i \in 1..n : b[i] # START_BYTE
                           /\ n < Len(b) => b[n + 1] = START_BYTE

\* start_idx after the scan.  The scan begins at the buffer's first byte but
\* counts on from the start_idx it finds.
Start == start_idx + SkipToStart(buffer)

PayloadSize == buffer[Start + 2]
FrameEnd    == Start + NUM_NON_PAYLOAD_BYTE + PayloadSize  \* index of its last byte
Payload     == SubSeq(buffer, Start + 3, Start + 2 + PayloadSize)
Checksum    == <<buffer[FrameEnd - 2], buffer[FrameEnd - 1]>>

HeadPresent == Len(buffer) > Start + 1
\* Mutant: the smallest packet is taken for an incomplete one.
EnoughOffByOne == HeadPresent /\ Len(buffer) - Start > MIN_PACKET_SIZE
Enough      == HeadPresent /\ Len(buffer) - Start >= MIN_PACKET_SIZE
\* Mutant: one byte more than the packet is waited for.
CompleteOffByOne == Enough /\ FrameEnd < Len(buffer)
Complete    == Enough /\ FrameEnd <= Len(buffer)
Delimited   == Complete /\ buffer[FrameEnd] = END_BYTE /\ PayloadSize >= 1
\* Mutant: the checksum is not compared.
IntactUnchecked == Delimited
Intact      == Delimited /\ Crc(Payload) = Checksum

\* _buffer.erase(begin, begin + n)
Erase(n) == buffer' = SubSeq(buffer, n + 1, Len(buffer))

-----------------------------------------------------------------------------
\* Mutant: the chunk replaces what was waiting in _buffer.
ReceiveForgets(chunk) ==
  /\ pc = "idle"
  /\ buffer' = chunk
  /\ pc' = "look"
  /\ UNCHANGED <<start_idx, published>>

Receive(chunk) ==
  /\ pc = "idle"
  /\ buffer' = buffer \o chunk
  /\ pc' = "look"
  /\ UNCHANGED <<start_idx, published>>

\* Mutant: the erase is not followed by the return.
NoStartLoops ==
  /\ pc = "look" /\ ~HeadPresent
  /\ buffer' = << >>
  /\ start_idx' = 0
  /\ UNCHANGED <<pc, published>>

\* "No packet start found. erase buffer."
NoStart ==
  /\ pc = "look" /\ ~HeadPresent
  /\ buffer' = << >>
  /\ start_idx' = 0
  /\ pc' = "idle"
  /\ UNCHANGED published

\* "Need more bytes to complete a packet. Wait for the next receive."
Wait ==
  /\ start_idx' = Start
  /\ pc' = "idle"
  /\ UNCHANGED <<buffer, published>>

AwaitHead == pc = "look" /\ HeadPresent /\ ~Enough /\ Wait
AwaitBody == pc = "look" /\ Enough /\ ~Complete /\ Wait

\* Mutant: only the misleading START_BYTE is cut out.
DropMalformedKeepsFront ==
  /\ pc = "look" /\ Complete /\ ~Delimited
  /\ buffer' = SubSeq(buffer, 1, Start) \o SubSeq(buffer, Start + 2, Len(buffer))
  /\ start_idx' = 0
  /\ UNCHANGED <<pc, published>>

DropMalformed ==
  /\ pc = "look" /\ Complete /\ ~Delimited
  /\ Erase(Start + 1)
  /\ start_idx' = 0
  /\ UNCHANGED <<pc, published>>

DropCorrupt ==
  /\ pc = "look" /\ Delimited /\ ~Intact
  /\ Erase(FrameEnd)
  /\ start_idx' = 0
  /\ UNCHANGED <<pc, published>>

\* Mutant: the packet is not erased.
DeliverKeeps ==
  /\ pc = "look" /\ Intact /\ Decodable(Payload)
  /\ published' = Append(published, Payload)
  /\ start_idx' = 0
  /\ UNCHANGED <<buffer, pc>>

\* Mutant: start_idx is moved back by the bytes erased instead of being reset.
DeliverRebases ==
  /\ pc = "look" /\ Intact /\ Decodable(Payload)
  /\ published' = Append(published, Payload)
  /\ start_idx' = Start - (NUM_NON_PAYLOAD_BYTE + PayloadSize)
  /\ Erase(NUM_NON_PAYLOAD_BYTE + PayloadSize)
  /\ UNCHANGED pc

\* start_idx is reset before the erase, which therefore takes as many bytes as
\* the frame has from the front of the buffer, wherever the frame stood.
Deliver ==
  /\ pc = "look" /\ Intact /\ Decodable(Payload)
  /\ published' = Append(published, Payload)
  /\ start_idx' = 0
  /\ Erase(NUM_NON_PAYLOAD_BYTE + PayloadSize)
  /\ UNCHANGED pc

\* The lookup of an unknown first byte dereferences end(); decoding too short a
\* payload reads past its end.
Undefined ==
  /\ pc = "look" /\ Intact /\ ~Decodable(Payload)
  /\ pc' = "undefined"
  /\ UNCHANGED <<buffer, start_idx, published>>

Look == NoStart \/ AwaitHead \/ AwaitBody \/ DropMalformed \/ DropCorrupt
          \/ Deliver \/ Undefined
=============================================================================
