----------------------------- MODULE GkcPackets -----------------------------
(***************************************************************************)
(* The wire format of tai_gokart_packet (gkc_packets.hpp/.cpp): a payload  *)
(* whose first byte names its kind, framed as                              *)
(*                                                                         *)
(*     START_BYTE, payload size, payload, checksum (2 bytes), END_BYTE     *)
(*                                                                         *)
(* The checksum function is a parameter: the theorems hold whatever it is, *)
(* the TLC runs give it the value of the source's CRC-16 (GkcCrc16.tla).   *)
(***************************************************************************)
EXTENDS Naturals, Sequences

CONSTANT Crc(_)     \* payload |-> <<low byte, high byte>> of calc_crc16

Byte       == 0..255
START_BYTE == 2
END_BYTE   == 3

MIN_PACKET_SIZE      == 6   \* GkcPacketFactory::Receive
NUM_NON_PAYLOAD_BYTE == 5

\* First byte of each kind of packet the factory can create, with the number of
\* payload bytes its decode() reads.
fb_lookup ==
  { [fb |-> 4,   size |-> 5],    \* Handshake1
    [fb |-> 5,   size |-> 5],    \* Handshake2
    [fb |-> 6,   size |-> 1],    \* GetFirmwareVersion
    [fb |-> 7,   size |-> 4],    \* FirmwareVersion
    [fb |-> 255, size |-> 5],    \* ResetMcu
    [fb |-> 170, size |-> 3],    \* Heartbeat
    [fb |-> 160, size |-> 49],   \* Config: twelve 4-byte Configurables
    [fb |-> 161, size |-> 2],    \* StateTransition
    [fb |-> 171, size |-> 13],   \* Control
    [fb |-> 172, size |-> 48],   \* Sensor: ten floats and seven flags
    [fb |-> 162, size |-> 5],    \* Shutdown1
    [fb |-> 163, size |-> 5],    \* Shutdown2
    [fb |-> 173, size |-> 2] }   \* Log: severity, then the text

\* The factory knows the payload's first byte and decode() stays inside it.
Decodable(p) == \E e \in fb_lookup : p[1] = e.fb /\ Len(p) >= e.size

\* RawGkcPacket(payload).encode(), for a payload whose size fits its uint8_t.
Frame(p) == <<START_BYTE, Len(p)>> \o p \o Crc(p) \o <<END_BYTE>>
=============================================================================
