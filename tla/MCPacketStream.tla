--------------------------- MODULE MCPacketStream ---------------------------
(* Instances of PacketStream for TLC, with the source's CRC-16.  The payloads *)
(* are the smallest packet there is, a heartbeat whose state byte is          *)
(* START_BYTE, and a log whose text holds START_BYTE and END_BYTE.            *)
EXTENDS PacketStream, GkcCrc16, CrcTable

GetFirmware == <<6>>
Heartbeat   == <<170, 1, 2>>
LogText     == <<173, 3, 2, 3>>

CleanPayloads == {GetFirmware, Heartbeat, LogText}
OnePayload    == {Heartbeat}
NextHeartbeat == <<170, 4, 255>>
TwoPayloads   == {Heartbeat, NextHeartbeat}

SentPayloads  == CleanPayloads \cup {NextHeartbeat}

\* Evaluated once for the payloads sent, and again for any other segment.
SentCrc  == [p \in SentPayloads |-> Wire(calc_crc16(p))]
MCCrc(p) == IF p \in SentPayloads THEN SentCrc[p] ELSE Wire(calc_crc16(p))

F == <<2, 3>> \o Heartbeat \o SentCrc[Heartbeat] \o <<3>>

CutHead     == SubSeq(F, 1, 3)            \* the rest of a frame was lost
CutTail     == SubSeq(F, 5, 8)            \* the port was opened in mid-frame
BadByte     == [F EXCEPT ![4] = 9]
BadEnd      == [F EXCEPT ![8] = 0]
BadSize     == [F EXCEPT ![2] = 0]
BadStart    == [F EXCEPT ![1] = 7]
NewerPacket == <<2, 1, 8>> \o Wire(calc_crc16(<<8>>)) \o <<3>>   \* first byte not in fb_lookup

AllGarbage  == {CutHead, CutTail, BadByte, BadEnd, BadSize, BadStart, NewerPacket}
NoGarbage   == {}

\* The port is opened in mid-frame: what comes first is the tail of a frame.
Tails         == {SubSeq(F, i, 8) : i \in 2..8}
PlainTails    == {t \in Tails : \A i \in 1..Len(t) : t[i] # START_BYTE}
OnlyBadStart  == {BadStart}
=============================================================================
