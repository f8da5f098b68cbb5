------------------------------ MODULE GkcCodec ------------------------------
(***************************************************************************)
(* encode() and decode() of the packet classes (gkc_packets.hpp/.cpp): what *)
(* each allocates, what it writes and what it reads, in that order, behind *)
(* the first byte.  A field's value is the bytes of its object             *)
(* representation, which write_to_buffer and read_from_buffer copy as they *)
(* are: both ends are little-endian and their structs are packed.          *)
(***************************************************************************)
EXTENDS Naturals, SequencesExt

FIRST_BYTE ==
  [ Handshake1 |-> 4, Handshake2 |-> 5, GetFirmwareVersion |-> 6, FirmwareVersion |-> 7,
    ResetMcu |-> 255, Heartbeat |-> 170, Config |-> 160, StateTransition |-> 161,
    Control |-> 171, Sensor |-> 172, Shutdown1 |-> 162, Shutdown2 |-> 163, Log |-> 173 ]

Kind == DOMAIN FIRST_BYTE

Configurables == 12 * 4          \* nine floats, three uint32_t
SensorValues  == 10 * 4 + 7 * 1  \* ten floats, seven bools

\* sizeof each field; a log's text has no fixed one.
sizeof ==
  [ seq_number |-> 4, magic_number |-> 4, major |-> 1, minor |-> 1, patch |-> 1,
    rolling_counter |-> 1, state |-> 1, configurables |-> Configurables, requested_state |-> 1,
    throttle |-> 4, steering |-> 4, brake |-> 4, sensor_values |-> SensorValues, level |-> 1 ]

\* What encode() writes, each field behind the one before.
writes ==
  [ Handshake1 |-> <<"seq_number">>, Handshake2 |-> <<"seq_number">>,
    GetFirmwareVersion |-> << >>, FirmwareVersion |-> <<"major", "minor", "patch">>,
    ResetMcu |-> <<"magic_number">>, Heartbeat |-> <<"rolling_counter", "state">>,
    Config |-> <<"configurables">>, StateTransition |-> <<"requested_state">>,
    Control |-> <<"throttle", "steering", "brake">>, Sensor |-> <<"sensor_values">>,
    Shutdown1 |-> <<"seq_number">>, Shutdown2 |-> <<"seq_number">>, Log |-> <<"level", "what">> ]

\* Mutant: Control is read in the order Packet_API.md names its values in.
ReadsSteeringFirst == [writes EXCEPT !.Control = <<"steering", "throttle", "brake">>]

\* What decode() reads.
reads ==
  [ Handshake1 |-> <<"seq_number">>, Handshake2 |-> <<"seq_number">>,
    GetFirmwareVersion |-> << >>, FirmwareVersion |-> <<"major", "minor", "patch">>,
    ResetMcu |-> <<"magic_number">>, Heartbeat |-> <<"rolling_counter", "state">>,
    Config |-> <<"configurables">>, StateTransition |-> <<"requested_state">>,
    Control |-> <<"throttle", "steering", "brake">>, Sensor |-> <<"sensor_values">>,
    Shutdown1 |-> <<"seq_number">>, Shutdown2 |-> <<"seq_number">>, Log |-> <<"level", "what">> ]

\* The size of the payload encode() allocates, zeroed.
allocated ==
  [ Handshake1 |-> 5, Handshake2 |-> 5, GetFirmwareVersion |-> 1, FirmwareVersion |-> 4,
    ResetMcu |-> 5, Heartbeat |-> 3, Config |-> Configurables + 1, StateTransition |-> 2,
    Control |-> 13, Sensor |-> SensorValues + 1, Shutdown1 |-> 5, Shutdown2 |-> 5 ]

\* Mutant: room for the terminating zero of the c_str.
LogTerminated(what) == Len(what) + 1 + 1 + 1

log_allocated(what) == Len(what) + 1 + 1

-----------------------------------------------------------------------------
\* A packet: its kind, and a value for each field.
Packet(kind, value) == [kind |-> kind, value |-> value]

\* Each field's value has the field's size, and a log's text is as long as Packet_API.md
\* allows.
WellFormed(p) ==
  /\ p.kind \in Kind /\ p = Packet(p.kind, p.value)
  /\ p.value \in [ToSet(writes[p.kind]) -> Seq(0..255)]
  /\ \A field \in ToSet(writes[p.kind]) : IF field = "what" THEN Len(p.value[field]) <= 253
                                           ELSE Len(p.value[field]) = sizeof[field]

Allocated(p) == IF p.kind = "Log" THEN log_allocated(p.value.what) ELSE allocated[p.kind]

\* The i-th field written; no packet has more than three.
Field(p, i) == IF i <= Len(writes[p.kind]) THEN p.value[writes[p.kind][i]] ELSE << >>

Written(p) == <<FIRST_BYTE[p.kind]>> \o Field(p, 1) \o Field(p, 2) \o Field(p, 3)

\* What is written past the end is lost here (it is undefined in the code).
encode(p) == [i \in 1..Allocated(p) |-> IF i <= Len(Written(p)) THEN Written(p)[i] ELSE 0]

\* Where decode() finds the i-th field it reads, behind the first byte.
Before(kind, i) == 1 + (IF i > 1 THEN sizeof[reads[kind][1]] ELSE 0)
                     + (IF i > 2 THEN sizeof[reads[kind][2]] ELSE 0)

EndOfField(payload, kind, i) == IF reads[kind][i] = "what" THEN Len(payload)
                                ELSE Before(kind, i) + sizeof[reads[kind][i]]

ReadField(payload, kind, i) ==
  SubSeq(payload, Before(kind, i) + 1, EndOfField(payload, kind, i))

KindOf(payload) == CHOOSE kind \in Kind : FIRST_BYTE[kind] = payload[1]

\* The packet of the kind the factory finds under the first byte, with what its
\* decode() reads of the payload.
decode(payload) ==
  LET kind     == KindOf(payload)
      i(field) == CHOOSE n \in DOMAIN reads[kind] : reads[kind][n] = field
  IN  Packet(kind, [field \in ToSet(reads[kind]) |-> ReadField(payload, kind, i(field))])
=============================================================================
