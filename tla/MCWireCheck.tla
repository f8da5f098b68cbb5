------------------------------ MODULE MCWireCheck ------------------------------
(* Instance of WireCheck for TLC.                                               *)
EXTENDS WireCheck, CrcTable

\* n bytes, no two of neighbouring fields alike.
Bytes(first, n) == [i \in 1..n |-> (first + 7 * i) % 256]

\* Every value of the byte at the table's second use.
Versions == {Packet("FirmwareVersion", [major |-> <<b>>, minor |-> <<2>>, patch |-> <<1>>]) : b \in 0..255}

Numbered == {Packet(kind, [seq_number |-> Bytes(first, 4)]) :
               kind \in {"Handshake1", "Handshake2", "Shutdown1", "Shutdown2"}, first \in {0, 249}}

Others ==
  { Packet("GetFirmwareVersion", << >>),
    Packet("ResetMcu", [magic_number |-> <<170, 170, 170, 170>>]),
    Packet("Heartbeat", [rolling_counter |-> <<255>>, state |-> <<3>>]),
    Packet("Config", [configurables |-> Bytes(1, 48)]),
    Packet("StateTransition", [requested_state |-> <<4>>]),
    Packet("Control", [throttle |-> Bytes(1, 4), steering |-> Bytes(2, 4), brake |-> Bytes(3, 4)]),
    Packet("Sensor", [sensor_values |-> Bytes(1, 47)]) }

\* No text, one character, and the 253 that Packet_API.md allows.
Logs == {Packet("Log", [level |-> <<l>>, what |-> Bytes(l, n)]) : l \in {0, 3}, n \in {0, 1, 253}}

MCPackets == Versions \cup Numbered \cup Others \cup Logs

\* Single bits, whole bytes, and 16-bit bursts that straddle two or three bytes.
MCBursts == { <<{0}>>, <<{7}>>, <<0..7>>, <<{0}, {7}>>, <<0..7, 0..7>>, <<{4}, {0, 5}>>,
              <<0..3, 0..7, 4..7>>, <<{7}, {}, {0}>> }
=============================================================================
