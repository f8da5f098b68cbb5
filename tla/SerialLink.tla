----------------------------- MODULE SerialLink -----------------------------
(***************************************************************************)
(* The serial line between the PC and the MCU, as packets: in each         *)
(* direction the first-in first-out channel that PacketStream.tla shows    *)
(* the parser to implement on a clean line, and a line that may lose whole *)
(* packets, which is what noise does to it.  Logs, and the PC's heartbeats *)
(* and whatever has no effect on the state of either end, are left out.    *)
(***************************************************************************)
EXTENDS Naturals, Sequences

CONSTANTS
  SeqMod,       \* sequence numbers are uint32_t: they wrap around here
  MaxInFlight,  \* bound: packets in one direction before the senders that
                \* could fill the line on their own (the executor, telemetry) wait
  MaxLost       \* bound: packets lost

ASSUME LinkAssumption ==
  SeqMod \in Nat \ {0} /\ MaxInFlight \in Nat \ {0} /\ MaxLost \in Nat

\* GkcLifecycle
GkcLifecycle ==
  {"Uninitialized", "Initializing", "Inactive", "Active", "Shutdown", "Emergency"}

SeqNumber == 0..SeqMod - 1

Handshake1(n)      == [type |-> "Handshake1", seq_number |-> n]
Handshake2(n)      == [type |-> "Handshake2", seq_number |-> n]
GetFirmwareVersion == [type |-> "GetFirmwareVersion"]
FirmwareVersion(v) == [type |-> "FirmwareVersion", version |-> v]
Heartbeat(s)       == [type |-> "Heartbeat", state |-> s]
Config             == [type |-> "Config"]
Control            == [type |-> "Control"]
StateTransition(s) == [type |-> "StateTransition", requested_state |-> s]
Sensor             == [type |-> "Sensor"]
Shutdown1(n)       == [type |-> "Shutdown1", seq_number |-> n]
Shutdown2(n)       == [type |-> "Shutdown2", seq_number |-> n]

Versions == {"this", "other"}   \* the library's version, a version it does not talk to

PcPacket == {Handshake1(n) : n \in SeqNumber} \cup {Shutdown1(n) : n \in SeqNumber}
              \cup {StateTransition(s) : s \in GkcLifecycle}
              \cup {GetFirmwareVersion, Config, Control}
McuPacket == {Handshake2(n) : n \in SeqNumber} \cup {Shutdown2(n) : n \in SeqNumber}
              \cup {FirmwareVersion(v) : v \in Versions}
              \cup {Heartbeat(s) : s \in GkcLifecycle} \cup {Sensor}

VARIABLES toMcu, fromMcu, lost

linkVars == <<toMcu, fromMcu, lost>>

LinkInit == toMcu = << >> /\ fromMcu = << >> /\ lost = 0

LinkTypeOK == toMcu \in Seq(PcPacket) /\ fromMcu \in Seq(McuPacket) /\ lost \in 0..MaxLost

RoomToMcu   == Len(toMcu) < MaxInFlight
RoomFromMcu == Len(fromMcu) < MaxInFlight

\* Noise: the parser at the other end drops the packet.
LoseToMcu ==
  /\ lost < MaxLost /\ toMcu # << >>
  /\ toMcu' = Tail(toMcu) /\ lost' = lost + 1
  /\ UNCHANGED fromMcu

LoseFromMcu ==
  /\ lost < MaxLost /\ fromMcu # << >>
  /\ fromMcu' = Tail(fromMcu) /\ lost' = lost + 1
  /\ UNCHANGED toMcu

Lose == LoseToMcu \/ LoseFromMcu
=============================================================================
