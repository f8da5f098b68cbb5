------------------------------- MODULE GkcMcu -------------------------------
(***************************************************************************)
(* The firmware at the other end of the line.  Its code is not in this     *)
(* repository: this is the state machine design/README.md of the driver    *)
(* says is assumed there, with the answers the driver's code expects.      *)
(***************************************************************************)
EXTENDS SerialLink

CONSTANTS
  McuAnswer,   \* how it answers Handshake #1: "increment", as the code expects,
               \* or "complement", as Packet_API.md says
  McuVersion,  \* the version of its packet library
  FaultStates, \* the states in which a watchdog or a fault stops it
  McuStart,    \* the states it may be in when the driver is first started
  MaxResets    \* bound: resets (power lost and back)

ASSUME McuAssumption ==
  /\ McuAnswer \in {"increment", "complement"} /\ McuVersion \in Versions
  /\ FaultStates \subseteq {"Inactive", "Active"} /\ McuStart \subseteq GkcLifecycle /\ MaxResets \in Nat

VARIABLES mcu_state, resets

mcuVars == <<mcu_state, resets>>

McuInit == mcu_state \in McuStart /\ resets = 0
McuTypeOK == mcu_state \in GkcLifecycle /\ resets \in 0..MaxResets

Answer(n) == IF McuAnswer = "increment" THEN (n + 1) % SeqMod ELSE SeqMod - 1 - n

\* The states a packet may take the MCU to.
After(packet) ==
  CASE packet.type = "Config" ->
         {IF mcu_state = "Uninitialized" THEN "Initializing" ELSE mcu_state}
    [] packet.type = "StateTransition" ->
         LET s == packet.requested_state
         IN  CASE s = "Active"   /\ mcu_state = "Inactive" -> {"Active"}
               [] s = "Inactive" /\ mcu_state = "Active"   -> {"Inactive", "Emergency"}
               [] s = "Shutdown" /\ mcu_state \in {"Inactive", "Active"} -> {"Emergency"}
               [] s = "Emergency" /\ mcu_state # "Uninitialized" -> {"Emergency"}
               [] OTHER -> {mcu_state}
    [] OTHER -> {mcu_state}

Replies(packet) ==
  CASE packet.type = "Handshake1"         -> <<Handshake2(Answer(packet.seq_number))>>
    [] packet.type = "GetFirmwareVersion" -> <<FirmwareVersion(McuVersion)>>
    [] packet.type = "Shutdown1"          -> <<Shutdown2((packet.seq_number + 1) % SeqMod)>>
    [] OTHER -> << >>

\* heard: whether there is a process at the other end of the line.
McuReceive(heard) ==
  /\ toMcu # << >>
  /\ toMcu' = Tail(toMcu)
  /\ mcu_state' \in After(Head(toMcu))
  /\ fromMcu' = IF heard THEN fromMcu \o Replies(Head(toMcu)) ELSE fromMcu
  /\ UNCHANGED <<lost, resets>>

McuChange(s) == mcu_state' = s /\ UNCHANGED <<linkVars, resets>>

McuInitialized == mcu_state = "Initializing" /\ (McuChange("Inactive") \/ McuChange("Emergency"))

McuFault == mcu_state \in FaultStates /\ McuChange("Emergency")

McuReset ==
  /\ resets < MaxResets
  /\ mcu_state' = "Uninitialized" /\ resets' = resets + 1
  /\ UNCHANGED linkVars

McuTelemetry(packet) ==
  /\ RoomFromMcu
  /\ fromMcu' = Append(fromMcu, packet)
  /\ UNCHANGED <<toMcu, lost, mcuVars>>

McuHeartbeat == McuTelemetry(Heartbeat(mcu_state))
McuSensor    == McuTelemetry(Sensor)
=============================================================================
