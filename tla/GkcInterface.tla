---------------------------- MODULE GkcInterface ----------------------------
(***************************************************************************)
(* GkcInterface: what it keeps of the MCU, the requests the node's thread  *)
(* makes of it, and the callbacks the receiving thread runs, one packet at *)
(* a time.  comm_ is open for as long as the object exists, so the guards  *)
(* on comm_->is_open() never fail here.                                    *)
(***************************************************************************)
EXTENDS SerialLink

CONSTANTS
  NoNumber,  \* a null handshake_number or shutdown_number
  Rand       \* the numbers std::rand() returns; never seeded, they are the
             \* same in every process

ASSUME RandAssumption ==
  Rand \in Seq(SeqNumber) /\ Rand # << >> /\ NoNumber \notin SeqNumber

VARIABLES
  alive,            \* the process runs and the interface is constructed or being so
  current_state,    \* current_state_, from the last heartbeat
  handshake_number,
  shutdown_number,
  sensors,          \* whether sensors_ is set
  draws             \* position in Rand

interfaceVars == <<alive, current_state, handshake_number, shutdown_number, sensors, draws>>

InterfaceTypeOK ==
  /\ alive \in BOOLEAN
  /\ current_state \in GkcLifecycle
  /\ handshake_number \in SeqNumber \cup {NoNumber}
  /\ shutdown_number \in SeqNumber \cup {NoNumber}
  /\ sensors \in BOOLEAN
  /\ draws \in 0..Len(Rand) - 1

\* The members' initial values.
Blank(isAlive) ==
  /\ alive' = isAlive
  /\ current_state' = "Uninitialized"
  /\ handshake_number' = NoNumber /\ shutdown_number' = NoNumber
  /\ sensors' = FALSE
  /\ draws' = 0

InterfaceInit ==
  /\ alive = FALSE
  /\ current_state = "Uninitialized"
  /\ handshake_number = NoNumber /\ shutdown_number = NoNumber
  /\ sensors = FALSE
  /\ draws = 0

\* The constructor as far as comm_->open(), which starts the receiving thread.
OpenComm == ~alive /\ Blank(TRUE)

\* The end of the process: what had not been read is lost.
Terminate == /\ alive
             /\ Blank(FALSE)
             /\ fromMcu' = << >>
             /\ UNCHANGED lost

-----------------------------------------------------------------------------
Transmit(packets) == toMcu' = toMcu \o packets

DrawnNumber == Rand[draws + 1]
Draw == draws' = (draws + 1) % Len(Rand)

send_handshake ==
  /\ handshake_number' = DrawnNumber /\ Draw
  /\ Transmit(<<Handshake1(DrawnNumber)>>)
  /\ UNCHANGED <<alive, current_state, shutdown_number, sensors>>

\* Mutant: the expected answer is kept, and does not wrap around.
ShutdownKeepsAnswer ==
  /\ shutdown_number' = DrawnNumber + 1 /\ Draw
  /\ Transmit(<<Shutdown1(DrawnNumber)>>)
  /\ UNCHANGED <<alive, current_state, handshake_number, sensors>>

send_shutdown ==
  /\ shutdown_number' = DrawnNumber /\ Draw
  /\ Transmit(<<Shutdown1(DrawnNumber)>>)
  /\ UNCHANGED <<alive, current_state, handshake_number, sensors>>

\* A request the interface sends unless the cached state forbids it.  The call
\* then sleeps, and its result is read off current_state.
Request(allowed, packet) ==
  /\ current_state \in allowed
  /\ Transmit(<<packet>>)
  /\ UNCHANGED interfaceVars

initializable == {"Uninitialized"}
\* Mutant: activating an active vehicle is let through.
ActivatableWhenActive == {"Inactive", "Active"}
activatable   == {"Inactive"}
deactivatable == {"Active"}
stoppable     == GkcLifecycle \ {"Uninitialized"}
shutdownable  == {"Active", "Inactive"}

\* Mutant: the cached state is set to what was asked for.
ActivateOptimistic ==
  /\ current_state \in activatable
  /\ Transmit(<<StateTransition("Active")>>)
  /\ current_state' = "Active"
  /\ UNCHANGED <<alive, handshake_number, shutdown_number, sensors, draws>>
\* Mutants: the request is for a pause.
EmergencyPauses == Request(stoppable, StateTransition("Inactive"))
ShutdownPauses  == Request(shutdownable, StateTransition("Inactive"))

initialize        == Request(initializable, Config)
try_activate      == Request(activatable, StateTransition("Active"))
\* The node never calls deactivate: on_deactivate calls activate.
try_deactivate    == Request(deactivatable, StateTransition("Inactive"))
try_emergency     == Request(stoppable, StateTransition("Emergency"))
try_shutdown      == Request(shutdownable, StateTransition("Shutdown"))

send_control == Transmit(<<Control>>) /\ UNCHANGED interfaceVars

-----------------------------------------------------------------------------
\* The receiving thread takes the next packet.  A callback that throws ends the
\* process: nothing catches it in that thread.
Take(type) == alive /\ fromMcu # << >> /\ Head(fromMcu).type = type
Taken      == fromMcu' = Tail(fromMcu) /\ UNCHANGED lost
Expected(number) == (number + 1) % SeqMod = Head(fromMcu).seq_number

Handshake2Throws == Take("Handshake2") /\ handshake_number = NoNumber /\ Terminate /\ UNCHANGED toMcu

Handshake2Retries ==
  /\ Take("Handshake2") /\ handshake_number # NoNumber
  /\ ~Expected(handshake_number)
  /\ send_handshake
  /\ Taken

Handshake2Good ==
  /\ Take("Handshake2") /\ handshake_number # NoNumber
  /\ Expected(handshake_number)
  /\ Transmit(<<GetFirmwareVersion>>)
  /\ Taken
  /\ UNCHANGED interfaceVars

\* The exception for another major or minor version is constructed, not thrown.
FirmwareVersionNoted ==
  Take("FirmwareVersion") /\ Taken /\ UNCHANGED <<toMcu, interfaceVars>>

HeartbeatSeen ==
  /\ Take("Heartbeat") /\ Taken
  /\ current_state' = Head(fromMcu).state
  /\ UNCHANGED <<toMcu, alive, handshake_number, shutdown_number, sensors, draws>>

SensorStored ==
  /\ Take("Sensor") /\ Taken
  /\ sensors' = TRUE
  /\ UNCHANGED <<toMcu, alive, current_state, handshake_number, shutdown_number, draws>>

Shutdown2Throws == Take("Shutdown2") /\ shutdown_number = NoNumber /\ Terminate /\ UNCHANGED toMcu

\* Shutdown #2 is compared with the number of the handshake.
Shutdown2Retries ==
  /\ Take("Shutdown2") /\ shutdown_number # NoNumber
  /\ ~Expected(handshake_number)
  /\ send_shutdown
  /\ Taken

Shutdown2Good ==
  /\ Take("Shutdown2") /\ shutdown_number # NoNumber
  /\ Expected(handshake_number)
  /\ Taken
  /\ UNCHANGED <<toMcu, interfaceVars>>

\* What the receiving thread does, unless it throws.
Callback == \/ Handshake2Retries \/ Handshake2Good \/ FirmwareVersionNoted \/ HeartbeatSeen
            \/ SensorStored \/ Shutdown2Retries \/ Shutdown2Good
CallbackThrows == Handshake2Throws \/ Shutdown2Throws
=============================================================================
