----------------------------- MODULE GkcSystem -----------------------------
(***************************************************************************)
(* The driver and the MCU together: the executor's thread and the          *)
(* receiving thread of the process (GkcNode, GkcInterface), the line, the  *)
(* firmware, and those who ask: the lifecycle manager, the publishers of   *)
(* commands, the user who starts and interrupts the process.               *)
(*                                                                         *)
(* The heartbeats the PC streams are not on the line of this model; what   *)
(* they do is that the MCU's watchdog stops a vehicle whose PC is silent   *)
(* (SilenceStops, which Heartbeats.tla and DeadMan.tla justify).  They     *)
(* come every 100 ms and the watchdog is configured to 100 ms, so McuFault *)
(* lets it fire on a running PC as well.                                   *)
(***************************************************************************)
EXTENDS GkcNode, GkcMcu

CONSTANTS
  Requests,     \* the lifecycle callbacks somebody asks for
  Commands,     \* the kinds of command published: "drive", "estop"
  SensorsFirst, \* whether sensor packets are on the line before the first timer tick
  MaxLaunches   \* bound: processes started

ASSUME SystemAssumption ==
  /\ Requests \subseteq Callbacks \ {"on_error"} /\ Commands \subseteq {"drive", "estop"}
  /\ SensorsFirst \in BOOLEAN /\ MaxLaunches \in Nat

VARIABLES
  launches,
  seen,    \* history: the states the MCU has been in since this process was started
  estop    \* history: a command of this process's time has asked for an emergency stop

vars == <<linkVars, interfaceVars, nodeVars, mcuVars, launches, seen, estop>>

Init ==
  /\ LinkInit /\ InterfaceInit /\ NodeInit /\ McuInit
  /\ launches = 0 /\ seen = {} /\ estop = FALSE

-----------------------------------------------------------------------------
Launch ==
  /\ launches < MaxLaunches
  /\ Construct
  /\ launches' = launches + 1 /\ seen' = {mcu_state} /\ estop' = FALSE
  /\ UNCHANGED mcuVars

Steps(action) == action /\ UNCHANGED <<mcuVars, launches, seen, estop>>

Execute == Steps(Executor)
Receive == Steps(UNCHANGED nodeVars /\ Callback)
Transition == Steps(\E cb \in Requests : RequestTransition(cb))
Drive   == "drive" \in Commands /\ Steps(Command)
Noise   == Steps(Lose /\ UNCHANGED <<interfaceVars, nodeVars>>)

\* The steps that end the process.
Release    == Steps(Releases)
Throw      == Steps(ThreadThrows)
TimerTick  == ~SensorsFirst /\ Steps(TimerFaults)
UserEnds   == launches < MaxLaunches /\ Steps(Interrupt)
Estop      == /\ "estop" \in Commands
              /\ EstopCommand
              /\ estop' = TRUE
              /\ UNCHANGED <<mcuVars, launches, seen>>

\* The MCU's steps, and what the history notes of them.
Mcu(action) ==
  /\ action
  /\ seen' = IF alive THEN seen \cup {mcu_state'} ELSE seen
  /\ UNCHANGED <<interfaceVars, nodeVars, launches, estop>>

SilenceStops == ~alive /\ mcu_state \in {"Inactive", "Active"} /\ McuChange("Emergency")

McuReads   == Mcu(McuReceive(alive))
McuBeats   == alive /\ Mcu(McuHeartbeat)
McuSenses  == alive /\ Mcu(McuSensor)
McuStarts  == Mcu(McuInitialized)
McuStops   == Mcu(McuFault \/ SilenceStops)
McuResets  == Mcu(McuReset)

Next ==
  \/ Launch \/ Execute \/ Receive \/ Transition \/ Drive \/ Noise
  \/ Release \/ Throw \/ TimerTick \/ UserEnds \/ Estop
  \/ McuReads \/ McuBeats \/ McuSenses \/ McuStarts \/ McuStops \/ McuResets

\* The executor and the receiving thread run; the MCU reads, initializes and
\* sends its heartbeats however many sensor packets it sends; its watchdog stops
\* a vehicle whose PC is silent.  Nobody has to ask for anything, the line need
\* not lose anything, and faults need not happen.
Fairness ==
  /\ WF_vars(Execute) /\ WF_vars(Receive) /\ WF_vars(Release)
  /\ WF_vars(McuReads) /\ WF_vars(McuStarts) /\ SF_vars(McuBeats)
  /\ WF_vars(Mcu(SilenceStops))

Spec == Init /\ [][Next]_vars /\ Fairness

-----------------------------------------------------------------------------
AtKnownPlace ==
  /\ at \in {"initialize", "poll"} => callback = "on_configure"
  /\ at = "request" => callback = "on_error"
  /\ at = "wait" => callback \in Callbacks \ {"on_cleanup"}

\* Every variable holds what it may hold: sequence numbers stay in their uint32_t,
\* and the executor is never in a callback at a place that callback does not have.
TypeOK ==
  /\ AtKnownPlace
  /\ LinkTypeOK /\ InterfaceTypeOK /\ NodeTypeOK /\ McuTypeOK
  /\ launches \in 0..MaxLaunches /\ seen \subseteq GkcLifecycle /\ estop \in BOOLEAN

\* What the interface believes of the MCU, and every heartbeat still on its way,
\* is a state the MCU has really been in since this process was started; before
\* the first heartbeat it believes Uninitialized, whatever is the case.
CachedStateIsReal ==
  alive => /\ current_state \in seen \cup {"Uninitialized"}
           /\ \A i \in 1..Len(fromMcu) :
                fromMcu[i].type = "Heartbeat" => fromMcu[i].state \in seen

\* A callback never reports a success the vehicle had no part in: a node that ROS
\* has in inactive saw the MCU initialized, one in active saw the vehicle alive.
LifecycleFollowsVehicle ==
  /\ node \in {"inactive", "active"} => "Inactive" \in seen
  /\ node = "active" => "Active" \in seen

\* A process that has ended has left nothing of itself behind, and while one runs
\* the history holds the state the MCU is in.
ProcessAndHistory ==
  /\ ~alive => fromMcu = << >> /\ node = "unconfigured" /\ callback = "none"
  /\ alive => mcu_state \in seen

\* ROS 2 runs these two callbacks in one state only, and leaves it while they run.
CallbackFitsNode ==
  /\ callback = "on_activate" => node = "inactive"
  /\ callback = "on_deactivate" => node = "active"

\* The inductive invariant: what LifecycleFollowsVehicle and CachedStateIsReal need
\* to be kept by every step.
SystemInv == /\ TypeOK /\ ProcessAndHistory /\ CallbackFitsNode
             /\ CachedStateIsReal /\ LifecycleFollowsVehicle

\* on_deactivate calls activate, and yet it never gets as far as asking a paused
\* vehicle to start: the cached state of an active node is never Inactive.
PauseNeverStarts == callback = "on_deactivate" => at = "begin" /\ current_state # "Inactive"

\* Which packets are on a line, and in which order.
OnLine(line, p) == \E i \in 1..Len(line) : line[i] = p
NoneBehind(line, p, q) == \A i, j \in 1..Len(line) : i < j /\ line[i] = p => line[j] # q

\* One process only: a configuration never comes to the MCU behind an activation, so
\* that a vehicle that has been started is never again Inactive but by a request for a
\* pause, which nobody makes; and no heartbeat of before the start is read after it.
PauseInv ==
  /\ launches = 0 => ~alive /\ toMcu = << >> /\ mcu_state # "Active"
  /\ ~OnLine(toMcu, StateTransition("Inactive"))
  /\ alive =>
       /\ callback \in {"on_configure", "on_error"} => node = "unconfigured"
       /\ OnLine(toMcu, StateTransition("Active")) \/ "Active" \in seen => node # "unconfigured"
       /\ NoneBehind(toMcu, StateTransition("Active"), Config)
       /\ "Active" \in seen => mcu_state \notin {"Initializing", "Inactive"} /\ ~OnLine(toMcu, Config)
       /\ NoneBehind(fromMcu, Heartbeat("Active"), Heartbeat("Inactive"))
       /\ current_state = "Active" \/ node = "active" => ~OnLine(fromMcu, Heartbeat("Inactive"))
       /\ node = "active" => current_state # "Inactive"

\* A vehicle that a process has started and that has stopped since, by a fault, a reset or
\* on request, is not started again by that process: no callback that is still allowed,
\* and no packet still on the line, takes it back to where it could be.
StartedOnce ==
  [][alive /\ mcu_state # "Active" /\ mcu_state' = "Active" => "Active" \notin seen]_vars

\* Every lifecycle callback returns, or the process ends.
CallbacksReturn == callback # "none" ~> callback = "none"

\* "shutdown transition will always eventually end in emergency stop state": once
\* asked to shut down, the vehicle is in Emergency.
ShutdownEndsInEmergency == At("on_shutdown", "wait") ~> mcu_state = "Emergency"

\* An emergency stop that on_error asks for reaches the vehicle.
EmergencyReached == At("on_error", "request") ~> mcu_state = "Emergency"

\* A command that asks for an emergency stop throws where nothing catches it and sends
\* no request: the vehicle is stopped all the same, by the silence that follows.
EstopStopsVehicle == estop /\ mcu_state \in {"Inactive", "Active"} ~> mcu_state = "Emergency"

-----------------------------------------------------------------------------
(* What a comment, a message or a document says, and the code does not do.   *)

\* "a 4-byte unsigned integer which is the bit-wise complement of the number in
\* handshake #1": with an MCU that answers as documented, every process's handshake
\* comes to its end, the request for the firmware's version, or the process ends.
HandshakeCompletes ==
  callback = "constructor" ~> ~alive \/ \E i \in 1..Len(toMcu) : toMcu[i] = GetFirmwareVersion

\* "Error raised in uninitialized state. Exiting.": on_error comes to an end.
OnErrorEnds == callback = "on_error" ~> callback = "none"

=============================================================================
