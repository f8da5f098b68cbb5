-------------------------- MODULE GkcSystemProofs --------------------------
(***************************************************************************)
(* Theorems about GkcSystem, for every bound, every sequence of random     *)
(* numbers, every behaviour of the MCU and every set of requests.          *)
(***************************************************************************)
EXTENDS GkcSystem, SequenceTheorems, TLAPS

-----------------------------------------------------------------------------
(* The packets.                                                             *)

LEMMA PcTypes ==
  /\ \A n \in SeqNumber : Handshake1(n) \in PcPacket /\ Shutdown1(n) \in PcPacket
  /\ \A s \in GkcLifecycle : StateTransition(s) \in PcPacket
  /\ GetFirmwareVersion \in PcPacket /\ Config \in PcPacket /\ Control \in PcPacket
BY DEF PcPacket

LEMMA PcFields ==
  ASSUME NEW p \in PcPacket
  PROVE  /\ p.type \in {"Handshake1", "Shutdown1"} => p.seq_number \in SeqNumber
         /\ p.type = "StateTransition" => p.requested_state \in GkcLifecycle
BY DEF PcPacket, Handshake1, Shutdown1, StateTransition, GetFirmwareVersion, Config, Control

LEMMA McuTypes ==
  /\ \A n \in SeqNumber : /\ Handshake2(n) \in McuPacket /\ Handshake2(n).type # "Heartbeat"
                          /\ Shutdown2(n) \in McuPacket /\ Shutdown2(n).type # "Heartbeat"
  /\ \A v \in Versions : /\ FirmwareVersion(v) \in McuPacket
                         /\ FirmwareVersion(v).type # "Heartbeat"
  /\ \A s \in GkcLifecycle : Heartbeat(s) \in McuPacket /\ Heartbeat(s).state = s
  /\ Sensor \in McuPacket /\ Sensor.type # "Heartbeat"
BY DEF McuPacket, Handshake2, Shutdown2, FirmwareVersion, Heartbeat, Sensor

LEMMA McuFields ==
  ASSUME NEW p \in McuPacket, p.type = "Heartbeat"
  PROVE  p.state \in GkcLifecycle
BY DEF McuPacket, Handshake2, Shutdown2, FirmwareVersion, Heartbeat, Sensor

LEMMA SuccessorType ==
  ASSUME NEW n \in SeqNumber
  PROVE  (n + 1) % SeqMod \in SeqNumber /\ SeqMod - 1 - n \in SeqNumber
BY LinkAssumption DEF SeqNumber

\* The MCU's answers are packets, and none of them is a heartbeat.
LEMMA RepliesType ==
  ASSUME NEW p \in PcPacket
  PROVE  /\ Replies(p) \in Seq(McuPacket)
         /\ \A i \in 1..Len(Replies(p)) : Replies(p)[i].type # "Heartbeat"
<1>1. CASE p.type = "Handshake1"
  <2>1. Answer(p.seq_number) \in SeqNumber
    BY <1>1, PcFields, SuccessorType DEF Answer
  <2>2. Replies(p) = <<Handshake2(Answer(p.seq_number))>>
    BY <1>1 DEF Replies
  <2> QED BY <2>1, <2>2, McuTypes
<1>2. CASE p.type = "GetFirmwareVersion"
  <2>1. Replies(p) = <<FirmwareVersion(McuVersion)>>
    BY <1>2 DEF Replies
  <2> QED BY <2>1, McuTypes, McuAssumption
<1>3. CASE p.type = "Shutdown1"
  <2>1. (p.seq_number + 1) % SeqMod \in SeqNumber
    BY <1>3, PcFields, SuccessorType
  <2>2. Replies(p) = <<Shutdown2((p.seq_number + 1) % SeqMod)>>
    BY <1>3 DEF Replies
  <2> QED BY <2>1, <2>2, McuTypes
<1>4. CASE p.type \notin {"Handshake1", "GetFirmwareVersion", "Shutdown1"}
  BY <1>4 DEF Replies
<1> QED BY <1>1, <1>2, <1>3, <1>4

LEMMA AfterType ==
  ASSUME NEW p \in PcPacket, mcu_state \in GkcLifecycle
  PROVE  After(p) \subseteq GkcLifecycle
<1>1. CASE p.type = "Config"
  BY <1>1 DEF After, GkcLifecycle
<1>2. CASE p.type = "StateTransition"
  <2> DEFINE s == p.requested_state
  <2>1. After(p) = CASE s = "Active"   /\ mcu_state = "Inactive" -> {"Active"}
               [] s = "Inactive" /\ mcu_state = "Active"   -> {"Inactive", "Emergency"}
               [] s = "Shutdown" /\ mcu_state \in {"Inactive", "Active"} -> {"Emergency"}
               [] s = "Emergency" /\ mcu_state # "Uninitialized" -> {"Emergency"}
               [] OTHER -> {mcu_state}
    BY <1>2 DEF After
  <2> QED BY <2>1 DEF GkcLifecycle
<1>3. CASE p.type \notin {"Config", "StateTransition"}
  BY <1>3 DEF After
<1> QED BY <1>1, <1>2, <1>3

\* Queues of packets.
LEMMA QueueType ==
  ASSUME NEW S, NEW q \in Seq(S), NEW r \in Seq(S), NEW p \in S
  PROVE  /\ q \o r \in Seq(S) /\ q \o <<p>> \in Seq(S) /\ Append(q, p) \in Seq(S)
         /\ q # << >> => Head(q) \in S /\ Tail(q) \in Seq(S)
OBVIOUS

-----------------------------------------------------------------------------
(* What each kind of step leaves alone.                                     *)

LEMMA ExecutorKeeps ==
  ASSUME Executor
  PROVE  UNCHANGED <<alive, current_state, sensors, fromMcu, lost, typed>>
<1>1. CASE RoomToMcu /\ ConstructorEnds
  BY <1>1 DEF ConstructorEnds, send_handshake
<1>2. CASE OnConfigureThrows \/ OnConfigureBegins
  BY <1>2 DEF OnConfigureThrows, OnConfigureBegins, NothingSent, interfaceVars
<1>3. CASE OnConfigureInitialized \/ OnConfigurePoll \/ OnConfigureTimeout \/ OnError \/ OnErrorReturns
  BY <1>3 DEF OnConfigureInitialized, OnConfigurePoll, OnConfigureTimeout, OnError, OnErrorReturns,
     NothingSent, interfaceVars, Return, Continue
<1>4. CASE OnConfigureInitialize \/ OnErrorRequests
  BY <1>4 DEF OnConfigureInitialize, OnErrorRequests, initialize, try_emergency, Request,
     NothingSent, interfaceVars, Return, Continue
<1>5. CASE OnActivate \/ OnDeactivate
  BY <1>5 DEF OnActivate, OnDeactivate, Activate, Activated, try_activate, Request,
     NothingSent, interfaceVars, Return, ReturnIf, Continue
<1>6. CASE OnShutdown \/ OnShutdownReturns
  BY <1>6 DEF OnShutdown, OnShutdownReturns, try_shutdown, send_shutdown, Request,
     NothingSent, interfaceVars, Return, ReturnIf, Continue
<1> QED BY <1>1, <1>2, <1>3, <1>4, <1>5, <1>6 DEF Executor

LEMMA CallbackTakes ==
  ASSUME Callback
  PROVE  /\ alive /\ fromMcu # << >> /\ fromMcu' = Tail(fromMcu)
         /\ UNCHANGED <<alive, lost>>
         /\ \/ current_state' = current_state
            \/ Head(fromMcu).type = "Heartbeat" /\ current_state' = Head(fromMcu).state
<1>1. CASE Handshake2Retries \/ Shutdown2Retries
  BY <1>1 DEF Handshake2Retries, Shutdown2Retries, send_handshake, send_shutdown, Take, Taken
<1>2. CASE Handshake2Good \/ Shutdown2Good \/ FirmwareVersionNoted
  BY <1>2 DEF Handshake2Good, Shutdown2Good, FirmwareVersionNoted, Take, Taken, interfaceVars
<1>3. CASE HeartbeatSeen \/ SensorStored
  BY <1>3 DEF HeartbeatSeen, SensorStored, Take, Taken
<1> QED BY <1>1, <1>2, <1>3 DEF Callback

\* However a process ends, the same is left of it.
LEMMA EndsClean ==
  ASSUME \/ Releases \/ ThreadThrows \/ TimerFaults \/ Interrupt \/ EstopCommand
  PROVE  /\ alive' = FALSE /\ current_state' = "Uninitialized"
         /\ handshake_number' = NoNumber /\ shutdown_number' = NoNumber
         /\ sensors' = FALSE /\ draws' = 0
         /\ fromMcu' = << >> /\ UNCHANGED lost
         /\ node' = "unconfigured" /\ callback' = "none" /\ at' = "begin"
         /\ first_time' = TRUE /\ endpoints' = FALSE /\ UNCHANGED typed
         /\ toMcu' = toMcu \/ toMcu' = toMcu \o <<Control>>
<1>1. ASSUME Terminate /\ NodeGone, UNCHANGED toMcu \/ Transmit(<<Control>>)
      PROVE  /\ alive' = FALSE /\ current_state' = "Uninitialized"
             /\ handshake_number' = NoNumber /\ shutdown_number' = NoNumber
             /\ sensors' = FALSE /\ draws' = 0
             /\ fromMcu' = << >> /\ UNCHANGED lost
             /\ node' = "unconfigured" /\ callback' = "none" /\ at' = "begin"
             /\ first_time' = TRUE /\ endpoints' = FALSE /\ UNCHANGED typed
             /\ toMcu' = toMcu \/ toMcu' = toMcu \o <<Control>>
  BY <1>1 DEF Terminate, NodeGone, Blank, Transmit
<1>2. Terminate /\ NodeGone /\ (UNCHANGED toMcu \/ Transmit(<<Control>>))
  BY DEF Releases, OnConfigureInEmergency, OnCleanup, release_emergency_stop, ThreadThrows,
     CallbackThrows, Handshake2Throws, Shutdown2Throws, TimerFaults, Interrupt, EstopCommand, ProcessEnds
<1> QED BY <1>1, <1>2

-----------------------------------------------------------------------------
(* The types of what the driver sends and keeps.                            *)

LEMMA Drawn ==
  ASSUME InterfaceTypeOK
  PROVE  DrawnNumber \in SeqNumber /\ (draws + 1) % Len(Rand) \in 0..Len(Rand) - 1
<1>1. Rand \in Seq(SeqNumber) /\ Len(Rand) \in Nat \ {0}
  BY RandAssumption
<1>2. draws \in 0..Len(Rand) - 1
  BY DEF InterfaceTypeOK
<1>3. draws + 1 \in 1..Len(Rand)
  BY <1>1, <1>2
<1>4. Rand[draws + 1] \in SeqNumber
  BY <1>1, <1>3, ElementOfSeq
<1> QED BY <1>1, <1>2, <1>4 DEF DrawnNumber

LEMMA NumberSentType ==
  ASSUME LinkTypeOK, InterfaceTypeOK, send_handshake \/ send_shutdown
  PROVE  toMcu' \in Seq(PcPacket) /\ InterfaceTypeOK'
<1>1. DrawnNumber \in SeqNumber /\ draws' \in 0..Len(Rand) - 1
  BY Drawn DEF send_handshake, send_shutdown, Draw
<1>2. Handshake1(DrawnNumber) \in PcPacket /\ Shutdown1(DrawnNumber) \in PcPacket
  BY <1>1, PcTypes
<1>3. toMcu' \in Seq(PcPacket)
  BY <1>2, QueueType DEF send_handshake, send_shutdown, Transmit, LinkTypeOK
<1>4. CASE send_handshake
  BY <1>1, <1>3, <1>4 DEF send_handshake, InterfaceTypeOK
<1>5. CASE send_shutdown
  BY <1>1, <1>3, <1>5 DEF send_shutdown, InterfaceTypeOK
<1> QED BY <1>4, <1>5

LEMMA RequestSentType ==
  ASSUME LinkTypeOK, InterfaceTypeOK, NEW allowed, NEW p \in PcPacket, Request(allowed, p)
  PROVE  toMcu' \in Seq(PcPacket) /\ InterfaceTypeOK'
<1>1. toMcu' \in Seq(PcPacket)
  BY QueueType DEF Request, Transmit, LinkTypeOK
<1> QED BY <1>1 DEF Request, InterfaceTypeOK, interfaceVars

LEMMA RequestsType ==
  ASSUME LinkTypeOK, InterfaceTypeOK,
         initialize \/ try_activate \/ try_emergency \/ try_shutdown \/ NothingSent
  PROVE  toMcu' \in Seq(PcPacket) /\ InterfaceTypeOK'
<1>1. {"Active", "Emergency", "Shutdown"} \subseteq GkcLifecycle
  BY DEF GkcLifecycle
<1>2. CASE initialize
  BY <1>2, RequestSentType, PcTypes DEF initialize
<1>3. CASE try_activate
  BY <1>1, <1>3, RequestSentType, PcTypes DEF try_activate
<1>4. CASE try_emergency
  BY <1>1, <1>4, RequestSentType, PcTypes DEF try_emergency
<1>5. CASE try_shutdown
  BY <1>1, <1>5, RequestSentType, PcTypes DEF try_shutdown
<1>6. CASE NothingSent
  BY <1>6 DEF NothingSent, InterfaceTypeOK, LinkTypeOK, interfaceVars
<1> QED BY <1>2, <1>3, <1>4, <1>5, <1>6

\* Every step of the executor sends packets and keeps the interface's types.
LEMMA ExecutorSends ==
  ASSUME LinkTypeOK, InterfaceTypeOK, Executor
  PROVE  toMcu' \in Seq(PcPacket) /\ InterfaceTypeOK'
<1>1. \/ send_handshake \/ send_shutdown
      \/ initialize \/ try_activate \/ try_emergency \/ try_shutdown \/ NothingSent
  BY DEF Executor, ConstructorEnds, OnConfigureThrows, OnConfigureBegins, OnConfigureInitialized,
     OnConfigurePoll, OnConfigureTimeout, OnConfigureInitialize, OnActivate, OnDeactivate,
     Activate, Activated, OnShutdown, OnShutdownReturns, OnErrorRequests, OnError, OnErrorReturns
<1> QED BY <1>1, NumberSentType, RequestsType

-----------------------------------------------------------------------------
(* The lifecycle.                                                           *)

\* What is to be shown of the node after a step of the executor.
NodeInv == NodeTypeOK /\ AtKnownPlace /\ CallbackFitsNode /\ LifecycleFollowsVehicle

LEMMA NodeAfterIs ==
  ASSUME NEW r \in {"SUCCESS", "FAILURE"}
  PROVE  /\ NodeAfter("on_configure", r)  = IF r = "SUCCESS" THEN "inactive" ELSE "unconfigured"
         /\ NodeAfter("on_activate", r)   = IF r = "SUCCESS" THEN "active" ELSE "inactive"
         /\ NodeAfter("on_deactivate", r) = IF r = "SUCCESS" THEN "inactive" ELSE "active"
         /\ NodeAfter("on_error", r)      = IF r = "SUCCESS" THEN "unconfigured" ELSE "finalized"
         /\ NodeAfter("on_shutdown", r)   = "finalized"
BY DEF NodeAfter

LEMMA AcceptedWhere ==
  ASSUME NEW cb, Accepted(cb)
  PROVE  /\ cb = "on_activate" => node = "inactive"
         /\ cb = "on_deactivate" => node = "active"
BY DEF Accepted

\* A callback that goes on leaves the lifecycle state alone.
LEMMA ContinueKeeps ==
  ASSUME NodeInv, UNCHANGED seen, NEW where, Continue(where),
         \/ where = "request" /\ callback = "on_error"
         \/ where = "wait" /\ callback \in Callbacks \ {"on_cleanup"}
  PROVE  NodeInv'
BY DEF NodeInv, Continue, NodeTypeOK, AtKnownPlace, CallbackFitsNode, LifecycleFollowsVehicle

\* A callback that returns takes the node where the vehicle has been.
LEMMA ReturnKeeps ==
  ASSUME NodeInv, UNCHANGED seen, NEW r \in {"SUCCESS", "FAILURE"}, Return(r),
         callback \in Callbacks \ {"on_cleanup"},
         callback = "on_configure" /\ r = "SUCCESS" => "Inactive" \in seen,
         callback = "on_activate" /\ r = "SUCCESS" => "Active" \in seen
  PROVE  NodeInv'
<1>1. /\ node' = NodeAfter(callback, r) /\ callback' = "none" /\ at' = "begin"
      /\ UNCHANGED <<first_time, endpoints, typed>>
  BY DEF Return
<1>2. /\ node' \in {"unconfigured", "inactive", "active", "finalized"}
      /\ node' \in {"inactive", "active"} => "Inactive" \in seen
      /\ node' = "active" => "Active" \in seen
  BY <1>1, NodeAfterIs DEF NodeInv, CallbackFitsNode, LifecycleFollowsVehicle, Callbacks
<1> QED BY <1>1, <1>2 DEF NodeInv, NodeTypeOK, AtKnownPlace, CallbackFitsNode, LifecycleFollowsVehicle

LEMMA ExecutorNode ==
  ASSUME SystemInv, Executor, UNCHANGED seen
  PROVE  NodeInv' /\ alive
<1> NodeInv
  BY DEF SystemInv, TypeOK, NodeInv
<1>1. callback # "none"
  BY DEF Executor, ConstructorEnds, OnConfigureThrows, OnConfigureBegins, OnConfigureInitialized,
     OnConfigurePoll, OnConfigureTimeout, OnConfigureInitialize, OnActivate, OnDeactivate,
     Activate, Activated, OnShutdown, OnShutdownReturns, OnErrorRequests, OnError, OnErrorReturns, At
<1>2. alive /\ current_state \in seen \cup {"Uninitialized"}
  BY <1>1 DEF SystemInv, ProcessAndHistory, CachedStateIsReal
<1> SUFFICES NodeInv'
  BY <1>2
<1>3. CASE ConstructorEnds
  BY <1>3 DEF ConstructorEnds, Callbacks, NodeInv, NodeTypeOK, AtKnownPlace, CallbackFitsNode, LifecycleFollowsVehicle
<1>4. CASE OnConfigureThrows
  BY <1>4 DEF OnConfigureThrows, At, Callbacks, NodeInv, NodeTypeOK, AtKnownPlace,
     CallbackFitsNode, LifecycleFollowsVehicle
<1>5. CASE OnConfigureBegins
  BY <1>5 DEF OnConfigureBegins, At, NodeInv, NodeTypeOK, AtKnownPlace,
     CallbackFitsNode, LifecycleFollowsVehicle
<1>6. CASE OnConfigureInitialize \/ OnConfigureInitialized \/ OnConfigureTimeout
  <2>1. callback = "on_configure" /\ (Continue("wait") \/ Continue("poll") \/ Return("FAILURE"))
    BY <1>6 DEF OnConfigureInitialize, OnConfigureInitialized, OnConfigureTimeout, At
  <2>2. CASE Continue("wait")
    BY <2>1, <2>2, ContinueKeeps DEF Callbacks
  <2>3. CASE Continue("poll")
    BY <2>1, <2>3 DEF Continue, NodeInv, NodeTypeOK, AtKnownPlace, Callbacks,
       CallbackFitsNode, LifecycleFollowsVehicle
  <2>4. CASE Return("FAILURE")
    BY <2>1, <2>4, ReturnKeeps DEF Callbacks
  <2> QED BY <2>1, <2>2, <2>3, <2>4
<1>7. CASE OnConfigurePoll
  <2>1. "Inactive" \in seen
    BY <1>2, <1>7 DEF OnConfigurePoll
  <2> QED BY <1>7, <2>1, ReturnKeeps DEF OnConfigurePoll, At, Callbacks
<1>8. ASSUME NEW cb \in {"on_activate", "on_deactivate"}, Activate(cb)
      PROVE  NodeInv'
  BY <1>8, ContinueKeeps, ReturnKeeps DEF Activate, At, Callbacks
<1>9. ASSUME NEW cb \in {"on_activate", "on_deactivate"}, Activated(cb)
      PROVE  NodeInv'
  <2>1. CASE current_state = "Active"
    <3>1. "Active" \in seen
      BY <1>2, <2>1
    <3>2. Return("SUCCESS") /\ callback = cb
      BY <1>9, <2>1 DEF Activated, ReturnIf, At
    <3> QED BY <3>1, <3>2, ReturnKeeps DEF Callbacks
  <2>2. CASE current_state # "Active"
    <3>1. Return("FAILURE") /\ callback = cb
      BY <1>9, <2>2 DEF Activated, ReturnIf, At
    <3> QED BY <3>1, ReturnKeeps DEF Callbacks
  <2> QED BY <2>1, <2>2
<1>10. CASE OnShutdown
  BY <1>10, ContinueKeeps, ReturnKeeps DEF OnShutdown, At, Callbacks
<1>11. CASE OnShutdownReturns
  <2>1. callback = "on_shutdown" /\ (Return("SUCCESS") \/ Return("FAILURE"))
    BY <1>11 DEF OnShutdownReturns, ReturnIf, At
  <2> QED BY <2>1, ReturnKeeps DEF Callbacks
<1>12. CASE OnError \/ OnErrorRequests \/ OnErrorReturns
  BY <1>12, ContinueKeeps, ReturnKeeps DEF OnError, OnErrorRequests, OnErrorReturns, At, Callbacks
<1> QED BY <1>3, <1>4, <1>5, <1>6, <1>7, <1>8, <1>9, <1>10, <1>11, <1>12
        DEF Executor, OnActivate, OnDeactivate

-----------------------------------------------------------------------------
(* The receiving thread and the MCU.                                        *)

LEMMA CallbackSends ==
  ASSUME LinkTypeOK, InterfaceTypeOK, Callback
  PROVE  toMcu' \in Seq(PcPacket) /\ InterfaceTypeOK'
<1>1. CASE Handshake2Retries \/ Shutdown2Retries
  BY <1>1, NumberSentType DEF Handshake2Retries, Shutdown2Retries
<1>2. CASE Handshake2Good
  <2>1. toMcu' \in Seq(PcPacket)
    BY <1>2, PcTypes, QueueType DEF Handshake2Good, Transmit, LinkTypeOK
  <2> QED BY <1>2, <2>1 DEF Handshake2Good, InterfaceTypeOK, interfaceVars
<1>3. CASE FirmwareVersionNoted \/ Shutdown2Good
  BY <1>3 DEF FirmwareVersionNoted, Shutdown2Good, InterfaceTypeOK, LinkTypeOK, interfaceVars
<1>4. CASE HeartbeatSeen
  <2>1. Head(fromMcu) \in McuPacket /\ Head(fromMcu).type = "Heartbeat"
    BY <1>4, QueueType DEF HeartbeatSeen, Take, LinkTypeOK
  <2>2. current_state' \in GkcLifecycle
    BY <1>4, <2>1, McuFields DEF HeartbeatSeen
  <2> QED BY <1>4, <2>2 DEF HeartbeatSeen, InterfaceTypeOK, LinkTypeOK
<1>5. CASE SensorStored
  BY <1>5 DEF SensorStored, InterfaceTypeOK, LinkTypeOK
<1> QED BY <1>1, <1>2, <1>3, <1>4, <1>5 DEF Callback

\* What the MCU puts behind the packets under way: answers, or the heartbeat of
\* the state it is in.
McuSends(packets) ==
  /\ packets \in Seq(McuPacket)
  /\ \A i \in 1..Len(packets) : packets[i].type = "Heartbeat" => packets[i].state = mcu_state

LEMMA QueueStaysReal ==
  ASSUME NEW q \in Seq(McuPacket), NEW r \in Seq(McuPacket), NEW S, NEW T, S \subseteq T,
         \A i \in 1..Len(q) : q[i].type = "Heartbeat" => q[i].state \in S,
         \A i \in 1..Len(r) : r[i].type = "Heartbeat" => r[i].state \in T
  PROVE  \A i \in 1..Len(q \o r) : (q \o r)[i].type = "Heartbeat" => (q \o r)[i].state \in T
<1> SUFFICES ASSUME NEW i \in 1..Len(q \o r), (q \o r)[i].type = "Heartbeat"
             PROVE  (q \o r)[i].state \in T
  OBVIOUS
<1>1. Len(q) \in Nat /\ Len(r) \in Nat /\ Len(q \o r) = Len(q) + Len(r)
  BY LenProperties
<1>2. CASE i <= Len(q)
  <2>1. (q \o r)[i] = q[i] /\ i \in 1..Len(q)
    BY <1>1, <1>2
  <2> QED BY <2>1
<1>3. CASE i > Len(q)
  <2>1. (q \o r)[i] = r[i - Len(q)] /\ i - Len(q) \in 1..Len(r)
    BY <1>1, <1>3
  <2> QED BY <2>1
<1> QED BY <1>1, <1>2, <1>3

\* Every step of the MCU is typed, moves it within its states, and sends what it may.
LEMMA McuSteps ==
  ASSUME TypeOK,
         McuReceive(alive) \/ (alive /\ McuHeartbeat) \/ (alive /\ McuSensor) \/ McuInitialized
           \/ McuFault \/ SilenceStops \/ McuReset
  PROVE  /\ toMcu' \in Seq(PcPacket) /\ McuTypeOK' /\ UNCHANGED lost
         /\ \E packets : McuSends(packets) /\ fromMcu' = fromMcu \o packets
                        /\ (~alive => packets = << >>)
<1> mcu_state \in GkcLifecycle /\ resets \in 0..MaxResets /\ MaxResets \in Nat
    /\ toMcu \in Seq(PcPacket) /\ fromMcu \in Seq(McuPacket)
  BY McuAssumption DEF TypeOK, McuTypeOK, LinkTypeOK
<1> DEFINE Nothing == << >>
<1>1. McuSends(Nothing) /\ fromMcu = fromMcu \o Nothing
  BY DEF McuSends
<1>2. CASE McuReceive(alive)
  <2>1. Head(toMcu) \in PcPacket /\ toMcu' \in Seq(PcPacket)
    BY <1>2, QueueType DEF McuReceive
  <2>2. mcu_state' \in GkcLifecycle
    BY <1>2, <2>1, AfterType DEF McuReceive
  <2>3. McuSends(Replies(Head(toMcu)))
    BY <2>1, RepliesType DEF McuSends
  <2>4. /\ UNCHANGED <<lost, resets>>
        /\ fromMcu' = IF alive THEN fromMcu \o Replies(Head(toMcu)) ELSE fromMcu
    BY <1>2 DEF McuReceive
  <2>5. McuTypeOK'
    BY <2>2, <2>4 DEF McuTypeOK
  <2>6. CASE alive
    BY <2>1, <2>3, <2>4, <2>5, <2>6
  <2>7. CASE ~alive
    BY <1>1, <2>1, <2>4, <2>5, <2>7
  <2> QED BY <2>6, <2>7
<1>3. CASE alive /\ (McuHeartbeat \/ McuSensor)
  <2>1. PICK p \in {Heartbeat(mcu_state), Sensor} :
           fromMcu' = Append(fromMcu, p) /\ UNCHANGED <<toMcu, lost, mcu_state, resets>>
    BY <1>3 DEF McuHeartbeat, McuSensor, McuTelemetry, mcuVars
  <2>2. p \in McuPacket /\ (p.type = "Heartbeat" => p.state = mcu_state)
    BY <2>1, McuTypes
  <2>3. McuSends(<<p>>) /\ fromMcu' = fromMcu \o <<p>>
    BY <2>1, <2>2 DEF McuSends
  <2> QED BY <1>3, <2>1, <2>3 DEF McuTypeOK
<1>4. CASE McuInitialized \/ McuFault \/ SilenceStops
  <2>1. mcu_state' \in {"Inactive", "Emergency"} /\ UNCHANGED <<toMcu, fromMcu, lost, resets>>
    BY <1>4 DEF McuInitialized, McuFault, SilenceStops, McuChange, linkVars
  <2> QED BY <1>1, <2>1 DEF McuTypeOK, GkcLifecycle
<1>5. CASE McuReset
  <2>1. mcu_state' = "Uninitialized" /\ resets' \in 0..MaxResets /\ UNCHANGED <<toMcu, fromMcu, lost>>
    BY <1>5 DEF McuReset, linkVars
  <2> QED BY <1>1, <2>1 DEF McuTypeOK, GkcLifecycle
<1> QED BY <1>2, <1>3, <1>4, <1>5

-----------------------------------------------------------------------------
(* The invariant.                                                           *)

\* The first number drawn is there.
LEMMA FirstDraw == 0 \in 0..Len(Rand) - 1
<1>1. Rand \in Seq(SeqNumber) /\ Rand # << >>
  BY RandAssumption
<1>2. Len(Rand) \in Nat \ {0}
  BY <1>1
<1> QED BY <1>2

LEMMA SystemInit == Init => SystemInv
<1> SUFFICES ASSUME Init PROVE SystemInv
  OBVIOUS
<1>1. LinkTypeOK /\ McuTypeOK
  BY LinkAssumption, McuAssumption DEF Init, LinkInit, LinkTypeOK, McuInit, McuTypeOK
<1>2. InterfaceTypeOK
  BY FirstDraw DEF Init, InterfaceInit, InterfaceTypeOK, GkcLifecycle
<1>3. NodeTypeOK /\ AtKnownPlace
  BY DEF Init, NodeInit, NodeTypeOK, AtKnownPlace
<1>4. ProcessAndHistory /\ CallbackFitsNode /\ CachedStateIsReal /\ LifecycleFollowsVehicle
  BY DEF Init, LinkInit, InterfaceInit, NodeInit, ProcessAndHistory, CallbackFitsNode,
     CachedStateIsReal, LifecycleFollowsVehicle
<1>5. MaxLaunches \in Nat
  BY SystemAssumption
<1>6. launches \in 0..MaxLaunches
  BY <1>5 DEF Init
<1>7. seen \subseteq GkcLifecycle /\ estop \in BOOLEAN
  BY DEF Init
<1> QED BY <1>1, <1>2, <1>3, <1>4, <1>6, <1>7 DEF SystemInv, TypeOK

\* An old process is gone when the next one starts: nothing it was told is left.
LEMMA LaunchInv ==
  ASSUME SystemInv, Launch
  PROVE  SystemInv'
<1> USE DEF SystemInv, TypeOK
<1>1. ~alive /\ fromMcu = << >> /\ node = "unconfigured" /\ callback = "none"
  BY DEF Launch, Construct, OpenComm, ProcessAndHistory
<1>2. /\ alive' = TRUE /\ current_state' = "Uninitialized"
      /\ handshake_number' = NoNumber /\ shutdown_number' = NoNumber
      /\ sensors' = FALSE /\ draws' = 0 /\ callback' = "constructor"
      /\ UNCHANGED <<toMcu, fromMcu, lost, node, at, first_time, endpoints, typed, mcu_state, resets>>
      /\ seen' = {mcu_state} /\ estop' = FALSE
      /\ launches < MaxLaunches /\ launches' = launches + 1
  BY DEF Launch, Construct, OpenComm, Blank, linkVars, mcuVars
<1>3. LinkTypeOK' /\ McuTypeOK'
  BY <1>2 DEF LinkTypeOK, McuTypeOK
<1>4. InterfaceTypeOK'
  BY <1>2, FirstDraw DEF InterfaceTypeOK, GkcLifecycle
<1>5. NodeTypeOK' /\ AtKnownPlace'
  BY <1>1, <1>2 DEF NodeTypeOK, AtKnownPlace, Callbacks
<1>6. ProcessAndHistory' /\ CallbackFitsNode' /\ CachedStateIsReal' /\ LifecycleFollowsVehicle'
  BY <1>1, <1>2 DEF ProcessAndHistory, CallbackFitsNode, CachedStateIsReal, LifecycleFollowsVehicle
<1>7. launches \in 0..MaxLaunches /\ MaxLaunches \in Nat
  BY SystemAssumption
<1>8. launches' \in 0..MaxLaunches
  BY <1>2, <1>7
<1>9. seen' \subseteq GkcLifecycle
  BY <1>2 DEF McuTypeOK
<1>10. estop' \in BOOLEAN
  BY <1>2
<1> QED BY <1>3, <1>4, <1>5, <1>6, <1>8, <1>9, <1>10

LEMMA ExecuteInv ==
  ASSUME SystemInv, Execute
  PROVE  SystemInv'
<1> USE DEF SystemInv, TypeOK
<1>1. Executor /\ UNCHANGED <<mcu_state, resets, launches, seen, estop>>
  BY DEF Execute, Steps, mcuVars
<1>2. UNCHANGED <<alive, current_state, fromMcu, lost>>
  BY <1>1, ExecutorKeeps
<1>3. toMcu' \in Seq(PcPacket) /\ InterfaceTypeOK'
  BY <1>1, ExecutorSends
<1>4. NodeInv' /\ alive
  BY <1>1, ExecutorNode
<1>5. LinkTypeOK' /\ McuTypeOK'
  BY <1>1, <1>2, <1>3 DEF LinkTypeOK, McuTypeOK
<1>6. ProcessAndHistory' /\ CachedStateIsReal'
  BY <1>1, <1>2, <1>4 DEF ProcessAndHistory, CachedStateIsReal
<1>7. launches' \in 0..MaxLaunches /\ seen' \subseteq GkcLifecycle /\ estop' \in BOOLEAN
  BY <1>1
<1> QED BY <1>3, <1>4, <1>5, <1>6, <1>7 DEF NodeInv

LEMMA ReceiveInv ==
  ASSUME SystemInv, Receive
  PROVE  SystemInv'
<1> USE DEF SystemInv, TypeOK
<1>1. /\ Callback
      /\ UNCHANGED <<mcu_state, resets, launches, seen, estop>>
      /\ UNCHANGED <<node, callback, at, first_time, endpoints, typed>>
  BY DEF Receive, Steps, mcuVars, nodeVars
<1>2. toMcu' \in Seq(PcPacket) /\ InterfaceTypeOK'
  BY <1>1, CallbackSends
<1>3. /\ alive /\ fromMcu # << >> /\ fromMcu' = Tail(fromMcu)
      /\ UNCHANGED <<alive, lost>>
      /\ \/ current_state' = current_state
         \/ Head(fromMcu).type = "Heartbeat" /\ current_state' = Head(fromMcu).state
  BY <1>1, CallbackTakes
<1>4. LinkTypeOK' /\ McuTypeOK'
  BY <1>1, <1>2, <1>3, QueueType DEF LinkTypeOK, McuTypeOK
<1>5. NodeTypeOK' /\ AtKnownPlace' /\ CallbackFitsNode' /\ LifecycleFollowsVehicle'
  BY <1>1 DEF NodeTypeOK, AtKnownPlace, CallbackFitsNode, LifecycleFollowsVehicle
<1>6. CachedStateIsReal'
  <2>1. fromMcu \in Seq(McuPacket) /\ Head(fromMcu) = fromMcu[1] /\ 1 \in 1..Len(fromMcu)
    BY <1>3 DEF LinkTypeOK
  <2>2. current_state' \in seen' \cup {"Uninitialized"}
    BY <1>1, <1>3, <2>1 DEF CachedStateIsReal
  <2>3. ASSUME NEW i \in 1..Len(fromMcu')
        PROVE  fromMcu'[i] = fromMcu[i + 1] /\ i + 1 \in 1..Len(fromMcu)
    BY <1>3, <2>1
  <2> QED BY <1>1, <1>3, <2>2, <2>3 DEF CachedStateIsReal
<1>7. ProcessAndHistory'
  BY <1>1, <1>3 DEF ProcessAndHistory
<1>8. launches' \in 0..MaxLaunches /\ seen' \subseteq GkcLifecycle /\ estop' \in BOOLEAN
  BY <1>1
<1> QED BY <1>2, <1>4, <1>5, <1>6, <1>7, <1>8

LEMMA TransitionInv ==
  ASSUME SystemInv, Transition
  PROVE  SystemInv'
<1> USE DEF SystemInv, TypeOK
<1>1. PICK cb \in Requests : RequestTransition(cb)
  BY DEF Transition, Steps
<1>2. /\ alive /\ Accepted(cb) /\ callback' = cb /\ at' = "begin"
      /\ UNCHANGED <<linkVars, interfaceVars, node, first_time, endpoints, typed>>
      /\ UNCHANGED <<mcuVars, launches, seen, estop>>
  BY <1>1 DEF RequestTransition, Transition, Steps
<1>3. cb \in Callbacks
  BY SystemAssumption
<1>4. LinkTypeOK' /\ McuTypeOK' /\ InterfaceTypeOK'
  BY <1>2 DEF LinkTypeOK, McuTypeOK, InterfaceTypeOK, linkVars, mcuVars, interfaceVars
<1>5. NodeTypeOK' /\ AtKnownPlace' /\ LifecycleFollowsVehicle'
  BY <1>2, <1>3 DEF NodeTypeOK, AtKnownPlace, LifecycleFollowsVehicle
<1>6. CallbackFitsNode'
  BY <1>2, AcceptedWhere DEF CallbackFitsNode
<1>7. ProcessAndHistory' /\ CachedStateIsReal'
  BY <1>2 DEF ProcessAndHistory, CachedStateIsReal, linkVars, mcuVars, interfaceVars
<1>8. launches' \in 0..MaxLaunches /\ seen' \subseteq GkcLifecycle /\ estop' \in BOOLEAN
  BY <1>2
<1> QED BY <1>4, <1>5, <1>6, <1>7, <1>8

LEMMA DriveInv ==
  ASSUME SystemInv, Drive
  PROVE  SystemInv'
<1> USE DEF SystemInv, TypeOK
<1>1. /\ toMcu' = toMcu \o <<Control>>
      /\ UNCHANGED <<interfaceVars, fromMcu, lost, nodeVars, mcuVars, launches, seen, estop>>
  BY DEF Drive, Steps, Command, send_control, Transmit
<1>2. LinkTypeOK'
  BY <1>1, PcTypes, QueueType DEF LinkTypeOK
<1>3. McuTypeOK' /\ InterfaceTypeOK' /\ NodeTypeOK' /\ AtKnownPlace'
  BY <1>1 DEF McuTypeOK, InterfaceTypeOK, NodeTypeOK, AtKnownPlace, mcuVars, interfaceVars, nodeVars
<1>4. ProcessAndHistory' /\ CallbackFitsNode' /\ CachedStateIsReal' /\ LifecycleFollowsVehicle'
  BY <1>1 DEF ProcessAndHistory, CallbackFitsNode, CachedStateIsReal, LifecycleFollowsVehicle,
     mcuVars, interfaceVars, nodeVars
<1>5. launches' \in 0..MaxLaunches /\ seen' \subseteq GkcLifecycle /\ estop' \in BOOLEAN
  BY <1>1
<1> QED BY <1>2, <1>3, <1>4, <1>5

LEMMA NoiseInv ==
  ASSUME SystemInv, Noise
  PROVE  SystemInv'
<1> USE DEF SystemInv, TypeOK
<1>1. Lose /\ UNCHANGED <<interfaceVars, nodeVars, mcuVars, launches, seen, estop>>
  BY DEF Noise, Steps
<1>2. /\ lost < MaxLost /\ lost' = lost + 1
      /\ \/ toMcu # << >> /\ toMcu' = Tail(toMcu) /\ fromMcu' = fromMcu
         \/ fromMcu # << >> /\ fromMcu' = Tail(fromMcu) /\ toMcu' = toMcu
  BY <1>1 DEF Lose, LoseToMcu, LoseFromMcu
<1>3. LinkTypeOK'
  <2>1. lost' \in 0..MaxLost
    BY <1>2, LinkAssumption DEF LinkTypeOK
  <2>2. toMcu \in Seq(PcPacket) /\ fromMcu \in Seq(McuPacket)
    BY DEF LinkTypeOK
  <2>3. toMcu' \in Seq(PcPacket)
    BY <1>2, <2>2, QueueType
  <2>4. fromMcu' \in Seq(McuPacket)
    BY <1>2, <2>2, QueueType
  <2> QED BY <2>1, <2>3, <2>4 DEF LinkTypeOK
<1>4. McuTypeOK' /\ InterfaceTypeOK' /\ NodeTypeOK' /\ AtKnownPlace'
  BY <1>1 DEF McuTypeOK, InterfaceTypeOK, NodeTypeOK, AtKnownPlace, mcuVars, interfaceVars, nodeVars
<1>5. CallbackFitsNode' /\ LifecycleFollowsVehicle'
  BY <1>1 DEF CallbackFitsNode, LifecycleFollowsVehicle, nodeVars
<1>6. ProcessAndHistory'
  BY <1>1, <1>2 DEF ProcessAndHistory, mcuVars, interfaceVars, nodeVars
<1>7. CachedStateIsReal'
  <2>1. CASE fromMcu' = fromMcu
    BY <1>1, <2>1 DEF CachedStateIsReal, interfaceVars
  <2>2. CASE fromMcu # << >> /\ fromMcu' = Tail(fromMcu)
    <3>1. ASSUME NEW i \in 1..Len(fromMcu')
          PROVE  fromMcu'[i] = fromMcu[i + 1] /\ i + 1 \in 1..Len(fromMcu)
      BY <2>2 DEF LinkTypeOK
    <3> QED BY <1>1, <3>1 DEF CachedStateIsReal, interfaceVars
  <2> QED BY <1>2, <2>1, <2>2
<1>8. launches' \in 0..MaxLaunches /\ seen' \subseteq GkcLifecycle /\ estop' \in BOOLEAN
  BY <1>1
<1> QED BY <1>3, <1>4, <1>5, <1>6, <1>7, <1>8

\* The five ways a process ends.
LEMMA EndInv ==
  ASSUME SystemInv, Release \/ Throw \/ TimerTick \/ UserEnds \/ Estop
  PROVE  SystemInv'
<1> USE DEF SystemInv, TypeOK
<1>1. /\ Releases \/ ThreadThrows \/ TimerFaults \/ Interrupt \/ EstopCommand
      /\ UNCHANGED <<mcu_state, resets, launches, seen>> /\ estop' \in {estop, TRUE}
  BY DEF Release, Throw, TimerTick, UserEnds, Estop, Steps, mcuVars
<1>2. /\ alive' = FALSE /\ current_state' = "Uninitialized"
      /\ handshake_number' = NoNumber /\ shutdown_number' = NoNumber
      /\ sensors' = FALSE /\ draws' = 0
      /\ fromMcu' = << >> /\ UNCHANGED lost
      /\ node' = "unconfigured" /\ callback' = "none" /\ at' = "begin"
      /\ first_time' = TRUE /\ endpoints' = FALSE /\ UNCHANGED typed
      /\ toMcu' = toMcu \/ toMcu' = toMcu \o <<Control>>
  BY <1>1, EndsClean
<1>3. LinkTypeOK' /\ McuTypeOK'
  <2>1. toMcu' \in Seq(PcPacket)
    BY <1>2, PcTypes, QueueType DEF LinkTypeOK
  <2> QED BY <1>1, <1>2, <2>1 DEF LinkTypeOK, McuTypeOK
<1>4. InterfaceTypeOK'
  BY <1>2, FirstDraw DEF InterfaceTypeOK, GkcLifecycle
<1>5. NodeTypeOK' /\ AtKnownPlace'
  BY <1>2 DEF NodeTypeOK, AtKnownPlace
<1>6. ProcessAndHistory' /\ CallbackFitsNode' /\ CachedStateIsReal' /\ LifecycleFollowsVehicle'
  BY <1>1, <1>2 DEF ProcessAndHistory, CallbackFitsNode, CachedStateIsReal, LifecycleFollowsVehicle
<1>7. estop' \in BOOLEAN
  BY <1>1
<1>8. launches' \in 0..MaxLaunches /\ seen' \subseteq GkcLifecycle
  BY <1>1
<1> QED BY <1>3, <1>4, <1>5, <1>6, <1>7, <1>8

LEMMA McuInv ==
  ASSUME SystemInv, McuReads \/ McuBeats \/ McuSenses \/ McuStarts \/ McuStops \/ McuResets
  PROVE  SystemInv'
<1> USE DEF SystemInv, TypeOK
<1>1. /\ McuReceive(alive) \/ (alive /\ McuHeartbeat) \/ (alive /\ McuSensor) \/ McuInitialized
           \/ McuFault \/ SilenceStops \/ McuReset
      /\ seen' = IF alive THEN seen \cup {mcu_state'} ELSE seen
      /\ UNCHANGED <<interfaceVars, nodeVars, launches, estop>>
  BY DEF McuReads, McuBeats, McuSenses, McuStarts, McuStops, McuResets, Mcu
<1>2. PICK packets : McuSends(packets) /\ fromMcu' = fromMcu \o packets
                     /\ (~alive => packets = << >>)
  BY <1>1, McuSteps
<1>3. toMcu' \in Seq(PcPacket) /\ McuTypeOK' /\ UNCHANGED lost
  BY <1>1, McuSteps
<1>4. LinkTypeOK'
  BY <1>2, <1>3, QueueType DEF LinkTypeOK, McuSends
<1>5. InterfaceTypeOK' /\ NodeTypeOK' /\ AtKnownPlace' /\ CallbackFitsNode'
  BY <1>1 DEF InterfaceTypeOK, NodeTypeOK, AtKnownPlace, CallbackFitsNode, interfaceVars, nodeVars
<1>6. seen \subseteq seen' /\ seen' \subseteq GkcLifecycle
  BY <1>1, <1>3 DEF McuTypeOK
<1>7. LifecycleFollowsVehicle'
  BY <1>1, <1>6 DEF LifecycleFollowsVehicle, nodeVars
<1>8. ProcessAndHistory'
  BY <1>1, <1>2 DEF ProcessAndHistory, interfaceVars, nodeVars
<1>9. CachedStateIsReal'
  <2> SUFFICES ASSUME alive PROVE CachedStateIsReal'
    BY <1>1 DEF CachedStateIsReal, interfaceVars
  <2>1. mcu_state \in seen
    BY DEF ProcessAndHistory
  <2>2. \A i \in 1..Len(packets) : packets[i].type = "Heartbeat" => packets[i].state \in seen'
    BY <1>2, <1>6, <2>1 DEF McuSends
  <2>3. fromMcu \in Seq(McuPacket) /\ packets \in Seq(McuPacket)
    BY <1>2 DEF LinkTypeOK, McuSends
  <2>4. \A i \in 1..Len(fromMcu) : fromMcu[i].type = "Heartbeat" => fromMcu[i].state \in seen
    BY DEF CachedStateIsReal
  <2>5. \A i \in 1..Len(fromMcu') : fromMcu'[i].type = "Heartbeat" => fromMcu'[i].state \in seen'
    BY <1>2, <1>6, <2>2, <2>3, <2>4, QueueStaysReal
  <2> QED BY <1>1, <1>6, <2>5 DEF CachedStateIsReal, interfaceVars
<1>10. launches' \in 0..MaxLaunches /\ estop' \in BOOLEAN
  BY <1>1
<1> QED BY <1>3, <1>4, <1>5, <1>6, <1>7, <1>8, <1>9, <1>10

LEMMA SystemStep == SystemInv /\ [Next]_vars => SystemInv'
<1> SUFFICES ASSUME SystemInv, [Next]_vars PROVE SystemInv'
  OBVIOUS
<1>1. CASE Launch
  BY <1>1, LaunchInv
<1>2. CASE Execute
  BY <1>2, ExecuteInv
<1>3. CASE Receive
  BY <1>3, ReceiveInv
<1>4. CASE Transition
  BY <1>4, TransitionInv
<1>5. CASE Drive
  BY <1>5, DriveInv
<1>6. CASE Noise
  BY <1>6, NoiseInv
<1>7. CASE Release \/ Throw \/ TimerTick \/ UserEnds \/ Estop
  BY <1>7, EndInv
<1>8. CASE McuReads \/ McuBeats \/ McuSenses \/ McuStarts \/ McuStops \/ McuResets
  BY <1>8, McuInv
<1>9. CASE UNCHANGED vars
  BY <1>9 DEF vars, linkVars, interfaceVars, nodeVars, mcuVars, SystemInv, TypeOK, LinkTypeOK,
     InterfaceTypeOK, NodeTypeOK, McuTypeOK, AtKnownPlace, ProcessAndHistory, CallbackFitsNode,
     CachedStateIsReal, LifecycleFollowsVehicle
<1> QED BY <1>1, <1>2, <1>3, <1>4, <1>5, <1>6, <1>7, <1>8, <1>9 DEF Next

-----------------------------------------------------------------------------
\* The inductive invariant of the driver and the vehicle holds throughout.
THEOREM SystemInvariant == Spec => []SystemInv
<1>1. Init => SystemInv
  BY SystemInit
<1>2. SystemInv /\ [Next]_vars => SystemInv'
  BY SystemStep
<1> QED BY <1>1, <1>2, PTL DEF Spec

\* Every variable of the system holds what it may hold.
THEOREM SystemTypeCorrect == Spec => []TypeOK
<1>1. SystemInv => TypeOK
  BY DEF SystemInv
<1> QED BY <1>1, SystemInvariant, PTL

\* However many packets are lost and processes restarted, the cached state, which
\* every request is allowed or refused by, is one the MCU has been in.
THEOREM CachedStateReal == Spec => []CachedStateIsReal
<1>1. SystemInv => CachedStateIsReal
  BY DEF SystemInv
<1> QED BY <1>1, SystemInvariant, PTL

\* The node's lifecycle never claims what the vehicle has not done.
THEOREM LifecycleHonest == Spec => []LifecycleFollowsVehicle
<1>1. SystemInv => LifecycleFollowsVehicle
  BY DEF SystemInv
<1> QED BY <1>1, SystemInvariant, PTL
=============================================================================
