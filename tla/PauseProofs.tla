----------------------------- MODULE PauseProofs -----------------------------
(***************************************************************************)
(* on_deactivate calls activate.  That it never starts a paused vehicle    *)
(* all the same, and that a vehicle that has stopped is not started a      *)
(* second time, for one process that finds a vehicle that is not alive.    *)
(***************************************************************************)
EXTENDS GkcSystemProofs

ActiveRequest   == StateTransition("Active")
InactiveRequest == StateTransition("Inactive")

-----------------------------------------------------------------------------
(* Lines.                                                                   *)

\* What a packet put at the end of a line changes.
LEMMA LineAppend ==
  ASSUME NEW S, NEW q \in Seq(S), NEW x \in S, NEW p, NEW r
  PROVE  /\ OnLine(q \o <<x>>, p) => OnLine(q, p) \/ x = p
         /\ NoneBehind(q, p, r) /\ (OnLine(q, p) => x # r) => NoneBehind(q \o <<x>>, p, r)
<1> DEFINE n == Len(q)
           l == q \o <<x>>
<1>1. /\ n \in Nat /\ Len(l) = n + 1 /\ l[n + 1] = x
      /\ \A i \in 1..n : l[i] = q[i]
  OBVIOUS
<1> HIDE DEF l, n
<1>2. \A i \in 1..Len(l) : i \in 1..n \/ i = n + 1
  BY <1>1
<1>3. OnLine(l, p) => OnLine(q, p) \/ x = p
  <2> SUFFICES ASSUME NEW i \in 1..Len(l), l[i] = p, x # p PROVE OnLine(q, p)
    BY DEF OnLine
  <2>1. i \in 1..n /\ q[i] = p
    BY <1>1, <1>2
  <2> QED BY <2>1 DEF OnLine, n
<1>4. ASSUME NoneBehind(q, p, r), OnLine(q, p) => x # r PROVE NoneBehind(l, p, r)
  <2> SUFFICES ASSUME NEW i \in 1..Len(l), NEW j \in 1..Len(l), i < j, l[i] = p PROVE l[j] # r
    BY DEF NoneBehind
  <2>1. i \in 1..n /\ q[i] = p
    BY <1>1, <1>2
  <2>2. CASE j \in 1..n
    <3>1. q[j] # r
      BY <1>4, <2>1, <2>2 DEF NoneBehind, n
    <3> QED BY <1>1, <2>2, <3>1
  <2>3. CASE j = n + 1
    <3>1. OnLine(q, p)
      BY <2>1 DEF OnLine, n
    <3> QED BY <1>1, <1>4, <2>3, <3>1
  <2> QED BY <1>2, <2>2, <2>3
<1> QED BY <1>3, <1>4 DEF l

\* What taking the first packet off a line changes.
LEMMA LineTail ==
  ASSUME NEW S, NEW q \in Seq(S), q # << >>, NEW p, NEW r
  PROVE  /\ OnLine(q, Head(q))
         /\ OnLine(Tail(q), p) => OnLine(q, p)
         /\ NoneBehind(q, p, r) => NoneBehind(Tail(q), p, r)
         /\ NoneBehind(q, p, r) /\ Head(q) = p => ~OnLine(Tail(q), r)
<1> DEFINE n == Len(q)
           t == Tail(q)
<1>1. /\ n \in Nat \ {0} /\ Len(t) = n - 1 /\ Head(q) = q[1]
      /\ \A i \in 1..Len(t) : t[i] = q[i + 1]
  OBVIOUS
<1> HIDE DEF t, n
<1>2. \A i \in 1..Len(t) : i + 1 \in 1..n /\ 1 < i + 1
  BY <1>1
<1>3. OnLine(q, Head(q))
  BY <1>1 DEF OnLine, n
<1>4. OnLine(t, p) => OnLine(q, p)
  BY <1>1, <1>2 DEF OnLine, n
<1>5. NoneBehind(q, p, r) => NoneBehind(t, p, r)
  <2> SUFFICES ASSUME NoneBehind(q, p, r), NEW i \in 1..Len(t), NEW j \in 1..Len(t), i < j, t[i] = p
               PROVE  t[j] # r
    BY DEF NoneBehind
  <2>1. i + 1 \in 1..n /\ j + 1 \in 1..n /\ i + 1 < j + 1 /\ q[i + 1] = p
    BY <1>1, <1>2
  <2>2. q[j + 1] # r
    BY <2>1 DEF NoneBehind, n
  <2> QED BY <1>1, <2>2
<1>6. ASSUME NoneBehind(q, p, r), Head(q) = p PROVE ~OnLine(t, r)
  <2> SUFFICES ASSUME NEW i \in 1..Len(t), t[i] = r PROVE FALSE
    BY DEF OnLine
  <2>1. 1 \in 1..n /\ i + 1 \in 1..n /\ 1 < i + 1 /\ q[1] = p /\ q[i + 1] = r
    BY <1>1, <1>2, <1>6
  <2> QED BY <1>6, <2>1 DEF NoneBehind, n
<1> QED BY <1>3, <1>4, <1>5, <1>6 DEF t

\* Nothing is on an empty line.
LEMMA LineEmpty ==
  ASSUME NEW p, NEW r
  PROVE  ~OnLine(<< >>, p) /\ NoneBehind(<< >>, p, r)
BY DEF OnLine, NoneBehind

\* A heartbeat on the line is one of a state the MCU has been in.
LEMMA HeartbeatOnLine ==
  ASSUME alive, CachedStateIsReal, NEW s \in GkcLifecycle, OnLine(fromMcu, Heartbeat(s))
  PROVE  s \in seen
BY DEF OnLine, CachedStateIsReal, Heartbeat

\* The packets that matter here, told apart.
Plain(p) == p \notin {Config, ActiveRequest, InactiveRequest}

LEMMA PacketsDiffer ==
  /\ Config # ActiveRequest /\ Config # InactiveRequest /\ ActiveRequest # InactiveRequest
  /\ Plain(Control) /\ Plain(GetFirmwareVersion)
  /\ \A n : Plain(Handshake1(n)) /\ Plain(Shutdown1(n))
  /\ Plain(StateTransition("Emergency")) /\ Plain(StateTransition("Shutdown"))
  /\ \A s : Heartbeat(s).type = "Heartbeat" /\ Heartbeat(s).state = s /\ Heartbeat(s) # Sensor
<1>1. /\ Config.type = "Config" /\ Control.type = "Control"
      /\ GetFirmwareVersion.type = "GetFirmwareVersion"
      /\ \A n : Handshake1(n).type = "Handshake1" /\ Shutdown1(n).type = "Shutdown1"
      /\ \A s : /\ StateTransition(s).type = "StateTransition"
                /\ StateTransition(s).requested_state = s
      /\ \A s : Heartbeat(s).type = "Heartbeat" /\ Heartbeat(s).state = s
      /\ Sensor.type = "Sensor"
  BY DEF Config, Control, GetFirmwareVersion, Handshake1, Shutdown1, StateTransition, Heartbeat, Sensor
<1> QED BY <1>1 DEF Plain, ActiveRequest, InactiveRequest

LEMMA PcPacketIs ==
  ASSUME NEW p \in PcPacket
  PROVE  /\ p.type = "Config" => p = Config
         /\ p.type = "StateTransition" =>
              p.requested_state \in GkcLifecycle /\ p = StateTransition(p.requested_state)
BY DEF PcPacket, Handshake1, Shutdown1, StateTransition, GetFirmwareVersion, Config, Control

LEMMA McuPacketIs ==
  ASSUME NEW p \in McuPacket, p.type = "Heartbeat"
  PROVE  p = Heartbeat(p.state)
BY DEF McuPacket, Handshake2, Shutdown2, FirmwareVersion, Heartbeat, Sensor

-----------------------------------------------------------------------------
(* What a step of the process may put on the line to the MCU.               *)

\* At most one packet: no request for a pause, a configuration only of an
\* unconfigured node, a request to start only of one that is configured.
MaySend(p) ==
  /\ p \in PcPacket /\ p # InactiveRequest
  /\ p = Config => node = "unconfigured"
  /\ p = ActiveRequest => node # "unconfigured"
  /\ toMcu' = toMcu \/ toMcu' = toMcu \o <<p>>

LEMMA PlainMaySend ==
  ASSUME NEW p \in PcPacket, Plain(p), toMcu' = toMcu \/ toMcu' = toMcu \o <<p>>
  PROVE  MaySend(p)
BY DEF Plain, MaySend

LEMMA NumberMaySend ==
  ASSUME InterfaceTypeOK, send_handshake \/ send_shutdown
  PROVE  \E p : MaySend(p)
<1>1. DrawnNumber \in SeqNumber
  BY Drawn
<1>2. /\ Handshake1(DrawnNumber) \in PcPacket /\ Plain(Handshake1(DrawnNumber))
      /\ Shutdown1(DrawnNumber) \in PcPacket /\ Plain(Shutdown1(DrawnNumber))
  BY <1>1, PcTypes, PacketsDiffer
<1>3. toMcu' = toMcu \o <<Handshake1(DrawnNumber)>> \/ toMcu' = toMcu \o <<Shutdown1(DrawnNumber)>>
  BY DEF send_handshake, send_shutdown, Transmit
<1> QED BY <1>2, <1>3, PlainMaySend

LEMMA RequestsMaySend ==
  ASSUME \/ try_emergency \/ try_shutdown \/ NothingSent
         \/ initialize /\ node = "unconfigured"
         \/ try_activate /\ node # "unconfigured"
  PROVE  \E p : MaySend(p)
<1>1. {"Active", "Emergency", "Shutdown"} \subseteq GkcLifecycle
  BY DEF GkcLifecycle
<1>2. /\ StateTransition("Emergency") \in PcPacket /\ StateTransition("Shutdown") \in PcPacket
      /\ ActiveRequest \in PcPacket /\ Config \in PcPacket /\ Control \in PcPacket
  BY <1>1, PcTypes DEF ActiveRequest
<1>3. CASE try_emergency
  BY <1>2, <1>3, PacketsDiffer, PlainMaySend DEF try_emergency, Request, Transmit
<1>4. CASE try_shutdown
  BY <1>2, <1>4, PacketsDiffer, PlainMaySend DEF try_shutdown, Request, Transmit
<1>5. CASE NothingSent
  BY <1>2, <1>5, PacketsDiffer, PlainMaySend DEF NothingSent
<1>6. CASE initialize /\ node = "unconfigured"
  <2>1. toMcu' = toMcu \o <<Config>>
    BY <1>6 DEF initialize, Request, Transmit
  <2>2. MaySend(Config)
    BY <1>2, <1>6, <2>1, PacketsDiffer DEF MaySend
  <2> QED BY <2>2
<1>7. CASE try_activate /\ node # "unconfigured"
  <2>1. toMcu' = toMcu \o <<ActiveRequest>>
    BY <1>7 DEF try_activate, Request, Transmit, ActiveRequest
  <2>2. MaySend(ActiveRequest)
    BY <1>2, <1>7, <2>1, PacketsDiffer DEF MaySend
  <2> QED BY <2>2
<1> QED BY <1>3, <1>4, <1>5, <1>6, <1>7

LEMMA ExecutorMaySend ==
  ASSUME SystemInv, PauseInv, alive, Executor
  PROVE  \E p : MaySend(p)
<1>1. /\ InterfaceTypeOK
      /\ callback = "on_configure" => node = "unconfigured"
      /\ callback \in {"on_activate", "on_deactivate"} => node # "unconfigured"
  BY DEF SystemInv, TypeOK, CallbackFitsNode, PauseInv
<1>2. \/ send_handshake \/ send_shutdown
      \/ try_emergency \/ try_shutdown \/ NothingSent
      \/ initialize /\ callback = "on_configure"
      \/ try_activate /\ callback \in {"on_activate", "on_deactivate"}
  BY DEF Executor, ConstructorEnds, OnConfigureThrows, OnConfigureBegins, OnConfigureInitialized,
     OnConfigurePoll, OnConfigureTimeout, OnConfigureInitialize, OnActivate, OnDeactivate,
     Activate, Activated, OnShutdown, OnShutdownReturns, OnErrorRequests, OnError, OnErrorReturns, At
<1> QED BY <1>1, <1>2, NumberMaySend, RequestsMaySend

LEMMA CallbackMaySend ==
  ASSUME InterfaceTypeOK, Callback
  PROVE  \E p : MaySend(p)
<1>1. CASE Handshake2Retries \/ Shutdown2Retries
  BY <1>1, NumberMaySend DEF Handshake2Retries, Shutdown2Retries
<1>2. CASE Handshake2Good
  <2>1. toMcu' = toMcu \o <<GetFirmwareVersion>>
    BY <1>2 DEF Handshake2Good, Transmit
  <2> QED BY <2>1, PcTypes, PacketsDiffer, PlainMaySend
<1>3. CASE FirmwareVersionNoted \/ HeartbeatSeen \/ SensorStored \/ Shutdown2Good
  <2>1. toMcu' = toMcu
    BY <1>3 DEF FirmwareVersionNoted, HeartbeatSeen, SensorStored, Shutdown2Good
  <2> QED BY <2>1, PcTypes, PacketsDiffer, PlainMaySend
<1> QED BY <1>1, <1>2, <1>3 DEF Callback

\* What such a packet makes of the line.
LEMMA SentOnLine ==
  ASSUME toMcu \in Seq(PcPacket), NEW p, MaySend(p)
  PROVE  /\ OnLine(toMcu', InactiveRequest) => OnLine(toMcu, InactiveRequest)
         /\ OnLine(toMcu', ActiveRequest) => OnLine(toMcu, ActiveRequest) \/ node # "unconfigured"
         /\ OnLine(toMcu', Config) => OnLine(toMcu, Config) \/ node = "unconfigured"
         /\ NoneBehind(toMcu, ActiveRequest, Config)
              /\ (OnLine(toMcu, ActiveRequest) => node # "unconfigured")
              => NoneBehind(toMcu', ActiveRequest, Config)
<1>1. CASE toMcu' = toMcu
  BY <1>1
<1>2. CASE toMcu' = toMcu \o <<p>>
  <2>1. p \in PcPacket
    BY DEF MaySend
  <2>2. \A q : OnLine(toMcu', q) => OnLine(toMcu, q) \/ p = q
    BY <1>2, <2>1, LineAppend
  <2>3. NoneBehind(toMcu, ActiveRequest, Config) /\ (OnLine(toMcu, ActiveRequest) => p # Config)
          => NoneBehind(toMcu', ActiveRequest, Config)
    BY <1>2, <2>1, LineAppend
  <2> QED BY <2>2, <2>3 DEF MaySend
<1> QED BY <1>1, <1>2 DEF MaySend

-----------------------------------------------------------------------------
(* The lifecycle of the node.                                               *)

\* The executor leaves unconfigured for good, gets to active only past an active
\* vehicle, and a deactivation is over with its first step.
LEMMA ExecutorLifecycle ==
  ASSUME SystemInv, PauseInv, PauseNeverStarts, alive, Executor
  PROVE  /\ node' = "unconfigured" => node = "unconfigured"
         /\ node' = "active" => node = "active" \/ current_state = "Active"
         /\ callback' \in {"on_configure", "on_error"} => node' = "unconfigured"
         /\ callback' # "on_deactivate"
<1>1. /\ callback \in {"on_configure", "on_error"} => node = "unconfigured"
      /\ callback = "on_activate" => node = "inactive"
      /\ callback = "on_deactivate" => node = "active" /\ at = "begin" /\ current_state # "Inactive"
  BY DEF SystemInv, CallbackFitsNode, PauseInv, PauseNeverStarts
<1>2. CASE ConstructorEnds
  BY <1>2 DEF ConstructorEnds
<1>3. CASE OnConfigureThrows \/ OnConfigureBegins
  BY <1>1, <1>3 DEF OnConfigureThrows, OnConfigureBegins, At
<1>4. CASE OnConfigureInitialize \/ OnConfigureInitialized \/ OnConfigurePoll \/ OnConfigureTimeout
  <2>1. /\ callback = "on_configure"
        /\ \/ UNCHANGED <<node, callback>>
           \/ (Return("SUCCESS") \/ Return("FAILURE"))
    BY <1>4 DEF OnConfigureInitialize, OnConfigureInitialized, OnConfigurePoll, OnConfigureTimeout,
       At, Continue
  <2> QED BY <1>1, <2>1, NodeAfterIs DEF Return
<1>5. CASE OnActivate
  <2>1. /\ callback = "on_activate"
        /\ \/ UNCHANGED <<node, callback>>
           \/ Return("FAILURE")
           \/ Return("SUCCESS") /\ current_state = "Active"
    BY <1>5 DEF OnActivate, Activate, Activated, ReturnIf, At, Continue
  <2> QED BY <1>1, <2>1, NodeAfterIs DEF Return
<1>6. CASE OnDeactivate
  <2>1. callback = "on_deactivate" /\ Return("FAILURE")
    BY <1>1, <1>6 DEF OnDeactivate, Activate, Activated, At, try_activate, Request, activatable
  <2> QED BY <1>1, <2>1, NodeAfterIs DEF Return
<1>7. CASE OnShutdown \/ OnShutdownReturns
  <2>1. /\ callback = "on_shutdown"
        /\ \/ UNCHANGED <<node, callback>>
           \/ (Return("SUCCESS") \/ Return("FAILURE"))
    BY <1>7 DEF OnShutdown, OnShutdownReturns, ReturnIf, At, Continue
  <2> QED BY <2>1, NodeAfterIs DEF Return
<1>8. CASE OnError \/ OnErrorRequests \/ OnErrorReturns
  <2>1. /\ callback = "on_error"
        /\ \/ UNCHANGED <<node, callback>>
           \/ (Return("SUCCESS") \/ Return("FAILURE"))
    BY <1>8 DEF OnError, OnErrorRequests, OnErrorReturns, At, Continue
  <2> QED BY <1>1, <2>1, NodeAfterIs DEF Return
<1> QED BY <1>2, <1>3, <1>4, <1>5, <1>6, <1>7, <1>8 DEF Executor

-----------------------------------------------------------------------------
(* The invariant, one step after the other.                                 *)

\* The inductive invariant.
PauseIInv == SystemInv /\ PauseInv /\ PauseNeverStarts

\* A line and what it holds after its first packet has gone.
LEMMA GoneFromLines ==
  ASSUME LinkTypeOK,
         \/ toMcu # << >> /\ toMcu' = Tail(toMcu) /\ fromMcu' = fromMcu
         \/ fromMcu # << >> /\ fromMcu' = Tail(fromMcu) /\ toMcu' = toMcu
  PROVE  /\ \A p : OnLine(toMcu', p) => OnLine(toMcu, p)
         /\ \A p, r : NoneBehind(toMcu, p, r) => NoneBehind(toMcu', p, r)
         /\ \A p : OnLine(fromMcu', p) => OnLine(fromMcu, p)
         /\ \A p, r : NoneBehind(fromMcu, p, r) => NoneBehind(fromMcu', p, r)
<1>1. toMcu \in Seq(PcPacket) /\ fromMcu \in Seq(McuPacket)
  BY DEF LinkTypeOK
<1>2. ASSUME toMcu # << >>, NEW p, NEW r
      PROVE  /\ OnLine(Tail(toMcu), p) => OnLine(toMcu, p)
             /\ NoneBehind(toMcu, p, r) => NoneBehind(Tail(toMcu), p, r)
  BY <1>1, <1>2, LineTail
<1>3. ASSUME fromMcu # << >>, NEW p, NEW r
      PROVE  /\ OnLine(Tail(fromMcu), p) => OnLine(fromMcu, p)
             /\ NoneBehind(fromMcu, p, r) => NoneBehind(Tail(fromMcu), p, r)
  BY <1>1, <1>3, LineTail
<1> QED BY <1>2, <1>3

LEMMA LaunchPause ==
  ASSUME PauseIInv, MaxLaunches <= 1, Launch
  PROVE  PauseInv' /\ PauseNeverStarts'
<1>1. ~alive /\ fromMcu = << >> /\ node = "unconfigured" /\ launches = 0
  BY SystemAssumption DEF PauseIInv, SystemInv, TypeOK, ProcessAndHistory, Launch, Construct, OpenComm
<1>2. toMcu = << >> /\ mcu_state # "Active"
  BY <1>1 DEF PauseIInv, PauseInv
<1>3. /\ launches' = 1 /\ seen' = {mcu_state} /\ current_state' = "Uninitialized"
      /\ callback' = "constructor"
      /\ UNCHANGED <<toMcu, fromMcu, node, mcu_state>>
  BY <1>1 DEF Launch, Construct, OpenComm, Blank, linkVars, mcuVars
<1>4. \A p, r : ~OnLine(<< >>, p) /\ NoneBehind(<< >>, p, r)
  BY LineEmpty
<1> QED BY <1>1, <1>2, <1>3, <1>4 DEF PauseInv, PauseNeverStarts

LEMMA ExecutePause ==
  ASSUME PauseIInv, Execute
  PROVE  PauseInv' /\ PauseNeverStarts'
<1> USE DEF PauseIInv
<1>1. Executor /\ UNCHANGED <<mcu_state, launches, seen>>
  BY DEF Execute, Steps, mcuVars
<1>2. UNCHANGED <<alive, current_state, fromMcu>> /\ alive /\ toMcu \in Seq(PcPacket)
  BY <1>1, ExecutorKeeps, ExecutorNode DEF SystemInv, TypeOK, LinkTypeOK
<1>3. PICK p : MaySend(p)
  BY <1>1, <1>2, ExecutorMaySend
<1>4. /\ OnLine(toMcu, ActiveRequest) \/ "Active" \in seen => node # "unconfigured"
      /\ NoneBehind(toMcu, ActiveRequest, Config)
      /\ ~OnLine(toMcu, InactiveRequest)
  BY <1>2 DEF PauseInv, ActiveRequest, InactiveRequest
<1>5. /\ ~OnLine(toMcu', InactiveRequest)
      /\ OnLine(toMcu', ActiveRequest) => OnLine(toMcu, ActiveRequest) \/ node # "unconfigured"
      /\ OnLine(toMcu', Config) => OnLine(toMcu, Config) \/ node = "unconfigured"
      /\ NoneBehind(toMcu', ActiveRequest, Config)
  BY <1>2, <1>3, <1>4, SentOnLine
<1>6. /\ node' = "unconfigured" => node = "unconfigured"
      /\ node' = "active" => node = "active" \/ current_state = "Active"
      /\ callback' \in {"on_configure", "on_error"} => node' = "unconfigured"
      /\ callback' # "on_deactivate"
  BY <1>1, <1>2, ExecutorLifecycle
<1> QED BY <1>1, <1>2, <1>4, <1>5, <1>6 DEF PauseInv, PauseNeverStarts, ActiveRequest, InactiveRequest

LEMMA ReceivePause ==
  ASSUME PauseIInv, Receive
  PROVE  PauseInv' /\ PauseNeverStarts'
<1> USE DEF PauseIInv
<1>1. Callback /\ UNCHANGED <<mcu_state, launches, seen, node, callback, at>>
  BY DEF Receive, Steps, mcuVars, nodeVars
<1>2. /\ alive /\ alive' /\ fromMcu # << >> /\ fromMcu' = Tail(fromMcu)
      /\ \/ current_state' = current_state
         \/ Head(fromMcu).type = "Heartbeat" /\ current_state' = Head(fromMcu).state
  BY <1>1, CallbackTakes
<1>3. toMcu \in Seq(PcPacket) /\ fromMcu \in Seq(McuPacket) /\ InterfaceTypeOK
  BY DEF SystemInv, TypeOK, LinkTypeOK
<1>4. PICK p : MaySend(p)
  BY <1>1, <1>3, CallbackMaySend
<1>5. /\ OnLine(toMcu, ActiveRequest) \/ "Active" \in seen => node # "unconfigured"
      /\ NoneBehind(toMcu, ActiveRequest, Config)
      /\ ~OnLine(toMcu, InactiveRequest)
  BY <1>2 DEF PauseInv, ActiveRequest, InactiveRequest
<1>6. /\ ~OnLine(toMcu', InactiveRequest)
      /\ OnLine(toMcu', ActiveRequest) => OnLine(toMcu, ActiveRequest) \/ node # "unconfigured"
      /\ OnLine(toMcu', Config) => OnLine(toMcu, Config) \/ node = "unconfigured"
      /\ NoneBehind(toMcu', ActiveRequest, Config)
  BY <1>3, <1>4, <1>5, SentOnLine
<1>7. \A s : Head(fromMcu) = Heartbeat(s) => OnLine(fromMcu, Heartbeat(s))
  BY <1>2, <1>3, LineTail
<1>8. /\ \A s : OnLine(fromMcu', Heartbeat(s)) => OnLine(fromMcu, Heartbeat(s))
      /\ NoneBehind(fromMcu', Heartbeat("Active"), Heartbeat("Inactive"))
      /\ Head(fromMcu) = Heartbeat("Active") => ~OnLine(fromMcu', Heartbeat("Inactive"))
  BY <1>2, <1>3, LineTail DEF PauseInv
<1>9. current_state' = current_state \/ Head(fromMcu) = Heartbeat(current_state')
  <2>1. Head(fromMcu) \in McuPacket
    BY <1>2, <1>3, QueueType
  <2> QED BY <1>2, <2>1, McuPacketIs
<1>10. /\ current_state' = "Active" \/ node' = "active" => ~OnLine(fromMcu', Heartbeat("Inactive"))
       /\ node' = "active" => current_state' # "Inactive"
  BY <1>1, <1>2, <1>7, <1>8, <1>9 DEF PauseInv
<1>11. PauseNeverStarts'
  BY <1>1, <1>10 DEF PauseNeverStarts, SystemInv, CallbackFitsNode
<1> QED BY <1>1, <1>2, <1>5, <1>6, <1>8, <1>10, <1>11 DEF PauseInv, ActiveRequest, InactiveRequest

LEMMA TransitionPause ==
  ASSUME PauseIInv, Transition
  PROVE  PauseInv' /\ PauseNeverStarts'
<1> USE DEF PauseIInv
<1>1. PICK cb \in Requests : RequestTransition(cb)
  BY DEF Transition, Steps
<1>2. /\ alive /\ Accepted(cb) /\ callback' = cb /\ at' = "begin"
      /\ UNCHANGED <<toMcu, fromMcu, alive, current_state, node, mcu_state, launches, seen>>
  BY <1>1 DEF RequestTransition, Transition, Steps, linkVars, interfaceVars, mcuVars
<1>3. cb # "on_error" /\ (cb = "on_configure" => node = "unconfigured")
  BY <1>2, SystemAssumption DEF Accepted
<1>4. cb = "on_deactivate" => node = "active"
  BY <1>2, AcceptedWhere
<1> QED BY <1>2, <1>3, <1>4 DEF PauseInv, PauseNeverStarts

LEMMA DrivePause ==
  ASSUME PauseIInv, Drive
  PROVE  PauseInv' /\ PauseNeverStarts'
<1> USE DEF PauseIInv
<1>1. /\ alive /\ toMcu' = toMcu \o <<Control>>
      /\ UNCHANGED <<fromMcu, alive, current_state, node, callback, at, mcu_state, launches, seen>>
  BY DEF Drive, Steps, Command, send_control, Transmit, interfaceVars, nodeVars, mcuVars
<1>2. MaySend(Control) /\ toMcu \in Seq(PcPacket)
  BY <1>1, PcTypes, PacketsDiffer, PlainMaySend DEF SystemInv, TypeOK, LinkTypeOK
<1>3. /\ \A p : OnLine(toMcu', p) => OnLine(toMcu, p) \/ Control = p
      /\ NoneBehind(toMcu, ActiveRequest, Config) => NoneBehind(toMcu', ActiveRequest, Config)
  BY <1>1, <1>2, LineAppend, PcTypes, PacketsDiffer DEF Plain
<1> QED BY <1>1, <1>3, PacketsDiffer DEF PauseInv, PauseNeverStarts, ActiveRequest, InactiveRequest, Plain

LEMMA NoisePause ==
  ASSUME PauseIInv, Noise
  PROVE  PauseInv' /\ PauseNeverStarts'
<1> USE DEF PauseIInv
<1>1. UNCHANGED <<alive, current_state, node, callback, at, mcu_state, launches, seen>>
  BY DEF Noise, Steps, interfaceVars, nodeVars, mcuVars
<1>2. \/ toMcu # << >> /\ toMcu' = Tail(toMcu) /\ fromMcu' = fromMcu
      \/ fromMcu # << >> /\ fromMcu' = Tail(fromMcu) /\ toMcu' = toMcu
  BY DEF Noise, Steps, Lose, LoseToMcu, LoseFromMcu
<1>3. /\ \A p : OnLine(toMcu', p) => OnLine(toMcu, p)
      /\ \A p, r : NoneBehind(toMcu, p, r) => NoneBehind(toMcu', p, r)
      /\ \A p : OnLine(fromMcu', p) => OnLine(fromMcu, p)
      /\ \A p, r : NoneBehind(fromMcu, p, r) => NoneBehind(fromMcu', p, r)
  BY <1>2, GoneFromLines DEF SystemInv, TypeOK
<1>4. launches = 0 => toMcu' = << >>
  <2>1. launches = 0 => toMcu = << >> /\ fromMcu = << >>
    BY DEF PauseInv, SystemInv, ProcessAndHistory
  <2> QED BY <1>2, <2>1
<1> QED BY <1>1, <1>3, <1>4 DEF PauseInv, PauseNeverStarts

LEMMA EndPause ==
  ASSUME PauseIInv, Release \/ Throw \/ TimerTick \/ UserEnds \/ Estop
  PROVE  PauseInv' /\ PauseNeverStarts'
<1> USE DEF PauseIInv
<1>1. /\ Releases \/ ThreadThrows \/ TimerFaults \/ Interrupt \/ EstopCommand
      /\ UNCHANGED launches
  BY DEF Release, Throw, TimerTick, UserEnds, Estop, Steps
<1>2. alive' = FALSE /\ callback' = "none" /\ (toMcu' = toMcu \/ toMcu' = toMcu \o <<Control>>)
  BY <1>1, EndsClean
<1>3. alive
  BY <1>1 DEF Releases, OnConfigureInEmergency, OnCleanup, release_emergency_stop, ThreadThrows,
     CallbackThrows, Handshake2Throws, Shutdown2Throws, TimerFaults, Interrupt, EstopCommand,
     ProcessEnds, Terminate
<1>4. launches' # 0
  BY <1>1, <1>3 DEF PauseInv
<1>5. ~OnLine(toMcu', InactiveRequest)
  <2>1. toMcu \in Seq(PcPacket) /\ Control \in PcPacket /\ Control # InactiveRequest
    BY PcTypes, PacketsDiffer DEF SystemInv, TypeOK, LinkTypeOK, Plain
  <2>2. ~OnLine(toMcu, InactiveRequest)
    BY DEF PauseInv, InactiveRequest
  <2> QED BY <1>2, <2>1, <2>2, LineAppend
<1> QED BY <1>2, <1>4, <1>5 DEF PauseInv, PauseNeverStarts, InactiveRequest

\* Where a packet that is no request for a pause takes the vehicle: it comes to be
\* initializing by a configuration only, and active by a request to start only.
LEMMA AfterPause ==
  ASSUME NEW p \in PcPacket, p # InactiveRequest, NEW s \in After(p)
  PROVE  /\ s = "Inactive" => mcu_state = "Inactive"
         /\ s = "Initializing" => mcu_state = "Initializing" \/ p = Config
         /\ s = "Active" => mcu_state = "Active" \/ p = ActiveRequest
<1>1. CASE p.type = "Config"
  <2>1. p = Config /\ s = IF mcu_state = "Uninitialized" THEN "Initializing" ELSE mcu_state
    BY <1>1, PcPacketIs DEF After
  <2> QED BY <2>1
<1>2. CASE p.type = "StateTransition"
  <2> DEFINE r == p.requested_state
  <2>1. p = StateTransition(r) /\ r # "Inactive"
    BY <1>2, PcPacketIs DEF InactiveRequest
  <2>2. After(p) = CASE r = "Active"   /\ mcu_state = "Inactive" -> {"Active"}
               [] r = "Inactive" /\ mcu_state = "Active"   -> {"Inactive", "Emergency"}
               [] r = "Shutdown" /\ mcu_state \in {"Inactive", "Active"} -> {"Emergency"}
               [] r = "Emergency" /\ mcu_state # "Uninitialized" -> {"Emergency"}
               [] OTHER -> {mcu_state}
    BY <1>2 DEF After
  <2>3. s = "Emergency" \/ s = mcu_state \/ (s = "Active" /\ r = "Active")
    BY <2>1, <2>2
  <2> QED BY <2>1, <2>3 DEF ActiveRequest
<1>3. CASE p.type \notin {"Config", "StateTransition"}
  BY <1>3 DEF After
<1> QED BY <1>1, <1>2, <1>3

\* A packet starts a vehicle that is Inactive, and no other.
LEMMA AfterStarts ==
  ASSUME NEW p \in PcPacket, "Active" \in After(p), mcu_state # "Active"
  PROVE  mcu_state = "Inactive"
<1>1. CASE p.type = "Config"
  BY <1>1 DEF After
<1>2. CASE p.type = "StateTransition"
  <2> DEFINE r == p.requested_state
  <2>1. After(p) = CASE r = "Active"   /\ mcu_state = "Inactive" -> {"Active"}
               [] r = "Inactive" /\ mcu_state = "Active"   -> {"Inactive", "Emergency"}
               [] r = "Shutdown" /\ mcu_state \in {"Inactive", "Active"} -> {"Emergency"}
               [] r = "Emergency" /\ mcu_state # "Uninitialized" -> {"Emergency"}
               [] OTHER -> {mcu_state}
    BY <1>2 DEF After
  <2> HIDE DEF r
  <2> QED BY <2>1
<1>3. CASE p.type \notin {"Config", "StateTransition"}
  BY <1>3 DEF After
<1> QED BY <1>1, <1>2, <1>3

\* What becomes of the heartbeats on the line when something is put behind them.
LEMMA HeartbeatsStayInOrder ==
  ASSUME fromMcu \in Seq(McuPacket), NEW p \in McuPacket, fromMcu' = fromMcu \o <<p>>,
         NoneBehind(fromMcu, Heartbeat("Active"), Heartbeat("Inactive")),
         OnLine(fromMcu, Heartbeat("Active")) => p # Heartbeat("Inactive")
  PROVE  /\ NoneBehind(fromMcu', Heartbeat("Active"), Heartbeat("Inactive"))
         /\ OnLine(fromMcu', Heartbeat("Inactive"))
              => OnLine(fromMcu, Heartbeat("Inactive")) \/ p = Heartbeat("Inactive")
BY LineAppend

\* The answer to a packet is at most one packet, and no heartbeat.
LEMMA AnswerIs ==
  ASSUME NEW p \in PcPacket
  PROVE  \/ Replies(p) = << >>
         \/ \E a \in McuPacket : Replies(p) = <<a>> /\ a.type # "Heartbeat"
<1>1. \/ Replies(p) = << >>
      \/ \E a : Replies(p) = <<a>>
  BY DEF Replies
<1>2. ASSUME NEW a, Replies(p) = <<a>> PROVE a \in McuPacket /\ a.type # "Heartbeat"
  <2>1. 1 \in 1..Len(<<a>>) /\ <<a>>[1] = a
    OBVIOUS
  <2>2. <<a>> \in Seq(McuPacket) /\ <<a>>[1].type # "Heartbeat"
    BY <1>2, <2>1, RepliesType
  <2>3. <<a>>[1] \in McuPacket
    BY <2>1, <2>2, ElementOfSeq
  <2> QED BY <2>1, <2>2, <2>3
<1> QED BY <1>1, <1>2

\* The MCU reads a packet.
LEMMA McuReadsPause ==
  ASSUME PauseIInv, McuReads
  PROVE  PauseInv' /\ PauseNeverStarts'
<1> USE DEF PauseIInv
<1> DEFINE h == Head(toMcu)
<1>1. /\ toMcu # << >> /\ toMcu' = Tail(toMcu) /\ mcu_state' \in After(h)
      /\ fromMcu' = IF alive THEN fromMcu \o Replies(h) ELSE fromMcu
      /\ seen' = IF alive THEN seen \cup {mcu_state'} ELSE seen
      /\ UNCHANGED <<alive, current_state, node, callback, at, launches>>
  BY DEF McuReads, Mcu, McuReceive, interfaceVars, nodeVars
<1>2. toMcu \in Seq(PcPacket) /\ fromMcu \in Seq(McuPacket) /\ h \in PcPacket
  BY <1>1, QueueType DEF SystemInv, TypeOK, LinkTypeOK
<1>3. /\ OnLine(toMcu, h)
      /\ \A p : OnLine(toMcu', p) => OnLine(toMcu, p)
      /\ \A p, r : NoneBehind(toMcu, p, r) => NoneBehind(toMcu', p, r)
      /\ \A p, r : NoneBehind(toMcu, p, r) /\ h = p => ~OnLine(toMcu', r)
  BY <1>1, <1>2, LineTail
<1> HIDE DEF h
<1>4. ~OnLine(toMcu, InactiveRequest) /\ h # InactiveRequest /\ launches # 0
  BY <1>1, <1>3 DEF PauseInv, InactiveRequest
<1>5. /\ mcu_state' = "Inactive" => mcu_state = "Inactive"
      /\ mcu_state' = "Initializing" => mcu_state = "Initializing" \/ h = Config
      /\ mcu_state' = "Active" => mcu_state = "Active" \/ h = ActiveRequest
  BY <1>1, <1>2, <1>4, AfterPause
<1>6. PauseNeverStarts'
  BY <1>1 DEF PauseNeverStarts
<1>7. CASE ~alive
  BY <1>1, <1>3, <1>4, <1>6, <1>7 DEF PauseInv, InactiveRequest
<1>8. CASE alive
  <2>1. /\ callback \in {"on_configure", "on_error"} => node = "unconfigured"
        /\ OnLine(toMcu, ActiveRequest) \/ "Active" \in seen => node # "unconfigured"
        /\ NoneBehind(toMcu, ActiveRequest, Config)
        /\ "Active" \in seen => mcu_state \notin {"Initializing", "Inactive"} /\ ~OnLine(toMcu, Config)
        /\ NoneBehind(fromMcu, Heartbeat("Active"), Heartbeat("Inactive"))
        /\ current_state = "Active" \/ node = "active" => ~OnLine(fromMcu, Heartbeat("Inactive"))
        /\ node = "active" => current_state # "Inactive"
        /\ mcu_state \in seen
    BY <1>8 DEF PauseInv, SystemInv, ProcessAndHistory, ActiveRequest
  <2>2. "Active" \in seen' => "Active" \in seen \/ h = ActiveRequest
    BY <1>1, <1>5, <1>8, <2>1
  <2>3. "Active" \in seen' => node' # "unconfigured" /\ ~OnLine(toMcu', Config)
    BY <1>1, <1>3, <2>1, <2>2
  <2>4. "Active" \in seen => mcu_state' \notin {"Initializing", "Inactive"}
    BY <1>3, <1>5, <2>1
  <2>5. "Active" \in seen' => mcu_state' \notin {"Initializing", "Inactive"}
    BY <1>1, <2>4, <1>8
  <2>6. \/ fromMcu' = fromMcu
        \/ \E a \in McuPacket : fromMcu' = fromMcu \o <<a>> /\ a.type # "Heartbeat"
    <3>1. fromMcu' = fromMcu \o Replies(h) /\ fromMcu \o << >> = fromMcu
      BY <1>1, <1>2, <1>8
    <3>2. \/ Replies(h) = << >>
          \/ \E a \in McuPacket : Replies(h) = <<a>> /\ a.type # "Heartbeat"
      BY <1>2, AnswerIs
    <3> QED BY <3>1, <3>2
  <2>7. /\ NoneBehind(fromMcu', Heartbeat("Active"), Heartbeat("Inactive"))
        /\ OnLine(fromMcu', Heartbeat("Inactive")) => OnLine(fromMcu, Heartbeat("Inactive"))
    <3>1. CASE fromMcu' = fromMcu
      BY <2>1, <3>1
    <3>2. CASE \E a \in McuPacket : fromMcu' = fromMcu \o <<a>> /\ a.type # "Heartbeat"
      <4>1. PICK a \in McuPacket : fromMcu' = fromMcu \o <<a>> /\ a.type # "Heartbeat"
        BY <3>2
      <4>2. a # Heartbeat("Inactive")
        BY <4>1, PacketsDiffer
      <4> QED BY <1>2, <2>1, <4>1, <4>2, HeartbeatsStayInOrder
    <3> QED BY <2>6, <3>1, <3>2
  <2> QED BY <1>1, <1>3, <1>4, <1>6, <1>8, <2>1, <2>3, <2>5, <2>7
          DEF PauseInv, ActiveRequest, InactiveRequest
<1> QED BY <1>7, <1>8

\* The MCU sends a heartbeat or a sensor packet.
LEMMA TelemetryPause ==
  ASSUME PauseIInv, McuBeats \/ McuSenses
  PROVE  PauseInv' /\ PauseNeverStarts'
<1> USE DEF PauseIInv
<1>1. PICK p \in {Heartbeat(mcu_state), Sensor} :
         /\ alive /\ fromMcu' = Append(fromMcu, p)
         /\ seen' = seen \cup {mcu_state'}
         /\ UNCHANGED <<toMcu, mcu_state, alive, current_state, node, callback, at, launches>>
  BY DEF McuBeats, McuSenses, Mcu, McuHeartbeat, McuSensor, McuTelemetry, interfaceVars, nodeVars, mcuVars
<1>2. mcu_state \in seen /\ seen' = seen /\ mcu_state \in GkcLifecycle
  BY <1>1 DEF SystemInv, ProcessAndHistory, TypeOK, McuTypeOK
<1>3. p \in McuPacket /\ fromMcu \in Seq(McuPacket) /\ fromMcu' = fromMcu \o <<p>>
  BY <1>1, <1>2, McuTypes DEF SystemInv, TypeOK, LinkTypeOK
<1>4. p = Heartbeat("Inactive") => mcu_state = "Inactive"
  BY <1>1, PacketsDiffer
<1>5. "Active" \in seen => p # Heartbeat("Inactive")
  BY <1>1, <1>4 DEF PauseInv
<1>6. OnLine(fromMcu, Heartbeat("Active")) => "Active" \in seen
  BY <1>1, HeartbeatOnLine DEF SystemInv, GkcLifecycle
<1>7. current_state = "Active" \/ node = "active" => "Active" \in seen
  BY <1>1 DEF SystemInv, CachedStateIsReal, LifecycleFollowsVehicle
<1>8. /\ NoneBehind(fromMcu', Heartbeat("Active"), Heartbeat("Inactive"))
      /\ OnLine(fromMcu', Heartbeat("Inactive"))
           => OnLine(fromMcu, Heartbeat("Inactive")) \/ p = Heartbeat("Inactive")
  BY <1>1, <1>3, <1>5, <1>6, HeartbeatsStayInOrder DEF PauseInv
<1> QED BY <1>1, <1>2, <1>5, <1>7, <1>8 DEF PauseInv, PauseNeverStarts

\* The MCU moves by itself.
LEMMA McuMovesPause ==
  ASSUME PauseIInv, McuStarts \/ McuStops \/ McuResets
  PROVE  PauseInv' /\ PauseNeverStarts'
<1> USE DEF PauseIInv
<1>1. /\ \/ mcu_state = "Initializing" /\ mcu_state' = "Inactive"
         \/ mcu_state' \in {"Emergency", "Uninitialized"}
      /\ seen' = IF alive THEN seen \cup {mcu_state'} ELSE seen
      /\ UNCHANGED <<toMcu, fromMcu, alive, current_state, node, callback, at, launches>>
  BY DEF McuStarts, McuStops, McuResets, Mcu, McuInitialized, McuFault, SilenceStops, McuReset,
     McuChange, linkVars, interfaceVars, nodeVars
<1>2. "Active" \in seen' => "Active" \in seen
  BY <1>1
<1> QED BY <1>1, <1>2 DEF PauseInv, PauseNeverStarts

LEMMA PauseInit ==
  ASSUME "Active" \notin McuStart, Init
  PROVE  PauseInv /\ PauseNeverStarts
<1>1. \A p, r : ~OnLine(<< >>, p) /\ NoneBehind(<< >>, p, r)
  BY LineEmpty
<1> QED BY <1>1 DEF Init, LinkInit, InterfaceInit, NodeInit, McuInit, PauseInv, PauseNeverStarts

LEMMA PauseNext ==
  ASSUME MaxLaunches <= 1, PauseIInv, [Next]_vars
  PROVE  PauseIInv'
<1>1. SystemInv'
  BY SystemStep DEF PauseIInv
<1>2. CASE Launch
  BY <1>1, <1>2, LaunchPause DEF PauseIInv
<1>3. CASE Execute
  BY <1>1, <1>3, ExecutePause DEF PauseIInv
<1>4. CASE Receive
  BY <1>1, <1>4, ReceivePause DEF PauseIInv
<1>5. CASE Transition
  BY <1>1, <1>5, TransitionPause DEF PauseIInv
<1>6. CASE Drive
  BY <1>1, <1>6, DrivePause DEF PauseIInv
<1>7. CASE Noise
  BY <1>1, <1>7, NoisePause DEF PauseIInv
<1>8. CASE Release \/ Throw \/ TimerTick \/ UserEnds \/ Estop
  BY <1>1, <1>8, EndPause DEF PauseIInv
<1>9. CASE McuReads
  BY <1>1, <1>9, McuReadsPause DEF PauseIInv
<1>10. CASE McuBeats \/ McuSenses
  BY <1>1, <1>10, TelemetryPause DEF PauseIInv
<1>11. CASE McuStarts \/ McuStops \/ McuResets
  BY <1>1, <1>11, McuMovesPause DEF PauseIInv
<1>12. CASE UNCHANGED vars
  BY <1>1, <1>12 DEF PauseIInv, vars, linkVars, interfaceVars, nodeVars, mcuVars, PauseInv, PauseNeverStarts
<1> QED BY <1>2, <1>3, <1>4, <1>5, <1>6, <1>7, <1>8, <1>9, <1>10, <1>11, <1>12 DEF Next

-----------------------------------------------------------------------------
\* Of one process that finds a vehicle that is not active: however long the lines,
\* however many packets are lost, the packets it sends and the heartbeats it reads come
\* in an order that never takes a started vehicle back to Inactive.
THEOREM PauseInvariant ==
  ASSUME MaxLaunches <= 1, "Active" \notin McuStart
  PROVE  Spec => []PauseInv
<1>1. Init => PauseIInv
  BY SystemInit, PauseInit DEF PauseIInv
<1>2. PauseIInv /\ [Next]_vars => PauseIInv'
  BY PauseNext
<1>3. PauseIInv => PauseInv
  BY DEF PauseIInv
<1> QED BY <1>1, <1>2, <1>3, PTL DEF Spec

\* And so on_deactivate, which calls activate, never starts a vehicle.
THEOREM PauseStartsNothing ==
  ASSUME MaxLaunches <= 1, "Active" \notin McuStart
  PROVE  Spec => []PauseNeverStarts
<1>1. Init => PauseIInv
  BY SystemInit, PauseInit DEF PauseIInv
<1>2. PauseIInv /\ [Next]_vars => PauseIInv'
  BY PauseNext
<1>3. PauseIInv => PauseNeverStarts
  BY DEF PauseIInv
<1> QED BY <1>1, <1>2, <1>3, PTL DEF Spec

-----------------------------------------------------------------------------
\* The vehicle becomes active in one way only.
LEMMA StartIs ==
  ASSUME PauseIInv, [Next]_vars, mcu_state # "Active", mcu_state' = "Active"
  PROVE  mcu_state = "Inactive"
<1>1. CASE McuReads
  <2> DEFINE h == Head(toMcu)
  <2>1. toMcu # << >> /\ "Active" \in After(h)
    BY <1>1 DEF McuReads, Mcu, McuReceive
  <2>2. h \in PcPacket
    BY <2>1, QueueType DEF PauseIInv, SystemInv, TypeOK, LinkTypeOK
  <2> HIDE DEF h
  <2> QED BY <2>1, <2>2, AfterStarts
<1>2. CASE McuBeats \/ McuSenses
  BY <1>2 DEF McuBeats, McuSenses, Mcu, McuHeartbeat, McuSensor, McuTelemetry, mcuVars
<1>3. CASE McuStarts \/ McuStops \/ McuResets
  BY <1>3 DEF McuStarts, McuStops, McuResets, Mcu, McuInitialized, McuFault, SilenceStops,
              McuReset, McuChange
<1>4. CASE Launch \/ Execute \/ Receive \/ Transition \/ Drive \/ Noise
  BY <1>4 DEF Launch, Execute, Receive, Transition, Drive, Noise, Steps, mcuVars
<1>5. CASE Release \/ Throw \/ TimerTick \/ UserEnds \/ Estop
  BY <1>5 DEF Release, Throw, TimerTick, UserEnds, Estop, Steps, mcuVars
<1>6. CASE UNCHANGED vars
  BY <1>6 DEF vars, mcuVars
<1> QED BY <1>1, <1>2, <1>3, <1>4, <1>5, <1>6 DEF Next

\* StartedOnce: a vehicle that has been started and has stopped since is not started again
\* by the process that started it.  PauseInv has it that the vehicle of such a process is
\* never Inactive again, and a start is from Inactive.
THEOREM NeverStartedTwice ==
  ASSUME MaxLaunches <= 1, "Active" \notin McuStart
  PROVE  Spec => StartedOnce
<1>1. Init => PauseIInv
  BY SystemInit, PauseInit DEF PauseIInv
<1>2. PauseIInv /\ [Next]_vars => PauseIInv'
  BY PauseNext
<1>3. PauseIInv /\ [Next]_vars
        => [alive /\ mcu_state # "Active" /\ mcu_state' = "Active" => "Active" \notin seen]_vars
  BY StartIs DEF PauseIInv, PauseInv
<1> QED BY <1>1, <1>2, <1>3, PTL DEF Spec, StartedOnce

=============================================================================
