----------------------- MODULE InterfaceThreadsProofs -----------------------
(***************************************************************************)
(* Theorems about InterfaceThreads, for every interval, jitter, latency,   *)
(* number of losses and timeout.                                           *)
(***************************************************************************)
EXTENDS InterfaceThreads, TLAPS

-----------------------------------------------------------------------------
(* Arithmetic and tables.                                                   *)

LEMMA Products ==
  ASSUME NEW m \in Nat, NEW p \in Nat
  PROVE  m * p \in Nat /\ (m + 1) * p = m * p + p
OBVIOUS

LEMMA ProductsOrdered ==
  ASSUME NEW m \in Nat, NEW n \in Nat, m <= n, NEW p \in Nat
  PROVE  m * p <= n * p
<1>1. PICK d \in Nat : n = m + d
  <2>1. n - m \in Nat /\ n = m + (n - m)
    OBVIOUS
  <2> QED BY <2>1
<1>2. (m + d) * p = m * p + d * p /\ d * p \in Nat /\ m * p \in Nat
  OBVIOUS
<1> QED BY <1>1, <1>2

LEMMA PeriodType == Period \in Nat /\ Interval <= Period
BY HeartbeatAssumption DEF Period

\* What a callback dereferences, read off the table.
LEMMA NeedsTable ==
  /\ Needs("Handshake2") = {"handshake_number"}
  /\ Needs("Shutdown2") = {"handshake_number", "shutdown_number"}
  /\ \A p \in (Packet \cup {"none"}) \ {"Handshake2", "Shutdown2"} : Needs(p) = {}
BY DEF Needs, Number, Reads, Packet, Telemetry

LEMMA PlacesApart ==
  /\ Constructing \cap (Running \cup Closing \cup Freeing) = {}
  /\ "failed" \notin Running \cup Closing \cup Freeing \cup Constructing
  /\ "terminated" \notin Running \cup Closing \cup Freeing \cup Constructing
  /\ Freeing \cap (Running \cup Closing) = {}
BY DEF Constructing, Running, Closing, Freeing

-----------------------------------------------------------------------------
THEOREM InitThreadInv == Init => ThreadInv
<1> SUFFICES ASSUME Init PROVE ThreadInv
  OBVIOUS
<1> USE DEF Init, PortInit, HeartbeatInit
<1>1. TypeOK
  <2>1. HeartbeatTypeOK
    <3>1. 0 \in 0..Period /\ 0 \in 0..MaxMissed /\ 0 \in 0..Timeout
      BY HeartbeatAssumption, PeriodType
    <3> QED BY <3>1 DEF HeartbeatTypeOK, HbPlace
  <2>2. answers \subseteq Packet
    BY DEF Packet
  <2> QED BY <2>1, <2>2 DEF TypeOK, RecvPlace, Place, Constructing, Number
<1>2. KnownPlace
  BY DEF KnownPlace
<1>3. Awaited
  <2>1. answers \cup {packet} = {"none"} \/ stale
    OBVIOUS
  <2> QED BY <2>1, NeedsTable DEF Awaited, Packet, Telemetry
<1>4. HeartbeatEndsFirst /\ Clock /\ NoFalseAlarm
  BY PlacesApart DEF HeartbeatEndsFirst, Clock, NoFalseAlarm, Constructing
<1> QED BY <1>1, <1>2, <1>3, <1>4 DEF ThreadInv

-----------------------------------------------------------------------------
(* The executor.                                                            *)

\* A step that moves the executor alone leaves everything but what its places say.
LEMMA MoveKeeps ==
  ASSUME ThreadInv, NEW from, NEW to \in Place, Moves(from, to)
  PROVE  TypeOK' /\ Awaited' /\ Clock' /\ NoFalseAlarm'
<1> USE DEF Moves, Go, Quiet, portVars, heartbeatVars, senderVars, watchdogVars
<1>1. TypeOK'
  BY DEF ThreadInv, TypeOK, HeartbeatTypeOK
<1>2. Awaited'
  BY DEF ThreadInv, Awaited
<1>3. Clock' /\ NoFalseAlarm'
  BY DEF ThreadInv, Clock, NoFalseAlarm
<1> QED BY <1>1, <1>2, <1>3

LEMMA MovesAmongRunning ==
  ASSUME ThreadInv, Works \/ ShutdownBegins \/ DestructorBegins
  PROVE  ThreadInv'
<1>1. PICK from \in Running, to \in (Running \ {"send_shutdown"}) \cup {"close"} :
        /\ Moves(from, to)
        /\ to = "number_shutdown" => "shutdown_number" \notin numbers
  <2>1. CASE Works
    BY <2>1 DEF Works, Running
  <2>2. CASE ShutdownBegins
    BY <2>2 DEF ShutdownBegins, Running
  <2>3. CASE DestructorBegins
    BY <2>3 DEF DestructorBegins, Running
  <2> QED BY <2>1, <2>2, <2>3
<1>2. TypeOK' /\ Awaited' /\ Clock' /\ NoFalseAlarm'
  BY <1>1, MoveKeeps DEF Place, Closing
<1>3. at = from /\ at' = to /\ numbers' = numbers
  BY <1>1 DEF Moves, Go
<1>4. KnownPlace'
  BY <1>1, <1>3 DEF ThreadInv, KnownPlace, Running, Constructing
<1>5. HeartbeatEndsFirst'
  BY <1>1, <1>3 DEF HeartbeatEndsFirst, Freeing, Running
<1> QED BY <1>2, <1>4, <1>5 DEF ThreadInv

LEMMA MovesToTheEnd ==
  ASSUME ThreadInv, Joins \/ Frees
  PROVE  ThreadInv'
<1>1. PICK from \in {"join"} \cup Freeing, to \in Freeing : Moves(from, to) /\ (from = "join" => hb = "ended")
  <2>1. CASE Joins
    BY <2>1 DEF Joins, Freeing
  <2>2. CASE Frees
    BY <2>2 DEF Frees, Freeing
  <2> QED BY <2>1, <2>2
<1>2. TypeOK' /\ Awaited' /\ Clock' /\ NoFalseAlarm'
  BY <1>1, MoveKeeps DEF Place
<1>3. at = from /\ at' = to /\ numbers' = numbers /\ hb' = hb
  BY <1>1 DEF Moves, Go, Quiet, heartbeatVars, senderVars
<1>4. KnownPlace'
  BY <1>1, <1>3 DEF ThreadInv, KnownPlace, Freeing, Constructing
<1>5. HeartbeatEndsFirst'
  BY <1>1, <1>3 DEF ThreadInv, HeartbeatEndsFirst
<1> QED BY <1>2, <1>4, <1>5 DEF ThreadInv

LEMMA CommFailsKeeps ==
  ASSUME ThreadInv, CommFails
  PROVE  ThreadInv'
<1>1. TypeOK' /\ Awaited' /\ Clock' /\ NoFalseAlarm'
  BY MoveKeeps DEF CommFails, Place
<1>2. KnownPlace' /\ HeartbeatEndsFirst'
  BY DEF CommFails, Moves, Go, Quiet, heartbeatVars, senderVars, watchdogVars, ThreadInv,
     KnownPlace, HeartbeatEndsFirst, Constructing, Freeing
<1> QED BY <1>1, <1>2 DEF ThreadInv

\* Keeping a number, or asking for an answer whose number is kept.
LEMMA NumbersKeep ==
  ASSUME ThreadInv, send_handshake \/ send_shutdown
  PROVE  ThreadInv'
<1> USE DEF Go, Quiet, portVars, heartbeatVars, senderVars, watchdogVars
<1>1. /\ UNCHANGED <<portVars, heartbeatVars, packet, stale>>
      /\ numbers' \subseteq Number /\ numbers \subseteq numbers'
      /\ answers' \subseteq answers \cup {"Handshake2", "Shutdown2"}
      /\ at' \in Place /\ at' \notin Freeing
  BY Zenon DEF send_handshake, send_shutdown, KeepNumber, Ask, ThreadInv, TypeOK, Number, Place,
     Constructing, Running, Freeing
<1>2. TypeOK'
  <2>1. answers' \subseteq Packet
    BY <1>1 DEF ThreadInv, TypeOK, Packet
  <2> QED BY <1>1, <2>1 DEF ThreadInv, TypeOK, HeartbeatTypeOK
<1>3. KnownPlace'
  BY DEF send_handshake, send_shutdown, KeepNumber, Ask, ThreadInv, KnownPlace, Constructing
<1>4. Awaited'
  <2> SUFFICES ASSUME ~stale', NEW p \in (answers \cup {packet})' PROVE Needs(p) \subseteq numbers'
    BY DEF Awaited
  <2>1. CASE p \in answers \cup {packet}
    BY <2>1, <1>1 DEF ThreadInv, Awaited
  <2>2. CASE p \notin answers \cup {packet}
    <3>1. \/ p = "Handshake2" /\ at = "send_handshake"
          \/ p = "Shutdown2" /\ at = "send_shutdown"
      BY <2>2, <1>1 DEF send_handshake, send_shutdown, KeepNumber, Ask
    <3>2. Needs(p) \subseteq numbers
      BY <3>1, NeedsTable DEF ThreadInv, KnownPlace
    <3> QED BY <3>2, <1>1
  <2> QED BY <2>1, <2>2
<1>5. HeartbeatEndsFirst' /\ Clock' /\ NoFalseAlarm'
  BY <1>1 DEF ThreadInv, HeartbeatEndsFirst, Clock, NoFalseAlarm
<1> QED BY <1>2, <1>3, <1>4, <1>5 DEF ThreadInv

LEMMA CommOpensKeeps ==
  ASSUME ThreadInv, CommOpens
  PROVE  ThreadInv'
<1> USE DEF CommOpens, Go, open, heartbeatVars, senderVars, watchdogVars
<1>1. at = "begin" /\ hb = "none" /\ ~inFlight /\ ~armed /\ ~stopped
  BY DEF ThreadInv, KnownPlace, Constructing
<1>2. TypeOK'
  <2>1. recv # "handle"
    BY <1>1 DEF ThreadInv, KnownPlace
  <2> QED BY <2>1 DEF ThreadInv, TypeOK, HeartbeatTypeOK, RecvPlace, Place, Constructing
<1>3. KnownPlace'
  BY <1>1 DEF ThreadInv, KnownPlace
<1>4. Awaited' /\ HeartbeatEndsFirst' /\ Clock' /\ NoFalseAlarm'
  BY <1>1 DEF ThreadInv, Awaited, HeartbeatEndsFirst, Freeing, Clock, NoFalseAlarm
<1> QED BY <1>2, <1>3, <1>4 DEF ThreadInv

LEMMA ConstructorEndsKeeps ==
  ASSUME ThreadInv, ConstructorEnds
  PROVE  ThreadInv'
<1> USE DEF ConstructorEnds, Go, StartHeartbeats, portVars, watchdogVars
<1>1. hb = "none" /\ ~inFlight /\ ~armed /\ ~stopped /\ "handshake_number" \in numbers
  BY DEF ThreadInv, KnownPlace, Constructing
<1>2. TypeOK'
  BY DEF ThreadInv, TypeOK, HeartbeatTypeOK, HbPlace, Place, Running
<1>3. KnownPlace'
  BY <1>1 DEF ThreadInv, KnownPlace, Constructing
<1>4. Awaited' /\ HeartbeatEndsFirst' /\ Clock' /\ NoFalseAlarm'
  BY <1>1 DEF ThreadInv, Awaited, HeartbeatEndsFirst, Freeing, Clock, NoFalseAlarm
<1> QED BY <1>2, <1>3, <1>4 DEF ThreadInv

LEMMA ClosesPortKeeps ==
  ASSUME ThreadInv, ClosesPort
  PROVE  ThreadInv'
<1> USE DEF ClosesPort, Go, close, heartbeatVars, senderVars, watchdogVars
<1>1. TypeOK'
  BY DEF ThreadInv, TypeOK, HeartbeatTypeOK, Place, Closing
<1>2. KnownPlace'
  BY DEF ThreadInv, KnownPlace, Constructing
<1>3. Awaited' /\ HeartbeatEndsFirst' /\ Clock' /\ NoFalseAlarm'
  BY DEF ThreadInv, Awaited, HeartbeatEndsFirst, Freeing, Clock, NoFalseAlarm
<1> QED BY <1>1, <1>2, <1>3 DEF ThreadInv

LEMMA ProcessEndsKeeps ==
  ASSUME ThreadInv, ProcessEnds
  PROVE  ThreadInv'
<1> USE DEF ProcessEnds, PortDies, HeartbeatsDie, watchdogVars
<1>1. TypeOK'
  BY DEF ThreadInv, TypeOK, HeartbeatTypeOK, RecvPlace, HbPlace, Place
<1>2. KnownPlace'
  BY DEF KnownPlace, Constructing
<1>3. Awaited'
  BY NeedsTable DEF ThreadInv, Awaited, Packet, Telemetry
<1>4. HeartbeatEndsFirst' /\ Clock' /\ NoFalseAlarm'
  BY DEF ThreadInv, HeartbeatEndsFirst, Freeing, Clock, NoFalseAlarm
<1> QED BY <1>1, <1>2, <1>3, <1>4 DEF ThreadInv

-----------------------------------------------------------------------------
(* The receiving thread.                                                    *)

\* It changes neither the numbers nor anything of the heartbeats.
LEMMA ReceiverKeeps ==
  ASSUME ThreadInv, RecvMoves \/ Gets \/ Handles
  PROVE  ThreadInv'
<1> USE DEF heartbeatVars, senderVars, watchdogVars
<1>1. UNCHANGED <<port, heartbeatVars, at, numbers, stale>> /\ recv' \in RecvPlace
  BY Zenon DEF RecvMoves, RecvLoops, RecvEmpty, threadVars, Gets, RecvGets, Takes, Handles,
     RecvReturns, portVars, RecvPlace
<1>2. \A owed \in Owed : /\ owed \subseteq Packet
                         /\ \A p \in owed : p \in answers \/ p = packet \/ p = "FirmwareVersion"
  BY DEF Owed, Asks, Packet, ThreadInv, TypeOK
<1>3. /\ answers' \subseteq Packet
      /\ packet' \in Packet \cup {"none"}
      /\ recv' = "handle" <=> packet' # "none"
      /\ \A p \in answers' \cup {packet'} :
           p \in answers \/ p = packet \/ p \in {"FirmwareVersion", "none"} \cup Telemetry
  <2> USE DEF ThreadInv, TypeOK
  <2>1. CASE RecvMoves
    BY <2>1 DEF RecvMoves, RecvLoops, RecvEmpty, threadVars
  <2>2. CASE Gets
    BY <2>2 DEF Gets, RecvGets, Takes, Packet, Telemetry
  <2>3. CASE Handles
    <3>1. PICK owed \in Owed : \/ RecvReturns /\ packet' = "none" /\ answers' = owed
                               \/ UNCHANGED portVars /\ Takes(owed)
      BY <2>3 DEF Handles
    <3>2. recv = "handle"
      BY <2>3 DEF Handles
    <3>3. CASE RecvReturns /\ packet' = "none" /\ answers' = owed
      BY <3>3, <1>2 DEF RecvReturns
    <3>4. CASE UNCHANGED portVars /\ Takes(owed)
      BY <3>2, <3>4, <1>2 DEF portVars, Takes, Packet, Telemetry
    <3> QED BY <3>1, <3>3, <3>4
  <2> QED BY <2>1, <2>2, <2>3
<1>4. TypeOK'
  BY <1>1, <1>3 DEF ThreadInv, TypeOK, HeartbeatTypeOK
<1>5. Awaited'
  <2>1. \A p \in {"FirmwareVersion", "none"} \cup Telemetry : Needs(p) = {}
    BY NeedsTable DEF Packet, Telemetry
  <2> QED BY <1>1, <1>3, <2>1 DEF ThreadInv, Awaited
<1>6. at # "begin"
  BY DEF ThreadInv, KnownPlace, RecvMoves, RecvLoops, RecvEmpty, Gets, RecvGets, Handles
<1>7. KnownPlace' /\ HeartbeatEndsFirst' /\ Clock' /\ NoFalseAlarm'
  BY <1>1, <1>6 DEF ThreadInv, KnownPlace, HeartbeatEndsFirst, Clock, NoFalseAlarm
<1> QED BY <1>4, <1>5, <1>7 DEF ThreadInv

-----------------------------------------------------------------------------
(* The heartbeat thread, the line, the watchdog and time.                   *)

\* What does not touch the executor and the receiving thread keeps what is theirs,
\* and the rest of ThreadInv decides.
LEMMA OthersKeep ==
  ASSUME ThreadInv, UNCHANGED <<portVars, threadVars>>, HeartbeatTypeOK'
  PROVE  TypeOK' /\ Awaited'
<1> USE DEF portVars, threadVars
<1>1. TypeOK'
  BY DEF ThreadInv, TypeOK
<1>2. Awaited'
  BY DEF ThreadInv, Awaited
<1> QED BY <1>1, <1>2

LEMMA ClockTypes ==
  ASSUME ThreadInv
  PROVE  /\ age \in Nat /\ heard \in Nat /\ missed \in Nat /\ Period \in Nat /\ Interval \in Nat
         /\ Latency \in Nat /\ Timeout \in Nat /\ MaxMissed \in Nat
         /\ age <= Period /\ heard <= Timeout /\ missed <= MaxMissed
         /\ Latency < Interval /\ Interval <= Period /\ missed * Period \in Nat
<1>1. age \in 0..Period /\ heard \in 0..Timeout /\ missed \in 0..MaxMissed
  BY DEF ThreadInv, TypeOK, HeartbeatTypeOK
<1>2. missed \in Nat /\ missed * Period \in Nat
  BY <1>1, Products, PeriodType, HeartbeatAssumption
<1> QED BY <1>1, <1>2, PeriodType, HeartbeatAssumption

LEMMA HeartbeatKeeps ==
  ASSUME ThreadInv, Heartbeat
  PROVE  ThreadInv'
<1> USE DEF portVars, threadVars, watchdogVars
<1>1. UNCHANGED <<portVars, threadVars, watchdogVars>>
  BY DEF Heartbeat, HbLoops, HbSends, HbWakes
<1>2. HeartbeatTypeOK'
  <2>1. age' \in 0..Period
    BY <1>1, ClockTypes DEF Heartbeat, HbLoops, HbSends, HbWakes
  <2>2. hb' \in HbPlace
    BY DEF Heartbeat, HbLoops, HbSends, HbWakes, HbPlace
  <2>3. inFlight' \in BOOLEAN
    BY DEF Heartbeat, HbLoops, HbSends, HbWakes, ThreadInv, TypeOK, HeartbeatTypeOK
  <2> QED BY <1>1, <2>1, <2>2, <2>3 DEF ThreadInv, TypeOK, HeartbeatTypeOK
<1>3. at \notin Constructing \cup {"failed"} \cup Freeing /\ hb \notin {"none", "ended"}
  BY DEF ThreadInv, KnownPlace, HeartbeatEndsFirst, Heartbeat, HbLoops, HbSends, HbWakes
<1>4. KnownPlace' /\ HeartbeatEndsFirst' /\ NoFalseAlarm'
  BY <1>1, <1>3 DEF ThreadInv, KnownPlace, HeartbeatEndsFirst, NoFalseAlarm
<1>5. Clock'
  <2>1. CASE HbLoops
    BY <1>1, <2>1, ClockTypes DEF HbLoops, ThreadInv, Clock
  <2>2. CASE HbSends
    BY <1>1, <2>2, ClockTypes DEF HbSends, ThreadInv, Clock
  <2>3. CASE HbWakes
    <3>1. ~inFlight
      BY <2>3, ClockTypes DEF HbWakes, ThreadInv, Clock
    <3> QED BY <1>1, <2>3, <3>1 DEF HbWakes, ThreadInv, Clock
  <2> QED BY <2>1, <2>2, <2>3 DEF Heartbeat
<1> QED BY <1>1, <1>2, <1>4, <1>5, OthersKeep DEF ThreadInv

LEMMA LineKeeps ==
  ASSUME ThreadInv, Line
  PROVE  ThreadInv'
<1> USE DEF portVars, threadVars, senderVars
<1>1. UNCHANGED <<portVars, threadVars, senderVars, stopped>> /\ inFlight /\ ~inFlight'
  BY DEF Line, Arrives, IsLost
<1>2. HeartbeatTypeOK'
  <2>1. missed' \in 0..MaxMissed /\ heard' \in 0..Timeout
    BY ClockTypes DEF Line, Arrives, IsLost
  <2>2. inFlight' \in BOOLEAN /\ armed' \in BOOLEAN
    BY DEF Line, Arrives, IsLost, ThreadInv, TypeOK, HeartbeatTypeOK
  <2> QED BY <1>1, <2>1, <2>2 DEF ThreadInv, TypeOK, HeartbeatTypeOK
<1>3. at \notin Constructing \cup {"failed"}
  BY <1>1 DEF ThreadInv, KnownPlace
<1>4. KnownPlace' /\ HeartbeatEndsFirst' /\ NoFalseAlarm'
  BY <1>1, <1>3 DEF ThreadInv, KnownPlace, HeartbeatEndsFirst, NoFalseAlarm
<1>5. Clock'
  <2>1. port' => hb' \in {"check", "send", "sleep"}
    BY <1>1 DEF ThreadInv, Clock
  <2>2. port' /\ armed' => heard' <= missed' * Period + age'
    <3>1. CASE Arrives
      <4>1. missed' * Period = 0
        BY <3>1, ClockTypes DEF Arrives
      <4> QED BY <3>1, <4>1, <1>1, ClockTypes DEF Arrives
    <3>2. CASE IsLost
      <4>1. missed' * Period = missed * Period + Period
        BY <3>2, Products, ClockTypes DEF IsLost
      <4>2. port /\ armed => heard <= missed * Period + Period + age
        BY <1>1 DEF ThreadInv, Clock
      <4> QED BY <3>2, <4>1, <4>2, <1>1, ClockTypes DEF IsLost
    <3> QED BY <3>1, <3>2 DEF Line
  <2>3. missed' * Period \in Nat /\ age' \in Nat
    <3>1. missed' \in Nat
      BY <1>2 DEF HeartbeatTypeOK
    <3> QED BY <3>1, <1>1, Products, ClockTypes
  <2> QED BY <1>1, <2>1, <2>2, <2>3 DEF Clock
<1> QED BY <1>1, <1>2, <1>4, <1>5, OthersKeep DEF ThreadInv

\* The watchdog of an open interface does not fire: it would have to have heard
\* nothing for longer than the losses and delays allow.
LEMMA WatchdogKeeps ==
  ASSUME ThreadInv, Watchdog
  PROVE  ThreadInv'
<1> USE DEF Watchdog, WatchdogFires, portVars, threadVars, senderVars
<1>1. HeartbeatTypeOK'
  BY DEF ThreadInv, TypeOK, HeartbeatTypeOK
<1>2. KnownPlace' /\ HeartbeatEndsFirst' /\ Clock'
  BY DEF ThreadInv, KnownPlace, HeartbeatEndsFirst, Clock
<1>3. NoFalseAlarm'
  <2> SUFFICES ASSUME Timely, port PROVE FALSE
    BY DEF NoFalseAlarm
  <2>1. Timeout <= missed * Period + (IF inFlight THEN Period ELSE 0) + age
    BY DEF ThreadInv, Clock
  <2>2. missed * Period <= MaxMissed * Period /\ MaxMissed * Period \in Nat
    BY ClockTypes, ProductsOrdered, Products
  <2>3. MaxMissed * Period + Period + Latency < Timeout
    BY Products, ClockTypes DEF Timely
  <2>4. CASE inFlight
    <3>1. age <= Latency
      BY <2>4 DEF ThreadInv, Clock
    <3> QED BY <2>1, <2>2, <2>3, <2>4, <3>1, ClockTypes
  <2>5. CASE ~inFlight
    BY <2>1, <2>2, <2>3, <2>5, ClockTypes
  <2> QED BY <2>4, <2>5
<1> QED BY <1>1, <1>2, <1>3, OthersKeep DEF ThreadInv

LEMMA TimeKeeps ==
  ASSUME ThreadInv, Time
  PROVE  ThreadInv'
<1> USE DEF Time, Tick, Counting, portVars, threadVars
<1>1. HeartbeatTypeOK'
  <2>1. age' \in 0..Period /\ heard' \in 0..Timeout
    BY ClockTypes
  <2> QED BY <2>1 DEF ThreadInv, TypeOK, HeartbeatTypeOK
<1>2. KnownPlace' /\ HeartbeatEndsFirst' /\ NoFalseAlarm'
  BY DEF ThreadInv, KnownPlace, HeartbeatEndsFirst, NoFalseAlarm
<1>3. Clock'
  <2>1. inFlight' => age' <= Latency
    BY ClockTypes DEF ThreadInv, Clock
  <2>2. /\ hb' \in {"check", "send"} => ~inFlight'
        /\ port' /\ (armed' \/ inFlight') => hb' \in {"check", "send", "sleep"}
    BY DEF ThreadInv, Clock
  <2>3. port' /\ armed' => heard' <= missed' * Period + (IF inFlight' THEN Period ELSE 0) + age'
    <3> SUFFICES ASSUME port, armed
                 PROVE  heard' <= missed * Period + (IF inFlight THEN Period ELSE 0) + age'
      OBVIOUS
    <3>1. hb = "sleep" /\ age' = age + 1
      BY DEF ThreadInv, Clock
    <3>2. heard <= missed * Period + (IF inFlight THEN Period ELSE 0) + age
      BY DEF ThreadInv, Clock
    <3> QED BY <3>1, <3>2, ClockTypes
  <2> QED BY <2>1, <2>2, <2>3 DEF Clock
<1> QED BY <1>1, <1>2, <1>3, OthersKeep DEF ThreadInv

-----------------------------------------------------------------------------
LEMMA NextKeeps ==
  ASSUME ThreadInv, Next
  PROVE  ThreadInv'
<1>1. CASE Construct \/ CommFails \/ ClosesPort
  BY <1>1, CommFailsKeeps, CommOpensKeeps, NumbersKeep, ConstructorEndsKeeps, ClosesPortKeeps DEF Construct
<1>2. CASE Request \/ DestructorBegins
  BY <1>2, MovesAmongRunning, NumbersKeep DEF Request
<1>3. CASE Destroy \/ Killed \/ RecvDies
  BY <1>3, ClosesPortKeeps, MovesToTheEnd, ProcessEndsKeeps DEF Destroy, FreesComm, Killed, RecvDies
<1>4. CASE RecvMoves \/ Gets \/ Handles
  BY <1>4, ReceiverKeeps
<1>5. CASE Heartbeat \/ Line \/ Watchdog \/ Time
  BY <1>5, HeartbeatKeeps, LineKeeps, WatchdogKeeps, TimeKeeps
<1> QED BY <1>1, <1>2, <1>3, <1>4, <1>5 DEF Next

LEMMA StutterKeeps ==
  ASSUME ThreadInv, UNCHANGED vars
  PROVE  ThreadInv'
<1> USE DEF vars, portVars, heartbeatVars, senderVars, watchdogVars, threadVars
<1>1. HeartbeatTypeOK'
  BY DEF ThreadInv, TypeOK, HeartbeatTypeOK
<1>2. KnownPlace' /\ HeartbeatEndsFirst' /\ Clock' /\ NoFalseAlarm'
  BY DEF ThreadInv, KnownPlace, HeartbeatEndsFirst, Clock, NoFalseAlarm
<1> QED BY <1>1, <1>2, OthersKeep DEF ThreadInv

\* ThreadInv is inductive: whatever the interval, the delays, the losses and the
\* timeout, in every order of the three threads' steps.
THEOREM ThreadInvariant == Spec => []ThreadInv
<1>1. Init => ThreadInv
  BY InitThreadInv
<1>2. ThreadInv /\ [Next]_vars => ThreadInv'
  BY NextKeeps, StutterKeeps
<1> QED BY <1>1, <1>2, PTL DEF Spec

\* Every variable keeps its type and every clock its bound.
THEOREM ThreadsTypeCorrect == Spec => []TypeOK
<1>1. ThreadInv => TypeOK
  BY DEF ThreadInv
<1> QED BY <1>1, ThreadInvariant, PTL

\* The heartbeat thread has ended before a member it uses is destroyed.
THEOREM HeartbeatJoined == Spec => []HeartbeatEndsFirst
<1>1. ThreadInv => HeartbeatEndsFirst
  BY DEF ThreadInv
<1> QED BY <1>1, ThreadInvariant, PTL

\* With a timeout longer than the losses and delays add up to, a vehicle whose PC is
\* there is never stopped by its watchdog.
THEOREM NoneFalse == Spec => []NoFalseAlarm
<1>1. ThreadInv => NoFalseAlarm
  BY DEF ThreadInv
<1> QED BY <1>1, ThreadInvariant, PTL

\* No answer owed to this process finds the number it is compared with missing.
THEOREM AnswersExpected == Spec => []AnswerFindsNumber
<1>1. ThreadInv => AnswerFindsNumber
  BY DEF ThreadInv, AnswerFindsNumber, Awaited
<1> QED BY <1>1, ThreadInvariant, PTL

\* What the tables say of the members that are not met at.  The executor, until it
\* frees them: comm_ is written before there is another thread, a number where it is
\* drawn, and it reads pointers only.
LEMMA ExecutorTable ==
  ASSUME NEW m \in Member \ Unguarded, NEW p, p \notin Freeing
  PROVE  /\ <<p, m>> \in Writes.executor =>
              \/ p = "begin" /\ m = "comm_"
              \/ p = "number_handshake" /\ m = "handshake_number"
              \/ p = "number_shutdown" /\ m = "shutdown_number"
         /\ <<p, m>> \in Reads.executor => m \in {"comm_", "factory_"}
BY DEF Member, Unguarded, Freeing, Writes, Reads, Number, Looks, Sends

\* The receiving thread writes numbers only, and is at a number in the callbacks that
\* need it.
LEMMA ReceiverTable ==
  ASSUME NEW m \in Member \ Unguarded, NEW p
  PROVE  /\ <<p, m>> \in Writes.receiver => m \in Number
         /\ <<p, m>> \in Reads.receiver \cup Writes.receiver /\ m \in Number
              => p \in {"Handshake2", "Shutdown2"} /\ m \in Needs(p)
         /\ <<p, m>> \in Reads.receiver => p # "none"
BY DEF Member, Unguarded, Writes, Reads, Needs, Number, Packet, Telemetry

\* The heartbeat thread reads pointers.
LEMMA HeartbeatTable ==
  ASSUME NEW m \in Member \ Unguarded, NEW p
  PROVE  /\ <<p, m>> \notin Writes.heartbeat
         /\ <<p, m>> \in Reads.heartbeat => p # "none" /\ m \in {"comm_", "factory_"}
BY DEF Member, Unguarded, Writes, Reads, Number

\* The three threads meet at the port, the log queue, the sensors and the cached
\* state, and at nothing else for as long as there are members; while answers to an
\* earlier process may come, at the two numbers too.
THEOREM RacesKnown == Spec => []RacesConfined
<1>1. ThreadInv => RacesConfined
  <2> SUFFICES ASSUME ThreadInv, at \notin Freeing, NEW m \in Races, m \notin Unguarded,
                      stale => m \notin Number
               PROVE  FALSE
    BY Zenon DEF RacesConfined
  <2>1. PICK t \in Thread, o \in Thread : /\ t # o /\ <<Where[t], m>> \in Writes[t]
                                          /\ <<Where[o], m>> \in Reads[o] \cup Writes[o]
    BY Zenon DEF Races
  <2>2. m \in Member \ Unguarded
    BY Zenon DEF Races
  <2> DEFINE standing == IF recv = "handle" THEN packet ELSE recv
  <2>3. Where.executor = at /\ Where.receiver = standing /\ Where.heartbeat = hb
    BY DEF Where
  <2> HIDE DEF standing
  <2>4. ASSUME <<at, m>> \in Writes.executor, <<standing, m>> \in Reads.receiver \cup Writes.receiver
        PROVE  FALSE
    <3>1. CASE at = "begin" /\ m = "comm_"
      <4>1. standing = "none"
        BY <3>1 DEF ThreadInv, KnownPlace, standing
      <4>2. m \notin Number
        BY <3>1 DEF Number
      <4> QED BY Zenon, <2>2, <2>4, <4>1, <4>2, ReceiverTable
    <3>2. CASE \/ at = "number_handshake" /\ m = "handshake_number"
               \/ at = "number_shutdown" /\ m = "shutdown_number"
      <4>1. m \in Number
        BY <3>2 DEF Number
      <4>2. standing \in {"Handshake2", "Shutdown2"} /\ m \in Needs(standing)
        BY Zenon, <2>2, <2>4, <4>1, ReceiverTable
      <4>3. standing = packet
        BY <4>2 DEF standing, ThreadInv, TypeOK, RecvPlace
      <4>4. m \in numbers
        BY <4>1, <4>2, <4>3 DEF ThreadInv, Awaited
      <4> QED BY <3>2, <4>4 DEF ThreadInv, KnownPlace
    <3> QED BY Zenon, <2>2, <2>4, <3>1, <3>2, ExecutorTable
  <2>5. ASSUME <<at, m>> \in Writes.executor, <<hb, m>> \in Reads.heartbeat
        PROVE  FALSE
    <3>1. hb # "none" /\ m \in {"comm_", "factory_"}
      BY Zenon, <2>2, <2>5, HeartbeatTable
    <3>2. at = "begin"
      BY <2>2, <2>5, <3>1, ExecutorTable
    <3> QED BY <3>1, <3>2 DEF ThreadInv, KnownPlace, Constructing
  <2>6. CASE t = "executor"
    <3>1. <<hb, m>> \notin Writes.heartbeat
      BY Zenon, <2>2, HeartbeatTable
    <3>2. CASE o = "receiver"
      BY <2>1, <2>3, <2>4, <2>6, <3>2
    <3>3. CASE o = "heartbeat"
      BY <2>1, <2>3, <2>5, <2>6, <3>1, <3>3
    <3> QED BY <2>1, <2>6, <3>2, <3>3 DEF Thread
  <2>7. CASE t = "receiver"
    <3>1. m \in Number
      BY <2>1, <2>2, <2>3, <2>7, ReceiverTable
    <3>2. m \notin {"comm_", "factory_"}
      BY <3>1 DEF Number
    <3>3. CASE o = "executor"
      <4>1. <<at, m>> \in Writes.executor
        BY <2>1, <2>2, <2>3, <3>2, <3>3, ExecutorTable
      <4> QED BY <2>1, <2>3, <2>4, <2>7, <4>1
    <3>4. CASE o = "heartbeat"
      BY <2>1, <2>2, <2>3, <3>2, <3>4, HeartbeatTable
    <3> QED BY <2>1, <2>7, <3>3, <3>4 DEF Thread
  <2>8. CASE t = "heartbeat"
    BY <2>1, <2>2, <2>8, HeartbeatTable
  <2> QED BY <2>6, <2>7, <2>8 DEF Thread
<1> QED BY <1>1, ThreadInvariant, PTL

-----------------------------------------------------------------------------
(* The dead man's switch.                                                   *)

LEMMA StepsOfTheSwitch ==
  ASSUME Timely, ThreadInv, ThreadInv', [Next]_vars
  PROVE  [DeadMan!Next]_<<port, armed, stopped>>
<1> USE DEF DeadMan!Next, heartbeatVars, watchdogVars, senderVars, portVars, threadVars
<1>1. CASE CommFails \/ Construct \/ ClosesPort \/ Request \/ DestructorBegins
  BY Zenon, <1>1 DEF CommFails, Construct, CommOpens, open, send_handshake, KeepNumber, Ask, Moves, Quiet,
     ConstructorEnds, StartHeartbeats, ClosesPort, close, Request, Works, ShutdownBegins, send_shutdown,
     DestructorBegins, DeadMan!Start, DeadMan!Die
<1>2. CASE Joins \/ Frees \/ ProcessEnds
  BY Zenon, <1>2 DEF Joins, Frees, Moves, Quiet, ProcessEnds, PortDies, HeartbeatsDie, DeadMan!Die
<1>3. CASE RecvMoves \/ Gets \/ Handles
  BY Zenon, <1>3 DEF RecvMoves, RecvLoops, RecvEmpty, Gets, RecvGets, Handles, RecvReturns
<1>4. CASE Heartbeat \/ Time
  BY Zenon, <1>4 DEF Heartbeat, HbLoops, HbSends, HbWakes, Time, Tick
<1>5. CASE Line
  BY Zenon, <1>5 DEF Line, Arrives, IsLost, DeadMan!Hear
<1>6. CASE Watchdog
  <2>1. ~port'
    BY <1>6 DEF Watchdog, WatchdogFires, ThreadInv, NoFalseAlarm
  <2> QED BY Zenon, <1>6, <2>1 DEF Watchdog, WatchdogFires, DeadMan!Stop
<1>7. CASE UNCHANGED vars
  BY Zenon, <1>7 DEF vars
<1> QED
  <2>1. CASE Next
    BY Zenon, <2>1, <1>1, <1>2, <1>3, <1>4, <1>5, <1>6 DEF Next, Destroy, FreesComm, Killed, RecvDies
  <2> QED BY Zenon, <2>1, <1>7

\* The safety half of DeadManSpec: a timely watchdog stops the vehicle only when the
\* interface is gone.
THEOREM ImplementsDeadMan ==
  ASSUME Timely
  PROVE  Spec => DeadMan!Init /\ [][DeadMan!Next]_<<port, armed, stopped>>
<1>1. Init => DeadMan!Init
  BY DEF Init, PortInit, HeartbeatInit, DeadMan!Init
<1>2. ThreadInv /\ ThreadInv' /\ [Next]_vars => [DeadMan!Next]_<<port, armed, stopped>>
  BY StepsOfTheSwitch
<1> QED BY <1>1, <1>2, ThreadInvariant, PTL DEF Spec
=============================================================================
