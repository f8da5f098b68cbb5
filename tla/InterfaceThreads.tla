-------------------------- MODULE InterfaceThreads --------------------------
(***************************************************************************)
(* One GkcInterface from its constructor to its destructor and the three   *)
(* threads that use it without a lock: the executor, which constructs it,  *)
(* makes its requests and destroys it; the receiving thread, started by    *)
(* comm_->open(); and the heartbeat thread, started at the constructor's   *)
(* end.  What GkcInterface.tla does in one step is here a place the thread *)
(* stands at while it uses a member, so that two can be at one member.     *)
(***************************************************************************)
EXTENDS Heartbeats

VARIABLES
  at,       \* where the executor stands
  packet,   \* what the receiving thread handles, or "none"
  numbers,  \* those of the two number pointers that are set
  answers,  \* answers the MCU owes
  stale     \* whether the MCU owes answers to an earlier process

threadVars == <<at, packet, numbers, answers, stale>>
vars == <<portVars, heartbeatVars, threadVars>>

Telemetry == {"Heartbeat", "Sensor", "Log"}
Packet    == {"Handshake2", "Shutdown2", "FirmwareVersion"} \cup Telemetry
Number    == {"handshake_number", "shutdown_number"}

Constructing == {"begin", "number_handshake", "send_handshake", "start_heartbeats"}
Running      == {"idle", "publish", "request", "dump", "number_shutdown", "send_shutdown"}
\* ~GkcInterface, then the members in reverse order of their declaration.
Closing      == {"close", "join"}
Freeing      == {"free_numbers", "free_sensors", "free_factory", "free_comm"}
Place        == Constructing \cup Running \cup Closing \cup Freeing \cup {"failed", "terminated"}

\* Places at which the executor looks at the port, and those at which it also sends.
Sends == {"send_handshake", "request", "send_shutdown"}
Looks == Sends \cup {"number_handshake", "number_shutdown", "close"}

\* What is shared: the members, and the port behind comm_, which nothing in it
\* guards.  Writing a pointer is setting or freeing it; is_open() reads the port,
\* open, close, async_send and receive write it.
Thread == {"executor", "receiver", "heartbeat"}
Member == {"comm_", "port", "factory_", "logs_", "sensors_", "current_state_"} \cup Number

\* Where each thread stands, and what it reads and what it writes at each place; the
\* receiving thread's places are those of recv(), and the callback it is in.
Where == [executor |-> at, receiver |-> IF recv = "handle" THEN packet ELSE recv, heartbeat |-> hb]

Reads ==
  [ executor  |-> (Looks \X {"comm_", "port"}) \cup (Sends \X {"factory_"})
                    \cup ({"publish"} \X {"sensors_", "current_state_"})
                    \cup {<<"request", "current_state_">>},
    receiver  |-> ({"check", "read"} \X {"comm_", "port"}) \cup (Packet \X {"comm_", "factory_"})
                    \cup ({"Handshake2", "Shutdown2"} \X {"port", "handshake_number"})
                    \cup {<<"Shutdown2", "shutdown_number">>},
    heartbeat |-> ({"check", "send"} \X {"comm_", "port"}) \cup {<<"send", "factory_">>} ]

Writes ==
  [ executor  |-> ({"begin"} \X {"comm_", "port"}) \cup ((Sends \cup {"close"}) \X {"port"})
                    \cup ({"request", "dump"} \X {"logs_"})
                    \cup {<<"number_handshake", "handshake_number">>, <<"number_shutdown", "shutdown_number">>}
                    \cup ({"free_numbers"} \X Number)
                    \cup {<<"free_sensors", "sensors_">>, <<"free_factory", "factory_">>, <<"free_comm", "comm_">>},
    receiver  |-> ({"read", "Handshake2", "Shutdown2"} \X {"port"})
                    \cup ({"Handshake2", "Shutdown2", "FirmwareVersion", "Log"} \X {"logs_"})
                    \cup {<<"Handshake2", "handshake_number">>, <<"Shutdown2", "shutdown_number">>,
                          <<"Heartbeat", "current_state_">>, <<"Sensor", "sensors_">>},
    heartbeat |-> {<<"send", "port">>} ]

\* What two threads are at together, one of them to write it.
Races == {m \in Member : \E t, o \in Thread :
            /\ t # o /\ <<Where[t], m>> \in Writes[t]
            /\ <<Where[o], m>> \in Reads[o] \cup Writes[o]}

Init ==
  /\ PortInit /\ HeartbeatInit
  /\ at = "begin" /\ packet = "none" /\ numbers = {}
  /\ stale \in BOOLEAN
  /\ answers = IF stale THEN {"Handshake2", "Shutdown2"} ELSE {}

-----------------------------------------------------------------------------
(* The executor.                                                             *)
Go(from, to) == at = from /\ at' = to
Quiet == UNCHANGED <<portVars, heartbeatVars, packet, stale>>   \* the others stay where they are
Moves(from, to) == Go(from, to) /\ Quiet /\ UNCHANGED <<numbers, answers>>

\* comm_lookup_.at, configure() or open() fails: no thread has been started.
CommFails == Moves("begin", "failed")

CommOpens ==
  Go("begin", "number_handshake") /\ open /\ UNCHANGED <<heartbeatVars, packet, numbers, answers, stale>>

\* Mutant: the number is not kept.
NumberLost(from, number, to) == Moves(from, to)

KeepNumber(from, number, to) ==
  Go(from, to) /\ numbers' = numbers \cup {number} /\ Quiet /\ UNCHANGED answers

Ask(from, answer, to) ==
  Go(from, to) /\ answers' = answers \cup {answer} /\ Quiet /\ UNCHANGED numbers

send_handshake == \/ KeepNumber("number_handshake", "handshake_number", "send_handshake")
                  \/ Ask("send_handshake", "Handshake2", "start_heartbeats")

ConstructorEnds ==
  Go("start_heartbeats", "idle") /\ StartHeartbeats /\ UNCHANGED <<portVars, packet, numbers, answers, stale>>

\* The state timer (get_sensors, get_state, dump_logs), a request, the node's dump_logs.
Works == \/ \E place \in {"publish", "request", "dump"} : Moves("idle", place) \/ Moves(place, "idle")
         \/ Moves("publish", "dump")

\* Mutant: the request is sent before its number is kept.
ShutdownAskedFirst ==
  "shutdown_number" \notin numbers /\ Ask("idle", "Shutdown2", "number_shutdown")

\* Once: a node that has been shut down is finalized.
ShutdownBegins == "shutdown_number" \notin numbers /\ Moves("idle", "number_shutdown")

send_shutdown == \/ KeepNumber("number_shutdown", "shutdown_number", "send_shutdown")
                 \/ Ask("send_shutdown", "Shutdown2", "idle")

DestructorBegins == Moves("idle", "close")

\* Mutant: closing the port is left to ~SerialInterface.
LeavesPortOpen == Moves("close", "join")

ClosesPort == Go("close", "join") /\ close /\ UNCHANGED <<heartbeatVars, packet, numbers, answers, stale>>

\* Mutant: the heartbeat thread is not waited for.
DoesNotJoin == Moves("join", "free_numbers")

Joins == hb = "ended" /\ Moves("join", "free_numbers")

Frees == \/ Moves("free_numbers", "free_sensors") \/ Moves("free_sensors", "free_factory")
         \/ Moves("free_factory", "free_comm")

ProcessEnds ==
  /\ at' = "terminated" /\ packet' = "none"
  /\ PortDies /\ HeartbeatsDie
  /\ UNCHANGED <<numbers, answers, stale>>

\* ~SerialInterface finds the port closed and does not join; recv_thread is then
\* destroyed joinable, which is std::terminate.
FreesComm == at = "free_comm" /\ ProcessEnds

\* A signal, an exception on the executor's thread.
Killed == at \in Constructing \cup Running \cup Closing /\ at # "begin" /\ ProcessEnds

Construct == CommOpens \/ send_handshake \/ ConstructorEnds
Request   == Works \/ ShutdownBegins \/ send_shutdown
Destroy   == ClosesPort \/ Joins \/ Frees \/ FreesComm

-----------------------------------------------------------------------------
(* The receiving thread.                                                     *)
RecvMoves == (RecvLoops \/ RecvEmpty) /\ UNCHANGED <<heartbeatVars, threadVars>>

\* The next packet, of those the MCU sends by itself or owes.
Takes(owed) == packet' \in owed \cup Telemetry /\ answers' = owed \ {packet'}

Gets == RecvGets /\ Takes(answers) /\ UNCHANGED <<heartbeatVars, at, numbers, stale>>

\* The numbers a packet's callback dereferences.  The first that is null makes it
\* throw, which nothing catches in this thread.
Needs(p) == {n \in Number : <<p, n>> \in Reads.receiver}

\* What the MCU answers to what a callback sends: a retry after a wrong number, the
\* request for the version after a good handshake.
Asks == { <<"Handshake2", "Handshake2">>, <<"Handshake2", "FirmwareVersion">>,
          <<"Shutdown2", "Shutdown2">> }

Owed == {answers} \cup {answers \cup {ask[2]} : ask \in {a \in Asks : a[1] = packet}}

\* Mutant: a callback that is done leaves its packet to the next.
HandlesStuck ==
  recv = "handle" /\ Needs(packet) \subseteq numbers /\ RecvReturns /\ UNCHANGED <<heartbeatVars, threadVars>>

Handles ==
  /\ recv = "handle" /\ Needs(packet) \subseteq numbers
  /\ \E owed \in Owed : \/ RecvReturns /\ packet' = "none" /\ answers' = owed
                        \/ UNCHANGED portVars /\ Takes(owed)   \* of the same chunk
  /\ UNCHANGED <<heartbeatVars, at, numbers, stale>>

RecvDies ==
  /\ \/ RecvThrows
     \/ recv = "handle" /\ ~(Needs(packet) \subseteq numbers)
  /\ ProcessEnds

\* The heartbeat thread, the line and the watchdog.
Heartbeat == (HbLoops \/ HbSends \/ HbWakes) /\ UNCHANGED <<portVars, threadVars>>
Line      == (Arrives \/ IsLost) /\ UNCHANGED <<portVars, threadVars>>
Watchdog  == WatchdogFires /\ UNCHANGED <<portVars, threadVars>>
Time      == Tick /\ UNCHANGED <<portVars, threadVars>>

Next ==
  \/ CommFails \/ Construct \/ Request \/ DestructorBegins \/ Destroy \/ Killed
  \/ RecvMoves \/ Gets \/ Handles \/ RecvDies
  \/ Heartbeat \/ Line \/ Watchdog \/ Time

\* Time passes, threads that can go on do, and what is on the line arrives or is
\* lost.  The receiving thread need not get anything, nobody need ask for anything.
Fairness ==
  /\ WF_vars(Construct) /\ WF_vars(Destroy) /\ WF_vars(Heartbeat)
  /\ WF_vars(Line) /\ WF_vars(Watchdog) /\ WF_vars(Time)

Spec == Init /\ [][Next]_vars /\ Fairness

-----------------------------------------------------------------------------
\* Every variable holds what it may hold, the clocks stay inside their bounds, and
\* the receiving thread has a packet exactly while it handles one.
TypeOK ==
  /\ port \in BOOLEAN /\ recv \in RecvPlace
  /\ HeartbeatTypeOK
  /\ at \in Place /\ packet \in Packet \cup {"none"}
  /\ recv = "handle" <=> packet # "none"
  /\ numbers \subseteq Number /\ answers \subseteq Packet /\ stale \in BOOLEAN

\* Without a lock anywhere, the threads meet at the port, the log queue, the sensors
\* and the cached state, and at nothing else until the members are destroyed: open()
\* starts the receiving thread before handshake_number exists, and either number is
\* written while that thread may read it only because the MCU speaks when it is
\* spoken to.  Answers to an earlier process come unasked: with them the numbers are
\* met at as well.
Unguarded == {"port", "logs_", "sensors_", "current_state_"}
RacesConfined ==
  at \notin Freeing => Races \subseteq Unguarded \cup (IF stale THEN Number ELSE {})

\* "received, but no handshake #1 was initiated before", and its like for the
\* shutdown and the unchecked *handshake_number beside it: no answer the MCU owes
\* this process ever finds a null number.
AnswerFindsNumber == ~stale /\ recv = "handle" => Needs(packet) \subseteq numbers

\* The heartbeat thread uses comm_ and factory_ in each turn of its loop; it has
\* ended before the first of the members is destroyed.
HeartbeatEndsFirst == at \in Freeing => hb = "ended"

\* The destructor's join returns: the heartbeat thread sees the closed port, from
\* wherever in its loop it is when close() comes between its looks at it.
JoinReturns == at = "join" ~> at # "join"

\* When the timeout is long enough for the interval, the delays and the losses, the
\* watchdog never stops the vehicle of an interface that is open.
NoFalseAlarm == Timely /\ stopped => ~port

DeadMan == INSTANCE DeadMan WITH alive <- port

\* With such a timeout, threads, line and watchdog are a dead man's switch: the
\* vehicle is stopped only when the interface is gone, and then always.
DeadManSpec == DeadMan!Spec

-----------------------------------------------------------------------------
(* The inductive invariant behind the safety properties.                     *)

\* What the executor's place says of the other threads and of the numbers.
KnownPlace ==
  /\ at \in Constructing \cup {"failed"} => hb = "none" /\ ~inFlight /\ ~armed /\ ~stopped
  /\ at = "begin" => recv = "none"
  /\ at \in {"begin", "number_handshake"} => numbers = {}
  /\ at = "number_shutdown" => "shutdown_number" \notin numbers
  /\ at = "send_shutdown" => "shutdown_number" \in numbers
  /\ at \notin {"begin", "number_handshake", "failed", "terminated"} => "handshake_number" \in numbers

\* Every answer owed, and the one in hand, has its number.
Awaited == ~stale => \A p \in answers \cup {packet} : Needs(p) \subseteq numbers

\* What has been heard is no older than the heartbeats lost since, the one on its
\* way, and the last turn of the loop.
Clock ==
  /\ inFlight => age <= Latency
  /\ hb \in {"check", "send"} => ~inFlight
  /\ port /\ (armed \/ inFlight) => hb \in {"check", "send", "sleep"}
  /\ port /\ armed => heard <= missed * Period + (IF inFlight THEN Period ELSE 0) + age

\* It carries the safety properties above.
ThreadInv == TypeOK /\ KnownPlace /\ Awaited /\ HeartbeatEndsFirst /\ Clock /\ NoFalseAlarm
=============================================================================
