----------------------------- MODULE Heartbeats -----------------------------
(***************************************************************************)
(* GkcInterface::stream_heartbeats on its thread, the line its heartbeats  *)
(* travel on, and the MCU's watchdog (external; its timeout is the         *)
(* comm_timeout_ms of the configuration), in discrete time.  Threads take  *)
(* no time but for what Jitter allows them.                                *)
(***************************************************************************)
EXTENDS SerialPort

CONSTANTS
  Interval,   \* HEARTBEAT_INTERVAL_MS
  Jitter,     \* how much longer a turn of the loop may take
  Latency,    \* how long a heartbeat is on its way, at most
  MaxMissed,  \* heartbeats the line may lose in a row
  Timeout     \* the watchdog's

ASSUME HeartbeatAssumption ==
  /\ Interval \in Nat \ {0} /\ Jitter \in Nat /\ Latency \in Nat /\ MaxMissed \in Nat
  /\ Timeout \in Nat \ {0}
  /\ Latency < Interval     \* so that one heartbeat at most is on its way

Period == Interval + Jitter

\* The timeout outlasts the longest time between two heartbeats that arrive.
Timely == (MaxMissed + 1) * Period + Latency < Timeout

VARIABLES
  hb,        \* where the heartbeat thread stands
  age,       \* time since the last heartbeat was sent
  inFlight,  \* it is on its way
  missed,    \* heartbeats lost since one arrived
  heard,     \* time since one arrived
  armed,     \* one has arrived
  stopped    \* the watchdog has stopped the vehicle

senderVars   == <<hb, age>>
watchdogVars == <<missed, heard, armed, stopped>>
heartbeatVars == <<senderVars, inFlight, watchdogVars>>

\* "check" is the loop's condition, "send" its body.
HbPlace == {"none", "check", "send", "sleep", "ended"}

HeartbeatInit ==
  /\ hb = "none" /\ age = 0 /\ inFlight = FALSE
  /\ missed = 0 /\ heard = 0 /\ armed = FALSE /\ stopped = FALSE

StartHeartbeats == hb' = "check" /\ UNCHANGED <<age, inFlight, watchdogVars>>
HeartbeatsDie   == hb' = "none" /\ UNCHANGED <<age, inFlight, watchdogVars>>

\* Mutant: the condition of the loop is left after the first heartbeat heard.
HbLoopsOnce ==
  /\ hb = "check" /\ hb' = (IF port /\ ~armed THEN "send" ELSE "ended")
  /\ UNCHANGED <<age, inFlight, watchdogVars>>

HbLoops ==
  /\ hb = "check" /\ hb' = (IF port THEN "send" ELSE "ended")
  /\ UNCHANGED <<age, inFlight, watchdogVars>>

\* SerialInterface::send looks at the port again and does nothing when it is closed.
HbSends ==
  /\ hb = "send" /\ hb' = "sleep"
  /\ age' = 0 /\ inFlight' = port
  /\ UNCHANGED watchdogVars

HbWakes ==
  /\ hb = "sleep" /\ age >= Interval /\ hb' = "check"
  /\ UNCHANGED <<age, inFlight, watchdogVars>>

Arrives ==
  /\ inFlight /\ inFlight' = FALSE
  /\ missed' = 0 /\ heard' = 0 /\ armed' = TRUE
  /\ UNCHANGED <<senderVars, stopped>>

IsLost ==
  /\ inFlight /\ inFlight' = FALSE
  /\ missed < MaxMissed /\ missed' = missed + 1
  /\ UNCHANGED <<senderVars, heard, armed, stopped>>

WatchdogFires ==
  /\ armed /\ ~stopped /\ heard = Timeout
  /\ stopped' = TRUE
  /\ UNCHANGED <<senderVars, inFlight, missed, heard, armed>>

Counting == armed /\ ~stopped

\* Time passes when nobody is due to act.
Tick ==
  /\ hb \notin {"check", "send"}
  /\ hb = "sleep" => age < Period
  /\ inFlight => age < Latency
  /\ Counting => heard < Timeout
  /\ age' = IF hb = "sleep" \/ inFlight THEN age + 1 ELSE age
  /\ heard' = IF Counting THEN heard + 1 ELSE heard
  /\ UNCHANGED <<hb, inFlight, missed, armed, stopped>>

HeartbeatTypeOK ==
  /\ hb \in HbPlace /\ age \in 0..Period /\ inFlight \in BOOLEAN
  /\ missed \in 0..MaxMissed /\ heard \in 0..Timeout
  /\ armed \in BOOLEAN /\ stopped \in BOOLEAN
=============================================================================
