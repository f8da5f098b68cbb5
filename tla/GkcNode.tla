------------------------------ MODULE GkcNode ------------------------------
(***************************************************************************)
(* GkcNode: the lifecycle callbacks, run one at a time by the node's       *)
(* single-threaded executor, and the lifecycle state ROS 2 keeps for it.   *)
(* A callback runs from "begin" and stops where it sleeps or reads the     *)
(* cached state once more; the receiving thread runs in between.           *)
(***************************************************************************)
EXTENDS GkcInterface

CONSTANT Overrides  \* whether the overrides of the node's parameters have their
                    \* types: {TRUE}, {FALSE}, or BOOLEAN for either

ASSUME OverridesAssumption == Overrides \subseteq BOOLEAN

VARIABLES
  node,        \* the primary lifecycle state
  callback,    \* what the executor runs, "none" between callbacks
  at,          \* where in it
  first_time,  \* the static local of on_configure
  endpoints,   \* whether the command subscription and the state timer exist
  typed        \* the choice from Overrides, the same for every process

nodeVars == <<node, callback, at, first_time, endpoints, typed>>

Callbacks == {"on_configure", "on_activate", "on_deactivate", "on_cleanup",
              "on_shutdown", "on_error"}

NodeTypeOK ==
  /\ node \in {"unconfigured", "inactive", "active", "finalized"}
  /\ callback \in Callbacks \cup {"none", "constructor"}
  /\ at \in {"begin", "initialize", "wait", "poll", "request"}
  /\ first_time \in BOOLEAN /\ endpoints \in BOOLEAN /\ typed \in Overrides

NodeInit == node = "unconfigured" /\ callback = "none" /\ at = "begin"
              /\ first_time = TRUE /\ endpoints = FALSE /\ typed \in Overrides

NodeGone == node' = "unconfigured" /\ callback' = "none" /\ at' = "begin"
              /\ first_time' = TRUE /\ endpoints' = FALSE /\ UNCHANGED typed

ProcessEnds == Terminate /\ NodeGone

-----------------------------------------------------------------------------
\* The node's constructor makes the interface.
Construct ==
  /\ OpenComm
  /\ callback' = "constructor"
  /\ UNCHANGED <<linkVars, node, at, first_time, endpoints, typed>>

ConstructorEnds ==
  /\ callback = "constructor"
  /\ send_handshake
  /\ callback' = "none"
  /\ UNCHANGED <<fromMcu, lost, node, at, first_time, endpoints, typed>>

\* Where ROS 2 accepts the request for a transition, and the callback it runs.
Accepted(cb) ==
  node \in CASE cb = "on_configure"  -> {"unconfigured"}
             [] cb = "on_activate"   -> {"inactive"}
             [] cb = "on_deactivate" -> {"active"}
             [] cb = "on_cleanup"    -> {"inactive"}
             [] cb = "on_shutdown"   -> {"unconfigured", "inactive", "active"}
             [] OTHER -> {}

RequestTransition(cb) ==
  /\ alive /\ callback = "none"
  /\ Accepted(cb)
  /\ callback' = cb /\ at' = "begin"
  /\ UNCHANGED <<linkVars, interfaceVars, node, first_time, endpoints, typed>>

\* The state ROS 2 takes the node to when a callback returns.
NodeAfter(cb, result) ==
  CASE cb = "on_configure"  -> IF result = "SUCCESS" THEN "inactive" ELSE "unconfigured"
    [] cb = "on_activate"   -> IF result = "SUCCESS" THEN "active" ELSE "inactive"
    [] cb = "on_deactivate" -> IF result = "SUCCESS" THEN "inactive" ELSE "active"
    [] cb = "on_error"      -> IF result = "SUCCESS" THEN "unconfigured" ELSE "finalized"
    [] cb = "on_shutdown"   -> "finalized"

At(cb, where) == callback = cb /\ at = where

Continue(where) == at' = where /\ UNCHANGED <<fromMcu, lost, node, callback, first_time, endpoints, typed>>

Return(result) ==
  /\ node' = NodeAfter(callback, result)
  /\ callback' = "none" /\ at' = "begin"
  /\ UNCHANGED <<fromMcu, lost, first_time, endpoints, typed>>

ReturnIf(succeeded) == Return(IF succeeded THEN "SUCCESS" ELSE "FAILURE")

NothingSent == UNCHANGED <<toMcu, interfaceVars>>

\* release_emergency_stop is declared and defined nowhere: the call is to a
\* symbol the loader cannot find, and ends the process.
release_emergency_stop == ProcessEnds /\ UNCHANGED toMcu

-----------------------------------------------------------------------------
OnConfigureInEmergency ==
  At("on_configure", "begin") /\ current_state = "Emergency" /\ release_emergency_stop

\* A parameter of the wrong type makes declare_parameter throw, the first time
\* and, being declared by then, every other time; ROS 2 turns it into ERROR.
OnConfigureThrows ==
  /\ At("on_configure", "begin") /\ current_state # "Emergency"
  /\ first_time /\ ~typed
  /\ endpoints' \in {endpoints, TRUE}
  /\ callback' = "on_error"
  /\ NothingSent
  /\ UNCHANGED <<fromMcu, lost, node, at, first_time, typed>>

OnConfigureBegins ==
  /\ At("on_configure", "begin") /\ current_state # "Emergency"
  /\ typed \/ ~first_time
  /\ first_time' = FALSE /\ endpoints' = TRUE
  /\ at' = "initialize"
  /\ NothingSent
  /\ UNCHANGED <<fromMcu, lost, node, callback, typed>>

OnConfigureInitialize ==
  /\ At("on_configure", "initialize")
  /\ \/ initialize /\ Continue("wait")
     \/ current_state \notin initializable /\ NothingSent /\ Return("FAILURE")

OnConfigureInitialized ==
  /\ At("on_configure", "wait") /\ NothingSent
  /\ \/ current_state = "Initializing" /\ Continue("poll")
     \/ current_state # "Initializing" /\ Return("FAILURE")

OnConfigurePoll ==
  At("on_configure", "poll") /\ current_state = "Inactive" /\ NothingSent /\ Return("SUCCESS")

\* Mutant: the wait has no limit.
NoTimeout == At("on_configure", "poll") /\ current_state = "Inactive" /\ NothingSent /\ Return("FAILURE")

\* MAX_INITIALIZE_WAIT_S have passed; the state is not read again.
OnConfigureTimeout == At("on_configure", "poll") /\ NothingSent /\ Return("FAILURE")

\* interface_->activate, as on_activate and on_deactivate call it.
Activate(cb) ==
  /\ At(cb, "begin")
  /\ \/ try_activate /\ Continue("wait")
     \/ current_state \notin activatable /\ NothingSent /\ Return("FAILURE")

\* Mutant: the result is that of the send.
ActivationSent(cb) == At(cb, "wait") /\ NothingSent /\ Return("SUCCESS")
Activated(cb) == At(cb, "wait") /\ NothingSent /\ ReturnIf(current_state = "Active")

OnActivate   == Activate("on_activate") \/ Activated("on_activate")
OnDeactivate == Activate("on_deactivate") \/ Activated("on_deactivate")

OnCleanup == At("on_cleanup", "begin") /\ release_emergency_stop

OnShutdown ==
  /\ At("on_shutdown", "begin")
  /\ \/ try_shutdown /\ Continue("wait")
     \/ current_state \notin shutdownable /\ NothingSent /\ Return("FAILURE")

\* Mutant: its failure is an error.
OnShutdownRaises ==
  /\ At("on_shutdown", "wait") /\ send_shutdown
  /\ callback' = "on_error" /\ at' = "begin"
  /\ UNCHANGED <<fromMcu, lost, node, first_time, endpoints, typed>>

OnShutdownReturns ==
  At("on_shutdown", "wait") /\ send_shutdown /\ ReturnIf(current_state = "Shutdown")

\* on_error reads the cached state, and emergency_stop reads it again.
OnError ==
  /\ At("on_error", "begin") /\ NothingSent
  /\ \/ current_state = "Uninitialized" /\ Return("FAILURE")
     \/ current_state # "Uninitialized" /\ Continue("request")

\* In an Uninitialized MCU's case the loop goes round without sending.
OnErrorRequests == At("on_error", "request") /\ try_emergency /\ Continue("wait")

\* Mutant: the condition of the loop is not negated.
OnErrorNotNegated ==
  /\ At("on_error", "wait") /\ NothingSent
  /\ \/ current_state # "Emergency" /\ Return("SUCCESS")
     \/ current_state = "Emergency" /\ Continue("request")

OnErrorReturns ==
  /\ At("on_error", "wait") /\ NothingSent
  /\ \/ current_state = "Emergency" /\ Return("SUCCESS")
     \/ current_state # "Emergency" /\ Continue("request")

\* What the executor does next in the callback it is in.
Executor ==
  \/ RoomToMcu /\ ConstructorEnds
  \/ OnConfigureThrows \/ OnConfigureBegins \/ OnConfigureInitialized
  \/ OnConfigurePoll \/ OnConfigureTimeout
  \/ RoomToMcu /\ (OnConfigureInitialize \/ OnActivate \/ OnDeactivate \/ OnShutdown
                     \/ OnShutdownReturns \/ OnErrorRequests)
  \/ OnError \/ OnErrorReturns

Releases == OnConfigureInEmergency \/ OnCleanup

-----------------------------------------------------------------------------
\* cmd_callback, without and with emergency_stop in the message: its exception
\* is thrown out of the executor.
Command ==
  /\ alive /\ callback = "none" /\ endpoints /\ RoomToMcu
  /\ send_control
  /\ UNCHANGED <<fromMcu, lost, nodeVars>>

\* Mutant: the field is not looked at.
EstopIgnored == Command

EstopCommand ==
  /\ callback = "none" /\ endpoints
  /\ ProcessEnds
  /\ UNCHANGED toMcu \/ Transmit(<<Control>>)

\* state_pub_timer_callback reads through a null sensors_ when no sensor packet
\* has come before its first tick.  (Otherwise it changes nothing here.)
TimerFaults == callback = "none" /\ endpoints /\ ~sensors /\ ProcessEnds /\ UNCHANGED toMcu

\* The user interrupts the process.
Interrupt == ProcessEnds /\ UNCHANGED toMcu

ThreadThrows == CallbackThrows /\ NodeGone
=============================================================================
