----------------------------- MODULE SerialPort -----------------------------
(***************************************************************************)
(* SerialInterface (comm.cpp): the port and the receiving thread's place   *)
(* in recv().                                                              *)
(*                                                                         *)
(* running_ is not here: only ~SerialInterface clears it, and only when it *)
(* finds the port open.  ~GkcInterface has closed it by then, so neither   *)
(* that line nor the join below it is part of any destruction of an        *)
(* interface.  A constructor that throws behind open() would come to them: *)
(* send_handshake cannot fail there, since nobody has closed the port, and *)
(* a thread the system refuses to start is not modelled.                   *)
(***************************************************************************)
EXTENDS Naturals

VARIABLES
  port,   \* driver_->port()->is_open()
  recv    \* where the receiving thread stands

portVars == <<port, recv>>

\* "check" is the loop's condition, "read" a receive() that blocks, "handle" a
\* chunk in handler_->receive.
RecvPlace == {"none", "check", "read", "handle", "ended"}

PortInit == port = FALSE /\ recv = "none"

open  == port' = TRUE /\ recv' = "check"
close == port' = FALSE /\ UNCHANGED recv

RecvLoops   == recv = "check" /\ recv' = (IF port THEN "read" ELSE "ended") /\ UNCHANGED port
RecvGets    == recv = "read" /\ port /\ recv' = "handle" /\ UNCHANGED port
RecvReturns == recv = "handle" /\ recv' = "check" /\ UNCHANGED port

\* The library does not say what becomes of a receive() whose port is closed by
\* another thread: it may come back empty, stay where it is, or throw.  It also
\* throws when the device is unplugged.
RecvEmpty  == recv = "read" /\ ~port /\ recv' = "check" /\ UNCHANGED port
RecvThrows == recv = "read"

\* The end of the process, which takes the port and the thread with it.
PortDies == port' = FALSE /\ recv' = "none"
=============================================================================
