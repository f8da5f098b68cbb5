-------------------------- MODULE MCInterfaceThreads --------------------------
(* Instance of InterfaceThreads for TLC.                                       *)
EXTENDS InterfaceThreads

\* The smallest timeout that holds out a lost heartbeat and a late one.
JustEnough == (MaxMissed + 1) * Period + Latency + 1
=============================================================================
