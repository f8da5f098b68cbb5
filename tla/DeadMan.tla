------------------------------ MODULE DeadMan ------------------------------
(***************************************************************************)
(* What the heartbeats are for: a vehicle that has heard its PC is stopped *)
(* when, and only when, the PC is gone.  GkcSystem.tla takes this for      *)
(* granted in its SilenceStops.                                            *)
(***************************************************************************)
VARIABLES alive, armed, stopped

deadManVars == <<alive, armed, stopped>>

Init == alive = FALSE /\ armed = FALSE /\ stopped = FALSE

Start == alive' = TRUE /\ UNCHANGED <<armed, stopped>>
Die   == alive' = FALSE /\ UNCHANGED <<armed, stopped>>
Hear  == armed' = TRUE /\ UNCHANGED <<alive, stopped>>
Stop  == ~alive /\ armed /\ stopped' = TRUE /\ UNCHANGED <<alive, armed>>

Next == Start \/ Die \/ Hear \/ Stop

Spec == Init /\ [][Next]_deadManVars /\ WF_deadManVars(Stop)
=============================================================================
