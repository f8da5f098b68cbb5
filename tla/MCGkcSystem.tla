------------------------------- MODULE MCGkcSystem -------------------------------
(* Instances of GkcSystem for TLC.                                              *)
EXTENDS GkcSystem

CONSTANT null

TwoNumbers == <<2, 7>>      \* 7 wraps around with SeqMod = 8
Ordinary   == <<2, 5>>      \* no number here has its successor for its complement

AllRequests   == {"on_configure", "on_activate", "on_deactivate", "on_cleanup", "on_shutdown"}
NoCleanup     == AllRequests \ {"on_cleanup"}
JustConfigure == {"on_configure"}

OnlyDrive == {"drive"}
OnlyEstop == {"estop"}
None        == {}

FreshMcu  == {"Uninitialized"}
UsedMcu   == {"Uninitialized", "Initializing", "Inactive", "Active", "Emergency"}
HaltedMcu == {"Uninitialized", "Initializing", "Emergency"}

WellTyped   == {TRUE}
BadlyTyped  == {FALSE}
EitherTyped == BOOLEAN

BothFaults == {"Inactive", "Active"}
=============================================================================
