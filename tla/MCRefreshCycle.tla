--------------------------- MODULE MCRefreshCycle ---------------------------
(***************************************************************************)
(* The instance of RefreshCycle for TLC: one device, at one location.      *)
(***************************************************************************)
EXTENDS RefreshCycle

CONSTANTS l1, d1

MCHome == [d \in Device |-> l1]
MCKnown == {d1}
=============================================================================
