---------------------------- MODULE MCRefreshCycle ----------------------------
(***************************************************************************)
(* Instances of RefreshCycle for TLC.                                      *)
(***************************************************************************)
EXTENDS RefreshCycle

CONSTANTS plain, aborted
=============================================================================
