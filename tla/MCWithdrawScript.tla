--------------------------- MODULE MCWithdrawScript ---------------------------
(***************************************************************************)
(* Instances of WithdrawScript for TLC.                                    *)
(***************************************************************************)
EXTENDS WithdrawScript

CONSTANTS n1, n2
=============================================================================
