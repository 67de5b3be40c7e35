--------------------------- MODULE MCWithdrawSubmit ---------------------------
(***************************************************************************)
(* Instances of WithdrawSubmit for TLC.                                    *)
(***************************************************************************)
EXTENDS WithdrawSubmit

CONSTANTS s1, s2, p1, p2, u1
=============================================================================
