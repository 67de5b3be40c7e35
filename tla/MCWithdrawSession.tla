-------------------------- MODULE MCWithdrawSession --------------------------
(***************************************************************************)
(* Instances of WithdrawSession for TLC.                                   *)
(***************************************************************************)
EXTENDS WithdrawSession, TLC

CONSTANTS s1, s2, p1, p2, u1

\* The requests in hand are alike, and so are the slots.
Alike == Permutations({p1, p2}) \cup Permutations({s1, s2})
=============================================================================
