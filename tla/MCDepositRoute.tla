---------------------------- MODULE MCDepositRoute ---------------------------
(***************************************************************************)
(* Instances of DepositRoute for TLC, with the bridge's model values.      *)
(***************************************************************************)
EXTENDS DepositRoute, MCEunomaBridge

\* A user deposits a commitment twice, under two nonces and expiries; another
\* account only tries to take it back.
RacingDeposits ==
    {Deposit(alice, n1, x1, 0), Deposit(alice, n1, x2, 1)}
=============================================================================
