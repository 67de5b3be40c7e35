------------------------------ MODULE MCRelayer ------------------------------
(***************************************************************************)
(* Instances of Relayer for TLC, with the model values of the bridge's.    *)
(***************************************************************************)
EXTENDS Relayer, MCEunomaBridge

CONSTANT relayer

\* Two notes, withdrawn under one sequence by two requests.
TwoDeposits == {Deposit(alice, n1, x1, 1), Deposit(alice, n2, x2, 1)}
FullAndPartial == {Full(n1, t1, 0), Partial(n2, n3, t2, 1)}
BothNotes   == {{n1, n2}}

\* One note, withdrawn with and without change under one CA payload.
SharedPayload == {Full(n1, t1, 1), Partial(n1, n2, t1, 1)}
=============================================================================
