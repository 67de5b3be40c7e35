------------------------------- MODULE Operator -------------------------------
(***************************************************************************)
(* What the scripts of the operator have in common: they end at the first  *)
(* step that fails, and a bounded number of things goes wrong.             *)
(***************************************************************************)
EXTENDS Integers

CONSTANTS
    Nil,        \* null, a missing file or directory
    MaxFaults   \* bound on what goes wrong: failed steps, lost answers, kills

VARIABLE
    faults      \* what is left of MaxFaults

Fault == faults > 0 /\ faults' = faults - 1
===============================================================================
