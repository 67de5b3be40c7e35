---------------------------- MODULE NoteLedger -----------------------------
(***************************************************************************)
(* What the bridge promises about notes, without caches, roots, proofs or  *)
(* sequences: an append-only list of notes, each spendable once, a partial *)
(* spend leaving its remainder as a new note, and a count of exits.        *)
(***************************************************************************)
EXTENDS Naturals, Sequences

CONSTANTS Notes, NoChange

VARIABLES
    leaves,  \* the notes in the order of the unified tree
    spent,   \* the notes that left the vault
    exits    \* the number of exits, emergency drains included

ledgerVars == <<leaves, spent, exits>>

Init ==
    /\ leaves = <<>>
    /\ spent = {}
    /\ exits = 0

Held == {leaves[i] : i \in 1 .. Len(leaves)} \ spent

Deposit(note) ==
    /\ leaves' = Append(leaves, note)
    /\ UNCHANGED <<spent, exits>>

Exit(note, change) ==
    /\ note \in Held
    /\ spent' = spent \cup {note}
    /\ exits' = exits + 1
    /\ leaves' = IF change = NoChange THEN leaves ELSE Append(leaves, change)

Drain ==
    /\ exits' = exits + 1
    /\ UNCHANGED <<leaves, spent>>

Next ==
    \/ \E note \in Notes : Deposit(note)
    \/ \E note \in Notes, change \in Notes \cup {NoChange} : Exit(note, change)
    \/ Drain

Spec == Init /\ [][Next]_ledgerVars
=============================================================================
