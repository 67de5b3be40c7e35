----------------------------- MODULE MCVaultState -----------------------------
(***************************************************************************)
(* Instances of VaultState for TLC.                                        *)
(***************************************************************************)
EXTENDS VaultState, TLC

CONSTANTS s1, s2, s3, r1, r2, k1, p1, p2, p3

\* Both requests name the one key there is.
OneKey(request) == k1

OneWithdrawal == [i \in {1} |-> "withdraw"]

\* The two requests in hand are alike, and so are the slots of the quorum.
Alike == Permutations({p1, p2}) \cup Permutations({s1, s2})
=============================================================================
