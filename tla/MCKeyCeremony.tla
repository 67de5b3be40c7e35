---------------------------- MODULE MCKeyCeremony -----------------------------
(***************************************************************************)
(* The instance of KeyCeremony for TLC: a roster that is its own quorum.   *)
(***************************************************************************)
EXTENDS KeyCeremony, TLC

CONSTANTS s1, s2, r1, q1, p1, p2

NoExits == [i \in {} |-> "withdraw"]

\* What an init names, and the part of it that is the key.
CeremonyInits == InitBodies

CeremonyKey(r) == [derivation |-> r.derivation, registration |-> r.registration]
=============================================================================
