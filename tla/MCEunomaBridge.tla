-------------------------- MODULE MCEunomaBridge ---------------------------
(***************************************************************************)
(* Instances of EunomaBridge for TLC.  One set of model values; each cfg   *)
(* picks the intents that put one part of the bridge in focus.             *)
(***************************************************************************)
EXTENDS BridgeClaims

CONSTANTS alice, bob, apt, usd, eur, n1, n2, n3, x1, x2, x3, t1, t2, t3, ek1, ek2

\* usd and eur derive the same asset_id_fr.
CollidingIds == [a \in Assets |-> IF a = apt THEN 1 ELSE 2]

AllApt == [c \in Commitments |-> apt]
AptAndUsd == [c \in Commitments |-> IF c = n1 THEN apt ELSE usd]

Deposit(user, commitment, nonce, expiry) ==
    [user |-> user, commitment |-> commitment, nonce |-> nonce,
     expiry |-> expiry]

Full(note, tag, expiry) ==
    [note |-> note, change |-> None, recipient |-> alice, tag |-> tag,
     expiry |-> expiry]

Partial(note, change, tag, expiry) ==
    [note |-> note, change |-> change, recipient |-> alice, tag |-> tag,
     expiry |-> expiry]

NoIntents == {}

\* One deposit, and the association sets that approve it.
ChangeDeposits == {Deposit(alice, n1, x1, 1)}
OneApprovedSet == {{n1, n2}}

\* Caches: a deposit, a partial withdrawal and a full one that share a request
\* hash, and the withdrawal of the change; the second association set revokes
\* the note.
RevokingSets     == {{n1, n2}, {n2}}
WindowWithdraws  == {Partial(n1, n2, t1, 1), Full(n1, t1, 1)}
CachesWithdraws  == WindowWithdraws \cup {Full(n2, t2, 1)}

\* Ragequit: two accounts deposit the same commitment.
SharedDeposits == {Deposit(alice, n1, x1, 0), Deposit(bob, n1, x2, 0)}

\* Registry: a deposit of the second asset, whose row can expire before it is
\* settled, and a withdrawal of it with change.
UsdDeposits  == {Deposit(alice, n2, x1, 0)}
UsdWithdraws == {Partial(n2, n3, t1, 1)}
UsdExits     == {[asset |-> usd, recipient |-> alice, expiry |-> 0]}
=============================================================================
