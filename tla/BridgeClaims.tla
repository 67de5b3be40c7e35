--------------------------- MODULE BridgeClaims ----------------------------
(***************************************************************************)
(* A statement the source makes about itself in comments, which the bridge *)
(* violates.                                                               *)
(***************************************************************************)
EXTENDS EunomaBridge

\* "records the original depositor address keyed by commitment, written at
\* deposit finalization" (l.341): whoever finalised a deposit is on record,
\* which ragequit, "the transparent escape hatch so funds are never frozen"
\* (l.2391), needs.
DepositorsAreRecorded ==
    \A i \in 1 .. Len(leaf_log) :
        leaf_log[i].kind = "deposit" =>
            leaf_log[i].commitment \in DOMAIN deposit_sender
=============================================================================
