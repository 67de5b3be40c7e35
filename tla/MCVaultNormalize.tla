--------------------------- MODULE MCVaultNormalize ---------------------------
(***************************************************************************)
(* Instances of VaultNormalize for TLC.                                    *)
(***************************************************************************)
EXTENDS VaultNormalize

CONSTANTS p1, p2
=============================================================================
