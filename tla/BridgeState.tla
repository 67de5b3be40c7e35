---------------------------- MODULE BridgeState ----------------------------
(***************************************************************************)
(* The on-chain state of the Eunoma bridge: the global resources the Move  *)
(* module eunoma_bridge keeps under @eunoma, and the guards its entries    *)
(* share.  Every entry is one transaction: it either aborts, and changes   *)
(* nothing, or performs all of its writes.  An abort is therefore a step   *)
(* that is not enabled.                                                    *)
(*                                                                         *)
(* Hashes, proofs and signatures are abstracted by what they bind:         *)
(*   - a commitment stands for its note (nullifier, secret, asset, amount  *)
(*     digest), so it also stands for the nullifier hash and the digest;   *)
(*   - the root of a state tree is the number of leaves it was built over; *)
(*   - the root of an association set is that set of commitments;          *)
(*   - a request hash is the tuple of the fields compute_request_hash_v4   *)
(*     hashes; the CA payload hash is folded into the request's tag.       *)
(***************************************************************************)
EXTENDS Integers, Sequences, FiniteSets

CONSTANTS
    Accounts,        \* addresses of users and relayers
    Assets,          \* fungible-asset metadata addresses
    Commitments,     \* note commitments
    Nonces,          \* deposit nonces
    Tags,            \* amount_tag + ca_payload_hash of a withdraw request
    Eks,             \* encryption keys a deoperator set may share
    GenesisAsset,    \* the asset init_v4 onboards (APT)
    GenesisEk,       \* the encryption key of the first deoperator config
    AssetIdOf,       \* derive_asset_id: asset -> asset_id_fr
    NoteAsset,       \* the asset the preimage of a commitment names
    DepositIntents,  \* deposits the wallets may ask for
    WithdrawIntents, \* withdrawals the wallets may ask for
    ExitIntents,     \* emergency exits the deoperators may attest
    AspSets,         \* association sets the curator may publish
    Governed,        \* assets Aptos governance may list and de-list
    HasBridgeVault,  \* was the legacy BridgeVault initialised before V4?
    None,            \* the empty change commitment; "no account"; "no note"
    AspWindow,       \* ASP_ROOT_WINDOW_K
    MaxTime,         \* bound on the chain's clock
    MaxSequence,     \* bound on vault_sequence
    MaxEpoch,        \* bound on the deoperator config epochs
    MaxAspSets,      \* bound on the published association sets
    MaxLag           \* bound on how stale a sequence a client acts upon

\* A deposit as the wallet forms it; its asset is the one its note names.
DepositIntent ==
    [user : Accounts, commitment : Commitments, nonce : Nonces, expiry : Nat]

\* A withdrawal as the wallet forms it: spend a note to a recipient, possibly
\* keeping the remainder in a change note of the same asset.
WithdrawIntent ==
    [note : Commitments, change : Commitments \cup {None},
     recipient : Accounts, tag : Tags, expiry : Nat]

\* The message of an emergency-exit attestation.
ExitIntent == [asset : Assets, recipient : Accounts, expiry : Nat]

ASSUME BridgeConstants ==
    /\ GenesisAsset \in Assets
    /\ GenesisEk \in Eks
    /\ AssetIdOf \in [Assets -> Nat]
    /\ NoteAsset \in [Commitments -> Assets]
    /\ DepositIntents \subseteq DepositIntent
    /\ WithdrawIntents \subseteq WithdrawIntent
    /\ \A w \in WithdrawIntents :
          w.change # None => NoteAsset[w.change] = NoteAsset[w.note]
    /\ ExitIntents \subseteq ExitIntent
    /\ AspSets \subseteq SUBSET Commitments
    /\ HasBridgeVault \in BOOLEAN
    /\ None \notin Commitments \cup Accounts \cup Nonces
    /\ AspWindow \in Nat \ {0}
    /\ Governed \subseteq Assets
    /\ {MaxTime, MaxSequence, MaxEpoch, MaxAspSets, MaxLag} \subseteq Nat

VARIABLES
    next_leaf_index,       \* VaultCoreV4: leaves appended to the unified tree
    vault_sequence,        \* VaultCoreV4: exits performed
    by_asset,              \* AssetRegistryV4: registered asset -> row
    asset_list,            \* AssetRegistryV4: registration order
    used_deposit_nonces,   \* BridgeTablesV4
    used_nullifiers,       \* BridgeTablesV4
    known_roots,           \* BridgeTablesV4: recorded state-tree roots
    asp_sets,              \* KnownASPRoots: published association sets
    deposit_sender,        \* DepositSenderMap: commitment -> first depositor
    deposit_bindings,      \* PendingDepositBindingsV3: (user, commitment)
    deposit_finalizations, \* PendingDepositFinalizationsV3: (user, commitment) -> row
    proofs,                \* PendingWithdrawProofsV3b: request hash -> row
    attestations,          \* PendingWithdrawAttestationsV3: request hash -> row
    payloads,              \* PendingWithdrawPayloadsV3: request hash -> row
    conservations,         \* PendingWithdrawConservationsV4: request hash -> row
    finalizations,         \* PendingWithdrawFinalizationsV3: (submitter, hash) -> row
    config,                \* DeoperatorConfigV2: its epoch and vault_ek
    legacy_paused,         \* BridgeVault.paused, the legacy vault's flag
    allow_listed,          \* assets the CA framework accepts (governance)
    now,                   \* timestamp::now_seconds
    leaf_log,              \* DepositConfirmedV2 and ChangeNoteAppendedV4 events
    exit_log               \* WithdrawEventV3, RagequitEventV1, emergency exits

registryVars   == <<by_asset, asset_list>>
depositVars    == <<used_deposit_nonces, deposit_sender, deposit_bindings,
                    deposit_finalizations>>
cacheVars      == <<proofs, attestations, payloads, conservations>>
rootVars       == <<known_roots, asp_sets>>
coreVars       == <<next_leaf_index, vault_sequence, used_nullifiers, leaf_log,
                    exit_log>>
controlVars    == <<config, legacy_paused, allow_listed, now>>
vars == <<coreVars, registryVars, depositVars, cacheVars, finalizations,
          rootVars, controlVars>>

----------------------------------------------------------------------------
(* Tables                                                                  *)

Put(table, key, row) ==
    [k \in DOMAIN table \cup {key} |-> IF k = key THEN row ELSE table[k]]

Remove(table, key) == [k \in DOMAIN table \ {key} |-> table[k]]

----------------------------------------------------------------------------
(* Guards the entries share                                                *)

Registered(asset) == asset \in DOMAIN by_asset

Active(asset) == Registered(asset) /\ by_asset[asset].status = "ACTIVE"

\* PAUSED is never assigned by a production entry, so "not DORMANT" is the
\* state the settling entries accept (l.1830, l.2281).
NotDormant(asset) == Registered(asset) /\ by_asset[asset].status # "DORMANT"

NotExpired(expiry) == now <= expiry

\* Mutant: no set is checked before the first is published.
InRecentWindowFailOpen(set) ==
    \/ asp_sets = <<>>
    \/ \E i \in 1 .. Len(asp_sets) :
          i > Len(asp_sets) - AspWindow /\ asp_sets[i] = set

\* asp_root_in_recent_window: one of the last AspWindow published sets.
InRecentWindow(set) ==
    \E i \in 1 .. Len(asp_sets) :
        /\ i > Len(asp_sets) - AspWindow
        /\ asp_sets[i] = set

\* compute_request_hash_v4.
RequestHash(w, sequence) ==
    <<w.tag, w.recipient, NoteAsset[w.note], sequence>>

----------------------------------------------------------------------------
(* What the Groth16 circuits and the CA proofs show (external)             *)

\* The commitment is one of the first `root` leaves of the unified tree.
InTree(commitment, root) ==
    \E i \in 1 .. Len(leaf_log) :
        i <= root /\ leaf_log[i].commitment = commitment

\* Mutant: the inclusion in the state tree is not constrained.
ApprovalProofHolds(w, root, set) == w.note \in set

\* withdrawal_proof.circom: the spent note is in the state tree and in the
\* association set.
WithdrawProofHolds(w, root, set) == InTree(w.note, root) /\ w.note \in set

\* ragequit.circom: the revealed commitment is in the state tree.
RagequitProofHolds(commitment, root) == InTree(commitment, root)

\* The deoperators form the CA transfer of a note for the note's own asset; the
\* CA framework (external) keeps one balance per asset and refuses any other.
CaArgumentsExist(asset, note) == asset = NoteAsset[note]
=============================================================================
