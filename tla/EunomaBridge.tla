---------------------------- MODULE EunomaBridge ---------------------------
(***************************************************************************)
(* The bridge as a whole: the state init_v4 leaves, one action per entry,  *)
(* and what the entries guarantee together.                                *)
(***************************************************************************)
EXTENDS BridgeAdmin, BridgeDeposit, BridgeWithdraw

\* init_v4, with APT registered and activated, and the one-shot init_* entries
\* that publish the empty tables.
Init ==
    /\ next_leaf_index = 0
    /\ vault_sequence = 0
    /\ by_asset = [a \in {GenesisAsset} |->
                     [asset_id |-> AssetIdOf[a], status |-> "ACTIVE",
                      vault_ek |-> GenesisEk, deposit_count |-> 0]]
    /\ asset_list = <<GenesisAsset>>
    /\ used_deposit_nonces = {}
    /\ used_nullifiers = {}
    /\ known_roots = {}
    /\ asp_sets = <<>>
    /\ deposit_sender = [c \in {} |-> None]
    /\ deposit_bindings = {}
    /\ deposit_finalizations = [k \in {} |-> None]
    /\ proofs = [h \in {} |-> None]
    /\ attestations = [h \in {} |-> None]
    /\ payloads = [h \in {} |-> None]
    /\ conservations = [h \in {} |-> None]
    /\ finalizations = [k \in {} |-> None]
    /\ config = [epoch |-> 0, vault_ek |-> GenesisEk]
    /\ legacy_paused = FALSE
    /\ allow_listed = {GenesisAsset}
    /\ now = 0
    /\ leaf_log = <<>>
    /\ exit_log = <<>>

AdminStep ==
    \/ \E asset \in Assets :
          \/ RegisterAsset(asset)
          \/ SetAllowListed(asset)
          \/ \E ek \in Eks : ActivateAsset(asset, ek)
    \/ \E epoch \in 0 .. MaxEpoch, ek \in Eks : RotateConfig(epoch, ek)
    \/ \E paused \in BOOLEAN : SetLegacyPause(paused)
    \/ \E root \in 1 .. Len(leaf_log) : RecordKnownRoot(root)
    \/ \E set \in AspSets : RecordAspRoot(set)
    \/ \E keys \in SUBSET DOMAIN deposit_finalizations : EvictStaleDeposits(keys)
    \/ Tick

DepositStep ==
    \/ \E d \in DepositIntents :
          \/ PrepareDepositBinding(d)
          \/ \E cached \in BOOLEAN :
                DepositStep2a(d, cached) \/ DepositWithCommitment(d, cached)
    \/ \E user \in Accounts, commitment \in Commitments :
          DepositStep2b(user, commitment)

WithdrawStep ==
    \/ \E w \in WithdrawIntents, root \in known_roots :
          \/ \E set \in AspSets : PrepareWithdrawProof(w, root, set)
          \/ PrepareWithdrawAttestation(w, root)
          \/ \E submitter \in Accounts : WithdrawStep2a(submitter, w, root)
          \/ \E set \in AspSets, attested, proven \in BOOLEAN :
                WithdrawToRecipient(w, root, set, attested, proven)
    \/ \E hash \in DOMAIN proofs : PrepareWithdrawPayload(hash)
    \/ \E w \in WithdrawIntents, sequence \in 0 .. vault_sequence :
          PrepareWithdrawConservation(w, sequence)
    \/ \E submitter \in Accounts, hash \in {k[2] : k \in DOMAIN finalizations} :
          WithdrawStep2b(submitter, hash)
    \/ \E depositor \in Accounts, asset \in Assets, commitment \in Commitments,
          root \in known_roots : Ragequit(depositor, asset, commitment, root)
    \/ \E e \in ExitIntents : EmergencyExit(e)

Next == AdminStep \/ DepositStep \/ WithdrawStep

Spec == Init /\ [][Next]_vars

----------------------------------------------------------------------------
(* Types                                                                   *)

RequestHashes == Tags \X Accounts \X Assets \X Nat
PendingKeys   == Accounts \X Commitments

\* A finite table: a function from some of `keys` to `rows`.
IsTable(table, keys, rows) ==
    /\ DOMAIN table \subseteq keys
    /\ \A k \in DOMAIN table : table[k] \in rows

Configs == [epoch : 0 .. MaxEpoch, vault_ek : Eks]

AssetRows ==
    [asset_id : Nat, status : {"DORMANT", "ACTIVE"},
     vault_ek : Eks \cup {None}, deposit_count : Nat]

ProofRows ==
    [root : Nat, nullifier : Commitments, change : Commitments \cup {None},
     digest : Commitments, sequence : Nat]

AttestationRows ==
    [root : Nat, nullifier : Commitments, expiry : Nat, config : Configs]

DigestRows == [digest : Commitments]

FinalizationRows ==
    [root : Nat, nullifier : Commitments, recipient : Accounts,
     change : Commitments \cup {None}, sequence : Nat, expiry : Nat]

DepositRows == [sender : Accounts, nonce : Nonces, expiry : Nat]

Leaves ==
    [kind : {"deposit"}, leaf_index : Nat, commitment : Commitments,
     user : Accounts, nonce : Nonces]
    \cup
    [kind : {"change"}, leaf_index : Nat, commitment : Commitments,
     user : {None}, nonce : {None}]

Exits ==
    [kind : {"withdraw"}, note : Commitments, recipient : Accounts,
     change : Commitments \cup {None}, sequence : Nat]
    \cup
    [kind : {"ragequit"}, note : Commitments, recipient : Accounts,
     change : {None}, sequence : Nat]
    \cup
    [kind : {"emergency"}, note : {None}, recipient : Accounts,
     change : {None}, sequence : Nat]

CoreTypeOK ==
    /\ next_leaf_index \in Nat
    /\ vault_sequence \in Nat
    /\ used_nullifiers \subseteq Commitments
    /\ leaf_log \in Seq(Leaves)
    /\ exit_log \in Seq(Exits)

RegistryTypeOK ==
    /\ IsTable(by_asset, Assets, AssetRows)
    /\ asset_list \in Seq(Assets)

DepositTypeOK ==
    /\ used_deposit_nonces \subseteq Nonces
    /\ IsTable(deposit_sender, Commitments, Accounts)
    /\ deposit_bindings \subseteq PendingKeys
    /\ IsTable(deposit_finalizations, PendingKeys, DepositRows)

CacheTypeOK ==
    /\ IsTable(proofs, RequestHashes, ProofRows)
    /\ IsTable(attestations, RequestHashes, AttestationRows)
    /\ IsTable(payloads, RequestHashes, DigestRows)
    /\ IsTable(conservations, RequestHashes, DigestRows)

FinalizationTypeOK ==
    IsTable(finalizations, Accounts \X RequestHashes, FinalizationRows)

RootTypeOK ==
    /\ known_roots \subseteq Nat
    /\ asp_sets \in Seq(AspSets)

ControlTypeOK ==
    /\ config \in Configs
    /\ legacy_paused \in BOOLEAN
    /\ allow_listed \subseteq Assets
    /\ now \in Nat

\* Every resource holds values of its Move type: the tables are finite maps
\* from their key type to complete rows, the logs are sequences of events.
TypeOK ==
    /\ CoreTypeOK
    /\ RegistryTypeOK
    /\ DepositTypeOK
    /\ CacheTypeOK
    /\ FinalizationTypeOK
    /\ RootTypeOK
    /\ ControlTypeOK

----------------------------------------------------------------------------
(* Exits                                                                   *)

SpendingExits == {i \in 1 .. Len(exit_log) : exit_log[i].kind # "emergency"}

\* A note leaves the vault at most once, whichever mixture of split
\* withdrawals by several submitters, one-transaction withdrawals and
\* ragequits its owner starts (the nullifier table, l.2287, l.2003, l.2458).
NoDoubleSpend ==
    \A i, j \in SpendingExits :
        exit_log[i].note = exit_log[j].note => i = j

\* Every spent note is a leaf the tree really got, by a deposit or as change
\* of an earlier withdrawal: the roots, the proof cache and the finalization
\* rows carry that fact from the proof to the settlement several steps later.
SpentNotesAreLeaves ==
    \A i \in SpendingExits :
        \E j \in 1 .. Len(leaf_log) :
            leaf_log[j].commitment = exit_log[i].note

\* vault_sequence numbers the exits without gaps, and a withdrawal settles
\* under the very sequence its proof and its attestation named, though other
\* exits raced it between step2a and step2b (l.2291).
ExitsAreSequenced ==
    /\ Len(exit_log) = vault_sequence
    /\ \A i \in 1 .. Len(exit_log) : exit_log[i].sequence = i - 1

\* Rows prepared for the current sequence name an unspent note, and no row
\* names a future sequence: a spend always strands the rows it could race.
InFlightUnspent ==
    /\ \A h \in DOMAIN proofs :
          /\ proofs[h].sequence = h[4]
          /\ h[4] <= vault_sequence
          /\ h[4] = vault_sequence => proofs[h].nullifier \notin used_nullifiers
    /\ \A k \in DOMAIN finalizations :
          /\ finalizations[k].sequence = k[2][4]
          /\ k[2][4] <= vault_sequence
          /\ k[2][4] = vault_sequence =>
                finalizations[k].nullifier \notin used_nullifiers

\* A cached payload never outlives the proof it took its digest from, so
\* step2a can only rebind the two (l.3290 and l.4784).
PayloadFollowsProof ==
    \A h \in DOMAIN payloads :
        h \in DOMAIN proofs /\ payloads[h].digest = proofs[h].digest

\* A transparent exit pays somebody who deposited that very commitment, never
\* a change note's holder and never another account (l.2370).
RagequitPaysDepositor ==
    \A i \in 1 .. Len(exit_log) :
        exit_log[i].kind = "ragequit" =>
            \E j \in 1 .. Len(leaf_log) :
                /\ leaf_log[j].kind = "deposit"
                /\ leaf_log[j].commitment = exit_log[i].note
                /\ leaf_log[j].user = exit_log[i].recipient

\* Once a deposit has recorded its depositor for a commitment, no ragequit of that
\* commitment pays anybody else, whoever deposits it again later (l.1911).
RecordedAs(commitment, user) ==
    commitment \in DOMAIN deposit_sender /\ deposit_sender[commitment] = user

RagequitsPay(commitment, user) ==
    \A i \in 1 .. Len(exit_log) :
        exit_log[i].kind = "ragequit" /\ exit_log[i].note = commitment
            => exit_log[i].recipient = user

FirstRecordedIsPaid ==
    \A c \in Commitments, u \in Accounts :
        [](RecordedAs(c, u) => []RagequitsPay(c, u))

\* A private withdrawal only ever pays out a note some published association
\* set approved: the proof cache carries the approval to the settlement, which
\* does not look at the sets again (l.3066, l.4311).
WithdrawnNotesWereApproved ==
    \A i \in 1 .. Len(exit_log) :
        exit_log[i].kind = "withdraw" =>
            \E j \in 1 .. Len(asp_sets) : exit_log[i].note \in asp_sets[j]

----------------------------------------------------------------------------
(* Leaves and nonces                                                       *)

LeavesOf(asset) ==
    {i \in 1 .. Len(leaf_log) :
        leaf_log[i].kind = "deposit" /\ NoteAsset[leaf_log[i].commitment] = asset}

\* The event log is the dense list 1..next_leaf_index the off-chain tree
\* builder needs, over all assets and both kinds of leaves, and each asset's
\* cursor counts its own deposits (l.1519, l.1892, l.2344).
LeavesAreDense ==
    /\ Len(leaf_log) = next_leaf_index
    /\ \A i \in 1 .. Len(leaf_log) : leaf_log[i].leaf_index = i
    /\ \A a \in DOMAIN by_asset :
          by_asset[a].deposit_count = Cardinality(LeavesOf(a))

\* One attested deposit gives at most one leaf: a nonce is in at most one
\* place, pending or confirmed, and is burned as soon as it is in one.
NonceUsedOnce ==
    /\ \A k \in DOMAIN deposit_finalizations :
          /\ deposit_finalizations[k].nonce \in used_deposit_nonces
          /\ \A l \in DOMAIN deposit_finalizations :
                deposit_finalizations[k].nonce = deposit_finalizations[l].nonce
                    => k = l
          /\ \A i \in 1 .. Len(leaf_log) :
                leaf_log[i].nonce # deposit_finalizations[k].nonce
    /\ \A i, j \in 1 .. Len(leaf_log) :
          /\ leaf_log[i].kind = "deposit" =>
                leaf_log[i].nonce \in used_deposit_nonces
          /\ (leaf_log[i].kind = "deposit" /\ leaf_log[i].nonce = leaf_log[j].nonce)
                => i = j

----------------------------------------------------------------------------
(* The abstract ledger                                                     *)

Ledger == INSTANCE NoteLedger
    WITH Notes <- Commitments, NoChange <- None,
         leaves <- [i \in 1 .. Len(leaf_log) |-> leaf_log[i].commitment],
         spent <- used_nullifiers,
         exits <- Len(exit_log)

\* The bridge implements the abstract note ledger: every step of any entry is
\* a deposit, an exit of a held note (with or without change), a drain, or
\* invisible.  The preparation steps and both step2a entries must stutter.
ImplementsLedger == Ledger!Spec
=============================================================================
