------------------------- MODULE EunomaBridgeProofs -------------------------
(***************************************************************************)
(* Theorems about the bridge for every value of the constants: its types,  *)
(* the exits, the withdrawal caches, the abstract ledger, the deposits.    *)
(***************************************************************************)
EXTENDS EunomaBridge, SequenceTheorems, FiniteSetTheorems, TLAPS

----------------------------------------------------------------------------
(* Tables                                                                  *)

\* Writing a row of the right type keeps a table a table.
LEMMA PutIsTable ==
    ASSUME NEW table, NEW keys, NEW rows, NEW key \in keys, NEW row \in rows,
           IsTable(table, keys, rows)
    PROVE  IsTable(Put(table, key, row), keys, rows)
BY DEF IsTable, Put

\* Removing a row keeps a table a table.
LEMMA RemoveIsTable ==
    ASSUME NEW table, NEW keys, NEW rows, NEW key, IsTable(table, keys, rows)
    PROVE  IsTable(Remove(table, key), keys, rows)
BY DEF IsTable, Remove

\* A step that leaves a group of variables alone leaves its type alone.
LEMMA UnchangedTypes ==
    /\ CoreTypeOK /\ UNCHANGED coreVars => CoreTypeOK'
    /\ RegistryTypeOK /\ UNCHANGED registryVars => RegistryTypeOK'
    /\ DepositTypeOK /\ UNCHANGED depositVars => DepositTypeOK'
    /\ CacheTypeOK /\ UNCHANGED cacheVars => CacheTypeOK'
    /\ FinalizationTypeOK /\ UNCHANGED finalizations => FinalizationTypeOK'
    /\ RootTypeOK /\ UNCHANGED rootVars => RootTypeOK'
    /\ ControlTypeOK /\ UNCHANGED controlVars => ControlTypeOK'
BY DEF CoreTypeOK, coreVars, RegistryTypeOK, registryVars, DepositTypeOK,
       depositVars, CacheTypeOK, cacheVars, FinalizationTypeOK, RootTypeOK,
       rootVars, ControlTypeOK, controlVars, IsTable

----------------------------------------------------------------------------
(* Administration                                                          *)

\* The entries of the administrator, the recorders and the environment
\* preserve the types.
LEMMA AdminTypes == TypeOK /\ AdminStep => TypeOK'
<1> SUFFICES ASSUME TypeOK, AdminStep PROVE TypeOK'
  OBVIOUS
<1> USE DEF TypeOK
<1>1. ASSUME NEW asset \in Assets, RegisterAsset(asset) PROVE TypeOK'
  <2>1. RegistryTypeOK'
    <3> DEFINE row == [asset_id |-> AssetIdOf[asset], status |-> "DORMANT",
                       vault_ek |-> None, deposit_count |-> 0]
    <3>1. row \in AssetRows
      BY BridgeConstants DEF AssetRows
    <3>2. by_asset' = Put(by_asset, asset, row) /\ asset_list' = Append(asset_list, asset)
      BY <1>1 DEF RegisterAsset
    <3>3. IsTable(by_asset', Assets, AssetRows)
      <4> HIDE DEF row
      <4> QED BY <3>1, <3>2, PutIsTable DEF RegistryTypeOK
    <3> QED BY <3>2, <3>3 DEF RegistryTypeOK
  <2> QED BY <1>1, <2>1, UnchangedTypes DEF RegisterAsset
<1>2. ASSUME NEW asset \in Assets, NEW ek \in Eks, ActivateAsset(asset, ek)
      PROVE  TypeOK'
  <2>1. by_asset' = [by_asset EXCEPT ![asset].vault_ek = ek,
                                     ![asset].status = "ACTIVE"]
        /\ asset \in DOMAIN by_asset /\ asset_list' = asset_list
    BY <1>2 DEF ActivateAsset, Registered
  <2>2. DOMAIN by_asset \subseteq Assets
        /\ \A a \in DOMAIN by_asset : by_asset[a] \in AssetRows
    BY DEF RegistryTypeOK, IsTable
  <2>3. DOMAIN by_asset' = DOMAIN by_asset
    BY <2>1
  <2>4. \A a \in DOMAIN by_asset' : by_asset'[a] \in AssetRows
    BY <2>1, <2>2, <2>3 DEF AssetRows
  <2>5. RegistryTypeOK'
    BY <2>1, <2>2, <2>3, <2>4 DEF RegistryTypeOK, IsTable
  <2> QED BY <1>2, <2>5, UnchangedTypes DEF ActivateAsset
<1>3. ASSUME NEW epoch \in 0 .. MaxEpoch, NEW ek \in Eks, RotateConfig(epoch, ek)
      PROVE  TypeOK'
  <2>1. ControlTypeOK'
    BY <1>3 DEF RotateConfig, ControlTypeOK, Configs
  <2> QED BY <1>3, <2>1, UnchangedTypes DEF RotateConfig
<1>4. ASSUME NEW paused \in BOOLEAN, SetLegacyPause(paused) PROVE TypeOK'
  <2>1. ControlTypeOK'
    BY <1>4 DEF SetLegacyPause, ControlTypeOK
  <2> QED BY <1>4, <2>1, UnchangedTypes DEF SetLegacyPause
<1>5. ASSUME NEW root \in 1 .. Len(leaf_log), RecordKnownRoot(root) PROVE TypeOK'
  <2>1. RootTypeOK'
    BY <1>5 DEF RecordKnownRoot, RootTypeOK, CoreTypeOK
  <2> QED BY <1>5, <2>1, UnchangedTypes DEF RecordKnownRoot
<1>6. ASSUME NEW set \in AspSets, RecordAspRoot(set) PROVE TypeOK'
  <2>1. RootTypeOK'
    BY <1>6 DEF RecordAspRoot, RootTypeOK
  <2> QED BY <1>6, <2>1, UnchangedTypes DEF RecordAspRoot
<1>7. ASSUME NEW keys, EvictStaleDeposits(keys) PROVE TypeOK'
  <2>1. IsTable(deposit_finalizations', PendingKeys, DepositRows)
    BY <1>7 DEF EvictStaleDeposits, DepositTypeOK, IsTable
  <2>2. DepositTypeOK'
    BY <1>7, <2>1 DEF EvictStaleDeposits, DepositTypeOK, IsTable
  <2> QED BY <1>7, <2>2, UnchangedTypes DEF EvictStaleDeposits
<1>8. CASE Tick
  <2>1. ControlTypeOK'
    BY <1>8 DEF Tick, ControlTypeOK
  <2> QED BY <1>8, <2>1, UnchangedTypes DEF Tick
<1>9. ASSUME NEW asset \in Assets, SetAllowListed(asset) PROVE TypeOK'
  <2>1. ControlTypeOK'
    BY <1>9 DEF SetAllowListed, ControlTypeOK
  <2> QED BY <1>9, <2>1, UnchangedTypes DEF SetAllowListed
<1> QED BY <1>1, <1>2, <1>3, <1>4, <1>5, <1>6, <1>7, <1>8, <1>9 DEF AdminStep

----------------------------------------------------------------------------
(* Deposits                                                                *)

\* A pending key is made of an account and a commitment.
LEMMA PendingKeyType ==
    ASSUME NEW d \in DepositIntents
    PROVE  /\ d.user \in Accounts
           /\ d.commitment \in Commitments
           /\ d.nonce \in Nonces
           /\ d.expiry \in Nat
           /\ PendingKey(d) \in PendingKeys
BY BridgeConstants DEF PendingKey, PendingKeys, DepositIntent

\* The cached or verified binding leaves a set of pending keys.
LEMMA BindingTypes ==
    ASSUME DepositTypeOK, NEW d, NEW cached, ConsumeOrVerifyBinding(d, cached)
    PROVE  deposit_bindings' \subseteq PendingKeys
BY DEF DepositTypeOK, ConsumeOrVerifyBinding

\* The tail of a deposit appends a well-typed leaf and counts it.
LEMMA AppendDepositTypes ==
    ASSUME CoreTypeOK, RegistryTypeOK,
           NEW user \in Accounts, NEW commitment \in Commitments,
           NEW nonce \in Nonces, AppendDeposit(user, commitment, nonce)
    PROVE  CoreTypeOK' /\ RegistryTypeOK'
<1> DEFINE leaf == [kind |-> "deposit", leaf_index |-> next_leaf_index',
                    commitment |-> commitment, user |-> user, nonce |-> nonce]
<1>1. next_leaf_index' \in Nat
  BY DEF CoreTypeOK, AppendDeposit
<1>2. leaf \in Leaves
  BY <1>1 DEF Leaves
<1>3. leaf_log' = Append(leaf_log, leaf)
  BY DEF AppendDeposit
<1>4. leaf_log' \in Seq(Leaves)
  <2> HIDE DEF leaf
  <2> QED BY <1>2, <1>3 DEF CoreTypeOK
<1>5. CoreTypeOK'
  BY <1>1, <1>4 DEF CoreTypeOK, AppendDeposit
<1>6. by_asset' = [by_asset EXCEPT ![NoteAsset[commitment]].deposit_count = @ + 1]
      /\ asset_list' = asset_list
  BY DEF AppendDeposit
<1>7. DOMAIN by_asset' = DOMAIN by_asset
  BY <1>6
<1>8. DOMAIN by_asset \subseteq Assets
      /\ \A a \in DOMAIN by_asset : by_asset[a] \in AssetRows
  BY DEF RegistryTypeOK, IsTable
<1>9. \A a \in DOMAIN by_asset : by_asset'[a] \in AssetRows
  BY <1>6, <1>8 DEF AssetRows
<1> QED BY <1>5, <1>6, <1>7, <1>8, <1>9 DEF RegistryTypeOK, IsTable

\* The deposit entries preserve the types.
LEMMA DepositTypes == TypeOK /\ DepositStep => TypeOK'
<1> SUFFICES ASSUME TypeOK, DepositStep PROVE TypeOK'
  OBVIOUS
<1> USE DEF TypeOK
<1>1. ASSUME NEW d \in DepositIntents, PrepareDepositBinding(d) PROVE TypeOK'
  <2>1. DepositTypeOK'
    BY <1>1, PendingKeyType DEF PrepareDepositBinding, DepositTypeOK, IsTable
  <2> QED BY <1>1, <2>1, UnchangedTypes DEF PrepareDepositBinding
<1>2. ASSUME NEW d \in DepositIntents, NEW cached \in BOOLEAN,
             DepositStep2a(d, cached)
      PROVE  TypeOK'
  <2> DEFINE row == [sender |-> d.user, nonce |-> d.nonce, expiry |-> d.expiry]
  <2>1. row \in DepositRows
    BY PendingKeyType DEF DepositRows
  <2>2. deposit_finalizations' = Put(deposit_finalizations, PendingKey(d), row)
    BY <1>2 DEF DepositStep2a
  <2>3. IsTable(deposit_finalizations', PendingKeys, DepositRows)
    <3> HIDE DEF row
    <3> QED BY <2>1, <2>2, PendingKeyType, PutIsTable DEF DepositTypeOK
  <2>4. used_deposit_nonces' \subseteq Nonces /\ deposit_sender' = deposit_sender
    BY <1>2, PendingKeyType DEF DepositStep2a, DepositTypeOK
  <2>5. deposit_bindings' \subseteq PendingKeys
    BY <1>2, BindingTypes DEF DepositStep2a
  <2>6. DepositTypeOK'
    BY <2>3, <2>4, <2>5 DEF DepositTypeOK, IsTable
  <2> QED BY <1>2, <2>6, UnchangedTypes DEF DepositStep2a
<1>3. ASSUME NEW d \in DepositIntents, NEW cached \in BOOLEAN,
             DepositWithCommitment(d, cached)
      PROVE  TypeOK'
  <2>1. CoreTypeOK' /\ RegistryTypeOK'
    BY <1>3, PendingKeyType, AppendDepositTypes DEF DepositWithCommitment
  <2>2. deposit_bindings' \subseteq PendingKeys
    BY <1>3, BindingTypes DEF DepositWithCommitment
  <2>3. DepositTypeOK'
    BY <1>3, <2>2, PendingKeyType
       DEF DepositWithCommitment, DepositTypeOK, IsTable
  <2> QED BY <1>3, <2>1, <2>3, UnchangedTypes DEF DepositWithCommitment
<1>4. ASSUME NEW user \in Accounts, NEW commitment \in Commitments,
             DepositStep2b(user, commitment)
      PROVE  TypeOK'
  <2> DEFINE key == <<user, commitment>>
  <2>1. deposit_finalizations[key] \in DepositRows
    BY <1>4 DEF DepositStep2b, DepositTypeOK, IsTable
  <2>2. deposit_finalizations[key].nonce \in Nonces
    BY <2>1 DEF DepositRows
  <2>3. CoreTypeOK' /\ RegistryTypeOK'
    BY <1>4, <2>2, AppendDepositTypes DEF DepositStep2b
  <2>4. IsTable(deposit_finalizations', PendingKeys, DepositRows)
    BY <1>4, RemoveIsTable DEF DepositStep2b, DepositTypeOK
  <2>5. IsTable(deposit_sender', Commitments, Accounts)
    BY <1>4, PutIsTable DEF DepositStep2b, RecordDepositor, DepositTypeOK
  <2>6. DepositTypeOK'
    BY <1>4, <2>4, <2>5 DEF DepositStep2b, DepositTypeOK
  <2> QED BY <1>4, <2>3, <2>6, UnchangedTypes DEF DepositStep2b
<1> QED BY <1>1, <1>2, <1>3, <1>4 DEF DepositStep

----------------------------------------------------------------------------
(* Withdrawals and exits                                                   *)

\* The fields of a withdrawal the wallet forms.
LEMMA IntentTypes ==
    ASSUME NEW w \in WithdrawIntents
    PROVE  /\ w.note \in Commitments
           /\ w.change \in Commitments \cup {None}
           /\ w.recipient \in Accounts
           /\ w.tag \in Tags
           /\ w.expiry \in Nat
           /\ NoteAsset[w.note] \in Assets
BY BridgeConstants DEF WithdrawIntent

\* A request hash is a key of the four caches.
LEMMA HashType ==
    ASSUME NEW w \in WithdrawIntents, NEW sequence \in Nat
    PROVE  RequestHash(w, sequence) \in RequestHashes
BY IntentTypes DEF RequestHash, RequestHashes

\* Every exit keeps the sequence, the nullifiers and the exit log typed.
LEMMA SpendTypes ==
    ASSUME CoreTypeOK, NEW kind \in {"withdraw", "ragequit"},
           NEW note \in Commitments, NEW recipient \in Accounts,
           NEW change \in Commitments \cup {None}, NEW sequence \in Nat,
           kind = "ragequit" => change = None,
           Spend(kind, note, recipient, change, sequence)
    PROVE  /\ vault_sequence' \in Nat
           /\ used_nullifiers' \subseteq Commitments
           /\ exit_log' \in Seq(Exits)
<1> DEFINE exit == [kind |-> kind, note |-> note, recipient |-> recipient,
                    change |-> change, sequence |-> sequence]
<1>1. exit \in Exits
  BY DEF Exits
<1>2. exit_log' = Append(exit_log, exit)
  BY DEF Spend, LogExit
<1>3. exit_log' \in Seq(Exits)
  <2> HIDE DEF exit
  <2> QED BY <1>1, <1>2 DEF CoreTypeOK
<1> QED BY <1>3 DEF CoreTypeOK, Spend

\* The change leaf is a leaf.
LEMMA ChangeTypes ==
    ASSUME CoreTypeOK, NEW change \in Commitments \cup {None},
           AppendChange(change)
    PROVE  next_leaf_index' \in Nat /\ leaf_log' \in Seq(Leaves)
<1>1. CASE change = None
  BY <1>1 DEF AppendChange, CoreTypeOK
<1>2. CASE change # None
  <2> DEFINE leaf == [kind |-> "change", leaf_index |-> next_leaf_index',
                      commitment |-> change, user |-> None, nonce |-> None]
  <2>1. next_leaf_index' \in Nat
    BY <1>2 DEF AppendChange, CoreTypeOK
  <2>2. leaf \in Leaves
    BY <1>2, <2>1 DEF Leaves
  <2>3. leaf_log' = Append(leaf_log, leaf)
    BY <1>2 DEF AppendChange
  <2>4. leaf_log' \in Seq(Leaves)
    <3> HIDE DEF leaf
    <3> QED BY <2>2, <2>3 DEF CoreTypeOK
  <2> QED BY <2>1, <2>4
<1> QED BY <1>1, <1>2

\* The preparation entries preserve the types of the caches.
LEMMA PreparationTypes ==
    ASSUME TypeOK, NEW w \in WithdrawIntents, NEW root \in known_roots
    PROVE  /\ \A set \in AspSets : PrepareWithdrawProof(w, root, set) => TypeOK'
           /\ PrepareWithdrawAttestation(w, root) => TypeOK'
<1> USE DEF TypeOK
<1>0. vault_sequence \in Nat /\ root \in Nat /\ config \in Configs
  BY DEF CoreTypeOK, RootTypeOK, ControlTypeOK
<1> DEFINE hash == RequestHash(w, vault_sequence)
<1>h. hash \in RequestHashes
  BY <1>0, HashType
<1>1. ASSUME NEW set \in AspSets, PrepareWithdrawProof(w, root, set)
      PROVE  TypeOK'
  <2>1. ProofRow(w, root, vault_sequence) \in ProofRows
    BY <1>0, IntentTypes DEF ProofRow, ProofRows
  <2>2. proofs' = Put(proofs, hash, ProofRow(w, root, vault_sequence))
    BY <1>1 DEF PrepareWithdrawProof
  <2>3. IsTable(proofs', RequestHashes, ProofRows)
    <3> HIDE DEF hash
    <3> QED BY <1>h, <2>1, <2>2, PutIsTable DEF CacheTypeOK
  <2>4. CacheTypeOK'
    BY <1>1, <2>3 DEF PrepareWithdrawProof, CacheTypeOK
  <2> QED BY <1>1, <2>4, UnchangedTypes DEF PrepareWithdrawProof
<1>2. ASSUME PrepareWithdrawAttestation(w, root) PROVE TypeOK'
  <2>1. AttestedMessage(w, root) \in AttestationRows
    BY <1>0, IntentTypes DEF AttestedMessage, AttestationRows
  <2>2. attestations' = Put(attestations, hash, AttestedMessage(w, root))
    BY <1>2 DEF PrepareWithdrawAttestation
  <2>3. IsTable(attestations', RequestHashes, AttestationRows)
    <3> HIDE DEF hash
    <3> QED BY <1>h, <2>1, <2>2, PutIsTable DEF CacheTypeOK
  <2>4. CacheTypeOK'
    BY <1>2, <2>3 DEF PrepareWithdrawAttestation, CacheTypeOK
  <2> QED BY <1>2, <2>4, UnchangedTypes DEF PrepareWithdrawAttestation
<1> QED BY <1>1, <1>2

\* step2a consumes its rows and opens a finalization row of the right type.
LEMMA Step2aTypes ==
    ASSUME TypeOK, NEW w \in WithdrawIntents, NEW root \in known_roots,
           NEW submitter \in Accounts, WithdrawStep2a(submitter, w, root)
    PROVE  TypeOK'
<1> USE DEF TypeOK
<1> DEFINE hash == RequestHash(w, vault_sequence)
           key  == <<submitter, hash>>
           row  == [root |-> root, nullifier |-> w.note,
                    recipient |-> w.recipient, change |-> w.change,
                    sequence |-> vault_sequence, expiry |-> w.expiry]
<1>1. vault_sequence \in Nat /\ root \in Nat
  BY DEF CoreTypeOK, RootTypeOK
<1>2. key \in Accounts \X RequestHashes
  BY <1>1, HashType
<1>3. row \in FinalizationRows
  BY <1>1, IntentTypes DEF FinalizationRows
<1>4. finalizations' = Put(finalizations, key, row)
  BY DEF WithdrawStep2a
<1>5. FinalizationTypeOK'
  <2> HIDE DEF key, row
  <2> QED BY <1>2, <1>3, <1>4, PutIsTable DEF FinalizationTypeOK
<1>6. CacheTypeOK'
  <2>1. ConsumeCaches(hash, w.change)
    BY DEF WithdrawStep2a
  <2> HIDE DEF hash
  <2> QED BY <2>1, RemoveIsTable DEF ConsumeCaches, CacheTypeOK
<1> QED BY <1>5, <1>6, UnchangedTypes DEF WithdrawStep2a

\* The settlement of a finalization row preserves the types.
LEMMA Step2bTypes ==
    ASSUME TypeOK, NEW submitter \in Accounts, NEW hash,
           WithdrawStep2b(submitter, hash)
    PROVE  TypeOK'
<1> USE DEF TypeOK
<1> DEFINE key == <<submitter, hash>>
           row == finalizations[key]
<1>1. row \in FinalizationRows
  BY DEF WithdrawStep2b, FinalizationTypeOK, IsTable
<1>2. /\ row.nullifier \in Commitments
      /\ row.recipient \in Accounts
      /\ row.change \in Commitments \cup {None}
      /\ row.sequence \in Nat
  BY <1>1 DEF FinalizationRows
<1>3. /\ Spend("withdraw", row.nullifier, row.recipient, row.change, row.sequence)
      /\ AppendChange(row.change)
      /\ finalizations' = Remove(finalizations, key)
  BY DEF WithdrawStep2b
<1>4. FinalizationTypeOK'
  <2> HIDE DEF key
  <2> QED BY <1>3, RemoveIsTable DEF FinalizationTypeOK
<1>5. CoreTypeOK'
  <2> HIDE DEF row
  <2>1. /\ vault_sequence' \in Nat
        /\ used_nullifiers' \subseteq Commitments
        /\ exit_log' \in Seq(Exits)
    BY <1>2, <1>3, SpendTypes
  <2>2. next_leaf_index' \in Nat /\ leaf_log' \in Seq(Leaves)
    BY <1>2, <1>3, ChangeTypes
  <2> QED BY <2>1, <2>2 DEF CoreTypeOK
<1> QED BY <1>4, <1>5, UnchangedTypes DEF WithdrawStep2b

\* The withdrawal entries preserve the types.
LEMMA WithdrawTypes == TypeOK /\ WithdrawStep => TypeOK'
<1> SUFFICES ASSUME TypeOK, WithdrawStep PROVE TypeOK'
  OBVIOUS
<1> USE DEF TypeOK
<1>0. vault_sequence \in Nat /\ 0 .. vault_sequence \subseteq Nat
  BY DEF CoreTypeOK
<1>1. ASSUME NEW w \in WithdrawIntents, NEW root \in known_roots,
             \/ \E set \in AspSets : PrepareWithdrawProof(w, root, set)
             \/ PrepareWithdrawAttestation(w, root)
      PROVE  TypeOK'
  BY <1>1, PreparationTypes
<1>2. ASSUME NEW w \in WithdrawIntents, NEW root \in known_roots,
             NEW submitter \in Accounts, WithdrawStep2a(submitter, w, root)
      PROVE  TypeOK'
  BY <1>2, Step2aTypes
<1>3. ASSUME NEW w \in WithdrawIntents, NEW root \in known_roots,
             NEW set \in AspSets, NEW attested \in BOOLEAN, NEW proven \in BOOLEAN,
             WithdrawToRecipient(w, root, set, attested, proven)
      PROVE  TypeOK'
  <2> DEFINE hash == RequestHash(w, vault_sequence)
  <2>1. CacheTypeOK'
    <3>1. /\ payloads' = Remove(payloads, hash)
          /\ \/ attestations' = Remove(attestations, hash)
             \/ attestations' = attestations
          /\ proofs' = Remove(proofs, hash) \/ proofs' = proofs
          /\ conservations' = conservations
      BY <1>3 DEF WithdrawToRecipient
    <3> HIDE DEF hash
    <3> QED BY <3>1, RemoveIsTable DEF CacheTypeOK
  <2>2. Spend("withdraw", w.note, w.recipient, None, vault_sequence)
        /\ UNCHANGED <<next_leaf_index, leaf_log>>
    BY <1>3 DEF WithdrawToRecipient
  <2>3. CoreTypeOK'
    BY <1>0, <2>2, IntentTypes, SpendTypes DEF CoreTypeOK
  <2> QED BY <1>3, <2>1, <2>3, UnchangedTypes DEF WithdrawToRecipient
<1>4. ASSUME NEW hash \in DOMAIN proofs, PrepareWithdrawPayload(hash)
      PROVE  TypeOK'
  <2> DEFINE row == [digest |-> proofs[hash].digest]
  <2>1. hash \in RequestHashes /\ proofs[hash] \in ProofRows
    BY DEF CacheTypeOK, IsTable
  <2>2. row \in DigestRows
    BY <2>1 DEF ProofRows, DigestRows
  <2>3. payloads' = Put(payloads, hash, row)
    BY <1>4 DEF PrepareWithdrawPayload
  <2>4. IsTable(payloads', RequestHashes, DigestRows)
    <3> HIDE DEF row
    <3> QED BY <2>1, <2>2, <2>3, PutIsTable DEF CacheTypeOK
  <2>5. CacheTypeOK'
    BY <1>4, <2>4 DEF PrepareWithdrawPayload, CacheTypeOK
  <2> QED BY <1>4, <2>5, UnchangedTypes DEF PrepareWithdrawPayload
<1>5. ASSUME NEW w \in WithdrawIntents, NEW sequence \in 0 .. vault_sequence,
             PrepareWithdrawConservation(w, sequence)
      PROVE  TypeOK'
  <2> DEFINE hash == RequestHash(w, sequence)
             row == [digest |-> w.note]
  <2>1. hash \in RequestHashes
    BY <1>0, HashType
  <2>2. row \in DigestRows
    BY IntentTypes DEF DigestRows
  <2>3. conservations' = Put(conservations, hash, row)
    BY <1>5 DEF PrepareWithdrawConservation
  <2>4. IsTable(conservations', RequestHashes, DigestRows)
    <3> HIDE DEF hash, row
    <3> QED BY <2>1, <2>2, <2>3, PutIsTable DEF CacheTypeOK
  <2>5. CacheTypeOK'
    BY <1>5, <2>4 DEF PrepareWithdrawConservation, CacheTypeOK
  <2> QED BY <1>5, <2>5, UnchangedTypes DEF PrepareWithdrawConservation
<1>6. ASSUME NEW submitter \in Accounts, NEW hash,
             WithdrawStep2b(submitter, hash)
      PROVE  TypeOK'
  BY <1>6, Step2bTypes
<1>7. ASSUME NEW depositor \in Accounts, NEW asset \in Assets,
             NEW commitment \in Commitments, NEW root \in known_roots,
             Ragequit(depositor, asset, commitment, root)
      PROVE  TypeOK'
  <2>1. deposit_sender[commitment] \in Accounts
    BY <1>7 DEF Ragequit, DepositTypeOK, IsTable
  <2>2. Spend("ragequit", commitment, deposit_sender[commitment], None,
              vault_sequence)
        /\ UNCHANGED <<next_leaf_index, leaf_log>>
    BY <1>7 DEF Ragequit
  <2>3. CoreTypeOK'
    BY <1>0, <2>1, <2>2, SpendTypes DEF CoreTypeOK
  <2> QED BY <1>7, <2>3, UnchangedTypes DEF Ragequit
<1>8. ASSUME NEW e \in ExitIntents, EmergencyExit(e) PROVE TypeOK'
  <2> DEFINE exit == [kind |-> "emergency", note |-> None,
                      recipient |-> e.recipient, change |-> None,
                      sequence |-> vault_sequence]
  <2>1. exit \in Exits
    BY <1>0, BridgeConstants DEF Exits, ExitIntent
  <2>2. exit_log' = Append(exit_log, exit)
    BY <1>8 DEF EmergencyExit, LogExit
  <2>3. exit_log' \in Seq(Exits)
    <3> HIDE DEF exit
    <3> QED BY <2>1, <2>2 DEF CoreTypeOK
  <2>4. CoreTypeOK'
    BY <1>8, <2>3 DEF EmergencyExit, CoreTypeOK
  <2> QED BY <1>8, <2>4, UnchangedTypes DEF EmergencyExit
<1> QED BY <1>1, <1>2, <1>3, <1>4, <1>5, <1>6, <1>7, <1>8 DEF WithdrawStep

\* The state init_v4 leaves is well typed.
LEMMA InitTypes == Init => TypeOK
<1> SUFFICES ASSUME Init PROVE TypeOK
  OBVIOUS
<1> USE BridgeConstants DEF Init
<1>1. CoreTypeOK /\ DepositTypeOK /\ CacheTypeOK /\ FinalizationTypeOK
      /\ RootTypeOK
  BY DEF CoreTypeOK, DepositTypeOK, CacheTypeOK, FinalizationTypeOK,
         RootTypeOK, IsTable
<1>2. ControlTypeOK
  <2>1. MaxEpoch \in Nat
    BY BridgeConstants
  <2>2. [epoch |-> 0, vault_ek |-> GenesisEk] \in Configs
    BY <2>1 DEF Configs
  <2> QED BY <2>2 DEF ControlTypeOK
<1>3. RegistryTypeOK
  BY DEF RegistryTypeOK, IsTable, AssetRows
<1> QED BY <1>1, <1>2, <1>3 DEF TypeOK

LEMMA TypesInductive ==
    ASSUME TypeOK, [Next]_vars
    PROVE  TypeOK'
<1>1. CASE Next
  BY <1>1, AdminTypes, DepositTypes, WithdrawTypes DEF Next
<1>2. CASE UNCHANGED vars
  BY <1>2, UnchangedTypes DEF vars, TypeOK
<1> QED BY <1>1, <1>2

\* Every entry keeps every resource of its Move type, whatever the accounts,
\* assets, commitments, intents and bounds are.
THEOREM TypeCorrect == Spec => []TypeOK
BY InitTypes, TypesInductive, PTL DEF Spec

----------------------------------------------------------------------------
(* What a step does to the exits                                           *)

\* The exits after one more: a note not yet spent, or an emergency drain.
Spends(note, recipient, change) ==
    /\ note \in Commitments \ used_nullifiers
    /\ used_nullifiers' = used_nullifiers \cup {note}
    /\ vault_sequence' = vault_sequence + 1
    /\ \E kind \in {"withdraw", "ragequit"} :
          LogExit(kind, note, recipient, change, vault_sequence)

Drains(recipient) ==
    /\ used_nullifiers' = used_nullifiers
    /\ vault_sequence' = vault_sequence + 1
    /\ LogExit("emergency", None, recipient, None, vault_sequence)

ExitsUnchanged == UNCHANGED <<used_nullifiers, vault_sequence, exit_log>>

\* Every step performs at most one exit, of a note that was unspent, numbered
\* with the sequence before the step.
LEMMA StepExits ==
    ASSUME TypeOK, [Next]_vars
    PROVE  \/ ExitsUnchanged
           \/ \E note, recipient, change : Spends(note, recipient, change)
           \/ \E recipient : Drains(recipient)
<1> USE DEF ExitsUnchanged
<1>1. CASE UNCHANGED vars
  BY <1>1 DEF vars, coreVars
<1>2. CASE AdminStep
  BY <1>2 DEF AdminStep, RegisterAsset, ActivateAsset, RotateConfig,
       SetLegacyPause, RecordKnownRoot, RecordAspRoot, EvictStaleDeposits,
       Tick, SetAllowListed, coreVars
<1>3. CASE DepositStep
  BY <1>3 DEF DepositStep, PrepareDepositBinding, DepositStep2a, DepositStep2b,
       DepositWithCommitment, AppendDeposit, coreVars
<1>4. CASE WithdrawStep
  <2>1. ASSUME NEW w \in WithdrawIntents, NEW root \in known_roots,
               \/ \E set \in AspSets : PrepareWithdrawProof(w, root, set)
               \/ PrepareWithdrawAttestation(w, root)
               \/ \E submitter \in Accounts : WithdrawStep2a(submitter, w, root)
        PROVE  ExitsUnchanged
    BY <2>1 DEF PrepareWithdrawProof, PrepareWithdrawAttestation,
         WithdrawStep2a, coreVars
  <2>2. ASSUME NEW hash, PrepareWithdrawPayload(hash) PROVE ExitsUnchanged
    BY <2>2 DEF PrepareWithdrawPayload, coreVars
  <2>3. ASSUME NEW w, NEW sequence, PrepareWithdrawConservation(w, sequence)
        PROVE  ExitsUnchanged
    BY <2>3 DEF PrepareWithdrawConservation, coreVars
  <2>4. ASSUME NEW w \in WithdrawIntents, NEW root \in known_roots, NEW set,
               NEW attested, NEW proven,
               WithdrawToRecipient(w, root, set, attested, proven)
        PROVE  Spends(w.note, w.recipient, None)
    BY <2>4, IntentTypes DEF WithdrawToRecipient, Spendable, Spend, Spends
  <2>5. ASSUME NEW submitter, NEW hash, WithdrawStep2b(submitter, hash)
        PROVE  \E note, recipient, change : Spends(note, recipient, change)
    <3> DEFINE row == finalizations[<<submitter, hash>>]
    <3>1. row \in FinalizationRows
      BY <2>5 DEF WithdrawStep2b, TypeOK, FinalizationTypeOK, IsTable
    <3>2. row.nullifier \in Commitments
      BY <3>1 DEF FinalizationRows
    <3>3. /\ Settles(row)
          /\ Spend("withdraw", row.nullifier, row.recipient, row.change,
                   row.sequence)
      BY <2>5 DEF WithdrawStep2b
    <3> HIDE DEF row
    <3>4. Spends(row.nullifier, row.recipient, row.change)
      BY <3>2, <3>3 DEF Settles, Spend, Spends
    <3> QED BY <3>4
  <2>6. ASSUME NEW depositor, NEW asset, NEW commitment \in Commitments,
               NEW root, Ragequit(depositor, asset, commitment, root)
        PROVE  Spends(commitment, deposit_sender[commitment], None)
    BY <2>6 DEF Ragequit, Spend, Spends
  <2>7. ASSUME NEW e \in ExitIntents, EmergencyExit(e) PROVE Drains(e.recipient)
    BY <2>7 DEF EmergencyExit, Drains
  <2> QED BY <1>4, <2>1, <2>2, <2>3, <2>4, <2>5, <2>6, <2>7 DEF WithdrawStep
<1> QED BY <1>1, <1>2, <1>3, <1>4 DEF Next

\* The nullifier table is complete: no spent note is missing from it.
SpentAreMarked ==
    \A i \in SpendingExits : exit_log[i].note \in used_nullifiers

\* Appending the record of an exit.
LEMMA LogExitAppends ==
    ASSUME CoreTypeOK, NEW kind, NEW note, NEW recipient, NEW change,
           NEW sequence, LogExit(kind, note, recipient, change, sequence)
    PROVE  /\ Len(exit_log) \in Nat
           /\ Len(exit_log') = Len(exit_log) + 1
           /\ \A i \in 1 .. Len(exit_log) : exit_log'[i] = exit_log[i]
           /\ exit_log'[Len(exit_log) + 1].kind = kind
           /\ exit_log'[Len(exit_log) + 1].note = note
           /\ exit_log'[Len(exit_log) + 1].recipient = recipient
           /\ exit_log'[Len(exit_log) + 1].sequence = sequence
<1> DEFINE exit == [kind |-> kind, note |-> note, recipient |-> recipient,
                    change |-> change, sequence |-> sequence]
<1>1. exit_log' = Append(exit_log, exit) /\ exit_log \in Seq(Exits)
  BY DEF LogExit, CoreTypeOK
<1> HIDE DEF exit
<1>2. /\ Len(exit_log) \in Nat
      /\ Len(exit_log') = Len(exit_log) + 1
      /\ \A i \in 1 .. Len(exit_log) : exit_log'[i] = exit_log[i]
      /\ exit_log'[Len(exit_log) + 1] = exit
  BY <1>1
<1>3. /\ exit.kind = kind
      /\ exit.note = note
      /\ exit.recipient = recipient
      /\ exit.sequence = sequence
  BY DEF exit
<1> QED BY <1>2, <1>3

\* One more exit, numbered with the sequence it advances, stays in order.
LEMMA NextExitIsSequenced ==
    ASSUME CoreTypeOK, ExitsAreSequenced,
           vault_sequence' = vault_sequence + 1,
           Len(exit_log') = Len(exit_log) + 1,
           \A i \in 1 .. Len(exit_log) : exit_log'[i] = exit_log[i],
           exit_log'[Len(exit_log) + 1].sequence = vault_sequence
    PROVE  ExitsAreSequenced'
<1>1. vault_sequence \in Nat /\ Len(exit_log) = vault_sequence
  BY DEF CoreTypeOK, ExitsAreSequenced
<1>2. ASSUME NEW i \in 1 .. Len(exit_log') PROVE exit_log'[i].sequence = i - 1
  <2>1. i \in 1 .. Len(exit_log) \/ i = Len(exit_log) + 1
    BY <1>1
  <2> QED BY <1>1, <2>1 DEF ExitsAreSequenced
<1> QED BY <1>1, <1>2 DEF ExitsAreSequenced

ExitInvariant == SpentAreMarked /\ NoDoubleSpend /\ ExitsAreSequenced

\* Marking and numbering are inductive together with the types.
LEMMA ExitInvariantInductive ==
    ASSUME TypeOK, [Next]_vars, ExitInvariant
    PROVE  ExitInvariant'
<1> USE DEF ExitInvariant
<1>0. CoreTypeOK
  BY DEF TypeOK
<1>1. CASE ExitsUnchanged
  BY <1>1 DEF ExitsUnchanged, SpentAreMarked, NoDoubleSpend, ExitsAreSequenced,
       SpendingExits
<1>2. ASSUME NEW note, NEW recipient, NEW change, Spends(note, recipient, change)
      PROVE  ExitInvariant'
  <2>1. PICK kind \in {"withdraw", "ragequit"} :
            LogExit(kind, note, recipient, change, vault_sequence)
    BY <1>2 DEF Spends
  <2>2. /\ Len(exit_log) \in Nat
        /\ Len(exit_log') = Len(exit_log) + 1
        /\ \A i \in 1 .. Len(exit_log) : exit_log'[i] = exit_log[i]
        /\ exit_log'[Len(exit_log) + 1].kind = kind
        /\ exit_log'[Len(exit_log) + 1].note = note
        /\ exit_log'[Len(exit_log) + 1].sequence = vault_sequence
    BY <1>0, <2>1, LogExitAppends
  <2>3. /\ note \notin used_nullifiers
        /\ used_nullifiers' = used_nullifiers \cup {note}
        /\ vault_sequence' = vault_sequence + 1
    BY <1>2 DEF Spends
  <2>4. SpendingExits' = SpendingExits \cup {Len(exit_log) + 1}
    BY <2>1, <2>2 DEF SpendingExits
  <2>5. SpendingExits \subseteq 1 .. Len(exit_log)
    BY DEF SpendingExits
  <2>6. SpentAreMarked'
    BY <2>2, <2>3, <2>4, <2>5 DEF SpentAreMarked
  <2>7. NoDoubleSpend'
    BY <2>2, <2>3, <2>4, <2>5 DEF NoDoubleSpend, SpentAreMarked
  <2>8. ExitsAreSequenced'
    BY <1>0, <2>2, <2>3, NextExitIsSequenced
  <2> QED BY <2>6, <2>7, <2>8
<1>3. ASSUME NEW recipient, Drains(recipient) PROVE ExitInvariant'
  <2>1. LogExit("emergency", None, recipient, None, vault_sequence)
    BY <1>3 DEF Drains
  <2>2. /\ Len(exit_log) \in Nat
        /\ Len(exit_log') = Len(exit_log) + 1
        /\ \A i \in 1 .. Len(exit_log) : exit_log'[i] = exit_log[i]
        /\ exit_log'[Len(exit_log) + 1].kind = "emergency"
        /\ exit_log'[Len(exit_log) + 1].sequence = vault_sequence
    BY <1>0, <2>1, LogExitAppends
  <2>3. SpendingExits' = SpendingExits
    BY <2>2 DEF SpendingExits
  <2>4. SpendingExits \subseteq 1 .. Len(exit_log)
    BY DEF SpendingExits
  <2>5. SpentAreMarked' /\ NoDoubleSpend'
    BY <1>3, <2>2, <2>3, <2>4 DEF Drains, SpentAreMarked, NoDoubleSpend
  <2>6. ExitsAreSequenced'
    BY <1>0, <1>3, <2>2, NextExitIsSequenced DEF Drains
  <2> QED BY <2>5, <2>6
<1> QED BY <1>1, <1>2, <1>3, StepExits

\* No exits, nothing marked.
LEMMA ExitInvariantInit == Init => ExitInvariant
BY DEF Init, ExitInvariant, SpentAreMarked, NoDoubleSpend, ExitsAreSequenced,
       SpendingExits

\* The marking and the numbering hold in every reachable state.
LEMMA ExitInvariantHolds == Spec => []ExitInvariant
BY ExitInvariantInit, ExitInvariantInductive, TypeCorrect, PTL DEF Spec

\* A note leaves the vault at most once, for any number of accounts, requests,
\* cached rows and exits: the nullifier every spending entry checks and marks
\* (step2b l.2287, the one-transaction withdrawal, ragequit) joins them.
THEOREM NotesSpentOnce == Spec => []NoDoubleSpend
BY ExitInvariantHolds, PTL DEF ExitInvariant

\* vault_sequence numbers every exit, of any kind, without gap or repeat, and
\* a settlement never uses a number other than its proof's.
THEOREM SequenceNumbersExits == Spec => []ExitsAreSequenced
BY ExitInvariantHolds, PTL DEF ExitInvariant

----------------------------------------------------------------------------
(* The withdrawal caches: a payload stays with the proof its digest came   *)
(* from, and a row for the present sequence never names a spent note       *)

\* The note is a leaf of the tree; some published association set holds it.
IsLeaf(note) == \E i \in 1 .. Len(leaf_log) : leaf_log[i].commitment = note

IsApproved(note) == \E i \in 1 .. Len(asp_sets) : note \in asp_sets[i]

\* The caches the two properties are about.
CachesUnchanged == UNCHANGED <<proofs, payloads>>

\* A payload row goes, and perhaps the proof row of its hash with it.
DropsPayload(hash) ==
    /\ payloads' = Remove(payloads, hash)
    /\ proofs' = proofs \/ proofs' = Remove(proofs, hash)

\* A proof row for an unspent and approved leaf at the present sequence, on a
\* free hash.
AddsProof(hash) ==
    /\ hash \in RequestHashes /\ hash \notin DOMAIN proofs
    /\ hash[4] = vault_sequence
    /\ \E row \in ProofRows :
          /\ row.sequence = vault_sequence
          /\ row.nullifier \notin used_nullifiers
          /\ IsLeaf(row.nullifier) /\ IsApproved(row.nullifier)
          /\ proofs' = Put(proofs, hash, row)
    /\ UNCHANGED payloads

AddsPayload(hash) ==
    /\ hash \in DOMAIN proofs
    /\ payloads' = Put(payloads, hash, [digest |-> proofs[hash].digest])
    /\ UNCHANGED proofs

\* What any step does to the proof and the payload cache.
LEMMA StepCaches ==
    ASSUME TypeOK, [Next]_vars
    PROVE  \/ CachesUnchanged
           \/ \E hash : DropsPayload(hash)
           \/ ExitsUnchanged /\ \E hash : AddsProof(hash)
           \/ ExitsUnchanged /\ \E hash : AddsPayload(hash)
<1> USE DEF CachesUnchanged, cacheVars
<1>1. CASE UNCHANGED vars
  BY <1>1 DEF vars
<1>2. CASE AdminStep
  BY <1>2 DEF AdminStep, RegisterAsset, ActivateAsset, RotateConfig,
       SetLegacyPause, RecordKnownRoot, RecordAspRoot, EvictStaleDeposits,
       Tick, SetAllowListed
<1>3. CASE DepositStep
  BY <1>3 DEF DepositStep, PrepareDepositBinding, DepositStep2a, DepositStep2b,
       DepositWithCommitment
<1>4. CASE WithdrawStep
  <2>1. ASSUME NEW w \in WithdrawIntents, NEW root \in known_roots,
               NEW set \in AspSets, PrepareWithdrawProof(w, root, set)
        PROVE  ExitsUnchanged /\ AddsProof(RequestHash(w, vault_sequence))
    <3> DEFINE row == ProofRow(w, root, vault_sequence)
               hash == RequestHash(w, vault_sequence)
    <3>1. vault_sequence \in Nat /\ root \in Nat
      BY DEF TypeOK, CoreTypeOK, RootTypeOK
    <3>2. row \in ProofRows /\ row.sequence = vault_sequence
          /\ row.nullifier = w.note
      BY <3>1, IntentTypes DEF ProofRow, ProofRows
    <3>3. hash \in RequestHashes /\ hash[4] = vault_sequence
      BY <3>1, HashType DEF RequestHash
    <3>4. /\ hash \notin DOMAIN proofs
          /\ w.note \notin used_nullifiers
          /\ proofs' = Put(proofs, hash, row)
          /\ UNCHANGED payloads
          /\ ExitsUnchanged
      BY <2>1 DEF PrepareWithdrawProof, Spendable, coreVars, ExitsUnchanged
    <3>5. IsLeaf(w.note) /\ IsApproved(w.note)
      BY <2>1 DEF PrepareWithdrawProof, WithdrawProofHolds, InTree,
           InRecentWindow, IsLeaf, IsApproved
    <3> HIDE DEF row, hash
    <3>6. AddsProof(hash)
      BY <3>2, <3>3, <3>4, <3>5 DEF AddsProof
    <3> QED BY <3>4, <3>6 DEF hash
  <2>2. ASSUME NEW w \in WithdrawIntents, NEW root \in known_roots,
               PrepareWithdrawAttestation(w, root)
        PROVE  CachesUnchanged
    BY <2>2 DEF PrepareWithdrawAttestation
  <2>3. ASSUME NEW w, NEW root, NEW submitter,
               WithdrawStep2a(submitter, w, root)
        PROVE  \E hash : DropsPayload(hash)
    BY <2>3 DEF WithdrawStep2a, ConsumeCaches, DropsPayload
  <2>4. ASSUME NEW hash, PrepareWithdrawPayload(hash)
        PROVE  ExitsUnchanged /\ AddsPayload(hash)
    BY <2>4 DEF PrepareWithdrawPayload, AddsPayload, coreVars, ExitsUnchanged
  <2>5. ASSUME NEW w, NEW sequence, PrepareWithdrawConservation(w, sequence)
        PROVE  CachesUnchanged
    BY <2>5 DEF PrepareWithdrawConservation
  <2>6. ASSUME NEW w, NEW root, NEW set, NEW attested, NEW proven \in BOOLEAN,
               WithdrawToRecipient(w, root, set, attested, proven)
        PROVE  \E hash : DropsPayload(hash)
    BY <2>6 DEF WithdrawToRecipient, DropsPayload
  <2>7. ASSUME NEW submitter, NEW hash, WithdrawStep2b(submitter, hash)
        PROVE  CachesUnchanged
    BY <2>7 DEF WithdrawStep2b
  <2>8. ASSUME NEW depositor, NEW asset, NEW commitment, NEW root,
               Ragequit(depositor, asset, commitment, root)
        PROVE  CachesUnchanged
    BY <2>8 DEF Ragequit
  <2>9. ASSUME NEW e, EmergencyExit(e) PROVE CachesUnchanged
    BY <2>9 DEF EmergencyExit
  <2> QED BY <1>4, <2>1, <2>2, <2>3, <2>4, <2>5, <2>6, <2>7, <2>8, <2>9
          DEF WithdrawStep
<1> QED BY <1>1, <1>2, <1>3, <1>4 DEF Next

\* Whatever fills and empties the caches, a payload keeps the proof its digest
\* was taken from.
LEMMA PayloadFollowsInductive ==
    ASSUME TypeOK, [Next]_vars, PayloadFollowsProof
    PROVE  PayloadFollowsProof'
<1>1. CASE CachesUnchanged
  BY <1>1 DEF CachesUnchanged, PayloadFollowsProof
<1>2. ASSUME NEW hash, DropsPayload(hash) PROVE PayloadFollowsProof'
  BY <1>2 DEF DropsPayload, PayloadFollowsProof, Remove
<1>3. ASSUME NEW hash, AddsProof(hash) PROVE PayloadFollowsProof'
  BY <1>3 DEF AddsProof, PayloadFollowsProof, Put
<1>4. ASSUME NEW hash, AddsPayload(hash) PROVE PayloadFollowsProof'
  BY <1>4 DEF AddsPayload, PayloadFollowsProof, Put
<1> QED BY <1>1, <1>2, <1>3, <1>4, StepCaches

\* A cached payload never outlives the proof it took its digest from: the
\* digest step2a binds the two with (l.4784) is never another proof's.
THEOREM PayloadStaysWithProof == Spec => []PayloadFollowsProof
<1>1. Init => PayloadFollowsProof
  BY DEF Init, PayloadFollowsProof
<1> QED BY <1>1, PayloadFollowsInductive, TypeCorrect, PTL DEF Spec

----------------------------------------------------------------------------
(* Finalization rows                                                       *)

\* The row, under this request hash, is for this withdrawal.
RowIsFor(row, hash, w) ==
    /\ hash = RequestHash(w, row.sequence)
    /\ row.nullifier = w.note
    /\ row.recipient = w.recipient
    /\ row.change = w.change

\* A finalization row for an unspent note a proof row names, at the present
\* sequence.
OpensRow(key) ==
    /\ key \in Accounts \X RequestHashes
    /\ key[2][4] = vault_sequence
    /\ \E row \in FinalizationRows :
          /\ row.sequence = vault_sequence
          /\ \E w \in WithdrawIntents : RowIsFor(row, key[2], w)
          /\ row.nullifier \notin used_nullifiers
          /\ \E h \in DOMAIN proofs : row.nullifier = proofs[h].nullifier
          /\ finalizations' = Put(finalizations, key, row)

\* The row leaves the table for the log of the exits, under the sequence it
\* names.
ClosesRow(key) ==
    LET row == finalizations[key]
    IN  /\ key \in DOMAIN finalizations
        /\ finalizations' = Remove(finalizations, key)
        /\ vault_sequence = row.sequence
        /\ LogExit("withdraw", row.nullifier, row.recipient, row.change,
                   row.sequence)

\* What any step does to the finalization rows: only step2a opens one, and
\* only step2b closes one.
LEMMA StepFinalizations ==
    ASSUME TypeOK, [Next]_vars
    PROVE  \/ UNCHANGED finalizations
           \/ \E key : ClosesRow(key)
           \/ ExitsUnchanged /\ \E key : OpensRow(key)
<1>1. CASE UNCHANGED vars
  BY <1>1 DEF vars
<1>2. CASE AdminStep
  BY <1>2 DEF AdminStep, RegisterAsset, ActivateAsset, RotateConfig,
       SetLegacyPause, RecordKnownRoot, RecordAspRoot, EvictStaleDeposits,
       Tick, SetAllowListed
<1>3. CASE DepositStep
  BY <1>3 DEF DepositStep, PrepareDepositBinding, DepositStep2a, DepositStep2b,
       DepositWithCommitment
<1>4. CASE WithdrawStep
  <2>1. ASSUME NEW w, NEW root,
               \/ \E set \in AspSets : PrepareWithdrawProof(w, root, set)
               \/ PrepareWithdrawAttestation(w, root)
        PROVE  UNCHANGED finalizations
    BY <2>1 DEF PrepareWithdrawProof, PrepareWithdrawAttestation
  <2>2. ASSUME NEW w \in WithdrawIntents, NEW root \in known_roots,
               NEW submitter \in Accounts, WithdrawStep2a(submitter, w, root)
        PROVE  ExitsUnchanged /\ OpensRow(<<submitter, RequestHash(w, vault_sequence)>>)
    <3> DEFINE row == [root |-> root, nullifier |-> w.note,
                       recipient |-> w.recipient, change |-> w.change,
                       sequence |-> vault_sequence, expiry |-> w.expiry]
               hash == RequestHash(w, vault_sequence)
    <3>1. vault_sequence \in Nat /\ root \in Nat
      BY DEF TypeOK, CoreTypeOK, RootTypeOK
    <3>2. row \in FinalizationRows /\ row.sequence = vault_sequence
          /\ row.nullifier = w.note
      BY <3>1, IntentTypes DEF FinalizationRows
    <3>3. hash \in RequestHashes /\ hash[4] = vault_sequence
          /\ RowIsFor(row, hash, w)
      BY <3>1, HashType DEF RequestHash, RowIsFor
    <3>4. /\ w.note \notin used_nullifiers
          /\ finalizations' = Put(finalizations, <<submitter, hash>>, row)
          /\ ExitsUnchanged
      BY <2>2 DEF WithdrawStep2a, Step2aVerified, Spendable, coreVars,
           ExitsUnchanged
    <3>5. hash \in DOMAIN proofs /\ proofs[hash].nullifier = w.note
      BY <2>2 DEF WithdrawStep2a, Step2aVerified, ProofMatches, ProofRow
    <3> HIDE DEF row, hash
    <3>6. OpensRow(<<submitter, hash>>)
      BY <3>2, <3>3, <3>4, <3>5 DEF OpensRow
    <3> QED BY <3>4, <3>6 DEF hash
  <2>3. ASSUME NEW hash, PrepareWithdrawPayload(hash)
        PROVE  UNCHANGED finalizations
    BY <2>3 DEF PrepareWithdrawPayload
  <2>4. ASSUME NEW w, NEW sequence, PrepareWithdrawConservation(w, sequence)
        PROVE  UNCHANGED finalizations
    BY <2>4 DEF PrepareWithdrawConservation
  <2>5. ASSUME NEW w, NEW root, NEW set, NEW attested, NEW proven,
               WithdrawToRecipient(w, root, set, attested, proven)
        PROVE  UNCHANGED finalizations
    BY <2>5 DEF WithdrawToRecipient
  <2>6. ASSUME NEW submitter, NEW hash, WithdrawStep2b(submitter, hash)
        PROVE  \E key : ClosesRow(key)
    BY <2>6 DEF WithdrawStep2b, Settles, Spend, ClosesRow
  <2>7. ASSUME NEW depositor, NEW asset, NEW commitment, NEW root,
               Ragequit(depositor, asset, commitment, root)
        PROVE  UNCHANGED finalizations
    BY <2>7 DEF Ragequit
  <2>8. ASSUME NEW e, EmergencyExit(e) PROVE UNCHANGED finalizations
    BY <2>8 DEF EmergencyExit
  <2> QED BY <1>4, <2>1, <2>2, <2>3, <2>4, <2>5, <2>6, <2>7, <2>8
          DEF WithdrawStep
<1> QED BY <1>1, <1>2, <1>3, <1>4 DEF Next

\* The two halves of InFlightUnspent.
ProofsInFlight ==
    \A h \in DOMAIN proofs :
        /\ proofs[h].sequence = h[4]
        /\ h[4] <= vault_sequence
        /\ h[4] = vault_sequence => proofs[h].nullifier \notin used_nullifiers

RowsInFlight ==
    \A k \in DOMAIN finalizations :
        /\ finalizations[k].sequence = k[2][4]
        /\ k[2][4] <= vault_sequence
        /\ k[2][4] = vault_sequence =>
              finalizations[k].nullifier \notin used_nullifiers

\* A step spends a nullifier only by advancing the sequence.
LEMMA SpendAdvances ==
    ASSUME TypeOK, [Next]_vars
    PROVE  /\ vault_sequence \in Nat
           /\ \/ ExitsUnchanged
              \/ vault_sequence' = vault_sequence + 1
<1>1. vault_sequence \in Nat
  BY DEF TypeOK, CoreTypeOK
<1> QED BY <1>1, StepExits DEF Spends, Drains

\* Proof rows: a new one is for an unspent note, and an exit leaves every row
\* behind the sequence.
LEMMA ProofsInFlightInductive ==
    ASSUME TypeOK, [Next]_vars, ProofsInFlight
    PROVE  ProofsInFlight'
<1>0. \A h \in DOMAIN proofs : h[4] \in Nat
  BY DEF TypeOK, CacheTypeOK, IsTable, RequestHashes
<1>1. CASE DOMAIN proofs' \subseteq DOMAIN proofs
           /\ \A h \in DOMAIN proofs' : proofs'[h] = proofs[h]
  <2>1. CASE ExitsUnchanged
    BY <1>1, <2>1 DEF ExitsUnchanged, ProofsInFlight
  <2>2. CASE vault_sequence' = vault_sequence + 1
    BY <1>0, <1>1, <2>2, SpendAdvances DEF ProofsInFlight
  <2> QED BY <2>1, <2>2, SpendAdvances
<1>2. ASSUME ExitsUnchanged, NEW hash, AddsProof(hash) PROVE ProofsInFlight'
  <2>1. PICK row \in ProofRows :
            /\ row.sequence = vault_sequence
            /\ row.nullifier \notin used_nullifiers
            /\ proofs' = Put(proofs, hash, row)
    BY <1>2 DEF AddsProof
  <2> QED BY <1>2, <2>1, SpendAdvances
          DEF AddsProof, ExitsUnchanged, ProofsInFlight, Put
<1>3. ASSUME CachesUnchanged \/ \E hash : DropsPayload(hash) \/ AddsPayload(hash)
      PROVE  DOMAIN proofs' \subseteq DOMAIN proofs
             /\ \A h \in DOMAIN proofs' : proofs'[h] = proofs[h]
  BY <1>3 DEF CachesUnchanged, DropsPayload, AddsPayload, Remove
<1> QED BY <1>1, <1>2, <1>3, StepCaches

\* Finalization rows: likewise.
LEMMA RowsInFlightInductive ==
    ASSUME TypeOK, [Next]_vars, RowsInFlight
    PROVE  RowsInFlight'
<1>0. \A k \in DOMAIN finalizations : k[2][4] \in Nat
  BY DEF TypeOK, FinalizationTypeOK, IsTable, RequestHashes
<1>1. CASE DOMAIN finalizations' \subseteq DOMAIN finalizations
           /\ \A k \in DOMAIN finalizations' : finalizations'[k] = finalizations[k]
  <2>1. CASE ExitsUnchanged
    BY <1>1, <2>1 DEF ExitsUnchanged, RowsInFlight
  <2>2. CASE vault_sequence' = vault_sequence + 1
    BY <1>0, <1>1, <2>2, SpendAdvances DEF RowsInFlight
  <2> QED BY <2>1, <2>2, SpendAdvances
<1>2. ASSUME ExitsUnchanged, NEW key, OpensRow(key) PROVE RowsInFlight'
  <2>1. PICK row \in FinalizationRows :
            /\ row.sequence = vault_sequence
            /\ row.nullifier \notin used_nullifiers
            /\ finalizations' = Put(finalizations, key, row)
    BY <1>2 DEF OpensRow
  <2> QED BY <1>2, <2>1, SpendAdvances
          DEF OpensRow, ExitsUnchanged, RowsInFlight, Put
<1>3. ASSUME UNCHANGED finalizations \/ \E key : ClosesRow(key)
      PROVE  DOMAIN finalizations' \subseteq DOMAIN finalizations
             /\ \A k \in DOMAIN finalizations' : finalizations'[k] = finalizations[k]
  BY <1>3 DEF ClosesRow, Remove
<1> QED BY <1>1, <1>2, <1>3, StepFinalizations

\* Rows for the present sequence name unspent notes, and no row names a future
\* sequence, however many submitters fill the caches and race the exits: a
\* spend always strands the rows it could race (l.2157, l.2291).
THEOREM SpendsStrandRows == Spec => []InFlightUnspent
<1>1. Init => ProofsInFlight /\ RowsInFlight
  BY DEF Init, ProofsInFlight, RowsInFlight
<1>2. TypeOK /\ [Next]_vars /\ ProofsInFlight /\ RowsInFlight
        => ProofsInFlight' /\ RowsInFlight'
  BY ProofsInFlightInductive, RowsInFlightInductive
<1>3. ProofsInFlight /\ RowsInFlight => InFlightUnspent
  BY DEF ProofsInFlight, RowsInFlight, InFlightUnspent
<1> QED BY <1>1, <1>2, <1>3, TypeCorrect, PTL DEF Spec

----------------------------------------------------------------------------
(* Leaves and association sets are never taken back                        *)

Grows(log, log_next) ==
    log_next = log \/ \E entry : log_next = Append(log, entry)

\* Every step leaves the events and the association sets as they are, or adds
\* one at the end.
LEMMA StepLogs ==
    ASSUME [Next]_vars
    PROVE  Grows(leaf_log, leaf_log') /\ Grows(asp_sets, asp_sets')
<1> USE DEF Grows, coreVars, rootVars
<1>1. CASE UNCHANGED vars
  BY <1>1 DEF vars
<1>2. CASE AdminStep
  BY <1>2 DEF AdminStep, RegisterAsset, ActivateAsset, RotateConfig,
       SetLegacyPause, RecordKnownRoot, RecordAspRoot, EvictStaleDeposits,
       Tick, SetAllowListed
<1>3. CASE DepositStep
  BY <1>3 DEF DepositStep, PrepareDepositBinding, DepositStep2a, DepositStep2b,
       DepositWithCommitment, AppendDeposit
<1>4. CASE WithdrawStep
  <2>1. ASSUME NEW w, NEW root,
               \/ \E set \in AspSets : PrepareWithdrawProof(w, root, set)
               \/ PrepareWithdrawAttestation(w, root)
               \/ \E submitter \in Accounts : WithdrawStep2a(submitter, w, root)
               \/ \E set \in AspSets, attested, proven \in BOOLEAN :
                     WithdrawToRecipient(w, root, set, attested, proven)
        PROVE  UNCHANGED <<leaf_log, asp_sets>>
    BY <2>1 DEF PrepareWithdrawProof, PrepareWithdrawAttestation,
         WithdrawStep2a, WithdrawToRecipient
  <2>2. ASSUME \/ \E hash \in DOMAIN proofs : PrepareWithdrawPayload(hash)
               \/ \E w \in WithdrawIntents, sequence \in 0 .. vault_sequence :
                     PrepareWithdrawConservation(w, sequence)
               \/ \E depositor \in Accounts, asset \in Assets,
                     commitment \in Commitments, root \in known_roots :
                        Ragequit(depositor, asset, commitment, root)
               \/ \E e \in ExitIntents : EmergencyExit(e)
        PROVE  UNCHANGED <<leaf_log, asp_sets>>
    BY <2>2 DEF PrepareWithdrawPayload, PrepareWithdrawConservation, Ragequit,
         EmergencyExit
  <2>3. ASSUME NEW submitter, NEW hash, WithdrawStep2b(submitter, hash)
        PROVE  Grows(leaf_log, leaf_log') /\ Grows(asp_sets, asp_sets')
    BY <2>3 DEF WithdrawStep2b, AppendChange
  <2> QED BY <1>4, <2>1, <2>2, <2>3 DEF WithdrawStep
<1> QED BY <1>1, <1>2, <1>3, <1>4 DEF Next

\* A leaf stays in the log, at its place.
LEMMA LeafLogStays ==
    ASSUME TypeOK, [Next]_vars
    PROVE  \A i \in 1 .. Len(leaf_log) :
              i \in 1 .. Len(leaf_log') /\ leaf_log'[i] = leaf_log[i]
<1>1. leaf_log \in Seq(Leaves)
  BY DEF TypeOK, CoreTypeOK
<1> QED BY <1>1, StepLogs DEF Grows

\* A leaf stays a leaf, and an approval stays published.
LEMMA LeavesStay ==
    ASSUME TypeOK, [Next]_vars, NEW note
    PROVE  /\ IsLeaf(note) => IsLeaf(note)'
           /\ IsApproved(note) => IsApproved(note)'
<1>1. leaf_log \in Seq(Leaves) /\ asp_sets \in Seq(AspSets)
  BY DEF TypeOK, CoreTypeOK, RootTypeOK
<1>2. ASSUME NEW S, NEW log \in Seq(S), NEW next, Grows(log, next)
      PROVE  \A i \in 1 .. Len(log) : i \in 1 .. Len(next) /\ next[i] = log[i]
  BY <1>2 DEF Grows
<1>3. /\ \A i \in 1 .. Len(leaf_log) :
            i \in 1 .. Len(leaf_log') /\ leaf_log'[i] = leaf_log[i]
      /\ \A i \in 1 .. Len(asp_sets) :
            i \in 1 .. Len(asp_sets') /\ asp_sets'[i] = asp_sets[i]
  BY <1>1, <1>2, StepLogs
<1> QED BY <1>3 DEF IsLeaf, IsApproved

----------------------------------------------------------------------------
(* Notes in flight                                                         *)

\* A verified proof or a finalization row waits for this note to be spent.
InFlight(note) ==
    \/ \E h \in DOMAIN proofs : proofs[h].nullifier = note
    \/ \E k \in DOMAIN finalizations : finalizations[k].nullifier = note

\* What the proof of a withdrawal showed still holds several steps later.
NotesInFlight ==
    \A note : InFlight(note) => IsLeaf(note) /\ IsApproved(note)

\* A row is added for a note of a verified proof or of an earlier row.
LEMMA NotesInFlightInductive ==
    ASSUME TypeOK, [Next]_vars, NotesInFlight
    PROVE  NotesInFlight'
<1>1. ASSUME NEW note, NEW h \in DOMAIN proofs', proofs'[h].nullifier = note
      PROVE  IsLeaf(note) /\ IsApproved(note)
  <2>1. CASE h \in DOMAIN proofs /\ proofs'[h] = proofs[h]
    BY <1>1, <2>1 DEF NotesInFlight, InFlight
  <2>2. ASSUME NEW hash, AddsProof(hash)
        PROVE  IsLeaf(note) /\ IsApproved(note)
    <3>1. CASE h = hash
      BY <1>1, <2>2, <3>1 DEF AddsProof, Put
    <3>2. CASE h # hash
      BY <1>1, <2>1, <2>2, <3>2 DEF AddsProof, Put
    <3> QED BY <3>1, <3>2
  <2>3. ASSUME CachesUnchanged \/ \E hash : DropsPayload(hash) \/ AddsPayload(hash)
        PROVE  h \in DOMAIN proofs /\ proofs'[h] = proofs[h]
    BY <1>1, <2>3 DEF CachesUnchanged, DropsPayload, AddsPayload, Remove
  <2> QED BY <2>1, <2>2, <2>3, StepCaches
<1>2. ASSUME NEW note, NEW k \in DOMAIN finalizations',
             finalizations'[k].nullifier = note
      PROVE  IsLeaf(note) /\ IsApproved(note)
  <2>1. CASE k \in DOMAIN finalizations /\ finalizations'[k] = finalizations[k]
    BY <1>2, <2>1 DEF NotesInFlight, InFlight
  <2>2. ASSUME NEW key, OpensRow(key)
        PROVE  IsLeaf(note) /\ IsApproved(note)
    <3>1. CASE k = key
      BY <1>2, <2>2, <3>1 DEF OpensRow, NotesInFlight, InFlight, Put
    <3>2. CASE k # key
      BY <1>2, <2>1, <2>2, <3>2 DEF OpensRow, Put
    <3> QED BY <3>1, <3>2
  <2>3. ASSUME UNCHANGED finalizations \/ \E key : ClosesRow(key)
        PROVE  k \in DOMAIN finalizations /\ finalizations'[k] = finalizations[k]
    BY <1>2, <2>3 DEF ClosesRow, Remove
  <2> QED BY <2>1, <2>2, <2>3, StepFinalizations
<1>3. ASSUME NEW note, InFlight(note)'
      PROVE  IsLeaf(note)' /\ IsApproved(note)'
  BY <1>1, <1>2, <1>3, LeavesStay DEF InFlight
<1> QED BY <1>3 DEF NotesInFlight

----------------------------------------------------------------------------
(* What a step does to the ledger                                          *)

AddsLeaf(note) ==
    \E leaf \in Leaves :
        leaf.commitment = note /\ leaf_log' = Append(leaf_log, leaf)

DepositsNote(note) ==
    /\ note \in Commitments
    /\ AddsLeaf(note)
    /\ UNCHANGED <<used_nullifiers, exit_log>>

\* An unspent leaf leaves the vault, a withdrawn one with an approval; its
\* remainder, if any, becomes a leaf.
ExitsNote(kind, note, change) ==
    /\ kind \in {"withdraw", "ragequit"}
    /\ note \in Commitments \ used_nullifiers
    /\ change \in Commitments \cup {None}
    /\ IsLeaf(note)
    /\ kind = "withdraw" => IsApproved(note)
    /\ used_nullifiers' = used_nullifiers \cup {note}
    /\ \E recipient, sequence : LogExit(kind, note, recipient, change, sequence)
    /\ IF change = None THEN UNCHANGED leaf_log ELSE AddsLeaf(change)

DrainsVault ==
    /\ UNCHANGED <<leaf_log, used_nullifiers>>
    /\ \E recipient, sequence :
          LogExit("emergency", None, recipient, None, sequence)

LedgerUnchanged == UNCHANGED <<leaf_log, used_nullifiers, exit_log>>

\* The deposit that settles is of a note the wallet or the row named.
LEMMA AppendedDeposit ==
    ASSUME TypeOK, NEW user \in Accounts, NEW commitment \in Commitments,
           NEW nonce \in Nonces, AppendDeposit(user, commitment, nonce)
    PROVE  DepositsNote(commitment)
<1> DEFINE leaf == [kind |-> "deposit", leaf_index |-> next_leaf_index',
                    commitment |-> commitment, user |-> user, nonce |-> nonce]
<1>1. /\ leaf_log' = Append(leaf_log, leaf)
      /\ UNCHANGED <<used_nullifiers, exit_log>>
  BY DEF AppendDeposit
<1>2. leaf \in Leaves /\ leaf.commitment = commitment
  BY DEF AppendDeposit, Leaves, TypeOK, CoreTypeOK
<1> HIDE DEF leaf
<1> QED BY <1>1, <1>2 DEF DepositsNote, AddsLeaf

\* The remainder of a partial withdrawal is a leaf of the same tree.
LEMMA AppendedChange ==
    ASSUME TypeOK, NEW change \in Commitments \cup {None}, AppendChange(change)
    PROVE  IF change = None THEN UNCHANGED leaf_log ELSE AddsLeaf(change)
<1>1. CASE change = None
  BY <1>1 DEF AppendChange
<1>2. CASE change # None
  <2> DEFINE leaf == [kind |-> "change", leaf_index |-> next_leaf_index',
                      commitment |-> change, user |-> None, nonce |-> None]
  <2>1. leaf_log' = Append(leaf_log, leaf)
    BY <1>2 DEF AppendChange
  <2>2. leaf \in Leaves /\ leaf.commitment = change
    BY <1>2 DEF AppendChange, Leaves, TypeOK, CoreTypeOK
  <2> HIDE DEF leaf
  <2> QED BY <1>2, <2>1, <2>2 DEF AddsLeaf
<1> QED BY <1>1, <1>2

\* What any step does to the ledger: the settlement finds in its row what the
\* proof showed, and the preparations touch nothing.
LEMMA StepLedger ==
    ASSUME TypeOK, NotesInFlight, [Next]_vars
    PROVE  \/ LedgerUnchanged
           \/ \E note : DepositsNote(note)
           \/ \E kind, note, change : ExitsNote(kind, note, change)
           \/ DrainsVault
<1> USE DEF LedgerUnchanged
<1>1. CASE UNCHANGED vars
  BY <1>1 DEF vars, coreVars
<1>2. CASE AdminStep
  BY <1>2 DEF AdminStep, RegisterAsset, ActivateAsset, RotateConfig,
       SetLegacyPause, RecordKnownRoot, RecordAspRoot, EvictStaleDeposits,
       Tick, SetAllowListed, coreVars
<1>3. CASE DepositStep
  <2>1. ASSUME NEW d, \/ PrepareDepositBinding(d)
                      \/ \E cached \in BOOLEAN : DepositStep2a(d, cached)
        PROVE  LedgerUnchanged
    BY <2>1 DEF PrepareDepositBinding, DepositStep2a, coreVars
  <2>2. ASSUME NEW d \in DepositIntents, NEW cached,
               DepositWithCommitment(d, cached)
        PROVE  DepositsNote(d.commitment)
    <3>1. d \in DepositIntent
      BY BridgeConstants
    <3>2. d.user \in Accounts /\ d.commitment \in Commitments /\ d.nonce \in Nonces
      BY <3>1 DEF DepositIntent
    <3>3. AppendDeposit(d.user, d.commitment, d.nonce)
      BY <2>2 DEF DepositWithCommitment
    <3> QED BY <3>2, <3>3, AppendedDeposit
  <2>3. ASSUME NEW user \in Accounts, NEW commitment \in Commitments,
               DepositStep2b(user, commitment)
        PROVE  DepositsNote(commitment)
    <3> DEFINE row == deposit_finalizations[<<user, commitment>>]
    <3>1. row \in DepositRows
      BY <2>3 DEF DepositStep2b, TypeOK, DepositTypeOK, IsTable
    <3>2. AppendDeposit(user, commitment, row.nonce)
      BY <2>3 DEF DepositStep2b
    <3>3. row.nonce \in Nonces
      BY <3>1 DEF DepositRows
    <3> HIDE DEF row
    <3> QED BY <3>2, <3>3, AppendedDeposit
  <2> QED BY <1>3, <2>1, <2>2, <2>3 DEF DepositStep
<1>4. CASE WithdrawStep
  <2>1. ASSUME NEW w, NEW root,
               \/ \E set \in AspSets : PrepareWithdrawProof(w, root, set)
               \/ PrepareWithdrawAttestation(w, root)
               \/ \E submitter \in Accounts : WithdrawStep2a(submitter, w, root)
        PROVE  LedgerUnchanged
    BY <2>1 DEF PrepareWithdrawProof, PrepareWithdrawAttestation,
         WithdrawStep2a, coreVars
  <2>2. ASSUME NEW hash, PrepareWithdrawPayload(hash) PROVE LedgerUnchanged
    BY <2>2 DEF PrepareWithdrawPayload, coreVars
  <2>3. ASSUME NEW w, NEW sequence, PrepareWithdrawConservation(w, sequence)
        PROVE  LedgerUnchanged
    BY <2>3 DEF PrepareWithdrawConservation, coreVars
  <2>4. ASSUME NEW w \in WithdrawIntents, NEW root \in known_roots, NEW set,
               NEW attested, NEW proven \in BOOLEAN,
               WithdrawToRecipient(w, root, set, attested, proven)
        PROVE  ExitsNote("withdraw", w.note, None)
    <3>1. IsLeaf(w.note) /\ IsApproved(w.note)
      <4>1. CASE proven
        <5>1. ProofMatches(RequestHash(w, vault_sequence), w, root, vault_sequence)
          BY <2>4, <4>1 DEF WithdrawToRecipient
        <5>2. InFlight(w.note)
          BY <5>1 DEF ProofMatches, ProofRow, InFlight
        <5> QED BY <5>2 DEF NotesInFlight
      <4>2. CASE ~proven
        BY <2>4, <4>2 DEF WithdrawToRecipient, WithdrawProofHolds, InTree,
             InRecentWindow, IsLeaf, IsApproved
      <4> QED BY <4>1, <4>2
    <3>2. /\ w.note \in Commitments \ used_nullifiers
          /\ Spend("withdraw", w.note, w.recipient, None, vault_sequence)
          /\ UNCHANGED leaf_log
      BY <2>4, IntentTypes DEF WithdrawToRecipient, Spendable
    <3> QED BY <3>1, <3>2 DEF Spend, ExitsNote
  <2>5. ASSUME NEW submitter, NEW hash, WithdrawStep2b(submitter, hash)
        PROVE  \E note, change : ExitsNote("withdraw", note, change)
    <3> DEFINE key == <<submitter, hash>>
               row == finalizations[key]
    <3>1. key \in DOMAIN finalizations /\ row \in FinalizationRows
      BY <2>5 DEF WithdrawStep2b, TypeOK, FinalizationTypeOK, IsTable
    <3>2. row.nullifier \in Commitments /\ row.change \in Commitments \cup {None}
      BY <3>1 DEF FinalizationRows
    <3>3. /\ Settles(row)
          /\ Spend("withdraw", row.nullifier, row.recipient, row.change,
                   row.sequence)
          /\ AppendChange(row.change)
      BY <2>5 DEF WithdrawStep2b
    <3>4. IsLeaf(row.nullifier) /\ IsApproved(row.nullifier)
      BY <3>1 DEF NotesInFlight, InFlight
    <3> HIDE DEF row, key
    <3>5. IF row.change = None THEN UNCHANGED leaf_log ELSE AddsLeaf(row.change)
      BY <3>2, <3>3, AppendedChange
    <3>6. ExitsNote("withdraw", row.nullifier, row.change)
      BY <3>2, <3>3, <3>4, <3>5 DEF Settles, Spend, ExitsNote
    <3> QED BY <3>6
  <2>6. ASSUME NEW depositor, NEW asset, NEW commitment \in Commitments,
               NEW root, Ragequit(depositor, asset, commitment, root)
        PROVE  ExitsNote("ragequit", commitment, None)
    BY <2>6 DEF Ragequit, RagequitProofHolds, InTree, IsLeaf, Spend, ExitsNote
  <2>7. ASSUME NEW e, EmergencyExit(e) PROVE DrainsVault
    BY <2>7 DEF EmergencyExit, DrainsVault
  <2> QED BY <1>4, <2>1, <2>2, <2>3, <2>4, <2>5, <2>6, <2>7 DEF WithdrawStep
<1> QED BY <1>1, <1>2, <1>3, <1>4 DEF Next

\* Nothing is in flight before the first proof.
LEMMA NotesInFlightHolds == Spec => []NotesInFlight
<1>1. Init => NotesInFlight
  BY DEF Init, NotesInFlight, InFlight
<1> QED BY <1>1, NotesInFlightInductive, TypeCorrect, PTL DEF Spec

----------------------------------------------------------------------------
(* Only approved leaves are paid out                                       *)

\* The log records an exit of this kind and note.
Exited(kind, note) ==
    \E i \in 1 .. Len(exit_log) :
        exit_log[i].kind = kind /\ exit_log[i].note = note

ExitsJustified ==
    \A kind, note : Exited(kind, note) =>
        /\ kind # "emergency" => IsLeaf(note)
        /\ kind = "withdraw" => IsApproved(note)

\* An exit is in the log after a step because it was there or was just made.
LEMMA LoggedExit ==
    ASSUME CoreTypeOK, NEW kind, NEW note, NEW recipient, NEW change,
           NEW sequence, LogExit(kind, note, recipient, change, sequence),
           NEW k, NEW n, Exited(k, n)'
    PROVE  Exited(k, n) \/ (k = kind /\ n = note)
<1>1. /\ Len(exit_log) \in Nat
      /\ Len(exit_log') = Len(exit_log) + 1
      /\ \A i \in 1 .. Len(exit_log) : exit_log'[i] = exit_log[i]
      /\ exit_log'[Len(exit_log) + 1].kind = kind
      /\ exit_log'[Len(exit_log) + 1].note = note
  BY LogExitAppends
<1>2. PICK i \in 1 .. Len(exit_log') : exit_log'[i].kind = k /\ exit_log'[i].note = n
  BY DEF Exited
<1>3. i \in 1 .. Len(exit_log) \/ i = Len(exit_log) + 1
  BY <1>1
<1> QED BY <1>1, <1>2, <1>3 DEF Exited

\* An exit already in the log keeps its leaf and its approval; the new one
\* has them by StepLedger.
LEMMA ExitsJustifiedInductive ==
    ASSUME TypeOK, NotesInFlight, [Next]_vars, ExitsJustified
    PROVE  ExitsJustified'
<1>0. CoreTypeOK
  BY DEF TypeOK
<1>1. ASSUME NEW kind, NEW note, Exited(kind, note)'
      PROVE  /\ kind # "emergency" => IsLeaf(note)
             /\ kind = "withdraw" => IsApproved(note)
  <2>1. CASE Exited(kind, note)
    BY <2>1 DEF ExitsJustified
  <2>2. CASE UNCHANGED exit_log
    BY <1>1, <2>1, <2>2 DEF Exited
  <2>3. ASSUME NEW k, NEW n, NEW change, ExitsNote(k, n, change)
        PROVE  /\ kind # "emergency" => IsLeaf(note)
               /\ kind = "withdraw" => IsApproved(note)
    <3>1. Exited(kind, note) \/ (kind = k /\ note = n)
      BY <1>0, <1>1, <2>3, LoggedExit DEF ExitsNote
    <3>2. IsLeaf(n) /\ (k = "withdraw" => IsApproved(n))
      BY <2>3 DEF ExitsNote
    <3> QED BY <2>1, <3>1, <3>2
  <2>4. CASE DrainsVault
    <3>1. Exited(kind, note) \/ kind = "emergency"
      BY <1>0, <1>1, <2>4, LoggedExit DEF DrainsVault
    <3> QED BY <2>1, <3>1
  <2> QED BY <2>2, <2>3, <2>4, StepLedger DEF LedgerUnchanged, DepositsNote
<1>2. ASSUME NEW kind, NEW note, Exited(kind, note)'
      PROVE  /\ kind # "emergency" => IsLeaf(note)'
             /\ kind = "withdraw" => IsApproved(note)'
  BY <1>1, <1>2, LeavesStay
<1> QED BY <1>2 DEF ExitsJustified

LEMMA ExitsJustifiedHolds == Spec => []ExitsJustified
<1>1. Init => ExitsJustified
  BY DEF Init, ExitsJustified, Exited
<1> QED BY <1>1, ExitsJustifiedInductive, NotesInFlightHolds, TypeCorrect,
           PTL DEF Spec

\* Every note that leaves the vault is a leaf the tree really got: the proof
\* showed it against a recorded root, and the proof row and the finalization
\* row carry it to the settlement (l.2161, l.2287).
THEOREM SpentNotesWereDeposited == Spec => []SpentNotesAreLeaves
<1>1. ExitsJustified => SpentNotesAreLeaves
  BY DEF ExitsJustified, Exited, SpentNotesAreLeaves, SpendingExits, IsLeaf
<1> QED BY <1>1, ExitsJustifiedHolds, PTL

\* A private withdrawal only pays out a note some published association set
\* holds, though the settlement does not look at the sets (l.3066, l.4311).
THEOREM WithdrawalsWereApproved == Spec => []WithdrawnNotesWereApproved
<1>1. ExitsJustified => WithdrawnNotesWereApproved
  BY DEF ExitsJustified, Exited, WithdrawnNotesWereApproved, IsApproved
<1> QED BY <1>1, ExitsJustifiedHolds, PTL

----------------------------------------------------------------------------
(* The refinement                                                          *)

NotesOf(log) == [i \in 1 .. Len(log) |-> log[i].commitment]

\* Appending a leaf appends its note to the abstract list.
LEMMA NotesOfAppend ==
    ASSUME TypeOK, NEW note \in Commitments, AddsLeaf(note)
    PROVE  NotesOf(leaf_log') = Append(NotesOf(leaf_log), note)
<1>1. PICK leaf \in Leaves :
          leaf.commitment = note /\ leaf_log' = Append(leaf_log, leaf)
  BY DEF AddsLeaf
<1>2. leaf_log \in Seq(Leaves) /\ \A l \in Leaves : l.commitment \in Commitments
  BY DEF TypeOK, CoreTypeOK, Leaves
<1>3. /\ Len(leaf_log) \in Nat
      /\ Len(leaf_log') = Len(leaf_log) + 1
      /\ \A i \in 1 .. Len(leaf_log) : leaf_log'[i] = leaf_log[i]
      /\ leaf_log'[Len(leaf_log) + 1] = leaf
  BY <1>1, <1>2
<1>4. NotesOf(leaf_log) \in Seq(Commitments) /\ Len(NotesOf(leaf_log)) = Len(leaf_log)
  BY <1>2 DEF NotesOf
<1> DEFINE notes == NotesOf(leaf_log)
           longer == Append(notes, note)
<1>6. /\ longer \in Seq(Commitments)
      /\ Len(longer) = Len(leaf_log) + 1
      /\ \A i \in 1 .. Len(leaf_log) : longer[i] = notes[i]
      /\ longer[Len(leaf_log) + 1] = note
  <2> HIDE DEF notes
  <2>1. notes \in Seq(Commitments) /\ Len(notes) = Len(leaf_log)
    BY <1>4 DEF notes
  <2> QED BY <1>3, <2>1
<1> HIDE DEF longer
<1>7. \A i \in 1 .. Len(leaf_log) + 1 : NotesOf(leaf_log')[i] = longer[i]
  <2> SUFFICES ASSUME NEW i \in 1 .. Len(leaf_log) + 1
               PROVE  NotesOf(leaf_log')[i] = longer[i]
    OBVIOUS
  <2>1. CASE i \in 1 .. Len(leaf_log)
    <3>1. notes[i] = leaf_log[i].commitment
      BY <2>1 DEF NotesOf
    <3> QED BY <1>3, <1>6, <2>1, <3>1 DEF NotesOf
  <2>2. CASE i = Len(leaf_log) + 1
    <3>1. NotesOf(leaf_log')[i] = leaf_log'[i].commitment
      BY <1>3 DEF NotesOf
    <3> QED BY <1>1, <1>3, <1>6, <2>2, <3>1
  <2>3. i \in 1 .. Len(leaf_log) \/ i = Len(leaf_log) + 1
    BY <1>3
  <2> QED BY <2>1, <2>2, <2>3
<1>8. NotesOf(leaf_log') \in Seq(Commitments)
      /\ Len(NotesOf(leaf_log')) = Len(leaf_log) + 1
  BY <1>1, <1>2, <1>3 DEF NotesOf
<1>9. NotesOf(leaf_log') = longer
  BY <1>3, <1>6, <1>7, <1>8, SeqEqual
<1> QED BY <1>9 DEF longer

\* The initial states map to the empty ledger.
LEMMA LedgerInit == Init => Ledger!Init
BY DEF Init, Ledger!Init

\* Every step maps to a ledger step or to a stutter.
LEMMA LedgerStep ==
    ASSUME TypeOK, NotesInFlight, [Next]_vars
    PROVE  [Ledger!Next]_(Ledger!ledgerVars)
<1>0. CoreTypeOK
  BY DEF TypeOK
<1>1. CASE LedgerUnchanged
  BY <1>1 DEF LedgerUnchanged, Ledger!ledgerVars
<1>2. ASSUME NEW note, DepositsNote(note) PROVE Ledger!Next
  <2>1. Ledger!Deposit(note) /\ note \in Commitments
    BY <1>2, NotesOfAppend DEF DepositsNote, NotesOf, Ledger!Deposit
  <2> QED BY <2>1 DEF Ledger!Next
<1>3. ASSUME NEW kind, NEW note, NEW change, ExitsNote(kind, note, change)
      PROVE  Ledger!Next
  <2>1. /\ note \in Commitments \ used_nullifiers
        /\ change \in Commitments \cup {None}
        /\ used_nullifiers' = used_nullifiers \cup {note}
    BY <1>3 DEF ExitsNote
  <2>2. note \in Ledger!Held
    BY <1>3, <2>1 DEF ExitsNote, IsLeaf, Ledger!Held, TypeOK, CoreTypeOK
  <2>3. Len(exit_log') = Len(exit_log) + 1
    BY <1>0, <1>3, LogExitAppends DEF ExitsNote
  <2>4. NotesOf(leaf_log')
          = IF change = None THEN NotesOf(leaf_log)
            ELSE Append(NotesOf(leaf_log), change)
    BY <1>3, <2>1, NotesOfAppend DEF ExitsNote
  <2>5. Ledger!Exit(note, change)
    BY <2>1, <2>2, <2>3, <2>4 DEF NotesOf, Ledger!Exit
  <2> QED BY <2>1, <2>5 DEF Ledger!Next
<1>4. CASE DrainsVault
  <2>1. Len(exit_log') = Len(exit_log) + 1
    BY <1>0, <1>4, LogExitAppends DEF DrainsVault
  <2>2. Ledger!Drain
    BY <1>4, <2>1 DEF DrainsVault, Ledger!Drain
  <2> QED BY <2>2 DEF Ledger!Next
<1> QED BY <1>1, <1>2, <1>3, <1>4, StepLedger

\* The bridge implements the note ledger: whatever the caches hold and however
\* the entries interleave, a step is a deposit, an exit of a held note, a
\* drain, or nothing the ledger sees.
THEOREM BridgeImplementsLedger == Spec => ImplementsLedger
<1>1. TypeOK /\ NotesInFlight /\ [Next]_vars
        => [Ledger!Next]_(Ledger!ledgerVars)
  BY LedgerStep
<1> QED BY <1>1, LedgerInit, NotesInFlightHolds, TypeCorrect, PTL
        DEF Spec, ImplementsLedger, Ledger!Spec

----------------------------------------------------------------------------
(* Deposits                                                                *)

\* The rows, the nonces and the leaves of deposits are left alone, and so are
\* the cursors of the assets; an asset that is registered starts at zero.
DepositsUnchanged ==
    /\ UNCHANGED <<used_deposit_nonces, deposit_finalizations, deposit_sender,
                   leaf_log, next_leaf_index>>
    /\ DOMAIN by_asset \subseteq DOMAIN by_asset'
    /\ \A a \in DOMAIN by_asset' :
          by_asset'[a].deposit_count =
              IF a \in DOMAIN by_asset THEN by_asset[a].deposit_count ELSE 0

\* step2a burns the nonce and opens a row.
OpensDeposit(key, row) ==
    /\ key \notin DOMAIN deposit_finalizations
    /\ row \in DepositRows
    /\ row.nonce \notin used_deposit_nonces
    /\ used_deposit_nonces' = used_deposit_nonces \cup {row.nonce}
    /\ deposit_finalizations' = Put(deposit_finalizations, key, row)
    /\ UNCHANGED <<deposit_sender, leaf_log, next_leaf_index, by_asset>>

\* Expired rows are evicted.
EvictsDeposits ==
    /\ \E keys \in SUBSET DOMAIN deposit_finalizations :
          /\ \A k \in keys : deposit_finalizations[k].expiry < now
          /\ deposit_finalizations' =
                 [k \in DOMAIN deposit_finalizations \ keys |-> deposit_finalizations[k]]
    /\ UNCHANGED <<used_deposit_nonces, deposit_sender, leaf_log,
                   next_leaf_index, by_asset>>

\* A leaf of a registered asset joins the tree.
DepositsLeaf(user, commitment, nonce) ==
    /\ user \in Accounts /\ commitment \in Commitments /\ nonce \in Nonces
    /\ NoteAsset[commitment] \in DOMAIN by_asset
    /\ AppendDeposit(user, commitment, nonce)

\* step2b turns a row into a leaf and records the depositor.
SettlesDeposit(user, commitment) ==
    LET key == <<user, commitment>>
    IN  /\ key \in DOMAIN deposit_finalizations
        /\ deposit_finalizations' = Remove(deposit_finalizations, key)
        /\ DepositsLeaf(user, commitment, deposit_finalizations[key].nonce)
        /\ RecordDepositor(commitment, user)
        /\ UNCHANGED used_deposit_nonces

\* One transaction burns the nonce and adds the leaf.
DepositsAtOnce(user, commitment, nonce) ==
    /\ nonce \notin used_deposit_nonces
    /\ used_deposit_nonces' = used_deposit_nonces \cup {nonce}
    /\ DepositsLeaf(user, commitment, nonce)
    /\ UNCHANGED <<deposit_finalizations, deposit_sender>>

\* The remainder of a partial withdrawal becomes a leaf.
KeepsChange(change) ==
    /\ change \in Commitments
    /\ AppendChange(change)
    /\ UNCHANGED <<used_deposit_nonces, deposit_finalizations, deposit_sender,
                   by_asset>>

LEMMA AdminDeposits ==
    ASSUME TypeOK, AdminStep
    PROVE  DepositsUnchanged \/ EvictsDeposits
<1> USE DEF DepositsUnchanged, coreVars, depositVars, registryVars
<1>1. ASSUME NEW asset \in Assets, RegisterAsset(asset) PROVE DepositsUnchanged
  <2>1. /\ by_asset' = Put(by_asset, asset,
               [asset_id |-> AssetIdOf[asset], status |-> "DORMANT",
                vault_ek |-> None, deposit_count |-> 0])
        /\ asset \notin DOMAIN by_asset
    BY <1>1 DEF RegisterAsset, Registered
  <2> QED BY <1>1, <2>1 DEF RegisterAsset, Put
<1>2. ASSUME NEW asset \in Assets, NEW ek \in Eks, ActivateAsset(asset, ek)
      PROVE  DepositsUnchanged
  <2>1. by_asset' = [by_asset EXCEPT ![asset].vault_ek = ek,
                                     ![asset].status = "ACTIVE"]
    BY <1>2 DEF ActivateAsset
  <2>2. \A a \in DOMAIN by_asset : by_asset[a] \in AssetRows
    BY DEF TypeOK, RegistryTypeOK, IsTable
  <2>3. DOMAIN by_asset' = DOMAIN by_asset
        /\ \A a \in DOMAIN by_asset :
              by_asset'[a].deposit_count = by_asset[a].deposit_count
    BY <2>1, <2>2 DEF AssetRows
  <2> QED BY <1>2, <2>3 DEF ActivateAsset
<1>3. ASSUME NEW keys, EvictStaleDeposits(keys) PROVE EvictsDeposits
  <2>1. /\ StaleDeposits(keys) \in SUBSET DOMAIN deposit_finalizations
        /\ \A k \in StaleDeposits(keys) : deposit_finalizations[k].expiry < now
    BY DEF StaleDeposits
  <2> QED BY <1>3, <2>1 DEF EvictStaleDeposits, EvictsDeposits
<1>4. CASE \/ Tick
           \/ \E epoch \in 0 .. MaxEpoch, ek \in Eks : RotateConfig(epoch, ek)
           \/ \E paused \in BOOLEAN : SetLegacyPause(paused)
           \/ \E root \in 1 .. Len(leaf_log) : RecordKnownRoot(root)
           \/ \E set \in AspSets : RecordAspRoot(set)
           \/ \E asset \in Assets : SetAllowListed(asset)
  BY <1>4 DEF Tick, RotateConfig, SetLegacyPause, RecordKnownRoot,
       RecordAspRoot, SetAllowListed
<1> QED BY <1>1, <1>2, <1>3, <1>4 DEF AdminStep

\* What any step does to the deposits.
LEMMA StepDeposits ==
    ASSUME TypeOK, [Next]_vars
    PROVE  \/ DepositsUnchanged
           \/ EvictsDeposits
           \/ \E key, row : OpensDeposit(key, row)
           \/ \E user, commitment : SettlesDeposit(user, commitment)
           \/ \E user, commitment, nonce : DepositsAtOnce(user, commitment, nonce)
           \/ \E change : KeepsChange(change)
<1> USE DEF coreVars, depositVars, registryVars
<1>1. CASE UNCHANGED vars
  BY <1>1 DEF vars, DepositsUnchanged
<1>2. CASE AdminStep
  BY <1>2, AdminDeposits
<1>3. CASE DepositStep
  <2>1. ASSUME NEW d, PrepareDepositBinding(d) PROVE DepositsUnchanged
    BY <2>1 DEF PrepareDepositBinding, DepositsUnchanged
  <2>2. ASSUME NEW d \in DepositIntents, NEW cached, DepositStep2a(d, cached)
        PROVE  \E key, row : OpensDeposit(key, row)
    <3> DEFINE row == [sender |-> d.user, nonce |-> d.nonce, expiry |-> d.expiry]
    <3>1. row \in DepositRows /\ row.nonce = d.nonce
      BY PendingKeyType DEF DepositRows
    <3>2. /\ PendingKey(d) \notin DOMAIN deposit_finalizations
          /\ d.nonce \notin used_deposit_nonces
          /\ used_deposit_nonces' = used_deposit_nonces \cup {d.nonce}
          /\ deposit_finalizations' = Put(deposit_finalizations, PendingKey(d), row)
          /\ UNCHANGED <<deposit_sender, leaf_log, next_leaf_index, by_asset>>
      BY <2>2 DEF DepositStep2a, DepositVerified
    <3> HIDE DEF row
    <3> QED BY <3>1, <3>2 DEF OpensDeposit
  <2>3. ASSUME NEW d \in DepositIntents, NEW cached, DepositWithCommitment(d, cached)
        PROVE  DepositsAtOnce(d.user, d.commitment, d.nonce)
    BY <2>3, PendingKeyType
       DEF DepositWithCommitment, DepositVerified, Active, Registered,
           DepositsAtOnce, DepositsLeaf
  <2>4. ASSUME NEW user \in Accounts, NEW commitment \in Commitments,
               DepositStep2b(user, commitment)
        PROVE  SettlesDeposit(user, commitment)
    <3> DEFINE row == deposit_finalizations[<<user, commitment>>]
    <3>1. /\ <<user, commitment>> \in DOMAIN deposit_finalizations
          /\ deposit_finalizations' = Remove(deposit_finalizations, <<user, commitment>>)
          /\ NoteAsset[commitment] \in DOMAIN by_asset
          /\ AppendDeposit(user, commitment, row.nonce)
          /\ RecordDepositor(commitment, user)
          /\ UNCHANGED used_deposit_nonces
      BY <2>4 DEF DepositStep2b, NotDormant, Registered
    <3>2. row.nonce \in Nonces
      BY <3>1 DEF TypeOK, DepositTypeOK, IsTable, DepositRows
    <3> QED BY <3>1, <3>2 DEF SettlesDeposit, DepositsLeaf
  <2> QED BY <1>3, <2>1, <2>2, <2>3, <2>4 DEF DepositStep
<1>4. CASE WithdrawStep
  <2>1. ASSUME NEW submitter, NEW hash, WithdrawStep2b(submitter, hash)
        PROVE  DepositsUnchanged \/ \E change : KeepsChange(change)
    <3> DEFINE row == finalizations[<<submitter, hash>>]
    <3>1. AppendChange(row.change) /\ UNCHANGED <<registryVars, depositVars>>
      BY <2>1 DEF WithdrawStep2b
    <3>2. row.change \in Commitments \cup {None}
      BY <2>1 DEF WithdrawStep2b, TypeOK, FinalizationTypeOK, IsTable,
           FinalizationRows
    <3> HIDE DEF row
    <3>3. CASE row.change = None
      BY <3>1, <3>3 DEF AppendChange, DepositsUnchanged
    <3>4. CASE row.change # None
      BY <3>1, <3>2, <3>4 DEF KeepsChange
    <3> QED BY <3>3, <3>4
  <2>2. ASSUME NEW w, NEW root,
               \/ \E set \in AspSets : PrepareWithdrawProof(w, root, set)
               \/ PrepareWithdrawAttestation(w, root)
               \/ \E submitter \in Accounts : WithdrawStep2a(submitter, w, root)
               \/ \E set \in AspSets, attested, proven \in BOOLEAN :
                     WithdrawToRecipient(w, root, set, attested, proven)
        PROVE  DepositsUnchanged
    BY <2>2 DEF PrepareWithdrawProof, PrepareWithdrawAttestation,
         WithdrawStep2a, WithdrawToRecipient, DepositsUnchanged
  <2>3. ASSUME \/ \E hash \in DOMAIN proofs : PrepareWithdrawPayload(hash)
               \/ \E w \in WithdrawIntents, sequence \in 0 .. vault_sequence :
                     PrepareWithdrawConservation(w, sequence)
               \/ \E depositor \in Accounts, asset \in Assets,
                     commitment \in Commitments, root \in known_roots :
                        Ragequit(depositor, asset, commitment, root)
               \/ \E e \in ExitIntents : EmergencyExit(e)
        PROVE  DepositsUnchanged
    BY <2>3 DEF PrepareWithdrawPayload, PrepareWithdrawConservation, Ragequit,
         EmergencyExit, DepositsUnchanged
  <2> QED BY <1>4, <2>1, <2>2, <2>3 DEF WithdrawStep
<1> QED BY <1>1, <1>2, <1>3, <1>4 DEF Next

\* The event a leaf is announced with.
LeafOf(kind, commitment, user, nonce) ==
    [kind |-> kind, leaf_index |-> next_leaf_index + 1, commitment |-> commitment,
     user |-> user, nonce |-> nonce]

\* What joins the log.
LEMMA LeafJoins ==
    ASSUME TypeOK, NEW leaf \in Leaves, leaf_log' = Append(leaf_log, leaf)
    PROVE  /\ Len(leaf_log) \in Nat
           /\ Len(leaf_log') = Len(leaf_log) + 1
           /\ 1 .. Len(leaf_log') = (1 .. Len(leaf_log)) \cup {Len(leaf_log) + 1}
           /\ \A i \in 1 .. Len(leaf_log) : leaf_log'[i] = leaf_log[i]
           /\ leaf_log'[Len(leaf_log) + 1] = leaf
BY DEF TypeOK, CoreTypeOK

LEMMA DepositJoins ==
    ASSUME TypeOK, NEW user, NEW commitment, NEW nonce,
           DepositsLeaf(user, commitment, nonce)
    PROVE  /\ LeafOf("deposit", commitment, user, nonce) \in Leaves
           /\ leaf_log' = Append(leaf_log, LeafOf("deposit", commitment, user, nonce))
           /\ next_leaf_index' = next_leaf_index + 1
           /\ next_leaf_index \in Nat
<1>1. next_leaf_index \in Nat
  BY DEF TypeOK, CoreTypeOK
<1>2. next_leaf_index' = next_leaf_index + 1
  BY DEF DepositsLeaf, AppendDeposit
<1>3. LeafOf("deposit", commitment, user, nonce) \in Leaves
  BY <1>1 DEF LeafOf, Leaves, DepositsLeaf
<1> QED BY <1>1, <1>2, <1>3 DEF DepositsLeaf, AppendDeposit, LeafOf

LEMMA ChangeJoins ==
    ASSUME TypeOK, NEW change, KeepsChange(change)
    PROVE  /\ LeafOf("change", change, None, None) \in Leaves
           /\ leaf_log' = Append(leaf_log, LeafOf("change", change, None, None))
           /\ next_leaf_index' = next_leaf_index + 1
           /\ next_leaf_index \in Nat
<1>1. next_leaf_index \in Nat /\ change # None
  BY BridgeConstants DEF TypeOK, CoreTypeOK, KeepsChange
<1>2. /\ next_leaf_index' = next_leaf_index + 1
      /\ leaf_log' = Append(leaf_log, LeafOf("change", change, None, None))
  BY <1>1 DEF KeepsChange, AppendChange, LeafOf
<1>3. LeafOf("change", change, None, None) \in Leaves
  BY <1>1 DEF LeafOf, Leaves, KeepsChange
<1> QED BY <1>1, <1>2, <1>3

\* The log after a deposit, and after a change note.
LEMMA DepositInLog ==
    ASSUME TypeOK, NEW user, NEW commitment, NEW nonce,
           DepositsLeaf(user, commitment, nonce)
    PROVE  LET n == Len(leaf_log) + 1
           IN  /\ Len(leaf_log) \in Nat /\ Len(leaf_log') = n
               /\ 1 .. Len(leaf_log') = (1 .. Len(leaf_log)) \cup {n}
               /\ \A i \in 1 .. Len(leaf_log) : leaf_log'[i] = leaf_log[i]
               /\ leaf_log'[n].kind = "deposit" /\ leaf_log'[n].nonce = nonce
               /\ leaf_log'[n].commitment = commitment /\ leaf_log'[n].user = user
               /\ leaf_log'[n].leaf_index = next_leaf_index'
<1> DEFINE leaf == LeafOf("deposit", commitment, user, nonce)
<1>1. leaf \in Leaves /\ leaf_log' = Append(leaf_log, leaf)
      /\ next_leaf_index' = next_leaf_index + 1
  BY DepositJoins
<1>2. /\ leaf.kind = "deposit" /\ leaf.nonce = nonce /\ leaf.user = user
      /\ leaf.commitment = commitment /\ leaf.leaf_index = next_leaf_index + 1
  BY DEF LeafOf
<1> HIDE DEF leaf
<1> QED BY <1>1, <1>2, LeafJoins

LEMMA ChangeInLog ==
    ASSUME TypeOK, NEW change, KeepsChange(change)
    PROVE  LET n == Len(leaf_log) + 1
           IN  /\ Len(leaf_log) \in Nat /\ Len(leaf_log') = n
               /\ 1 .. Len(leaf_log') = (1 .. Len(leaf_log)) \cup {n}
               /\ \A i \in 1 .. Len(leaf_log) : leaf_log'[i] = leaf_log[i]
               /\ leaf_log'[n].kind = "change" /\ leaf_log'[n].nonce = None
               /\ leaf_log'[n].leaf_index = next_leaf_index'
<1> DEFINE leaf == LeafOf("change", change, None, None)
<1>1. leaf \in Leaves /\ leaf_log' = Append(leaf_log, leaf)
      /\ next_leaf_index' = next_leaf_index + 1
  BY ChangeJoins
<1>2. /\ leaf.kind = "change" /\ leaf.nonce = None
      /\ leaf.leaf_index = next_leaf_index + 1
  BY DEF LeafOf
<1> HIDE DEF leaf
<1> QED BY <1>1, <1>2, LeafJoins

----------------------------------------------------------------------------
(* One leaf for one nonce                                                  *)

\* The two halves of NonceUsedOnce.
PendingNonces ==
    \A k \in DOMAIN deposit_finalizations :
        /\ deposit_finalizations[k].nonce \in used_deposit_nonces
        /\ \A l \in DOMAIN deposit_finalizations :
              deposit_finalizations[k].nonce = deposit_finalizations[l].nonce => k = l
        /\ \A i \in 1 .. Len(leaf_log) :
              leaf_log[i].nonce # deposit_finalizations[k].nonce

LeafNonces ==
    \A i, j \in 1 .. Len(leaf_log) :
        /\ leaf_log[i].kind = "deposit" => leaf_log[i].nonce \in used_deposit_nonces
        /\ (leaf_log[i].kind = "deposit" /\ leaf_log[i].nonce = leaf_log[j].nonce)
              => i = j

\* A nonce nobody used is neither in a row nor in a leaf.
LEMMA FreshNonce ==
    ASSUME TypeOK, NonceUsedOnce, NEW nonce \in Nonces, nonce \notin used_deposit_nonces
    PROVE  /\ \A k \in DOMAIN deposit_finalizations :
                deposit_finalizations[k].nonce # nonce
           /\ \A i \in 1 .. Len(leaf_log) : leaf_log[i].nonce # nonce
<1>1. \A i \in 1 .. Len(leaf_log) :
         leaf_log[i].kind = "deposit" \/ leaf_log[i].nonce = None
  BY DEF TypeOK, CoreTypeOK, Leaves
<1> QED BY <1>1, BridgeConstants DEF NonceUsedOnce

LEMMA NonceUsedOnceInductive ==
    ASSUME TypeOK, [Next]_vars, NonceUsedOnce
    PROVE  NonceUsedOnce'
<1> DEFINE n == Len(leaf_log) + 1
<1>0. \A k \in DOMAIN deposit_finalizations :
         deposit_finalizations[k].nonce \in Nonces
  BY DEF TypeOK, DepositTypeOK, IsTable, DepositRows
<1>1. CASE DepositsUnchanged
  BY <1>1 DEF DepositsUnchanged, NonceUsedOnce
<1>2. CASE EvictsDeposits
  BY <1>2 DEF EvictsDeposits, NonceUsedOnce
<1>3. ASSUME NEW key, NEW row, OpensDeposit(key, row) PROVE NonceUsedOnce'
  <2>1. row.nonce \in Nonces /\ row.nonce \notin used_deposit_nonces
    BY <1>3 DEF OpensDeposit, DepositRows
  <2>2. /\ \A k \in DOMAIN deposit_finalizations :
              deposit_finalizations[k].nonce # row.nonce
        /\ \A i \in 1 .. Len(leaf_log) : leaf_log[i].nonce # row.nonce
    BY <2>1, FreshNonce
  <2>3. /\ DOMAIN deposit_finalizations' = DOMAIN deposit_finalizations \cup {key}
        /\ deposit_finalizations'[key] = row
        /\ \A k \in DOMAIN deposit_finalizations :
              deposit_finalizations'[k] = deposit_finalizations[k]
        /\ used_deposit_nonces' = used_deposit_nonces \cup {row.nonce}
        /\ leaf_log' = leaf_log
    BY <1>3 DEF OpensDeposit, Put
  <2> QED BY <2>2, <2>3 DEF NonceUsedOnce
<1>4. ASSUME NEW user, NEW commitment, SettlesDeposit(user, commitment)
      PROVE  NonceUsedOnce'
  <2> DEFINE key == <<user, commitment>>
             nonce == deposit_finalizations[key].nonce
  <2>1. /\ key \in DOMAIN deposit_finalizations
        /\ DOMAIN deposit_finalizations' = DOMAIN deposit_finalizations \ {key}
        /\ \A k \in DOMAIN deposit_finalizations' :
              deposit_finalizations'[k] = deposit_finalizations[k]
        /\ used_deposit_nonces' = used_deposit_nonces
        /\ DepositsLeaf(user, commitment, nonce)
    BY <1>4 DEF SettlesDeposit, Remove
  <2> HIDE DEF key
  <2>2. /\ 1 .. Len(leaf_log') = (1 .. Len(leaf_log)) \cup {n}
        /\ \A i \in 1 .. Len(leaf_log) : leaf_log'[i] = leaf_log[i]
        /\ leaf_log'[n].nonce = nonce /\ leaf_log'[n].kind = "deposit"
    BY <2>1, DepositInLog
  <2>3. \A i \in 1 .. Len(leaf_log) : leaf_log[i].nonce # nonce
    BY <2>1 DEF NonceUsedOnce
  <2> HIDE DEF n
  <2>4. PendingNonces'
    BY <2>1, <2>2 DEF NonceUsedOnce, PendingNonces
  <2>5. LeafNonces'
    BY <2>1, <2>2, <2>3 DEF NonceUsedOnce, LeafNonces
  <2> QED BY <2>4, <2>5 DEF NonceUsedOnce, PendingNonces, LeafNonces
<1>5. ASSUME NEW user, NEW commitment, NEW nonce,
             DepositsAtOnce(user, commitment, nonce)
      PROVE  NonceUsedOnce'
  <2>1. /\ deposit_finalizations' = deposit_finalizations
        /\ nonce \in Nonces /\ nonce \notin used_deposit_nonces
        /\ used_deposit_nonces' = used_deposit_nonces \cup {nonce}
        /\ DepositsLeaf(user, commitment, nonce)
    BY <1>5 DEF DepositsAtOnce, DepositsLeaf
  <2>2. /\ 1 .. Len(leaf_log') = (1 .. Len(leaf_log)) \cup {n}
        /\ \A i \in 1 .. Len(leaf_log) : leaf_log'[i] = leaf_log[i]
        /\ leaf_log'[n].nonce = nonce /\ leaf_log'[n].kind = "deposit"
    BY <2>1, DepositInLog
  <2>3. /\ \A k \in DOMAIN deposit_finalizations :
              deposit_finalizations[k].nonce # nonce
        /\ \A i \in 1 .. Len(leaf_log) : leaf_log[i].nonce # nonce
    BY <2>1, FreshNonce
  <2> HIDE DEF n
  <2>4. PendingNonces'
    BY <2>1, <2>2, <2>3 DEF NonceUsedOnce, PendingNonces
  <2>5. LeafNonces'
    BY <2>1, <2>2, <2>3 DEF NonceUsedOnce, LeafNonces
  <2> QED BY <2>4, <2>5 DEF NonceUsedOnce, PendingNonces, LeafNonces
<1>6. ASSUME NEW change, KeepsChange(change) PROVE NonceUsedOnce'
  <2>1. UNCHANGED <<used_deposit_nonces, deposit_finalizations>>
    BY <1>6 DEF KeepsChange
  <2>2. /\ 1 .. Len(leaf_log') = (1 .. Len(leaf_log)) \cup {n}
        /\ \A i \in 1 .. Len(leaf_log) : leaf_log'[i] = leaf_log[i]
        /\ leaf_log'[n].nonce = None /\ leaf_log'[n].kind = "change"
    BY <1>6, ChangeInLog
  <2>3. \A i \in 1 .. Len(leaf_log) :
            leaf_log[i].kind = "deposit" => leaf_log[i].nonce # None
    BY BridgeConstants DEF TypeOK, CoreTypeOK, Leaves
  <2> HIDE DEF n
  <2>4. PendingNonces'
    BY <1>0, <2>1, <2>2, BridgeConstants DEF NonceUsedOnce, PendingNonces
  <2>5. LeafNonces'
    BY <2>1, <2>2, <2>3 DEF NonceUsedOnce, LeafNonces
  <2> QED BY <2>4, <2>5 DEF NonceUsedOnce, PendingNonces, LeafNonces
<1> QED BY <1>1, <1>2, <1>3, <1>4, <1>5, <1>6, StepDeposits

\* One attested deposit gives at most one leaf, though step2a, eviction, step2b
\* and the one-transaction entry share the nonce table (l.1437, l.1723).
THEOREM NoncesGiveOneLeaf == Spec => []NonceUsedOnce
<1>1. Init => NonceUsedOnce
  BY DEF Init, NonceUsedOnce
<1> QED BY <1>1, NonceUsedOnceInductive, TypeCorrect, PTL DEF Spec

----------------------------------------------------------------------------
(* The log is dense and the cursors count it                               *)

\* Every deposit is of an asset the registry knows.
LeavesRegistered ==
    \A i \in 1 .. Len(leaf_log) :
        leaf_log[i].kind = "deposit" =>
            NoteAsset[leaf_log[i].commitment] \in DOMAIN by_asset

LeavesInvariant == LeavesAreDense /\ LeavesRegistered

\* The leaves of an asset are a finite set of positions.
LEMMA LeavesOfFinite ==
    ASSUME TypeOK, NEW a
    PROVE  /\ IsFiniteSet(LeavesOf(a)) /\ LeavesOf(a) \subseteq 1 .. Len(leaf_log)
           /\ Len(leaf_log) \in Nat
<1>1. Len(leaf_log) \in Nat
  BY DEF TypeOK, CoreTypeOK
<1>2. IsFiniteSet(1 .. Len(leaf_log))
  BY <1>1, FS_Interval
<1>3. LeavesOf(a) \in SUBSET (1 .. Len(leaf_log))
  BY DEF LeavesOf
<1>4. IsFiniteSet(LeavesOf(a))
  BY <1>2, <1>3, FS_Subset
<1> QED BY <1>1, <1>3, <1>4

\* A deposit adds its position to the leaves of its own asset only.
LEMMA DepositCounted ==
    ASSUME TypeOK, NEW user, NEW commitment, NEW nonce,
           DepositsLeaf(user, commitment, nonce), NEW a
    PROVE  Cardinality(LeavesOf(a)')
             = Cardinality(LeavesOf(a)) + (IF a = NoteAsset[commitment] THEN 1 ELSE 0)
<1> DEFINE n == Len(leaf_log) + 1
<1>1. /\ 1 .. Len(leaf_log') = (1 .. Len(leaf_log)) \cup {n}
      /\ \A i \in 1 .. Len(leaf_log) : leaf_log'[i] = leaf_log[i]
      /\ leaf_log'[n].kind = "deposit" /\ leaf_log'[n].commitment = commitment
  BY DepositInLog
<1>2. /\ IsFiniteSet(LeavesOf(a)) /\ LeavesOf(a) \subseteq 1 .. Len(leaf_log)
      /\ Len(leaf_log) \in Nat
  BY LeavesOfFinite
<1>3. n \notin LeavesOf(a)
  BY <1>2
<1>4. Cardinality(LeavesOf(a)) \in Nat
      /\ Cardinality(LeavesOf(a) \cup {n}) = Cardinality(LeavesOf(a)) + 1
  BY <1>2, <1>3, FS_CardinalityType, FS_AddElement
<1> HIDE DEF n
<1>5. CASE a = NoteAsset[commitment]
  <2>1. LeavesOf(a)' = LeavesOf(a) \cup {n}
    BY <1>1, <1>5 DEF LeavesOf
  <2> QED BY <1>4, <1>5, <2>1
<1>6. CASE a # NoteAsset[commitment]
  <2>1. LeavesOf(a)' = LeavesOf(a)
    BY <1>1, <1>6 DEF LeavesOf
  <2> QED BY <1>4, <1>6, <2>1
<1> QED BY <1>5, <1>6

\* A deposit keeps the log dense and the cursors right.
LEMMA DepositKeepsLeaves ==
    ASSUME TypeOK, LeavesInvariant, NEW user, NEW commitment, NEW nonce,
           DepositsLeaf(user, commitment, nonce)
    PROVE  LeavesInvariant'
<1> DEFINE n == Len(leaf_log) + 1
           asset == NoteAsset[commitment]
<1>1. /\ Len(leaf_log) \in Nat /\ Len(leaf_log') = n
      /\ 1 .. Len(leaf_log') = (1 .. Len(leaf_log)) \cup {n}
      /\ \A i \in 1 .. Len(leaf_log) : leaf_log'[i] = leaf_log[i]
      /\ leaf_log'[n].kind = "deposit" /\ leaf_log'[n].commitment = commitment
      /\ leaf_log'[n].leaf_index = next_leaf_index'
  BY DepositInLog
<1>2. next_leaf_index' = next_leaf_index + 1
  BY DepositJoins
<1>3. /\ Len(leaf_log) = next_leaf_index
      /\ \A i \in 1 .. Len(leaf_log) : leaf_log[i].leaf_index = i
      /\ \A a \in DOMAIN by_asset :
            by_asset[a].deposit_count = Cardinality(LeavesOf(a))
  BY DEF LeavesInvariant, LeavesAreDense
<1>4. /\ DOMAIN by_asset' = DOMAIN by_asset /\ asset \in DOMAIN by_asset
      /\ \A a \in DOMAIN by_asset :
            by_asset'[a].deposit_count
              = by_asset[a].deposit_count + (IF a = asset THEN 1 ELSE 0)
  <2>1. by_asset' = [by_asset EXCEPT ![asset].deposit_count = @ + 1]
        /\ asset \in DOMAIN by_asset
    BY DEF DepositsLeaf, AppendDeposit
  <2>2. \A a \in DOMAIN by_asset : by_asset[a] \in AssetRows
    BY DEF TypeOK, RegistryTypeOK, IsTable
  <2> HIDE DEF asset
  <2> QED BY <2>1, <2>2 DEF AssetRows
<1>5. \A a : Cardinality(LeavesOf(a)')
               = Cardinality(LeavesOf(a)) + (IF a = asset THEN 1 ELSE 0)
  BY DepositCounted
<1>6. Len(leaf_log') = next_leaf_index'
      /\ \A i \in 1 .. Len(leaf_log') : leaf_log'[i].leaf_index = i
  BY <1>1, <1>2, <1>3
<1>7. ASSUME NEW a \in DOMAIN by_asset'
      PROVE  by_asset'[a].deposit_count = Cardinality(LeavesOf(a)')
  <2> DEFINE one == IF a = asset THEN 1 ELSE 0
  <2>1. by_asset'[a].deposit_count = by_asset[a].deposit_count + one
        /\ a \in DOMAIN by_asset
    BY <1>4, <1>7
  <2>2. Cardinality(LeavesOf(a)') = Cardinality(LeavesOf(a)) + one
    BY <1>5
  <2>3. by_asset[a].deposit_count = Cardinality(LeavesOf(a))
    BY <1>3, <2>1
  <2> HIDE DEF one
  <2> QED BY <2>1, <2>2, <2>3
<1>8. LeavesRegistered'
  <2> HIDE DEF n
  <2> QED BY <1>1, <1>4 DEF LeavesInvariant, LeavesRegistered
<1> QED BY <1>6, <1>7, <1>8 DEF LeavesInvariant, LeavesAreDense

\* A change note joins the log, and no cursor counts it.
LEMMA ChangeKeepsLeaves ==
    ASSUME TypeOK, LeavesInvariant, NEW change, KeepsChange(change)
    PROVE  LeavesInvariant'
<1> DEFINE n == Len(leaf_log) + 1
<1>1. /\ Len(leaf_log) \in Nat /\ Len(leaf_log') = n
      /\ 1 .. Len(leaf_log') = (1 .. Len(leaf_log)) \cup {n}
      /\ \A i \in 1 .. Len(leaf_log) : leaf_log'[i] = leaf_log[i]
      /\ leaf_log'[n].kind = "change" /\ leaf_log'[n].leaf_index = next_leaf_index'
  BY ChangeInLog
<1>2. next_leaf_index' = next_leaf_index + 1 /\ by_asset' = by_asset
  BY ChangeJoins DEF KeepsChange
<1>3. Len(leaf_log') = next_leaf_index'
      /\ \A i \in 1 .. Len(leaf_log') : leaf_log'[i].leaf_index = i
  BY <1>1, <1>2 DEF LeavesInvariant, LeavesAreDense
<1> HIDE DEF n
<1>4. \A a : LeavesOf(a)' = LeavesOf(a)
  BY <1>1 DEF LeavesOf
<1>5. LeavesRegistered'
  BY <1>1, <1>2 DEF LeavesInvariant, LeavesRegistered
<1> QED BY <1>2, <1>3, <1>4, <1>5 DEF LeavesInvariant, LeavesAreDense

LEMMA LeavesInvariantInductive ==
    ASSUME TypeOK, [Next]_vars, LeavesInvariant
    PROVE  LeavesInvariant'
<1> USE DEF LeavesInvariant
<1>1. CASE DepositsUnchanged
  <2>1. leaf_log' = leaf_log /\ next_leaf_index' = next_leaf_index
        /\ DOMAIN by_asset \subseteq DOMAIN by_asset'
    BY <1>1 DEF DepositsUnchanged
  <2>2. \A a : LeavesOf(a)' = LeavesOf(a)
    BY <2>1 DEF LeavesOf
  <2>3. ASSUME NEW a \in DOMAIN by_asset'
        PROVE  by_asset'[a].deposit_count = Cardinality(LeavesOf(a)')
    <3>1. CASE a \in DOMAIN by_asset
      BY <1>1, <2>2, <3>1 DEF DepositsUnchanged, LeavesAreDense
    <3>2. CASE a \notin DOMAIN by_asset
      <4>1. LeavesOf(a) = {}
        BY <3>2 DEF LeavesOf, LeavesRegistered
      <4> QED BY <1>1, <2>2, <2>3, <3>2, <4>1, FS_EmptySet DEF DepositsUnchanged
    <3> QED BY <3>1, <3>2
  <2> QED BY <2>1, <2>3 DEF LeavesAreDense, LeavesRegistered
<1>2. ASSUME UNCHANGED <<leaf_log, next_leaf_index, by_asset>>
      PROVE  LeavesInvariant'
  BY <1>2 DEF LeavesAreDense, LeavesRegistered, LeavesOf
<1>3. CASE EvictsDeposits \/ \E key, row : OpensDeposit(key, row)
  BY <1>2, <1>3 DEF EvictsDeposits, OpensDeposit
<1>4. ASSUME NEW user, NEW commitment, NEW nonce,
             DepositsLeaf(user, commitment, nonce)
      PROVE  LeavesInvariant'
  BY <1>4, DepositKeepsLeaves
<1>5. ASSUME NEW change, KeepsChange(change) PROVE LeavesInvariant'
  BY <1>5, ChangeKeepsLeaves
<1> QED BY <1>1, <1>3, <1>4, <1>5, StepDeposits
        DEF SettlesDeposit, DepositsAtOnce

LEMMA LeavesInvariantInit == Init => LeavesInvariant
<1> SUFFICES ASSUME Init PROVE LeavesInvariant
  OBVIOUS
<1>1. leaf_log = <<>> /\ next_leaf_index = 0
      /\ \A a \in DOMAIN by_asset : by_asset[a].deposit_count = 0
  BY DEF Init
<1>2. \A a : LeavesOf(a) = {}
  BY <1>1 DEF LeavesOf
<1> QED BY <1>1, <1>2, FS_EmptySet
        DEF LeavesInvariant, LeavesAreDense, LeavesRegistered

\* The events number the leaves 1..next_leaf_index without gap, over all assets
\* and both kinds of leaves, and each registered asset's cursor counts its own
\* deposits, whichever entries append them (l.1519, l.1892, l.2344).
THEOREM LeafLogIsDense == Spec => []LeavesAreDense
<1>1. Spec => []LeavesInvariant
  BY LeavesInvariantInit, LeavesInvariantInductive, TypeCorrect, PTL DEF Spec
<1> QED BY <1>1, PTL DEF LeavesInvariant

----------------------------------------------------------------------------
(* Transparent exits                                                       *)

\* This account deposited this commitment.
Deposited(note, user) ==
    \E j \in 1 .. Len(leaf_log) :
        /\ leaf_log[j].kind = "deposit"
        /\ leaf_log[j].commitment = note
        /\ leaf_log[j].user = user

\* A transparent exit paid this account for this note.
Ragequitted(note, user) ==
    \E i \in 1 .. Len(exit_log) :
        /\ exit_log[i].kind = "ragequit"
        /\ exit_log[i].note = note
        /\ exit_log[i].recipient = user

\* Whoever the map names has deposited, and so has whoever was paid.
SendersDeposited ==
    /\ \A c \in DOMAIN deposit_sender : Deposited(c, deposit_sender[c])
    /\ \A note, user : Ragequitted(note, user) => Deposited(note, user)

\* A deposit is never forgotten.
LEMMA DepositStays ==
    ASSUME TypeOK, [Next]_vars, NEW note, NEW user, Deposited(note, user)
    PROVE  Deposited(note, user)'
BY LeafLogStays DEF Deposited

\* Only step2b writes the map, and it has just deposited.
LEMMA RecordedDeposited ==
    ASSUME TypeOK, [Next]_vars, SendersDeposited, NEW c \in DOMAIN deposit_sender'
    PROVE  Deposited(c, deposit_sender[c])'
<1>1. ASSUME c \in DOMAIN deposit_sender, deposit_sender'[c] = deposit_sender[c]
      PROVE  Deposited(c, deposit_sender[c])'
  BY <1>1, DepositStays DEF SendersDeposited
<1>2. CASE UNCHANGED deposit_sender
  BY <1>1, <1>2
<1>3. ASSUME NEW user, NEW commitment, SettlesDeposit(user, commitment)
      PROVE  Deposited(c, deposit_sender[c])'
  <2> DEFINE n == Len(leaf_log) + 1
  <2>1. RecordDepositor(commitment, user)
    BY <1>3 DEF SettlesDeposit
  <2>2. CASE c \in DOMAIN deposit_sender
    BY <1>1, <2>1, <2>2 DEF RecordDepositor, Put
  <2>3. CASE c \notin DOMAIN deposit_sender
    <3>1. c = commitment /\ deposit_sender'[c] = user
      BY <2>1, <2>3 DEF RecordDepositor, Put
    <3>2. /\ n \in 1 .. Len(leaf_log') /\ leaf_log'[n].kind = "deposit"
          /\ leaf_log'[n].commitment = commitment /\ leaf_log'[n].user = user
      BY <1>3, DepositInLog DEF SettlesDeposit
    <3> HIDE DEF n
    <3> QED BY <3>1, <3>2 DEF Deposited
  <2> QED BY <2>2, <2>3
<1> QED BY <1>2, <1>3, StepDeposits
        DEF DepositsUnchanged, EvictsDeposits, OpensDeposit, DepositsAtOnce,
            KeepsChange

\* An exit joins the transparent exits only if it is one.
LEMMA RagequitJoins ==
    ASSUME TypeOK, NEW kind, NEW note, NEW recipient, NEW change, NEW sequence,
           LogExit(kind, note, recipient, change, sequence),
           NEW n, NEW u, Ragequitted(n, u)'
    PROVE  Ragequitted(n, u) \/ (kind = "ragequit" /\ n = note /\ u = recipient)
<1>1. /\ Len(exit_log) \in Nat
      /\ Len(exit_log') = Len(exit_log) + 1
      /\ \A i \in 1 .. Len(exit_log) : exit_log'[i] = exit_log[i]
      /\ exit_log'[Len(exit_log) + 1].kind = kind
      /\ exit_log'[Len(exit_log) + 1].note = note
      /\ exit_log'[Len(exit_log) + 1].recipient = recipient
  BY LogExitAppends DEF TypeOK
<1>2. PICK i \in 1 .. Len(exit_log') :
          /\ exit_log'[i].kind = "ragequit" /\ exit_log'[i].note = n
          /\ exit_log'[i].recipient = u
  BY DEF Ragequitted
<1>3. i \in 1 .. Len(exit_log) \/ i = Len(exit_log) + 1
  BY <1>1
<1> QED BY <1>1, <1>2, <1>3 DEF Ragequitted

\* A transparent exit is in the log after a step because it was there or
\* because ragequit paid the recorded depositor.
LEMMA RagequitPaysRecorded ==
    ASSUME TypeOK, [Next]_vars, NEW note, NEW user, Ragequitted(note, user)'
    PROVE  \/ Ragequitted(note, user)
           \/ note \in DOMAIN deposit_sender /\ user = deposit_sender[note]
<1> USE DEF coreVars
<1>0. ASSUME UNCHANGED exit_log PROVE Ragequitted(note, user)
  BY <1>0 DEF Ragequitted
<1>1. CASE UNCHANGED vars \/ AdminStep \/ DepositStep
  <2>1. UNCHANGED exit_log
    BY <1>1 DEF vars, AdminStep, RegisterAsset, ActivateAsset, RotateConfig,
         SetLegacyPause, RecordKnownRoot, RecordAspRoot, EvictStaleDeposits,
         Tick, SetAllowListed, DepositStep, PrepareDepositBinding,
         DepositStep2a, DepositStep2b, DepositWithCommitment, AppendDeposit
  <2> QED BY <1>0, <2>1
<1>2. CASE WithdrawStep
  <2>1. ASSUME NEW w, NEW root,
               \/ \E set \in AspSets : PrepareWithdrawProof(w, root, set)
               \/ PrepareWithdrawAttestation(w, root)
               \/ \E submitter \in Accounts : WithdrawStep2a(submitter, w, root)
        PROVE  UNCHANGED exit_log
    BY <2>1 DEF PrepareWithdrawProof, PrepareWithdrawAttestation, WithdrawStep2a
  <2>2. ASSUME \/ \E hash \in DOMAIN proofs : PrepareWithdrawPayload(hash)
               \/ \E w \in WithdrawIntents, sequence \in 0 .. vault_sequence :
                     PrepareWithdrawConservation(w, sequence)
        PROVE  UNCHANGED exit_log
    BY <2>2 DEF PrepareWithdrawPayload, PrepareWithdrawConservation
  <2>3. ASSUME NEW w, NEW root, NEW set, NEW attested, NEW proven,
               WithdrawToRecipient(w, root, set, attested, proven)
        PROVE  Ragequitted(note, user)
    <3>1. LogExit("withdraw", w.note, w.recipient, None, vault_sequence)
      BY <2>3 DEF WithdrawToRecipient, Spend
    <3> QED BY <3>1, RagequitJoins
  <2>4. ASSUME NEW submitter, NEW hash, WithdrawStep2b(submitter, hash)
        PROVE  Ragequitted(note, user)
    <3> DEFINE row == finalizations[<<submitter, hash>>]
    <3>1. LogExit("withdraw", row.nullifier, row.recipient, row.change,
                  row.sequence)
      BY <2>4 DEF WithdrawStep2b, Spend
    <3> HIDE DEF row
    <3> QED BY <3>1, RagequitJoins
  <2>5. ASSUME NEW depositor, NEW asset, NEW commitment, NEW root,
               Ragequit(depositor, asset, commitment, root)
        PROVE  \/ Ragequitted(note, user)
               \/ note \in DOMAIN deposit_sender /\ user = deposit_sender[note]
    <3>1. /\ commitment \in DOMAIN deposit_sender
          /\ LogExit("ragequit", commitment, deposit_sender[commitment], None,
                     vault_sequence)
      BY <2>5 DEF Ragequit, Spend
    <3> QED BY <3>1, RagequitJoins
  <2>6. ASSUME NEW e, EmergencyExit(e) PROVE Ragequitted(note, user)
    <3>1. LogExit("emergency", None, e.recipient, None, vault_sequence)
      BY <2>6 DEF EmergencyExit
    <3> QED BY <3>1, RagequitJoins
  <2> QED BY <1>0, <1>2, <2>1, <2>2, <2>3, <2>4, <2>5, <2>6 DEF WithdrawStep
<1> QED BY <1>1, <1>2 DEF Next

LEMMA SendersDepositedInductive ==
    ASSUME TypeOK, [Next]_vars, SendersDeposited
    PROVE  SendersDeposited'
<1>1. ASSUME NEW c \in DOMAIN deposit_sender'
      PROVE  Deposited(c, deposit_sender[c])'
  BY RecordedDeposited
<1>2. ASSUME NEW note, NEW user, Ragequitted(note, user)'
      PROVE  Deposited(note, user)'
  BY <1>2, RagequitPaysRecorded, DepositStays DEF SendersDeposited
<1> QED BY <1>1, <1>2 DEF SendersDeposited

\* A transparent exit pays an account that deposited that very commitment: the
\* map step2b writes names nobody else, and no later step rewrites it (l.2370).
THEOREM RagequitReturnsDeposit == Spec => []RagequitPaysDepositor
<1>1. Init => SendersDeposited
  BY DEF Init, SendersDeposited, Ragequitted
<1>2. Spec => []SendersDeposited
  BY <1>1, SendersDepositedInductive, TypeCorrect, PTL DEF Spec
<1>3. SendersDeposited => RagequitPaysDepositor
  <2> SUFFICES ASSUME SendersDeposited, NEW i \in 1 .. Len(exit_log),
                      exit_log[i].kind = "ragequit"
               PROVE  Deposited(exit_log[i].note, exit_log[i].recipient)
    BY DEF RagequitPaysDepositor, Deposited
  <2>1. Ragequitted(exit_log[i].note, exit_log[i].recipient)
    BY DEF Ragequitted
  <2> QED BY <2>1 DEF SendersDeposited
<1> QED BY <1>2, <1>3, PTL

\* The map only grows, ...
LEMMA RecordStays ==
    ASSUME TypeOK, [Next]_vars, NEW c, NEW u, RecordedAs(c, u)
    PROVE  RecordedAs(c, u)'
<1>1. CASE UNCHANGED deposit_sender
  BY <1>1 DEF RecordedAs
<1>2. ASSUME NEW user, NEW commitment, SettlesDeposit(user, commitment)
      PROVE  RecordedAs(c, u)'
  BY <1>2 DEF SettlesDeposit, RecordDepositor, RecordedAs, Put
<1> QED BY <1>1, <1>2, StepDeposits
        DEF DepositsUnchanged, EvictsDeposits, OpensDeposit, DepositsAtOnce,
            KeepsChange

\* ... so whoever was paid is the one it names still.
PaidIsRecorded ==
    \A note, user : Ragequitted(note, user) => RecordedAs(note, user)

LEMMA PaidIsRecordedInductive ==
    ASSUME TypeOK, [Next]_vars, PaidIsRecorded
    PROVE  PaidIsRecorded'
<1>1. ASSUME NEW note, NEW user, Ragequitted(note, user)'
      PROVE  RecordedAs(note, user)
  BY <1>1, RagequitPaysRecorded DEF PaidIsRecorded, RecordedAs
<1> QED BY <1>1, RecordStays DEF PaidIsRecorded

\* Another account's deposit of the same commitment never redirects a ragequit
\* (the contains-guard of step2b, l.1911).
THEOREM RecordedDepositorIsPaid == Spec => FirstRecordedIsPaid
<1>1. Init => PaidIsRecorded
  BY DEF Init, PaidIsRecorded, Ragequitted
<1>2. Spec => []PaidIsRecorded
  BY <1>1, PaidIsRecordedInductive, TypeCorrect, PTL DEF Spec
<1>3. ASSUME NEW c \in Commitments, NEW u \in Accounts
      PROVE  Spec => [](RecordedAs(c, u) => []RagequitsPay(c, u))
  <2>1. PaidIsRecorded /\ RecordedAs(c, u) => RagequitsPay(c, u)
    <3>1. ASSUME PaidIsRecorded, RecordedAs(c, u), NEW i \in 1 .. Len(exit_log),
                 exit_log[i].kind = "ragequit" /\ exit_log[i].note = c
          PROVE  exit_log[i].recipient = u
      <4>1. Ragequitted(c, exit_log[i].recipient)
        BY <3>1 DEF Ragequitted
      <4> QED BY <3>1, <4>1 DEF PaidIsRecorded, RecordedAs
    <3> QED BY <3>1 DEF RagequitsPay
  <2>2. TypeOK /\ RecordedAs(c, u) /\ [Next]_vars => RecordedAs(c, u)'
    BY RecordStays
  <2> QED BY <1>2, <2>1, <2>2, TypeCorrect, PTL DEF Spec
<1> QED BY <1>3 DEF FirstRecordedIsPaid

----------------------------------------------------------------------------
(* What later steps keep                                                   *)

\* An exit stays in the log, at its place, and a spent note stays spent.
LEMMA ExitsStay ==
    ASSUME TypeOK, [Next]_vars
    PROVE  /\ \A i \in 1 .. Len(exit_log) :
                 i \in 1 .. Len(exit_log') /\ exit_log'[i] = exit_log[i]
           /\ Len(exit_log) \in Nat /\ Len(exit_log') \in Nat
           /\ Len(exit_log) <= Len(exit_log')
           /\ used_nullifiers \subseteq used_nullifiers'
<1>0. CoreTypeOK /\ Len(exit_log) \in Nat
  BY DEF TypeOK, CoreTypeOK
<1>1. CASE ExitsUnchanged
  BY <1>0, <1>1 DEF ExitsUnchanged
<1>2. ASSUME NEW kind, NEW note, NEW recipient, NEW change, NEW sequence,
             LogExit(kind, note, recipient, change, sequence)
      PROVE  /\ \A i \in 1 .. Len(exit_log) :
                   i \in 1 .. Len(exit_log') /\ exit_log'[i] = exit_log[i]
             /\ Len(exit_log) \in Nat /\ Len(exit_log') \in Nat
             /\ Len(exit_log) <= Len(exit_log')
  BY <1>0, <1>2, LogExitAppends
<1>3. ASSUME NEW note, NEW recipient, NEW change, Spends(note, recipient, change)
      PROVE  /\ used_nullifiers \subseteq used_nullifiers'
             /\ \E kind : LogExit(kind, note, recipient, change, vault_sequence)
  BY <1>3 DEF Spends
<1>4. ASSUME NEW recipient, Drains(recipient)
      PROVE  /\ used_nullifiers \subseteq used_nullifiers'
             /\ LogExit("emergency", None, recipient, None, vault_sequence)
  BY <1>4 DEF Drains
<1> QED BY <1>1, <1>2, <1>3, <1>4, StepExits

\* The clock does not run back.
LEMMA ClockRuns ==
    ASSUME TypeOK, [Next]_vars
    PROVE  now \in Nat /\ now' \in Nat /\ now <= now'
<1> USE DEF controlVars
<1>0. now \in Nat
  BY DEF TypeOK, ControlTypeOK
<1>1. CASE UNCHANGED vars
  BY <1>0, <1>1 DEF vars
<1>2. CASE AdminStep
  <2>1. now' = now \/ now' = now + 1
    BY <1>2 DEF AdminStep, RegisterAsset, ActivateAsset, RotateConfig,
         SetLegacyPause, RecordKnownRoot, RecordAspRoot, EvictStaleDeposits,
         Tick, SetAllowListed
  <2> QED BY <1>0, <2>1
<1>3. CASE DepositStep
  <2>1. now' = now
    BY <1>3 DEF DepositStep, PrepareDepositBinding, DepositStep2a,
         DepositStep2b, DepositWithCommitment
  <2> QED BY <1>0, <2>1
<1>4. CASE WithdrawStep
  <2>1. ASSUME NEW w, NEW root,
               \/ \E set \in AspSets : PrepareWithdrawProof(w, root, set)
               \/ PrepareWithdrawAttestation(w, root)
               \/ \E submitter \in Accounts : WithdrawStep2a(submitter, w, root)
               \/ \E set \in AspSets, attested, proven \in BOOLEAN :
                     WithdrawToRecipient(w, root, set, attested, proven)
        PROVE  now' = now
    BY <2>1 DEF PrepareWithdrawProof, PrepareWithdrawAttestation,
         WithdrawStep2a, WithdrawToRecipient
  <2>2. ASSUME \/ \E hash \in DOMAIN proofs : PrepareWithdrawPayload(hash)
               \/ \E w \in WithdrawIntents, sequence \in 0 .. vault_sequence :
                     PrepareWithdrawConservation(w, sequence)
               \/ \E depositor \in Accounts, asset \in Assets,
                     commitment \in Commitments, root \in known_roots :
                        Ragequit(depositor, asset, commitment, root)
               \/ \E e \in ExitIntents : EmergencyExit(e)
        PROVE  now' = now
    BY <2>2 DEF PrepareWithdrawPayload, PrepareWithdrawConservation, Ragequit,
         EmergencyExit
  <2>3. ASSUME NEW submitter, NEW hash, WithdrawStep2b(submitter, hash)
        PROVE  now' = now
    BY <2>3 DEF WithdrawStep2b
  <2>4. now' = now
    BY <1>4, <2>1, <2>2, <2>3 DEF WithdrawStep
  <2> QED BY <1>0, <2>4
<1> QED BY <1>1, <1>2, <1>3, <1>4 DEF Next
=============================================================================
