--------------------------- MODULE BridgeDeposit ---------------------------
(***************************************************************************)
(* The deposit entries: the binding cache, the two steps of the split      *)
(* deposit (step2a, submitted by anybody, verifies; step2b, signed by the  *)
(* user, moves the funds) and the one-transaction deposit.                 *)
(***************************************************************************)
EXTENDS BridgeState

\* compose_pending_key.
PendingKey(d) == <<d.user, d.commitment>>

\* Mutant: a nonce may be used again.
DepositVerifiedAgain(d) ==
    NotExpired(d.expiry) /\ Active(NoteAsset[d.commitment])

\* The gates of step2a and of the one-transaction deposit.  The deoperators'
\* signature over the deposit is verified against the current configuration
\* and binds the user.
DepositVerified(d) ==
    /\ NotExpired(d.expiry)
    /\ Active(NoteAsset[d.commitment])
    /\ d.nonce \notin used_deposit_nonces

\* consume_or_verify_deposit_binding: an empty proof consumes the cached row,
\* a full proof is verified and leaves the cache alone.
ConsumeOrVerifyBinding(d, cached) ==
    IF cached
    THEN /\ PendingKey(d) \in deposit_bindings
         /\ deposit_bindings' = deposit_bindings \ {PendingKey(d)}
    ELSE UNCHANGED deposit_bindings

\* The tail step2b and the one-transaction deposit share: the CA transfer
\* (external: the framework refuses an asset that is not allow-listed), then
\* the leaf, the asset's cursor and the DepositConfirmedV2 event.
AppendDeposit(user, commitment, nonce) ==
    LET asset == NoteAsset[commitment]
    IN  /\ asset \in allow_listed
        /\ next_leaf_index' = next_leaf_index + 1
        /\ by_asset' = [by_asset EXCEPT ![asset].deposit_count = @ + 1]
        /\ leaf_log' = Append(leaf_log,
               [kind |-> "deposit", leaf_index |-> next_leaf_index',
                commitment |-> commitment, user |-> user, nonce |-> nonce])
        /\ UNCHANGED <<vault_sequence, used_nullifiers, exit_log, asset_list>>

\* prepare_deposit_binding_v3_for_user: caches a verified binding proof.
PrepareDepositBinding(d) ==
    /\ Active(NoteAsset[d.commitment])
    /\ PendingKey(d) \notin deposit_bindings
    /\ deposit_bindings' = deposit_bindings \cup {PendingKey(d)}
    /\ UNCHANGED <<used_deposit_nonces, deposit_sender, deposit_finalizations,
                   coreVars, registryVars, cacheVars, finalizations, rootVars,
                   controlVars>>

\* deposit_step2a_eunoma_verify_v3.
DepositStep2a(d, cached) ==
    /\ DepositVerified(d)
    /\ used_deposit_nonces' = used_deposit_nonces \cup {d.nonce}
    /\ ConsumeOrVerifyBinding(d, cached)
    /\ PendingKey(d) \notin DOMAIN deposit_finalizations
    /\ deposit_finalizations' =
           Put(deposit_finalizations, PendingKey(d),
               [sender |-> d.user, nonce |-> d.nonce, expiry |-> d.expiry])
    /\ UNCHANGED <<deposit_sender, coreVars, registryVars, cacheVars,
                   finalizations, rootVars, controlVars>>

\* Mutant: the last depositor of a commitment is recorded.
RecordLastDepositor(commitment, user) ==
    deposit_sender' = Put(deposit_sender, commitment, user)

\* The first depositor of a commitment is the one ragequit pays.
RecordDepositor(commitment, user) ==
    deposit_sender' = IF commitment \in DOMAIN deposit_sender
                      THEN deposit_sender
                      ELSE Put(deposit_sender, commitment, user)

\* deposit_step2b_invoke_framework: the signer drains its own row.
DepositStep2b(signer, commitment) ==
    LET key == <<signer, commitment>>
        row == deposit_finalizations[key]
    IN  /\ key \in DOMAIN deposit_finalizations
        /\ deposit_finalizations' = Remove(deposit_finalizations, key)
        /\ row.sender = signer
        /\ NotExpired(row.expiry)
        /\ NotDormant(NoteAsset[commitment])
        /\ AppendDeposit(signer, commitment, row.nonce)
        /\ RecordDepositor(commitment, signer)
        /\ UNCHANGED <<used_deposit_nonces, deposit_bindings, cacheVars,
                       finalizations, rootVars, controlVars>>

\* deposit_with_commitment_v2: both steps in one transaction.  It does not
\* write the DepositSenderMap.
DepositWithCommitment(d, cached) ==
    /\ DepositVerified(d)
    /\ used_deposit_nonces' = used_deposit_nonces \cup {d.nonce}
    /\ ConsumeOrVerifyBinding(d, cached)
    /\ AppendDeposit(d.user, d.commitment, d.nonce)
    /\ UNCHANGED <<deposit_sender, deposit_finalizations, cacheVars,
                   finalizations, rootVars, controlVars>>
=============================================================================
