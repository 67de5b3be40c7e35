--------------------------- MODULE BridgeWithdraw --------------------------
(***************************************************************************)
(* The exits: the split withdrawal (proof, attestation, payload and        *)
(* conservation caches, step2a, step2b), the one-transaction withdrawal,   *)
(* ragequit and the emergency exit of a de-listed asset.  They share the   *)
(* nullifier table and the global vault_sequence.                          *)
(***************************************************************************)
EXTENDS BridgeState

\* The gates of every entry that starts or advances a withdrawal.  At the
\* bound on the sequence no exit follows, so none is prepared.
Spendable(w, root) ==
    /\ vault_sequence < MaxSequence
    /\ Active(NoteAsset[w.note])
    /\ root \in known_roots
    /\ w.note \notin used_nullifiers

\* The deoperators' signature over (root, nullifier, request, expiry) under
\* the current configuration; the cache keeps its keccak hash.
AttestedMessage(w, root) ==
    [root |-> root, nullifier |-> w.note, expiry |-> w.expiry,
     config |-> config]

\* The row the proof cache holds: every Groth16-bound public but the key's.
ProofRow(w, root, sequence) ==
    [root |-> root, nullifier |-> w.note, change |-> w.change,
     digest |-> w.note, sequence |-> sequence]

\* prepare_withdraw_proof_v4 (and its _v3 wrapper).
PrepareWithdrawProof(w, root, set) ==
    LET hash == RequestHash(w, vault_sequence)
    IN  /\ hash \notin DOMAIN proofs
        /\ Spendable(w, root)
        /\ InRecentWindow(set)
        /\ WithdrawProofHolds(w, root, set)
        /\ proofs' = Put(proofs, hash, ProofRow(w, root, vault_sequence))
        /\ UNCHANGED <<attestations, payloads, conservations, finalizations,
                       coreVars, registryVars, depositVars, rootVars,
                       controlVars>>

\* prepare_withdraw_attestation_v3.
PrepareWithdrawAttestation(w, root) ==
    LET hash == RequestHash(w, vault_sequence)
    IN  /\ NotExpired(w.expiry)
        /\ hash \notin DOMAIN attestations
        /\ Spendable(w, root)
        /\ attestations' = Put(attestations, hash, AttestedMessage(w, root))
        /\ UNCHANGED <<proofs, payloads, conservations, finalizations,
                       coreVars, registryVars, depositVars, rootVars,
                       controlVars>>

\* Mutant: the whole proof row is stored instead of its digest.
PrepareWithdrawPayloadRow(hash) ==
    /\ vault_sequence < MaxSequence
    /\ hash \notin DOMAIN payloads
    /\ hash \in DOMAIN proofs
    /\ payloads' = Put(payloads, hash, proofs[hash])
    /\ UNCHANGED <<proofs, attestations, conservations, finalizations,
                   coreVars, registryVars, depositVars, rootVars, controlVars>>

\* prepare_withdraw_payload_v3: carries the proof row's digest forward.  The
\* entry reads neither the sequence nor the nullifier table.
PrepareWithdrawPayload(hash) ==
    /\ vault_sequence < MaxSequence
    /\ hash \notin DOMAIN payloads
    /\ Active(hash[3])
    /\ hash \in DOMAIN proofs
    /\ payloads' = Put(payloads, hash, [digest |-> proofs[hash].digest])
    /\ UNCHANGED <<proofs, attestations, conservations, finalizations,
                   coreVars, registryVars, depositVars, rootVars, controlVars>>

\* prepare_withdraw_conservation_v4: caches that the spent note's amount is
\* the withdrawn amount plus the remainder.  The entry reads no other table: the
\* request may name a sequence the client read some exits ago.
PrepareWithdrawConservation(w, sequence) ==
    LET hash == RequestHash(w, sequence)
    IN  /\ vault_sequence - MaxLag <= sequence
        /\ vault_sequence < MaxSequence
        /\ hash \notin DOMAIN conservations
        /\ Active(NoteAsset[w.note])
        /\ conservations' = Put(conservations, hash, [digest |-> w.note])
        /\ UNCHANGED <<proofs, attestations, payloads, finalizations, coreVars,
                       registryVars, depositVars, rootVars, controlVars>>

\* The attestation row, recomputed under the CURRENT configuration, and the
\* proof row must both match what the caller re-supplies.
AttestationMatches(hash, w, root) ==
    hash \in DOMAIN attestations /\ attestations[hash] = AttestedMessage(w, root)

ProofMatches(hash, w, root, sequence) ==
    hash \in DOMAIN proofs /\ proofs[hash] = ProofRow(w, root, sequence)

\* Mutant: the payload row survives the step2a that used it.
ConsumeCachesButPayload(hash, change) ==
    /\ UNCHANGED payloads
    /\ attestations' = Remove(attestations, hash)
    /\ proofs' = Remove(proofs, hash)
    /\ conservations' = IF change # None THEN Remove(conservations, hash)
                        ELSE conservations

\* Every row step2a used is gone; a full withdrawal never looks at the
\* conservation row.
ConsumeCaches(hash, change) ==
    /\ payloads' = Remove(payloads, hash)
    /\ attestations' = Remove(attestations, hash)
    /\ proofs' = Remove(proofs, hash)
    /\ conservations' = IF change # None THEN Remove(conservations, hash)
                        ELSE conservations

\* What withdraw_step2a_eunoma_verify_v3 checks before it looks for a row of
\* the submitter's own.
Step2aVerified(w, root) ==
    LET hash == RequestHash(w, vault_sequence)
    IN  /\ NotExpired(w.expiry)
        /\ Spendable(w, root)
        /\ hash \in DOMAIN payloads
        /\ AttestationMatches(hash, w, root)
        /\ ProofMatches(hash, w, root, vault_sequence)
        /\ payloads[hash].digest = proofs[hash].digest
        /\ w.change # None =>
              /\ hash \in DOMAIN conservations
              /\ conservations[hash].digest = payloads[hash].digest

\* withdraw_step2a_eunoma_verify_v3: consumes the caches and opens a
\* finalization row for the submitter.
WithdrawStep2a(submitter, w, root) ==
    LET hash == RequestHash(w, vault_sequence)
        key  == <<submitter, hash>>
    IN  /\ Step2aVerified(w, root)
        /\ key \notin DOMAIN finalizations
        /\ ConsumeCaches(hash, w.change)
        /\ finalizations' = Put(finalizations, key,
               [root |-> root, nullifier |-> w.note, recipient |-> w.recipient,
                change |-> w.change, sequence |-> vault_sequence,
                expiry |-> w.expiry])
        /\ UNCHANGED <<coreVars, registryVars, depositVars, rootVars,
                       controlVars>>

\* The event of an exit.
LogExit(kind, note, recipient, change, sequence) ==
    exit_log' = Append(exit_log,
        [kind |-> kind, note |-> note, recipient |-> recipient,
         change |-> change, sequence |-> sequence])

\* Mutant: the nullifier is never marked.
SpendWithoutNullifier(kind, note, recipient, change, sequence) ==
    /\ NoteAsset[note] \in allow_listed
    /\ vault_sequence < MaxSequence
    /\ vault_sequence' = vault_sequence + 1
    /\ LogExit(kind, note, recipient, change, sequence)
    /\ UNCHANGED used_nullifiers

\* Mutant: the sequence does not advance.
SpendWithoutSequence(kind, note, recipient, change, sequence) ==
    /\ NoteAsset[note] \in allow_listed
    /\ used_nullifiers' = used_nullifiers \cup {note}
    /\ LogExit(kind, note, recipient, change, sequence)
    /\ UNCHANGED vault_sequence

\* What every exit that spends a note does: mark the nullifier, advance the
\* sequence, transfer through the CA framework (external: it refuses an asset
\* that is not allow-listed), emit the event.
Spend(kind, note, recipient, change, sequence) ==
    /\ NoteAsset[note] \in allow_listed
    /\ vault_sequence < MaxSequence
    /\ used_nullifiers' = used_nullifiers \cup {note}
    /\ vault_sequence' = vault_sequence + 1
    /\ LogExit(kind, note, recipient, change, sequence)

\* Mutant: the index of the change leaf is not written back.
AppendChangeUnstored(change) ==
    IF change # None
    THEN /\ leaf_log' = Append(leaf_log,
                [kind |-> "change", leaf_index |-> next_leaf_index + 1,
                 commitment |-> change, user |-> None, nonce |-> None])
         /\ UNCHANGED next_leaf_index
    ELSE UNCHANGED <<next_leaf_index, leaf_log>>

\* ChangeNoteAppendedV4, under the same global index as the deposits.
AppendChange(change) ==
    IF change # None
    THEN /\ next_leaf_index' = next_leaf_index + 1
         /\ leaf_log' = Append(leaf_log,
                [kind |-> "change", leaf_index |-> next_leaf_index',
                 commitment |-> change, user |-> None, nonce |-> None])
    ELSE UNCHANGED <<next_leaf_index, leaf_log>>

\* Mutant: a row settles whatever exits happened since step2a.
SettlesAtAnySequence(row) ==
    /\ NotExpired(row.expiry)
    /\ NotDormant(NoteAsset[row.nullifier])
    /\ row.root \in known_roots
    /\ row.nullifier \notin used_nullifiers

\* What step2b checks again of the row step2a left.
Settles(row) ==
    /\ NotExpired(row.expiry)
    /\ NotDormant(NoteAsset[row.nullifier])
    /\ row.root \in known_roots
    /\ row.nullifier \notin used_nullifiers
    /\ vault_sequence = row.sequence

\* withdraw_step2b_invoke_framework_v3: the submitter settles its row.
WithdrawStep2b(submitter, hash) ==
    LET key == <<submitter, hash>>
        row == finalizations[key]
    IN  /\ key \in DOMAIN finalizations
        /\ finalizations' = Remove(finalizations, key)
        /\ Settles(row)
        /\ Spend("withdraw", row.nullifier, row.recipient, row.change,
                 row.sequence)
        /\ AppendChange(row.change)
        /\ UNCHANGED <<registryVars, depositVars, cacheVars, rootVars,
                       controlVars>>

\* withdraw_to_recipient_v2: one transaction.  A cached payload is consumed
\* when there is one; the attestation and the proof are consumed from the
\* cache or supplied in full.  The digest of the CA transfer must be the
\* note's, so only a full withdrawal passes.
WithdrawToRecipient(w, root, set, attested, proven) ==
    LET hash == RequestHash(w, vault_sequence)
    IN  /\ w.change = None
        /\ NotExpired(w.expiry)
        /\ Spendable(w, root)
        /\ InRecentWindow(set)
        /\ hash \in DOMAIN payloads => payloads[hash].digest = w.note
        /\ attested => AttestationMatches(hash, w, root)
        /\ IF proven THEN ProofMatches(hash, w, root, vault_sequence)
                     ELSE WithdrawProofHolds(w, root, set)
        /\ payloads' = Remove(payloads, hash)
        /\ attestations' = IF attested THEN Remove(attestations, hash)
                           ELSE attestations
        /\ proofs' = IF proven THEN Remove(proofs, hash) ELSE proofs
        /\ Spend("withdraw", w.note, w.recipient, None, vault_sequence)
        /\ UNCHANGED <<conservations, finalizations, next_leaf_index, leaf_log,
                       registryVars, depositVars, rootVars, controlVars>>

\* Mutant: anybody may ragequit a recorded note, to its own account.
RagequitToCaller(depositor, asset, commitment, root) ==
    /\ commitment \in DOMAIN deposit_sender
    /\ Active(asset)
    /\ CaArgumentsExist(asset, commitment)
    /\ root \in known_roots
    /\ commitment \notin used_nullifiers
    /\ RagequitProofHolds(commitment, root)
    /\ Spend("ragequit", commitment, depositor, None, vault_sequence)
    /\ UNCHANGED <<next_leaf_index, leaf_log, registryVars, depositVars,
                   cacheVars, finalizations, rootVars, controlVars>>

\* ragequit: the recorded depositor takes the note back, without the
\* association set and without naming a sequence.  Nothing on chain ties the
\* asset the caller names to the note: only its CA arguments do.
Ragequit(depositor, asset, commitment, root) ==
    /\ commitment \in DOMAIN deposit_sender
    /\ deposit_sender[commitment] = depositor
    /\ Active(asset)
    /\ CaArgumentsExist(asset, commitment)
    /\ root \in known_roots
    /\ commitment \notin used_nullifiers
    /\ RagequitProofHolds(commitment, root)
    /\ Spend("ragequit", commitment, deposit_sender[commitment], None,
             vault_sequence)
    /\ UNCHANGED <<next_leaf_index, leaf_log, registryVars, depositVars,
                   cacheVars, finalizations, rootVars, controlVars>>

\* emergency_exit_to_raw_v4: a vault-level drain of a de-listed asset.  No
\* nullifier is spent; the attested message names no sequence.
EmergencyExit(e) ==
    /\ NotExpired(e.expiry)
    /\ NotDormant(e.asset)
    /\ e.asset \notin allow_listed
    /\ vault_sequence < MaxSequence
    /\ vault_sequence' = vault_sequence + 1
    /\ LogExit("emergency", None, e.recipient, None, vault_sequence)
    /\ UNCHANGED <<next_leaf_index, used_nullifiers, leaf_log, registryVars,
                   depositVars, cacheVars, finalizations, rootVars,
                   controlVars>>
=============================================================================
