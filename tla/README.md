# A verification project for the Eunoma public backend

TLA+ modules, TLC configurations and TLAPS proofs about the Eunoma backend: a
confidential-asset bridge on Aptos (Move) and the off-chain services that drive
it (TypeScript and Rust). Paths below are relative to the repository's root
(`operator-services/...` and `ops/...` under `src/`); a bare line number is a
line of `src/move/sources/eunoma_bridge.move`.

Contents: 1 the system, 2 what is modelled, 3 the bridge modules, 4 the relayer
and deposit modules, 5 the deoperator modules, 6 the operator's modules, 7 runs
and bounds, 8 fairness, 9 proofs, 10 disagreements between code and comments,
11 what is not modelled, 12 plan.

## 1. The system

| part | state it keeps | operations | talks to |
|---|---|---|---|
| Move bridge, `src/move/sources/eunoma_bridge.move` (l.1-5682; the rest is tests) | one set of global tables for all assets: registry, nullifiers, deposit nonces, known roots, association-set log, pending deposits, four withdrawal caches, finalization rows, `vault_sequence`, `next_leaf_index` | register/activate asset, rotate configuration, record roots, deposit (binding, step2a, step2b, one-transaction), withdraw (four prepares, step2a, step2b, one-transaction), ragequit, emergency exit, eviction | the CA framework of Aptos, `groth16_bn254.move`, `poseidon_bn254.move` |
| Relayer, `operator-services/relayer/src` | journal file and its in-memory index, promise chain of the sequencer | submit withdrawal (split and one-transaction), submit deposit, emergency exit | the bridge, through the Aptos CLI; an Aptos node for gas and reserve |
| Coordinator, `operator-services/coordinator/src` | withdrawal and deposit sessions, vault state, DKG transcripts, maintenance queue | start/round2/finalize of the multi-party CA transfer, FROST fan-out, delegated submits, resync, normalisation | deoperator nodes, relayer, chain |
| Deoperator node, `operator-services/deoperator-node/src` | vault-state cursor, attestation records, session shares | partial attestation, FROST nonce and partial, observe deposit, resync | crypto worker, coordinator, chain |
| Protocol library, `operator-services/deop-protocol/src` | none | parsing, validation, aggregation, roster rules | used by all of the above |
| Crypto worker, `operator-services/crypto-worker-rust/src` | key shares, single-use FROST nonces, vault share rows | DKG, signing, balance decryption, sigma and range proofs | deoperator node |
| Circuits, `src/circuits` | none | withdrawal, ragequit, deposit binding | verified by the bridge |
| Ops and scripts, `src/ops`, `operator-services/scripts` | files | root recording, deposit observation, maintenance | bridge, coordinator |

How they interact. A **deposit** is prepared by anybody (the relayer as
delegate), verified at step2a against a FROST attestation, and settled by the
depositor's own step2b, which appends a leaf to the one global tree. Recorders
publish state-tree roots and association-set roots. A **withdrawal** is six
transactions: four prepares that fill four caches keyed by a request hash,
step2a, which consumes the caches and opens a row for its submitter, and step2b,
which settles that row, spends the nullifier, advances the one global
`vault_sequence`, transfers, and appends the change note. A **ragequit** is the
transparent exit of a recorded depositor. An **emergency exit** drains a
de-listed asset. Every exit advances the sequence, so every exit interferes with
every prepared withdrawal.

### What is hard

* **Interleaving.** All exits share two pieces of state, nullifiers and
  sequence; caches are keyed by a hash that anybody may fill and that does not
  name the note, the root, the expiry, or the change.
* **Staleness.** What a proof showed (association set, root, sequence,
  configuration) is used several transactions later.
* **Partial progress.** Any prefix of the six transactions may have landed, by
  one submitter or another, and the rest may be abandoned.
* **Lost answers and crashes.** A transaction may land and its CLI run fail; the
  relayer may die between the landing and the journal line, or within the line.
* **Clock.** Rows expire and are evicted while their owner settles them.
* **Files without locks.** A crypto worker's handler reads a file, computes or
  awaits, and replaces the whole file; its handlers run on several threads. The
  only locks are sets in the memory of the coordinator, which a restart empties,
  while the calls it had posted run on at the workers.
* **Operators.** What a failed script left behind is what the script, run again,
  starts from; two of them may overlap through the calls one gave up.
* **Numbers.** Leaf indices must be dense over deposits and change notes, since
  the off-chain tree is rebuilt from the events.

What makes each part correct. The **bridge** must spend a note once, only notes
that are leaves and that some published set approved, number exits and leaves
without gaps, use an attested deposit once, and never let a cached row settle a
withdrawal it was not made for. The **relayer** must tell the truth about what
it did, whatever was lost, and answer everybody. The **coordinator** must ask
the workers so that what they persist stays of one piece, and keep a record of
what it broadcast. A **crypto worker** must answer one challenge with one nonce,
across restarts and overlapping calls, freeze one key throughout, and never be
ahead of the chain. The **operator's scripts** must say
success only of what happened, publish a root only when it can be withdrawn
under, and get there in the end however often they are interrupted.

`PROJECT.json` lists the hazards at their lines with the properties that cover
them.

## 2. What is modelled

| module | models |
|---|---|
| `BridgeState` | constants and their assumptions, the global resources, shared guards, what circuits and proofs bind |
| `BridgeAdmin` | registry, configuration, legacy pause, roots, eviction, clock, governance listing |
| `BridgeDeposit` | the deposit entries |
| `BridgeWithdraw` | the exits |
| `EunomaBridge` | `Init`, `Next`, `Spec`, `TypeOK`, the properties, the refinement of `NoteLedger` |
| `NoteLedger` | the abstract promise: an append-only list of notes, each spendable once |
| `BridgeClaims` | a statement a comment makes of the bridge and the bridge violates |
| `Relayer` | the withdrawal route of the relayer, composed with the bridge |
| `DepositRoute` | a deposit from the deoperators' signature to the user's step2b, composed with the bridge |
| `FanOut` | how the coordinator asks the workers: requests, calls, lost answers, restarts; extended by the next five |
| `VaultState` | the vault-state file of the workers: init, finalize, observe, resync, sync_sequence |
| `KeyCeremony` | DKG, derivation and registration of the vault's key and the init that freezes it; extends `VaultState` |
| `WithdrawSession` | the four rounds of a multi-party withdrawal |
| `WithdrawSubmit` | the submit route after them; extends `WithdrawSession` |
| `VaultNormalize` | the normalisation of the vault's balance: the script, both routes, both worker handlers |
| `Operator` | what the two modules of the operator's scripts share: a bound on what goes wrong |
| `WithdrawScript` | the operator's withdrawal script over all of it |
| `RefreshCycle` | the maintenance pipeline and the root-refresh script |
| `EunomaBridgeProofs` | proofs about the bridge: exits, caches, ledger, deposits |
| `RelayerProofs`, `DepositRouteProofs` | proofs about the relayer's two routes, on those of the bridge |
| `FanOutProofs` | what any route of the coordinator does to requests and calls |
| `VaultProofs` | proofs about the vault-state files and the key ceremony |
| `VaultNormalizeProofs` | proofs about the normalisation |
| `WithdrawProofs` | proofs about the session and the submit route |
| `OperatorProofs` | proofs about the operator's scripts: what is published, what exit code 0 says |
| `MC...` | values of the constants for TLC |

Three modules compose a component with the one it drives (`Relayer` and
`DepositRoute` with the bridge, `KeyCeremony` with `VaultState`, `WithdrawSubmit`
with `WithdrawSession`). `WithdrawScript`, `VaultNormalize` and `RefreshCycle`
stand on what the modules below them promise and take a coordinator round as a
step or two.

### Abstractions

* A **transaction** is one step. An abort changes nothing, so an aborting entry
  is a step that is not enabled; the order of the checks inside an entry matters
  only to the relayer, which reads abort codes, and is kept there.
* A **commitment** stands for its note, therefore also for its nullifier hash
  and the digest of its amount. Amounts are not modelled: that a partial
  withdrawal conserves value is what the conservation entry verifies, and enters
  the model as the row it leaves.
* The **root** of a state tree is the number of leaves it was built over; the
  root of an association set is the set. `WithdrawProofHolds` and
  `RagequitProofHolds` say what the circuits let a verifier conclude.
* A **request hash** is the tuple `compute_request_hash_v4` hashes, with the
  payload hash folded into the tag. Two withdrawals may share one, as in the
  code.
* An **attestation** can be obtained at any time for the message the code
  serialises; it is a cached row only when the code caches it, and is matched
  under the configuration of the moment of use.
* The **CA framework** refuses an asset that is not allow-listed, and a transfer
  whose arguments were made for another asset. Fees are left out.
* `VaultCoreV4.paused` is read in many places and assigned by none, so it is not
  a variable; `SetLegacyPause` is the flag `pause_v2` really sets. For the same
  reason an asset is DORMANT or ACTIVE.
* `DepositSenderMap` exists from the start, as after `init_v4`.

## 3. The bridge modules

State is named as in the code. `proofs`, `attestations`, `payloads` and
`conservations` are the tables of the four caches; `finalizations` is keyed by
`<<submitter, request hash>>` as `compose_pending_key` does; `leaf_log` and
`exit_log` are the events, and the only history the properties look at.

Each entry function is one action with the entry's name; `PROJECT.json` maps
each to its lines. `AdminStep`, `DepositStep` and `WithdrawStep` group them.
`Step2aVerified` holds all that step2a checks before its own-row check, because
the relayer has to tell these two failures apart. A client may prepare a
conservation row for a sequence it read up to `MaxLag` exits ago, since that
entry reads no sequence. `EvictStaleDeposits` takes any set of keys, as the
entry's argument does, and removes the stale ones among them.

Properties (`EunomaBridge`):

* `NoDoubleSpend`, `SpentNotesAreLeaves`, `WithdrawnNotesWereApproved`,
  `RagequitPaysDepositor`: what an exit may pay, over all five ways out.
* `ExitsAreSequenced`, `InFlightUnspent`, `PayloadFollowsProof`: why the caches
  are safe. A row for the current sequence never names a spent note; a row for
  an earlier one is dead; a payload is never paired with a proof other than the
  one its digest came from.
* `LeavesAreDense`, `NonceUsedOnce`: why the tree can be rebuilt off chain and
  each attested deposit counts once.
* `FirstRecordedIsPaid`: whom the depositor map names for a commitment it names
  for good, so another account's deposit of it redirects no ragequit. It needs two
  accounts: `BridgeRagequit.cfg` checks it, and it is proved for any number.
* `ImplementsLedger`: each step of any entry is a deposit, an exit of a held
  note, a drain, or invisible.

No fairness is assumed of the chain: nobody is obliged to call anything, so the
bridge has no liveness property.

## 4. The relayer and deposit modules

`Relayer` extends `EunomaBridge` with `POST /v3/relayer/submit/withdraw`.

| code | model |
|---|---|
| `createGasGuard().check()` refuses (`server.ts` l.203) | `Refuse` |
| `buildJournalResume` before `runExclusive` (`server.ts` l.212) | `ResumeAfter`, read by `Submit` when the handler joins `queue` |
| `VaultSequencer.runExclusive` | `queue`; only its head runs, and `Reply` removes it whatever the outcome |
| `WITHDRAW_V3_ENTRIES`, `skip` for an empty change | `Steps`; without change later steps move up by one |
| `onStepStart`, `runAptosCli`, retries | `Begin`, then `Land`, `Abort` or `LoseAnswer`, then `Retry` |
| `recoverableAlreadyPreparedMarker`, `parseTerminalMoveAbort` | `AbortAnswer`, from the order of the checks in the Move entries |
| `onStepDone` | `Progress` |
| 202, 409, 502 | `Accept`, `Fail` |
| `FileSubmitJournal` | `index` (memory) and `lines`, `cut`, `torn` (file) |
| death and restart | `Crash`, with any outcome of the append under way |

A lost answer either is worth a retry (rate limit, 5xx) or not, and the
transaction landed or did not: four outcomes, all in `LoseAnswer`. The journal
file may end in a line without a newline. If that line is complete, the next
load reads it (`cut`); the next append continues it, and then neither parses.
Intent lines are only lines of the file, because nothing reads them back; yet
the intent that precedes each completion is what takes the damage of a torn line,
which is what `RecordedIsReadable` is about.

The environment is what the relayer can notice: deposits, roots, sets, the
clock, and one-transaction withdrawals by others, which move the sequence under
a running handler. The relayer's own one-transaction route takes no lock and is
such an environment step. A rival that prepares rows for the same request appears
as a second call for the same request.

Properties: `AnswersAreTrue` (202 only of a withdrawal that settled as asked, 409
only of a spent note), `JournalIsTruthful` (the journal is never ahead of the
chain on the two steps that matter), `RecordedIsReadable`,
`OnlyDisturbedCallsFail` (in a quiet world no call fails), `EveryCallIsAnswered`.
The first two say of a 202, and of the journal, what they say for requests whose
hash no other withdrawal was posted under (`OwnsHash`). The hash names the CA
payload and neither note nor change, nothing in the relayer compares those, and
without the premise both are false: `ResumeReconciles` is the unrestricted claim,
and `RelayerSharedHash.cfg` has its counterexample.

With a finite number of calls, "the queue empties" says that each of them is
answered; `Crash` answers its callers by a dropped connection.

`DepositRoute` extends `EunomaBridge` with the other route.

| code | model |
|---|---|
| coordinator's deposit frost-attest: nonces, shares, aggregation, artifact | `Attest`, `PhaseAnswered`, `AttestFails`, `Aggregated` |
| the message with the configuration the coordinator is set up for | `MessageOf`, `Signed` |
| delegate-submit and the relayer's deposit route; no turn is taken | `handlers`, any number side by side |
| `depositDelegateRequestHash`, which leaves the expiry out | the key of `completed` |
| a "pending" abort taken for an earlier success | `AbortsPending`, from the order of the checks in the Move entries |
| step2b, evictions, one-transaction deposits, ragequits of anybody | the bridge's actions |

`AcceptedDepositsAreOpen` is what a 202 is worth: the user can drain a deposit of
the commitment, did so, or let it expire. It is not that *this* deposit's step2a
landed: a row left by another deposit of the same commitment looks the same, and
the property says that this does no harm. `NonceUsedOnce` and `RagequitPaysDepositor`
of the bridge are checked in this instance, where the relayer supplies the interference.

## 5. The deoperator modules

`FanOut` is the shape every coordinator route has: take a lock, post one call to
each worker, wait for all, answer. `flight[p]` is a request, `call[p][s]` the call
it made of worker s: how far the handler got (`at`), what it has read (`base`),
what it answers (`got`), and whether somebody still waits (`heard`). `Disconnect`
loses an answer, `WorkerCrash` a handler, and `CoordinatorCrash` all requests and
with them every lock, while the calls run on unheard: that is how two handlers of
one kind meet at a worker although the coordinator locks.

`VaultState`. Each worker handler is a read step and a write step, because the
code reads `vault_state_v2.json`, awaits, and renames a whole new file into place
(`crypto-worker-rust/src/lib.rs` l.6315, l.6580, l.6838).

| code | model |
|---|---|
| `init_vault_state_v2`, created with a hard link | `InitRead`, `InitWrite` |
| `finalize_vault_state_v2` | `FinalizeRead`, `FinalizeWrite` |
| `observe_deposit_v2` | `ObserveRead`, `ObserveWrite` |
| `run_vault_resync_v2`: read, look the transaction up, write | `ResyncRead`, `ResyncWrite` |
| `run_vault_sequence_sync_v2`: read, look the chain up, write | `SyncRead`, `SyncFetch`, `SyncWrite` |
| the coordinator's routes, the comparison of the contributions, the transcripts | `Start...`, `...Answered`, `transcripts`, `observed` |

`KeyCeremony` adds the routes before init. The DKG asks node after node; `share`
is the file its second round writes, whichever run the call belongs to, and
whether or not the worker has a vault file already (`lib.rs` l.2481). The
derivation keeps one blinding file per worker (`blind`); a registration draws a
nonce per request id and answers with it (`nonces`, `answers`). No stage looks at
what runs on of an earlier one: a DKG may be begun again at any time, and a late
round2 may come at any time. What holds all the same is `FrozenKeyIsWhole`: what
a worker froze is of one DKG run. What does not is `VaultKeyIsHeld`, that the
workers still have their shares of it (`KeyLateShare.cfg`, section 7).

`WithdrawSession`. `share`, `pin` and `nonces` are the session files. The pin is
linked into place before a secret is loaded, and is what makes overlapping
finalize calls safe; two handlers of one round may rename each other's temporary
file (`RoundsWriteTogether`). A route reads the artifacts of the rounds before it
and only then takes the lock, hence `Ask` and `TakeLock`.

`WithdrawSubmit` adds the submit route with its artifact, the relayer reduced to
its journal, the transaction, and a wallet that spends the note by itself. The
artifact is "stub" after a submit made before the attestation, "attempted" once a
transaction is on record, "completed" after its success. The route has dead ends
that a client cannot leave, and `SubmitFinishes` names all of them: the recorded
transaction aborted and is polled again at every submit; a stub is in the way of
the artifact of the settlement (the check before the broadcast lets it through,
the exclusive create after it does not); the recorded inputs were replaced by a
new attestation (`InputsReplaced`). A comment in the route promises a retry in the
first two; `SubmitAborted.cfg` and `SubmitStub.cfg` have the counterexamples.

`VaultNormalize`. The two routes use different quorums: the decryption keeps any
threshold of the slots that answered, the other asks the lowest. `SigmaRefused`
is the refusal that follows. Each worker fetches the balance itself
(`BalancePartial`), at its own time.

| property | why it could be wrong |
|---|---|
| `CursorIsBacked`, `FrozenForever`, `PinsAgree`, `TranscriptsAreHeld` | a stale copy of a whole file overwrites a later one; two inits race; a coordinator restarts between an init and its finalize |
| `NonceAnswersOnce`, `OneChallenge` | a repeated or late call gets a second answer with one nonce, which gives the share of the key away |
| `FrozenKeyIsWhole` | derivation, registration and shares are of different DKG runs |
| `FinalIsBacked`, `FinalIsStable` | a round, or an attestation, writes back what it read before another |
| `CompletedIsSettled`, `RecordedIsKept` | a crash or a lost confirmation makes the route forget or repeat a broadcast |
| `RoundsAgree`, `SuccessIsTrue` | partials of two balances, responses of two sets of slots, a transaction given up that lands |
| `CeremonyFinishes`, `SessionFinishes`, `SubmitFinishes`, `NormalizationFinishes` | files of two attempts that do not fit block every further attempt |

## 6. The operator's modules

`WithdrawScript` is `scripts/local_v2_withdraw_full.mjs` with one action per step
and its exit codes: reading the vault, the catch-up of the workers' files to the
sequence it was started for, the rounds, the entries (by itself, "split", or by the
coordinator's submit), and the resync after the exit. A kill, a lost answer or a
transaction given up for lost ends the run anywhere (`Fails`, `GivesUp`), and such
a transaction may land later (`StrayEnds`). `ZeroIsTrue` says what exit code 0
promises; `NotesAreWithdrawn` that repeating the script gets there. The latter has
one exception, `Stranded`, which is real: the catch-up starts from the lowest file
of all workers, and one that is down stops it.

`RefreshCycle` is `ops/scripts/refresh_known_root_cycle.sh` and the pipeline of the
coordinator that spawns it. Trees, balances and association sets are numbers of
leaves. The script's steps are the values of `cycle.at`; the files it leaves, with
the staging directory and both kinds of sidecars, are variables, so that a kill
(`StepFails`) leaves exactly what is on disk. `inFlight` and `pending` are the
coordinator's memory, `queue` the durable file, and `Served` the tree the coordinator
hands out, which may be a staged one. `PublishedIsReady` is the promise in the
script's header; `PublishedGrows` that no leaf is taken back;
`EveryLeafIsPublished` that each leaf is published in the end, in spite of a queue
that may lose hashes. The queue file is written without a newline at its end
(`refresh_known_root_cycle.sh` l.160-166), so the next cycle that adds to a file a
failed cycle left joins two hashes into one word, and its filter drops the word:
`unended` is the hash at the end of the file, `Joined` what the joining destroys.
A lost hash is found again when the indexer catches up with its event, which is
why the leaf is published nevertheless.

The builder has two ways to stop for good, both of them the model's.
It throws on a hash whose transaction aborted (`Aborted`), and each later cycle
reads the same queue. And it skips a leaf of an asset outside the allowlist
(`Others`; those the coordinator lists are `Listed`) without a note, after which
every later leaf is deferred as a gap, since leaf indexes are global; runs the
timer starts list the script's own asset only. `EveryLeafIsPublished` names both
as the exceptions; `TimerRetries` is the claim without them, which
`RefreshAborted.cfg` and `RefreshOthers.cfg` refute.

## 7. Runs and bounds

| run | question | bounds | distinct states |
|---|---|---|---|
| `BridgeCaches` | do the caches carry proof, approval and change faithfully to the settlement? | one deposit, a partial and a full withdrawal that share a request hash, the withdrawal of the change, two association sets with a window of one, two exits, one sequence of lag | 230,304 |
| `BridgeRegistry` | are exits numbered right when a drain interferes with a pending withdrawal, and leaves when deposits and change notes share the index of an asset? | three assets of which two derive the same identifier, two keys, two exits, a deposit row that can expire and be evicted, a withdrawal with change | 1,265,216 |
| `DepositRoute` | is a 202 true, is a nonce used once, and is a ragequit paid right, with the relayer's handlers overlapping? | one commitment deposited twice under two nonces and expiries, two calls, two attempts, one crash, two faults | 472,608 |
| `RelayerRecovery` | is the relayer truthful under crashes and lost answers, do calls fail only for a reason, are all answered? | a full and a partial request, two calls, two crashes, one lost answer, two attempts | 494,979 |
| `VaultFiles` | do the workers' files stay of one piece when handlers overlap? | two workers that are the quorum, two init requests of one key, two requests in hand, one event on the chain, one fault | 877,864 |
| `KeyCeremony` | is no nonce answered twice, do the scripts get through? | two workers, one request id for init, one for registrations besides the fresh one, two requests in hand, one fault; the DKG is repeated only when a share is lost | 141,060 |
| `SessionRounds` | can repeated, overlapping rounds draw two answers from a worker, or change a finalize? | two workers, two requests in hand, two starts, start, round2 and finalize repeated, one fault | 1,028,026 |
| `SubmitRecovery` | is the record of a broadcast kept, is "completed" true, is the client served or at a known dead end? | one request in hand, five starts, two signatures, two faults | 89,306 |
| `VaultNormalize` | do the rounds fit together, is success true, does it finish? | three workers, a quorum of two, two attempts, two moves of the balance, one fault | 133,554 |
| `WithdrawScript` | is exit code 0 true, are notes withdrawn in the end? | three workers, a threshold of two, two notes, both paths, one exit or rollover of others, two faults | 466,318 |
| `RefreshCycle` | is what is published ready, kept, and complete in the end? | three leaves of which the last is another asset's, listed by the coordinator's runs alone, a minimal set of one, one hash without a leaf, one of an aborted transaction, two triggers, one fault | 608,142 |
| `ClaimDepositors` | is the depositor map written by every deposit? The counterexample of section 10 | one commitment, one deposit | (violated) |

Why this is enough. The bridge's properties are about at most two rows or two
exits at a time, and every interference goes through the nullifier table, the
sequence, one row of a cache, or the clock. Two exits give a row that is stale by
one exit, and the code compares sequences for equality only. Two sets and a window
of one give an approval that has aged out. Two calls give a handler that read its
resume point before another ran. Two attempts give a retry and its limit; two
crashes a torn line, its repair, and a second restart.

Two requests in hand at a worker give every overlap of two handlers, and a third
would meet the same files; one fault is enough to make a call run on unheard. Two
workers that are the quorum let any one of them lag behind the others; that more
may is covered by the proofs, which hold for any roster. With one event on the
chain `VaultFiles` does not reach an observation beside a resync: the proof of
section 9 does. Five starts are as many as two faults can waste.

In `VaultFiles` and `SessionRounds` requests in hand and workers are symmetric:
these runs check safety only, and nothing in the modules tells them apart.
Deadlock is checked in `WithdrawScript`. In the others, with every bound used up
there is rightly nothing left to do.

Nine more configurations are kept beside these. Each is run by itself,
`tlc -config <name>.cfg <module>`. Seven end with a counterexample to a claim that a
comment makes and the code does not keep (section 10); two pass, and are instances
of theorems that are too narrow to be the runs of their modules.

| configuration | module | outcome |
|---|---|---|
| `BridgeRagequit` | `MCEunomaBridge` | two accounts deposit one commitment: `RagequitPaysDepositor` and `FirstRecordedIsPaid` hold (1,080 states) |
| `KeyRedealt` | `MCKeyCeremony` | a DKG run again at any time (`MaxRuns` is 2): `FrozenKeyIsWhole` holds (1,655,308 states, safety only) |
| `RelayerSharedHash` | `MCRelayer` | `ResumeReconciles` is violated |
| `KeyLateShare` | `MCKeyCeremony` | `VaultKeyIsHeld` is violated |
| `SubmitStub`, `SubmitAborted` | `MCWithdrawSubmit` | `StubIsRetried` and `FailureIsRetried` are violated |
| `RefreshQueue` | `MCRefreshCycle` | `QueueIsDurable` is violated |
| `RefreshAborted`, `RefreshOthers` | `MCRefreshCycle` | `TimerRetries` is violated, for each of the two reasons |

Each property of a passing run has a mutant in `PROJECT.json`: a small change of
a definition, of the kind a slip in the code would make, which the run detects.

## 8. Fairness

No fairness is assumed of the chain: nobody is obliged to call anything, so the
bridge has no liveness property, and `VaultState` and `DepositRoute` have none.

* `Relayer`: weak fairness of `RelayerStep`, what the head of the queue can do.
  Node's event loop and the exit of the CLI process justify it; the CLI run has no
  time limit in the code (`relayer/src/withdraw_v3_submitter.ts` l.356), so that
  half is an assumption about the CLI.
* `WithdrawSession`, `WithdrawSubmit`, `KeyCeremony`: weak fairness of each
  worker's handler and of each request at the coordinator, since none waits for
  another. The client, or the operator, repeats: weak fairness of asking for a
  round, strong fairness of a submit and of each ceremony script, because these
  are disabled again and again while another is running. A transaction's wait has
  a deadline (`SubmitStep`).
* `VaultNormalize`: the timer starts runs, handlers run on, requests time out, and
  the chain executes what is in its mempool. Only workers the fixed quorum does
  without may be down for good.
* `WithdrawScript`: a run goes on, the operator calls sync_sequence when told to,
  and tries each note again and again (strong fairness per note, since the runs of
  one note disable those of the other).
* `RefreshCycle`: the systemd timer fires, the script runs on, spawned scripts
  start, the indexer catches up. A run that the coordinator's pipeline starts is
  owed to nobody.

Assumptions about the operator, taken from the scripts and their usage texts: one
script at a time, which is all that `MayStart` asks (the calls of one that was given
up may run on); a registration that failed is retried under a fresh id or the same;
the dealers of a DKG are honest. A DKG is run again when a worker lost its share,
and `MaxRuns` times for no reason; that it is not repeated for ever is needed for
`CeremonyFinishes`, which `KeyCeremony` checks with no needless repetition. In
`WithdrawScript` one run is under way at a time (the coordinator's withdrawal lock
turns a second away) and a resync of the workers is one step; its interleavings are
those of `VaultState`.

## 9. Proofs

The theorems hold for every value of the constants that satisfies the named
assumptions of the modules. These are what the code's types give: sets of the
right members, finite where the code counts them, non-negative bounds, `None` and
`Nil` none of the values they stand beside (`NormalizeNames` and the first line of
`WithdrawScriptConstants` say it word by word), change of the same asset as the
spent note. One premise says more: `InitsNameTranscripts` (of the theorems about
`KeyCeremony`), that the requests `VaultState` takes for init are those the ceremony
makes. The configurations give `Inits` exactly that value; it is a premise and no
`ASSUME` because the set is infinite and TLC could not compare it.

### The bridge (`EunomaBridgeProofs`)

* `TypeCorrect`: `Spec => []TypeOK`. `TypeOK` is inductive. `PutIsTable` and
  `RemoveIsTable` say that writing and removing a row keep a table a table;
  `UnchangedTypes` disposes of what an entry leaves alone; one lemma per group of
  entries does the rest.
* `NotesSpentOnce`: `Spec => []NoDoubleSpend`.
* `SequenceNumbersExits`: `Spec => []ExitsAreSequenced`.

`NoDoubleSpend` is not inductive: an arbitrary log may hold an exit of a note
whose nullifier is not marked, and the next exit of that note would repeat it.
The strengthening is `TypeOK`, `SpentAreMarked` (the note of every exit in the
log is in `used_nullifiers`), `NoDoubleSpend` and `ExitsAreSequenced`. The heart
is `StepExits`: whatever the entry, a step either leaves log, nullifiers and
sequence alone, or appends one exit, which carries the present sequence, advances
it, and spends an unmarked note, or no note in the case of an emergency exit. It
is the one place where the entries are looked at one by one: it rests on the
nullifier guard of each spending entry and, for step2b, on the row's sequence
being equal to the vault's. `SpentAreMarked` and the two properties follow from
it for any step.

`StepCaches` and `StepFinalizations` look at the entries from the side of the
caches. They say what a step can do there: add a proof row for an unspent,
approved leaf at the present sequence; add a payload under a proof that is there;
drop a payload, perhaps with its proof; open a finalization row from a proof row;
close one.

* `PayloadStaysWithProof`: `Spec => []PayloadFollowsProof`. The property is
  inductive as it stands: no case drops a proof and keeps its payload.
* `SpendsStrandRows`: `Spec => []InFlightUnspent`, split into `ProofsInFlight`
  and `RowsInFlight`. A new row is for an unspent note, and `StepExits` gives that
  a nullifier is marked only while the sequence advances, so every earlier row
  falls behind the sequence in the very step that could make it stale.

What a proof showed has to be carried to the settlement. Neither property about
exits is inductive, because step2b reads neither the tree nor the sets: the
strengthening is `NotesInFlight`, that each note a proof row or a finalization row
names is a leaf and approved. It holds because leaves and published sets are only
appended (`StepLogs`, `LeavesStay`).

* `SpentNotesWereDeposited`: `Spec => []SpentNotesAreLeaves`.
* `WithdrawalsWereApproved`: `Spec => []WithdrawnNotesWereApproved`. Approved
  means by some published set, which is all that is true: see section 10.
* `BridgeImplementsLedger`: `Spec => ImplementsLedger`. `StepLedger`, under
  `NotesInFlight`, sorts every step into a deposit, an exit of a held leaf, a
  drain or a stutter; `NotesOfAppend` shows that the mapping from leaves to notes
  commutes with appending, and `LedgerStep` concludes.

The deposit side:

* `NoncesGiveOneLeaf`: `Spec => []NonceUsedOnce`. Inductive with the types: a
  settled row and the leaf of its nonce are made in one step, and both ways to
  attest a deposit look at the table of nonces first.
* `LeafLogIsDense`: `Spec => []LeavesAreDense`, which counts the leaves of each
  asset as well. The count needs `LeavesRegistered`: an asset that is registered
  later has no leaves yet.
* `RagequitReturnsDeposit`: `Spec => []RagequitPaysDepositor`, strengthened by
  `SendersDeposited`: whoever the depositor map names has a leaf of that commitment.
* `RecordedDepositorIsPaid`: `Spec => FirstRecordedIsPaid`. A recorded name stays
  (`RecordStays`) and each ragequit of the log paid the name on record
  (`PaidIsRecorded`).

### The relayer's routes (`RelayerProofs`, `DepositRouteProofs`)

* `RouteRunsTheBridge`: `RelayerSpec => Spec`, and `DepositRouteRunsTheBridge`:
  `RouteSpec => Spec`. A crash, an append or a lost answer leaves the chain alone,
  and a call that lands is one entry of the bridge. Every theorem above therefore
  holds of both compositions.

`RouteInv` of the withdrawal route has four parts. A handler has done the entries
before its next one, and its last answer has a reason on the chain (`JobOK`). Only
the head of the queue has passed its intent, and the file is not torn then
(`OnlyHeadRuns`). What is on a line is in the index, and a step in the index has
left its trace (`JournalOK`). Replies are true. The trace of step2a is its row *or*
the settled exit, since step2b removes the row, perhaps that of a second call of the
same request. That every row is of a request posted under its hash (`RowsArePosted`)
makes it the row of this request when no other shares the hash; `OwnsHash` is the
premise of the properties themselves and no assumption on the constants, and 409 does
without it.

* `RouteAnswersTruly`, `JournalTellsTheTruth`, `RecordsAreReadable`.

`RouteInv` of the deposit route carries along that every row was attested
(`RowsAttested`). A step2a that landed is then visible as `Opened`: the row, the
leaf, or a nonce that is used up and an expiry that has passed. Every step keeps
this, evictions and the draining of another deposit's row included.

* `AcceptedMeansOpen`.

### The deoperators (`FanOutProofs`, `VaultProofs`, `VaultNormalizeProofs`, `WithdrawProofs`)

`FanOutProofs` says once what posting, closing, disconnecting and crashing do to
calls: a call is unchanged, unheard, or gone; a handler moves one call.

`VaultProofs`. The invariant `VaultInv` has five parts: types; every file is sound
(it belongs to a contribution that init froze, its cursor is backed by the chain,
its pin is of its own hash); the copies in the hands of handlers are sound and have
the frozen fields of the file they will replace; answers to the coordinator are of a
file that exists; what is persisted is backed by files. It is needed because a
property of the files alone is destroyed by any handler that writes back what it
read. The proof uses no lock of the coordinator, so the locks are not what keeps
these files right.

* `VaultTypes`, `CursorsAreBacked`, `PinsAreOne`, `TranscriptsStayHeld`,
  `WhatInitFroze`: the properties of `VaultFiles` for any roster, threshold,
  requests, events and faults. `CeremonyFilesAreSound` has them with the ceremony
  running beside (`VaultInv` is kept by its steps too).
* `NoncesAnswerOnce`: `CeremonySpec => []NonceAnswersOnce`. `NonceInv`: files and
  answers hold only nonces that were drawn, no two files the same one, no answer one
  a file still holds. The single use is the atomic removal of the file; a handler
  that has read it and finds it gone cannot answer.
* `FrozenKeyStaysWhole`: `CeremonySpec => []FrozenKeyIsWhole`, with the DKG run again
  at any time and late rounds of it at any time. `WholeInv`: what the coordinator
  registered, what an init names while it is under way at a worker, and what is in a
  file, is of one run throughout and was answered by all its workers; answers are
  never taken back. No order of the operator's scripts is used.

`VaultNormalizeProofs`. `NormInv` follows a balance from the read over the partials
and the bundle to the transaction: `RunSound` (what a run claims of the balance,
by step), `RoundsSound` (parts are of the balance read, a response has all its
slots), `AskedSound` (the request the run waits for is the one of its step),
`CallsSound` (a partial is of the balance its request named).

* `TheRoundsAgree`, `SuccessTellsTheTruth`.

`WithdrawProofs`. `SessionInv` adds `Custody` to the types: a handler past its pin
holds the pin; every answer was given under the pin (`ReleasedUnderPin`); arguments
of a request, read before the lock was taken, and answers that were accepted, are
backed; so is the artifact. The lemmas `CallKept` and `Carried` say that what only
loses calls, or adds pins and answers, keeps it.

* `SessionTypes`, `ChallengesAreSingle`, `FinalsAreBacked`, `FinalsAreStable`.
  Stability follows from backing: the artifact before and the one after a step
  are both backed by the same pin of some worker.

The submit route extends the session's invariant (`QuietKeeps`: the route touches
none of the session's state) by `RouteInv`: the relayer is heard by the one handler
that called it; a handler that broadcasts does so because nothing is recorded; one
that recovers has the recorded inputs. The session is needed for the type of what is
signed.

* `CompletionsAreSettled`, `RecordsAreKept`.

### The operator's scripts (`OperatorProofs`)

`RefreshInv` says for each step of the refresh script what the staged tree is
already known to have (`Phases`: no leaf less than the published one, then
observed, rolled over, packed, recorded), that every sidecar's root is ready, and
that nobody has heard of an unconfirmed leaf. That the builder's result exists is an
argument by the least missing leaf (`WFMin`).

* `RefreshTypes`, `PublicIsReady`, `PublicGrows`, with hashes of aborted
  transactions included.

The withdrawal script is in the same module. What exit code 0 said stays true because chain and files only go forward (`Forward`). For
the files this needs that none is ahead of the chain (`VaultSound`): a
sync_sequence would take such a file back, and with it a worker that the run had
counted. `RunSound` adds that a run at its last step has its exit on the chain.

* `ZeroTellsTheTruth`.

### Model-checked only

* Liveness under fairness, which is beyond the proof system: `EveryCallIsAnswered`,
  `CeremonyFinishes`, `SessionFinishes`, `SubmitFinishes`, `NormalizationFinishes`,
  `NotesAreWithdrawn`, `EveryLeafIsPublished`.
* `OnlyDisturbedCallsFail`: an entry aborts when it is not ENABLED, and the
  provers know nothing of ENABLED. It also asks more of the constants than the
  other properties of `Relayer`: of two requests with the same tag and different
  expiries, the later could take the attestation of the first for its own.
* The properties with a counterexample in section 10 are false, so there is nothing
  to prove.

## 10. Disagreements between code and comments

Eight have a counterexample: the first in a run, the others in the configurations of
that name (section 7).

* `ClaimDepositors`. The depositor map is "written at deposit finalization" (l.341);
  `deposit_with_commitment_v2` finalises and does not write it, so its depositor has
  no ragequit.
* `RelayerSharedHash`. Resume decisions "MUST reconcile against ON-CHAIN state"
  (`relayer/src/submit_journal.ts` l.6); `buildJournalResume` (`server.ts` l.212) reads
  the journal alone, under a hash that names the payload. A second withdrawal with the
  same payload is answered 202 from the lines of the first.
* `KeyLateShare`. A vault is served by workers that "all hold valid ca_dkg_share_v2
  entries" (`coordinator/src/server.ts` l.2530); round2 of a DKG replaces the share
  unconditionally (`lib.rs` l.2481), after init as well, and nobody looks again.
* `SubmitStub` and `SubmitAborted`. "If it exists with completed:false (stub passthrough
  or any failure state), allow re-attempt" (`coordinator/src/server.ts` l.7134). After a
  stub the route broadcasts and then cannot create its artifact: 409, at every submit
  (l.7632). After an abort it takes the record for a transaction in flight and confirms
  the same hash at every submit (l.7219), against l.7535 and the comment above the test
  `submit_route_502s_on_chain_execution_failed_with_vmstatus` too.
* `RefreshQueue`. Hashes are queued "for durable retry" (`refresh_known_root_cycle.sh`
  l.167); two of them are joined into one word and dropped (l.160-166).
* `RefreshAborted`. "Timer will retry next cycle" (l.28 of the same); the builder stops at
  a queued hash whose transaction aborted, in every cycle
  (`local_build_commitment_tree.mjs` l.218).
* `RefreshOthers`. "The systemd timer is the retry mechanism"
  (`bridge_maintenance_pipeline.ts` l.23); a leaf outside the allowlist is skipped without
  a note (`local_build_commitment_tree.mjs` l.489) and every later leaf waits behind the gap.

Others were met while modelling and have no counterexample here. In the bridge:

* l.1573 lists `!vault.paused` among what step2b re-asserts; `pause_v2` (l.1222)
  sets a flag of the legacy vault that no V4 entry reads.
* "Revocation takes effect once a commitment's root falls past the window"
  (l.4310); the window is consulted when the proof is cached, and a cached proof or
  an open row settles after it.
* After a rotation a second asset may be activated under another key, against
  l.944; commitments are not unique across senders, against l.1907.

In the relayer:

* The journal is not reconciled after an uncertain answer either, against
  `withdraw_v3_submitter.ts` l.188: after a step2a that landed with its answer lost, the next call runs step2a again and
  answers 502.
* A handler that fails after step2a frees the sequencer with its row open, against
  `vault_sequencer.ts` l.6; a retry of a call whose row the relayer already holds may
  be refused by the gas guard, against `server.ts` l.201; a complete last journal
  line without its newline is read by one restart and lost by the next, against
  `submit_journal.ts` l.66.

In the coordinator and the workers:

* "Can ALWAYS re-run init" (`lib.rs` l.6315) and init over shares a late DKG round
  has broken up: the first worker freezes the key, the next refuses, and no script
  gets out (`Stranded` in `KeyCeremony`).
* "Strict supersession" (`lib.rs` l.6599): an observation and a resync that overlap
  overwrite each other's field; the model shows that what survives is sound, not
  that nothing is lost.
* The assembly of the withdrawal's payload and frost-attest read two artifacts: the
  statement of round 2's and the proof of finalize's, which may be of two rounds
  (`coordinator/src/server.ts` l.5771).
* `balance_decrypt.ts` l.27 keeps any threshold of slots, `normalize_sigma_s0.ts`
  insists on the lowest: with a low slot down in the first round only, the second
  refuses, and the script exits 33 though enough workers answered both times.

In the scripts:

* "The next run's pre-round1 catch-up heals" (`local_v2_withdraw_full.mjs` l.1771):
  the hash of a split exit is in no artifact, so the next run finds no transaction
  for the step. Ragequits and drains leave no `WithdrawEvent` and stop the catch-up
  in the same way until sync_sequence is called.
* "Non-quorum / uninitialized slots are never resync targets"
  (`_lib/vault_resync_client.mjs` l.74): the file of a worker outside the quorum sets
  where the catch-up starts. And the five of seven that a required resync asks for
  are not the five slots the next run will use.
* `local_vault_setup_v2.mjs` calls a flag optional that the coordinator's init
  requires; `local_v2_deposit_submit.mjs` calls an entry with arguments it no longer
  has. And the deposit route's recovery of a step2a that finds its row is not reached by
  a retry of the same deposit, whose nonce is refused first (l.1768): it takes the row
  of another deposit for its own.

## 11. What is not modelled

* Field arithmetic, curves, hashing and encodings: Groth16, Poseidon, the
  constraint systems, sigma and range proofs, FROST and MPC arithmetic. What they
  bind is in the model, what they compute is not.
* In the bridge: the fallback attestation (a bitmap of signatures), the setters of
  fees and delegates, key publication.
* In the coordinator and nodes: setting members up (HPKE keys, roster, MPC
  material), complaints of a DKG, FROST key generation and rotation (keys are
  written once, with nothing running beside them; what a rotation does to the
  bridge is `RotateConfig`), V1 attestations, the one-shot payload routes, read-only
  routes, registration of nodes, authentication and parsing.
* In the relayer: the one-transaction withdrawal is a step of `Relayer`'s
  environment, the emergency exit one of the bridge.
* In the scripts: the end-to-end checks, smoke tests and diagnostics, which drive
  the modelled routes and keep no state; the report file a withdrawal leaves
  (`M10_FINAL_REPORT`); the simulated mode of the relayer, in which a submit reports a
  transaction it never sent.
* Progress of the bridge: that a blocked request hash becomes free depends on exits
  somebody chooses to make.
* That the deposit counts of the workers fall apart when an observation fails at
  some of them (`coordinator/src/server.ts` l.9222): it is what the code does, and
  no route repairs it.

## 12. Plan

Done: the bridge with its refinement; the relayer's two routes; the coordinator
and workers from the key ceremony to the submitted withdrawal; the operator's
withdrawal, normalisation and refresh scripts. Every safety invariant the passing
runs check is a theorem, and every action property but `OnlyDisturbedCallsFail`.

Left, in this order:

1. `OnlyDisturbedCallsFail` as a theorem, from a guard of each entry that is
   spelled out and shown to be its ENABLED.
2. An abstract withdrawal (a note, a sequence, at most one settlement) that
   `WithdrawSubmit` and `Relayer` both implement, as `RouteRunsTheBridge` makes the
   second one implement the bridge.
3. FROST rotation beside running rounds.
