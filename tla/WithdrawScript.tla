---------------------------- MODULE WithdrawScript ----------------------------
(***************************************************************************)
(* The operator's withdrawal, local_v2_withdraw_full.mjs, from the note to *)
(* the settled exit: it reads the vault from the chain, brings the files   *)
(* of the workers up to the sequence it was started for, goes through the  *)
(* rounds of module WithdrawSession, submits the entries of module         *)
(* BridgeWithdraw itself (or has the coordinator submit, WithdrawSubmit),  *)
(* and has the workers follow the exit (the resync of VaultState).         *)
(*                                                                         *)
(* Meanwhile wallets withdraw and ragequit, pending deposits are rolled    *)
(* over, and transactions an earlier run gave up waiting for may land.     *)
(* The operator runs the script for one note at a time, again for one that *)
(* failed, and calls sync_sequence by hand when the catch-up fails; the    *)
(* script reads all the workers' files, those of workers that are down     *)
(* included.                                                               *)
(***************************************************************************)
EXTENDS Operator, FiniteSets, FiniteSetsExt

CONSTANTS
    Slots,      \* the slots of the roster
    Threshold,  \* RESYNC_THRESHOLD; the lowest so many slots do the rounds
    Notes,      \* the notes the operator withdraws
    Paths,      \* how the exit may be submitted (EUNOMA_WITHDRAW_V3_SPLIT_SUBMIT)
    MaxMoves    \* bound on the exits and rollovers of others

Outcomes == {"ok", "failed", "unsynced", "short"}

ASSUME WithdrawScriptConstants ==
    /\ Slots \subseteq Nat /\ IsFiniteSet(Slots)
    /\ Threshold \in 1..Cardinality(Slots)
    /\ Paths \subseteq {"split", "coordinator"} /\ Paths # {}
    /\ Nil \notin Notes \cup Outcomes
    /\ {MaxMoves, MaxFaults} \subseteq Nat

VARIABLES
    sequence,   \* the vault's sequence on the chain
    balance,    \* its available balance: the number of changes it has seen
    spent,      \* the notes whose nullifier is used
    stray,      \* step2b transactions nobody waits for any more
    recorded,   \* the exits whose transaction an artifact of a submit names
    file,       \* vault_state_v2.json of each worker
    down,       \* the slots of the workers that are down for good
    script,     \* the run of the script
    moves       \* what is left of MaxMoves

bridge == <<sequence, balance, spent, stray>>
cluster == <<recorded, file>>
scriptVars == <<bridge, cluster, down, script, moves, faults>>

Up == Slots \ down

\* const selectedSlots = [0, 1, 2, 3, 4]
Selected == {s \in Slots : Cardinality({t \in Slots : t < s}) < Threshold}

----------------------------------------------------------------------------
(* The chain                                                               *)

\* What every entry but the payload's checks of the request.
Spendable(x) == x.target = sequence /\ x.note \notin spent

\* The framework verifies the transfer against the balance it finds.
Transfers(x) == Spendable(x) /\ x.read = balance

\* The bridge counts the exit, and the balance is another.
Exits == sequence' = sequence + 1 /\ balance' = balance + 1

Settles(x) ==
    /\ Transfers(x)
    /\ Exits
    /\ spent' = spent \cup {x.note}

----------------------------------------------------------------------------
(* The workers                                                             *)

\* sync_sequence: the chain's sequence, and the binding that was there.
Sync(f) == [f EXCEPT !.sequence = sequence]

\* The exit at s is the next one, the last one again, or the last one of a
\* file that is bound to none.
Follows(f, s) ==
    \/ s = f.sequence
    \/ s + 1 = f.sequence /\ f.bound \in {0, s + 1}

Resynced(S, s) ==
    [t \in Slots |-> IF t \in S /\ Follows(file[t], s)
                     THEN [sequence |-> s + 1, bound |-> s + 1]
                     ELSE file[t]]

\* resync_before_round1 and resync_after_withdraw: every slot is asked to
\* follow the exit at s.  Some are not reached, of others the answer is lost.
\* The rest are the okSlots.
Resync(s, okSlots) ==
    \E reached \in SUBSET Up : \E heard \in SUBSET reached :
        /\ okSlots = {t \in heard : Follows(file[t], s)}
        /\ file' = Resynced(reached, s)
        /\ IF heard = Up THEN UNCHANGED faults ELSE Fault

----------------------------------------------------------------------------
(* The run                                                                 *)

NoRun == [at |-> "idle", note |-> Nil, target |-> 0, read |-> 0, step |-> 0,
          txs |-> {}, require |-> FALSE, outcome |-> Nil]

GoTo(step) == script' = [script EXCEPT !.at = step]

\* A run that ends well is remembered for what it said.
EndWith(outcome) ==
    script' = IF outcome = "ok"
              THEN [script EXCEPT !.at = "idle", !.outcome = "ok", !.read = 0,
                                  !.step = 0, !.txs = {}]
              ELSE [NoRun EXCEPT !.outcome = outcome]

\* A step that only looks at the chain and the files.
Check(at, holds, next, outcome) ==
    /\ script.at = at
    /\ IF holds THEN GoTo(next) ELSE EndWith(outcome)
    /\ UNCHANGED <<bridge, cluster, down, moves, faults>>

\* --vault-sequence is the sequence the operator has just looked up.
Start(note, require) ==
    /\ script.at = "idle" /\ script.outcome # "unsynced"
    /\ script' = [NoRun EXCEPT !.at = "read", !.note = note,
                               !.target = sequence, !.require = require]
    /\ UNCHANGED <<bridge, cluster, down, moves, faults>>

\* The deposit's transaction, the recipient's key and the available balance.
ReadChain ==
    /\ script.at = "read"
    /\ script' = [script EXCEPT !.at = "decrypt", !.read = balance]
    /\ UNCHANGED <<bridge, cluster, down, moves, faults>>

\* Every worker compares the ciphertexts with those it fetches.
Decrypt == Check("decrypt", script.read = balance, "prove", "failed")

\* The range proofs and the sigma proof are about the balance read ...
Prove == Check("prove", TRUE, "seal", "failed")

\* ... the envelopes of the nonce's shares name the sequence.
Seal == Check("seal", TRUE, "catchup", "failed")

----------------------------------------------------------------------------
(* The catch-up of the workers' files                                      *)

Initialized == {file[s].sequence : s \in Slots}

\* pickInitializedMin, and the transactions the artifacts name by now.
CatchUp ==
    /\ script.at = "catchup"
    /\ IF Min(Initialized) < script.target
       THEN script' = [script EXCEPT !.at = "step", !.txs = recorded,
                                     !.step = Min(Initialized)]
       ELSE GoTo("start")
    /\ UNCHANGED <<bridge, cluster, down, moves, faults>>

StepKnown == script.step \in script.txs

\* Exit code 36: no trusted transaction for the step.
StepUnknown ==
    /\ script.step < script.target /\ ~StepKnown
    /\ Check("step", FALSE, "step", "unsynced")

\* Exit code 37: fewer than the threshold follow.
StepResyncs ==
    /\ script.at = "step" /\ script.step < script.target
    /\ StepKnown
    /\ \E okSlots \in SUBSET Up :
        /\ Resync(script.step, okSlots)
        /\ IF Cardinality(okSlots) < Threshold
           THEN EndWith("unsynced")
           ELSE script' = [script EXCEPT !.step = @ + 1]
    /\ UNCHANGED <<bridge, recorded, down, moves>>

\* Mutant: the sequence of the last exit is expected.
QuorumAtExit == \A s \in Selected : file[s].sequence = script.target - 1

QuorumSynced == \A s \in Selected : file[s].sequence = script.target

\* Exit code 38: a slot of the quorum is not there yet.
StepsDone ==
    /\ script.step = script.target
    /\ Check("step", QuorumSynced, "start", "unsynced")

----------------------------------------------------------------------------
(* The rounds and the entries                                              *)

\* Every worker of the quorum refuses a sequence that is not its file's.
StartRound  == Check("start", QuorumSynced, "round2", "failed")
Round2      == Check("round2", QuorumSynced, "finalize", "failed")
Finalize    == Check("finalize", QuorumSynced, "payload", "failed")

\* The payload of the two artifacts, the witness that binds its hash, and the
\* Groth16 proof.
BuildPayload  == Check("payload", TRUE, "witness", "failed")
ProveWithdraw == Check("witness", TRUE, "proof", "failed")

PrepareProof       == Check("proof", Spendable(script), "put", "failed")
PreparePayload     == Check("put", TRUE, "attest", "failed")
FrostAttest        == Check("attest", TRUE, "attestation", "failed")
PrepareAttestation == Check("attestation", Spendable(script), "submit", "failed")

ChoosePath ==
    /\ script.at = "submit"
    /\ \E path \in Paths : GoTo(path)
    /\ UNCHANGED <<bridge, cluster, down, moves, faults>>

Step2a == Check("split", Spendable(script), "step2b", "failed")

\* The transaction's hash goes to the script's output, and into no artifact.
Step2b ==
    /\ script.at = "step2b"
    /\ IF Transfers(script)
       THEN Settles(script) /\ GoTo("after")
       ELSE EndWith("failed") /\ UNCHANGED <<sequence, balance, spent>>
    /\ UNCHANGED <<stray, cluster, down, moves, faults>>

\* The coordinator's submit: the one-transaction withdrawal, the artifact that
\* names it, and a resync whose failure is passed over.
Submit ==
    /\ script.at = "coordinator"
    /\ IF Transfers(script)
       THEN /\ Settles(script)
            /\ recorded' = recorded \cup {script.target}
            /\ \E okSlots \in SUBSET Up : Resync(script.target, okSlots)
            /\ GoTo("after")
       ELSE /\ EndWith("failed")
            /\ UNCHANGED <<sequence, balance, spent, cluster, faults>>
    /\ UNCHANGED <<stray, down, moves>>

\* Mutant: any answer of the resync will do.
AnyNumber(okSlots) == TRUE

Enough(okSlots) == Cardinality(okSlots) >= Threshold

\* resync_after_withdraw.  Below the threshold this is exit code 39 if
\* EUNOMA_E2E_REQUIRE_RESYNC is set, and a warning if not.
ResyncAfter ==
    /\ script.at = "after"
    /\ \E okSlots \in SUBSET Up :
        /\ Resync(script.target, okSlots)
        /\ EndWith(IF script.require /\ ~Enough(okSlots) THEN "short" ELSE "ok")
    /\ UNCHANGED <<bridge, recorded, down, moves>>

\* A request fails or the script is killed.
Fails ==
    /\ script.at # "idle"
    /\ Fault
    /\ EndWith("failed")
    /\ UNCHANGED <<bridge, cluster, down, moves>>

\* The script gives the exit's transaction up, or the coordinator does and
\* leaves no hash, but it was sent.
GivesUp ==
    /\ script.at \in {"step2b", "coordinator"}
    /\ Fault
    /\ stray' = stray \cup
           {[note |-> script.note, target |-> script.target, read |-> script.read]}
    /\ EndWith("failed")
    /\ UNCHANGED <<sequence, balance, spent, cluster, down, moves>>

----------------------------------------------------------------------------
(* Everybody else                                                          *)

\* It lands, or aborts.
StrayEnds ==
    \E x \in stray :
        /\ stray' = stray \ {x}
        /\ IF Transfers(x) THEN Settles(x)
           ELSE UNCHANGED <<sequence, balance, spent>>
        /\ UNCHANGED <<cluster, down, script, moves, faults>>

Moves == moves > 0 /\ moves' = moves - 1

\* A wallet ragequits, or withdraws without the coordinator's submit.
ExitElsewhere ==
    /\ Moves /\ Exits
    /\ UNCHANGED <<spent, stray, cluster, down, script, faults>>

\* A wallet withdraws through it.
ExitByCoordinator ==
    /\ Moves /\ Exits
    /\ recorded' = recorded \cup {sequence}
    /\ \E okSlots \in SUBSET Up : Resync(sequence, okSlots)
    /\ UNCHANGED <<spent, stray, down, script>>

\* Pending deposits are rolled over, or the balance is normalised.
BalanceMoves ==
    /\ Moves
    /\ balance' = balance + 1
    /\ UNCHANGED <<sequence, spent, stray, cluster, down, script, faults>>

\* The operator has the workers take the chain's sequence.
SyncByHand ==
    /\ script.outcome = "unsynced"
    /\ \E reached \in SUBSET Up :
        /\ file' = [s \in Slots |-> IF s \in reached THEN Sync(file[s]) ELSE file[s]]
        /\ IF reached = Up THEN UNCHANGED faults ELSE Fault
    /\ script' = NoRun
    /\ UNCHANGED <<bridge, recorded, down, moves>>

----------------------------------------------------------------------------
(* The specification                                                       *)

\* Only workers that no round needs are down for good.
ScriptInit ==
    /\ sequence = 0 /\ balance = 0 /\ spent = {} /\ stray = {} /\ recorded = {}
    /\ file = [s \in Slots |-> [sequence |-> 0, bound |-> 0]]
    /\ down \in SUBSET (Slots \ Selected)
    /\ script = NoRun
    /\ moves = MaxMoves /\ faults = MaxFaults

Proceed ==
    \/ ReadChain \/ Decrypt \/ Prove \/ Seal
    \/ CatchUp \/ StepUnknown \/ StepResyncs \/ StepsDone
    \/ StartRound \/ Round2 \/ Finalize \/ BuildPayload \/ ProveWithdraw
    \/ PrepareProof \/ PreparePayload \/ FrostAttest \/ PrepareAttestation
    \/ ChoosePath \/ Step2a \/ Step2b \/ Submit \/ ResyncAfter

StartFor(note) == \E require \in BOOLEAN : Start(note, require)

ScriptNext ==
    \/ \E note \in Notes : StartFor(note)
    \/ Proceed \/ Fails \/ GivesUp
    \/ StrayEnds \/ ExitElsewhere \/ ExitByCoordinator \/ BalanceMoves
    \/ SyncByHand

\* A run goes on, the operator syncs by hand when one tells him to, and tries
\* each note again and again.
ScriptSpec ==
    /\ ScriptInit /\ [][ScriptNext]_scriptVars
    /\ WF_scriptVars(Proceed) /\ WF_scriptVars(SyncByHand)
    /\ \A note \in Notes : SF_scriptVars(StartFor(note))

----------------------------------------------------------------------------
(* Properties                                                              *)

\* Exit code 0 is true: the run's note is spent, by an exit at or after the
\* sequence the run was started for; and with EUNOMA_E2E_REQUIRE_RESYNC a
\* threshold of the workers has followed it, whichever calls were lost and
\* whatever exits came in between.
ZeroIsTrue ==
    script.outcome = "ok" =>
        /\ script.note \in spent /\ script.target < sequence
        /\ script.require =>
              Cardinality({s \in Slots : file[s].sequence > script.target}) >= Threshold

\* The catch-up cannot pass the file of a worker that is down: it is an exit
\* behind that no artifact names, or so far behind that the others refuse to
\* repeat the step.
Stranded ==
    \E s \in down :
        LET behind == file[s].sequence
        IN  behind < sequence /\ (behind \notin recorded \/ behind + 1 < sequence)

\* A note the operator withdraws is spent in the end, whatever is lost on the
\* way, though the exits of the split path are recorded nowhere and others move
\* the sequence and the balance under each run: unless the catch-up, which asks
\* for the file of every worker, is stopped by one that is down.
NotesAreWithdrawn == \A note \in Notes : <>(note \in spent \/ Stranded)
=============================================================================
