---------------------------- MODULE WithdrawSubmit ----------------------------
(***************************************************************************)
(* The end of an MPCCA withdrawal: the coordinator's submit route reads the *)
(* artifact of finalize and frost-attest, hands the call arguments to the  *)
(* relayer, waits for the transaction and records the outcome in its own   *)
(* artifact, from which a repeated submit is answered.  The route has a    *)
(* lock of its own, so the rounds of the request may run on meanwhile.     *)
(*                                                                         *)
(* The relayer is the one with a journal (RELAYER_USE_V3=1, module         *)
(* Relayer), reduced to what the coordinator notices of it: it settles a   *)
(* request by one transaction, and names that one ever after.  The resync  *)
(* of the workers after a withdrawal (module VaultState) is best effort    *)
(* and changes nothing here.                                               *)
(***************************************************************************)
EXTENDS WithdrawSession

VARIABLES
    submit,     \* the handler that holds the submit lock
    artifact,   \* mpcca_withdraw_submit/<dkgEpoch>__<requestId>.json
    answer,     \* the route's last answer to the client
    relays,     \* the calls the relayer has in hand
    journaled,  \* does the relayer's journal name the transaction?
    tx,         \* the settlement transaction of the request
    spent       \* has the wallet spent the note by itself?

relayer == <<relays, journaled, tx, spent>>
submitVars == <<submit, artifact, answer, relayer>>
quiet == <<starts, artifacts, session, nonces, moved, flight, call>>

\* The call arguments: with the signature of the attestation, or with none when
\* the caller has prepared the attestation on the chain before.
CallArgs == [signature : Signatures, prepared : {FALSE}]
            \cup [signature : {Nil}, prepared : {TRUE}]

\* Without arguments: the stub.  Both others name the transaction.
Artifacts == [stage : {"stub"}, args : {Nil}]
             \cup [stage : {"attempted", "completed"}, args : CallArgs]

\* No artifact is not an artifact.
ASSUME NilIsNoArtifact == Nil \notin Artifacts

Unlocked == [at |-> "none", args |-> Nil, fresh |-> FALSE]

----------------------------------------------------------------------------
(* The submit route                                                        *)

\* Without call arguments the finalize artifact assembles to its phase only.
Assembled(prepared) ==
    IF final.attested = Nil THEN Nil
    ELSE [signature |-> IF prepared THEN Nil ELSE final.attested,
          prepared |-> prepared]

\* Answers the client and releases the lock.
Tell(code) ==
    /\ answer' = code
    /\ submit' = Unlocked

Record(stage, args) == artifact' = [stage |-> stage, args |-> args]

IsStage(stage) == artifact # Nil /\ artifact.stage = stage

\* A completed artifact is answered from; with other inputs it is a conflict.
SubmitReplayed(args) ==
    /\ IsStage("completed")
    /\ Tell(IF artifact.args = args THEN "completed" ELSE "conflict")
    /\ UNCHANGED <<artifact, relays>>

\* Mutant: a transaction that was not confirmed in time is forgotten.
InFlightForgotten == FALSE

\* The artifact names a transaction and is not completed.
InFlight == IsStage("attempted")

\* ... is promoted, never broadcast again.
SubmitRecovers(args) ==
    /\ InFlight
    /\ IF artifact.args = args
       THEN /\ submit' = [at |-> "confirming", args |-> args, fresh |-> FALSE]
            /\ UNCHANGED answer
       ELSE Tell("conflict")
    /\ UNCHANGED <<artifact, relays>>

NothingRecorded == ~IsStage("completed") /\ ~InFlight

\* The stub artifact of a request that is not attested (501).
SubmitStub(args) ==
    /\ NothingRecorded
    /\ args = Nil
    /\ Record("stub", Nil)
    /\ Tell("retry")
    /\ UNCHANGED relays

SubmitRelays(args) ==
    /\ NothingRecorded
    /\ args # Nil
    /\ relays' = relays \cup {[args |-> args, heard |-> TRUE]}
    /\ submit' = [at |-> "relaying", args |-> args, fresh |-> TRUE]
    /\ UNCHANGED <<artifact, answer>>

\* The route up to its first wait for somebody else.
Submit(prepared) ==
    /\ submit = Unlocked /\ final # Nil
    /\ LET args == Assembled(prepared)
       IN  SubmitReplayed(args) \/ SubmitRecovers(args) \/ SubmitStub(args)
           \/ SubmitRelays(args)
    /\ UNCHANGED <<journaled, tx, spent, quiet, faults>>

\* Mutant: a transaction on the chain is taken for a successful one.
ExecutedSomehow == tx # "none"

Executed == tx = "success"

\* The first confirmation must not replace an artifact: what is there is taken
\* for one that was completed meanwhile.
Confirmed ==
    /\ submit.at = "confirming"
    /\ Executed
    /\ IF submit.fresh /\ artifact # Nil
       THEN Tell("conflict") /\ UNCHANGED artifact
       ELSE Tell("completed") /\ Record("completed", submit.args)
    /\ UNCHANGED <<relayer, quiet, faults>>

\* The transaction was executed and aborted.
Failed ==
    /\ submit.at = "confirming"
    /\ ~Executed
    /\ Record("attempted", submit.args)
    /\ Tell("retry")
    /\ UNCHANGED <<relayer, quiet, faults>>

\* The full node does not answer, or has not seen the transaction in time.
Unconfirmed ==
    /\ submit.at = "confirming"
    /\ Fault
    /\ IF submit.fresh THEN Record("attempted", submit.args) ELSE UNCHANGED artifact
    /\ Tell("retry")
    /\ UNCHANGED <<relayer, quiet>>

----------------------------------------------------------------------------
(* The relayer, its chain, and its answers                                 *)

NoteSpent == spent \/ tx = "success"

\* The wallet submits by itself.
SpendElsewhere ==
    /\ final # Nil /\ final.attested # Nil
    /\ ~NoteSpent
    /\ spent' = TRUE
    /\ UNCHANGED <<submit, artifact, answer, relays, journaled, tx, quiet, faults>>

\* It answers call r with the hash of the transaction.
Names(r) ==
    /\ relays' = relays \ {r}
    /\ submit' = IF r.heard THEN [submit EXCEPT !.at = "confirming"] ELSE submit
    /\ UNCHANGED <<artifact, answer>>

\* It answers with an error, and nothing is recorded.
Refuses(r, code) ==
    /\ relays' = relays \ {r}
    /\ IF r.heard THEN Tell(code) ELSE UNCHANGED <<submit, answer>>
    /\ UNCHANGED artifact

\* All its entries are in the journal: the hashes of the earlier call.
RelayReplays(r) ==
    /\ journaled
    /\ Names(r)
    /\ UNCHANGED <<journaled, tx, spent, quiet, faults>>

RelayLands(r) ==
    /\ ~NoteSpent /\ tx = "none"
    /\ tx' = "success"
    /\ journaled' = TRUE
    /\ Names(r)
    /\ UNCHANGED <<spent, quiet, faults>>

\* It names a transaction that aborted.
RelayFails(r) ==
    /\ tx = "none"
    /\ Fault
    /\ tx' = "failed"
    /\ journaled' = TRUE
    /\ Names(r)
    /\ UNCHANGED <<spent, quiet>>

\* The settlement lands and the relayer does not learn of it.
RelayLoses(r) ==
    /\ ~NoteSpent /\ tx = "none"
    /\ Fault
    /\ tx' = "success"
    /\ Refuses(r, "retry")
    /\ UNCHANGED <<journaled, spent, quiet>>

\* The gas guard, another abort, or a failure on the wire, in which case the
\* relayer runs on.
RelayRefuses(r) ==
    /\ r.heard
    /\ Fault
    /\ \/ Refuses(r, "retry")
       \/ /\ relays' = (relays \ {r}) \cup {[r EXCEPT !.heard = FALSE]}
          /\ Tell("retry")
          /\ UNCHANGED artifact
    /\ UNCHANGED <<journaled, tx, spent, quiet>>

\* E_NULLIFIER_ALREADY_SPENT.
RelaySpent(r) ==
    /\ ~journaled /\ NoteSpent
    /\ Refuses(r, "spent")
    /\ UNCHANGED <<journaled, tx, spent, quiet, faults>>

RelayAnswers == \E r \in relays :
    \/ RelayReplays(r) \/ RelayLands(r) \/ RelayFails(r)
    \/ RelayLoses(r) \/ RelayRefuses(r) \/ RelaySpent(r)

\* The coordinator dies with the handler; its call to the relayer goes on.
CrashSubmit ==
    /\ submit # Unlocked
    /\ Restart
    /\ submit' = Unlocked
    /\ relays' = {[r EXCEPT !.heard = FALSE] : r \in relays}
    /\ UNCHANGED <<artifact, answer, journaled, tx, spent>>
    /\ UNCHANGED <<starts, artifacts, session, nonces, moved>>

----------------------------------------------------------------------------
(* The specification                                                       *)

SubmitInit ==
    /\ Init
    /\ submit = Unlocked
    /\ artifact = Nil
    /\ answer = "none"
    /\ relays = {}
    /\ journaled = FALSE
    /\ tx = "none"
    /\ spent = FALSE

SubmitStep == Confirmed \/ Failed \/ Unconfirmed

SubmitNext ==
    \/ SessionStep /\ UNCHANGED submitVars
    \/ Crash /\ submit = Unlocked /\ UNCHANGED submitVars
    \/ \E prepared \in BOOLEAN : Submit(prepared)
    \/ SubmitStep
    \/ RelayAnswers
    \/ SpendElsewhere
    \/ CrashSubmit

\* The client repeats its submit, with the inputs of the transaction on record.
SubmitAgain ==
    \E prepared \in BOOLEAN :
        /\ Submit(prepared)
        /\ InFlight \/ IsStage("completed") => artifact.args = Assembled(prepared)

allVars == <<vars, submitVars>>

\* As for the session; the relayer answers, the wait for a transaction has a
\* deadline, and the client asks until it is told that the note is spent.
SubmitSpec ==
    /\ SubmitInit /\ [][SubmitNext]_allVars
    /\ \A p \in Flights :
        /\ WF_allVars(CoordinatorStep(p) /\ UNCHANGED submitVars)
        /\ \A s \in Slots : WF_allVars(WorkerStep(p, s) /\ UNCHANGED submitVars)
    /\ WF_allVars((\E p \in Flights : AskAny(p)) /\ UNCHANGED submitVars)
    /\ WF_allVars(SubmitStep)
    /\ WF_allVars(RelayAnswers)
    /\ SF_allVars(SubmitAgain)

----------------------------------------------------------------------------
(* Properties                                                              *)

\* "completed" is written, and told, only of a settlement that succeeded on the
\* chain: "confirmed=true but success=false means the chain ran the tx and
\* ABORTED" (submit route, chain_execution_failed).
CompletedIsSettled ==
    (IsStage("completed") \/ answer = "completed") => tx = "success"

\* Once the artifact names a transaction, no retry, no new attestation and no
\* crash replaces the record of what was broadcast: it can only be completed.
RecordedIsKept ==
    [][(IsStage("attempted") \/ IsStage("completed")) =>
        /\ artifact' # Nil
        /\ artifact'.args = artifact.args
        /\ artifact'.stage \in {artifact.stage, "completed"}]_allVars

\* The inputs of the transaction on record were signed by an attestation that
\* another one has replaced: the client cannot repeat them.
InputsReplaced ==
    /\ InFlight \/ IsStage("completed")
    /\ \A prepared \in BOOLEAN : Assembled(prepared) # artifact.args

\* A client that repeats its submit is at last told that the withdrawal is
\* completed or that the note is spent, whichever answers were lost and whoever
\* crashed, and even if a transaction was confirmed too late.  The route has three
\* dead ends, in which it stays, and this is all of them: the transaction on record
\* has aborted and is polled again and again; the stub of a submit before the
\* attestation is in the way of the artifact of the settlement; and the inputs of
\* the record are replaced.
SubmitFinishes ==
    \/ <>(answer \in {"completed", "spent"})
    \/ <>[](tx = "failed")
    \/ <>[](IsStage("stub") /\ tx = "success")
    \/ <>[]InputsReplaced

\* "If it exists with completed:false (stub passthrough or any failure state),
\* allow re-attempt": a submit made before the attestation does not keep a later
\* one from its end (submit route).
StubIsRetried ==
    IsStage("stub") ~> (~IsStage("stub") \/ answer = "spent")

\* The same of a transaction that was executed and aborted: a client that repeats
\* its inputs has the withdrawal handed to the relayer again.
FailureIsRetried ==
    (InFlight /\ tx = "failed") ~> (relays # {} \/ InputsReplaced)

=============================================================================
