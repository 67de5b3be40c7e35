------------------------------- MODULE Relayer -------------------------------
(***************************************************************************)
(* The relayer's /v3/relayer/submit/withdraw route over the bridge: the    *)
(* gas guard, the journal that survives restarts, the single-writer        *)
(* sequencer, and the submitter that drives one Move entry after the other *)
(* through the Aptos CLI, whose answers may be lost.                       *)
(*                                                                         *)
(* The rest of the world is reduced to what the relayer can notice:        *)
(* deposits, recorded roots and sets, the clock, and one-transaction       *)
(* withdrawals by users (or by the relayer's own v2 route, which takes no  *)
(* lock).  Journal intents are only lines of the file: no code reads them. *)
(***************************************************************************)
EXTENDS EunomaBridge

CONSTANTS
    Relayer,      \* the account of the relayer's key
    MaxAttempts,  \* RELAYER_APTOS_CLI_RETRY_ATTEMPTS
    MaxSubmits,   \* bound on the calls of the route
    MaxCrashes,   \* bound on the crashes of the relayer
    MaxFaults     \* bound on the CLI runs whose answer is lost

ASSUME RelayerConstants ==
    /\ Relayer \in Accounts
    /\ MaxAttempts \in Nat \ {0}
    /\ {MaxSubmits, MaxCrashes, MaxFaults} \subseteq Nat

VARIABLES
    queue,    \* the handlers in runExclusive; the first one runs
    index,    \* FileSubmitJournal.index: the completed steps it knows
    lines,    \* the completed steps on whole lines of the journal file
    cut,      \* the completed step a last line without newline still holds
    torn,     \* does the file end in a line without newline?
    replies,  \* the answers given to the callers
    budget    \* what is left of the bounds above

journalVars == <<index, lines, cut, torn>>
relayerVars == <<queue, journalVars, replies, budget>>

----------------------------------------------------------------------------
(* Requests                                                                *)

\* The body a wallet posts: its withdrawal, the roots its proof is about, and
\* the sequence it read from the chain when it formed them.
Requests ==
    [w : WithdrawIntents, root : Nat, set : AspSets, sequence : Nat]

HashOf(r) == RequestHash(r.w, r.sequence)
RowOf(r)  == <<Relayer, HashOf(r)>>

\* Mutant: the conservation entry is always skipped.
StepsWithoutConservation(r) ==
    <<"proof", "attestation", "payload", "step2a", "step2b">>

\* The entries of one withdrawal, in the order of WITHDRAW_V3_ENTRIES; without
\* change the conservation entry is skipped and the later ones move up.
Steps(r) ==
    IF r.w.change = None
    THEN <<"proof", "attestation", "payload", "step2a", "step2b">>
    ELSE <<"proof", "attestation", "payload", "conservation", "step2a", "step2b">>

\* A request a wallet forms of the chain's present state.
Fresh(r) ==
    /\ vault_sequence < MaxSequence
    /\ r.sequence = vault_sequence
    /\ r.root \in known_roots
    /\ r.w.note \notin used_nullifiers
    /\ InRecentWindow(r.set)
    /\ WithdrawProofHolds(r.w, r.root, r.set)

----------------------------------------------------------------------------
(* The journal                                                             *)

\* push: the entry (no completed step if it is an intent) joins the index and
\* the file.  After a line without newline it lands on that same line, which
\* no longer parses: both are lost to the next load.
AppendLine(entry) ==
    /\ index' = index \cup entry
    /\ torn' = FALSE
    /\ cut' = {}
    /\ lines' = IF torn THEN lines ELSE lines \cup entry

\* A crash while appendFileSync writes: nothing, a part of the line, or all of
\* it but its newline reached the file.
AppendInterrupted(entry) ==
    \/ UNCHANGED <<lines, cut, torn>>
    \/ /\ torn' = TRUE
       /\ cut' \in IF torn THEN {{}} ELSE {{}, entry}
       /\ UNCHANGED lines

\* buildJournalResume: how many entries, from the first one on, the journal
\* says are done.
ResumeAfter(hash) ==
    CHOOSE n \in 0 .. 6 :
        /\ \A step \in 1 .. n : <<hash, step>> \in index
        /\ <<hash, n + 1>> \notin index

----------------------------------------------------------------------------
(* What the chain answers                                                  *)

\* The entry the CLI runs takes effect.
Lands(r, entry) ==
    CASE entry = "proof" ->
            r.sequence = vault_sequence /\ PrepareWithdrawProof(r.w, r.root, r.set)
      [] entry = "attestation" ->
            r.sequence = vault_sequence /\ PrepareWithdrawAttestation(r.w, r.root)
      [] entry = "payload" ->
            HashOf(r) \in DOMAIN proofs /\ PrepareWithdrawPayload(HashOf(r))
      [] entry = "conservation" -> PrepareWithdrawConservation(r.w, r.sequence)
      [] entry = "step2a" ->
            r.sequence = vault_sequence /\ WithdrawStep2a(Relayer, r.w, r.root)
      [] entry = "step2b" -> WithdrawStep2b(Relayer, HashOf(r))

\* The entry aborts because its row is already there (the E_PENDING_... codes
\* of RECOVERABLE_PENDING_ABORT_BY_FN).  step2a only looks for its row once
\* everything else, the payload cache first, passed.
AbortsPending(r, entry) ==
    \/ entry = "proof" /\ HashOf(r) \in DOMAIN proofs
    \/ /\ entry = "attestation"
       /\ NotExpired(r.w.expiry)
       /\ HashOf(r) \in DOMAIN attestations
    \/ entry = "payload" /\ HashOf(r) \in DOMAIN payloads
    \/ entry = "conservation" /\ HashOf(r) \in DOMAIN conservations
    \/ /\ entry = "step2a"
       /\ r.sequence = vault_sequence
       /\ Step2aVerified(r.w, r.root)
       /\ RowOf(r) \in DOMAIN finalizations

\* The entry aborts with E_NULLIFIER_ALREADY_SPENT: the nullifier is looked up
\* after the row and before the sequence.
AbortsSpent(r, entry) ==
    /\ r.w.note \in used_nullifiers
    /\ ~AbortsPending(r, entry)
    /\ \/ entry = "proof"
       \/ entry \in {"attestation", "step2a"} /\ NotExpired(r.w.expiry)
       \/ /\ entry = "step2b"
          /\ RowOf(r) \in DOMAIN finalizations
          /\ NotExpired(r.w.expiry)

\* Mutant: any abort is taken for work already done.
AbortAnswersLenient(r, entry) == "pending"

AbortAnswer(r, entry) ==
    IF AbortsPending(r, entry) THEN "pending"
    ELSE IF AbortsSpent(r, entry) THEN "spent" ELSE "abort"

----------------------------------------------------------------------------
(* The route                                                               *)

RelayerInit ==
    /\ Init
    /\ queue = <<>>
    /\ index = {}
    /\ lines = {}
    /\ cut = {}
    /\ torn = FALSE
    /\ replies = {}
    /\ budget = [submits |-> MaxSubmits, crashes |-> MaxCrashes,
                 faults |-> MaxFaults]

\* The requests posted so far.
Posted == {reply[1] : reply \in replies}
          \cup {queue[i].request : i \in 1 .. Len(queue)}

\* A wallet posts a fresh request, or posts one again, answered or not.
Posts(r) ==
    /\ budget.submits > 0
    /\ Fresh(r) \/ r \in Posted
    /\ budget' = [budget EXCEPT !.submits = @ - 1]

\* The handler reads the journal, then waits for its turn.
Submit(r) ==
    /\ Posts(r)
    /\ queue' = Append(queue,
           [request |-> r, next |-> ResumeAfter(HashOf(r)) + 1,
            stage |-> "ready", attempts |-> 0, answer |-> "none"])
    /\ UNCHANGED <<vars, journalVars, replies>>

\* The gas guard refuses, before anything else: a price spike, a low reserve
\* or a failed read.
Refuse(r) ==
    /\ Posts(r)
    /\ replies' = replies \cup {<<r, "self_submit">>}
    /\ UNCHANGED <<vars, queue, journalVars>>

Running(stage) == queue # <<>> /\ Head(queue).stage = stage

Job   == Head(queue)
Entry == Steps(Job.request)[Job.next]
Done  == {<<HashOf(Job.request), Job.next>>}

\* Mutant: no intent is recorded.
BeginWithoutIntent ==
    /\ Running("ready")
    /\ Job.next <= Len(Steps(Job.request))
    /\ queue' = [queue EXCEPT ![1].stage = "sent", ![1].attempts = 1]
    /\ UNCHANGED <<vars, journalVars, replies, budget>>

\* onStepStart, then the first run of the CLI.
Begin ==
    /\ Running("ready")
    /\ Job.next <= Len(Steps(Job.request))
    /\ AppendLine({})
    /\ queue' = [queue EXCEPT ![1].stage = "sent", ![1].attempts = 1]
    /\ UNCHANGED <<vars, replies, budget>>

Answers(answer) ==
    queue' = [queue EXCEPT ![1].stage = "answered", ![1].answer = answer]

\* The transaction lands and the CLI prints its hash.
Land ==
    /\ Running("sent")
    /\ Lands(Job.request, Entry)
    /\ Answers("hash")
    /\ UNCHANGED <<journalVars, replies, budget>>

\* The transaction aborts and the CLI prints the code.
Abort ==
    /\ Running("sent")
    /\ ~ENABLED Lands(Job.request, Entry)
    /\ Answers(AbortAnswer(Job.request, Entry))
    /\ UNCHANGED <<vars, journalVars, replies, budget>>

\* The CLI fails on the wire, before or after the transaction landed; only a
\* rate limit or a 5xx is retried.
LoseAnswer ==
    /\ Running("sent")
    /\ budget.faults > 0
    /\ budget' = [budget EXCEPT !.faults = @ - 1]
    /\ Lands(Job.request, Entry) \/ UNCHANGED vars
    /\ \E answer \in {"retryable", "failed"} : Answers(answer)
    /\ UNCHANGED <<journalVars, replies>>

\* A hash, or a row that was already there: onStepDone, then the next entry.
Progress ==
    /\ Running("answered")
    /\ Job.answer \in {"hash", "pending"}
    /\ AppendLine(Done)
    /\ queue' = [queue EXCEPT ![1].stage = "ready", ![1].next = @ + 1,
                              ![1].answer = "none"]
    /\ UNCHANGED <<vars, replies, budget>>

\* A failure on the wire the CLI is run again for.
Retry ==
    /\ Running("answered")
    /\ Job.answer = "retryable" /\ Job.attempts < MaxAttempts
    /\ queue' = [queue EXCEPT ![1].stage = "sent", ![1].attempts = @ + 1,
                              ![1].answer = "none"]
    /\ UNCHANGED <<vars, journalVars, replies, budget>>

\* Mutant: a rejected task keeps the lock.
ReplyKeepingLock(code) ==
    /\ replies' = replies \cup {<<Job.request, code>>}
    /\ queue' = IF code = "202" THEN Tail(queue) ELSE queue

\* The handler settles, and the next task of the sequencer starts, whether it
\* settled well or not.
Reply(code) ==
    /\ replies' = replies \cup {<<Job.request, code>>}
    /\ queue' = Tail(queue)

\* Every entry ran, now or in an earlier call.
Accept ==
    /\ Running("ready")
    /\ Job.next > Len(Steps(Job.request))
    /\ Reply("202")
    /\ UNCHANGED <<vars, journalVars, budget>>

\* A terminal abort answers 409, every other failure 502.
Fail ==
    /\ Running("answered")
    /\ \/ Job.answer = "spent" /\ Reply("409")
       \/ Job.answer \in {"abort", "failed"} /\ Reply("502")
       \/ Job.answer = "retryable" /\ Job.attempts >= MaxAttempts /\ Reply("502")
    /\ UNCHANGED <<vars, journalVars, budget>>

\* The line the running handler is about to append.
NextLine ==
    IF Running("answered") /\ Job.answer \in {"hash", "pending"} THEN Done ELSE {}

\* The process dies, perhaps while it appends; its callers get no answer.  It
\* restarts with what the file still parses to.
Crash ==
    /\ budget.crashes > 0
    /\ queue # <<>>
    /\ budget' = [budget EXCEPT !.crashes = @ - 1]
    /\ AppendInterrupted(NextLine)
    /\ index' = lines' \cup cut'
    /\ replies' = replies \cup {<<queue[i].request, "dropped">> : i \in 1 .. Len(queue)}
    /\ queue' = <<>>
    /\ UNCHANGED vars

RelayerStep == Begin \/ Land \/ Abort \/ LoseAnswer \/ Progress \/ Retry \/ Accept \/ Fail

\* The rest of the world.
Environment ==
    /\ \/ \E d \in DepositIntents : DepositWithCommitment(d, FALSE)
       \/ \E root \in 1 .. Len(leaf_log) : RecordKnownRoot(root)
       \/ \E set \in AspSets : RecordAspRoot(set)
       \/ Tick
       \/ \E w \in WithdrawIntents, root \in known_roots, set \in AspSets :
             WithdrawToRecipient(w, root, set, FALSE, FALSE)
    /\ UNCHANGED relayerVars

RequestsNow ==
    [w : WithdrawIntents, root : known_roots, set : AspSets,
     sequence : 0 .. vault_sequence]

RelayerNext ==
    \/ Environment
    \/ \E r \in RequestsNow : Submit(r) \/ Refuse(r)
    \/ RelayerStep
    \/ Crash

\* Node's event loop and the CLI's exit: whatever the running handler can do
\* next, it does.
RelayerSpec ==
    RelayerInit /\ [][RelayerNext]_<<vars, relayerVars>>
                /\ WF_<<vars, relayerVars>>(RelayerStep)

----------------------------------------------------------------------------
(* What the route promises                                                 *)

\* The withdrawal of the request's own hash, row or event, is on the chain.
Settled(r) ==
    /\ Len(exit_log) > r.sequence
    /\ exit_log[r.sequence + 1] =
          [kind |-> "withdraw", note |-> r.w.note, recipient |-> r.w.recipient,
           change |-> r.w.change, sequence |-> r.sequence]

\* No request for another note or another remainder was posted under the hash
\* of this one.  The hash names the CA payload, not the note, and the relayer
\* compares nothing: two bodies with one payload share journal and row.
OwnsHash(r) ==
    \A q \in Posted :
        HashOf(q) = HashOf(r) => q.w.note = r.w.note /\ q.w.change = r.w.change

\* 202 is only ever said of a withdrawal that settled, and settled as asked,
\* however often the relayer crashed, lost answers, resumed from the journal or
\* took an abort for work already done, unless another withdrawal was posted
\* under the same hash; 409 only of a spent note, whatever was posted.
AnswersAreTrue ==
    \A reply \in replies :
        /\ reply[2] = "202" /\ OwnsHash(reply[1]) => Settled(reply[1])
        /\ reply[2] = "409" => reply[1].w.note \in used_nullifiers

\* What the journal's header asks of a resume: that it is decided by the chain
\* and not by the journal alone, so that 202 means that this withdrawal settled.
ResumeReconciles ==
    \A reply \in replies : reply[2] = "202" => Settled(reply[1])

\* A step the journal calls completed is visible on the chain: for step2a the
\* row is open or settled, for step2b the exit is there, for every request
\* that does not share its hash with another withdrawal.
JournalIsTruthful ==
    \A r \in Posted :
        LET last == Len(Steps(r))
        IN  OwnsHash(r) =>
               /\ <<HashOf(r), last>> \in index => Settled(r)
               /\ <<HashOf(r), last - 1>> \in index =>
                     RowOf(r) \in DOMAIN finalizations \/ Settled(r)

\* A completed step the relayer records is on a line the next load parses, be
\* the file torn or not: the intent that goes first takes the damage.
RecordedIsReadable ==
    [][index' \ index \subseteq lines' \cup cut']_<<vars, relayerVars>>

\* A call fails only for a reason: an answer was lost, the relayer crashed,
\* another exit took the sequence, or the attestation or the association set
\* ran out.  In a quiet world every posted withdrawal settles, though it is
\* posted twice, though it shares caches with another, with or without change.
OnlyDisturbedCallsFail ==
    [][\A reply \in replies' \ replies :
          reply[2] = "502" =>
              \/ budget.faults < MaxFaults \/ budget.crashes < MaxCrashes
              \/ reply[1].sequence < vault_sequence
              \/ ~NotExpired(reply[1].w.expiry)
              \/ ~InRecentWindow(reply[1].set)]_<<vars, relayerVars>>

\* Every call that got past the gas guard is answered: no rejection of an
\* earlier task blocks the sequencer.
EveryCallIsAnswered == queue # <<>> ~> queue = <<>>
=============================================================================
