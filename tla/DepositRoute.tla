---------------------------- MODULE DepositRoute ----------------------------
(***************************************************************************)
(* A deposit on its way to the bridge: the deoperators sign it (the        *)
(* coordinator's frost-attest route), the relayer submits its two          *)
(* preparing entries for the user (delegate-submit, then the relayer's     *)
(* deposit route), and the user signs the last one.  Meanwhile users and   *)
(* operators do on the chain whatever they like.                           *)
(*                                                                         *)
(* Unlike the withdrawal route, this one takes no turn: handlers of one    *)
(* deposit may run side by side.  The journal is the one of module         *)
(* Relayer, where a completed step that was recorded stays readable; here  *)
(* a crash costs the step whose line was not written.                      *)
(***************************************************************************)
EXTENDS EunomaBridge

Seqs == INSTANCE SequencesExt

CONSTANTS
    MaxAttempts,  \* RELAYER_APTOS_CLI_RETRY_ATTEMPTS
    MaxAttests,   \* bound on the frost-attest handlers that run at a time
    MaxSubmits,   \* bound on the calls of the deposit route
    MaxCrashes,   \* bound on the crashes of the relayer
    MaxFaults     \* bound on lost answers and refusing workers

ASSUME RouteConstants ==
    /\ MaxAttempts \in Nat \ {0}
    /\ {MaxAttests, MaxSubmits, MaxCrashes, MaxFaults} \subseteq Nat

VARIABLES
    attests,    \* the frost-attest handlers: what they sign, and how far
    attested,   \* the signed deposits, under the configuration they name
    handlers,   \* the running handlers of the relayer's deposit route
    completed,  \* the journal: the completed steps of each request hash
    accepted,   \* the requests whose wallet was told 202
    budget      \* what is left of the bounds above

routeVars == <<attests, attested, handlers, completed, accepted, budget>>

RouteInit ==
    /\ Init
    /\ attests = {}
    /\ attested = {}
    /\ handlers = <<>>
    /\ completed = {}
    /\ accepted = {}
    /\ budget = [submits |-> MaxSubmits, crashes |-> MaxCrashes,
                 faults |-> MaxFaults]

UseUp(bound) ==
    /\ budget[bound] > 0
    /\ budget' = [budget EXCEPT ![bound] = @ - 1]

----------------------------------------------------------------------------
(* The deoperators sign                                                    *)

\* The request, parsed: what is deposited and the configuration whose key is to
\* sign it.
MessageOf(d) == [deposit |-> d, config |-> config]

Phases == <<"commit", "sign", "aggregate">>

\* The coordinator encodes the message of its roster's configuration and asks
\* the selected workers for nonces.  Nothing is locked.
Attest(m) ==
    /\ Cardinality(attests) < MaxAttests
    /\ ~\E a \in attests : a.message = m
    /\ m \notin attested
    /\ attests' = attests \cup {[message |-> m, phase |-> 1]}
    /\ UNCHANGED <<vars, attested, handlers, completed, accepted, budget>>

\* Every worker answered: its nonce, then its share of the signature under the
\* nonce it committed to (fresh ones each time, so requests do not meet).
PhaseAnswered(a) ==
    /\ a.phase < Len(Phases)
    /\ attests' = (attests \ {a}) \cup {[a EXCEPT !.phase = @ + 1]}
    /\ UNCHANGED <<vars, attested, handlers, completed, accepted, budget>>

\* One worker refuses, times out or cannot be reached: 502.  There is no
\* second try in the route.
AttestFails(a) ==
    /\ UseUp("faults")
    /\ attests' = attests \ {a}
    /\ UNCHANGED <<vars, attested, handlers, completed, accepted>>

\* The first selected worker aggregates and verifies the signature; the
\* artifact is written and the signature answered.
Aggregated(a) ==
    /\ a.phase = Len(Phases)
    /\ attests' = attests \ {a}
    /\ attested' = attested \cup {a.message}
    /\ UNCHANGED <<vars, handlers, completed, accepted, budget>>

AttestStep ==
    \/ \E d \in DepositIntents : Attest(MessageOf(d))
    \/ \E a \in attests : PhaseAnswered(a) \/ AttestFails(a) \/ Aggregated(a)

----------------------------------------------------------------------------
(* What the chain answers                                                  *)

\* step2a and the one-transaction deposit verify the signature against the
\* configuration in force.
Signed(m) == m \in attested /\ m.config = config

Entries == <<"prepare", "step2a">>

\* The entry takes effect.  Both entries carry the request's proof, so step2a
\* verifies it and leaves the cached binding alone.
Lands(m, entry) ==
    \/ entry = "prepare" /\ PrepareDepositBinding(m.deposit)
    \/ entry = "step2a" /\ Signed(m) /\ DepositStep2a(m.deposit, FALSE)

\* Mutant: any abort is taken for work already done.
AbortsAnyway(m, entry) == TRUE

\* The entry aborts because its row is already there.  step2a burns the nonce
\* first, so the row it finds is that of another deposit of the commitment.
AbortsPending(m, entry) ==
    LET d == m.deposit
    IN  \/ /\ entry = "prepare"
           /\ Active(NoteAsset[d.commitment])
           /\ PendingKey(d) \in deposit_bindings
        \/ /\ entry = "step2a"
           /\ Signed(m) /\ DepositVerified(d)
           /\ PendingKey(d) \in DOMAIN deposit_finalizations

----------------------------------------------------------------------------
(* The relayer's deposit route                                             *)

\* depositDelegateRequestHash: what the journal files the steps under.  The
\* expiry, and so the signature, is not part of it.
HashOf(m) == <<m.deposit.user, m.deposit.commitment, m.deposit.nonce>>

\* buildJournalResume: the first entry that is still to do.
FirstMissing(m) ==
    CHOOSE n \in 1 .. 3 :
        /\ \A step \in 1 .. n - 1 : <<HashOf(m), step>> \in completed
        /\ <<HashOf(m), n>> \notin completed

\* The bodies the route parses: a signed deposit and what its entries take.
Requests == attested

\* The coordinator posts the wallet's request to the relayer, whose handler
\* reads the journal.
Submit(m) ==
    /\ UseUp("submits")
    /\ handlers' = Append(handlers,
           [message |-> m, next |-> FirstMissing(m), attempts |-> 1,
            done |-> FALSE])
    /\ UNCHANGED <<vars, attests, attested, completed, accepted>>

\* The gas guard answers before anything is submitted, and the coordinator
\* passes it on: the wallet is to sign the entries itself.
Refuse(m) ==
    /\ UseUp("submits")
    /\ UNCHANGED <<vars, attests, attested, handlers, completed, accepted>>

\* The handler waits for the CLI that runs its next entry.
Runs(i) == handlers[i].next <= Len(Entries) /\ ~handlers[i].done

Entry(i) == Entries[handlers[i].next]

Done(i) == handlers' = [handlers EXCEPT ![i].done = TRUE]

\* 502.
Fail(i) == handlers' = Seqs!RemoveAt(handlers, i)

\* The transaction lands and the CLI prints its hash.
Land(i) ==
    /\ Runs(i)
    /\ Lands(handlers[i].message, Entry(i))
    /\ Done(i)
    /\ UNCHANGED <<attests, attested, completed, accepted, budget>>

\* The entry aborts; one that finds its row is as good as done.
Abort(i) ==
    /\ Runs(i)
    /\ ~ENABLED Lands(handlers[i].message, Entry(i))
    /\ IF AbortsPending(handlers[i].message, Entry(i)) THEN Done(i) ELSE Fail(i)
    /\ UNCHANGED <<vars, attests, attested, completed, accepted, budget>>

\* The wire fails, before or after the transaction landed; a rate limit or a
\* 5xx is tried again.
LoseAnswer(i) ==
    /\ Runs(i)
    /\ UseUp("faults")
    /\ Lands(handlers[i].message, Entry(i)) \/ UNCHANGED vars
    /\ \/ Fail(i)
       \/ /\ handlers[i].attempts < MaxAttempts
          /\ handlers' = [handlers EXCEPT ![i].attempts = @ + 1]
    /\ UNCHANGED <<attests, attested, completed, accepted>>

\* onStepDone, then the next entry.
StepDone(i) ==
    /\ handlers[i].done
    /\ completed' = completed \cup
           {<<HashOf(handlers[i].message), handlers[i].next>>}
    /\ handlers' = [handlers EXCEPT ![i].done = FALSE, ![i].next = @ + 1,
                                    ![i].attempts = 1]
    /\ UNCHANGED <<vars, attests, attested, accepted, budget>>

\* The coordinator passes the answer on, or answers 502 when it did not get it.
Tell(m) ==
    \/ accepted' = accepted \cup {m} /\ UNCHANGED budget
    \/ UseUp("faults") /\ UNCHANGED accepted

\* 202.
Accept(i) ==
    /\ handlers[i].next > Len(Entries)
    /\ Tell(handlers[i].message)
    /\ handlers' = Seqs!RemoveAt(handlers, i)
    /\ UNCHANGED <<vars, attests, attested, completed>>

\* The relayer dies and restarts with the journal.  (A CLI it leaves behind may
\* still land: that is one of the submissions of anybody.)
Crash ==
    /\ handlers # <<>>
    /\ UseUp("crashes")
    /\ handlers' = <<>>
    /\ UNCHANGED <<vars, attests, attested, completed, accepted>>

RelayerStep ==
    \/ \E m \in Requests : Submit(m) \/ Refuse(m)
    \/ \E i \in 1 .. Len(handlers) :
          Land(i) \/ Abort(i) \/ LoseAnswer(i) \/ StepDone(i) \/ Accept(i)
    \/ Crash

----------------------------------------------------------------------------
(* Everybody else                                                          *)

\* Anybody submits the first two entries, users the last one, or all at once.
UserStep ==
    \/ \E d \in DepositIntents : PrepareDepositBinding(d)
    \/ \E m \in attested, cached \in BOOLEAN :
          /\ Signed(m)
          /\ DepositStep2a(m.deposit, cached) \/ DepositWithCommitment(m.deposit, cached)
    \/ \E user \in Accounts, commitment \in Commitments :
          DepositStep2b(user, commitment)
    \/ \E depositor \in Accounts, asset \in Assets, commitment \in Commitments,
          root \in known_roots : Ragequit(depositor, asset, commitment, root)

ChainStep == (AdminStep \/ UserStep) /\ UNCHANGED routeVars

RouteNext == AttestStep \/ RelayerStep \/ ChainStep

RouteSpec == RouteInit /\ [][RouteNext]_<<vars, routeVars>>

----------------------------------------------------------------------------
(* What the route promises                                                 *)

\* 202 is only said when the user can drain a deposit of that commitment, did
\* so, or let it expire, though handlers of one deposit overlap, answers are
\* lost, the relayer resumes from its journal, and a row that is already there
\* is taken for its own (deposit_v3_submitter.ts:343).
AcceptedDepositsAreOpen ==
    \A m \in accepted :
        \/ PendingKey(m.deposit) \in DOMAIN deposit_finalizations
        \/ \E i \in 1 .. Len(leaf_log) :
              /\ leaf_log[i].user = m.deposit.user
              /\ leaf_log[i].commitment = m.deposit.commitment
        \/ \E other \in attested :
              /\ PendingKey(other.deposit) = PendingKey(m.deposit)
              /\ other.deposit.nonce \in used_deposit_nonces
              /\ ~NotExpired(other.deposit.expiry)
=============================================================================
