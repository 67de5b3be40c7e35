----------------------------- MODULE KeyCeremony ------------------------------
(***************************************************************************)
(* How a vault gets its key.  Three routes of the coordinator come before  *)
(* the init of VaultState: the DKG, which gives every worker a share of a  *)
(* key nobody holds; the derivation of the public key vault_ek by an MPC   *)
(* inversion over the shares; and the registration of that key by a sigma  *)
(* protocol, in which each worker draws a nonce in round 1 and answers a   *)
(* challenge with it in round 2.  Init names the transcripts of the last   *)
(* two, and freezes them in the files of the workers.                      *)
(*                                                                         *)
(* The operator runs one script after the other, and again the one that    *)
(* failed; what overlaps are the calls a coordinator gave up, which run on *)
(* at the workers and read and write the same files as the next attempt.   *)
(***************************************************************************)
EXTENDS VaultState

CONSTANTS
    Ids,         \* request ids an operator gives init
    Named,       \* request ids an operator gives a registration
    MaxRuns      \* bound: so many DKG runs the operator starts with no need

\* The requests in hand are finitely many, however many.
ASSUME CeremonyConstants == IsFiniteSet(Flights)

VARIABLES
    runs,        \* DKG runs whose dealers have all dealt
    accepted,    \* the last run whose transcript the coordinator answered with
    share,       \* ca_dkg_share_v2.json: the run each worker's share is of
    drawn,       \* the nonces each worker has drawn
    blind,       \* its round0 file of the derivation
    derived,     \* the derivation transcript the coordinator persisted
    nonces,      \* its round1 nonce files
    answers,     \* the responses it has computed: nonce, challenge and share
    registered   \* the registration transcripts the coordinator persisted

ceremony == <<runs, accepted, share, drawn, blind, derived, nonces, answers,
              registered>>
allVars == <<vars, ceremony>>

\* The state of VaultState but for the requests and calls.
vault == <<chain, file, ledger>>

----------------------------------------------------------------------------
(* The operator                                                            *)

\* No script is running; calls of one that was given up may be.
MayStart(p) ==
    /\ Idle(p)
    /\ \A q \in Flights : ~flight[q].open

\* Every worker holds its share of the run the operator got as a result: when one
\* does not, the script that needs the share is refused, and the operator deals
\* again.
KeyIsShared == accepted # Nil /\ \A s \in Slots : share[s] = accepted

----------------------------------------------------------------------------
(* The DKG: three rounds, each asking one node after the other             *)

\* for (const node of dkgRoster.nodes): the next one, in the roster's order.
NextNode(left) == CHOOSE s \in left : TRUE

\* One round of one node, of those this round still has to ask.
DkgBody(run, left) == [run |-> run, left |-> left]

Ask(p, op, run, left) == Post(p, op, {NextNode(left)}, DkgBody(run, left))

\* No lock, and no worker is asked whether it holds a share, or a vault, already:
\* a run may be started at any time.
StartDkg(p) ==
    /\ MayStart(p) /\ (runs < MaxRuns \/ ~KeyIsShared)
    /\ Ask(p, "dkg1", Nil, Slots)
    /\ UNCHANGED <<vault, ceremony, faults>>

\* The nodes of this round that have not answered yet.
Left(p) == flight[p].arg.left \ flight[p].slots

NextInRound(p) ==
    /\ Left(p) # {}
    /\ Ask(p, flight[p].op, flight[p].arg.run, Left(p))
    /\ UNCHANGED <<runs, accepted>>

\* The dealers' fresh polynomials make the run a new one.
AllDealt(p) ==
    /\ flight[p].op = "dkg1" /\ Left(p) = {}
    /\ runs' = runs + 1
    /\ Ask(p, "dkg2", runs', Slots)
    /\ UNCHANGED accepted

AllCombined(p) ==
    /\ flight[p].op = "dkg2" /\ Left(p) = {}
    /\ Ask(p, "dkg3", flight[p].arg.run, Slots)
    /\ UNCHANGED <<runs, accepted>>

AllFinal(p) ==
    /\ flight[p].op = "dkg3" /\ Left(p) = {}
    /\ accepted' = flight[p].arg.run
    /\ Close(p)
    /\ UNCHANGED runs

DkgAnswered(p) ==
    /\ \E op \in {"dkg1", "dkg2", "dkg3"} : Returned(p, op)
    /\ IF AllAccepted(p)
       THEN NextInRound(p) \/ AllDealt(p) \/ AllCombined(p) \/ AllFinal(p)
       ELSE Fail(p) /\ UNCHANGED <<runs, accepted>>
    /\ UNCHANGED <<vault, share, drawn, blind, derived, nonces, answers,
                   registered, faults>>

\* A dealer keeps nothing of what it deals.
Deal(p, s) ==
    /\ At(p, s, "dkg1", "sent")
    /\ Reply(p, s, Nil)
    /\ UNCHANGED <<vault, flight, ceremony, faults>>

\* The shares add up (every dealer is honest: no complaints), and the sum
\* replaces whatever share the worker had.
Combine(p, s) ==
    /\ At(p, s, "dkg2", "sent")
    /\ share' = [share EXCEPT ![s] = flight[p].arg.run]
    /\ Reply(p, s, Nil)
    /\ UNCHANGED <<vault, flight, runs, accepted, drawn, blind, derived,
                   nonces, answers, registered, faults>>

FinalizeDkg(p, s) ==
    /\ At(p, s, "dkg3", "sent")
    /\ IF share[s] = flight[p].arg.run
       THEN Reply(p, s, Nil)
       ELSE Reject(p, s)
    /\ UNCHANGED <<vault, flight, ceremony, faults>>

----------------------------------------------------------------------------
(* The derivation of vault_ek                                              *)

\* A transcript: the key, and every party's part in the inversion.
Derivations == [run : Nat, blinds : UNION {[S -> Nat] : S \in Quorums}]

\* Mutant: the scan takes the transcript of whatever DKG.
DerivationOfAnyRun(run) == derived # Nil

\* The scan of the coordinator's directory for the key the request names.
DerivationFound(run) == derived # Nil /\ derived.run = run

\* The lock of the derivation: one holder of the fixed MPC ports.
DerivationLocked == Locked({"ek0", "ek1"})

\* (The request id is the operator's, and the same for each attempt.)
StartDerive(p, S) ==
    /\ MayStart(p) /\ ~DerivationLocked
    /\ accepted # Nil /\ ~DerivationFound(accepted)
    /\ Post(p, "ek0", S, accepted)
    /\ UNCHANGED <<vault, ceremony, faults>>

\* The transcript of the DKG named by the request is the one of the share.
ShareFits(s, run) == share[s] = run

\* The blinding scalars of s that a call or the transcript still speaks of.
BlindsInUse(s) ==
    LET told == {flight[p].arg.blinds : p \in {q \in Flights : flight[q].op = "ek1"}}
                \cup (IF derived = Nil THEN {} ELSE {derived.blinds})
    IN  {call[p][s].got : p \in {q \in Flights : flight[q].op = "ek0"}}
        \cup {b[s] : b \in {c \in told : s \in DOMAIN c}}

\* A random scalar: another one than all of these.
FreshBlind(s) ==
    CHOOSE n \in 1..(2 * Cardinality(Flights) + 1) : n \notin BlindsInUse(s)

\* Commit to a blinding scalar: the file is replayed, or created.
Round0(p, s) ==
    /\ At(p, s, "ek0", "sent")
    /\ IF ~ShareFits(s, flight[p].arg)
       THEN Reject(p, s) /\ UNCHANGED blind
       ELSE /\ blind' = [blind EXCEPT ![s] = IF @ = Nil THEN FreshBlind(s) ELSE @]
            /\ Reply(p, s, blind'[s])
    /\ UNCHANGED <<vault, flight, runs, accepted, share, drawn, derived, nonces,
                   answers, registered, faults>>

\* allHRoundZero: the commitments of all parties, in one vector.
Broadcast(p) ==
    [run |-> flight[p].arg,
     blinds |-> [s \in flight[p].slots |-> call[p][s].got]]

\* All have committed: broadcast the commitments.
Round0Answered(p) ==
    /\ Returned(p, "ek0")
    /\ IF AllAccepted(p)
       THEN Post(p, "ek1", flight[p].slots, Broadcast(p))
       ELSE Fail(p)
    /\ UNCHANGED <<vault, ceremony, faults>>

\* The file is read, and its commitment compared with the one broadcast; only
\* on a mismatch is it dropped here.
Round1Read(p, s) ==
    /\ At(p, s, "ek1", "sent")
    /\ IF ShareFits(s, flight[p].arg.run) /\ blind[s] = flight[p].arg.blinds[s]
       THEN Move(p, s, "read", Nil, blind[s]) /\ UNCHANGED blind
       ELSE /\ Reject(p, s)
            /\ blind' = [blind EXCEPT ![s] =
                    IF ShareFits(s, flight[p].arg.run) THEN Nil ELSE @]
    /\ UNCHANGED <<vault, flight, runs, accepted, share, drawn, derived,
                   nonces, answers, registered, faults>>

\* The parties of the inversion meet on the fixed ports of their slots: all of
\* the request, and no party of another one in the way.
Meet(p) ==
    /\ \A s \in flight[p].slots : call[p][s].at \in {"read", "ok"}
    /\ \A q \in Flights \ {p}, s \in Slots : ~At(q, s, "ek1", "read")

\* A party waits for those that have yet to connect; however the inversion
\* ends, the file is dropped.
Invert(p, s) ==
    /\ At(p, s, "ek1", "read")
    /\ \A t \in flight[p].slots : call[p][t].at # "sent"
    /\ blind' = [blind EXCEPT ![s] = Nil]
    /\ IF Meet(p) THEN Reply(p, s, call[p][s].got) ELSE Reject(p, s)
    /\ UNCHANGED <<vault, flight, runs, accepted, share, drawn, derived,
                   nonces, answers, registered, faults>>

\* Every contribution is to this inversion, with the scalar of the broadcast:
\* the transcript is assembled, and the verifier accepts it.
ContributionsHold(p) ==
    \A s \in flight[p].slots : call[p][s].got = flight[p].arg.blinds[s]

\* Persist the transcript under the request's name.
Round1Answered(p) ==
    /\ Returned(p, "ek1")
    /\ derived' = IF AllAccepted(p) /\ ContributionsHold(p)
                  THEN flight[p].arg
                  ELSE derived
    /\ Close(p)
    /\ UNCHANGED <<vault, runs, accepted, share, drawn, blind, nonces, answers,
                   registered, faults>>

----------------------------------------------------------------------------
(* The registration of vault_ek                                            *)

\* A transcript: the key, the request, and the nonces that were committed.
Registrations ==
    [run : Nat, id : Named \cup Nat, nonces : UNION {[S -> Nat] : S \in Quorums}]

RegistrationsOf(run) == {r \in registered : r.run = run}

\* The id is one the operator names, or a fresh one: fresh for each attempt in
\* the code, for each key here.
RequestIds == Named \cup {accepted}

\* The lock of the registration.
RegistrationLocked == Locked({"reg1", "reg2"})

\* The key, as the operator knows it, and the request's own id.
RegisterBody(q) == [id |-> q, run |-> accepted]

StartRegister(p, q, S) ==
    /\ MayStart(p) /\ ~RegistrationLocked
    /\ accepted # Nil /\ RegistrationsOf(accepted) = {}
    /\ DerivationFound(accepted)
    /\ Post(p, "reg1", S, RegisterBody(q))
    /\ UNCHANGED <<vault, ceremony, faults>>

\* The nonce files of a request (there is one at most).
NonceFiles(s, q) == {f \in nonces[s] : f.id = q}

\* Draw a nonce, keep it in a file, and answer with its commitment; a file of
\* the same request is replayed, but never for another key.
Commit(p, s) ==
    LET arg  == flight[p].arg
        held == NonceFiles(s, arg.id)
        new  == [id |-> arg.id, run |-> arg.run, nonce |-> drawn[s] + 1]
    IN  /\ At(p, s, "reg1", "sent")
        /\ IF ~ShareFits(s, arg.run) \/ \E f \in held : f.run # arg.run
           THEN Reject(p, s) /\ UNCHANGED <<drawn, nonces>>
           ELSE IF held # {}
                THEN /\ \E f \in held : Reply(p, s, f)
                     /\ UNCHANGED <<drawn, nonces>>
                ELSE /\ drawn' = [drawn EXCEPT ![s] = @ + 1]
                     /\ nonces' = [nonces EXCEPT ![s] = @ \cup {new}]
                     /\ Reply(p, s, new)
        /\ UNCHANGED <<vault, flight, runs, accepted, share, blind, derived,
                       answers, registered, faults>>

\* The worker's hash ties its commitment to this request and this key.
CommitmentsTied(p) ==
    \A s \in flight[p].slots :
        /\ call[p][s].got.id = flight[p].arg.id
        /\ call[p][s].got.run = flight[p].arg.run

\* The challenge: an injection of the key and of all the commitments.
Challenge(p) == [s \in flight[p].slots |-> call[p][s].got.nonce]

RespondBody(p) ==
    [id |-> flight[p].arg.id, run |-> flight[p].arg.run,
     challenge |-> Challenge(p)]

CommitAnswered(p) ==
    /\ Returned(p, "reg1")
    /\ IF AllAccepted(p) /\ CommitmentsTied(p)
       THEN Post(p, "reg2", flight[p].slots, RespondBody(p))
       ELSE Fail(p)
    /\ UNCHANGED <<vault, ceremony, faults>>

\* The share is read, and the nonce file is seen to exist.
RespondRead(p, s) ==
    /\ At(p, s, "reg2", "sent")
    /\ IF ShareFits(s, flight[p].arg.run) /\ NonceFiles(s, flight[p].arg.id) # {}
       THEN Move(p, s, "read", share[s], Nil)
       ELSE Reject(p, s)
    /\ UNCHANGED <<vault, flight, ceremony, faults>>

\* The file is what round 1 left for this request.
FileFits(p, s, f) ==
    /\ f.run = flight[p].arg.run
    /\ f.nonce = flight[p].arg.challenge[s]

Response(p, s) ==
    [nonce |-> flight[p].arg.challenge[s],
     challenge |-> flight[p].arg.challenge, share |-> call[p][s].base]

\* Mutant: the file is read where it is, and dropped with the answer.
ConsumeByReading(p, s) ==
    /\ answers' = [answers EXCEPT ![s] = @ \cup {Response(p, s)}]
    /\ Reply(p, s, Response(p, s))
    /\ nonces' = [nonces EXCEPT ![s] = @ \ NonceFiles(s, flight[p].arg.id)]

\* The file is renamed before it is read, so one caller has it, and it is
\* scrubbed whatever comes of it.
Consume(p, s) ==
    LET held == NonceFiles(s, flight[p].arg.id)
    IN  /\ nonces' = [nonces EXCEPT ![s] = @ \ held]
        /\ IF \E f \in held : FileFits(p, s, f)
           THEN /\ answers' = [answers EXCEPT ![s] = @ \cup {Response(p, s)}]
                /\ Reply(p, s, Response(p, s))
           ELSE Reject(p, s) /\ UNCHANGED answers

Respond(p, s) ==
    /\ At(p, s, "reg2", "read")
    /\ Consume(p, s)
    /\ UNCHANGED <<vault, flight, runs, accepted, share, drawn, blind, derived,
                   registered, faults>>

\* The worker's hash ties its response to the nonce and the challenge.
ResponsesTied(p) ==
    \A s \in flight[p].slots :
        /\ call[p][s].got.nonce = flight[p].arg.challenge[s]
        /\ call[p][s].got.challenge = flight[p].arg.challenge

\* The aggregate proof verifies when every response is of the registered key.
ProofHolds(p) ==
    \A s \in flight[p].slots : call[p][s].got.share = flight[p].arg.run

Registration(arg) == [run |-> arg.run, id |-> arg.id, nonces |-> arg.challenge]

\* The transcript is written under the name of its request.
Persisted(r) == {other \in registered : other.id # r.id} \cup {r}

RespondAnswered(p) ==
    /\ Returned(p, "reg2")
    /\ registered' = IF AllAccepted(p) /\ ResponsesTied(p) /\ ProofHolds(p)
                     THEN Persisted(Registration(flight[p].arg))
                     ELSE registered
    /\ Close(p)
    /\ UNCHANGED <<vault, runs, accepted, share, drawn, blind, derived, nonces,
                   answers, faults>>

----------------------------------------------------------------------------
(* The init of the vault on that key                                       *)

InitBodies == [id : Ids, derivation : Derivations, registration : Registrations]

InitBody(id, r) == [id |-> id, derivation |-> derived, registration |-> r]

\* Both transcripts are found.  Nothing is asked about calls still on their way.
StartCeremonyInit(p, id, r, S) ==
    /\ \A q \in Flights : ~flight[q].open
    /\ DerivationFound(r.run) /\ r.run = accepted
    /\ StartInit(p, InitBody(id, r), S)
    /\ UNCHANGED ceremony

\* The worker holds a share of the key it is asked to freeze.
KeyFits(p, s) == ShareFits(s, flight[p].arg.registration.run)

CeremonyInitRead(p, s) ==
    /\ IF At(p, s, "init", "sent") /\ ~KeyFits(p, s)
       THEN Refuse(p, s) /\ UNCHANGED <<chain, flight, ledger, faults>>
       ELSE InitRead(p, s)
    /\ UNCHANGED ceremony

----------------------------------------------------------------------------
(* The specification                                                       *)

CeremonyOps == {"dkg1", "dkg2", "dkg3", "ek0", "ek1", "reg1", "reg2"}

CeremonyFailure ==
    \/ /\ \E p \in Flights, s \in Slots : Disconnect(p, s, CeremonyOps)
       /\ UNCHANGED <<vault, ceremony>>
    \/ Failure /\ UNCHANGED ceremony

CeremonyInit ==
    /\ Init
    /\ runs = 0 /\ accepted = Nil
    /\ share = [s \in Slots |-> Nil]
    /\ drawn = [s \in Slots |-> 0]
    /\ blind = [s \in Slots |-> Nil] /\ derived = Nil
    /\ nonces = [s \in Slots |-> {}]
    /\ answers = [s \in Slots |-> {}]
    /\ registered = {}

CeremonyWorker(p, s) ==
    \/ Deal(p, s) \/ Combine(p, s) \/ FinalizeDkg(p, s)
    \/ Round0(p, s) \/ Round1Read(p, s) \/ Invert(p, s)
    \/ Commit(p, s) \/ RespondRead(p, s) \/ Respond(p, s)
    \/ CeremonyInitRead(p, s)
    \/ /\ \/ InitWrite(p, s) \/ FinalizeRead(p, s) \/ FinalizeWrite(p, s)
          \/ ObserveRead(p, s) \/ ObserveWrite(p, s)
       /\ UNCHANGED ceremony

CeremonyCoordinator(p) ==
    \/ DkgAnswered(p)
    \/ Round0Answered(p) \/ Round1Answered(p)
    \/ CommitAnswered(p) \/ RespondAnswered(p)
    \/ (InitAnswered(p) \/ FinalizeAnswered(p) \/ ObserveAnswered(p))
       /\ UNCHANGED ceremony

\* The scripts of the operator.
StartKey == \E p \in Flights : StartDkg(p)
StartDerivation == \E p \in Flights, S \in Quorums : StartDerive(p, S)
StartRegistration(q) == \E p \in Flights, S \in Quorums : StartRegister(p, q, S)
StartVault ==
    \E p \in Flights, id \in Ids, r \in registered, S \in Quorums :
        StartCeremonyInit(p, id, r, S)

CeremonyNext ==
    \/ StartKey
    \/ StartDerivation
    \/ \E q \in RequestIds : StartRegistration(q)
    \/ StartVault
    \/ /\ \E p \in Flights, n \in 1..MaxDeposits, t \in transcripts :
            StartObserve(p, n, t)
       /\ UNCHANGED ceremony
    \/ \E p \in Flights : CeremonyCoordinator(p)
    \/ \E p \in Flights, s \in Slots : CeremonyWorker(p, s)
    \/ ChainDeposit /\ UNCHANGED ceremony
    \/ CeremonyFailure

\* The handlers run on, and the operator runs each script again until it has
\* its result: the DKG when a worker lost its share of it, the derivation, the
\* registration under a fresh id, and init with the same request.
CeremonyFairness ==
    /\ \A p \in Flights :
        /\ WF_allVars(CeremonyCoordinator(p))
        /\ \A s \in Slots : WF_allVars(CeremonyWorker(p, s))
    /\ SF_allVars(StartKey /\ ~KeyIsShared)
    /\ SF_allVars(StartDerivation)
    /\ SF_allVars(StartRegistration(accepted))
    /\ SF_allVars(StartVault /\ transcripts = {})

CeremonySpec == CeremonyInit /\ [][CeremonyNext]_allVars /\ CeremonyFairness

----------------------------------------------------------------------------
(* Properties                                                              *)

\* A worker never answers two challenges with one nonce: the two answers would
\* give its share of the vault's key away.  Two rounds of one request id may
\* overlap when a coordinator crashed in between, and the second replays the
\* nonce the first has not used yet (create_registration_partial_response_v2).
NonceAnswersOnce ==
    \A s \in Slots : \A a, b \in answers[s] : a.nonce = b.nonce => a = b

\* Every worker of a registration has answered its challenge, with a share of the
\* run registered and the nonce it had committed to.
Responded(r) ==
    \A s \in DOMAIN r.nonces :
        [nonce |-> r.nonces[s], challenge |-> r.nonces, share |-> r.run]
            \in answers[s]

\* The transcripts that a request for init names are of one key.
KeyIsWhole(request) ==
    /\ request.derivation.run = request.registration.run
    /\ Responded(request.registration)

\* What a worker froze is one key throughout, however many times the DKG ran and
\* whatever of its earlier runs came late: the derivation and the registration
\* are of one run, and all workers of the registration had a share of that run
\* when they answered (the provenance scans of init, and the two rounds of
\* ca_registration_v2).
FrozenKeyIsWhole ==
    \A s \in Slots : file[s] # Nil => KeyIsWhole(file[s].hash.request)

\* The key of a vault can be used: "the new subset's workers all hold valid
\* ca_dkg_share_v2 entries", which init cross-checks at each of them once.  A
\* round2 that comes later replaces the share without asking.
VaultKeyIsHeld ==
    \A t \in transcripts : \A s \in DOMAIN t :
        share[s] = t[s].hash.request.registration.run

\* A worker froze a key that another worker has no share of.
Stranded ==
    \E s, t \in Slots :
        file[s] # Nil /\ ~ShareFits(t, file[s].hash.request.registration.run)

\* The recovery the ceremony was built for: crashes and lost answers between
\* any two rounds leave files from which the scripts, run again, give the vault
\* its init transcript (the replay of round0, round1, init and finalize).  The
\* one way out is init itself, begun while a late round2 of the DKG had broken
\* up the shares: the first worker freezes the key before the other refuses.
CeremonyFinishes == <>(transcripts # {} \/ Stranded)

=============================================================================
