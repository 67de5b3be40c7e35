------------------------------ MODULE VaultState ------------------------------
(***************************************************************************)
(* The vault state of the deoperators: the file vault_state_v2.json every  *)
(* crypto worker keeps (the hash frozen by init, the pin of finalize, the  *)
(* vault sequence, the deposits observed, the transaction bound last) and  *)
(* the coordinator's routes that write it: init with its finalize round,   *)
(* observe_deposit, resync and sync_sequence.                              *)
(*                                                                         *)
(* A worker's handler reads the file, and later replaces the whole file    *)
(* with the copy it read, changed in its own fields; handlers of one       *)
(* worker run on several threads and nothing serialises them.  The         *)
(* coordinator serialises init with init and observe with observe, and     *)
(* resync and sync with nothing.                                           *)
(***************************************************************************)
EXTENDS FanOut

CONSTANTS
    Threshold,    \* DEOPERATOR_THRESHOLD
    Inits,        \* requests for init
    KeyOf(_),     \* the key, its derivation and registration, that one names
    MaxExits,     \* bound on the exits of the chain
    Kind,         \* what each exit is
    MaxDeposits,  \* bound on its confirmed deposits
    MaxEvents     \* bound on both together

ASSUME VaultStateConstants ==
    /\ IsFiniteSet(Slots)
    /\ Threshold \in 1..Cardinality(Slots)
    /\ {MaxExits, MaxDeposits, MaxEvents, MaxFaults} \subseteq Nat
    /\ Kind \in [1..MaxExits -> {"withdraw", "ragequit"}]

VARIABLES
    vaultSequence, \* the chain's vault_sequence: the exits it has confirmed
    deposits,     \* the confirmed deposits of the chain
    file,         \* vault_state_v2.json of each worker
    transcripts,  \* the init transcripts the coordinator persisted
    observed      \* the deposit counts of its observe transcripts

chain == <<vaultSequence, deposits>>
ledger == <<transcripts, observed>>
vars == <<chain, file, flight, call, ledger, faults>>

----------------------------------------------------------------------------
(* Files, hashes and answers                                               *)

Quorums == {S \in SUBSET Slots : Cardinality(S) = Threshold}

\* vaultStateV2InitWorkerTranscriptHash, an injection of what it binds.
WorkerHash(request, S, sequence, count) ==
    [request |-> request, slots |-> S, sequence |-> sequence, count |-> count]

WorkerHashes ==
    [request : Inits, slots : Quorums, sequence : Nat, count : Nat]

\* What one worker contributes to the init transcript.
Contributions == [hash : WorkerHashes, sequence : Nat, count : Nat]

\* The transcript over all contributions, again an injection of its input.
Transcripts == UNION {[S -> Contributions] : S \in Quorums}

Files ==
    [hash : WorkerHashes, slots : Quorums, pin : Transcripts \cup {Nil},
     sequence : Nat, count : Nat, bound : Nat]

\* No file is not a file.
ASSUME NilIsNoFile == Nil \notin Files

\* What a fresh init writes.
Fresh(request, S) ==
    [hash |-> WorkerHash(request, S, 0, 0), slots |-> S, pin |-> Nil,
     sequence |-> 0, count |-> 0, bound |-> 0]

Contribution(f) ==
    [hash |-> f.hash, sequence |-> f.sequence, count |-> f.count]

----------------------------------------------------------------------------
(* Steps of the handlers                                                   *)

\* Every worker asked has answered the coordinator, or never will.
Returned(p, op) ==
    /\ flight[p].op = op /\ flight[p].open
    /\ AllAnswered(p)

Refuse(p, s) == Reject(p, s) /\ UNCHANGED file

\* The handler passed its checks on what it read, and will write it back.
Keep(p, s) == Move(p, s, "read", file[s], Nil) /\ UNCHANGED file
Replace(s, f) == file' = [file EXCEPT ![s] = f]

----------------------------------------------------------------------------
(* init: first the workers write their files, then they pin the transcript *)

\* Mutant: the coordinator takes a contribution's hash on trust.
ContributionHoldsUnchecked(p, s) == TRUE

\* The hash re-derived from the request and the cursors in the answer.
ContributionHolds(p, s) ==
    LET got == call[p][s].got
    IN  got.hash = WorkerHash(flight[p].arg, flight[p].slots,
                              got.sequence, got.count)

\* The lock of init is free, or the request is turned away (409).
MayInit(p) == Idle(p) /\ ~Locked({"init", "finalize"})

\* The coordinator has found the transcripts of the key, and names them.
StartInit(p, request, S) ==
    /\ MayInit(p)
    /\ Post(p, "init", S, request)
    /\ UNCHANGED <<chain, file, ledger, faults>>

\* All workers answered: assemble the transcript and fan finalize out.
InitAnswered(p) ==
    /\ Returned(p, "init")
    /\ IF AllAccepted(p) /\ \A s \in flight[p].slots : ContributionHolds(p, s)
       THEN Post(p, "finalize", flight[p].slots,
                 [transcript |-> [s \in flight[p].slots |-> call[p][s].got]])
       ELSE Fail(p)
    /\ UNCHANGED <<chain, file, ledger, faults>>

\* All workers pinned it: persist the transcript.
FinalizeAnswered(p) ==
    /\ Returned(p, "finalize")
    /\ transcripts' = IF AllAccepted(p)
                      THEN transcripts \cup {flight[p].arg.transcript}
                      ELSE transcripts
    /\ Close(p)
    /\ UNCHANGED <<chain, file, observed, faults>>

\* The file of s is about the key and the quorum of the request.
SameIdentity(p, s) ==
    /\ file[s].slots = flight[p].slots
    /\ KeyOf(file[s].hash.request) = KeyOf(flight[p].arg)

\* The worker: a file of the same identity is answered from, another refused.
InitRead(p, s) ==
    /\ At(p, s, "init", "sent")
    /\ IF file[s] = Nil
       THEN Keep(p, s)
       ELSE IF SameIdentity(p, s)
            THEN Reply(p, s, Contribution(file[s])) /\ UNCHANGED file
            ELSE Refuse(p, s)
    /\ UNCHANGED <<chain, flight, ledger, faults>>

\* Mutant: the fresh file replaces one that appeared meanwhile.
CreateByRename(p, s) ==
    /\ Replace(s, Fresh(flight[p].arg, flight[p].slots))
    /\ Reply(p, s, Contribution(Fresh(flight[p].arg, flight[p].slots)))

\* The file is linked into place: it fails where one appeared meanwhile, whose
\* bytes differ (created_at_unix_ms).
Create(p, s) ==
    IF file[s] = Nil
    THEN /\ Replace(s, Fresh(flight[p].arg, flight[p].slots))
         /\ Reply(p, s, Contribution(Fresh(flight[p].arg, flight[p].slots)))
    ELSE Refuse(p, s)

InitWrite(p, s) ==
    /\ At(p, s, "init", "read")
    /\ Create(p, s)
    /\ UNCHANGED <<chain, flight, ledger, faults>>

\* The worker's own hash is the one frozen in its file.
SelfContribution(p, s) == flight[p].arg.transcript[s].hash = file[s].hash

\* Mutant: the worker refuses to finalize a second time.
PinFitsOnce(p, s) == file[s].pin = Nil

\* A pin is set once, and only replayed afterwards.
PinFits(p, s) == file[s].pin \in {Nil, flight[p].arg.transcript}

FinalizeRead(p, s) ==
    /\ At(p, s, "finalize", "sent")
    /\ IF \/ file[s] = Nil
          \/ file[s].slots # flight[p].slots
          \/ ~SelfContribution(p, s)
          \/ ~PinFits(p, s)
       THEN Refuse(p, s)
       ELSE IF file[s].pin = Nil
            THEN Keep(p, s)
            ELSE Reply(p, s, Nil) /\ UNCHANGED file
    /\ UNCHANGED <<chain, flight, ledger, faults>>

FinalizeWrite(p, s) ==
    /\ At(p, s, "finalize", "read")
    /\ Replace(s, [call[p][s].base EXCEPT !.pin = flight[p].arg.transcript])
    /\ Reply(p, s, Nil)
    /\ UNCHANGED <<chain, flight, ledger, faults>>

----------------------------------------------------------------------------
(* observe_deposit                                                         *)

\* The n-th deposit, of a transaction the observer has read from the chain.
Confirmed(n) == n \in 1..deposits

\* The scan of the coordinator's directory finds it.
TranscriptFound(t) == t \in transcripts

MayObserve(p) == Idle(p) /\ ~Locked({"observe"})

\* The observer reports the n-th confirmed deposit, to the slots of the first
\* transcript the coordinator finds for the vault.
StartObserve(p, n, t) ==
    /\ MayObserve(p)
    /\ Confirmed(n)
    /\ TranscriptFound(t)
    /\ Post(p, "observe", DOMAIN t, [count |-> n])
    /\ UNCHANGED <<chain, file, ledger, faults>>

\* Every worker says that it moved from n - 1 to n.
CountsAgree(p) ==
    \A s \in flight[p].slots : call[p][s].got.count = flight[p].arg.count

\* All workers counted the deposit: persist the transcript.
ObserveAnswered(p) ==
    /\ Returned(p, "observe")
    /\ observed' = IF AllAccepted(p) /\ CountsAgree(p)
                   THEN observed \cup {flight[p].arg.count}
                   ELSE observed
    /\ Close(p)
    /\ UNCHANGED <<chain, file, transcripts, faults>>

NextDeposit(f, n) == n > f.count /\ n - 1 = f.count

ObserveRead(p, s) ==
    /\ At(p, s, "observe", "sent")
    /\ IF /\ file[s] # Nil
          /\ file[s].slots = flight[p].slots
          /\ NextDeposit(file[s], flight[p].arg.count)
       THEN Keep(p, s)
       ELSE Refuse(p, s)
    /\ UNCHANGED <<chain, flight, ledger, faults>>

ObserveWrite(p, s) ==
    /\ At(p, s, "observe", "read")
    /\ LET new == [call[p][s].base EXCEPT !.count = flight[p].arg.count]
       IN  Replace(s, new) /\ Reply(p, s, Contribution(new))
    /\ UNCHANGED <<chain, flight, ledger, faults>>

----------------------------------------------------------------------------
(* resync: follow one withdrawal; sync_sequence: follow the chain          *)

\* The request claims that the exit tx moved the chain to sequence next.
StartResync(p, tx, next) ==
    /\ Idle(p)
    /\ Post(p, "resync", Slots, [tx |-> tx, next |-> next])
    /\ UNCHANGED <<chain, file, ledger, faults>>

StartSync(p) ==
    /\ Idle(p)
    /\ Post(p, "sync", Slots, Nil)
    /\ UNCHANGED <<chain, file, ledger, faults>>

\* 200 if a threshold of the roster answered, 502 if not: only the answer and
\* the audit transcript differ.
FanOutAnswered(p) ==
    /\ Returned(p, "resync") \/ Returned(p, "sync")
    /\ Close(p)
    /\ UNCHANGED <<chain, file, ledger, faults>>

\* The worker's machine on the sequence it holds and the one it is asked for:
\* a replay, the next step, or the backfill of a sequence without binding.
Replayed(f, arg) == f.sequence = arg.next /\ f.bound = arg.tx
Advances(f, arg) ==
    \/ arg.next = f.sequence + 1
    \/ arg.next = f.sequence /\ f.bound = 0

ResyncRead(p, s) ==
    /\ At(p, s, "resync", "sent")
    /\ IF file[s] = Nil
       THEN Refuse(p, s)
       ELSE IF Replayed(file[s], flight[p].arg)
            THEN Reply(p, s, Nil) /\ UNCHANGED file
            ELSE IF Advances(file[s], flight[p].arg)
                 THEN Keep(p, s)
                 ELSE Refuse(p, s)
    /\ UNCHANGED <<chain, flight, ledger, faults>>

\* Mutant: the sequence of the event is not compared.
EventHoldsForAnySequence(arg) ==
    arg.tx \in 1..vaultSequence /\ Kind[arg.tx] = "withdraw"

\* The transaction, read from the worker's own node, emitted the withdrawal
\* event with the sequence the request names.
EventHolds(arg) ==
    /\ arg.tx \in 1..vaultSequence
    /\ Kind[arg.tx] = "withdraw"
    /\ arg.tx = arg.next

ResyncWrite(p, s) ==
    /\ At(p, s, "resync", "read")
    /\ IF EventHolds(flight[p].arg)
       THEN /\ Replace(s, [call[p][s].base EXCEPT
                            !.sequence = flight[p].arg.next,
                            !.bound = flight[p].arg.tx])
            /\ Reply(p, s, Nil)
       ELSE Refuse(p, s)
    /\ UNCHANGED <<chain, flight, ledger, faults>>

SyncRead(p, s) ==
    /\ At(p, s, "sync", "sent")
    /\ IF file[s] = Nil THEN Refuse(p, s) ELSE Keep(p, s)
    /\ UNCHANGED <<chain, flight, ledger, faults>>

\* The chain's sequence is fetched after the file was read.
SyncFetch(p, s) ==
    /\ At(p, s, "sync", "read")
    /\ LET base == call[p][s].base
       IN  IF vaultSequence < base.sequence
           THEN Refuse(p, s)
           ELSE /\ UNCHANGED file
                /\ IF vaultSequence = base.sequence
                   THEN Reply(p, s, Nil)
                   ELSE Move(p, s, "fetched", base,
                             [Contribution(base) EXCEPT !.sequence = vaultSequence])
    /\ UNCHANGED <<chain, flight, ledger, faults>>

SyncWrite(p, s) ==
    /\ At(p, s, "sync", "fetched")
    /\ Replace(s, [call[p][s].base EXCEPT !.sequence = call[p][s].got.sequence])
    /\ Reply(p, s, Nil)
    /\ UNCHANGED <<chain, flight, ledger, faults>>

----------------------------------------------------------------------------
(* The chain, and what goes wrong                                          *)

\* A withdrawal emits the event resync needs, a ragequit does not.
ChainExits ==
    /\ vaultSequence < MaxExits /\ vaultSequence + deposits < MaxEvents
    /\ vaultSequence' = vaultSequence + 1
    /\ UNCHANGED <<deposits, file, flight, call, ledger, faults>>

ChainDeposit ==
    /\ deposits < MaxDeposits /\ vaultSequence + deposits < MaxEvents
    /\ deposits' = deposits + 1
    /\ UNCHANGED <<vaultSequence, file, flight, call, ledger, faults>>

\* What may go wrong.  (The 30 seconds after which resync and sync give a call
\* up change nothing but the answer.)
Failure ==
    /\ \/ \E p \in Flights, s \in Slots :
            Disconnect(p, s, {"init", "finalize", "observe"})
       \/ \E s \in Slots : WorkerCrash(s)
       \/ CoordinatorCrash
    /\ UNCHANGED <<chain, file, ledger>>

----------------------------------------------------------------------------
(* The specification                                                       *)

Init ==
    /\ vaultSequence = 0 /\ deposits = 0
    /\ file = [s \in Slots |-> Nil]
    /\ transcripts = {} /\ observed = {}
    /\ FanOutInit

WorkerStep(p, s) ==
    \/ InitRead(p, s) \/ InitWrite(p, s)
    \/ FinalizeRead(p, s) \/ FinalizeWrite(p, s)
    \/ ObserveRead(p, s) \/ ObserveWrite(p, s)
    \/ ResyncRead(p, s) \/ ResyncWrite(p, s)
    \/ SyncRead(p, s) \/ SyncFetch(p, s) \/ SyncWrite(p, s)

CoordinatorStep(p) ==
    \/ InitAnswered(p) \/ FinalizeAnswered(p)
    \/ ObserveAnswered(p) \/ FanOutAnswered(p)

Start(p) ==
    \/ \E request \in Inits, S \in Quorums : StartInit(p, request, S)
    \/ \E n \in 1..MaxDeposits, t \in transcripts : StartObserve(p, n, t)
    \/ \E tx \in 1..MaxExits, next \in 1..(MaxExits + 1) : StartResync(p, tx, next)
    \/ StartSync(p)

Next ==
    \/ \E p \in Flights : Start(p) \/ CoordinatorStep(p)
    \/ \E p \in Flights, s \in Slots : WorkerStep(p, s)
    \/ ChainExits \/ ChainDeposit
    \/ Failure

\* Every handler runs on: a worker has no step that waits for another, and the
\* coordinator's event loop takes up an answered request.
Fairness ==
    \A p \in Flights :
        /\ WF_vars(CoordinatorStep(p))
        /\ \A s \in Slots : WF_vars(WorkerStep(p, s))

Spec == Init /\ [][Next]_vars /\ Fairness

----------------------------------------------------------------------------
(* Properties                                                              *)

Calls ==
    [at : Running \cup {"none", "ok", "err"},
     base : Files \cup {Nil},
     got : Contributions \cup {Nil},
     heard : BOOLEAN]

Args(op) ==
    CASE op = "init"     -> Inits
      [] op = "finalize" -> [transcript : Transcripts]
      [] op = "observe"  -> [count : Nat \ {0}]
      [] op = "resync"   -> [tx : Nat \ {0}, next : Nat \ {0}]
      [] OTHER           -> {Nil}

\* The files, the coordinator's requests and the calls have their types.
VaultTypeOK ==
    /\ vaultSequence \in 0..MaxExits /\ deposits \in Nat
    /\ file \in [Slots -> Files \cup {Nil}]
    /\ DOMAIN flight = Flights
    /\ \A p \in Flights :
        /\ flight[p].op \in {"init", "finalize", "observe", "resync", "sync", "none"}
        /\ flight[p].slots \subseteq Slots
        /\ flight[p].arg \in Args(flight[p].op)
        /\ flight[p].open \in BOOLEAN
    /\ call \in [Flights -> [Slots -> Calls]]
    /\ transcripts \subseteq Transcripts /\ observed \subseteq Nat
    /\ faults \in Nat

\* Whatever the interleaving of its handlers, a worker is never ahead of the
\* chain, and the transaction it bound is a withdrawal at or below its sequence
\* (run_vault_resync_v2, run_vault_sequence_sync_v2, observe_deposit_v2).
CursorIsBacked ==
    \A s \in Slots : file[s] # Nil =>
        /\ file[s].sequence <= vaultSequence
        /\ file[s].count <= deposits
        /\ file[s].bound # 0 =>
            /\ file[s].bound <= file[s].sequence
            /\ Kind[file[s].bound] = "withdraw"

\* Every slot of the transcript holds the file its contribution speaks of.
Held(t) ==
    \A s \in DOMAIN t :
        /\ file[s] # Nil
        /\ file[s].slots = DOMAIN t
        /\ file[s].hash = t[s].hash

\* Workers pin one transcript: a pin is about the very files of its slots, all
\* frozen by the same init request, so two workers that share a quorum never
\* pin different transcripts (init_vault_state_v2, finalize_vault_state_v2 and
\* the coordinator's check of the contributions).
PinsAgree ==
    \A s \in Slots : file[s] # Nil /\ file[s].pin # Nil =>
        /\ s \in DOMAIN file[s].pin
        /\ Held(file[s].pin)
        /\ \A t \in DOMAIN file[s].pin :
            /\ file[t].hash = file[s].hash
            /\ file[t].pin \in {Nil, file[s].pin}

\* A persisted init transcript is about files the workers still hold, so two
\* transcripts never share a worker: the provenance scans of observe and of the
\* withdrawal rounds cannot pick one that is out of date.
TranscriptsAreHeld ==
    /\ \A t \in transcripts : Held(t)
    /\ \A t, u \in transcripts : DOMAIN t \cap DOMAIN u # {} => t = u

\* What init froze stays, though every other handler replaces the whole file
\* with a copy it read before: the hash, and the quorum.
FrozenForever ==
    [][\A s \in Slots : file[s] # Nil =>
        /\ file'[s] # Nil
        /\ file'[s].hash = file[s].hash
        /\ file'[s].slots = file[s].slots]_vars

=============================================================================
