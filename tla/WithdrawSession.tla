--------------------------- MODULE WithdrawSession ---------------------------
(***************************************************************************)
(* One MPCCA withdrawal, from start to the attested call arguments: the    *)
(* coordinator's routes start (round 1), round2, finalize and frost-attest *)
(* with the artifacts they persist for the request, and the session files  *)
(* of the workers of its quorum.                                           *)
(*                                                                         *)
(* start hands every worker its share alpha of the sigma protocol's nonce, *)
(* round2 seals it again and commits to it, finalize answers the challenge *)
(* derived from all commitments.  Two answers with one alpha to different  *)
(* challenges reveal the worker's share of the decryption key.  A client   *)
(* may repeat every round, with new shares (start) or a new proof          *)
(* (round2); each route reads the artifacts of the rounds before it        *)
(* takes the lock.                                                         *)
(***************************************************************************)
EXTENDS FanOut

CONSTANTS
    MaxStarts,  \* bound on the starts of the request
    Proofs,     \* the client's part of the commitments it may send to round2
    Movable,    \* the workers another exit may move to the next sequence
    Repeats,    \* the rounds the client may repeat after they have succeeded
    Signatures  \* what frost-attest may sign: its nonces are random

ASSUME WithdrawSessionConstants ==
    /\ MaxStarts \in Nat /\ MaxFaults \in Nat
    /\ Movable \subseteq Slots
    /\ Repeats \subseteq {"start", "round2", "finalize", "commit"}
    /\ Slots # {}

VARIABLES
    starts,     \* the starts issued so far; start n carries the shares alpha n
    round1,     \* __round1.json: the start it is about
    round2,     \* __round2.json
    final,      \* __finalize.json
    ingress,    \* the alpha in mpcca_withdraw_v2_ingress.json of each worker
    share,      \* mpcca_withdraw_v2_round2_dk.json of each worker
    pin,        \* mpcca_withdraw_v2_finalize_pin.json of each worker
    nonces,     \* the FROST nonce files of each worker, named by their request
    released,   \* the answers to challenges each worker computed
    moved       \* the workers that left the sequence of the request

artifacts == <<round1, round2, final>>
session == <<ingress, share, pin, released>>
vars == <<starts, artifacts, session, nonces, moved, flight, call, faults>>

Runs == 1..MaxStarts

\* What the challenge is derived from: the client's commitments and those of
\* the workers, each the image of an alpha.  (The statement is that of the
\* request: a changed one changes the hashes of round 2 as a new start does.)
Commitments == [proof : Proofs, alpha : [Slots -> Runs]]

\* The hash of round 1, which binds the time of the start, stands for the run.
Round2s == [run : Runs, commitments : Commitments]
Finals  == [commitments : Commitments, answer : [Slots -> Runs],
            attested : Signatures \cup {Nil}]
Shares  == [run : Runs, alpha : Runs]
Pins    == [run : Runs, commitments : Commitments]
Answers == [alpha : Runs, commitments : Commitments]

ASSUME NilIsApart ==
    /\ Nil \notin Signatures
    /\ Nil \notin Runs
    /\ Nil \notin Round2s
    /\ Nil \notin Finals
    /\ Nil \notin Shares

----------------------------------------------------------------------------
(* The coordinator: requests, and the lock all four routes share           *)

Routes == {"start", "round2", "finalize", "commit", "sign"}

\* Every worker asked has answered the coordinator, or never will.
Returned(p, op) ==
    /\ flight[p].op = op /\ flight[p].open
    /\ AllAnswered(p)

\* A request that has read its artifacts and asks for the lock.
Asking(p) == flight[p].op \in Routes /\ ~flight[p].open /\ flight[p].slots = {}

Busy(p) == flight[p].open \/ Asking(p)

\* A round the client does not repeat is asked for until it has succeeded, and
\* only when the client waits for no other answer.
Ask(p, op, done, arg) ==
    /\ Idle(p) /\ ~Asking(p)
    /\ op \notin Repeats => ~done /\ \A q \in Flights : ~Busy(q)
    /\ flight' = [flight EXCEPT ![p] =
            [op |-> op, slots |-> {}, arg |-> arg, open |-> FALSE]]
    /\ call' = [call EXCEPT ![p] = [s \in Slots |-> Unsent]]
    /\ UNCHANGED <<artifacts, session, nonces, moved, faults>>

AskStart(p) ==
    /\ starts < MaxStarts
    /\ starts' = starts + 1
    /\ Ask(p, "start", round1 # Nil, starts + 1)

AskRound2(p, u) ==
    /\ round1 # Nil
    /\ Ask(p, "round2", round2 # Nil, [run |-> round1, proof |-> u])
    /\ UNCHANGED starts

AskFinalize(p) ==
    /\ round2 # Nil
    /\ Ask(p, "finalize", final # Nil, round2)
    /\ UNCHANGED starts

\* frost-attest signs the proof of the artifact it reads here.
AskAttest(p) ==
    /\ final # Nil
    /\ Ask(p, "commit", final.attested # Nil, final)
    /\ UNCHANGED starts

\* The lock is free, or the request is turned away (409).
TakeLock(p) ==
    /\ Asking(p)
    /\ IF Locked(Routes)
       THEN Fail(p)
       ELSE Post(p, flight[p].op, Slots, flight[p].arg)
    /\ UNCHANGED <<starts, artifacts, session, nonces, moved, faults>>

StartAnswered(p) ==
    /\ Returned(p, "start")
    /\ round1' = IF AllAccepted(p) THEN flight[p].arg ELSE round1
    /\ Close(p)
    /\ UNCHANGED <<starts, round2, final, session, nonces, moved, faults>>

\* What the workers committed to, with the client's part.
Aggregate(p) ==
    [proof |-> flight[p].arg.proof, alpha |-> [s \in Slots |-> call[p][s].got]]

Round2Answered(p) ==
    /\ Returned(p, "round2")
    /\ round2' = IF AllAccepted(p)
                 THEN [run |-> flight[p].arg.run, commitments |-> Aggregate(p)]
                 ELSE round2
    /\ Close(p)
    /\ UNCHANGED <<starts, round1, final, session, nonces, moved, faults>>

\* Mutant: finalize puts up with the answer of any one worker.
EnoughAnswersOfOne(p) == \E s \in Slots : Accepted(p, s)

EnoughAnswers(p) == AllAccepted(p)

\* The artifact without call arguments: an attestation is lost with it.
FinalizeAnswered(p) ==
    /\ Returned(p, "finalize")
    /\ final' = IF EnoughAnswers(p)
                THEN [commitments |-> flight[p].arg.commitments,
                      answer |-> [s \in Slots |-> call[p][s].got],
                      attested |-> Nil]
                ELSE final
    /\ Close(p)
    /\ UNCHANGED <<starts, round1, round2, session, nonces, moved, faults>>

\* frost-attest: all nonces are committed to, ask for the signature shares.
CommitAnswered(p) ==
    /\ Returned(p, "commit")
    /\ IF AllAccepted(p)
       THEN Post(p, "sign", Slots, flight[p].arg)
       ELSE Fail(p)
    /\ UNCHANGED <<starts, artifacts, session, nonces, moved, faults>>

\* The artifact read at the beginning is written back with call arguments.
\* (The aggregation at one worker changes nothing there.)
SignAnswered(p) ==
    /\ Returned(p, "sign")
    /\ IF AllAccepted(p)
       THEN \E signature \in Signatures :
                final' = [flight[p].arg EXCEPT !.attested = signature]
       ELSE UNCHANGED final
    /\ Close(p)
    /\ UNCHANGED <<starts, round1, round2, session, nonces, moved, faults>>

----------------------------------------------------------------------------
(* The workers                                                             *)

\* The vault state file still has the sequence the request names.
Current(s) == s \notin moved

\* The handler passed its checks, with what it read in hand.
Keep(p, s, base) == Move(p, s, "read", base, Nil)

Round1Read(p, s) ==
    /\ At(p, s, "start", "sent")
    /\ IF Current(s) THEN Keep(p, s, Nil) ELSE Reject(p, s)
    /\ UNCHANGED <<starts, artifacts, session, nonces, moved, flight, faults>>

Round1Write(p, s) ==
    /\ At(p, s, "start", "read")
    /\ ingress' = [ingress EXCEPT ![s] = flight[p].arg]
    /\ Reply(p, s, Nil)
    /\ UNCHANGED <<starts, artifacts, share, pin, released, nonces, moved, flight,
                   faults>>

\* The share is read back from the file of round 1, whichever start wrote it.
Round2Read(p, s) ==
    /\ At(p, s, "round2", "sent")
    /\ IF Current(s) /\ ingress[s] # Nil
       THEN Keep(p, s, ingress[s])
       ELSE Reject(p, s)
    /\ UNCHANGED <<starts, artifacts, session, nonces, moved, flight, faults>>

Round2Write(p, s) ==
    /\ At(p, s, "round2", "read")
    /\ LET alpha == call[p][s].base
       IN  /\ share' = [share EXCEPT ![s] =
                            [run |-> flight[p].arg.run, alpha |-> alpha]]
           /\ Reply(p, s, alpha)
    /\ UNCHANGED <<starts, artifacts, ingress, pin, released, nonces, moved, flight,
                   faults>>

\* Two handlers of one round write the same temporary file: the one that
\* renames it first may install the other's text, and the other fails.
Together(p, q, s, op) ==
    /\ p # q /\ At(p, s, op, "read") /\ At(q, s, op, "read")
    /\ call' = [call EXCEPT
            ![p][s] = Moved(p, s, "ok", Nil,
                            IF op = "round2" THEN call[p][s].base ELSE Nil),
            ![q][s] = Moved(q, s, "err", Nil, Nil)]

RoundsWriteTogether(p, q, s) ==
    \E writer \in {p, q} :
        /\ \/ /\ Together(p, q, s, "start")
              /\ ingress' = [ingress EXCEPT ![s] = flight[writer].arg]
              /\ UNCHANGED share
           \/ /\ Together(p, q, s, "round2")
              /\ share' = [share EXCEPT ![s] =
                    [run |-> flight[writer].arg.run, alpha |-> call[writer][s].base]]
              /\ UNCHANGED ingress
        /\ UNCHANGED <<starts, artifacts, pin, released, nonces, moved, flight,
                       faults>>

\* The challenge is derived anew, and the call must name the round 2 on file.
FinalizeRead(p, s) ==
    /\ At(p, s, "finalize", "sent")
    /\ IF Current(s) /\ share[s] # Nil /\ share[s].run = flight[p].arg.run
       THEN Keep(p, s, share[s])
       ELSE Reject(p, s)
    /\ UNCHANGED <<starts, artifacts, session, nonces, moved, flight, faults>>

\* Mutant: a pin is not looked at when another challenge arrives.
PinAllowsAny(p, s) == TRUE

\* Mutant: a pin is never replayed.
PinAllowsOnce(p, s) == pin[s] = Nil

\* No pin, or one with these very bytes.
PinAllows(p, s) == pin[s] \in {Nil, flight[p].arg}

\* The pin is linked into place before any secret is loaded.
FinalizePin(p, s) ==
    /\ At(p, s, "finalize", "read")
    /\ IF PinAllows(p, s)
       THEN /\ pin' = [pin EXCEPT ![s] = flight[p].arg]
            /\ Move(p, s, "pinned", call[p][s].base, Nil)
       ELSE /\ Reject(p, s)
            /\ UNCHANGED pin
    /\ UNCHANGED <<starts, artifacts, ingress, share, released, nonces, moved, flight,
                   faults>>

\* s = alpha + e * lambda * dk, with the alpha of the file read before.
FinalizeAnswer(p, s) ==
    /\ At(p, s, "finalize", "pinned")
    /\ LET alpha == call[p][s].base.alpha
       IN  /\ released' = [released EXCEPT ![s] = @ \cup
                {[alpha |-> alpha, commitments |-> flight[p].arg.commitments]}]
           /\ Reply(p, s, alpha)
    /\ UNCHANGED <<starts, artifacts, ingress, share, pin, nonces, moved, flight,
                   faults>>

\* A nonce is random, so it is named by the request it was made for.
NonceCommit(p, s) ==
    /\ At(p, s, "commit", "sent")
    /\ nonces' = [nonces EXCEPT ![s] = @ \cup {p}]
    /\ Reply(p, s, Nil)
    /\ UNCHANGED <<starts, artifacts, session, moved, flight, faults>>

\* A share is returned only after its nonce file was removed.
PartialSign(p, s) ==
    /\ At(p, s, "sign", "sent")
    /\ IF p \in nonces[s]
       THEN nonces' = [nonces EXCEPT ![s] = @ \ {p}] /\ Reply(p, s, Nil)
       ELSE Reject(p, s) /\ UNCHANGED nonces
    /\ UNCHANGED <<starts, artifacts, session, moved, flight, faults>>

\* The worker follows another exit (resync or sync_sequence).
SequenceMoves(s) ==
    /\ s \in Movable \ moved
    /\ moved' = moved \cup {s}
    /\ UNCHANGED <<starts, artifacts, session, nonces, flight, call, faults>>

Failure ==
    /\ \/ \E p \in Flights, s \in Slots : Disconnect(p, s, Routes)
       \/ \E s \in Slots : WorkerCrash(s)
    /\ UNCHANGED <<starts, artifacts, session, nonces, moved>>

Crash ==
    /\ CoordinatorCrash
    /\ UNCHANGED <<starts, artifacts, session, nonces, moved>>

----------------------------------------------------------------------------
(* The specification                                                       *)

Init ==
    /\ starts = 0
    /\ round1 = Nil /\ round2 = Nil /\ final = Nil
    /\ ingress = [s \in Slots |-> Nil]
    /\ share = [s \in Slots |-> Nil]
    /\ pin = [s \in Slots |-> Nil]
    /\ nonces = [s \in Slots |-> {}]
    /\ released = [s \in Slots |-> {}]
    /\ moved = {}
    /\ FanOutInit

AskAny(p) ==
    \/ AskStart(p)
    \/ \E u \in Proofs : AskRound2(p, u)
    \/ AskFinalize(p)
    \/ AskAttest(p)

CoordinatorStep(p) ==
    \/ TakeLock(p)
    \/ StartAnswered(p) \/ Round2Answered(p) \/ FinalizeAnswered(p)
    \/ CommitAnswered(p) \/ SignAnswered(p)

WorkerStep(p, s) ==
    \/ Round1Read(p, s) \/ Round1Write(p, s)
    \/ Round2Read(p, s) \/ Round2Write(p, s)
    \/ FinalizeRead(p, s) \/ FinalizePin(p, s) \/ FinalizeAnswer(p, s)
    \/ NonceCommit(p, s) \/ PartialSign(p, s)

SessionStep ==
    \/ \E p \in Flights : AskAny(p) \/ CoordinatorStep(p)
    \/ \E p \in Flights, s \in Slots : WorkerStep(p, s)
    \/ \E p, q \in Flights, s \in Slots : RoundsWriteTogether(p, q, s)
    \/ \E s \in Slots : SequenceMoves(s)
    \/ Failure

Next == SessionStep \/ Crash

\* No worker's step waits for another, and the event loop takes up an answered
\* request.
Fairness ==
    \A p \in Flights :
        /\ WF_vars(CoordinatorStep(p))
        /\ \A s \in Slots : WF_vars(WorkerStep(p, s))

Spec == Init /\ [][Next]_vars /\ Fairness

\* A client that repeats each round until it has succeeded.
ClientSpec ==
    /\ Spec
    /\ WF_vars(\E p \in Flights : AskAny(p))

----------------------------------------------------------------------------
(* Properties                                                              *)

Args(op) ==
    CASE op = "start"             -> Runs
      [] op = "round2"            -> [run : Runs, proof : Proofs]
      [] op = "finalize"          -> Round2s
      [] op \in {"commit", "sign"} -> Finals
      [] OTHER                    -> {Nil}

Bases(op) ==
    CASE op = "round2"   -> Runs \cup {Nil}
      [] op = "finalize" -> Shares \cup {Nil}
      [] OTHER           -> {Nil}

FilesTypeOK ==
    /\ starts \in 0..MaxStarts
    /\ round1 \in Runs \cup {Nil}
    /\ round2 \in Round2s \cup {Nil}
    /\ final \in Finals \cup {Nil}
    /\ ingress \in [Slots -> Runs \cup {Nil}]
    /\ share \in [Slots -> Shares \cup {Nil}]
    /\ pin \in [Slots -> Pins \cup {Nil}]
    /\ nonces \in [Slots -> SUBSET Flights]
    /\ released \in [Slots -> SUBSET Answers]
    /\ moved \subseteq Slots
    /\ faults \in Nat

CallTypeOK(op, c) ==
    /\ c.at \in Running \cup {"none", "ok", "err"}
    /\ c.base \in Bases(op)
    /\ c.got \in Runs \cup {Nil}
    /\ c.heard \in BOOLEAN

RequestTypeOK(r) ==
    /\ r.op \in Routes \cup {"none"}
    /\ r.slots \in {{}, Slots}
    /\ r.arg \in Args(r.op)
    /\ r.open \in BOOLEAN

\* Artifacts, session files, requests and calls have their types.
SessionTypeOK ==
    /\ FilesTypeOK
    /\ \A p \in Flights :
        /\ RequestTypeOK(flight[p])
        /\ \A s \in Slots : CallTypeOK(flight[p].op, call[p][s])

\* A worker never answers two challenges in one session, whatever is repeated
\* or overtaken: two answers with one alpha would give its share of the key away
\* (run_finalize_v2, persist_finalize_pin).
OneChallenge ==
    \A s \in Slots : \A a, b \in released[s] : a.commitments = b.commitments

\* Every worker is pinned to the commitments of f, and gave the answer f holds
\* to them.
Backed(f) == \A s \in Slots :
    /\ pin[s] # Nil /\ pin[s].commitments = f.commitments
    /\ [alpha |-> f.answer[s], commitments |-> f.commitments] \in released[s]

\* Once __finalize.json exists it is backed by every worker of the quorum, so it
\* is the only one the session can ever have (finalize verifies each s part
\* against the round 2 it was sent).
FinalIsBacked == final # Nil => Backed(final)

\* ... and no later write, of a finalize or of a frost-attest that read the
\* artifact long before, puts other commitments there.
FinalIsStable ==
    [][final # Nil =>
        /\ final' # Nil
        /\ final'.commitments = final.commitments]_vars

\* A client that repeats each round until it succeeds gets its attestation,
\* whatever crashes and lost answers there are on the way: replays of each round
\* and of a finalize pinned at some workers only are accepted.
SessionFinishes ==
    Repeats \subseteq {"commit"} => <>(final # Nil /\ final.attested # Nil)
=============================================================================
