---------------------------- MODULE VaultNormalize ----------------------------
(***************************************************************************)
(* Normalising the vault's confidential balance: after a rollover its      *)
(* chunks may be too large for a withdrawal's proof, so                    *)
(* local_v2_normalize_full.mjs reads the balance, has it decrypted by a    *)
(* quorum of the deoperators (/v2/balance/decrypt, every slot is asked),   *)
(* builds a proof about it, has a quorum complete the proof's response     *)
(* (/v2/normalize/sigma/s0, the lowest slots are asked) and sends the      *)
(* transaction.  Withdrawals, rollovers and transactions that an earlier   *)
(* run gave up waiting for change the balance meanwhile.                   *)
(*                                                                         *)
(* A balance is the number of changes it has seen; its ciphertexts, a      *)
(* partial decryption of them and a proof about them are that number.  The *)
(* asset has no auditor, and all sides are configured with the same        *)
(* roster, key and vault.                                                  *)
(***************************************************************************)
EXTENDS FanOut

CONSTANTS
    Quorum,     \* DEOPERATOR_THRESHOLD
    Attempts,   \* EUNOMA_COORDINATOR_HTTP_RETRY_ATTEMPTS
    MaxMoves    \* bound on withdrawals and rollovers

ASSUME VaultNormalizeConstants ==
    /\ Slots \subseteq Nat /\ IsFiniteSet(Slots)
    /\ Quorum \in 1..Cardinality(Slots)
    /\ Attempts \in Nat \ {0} /\ {MaxMoves, MaxFaults} \subseteq Nat

\* A request is none of the words for the state of one, and undefined is no word.
ASSUME NormalizeNames ==
    /\ Nil \notin Flights /\ "sent" \notin Flights
    /\ Nil \notin {"sent", "pending", "ok", "aborted",
                   "normalized", "already", "reverted", "failed"}

VARIABLES
    balance,    \* the vault's available balance on the chain
    normalized, \* its flag
    stray,      \* the balances that pending transactions nobody waits for are about
    down,       \* the slots of the deoperators that are down for good
    script,     \* the run of the script
    moves       \* what is left of MaxMoves

chain == <<balance, normalized, stray>>
requests == <<flight, call>>
vars == <<chain, down, script, moves, requests, faults>>

Waiting == {"decrypt", "s0"}

NoRun == [at |-> "idle", read |-> Nil, slots |-> {}, parts |-> {}, sum |-> {},
          left |-> 0, req |-> Nil, tx |-> Nil, outcome |-> Nil]

Lowest(S) == {s \in S : Cardinality({t \in S : t < s}) < Quorum}

----------------------------------------------------------------------------
(* The chain                                                               *)

\* Any proof about the balance before is void.
Becomes(n) == balance' = balance + 1 /\ normalized' = n /\ stray' = {}

\* A withdrawal leaves a normalised balance behind.
Withdraw ==
    /\ moves > 0 /\ moves' = moves - 1
    /\ Becomes(TRUE)
    /\ UNCHANGED <<down, script, requests, faults>>

\* The framework rolls nothing over into a balance that is not normalised.
Rollover ==
    /\ normalized
    /\ moves > 0 /\ moves' = moves - 1
    /\ Becomes(FALSE)
    /\ UNCHANGED <<down, script, requests, faults>>

Holds(b) == b = balance /\ ~normalized

\* The script's transaction is executed.
Execute ==
    /\ script.tx = "pending"
    /\ IF Holds(script.read)
       THEN Becomes(TRUE) /\ script' = [script EXCEPT !.tx = "ok"]
       ELSE UNCHANGED chain /\ script' = [script EXCEPT !.tx = "aborted"]
    /\ UNCHANGED <<down, moves, requests, faults>>

\* So is one an earlier run, or an earlier attempt of the CLI, has sent.
ExecuteStray ==
    /\ \E b \in stray : Holds(b)
    /\ Becomes(TRUE)
    /\ UNCHANGED <<down, script, moves, requests, faults>>

----------------------------------------------------------------------------
(* The script                                                              *)

Go(step) == script' = [script EXCEPT !.at = step]

\* What is in the mempool when a run ends, or runs the CLI again, stays there.
Leave == stray' = IF script.tx = "pending" /\ Holds(script.read)
                  THEN stray \cup {script.read} ELSE stray

Exit(outcome) ==
    /\ script' = [NoRun EXCEPT !.outcome = outcome,
                  !.read = IF outcome = "normalized" THEN script.read ELSE Nil]
    /\ Leave
    /\ UNCHANGED <<balance, normalized>>

\* Arguments, roster and settings are at hand.
Start ==
    /\ script.at = "idle"
    /\ script' = [NoRun EXCEPT !.at = "gate"]
    /\ UNCHANGED <<chain, down, moves, requests, faults>>

IsNormalized ==
    /\ script.at = "gate"
    /\ IF normalized
       THEN UNCHANGED chain /\ script' = [NoRun EXCEPT !.outcome = "already",
                                                    !.read = balance]
       ELSE Go("read") /\ UNCHANGED chain
    /\ UNCHANGED <<down, moves, requests, faults>>

FetchAvailable ==
    /\ script.at = "read"
    /\ script' = [script EXCEPT !.at = "decrypt", !.read = balance,
                                !.left = Attempts, !.req = "sent"]
    /\ UNCHANGED <<chain, down, moves, requests, faults>>

\* postCoordinatorJsonWithRetry posts the same body again.
Retry ==
    IF script.left > 1
    THEN /\ script' = [script EXCEPT !.left = @ - 1, !.req = "sent"]
         /\ UNCHANGED chain
    ELSE Exit("failed")

\* Partials of the balance read give its chunks; others decode to nothing.
Recovered == script.parts = {script.read}

\* From them come the proof and the shares of its nonce for the slots selected.
BuildProofBundle ==
    /\ script.at = "bundle"
    /\ IF Recovered
       THEN /\ script' = [script EXCEPT !.at = "s0", !.left = Attempts, !.req = "sent",
                                        !.parts = {}]
            /\ UNCHANGED chain
       ELSE Exit("failed")
    /\ UNCHANGED <<down, moves, requests, faults>>

\* The response is good if every slot that has a share of the nonce has had
\* its part in the sum, and no other.
Verifies == script.sum = script.slots

PreflightVerify ==
    /\ script.at = "verify"
    /\ IF Verifies
       THEN /\ script' = [NoRun EXCEPT !.at = "cli", !.read = script.read]
            /\ UNCHANGED chain
       ELSE Exit("failed")
    /\ UNCHANGED <<down, moves, requests, faults>>

\* The CLI simulates the transaction, and sends one that would succeed.
RunAptosCli ==
    /\ script.at = "cli"
    /\ IF Holds(script.read)
       THEN /\ script' = [script EXCEPT !.at = "poll", !.tx = "pending"]
            /\ UNCHANGED chain
       ELSE Exit("failed")
    /\ UNCHANGED <<down, moves, requests, faults>>

\* It sends one and fails: on a transport failure it is run again.
CliFails ==
    /\ script.at = "poll" /\ script.tx # Nil
    /\ Fault
    /\ \/ /\ script' = [script EXCEPT !.at = "cli", !.tx = Nil]
          /\ Leave
          /\ UNCHANGED <<balance, normalized>>
       \/ Exit("failed")
    /\ UNCHANGED <<down, moves, requests>>

\* Mutant: no answer in time counts as one.
PollTxOptimistic ==
    /\ script.at = "poll"
    /\ Exit(IF script.tx \in {"ok", "pending"} THEN "normalized" ELSE "reverted")
    /\ UNCHANGED <<down, moves, requests, faults>>

\* The transaction's outcome is known.
PollTx ==
    /\ script.at = "poll" /\ script.tx # "pending"
    /\ Exit(IF script.tx = "ok" THEN "normalized" ELSE "reverted")
    /\ UNCHANGED <<down, moves, requests, faults>>

\* A view fails, no outcome is known in time, or the script is killed.
ScriptFails ==
    /\ script.at # "idle"
    /\ Fault
    /\ Exit("failed")
    /\ UNCHANGED <<down, moves, requests>>

----------------------------------------------------------------------------
(* The coordinator                                                         *)

Received(at) == script.at = at /\ script.req = "sent"

\* Every slot of the roster is asked for its partial decryption.
DecryptRoute(p) ==
    /\ Received("decrypt") /\ Idle(p)
    /\ script' = [script EXCEPT !.req = p]
    /\ Post(p, "decrypt", Slots, script.read)
    /\ UNCHANGED <<chain, down, moves, faults>>

\* Mutant: the last slots with a partial are kept.
Highest(S) == {s \in S : Cardinality({t \in S : t > s}) < Quorum}

\* The lowest ones with a partial are kept.
Kept(S) == Lowest(S)

Valid(p) == {s \in flight[p].slots : Accepted(p, s)}

\* okResults.slice(0, DEOPERATOR_THRESHOLD), or 502 worker_quorum_not_met.
DecryptAnswers(p) ==
    /\ flight[p].open /\ flight[p].op = "decrypt"
    /\ AllAnswered(p)
    /\ Close(p)
    /\ IF script.req # p THEN UNCHANGED <<script, chain>>
       ELSE IF Cardinality(Valid(p)) < Quorum THEN Retry
       ELSE /\ script' = [script EXCEPT !.at = "bundle", !.req = Nil,
                    !.slots = Kept(Valid(p)),
                    !.parts = {call[p][s].got : s \in Kept(Valid(p))}]
            /\ UNCHANGED chain
    /\ UNCHANGED <<down, moves, faults>>

\* The quorum of the response is fixed, and there is an envelope for each.
Fits(slots) == slots = Lowest(Slots)

\* 400 to any other.
SigmaRefused ==
    /\ Received("s0")
    /\ ~Fits(script.slots)
    /\ Exit("failed")
    /\ UNCHANGED <<down, moves, requests, faults>>

SigmaRoute(p) ==
    /\ Received("s0") /\ Idle(p)
    /\ Fits(script.slots)
    /\ script' = [script EXCEPT !.req = p]
    /\ Post(p, "s0", Lowest(Slots), script.slots)
    /\ UNCHANGED <<chain, down, moves, faults>>

\* "Fail closed on any slot error."
Complete(p) == AllAccepted(p)

SigmaAnswers(p) ==
    /\ flight[p].open /\ flight[p].op = "s0"
    /\ AllAnswered(p)
    /\ Close(p)
    /\ IF script.req # p THEN UNCHANGED <<script, chain>>
       ELSE IF ~Complete(p) THEN Retry
       ELSE /\ script' = [script EXCEPT !.at = "verify", !.req = Nil,
                                        !.left = 0, !.sum = Valid(p)]
            /\ UNCHANGED chain
    /\ UNCHANGED <<down, moves, faults>>

\* The script's connection breaks, and the coordinator goes on; or the
\* coordinator has died.
AnswerLost ==
    /\ script.req \in Flights
    /\ IF flight[script.req].open THEN Fault ELSE UNCHANGED faults
    /\ Retry
    /\ UNCHANGED <<down, moves, requests>>

Crash ==
    /\ CoordinatorCrash
    /\ UNCHANGED <<chain, down, script, moves>>

----------------------------------------------------------------------------
(* The workers                                                             *)

\* Mutant: the worker decrypts what it fetched.
MatchesUncompared(p, s) == TRUE

\* The worker fetches the balance itself and compares.
Matches(p, s) == flight[p].arg = balance

BalancePartial(p, s) ==
    /\ At(p, s, "decrypt", "sent") /\ s \notin down
    /\ IF Matches(p, s) THEN Reply(p, s, balance) ELSE Reject(p, s)
    /\ UNCHANGED <<chain, down, script, moves, flight, faults>>

\* Its share of the nonce opens only for the slots it was sealed for.
Opens(p) == flight[p].arg = flight[p].slots

SigmaPartial(p, s) ==
    /\ At(p, s, "s0", "sent") /\ s \notin down
    /\ IF Opens(p) THEN Reply(p, s, s) ELSE Reject(p, s)
    /\ UNCHANGED <<chain, down, script, moves, flight, faults>>

\* The node refuses, or its fullnode does not answer.
Unavailable(p, s) ==
    /\ call[p][s].at = "sent"
    /\ IF s \in down THEN UNCHANGED faults ELSE Fault
    /\ Reject(p, s)
    /\ UNCHANGED <<chain, down, script, moves, flight>>

\* The worker is too slow for the coordinator's timeout.
TimesOut(p, s) ==
    /\ Disconnect(p, s, Waiting)
    /\ UNCHANGED <<chain, down, script, moves>>

----------------------------------------------------------------------------
(* The specification                                                       *)

\* Only deoperators that the fixed quorum does without are down for good.
Init ==
    /\ FanOutInit
    /\ balance = 0 /\ normalized \in BOOLEAN /\ stray = {}
    /\ down \in SUBSET (Slots \ Lowest(Slots))
    /\ script = NoRun
    /\ moves = MaxMoves

ScriptStep ==
    \/ Start \/ IsNormalized \/ FetchAvailable \/ BuildProofBundle
    \/ PreflightVerify \/ RunAptosCli \/ PollTx

CoordinatorStep ==
    \/ SigmaRefused
    \/ \E p \in Flights :
        DecryptRoute(p) \/ DecryptAnswers(p) \/ SigmaRoute(p) \/ SigmaAnswers(p)

WorkerStep == \E p \in Flights, s \in Slots :
    BalancePartial(p, s) \/ SigmaPartial(p, s) \/ Unavailable(p, s)

Next ==
    \/ Withdraw \/ Rollover \/ Execute \/ ExecuteStray
    \/ ScriptStep \/ CliFails \/ ScriptFails
    \/ CoordinatorStep \/ AnswerLost \/ Crash
    \/ WorkerStep
    \/ \E p \in Flights, s \in Slots : TimesOut(p, s)

\* The refresh timer starts runs, everybody goes on with what he has in hand,
\* and the chain executes what is in its mempool.
Spec ==
    /\ Init /\ [][Next]_vars
    /\ WF_vars(ScriptStep) /\ WF_vars(CoordinatorStep) /\ WF_vars(AnswerLost)
    /\ WF_vars(WorkerStep) /\ WF_vars(Execute)

----------------------------------------------------------------------------
(* Properties                                                              *)

\* What the rounds collect fits together.  The partials a proof is built from
\* are all of the balance the script has read, although every worker fetches it
\* at a time of its own and nothing that a worker signs names the balance; and
\* a response verifies, since the slots in it and those the decryption was taken
\* from are the same, whoever failed in one round and not in the other.
RoundsAgree ==
    /\ script.parts \subseteq {script.read}
    /\ script.at = "verify" => Verifies

\* A run that ends well leaves no balance behind that it found unnormalised,
\* whether its transaction, a stray one or a withdrawal came first: the
\* rollover that the caller sends next would abort.
SuccessIsTrue ==
    script.outcome \in {"normalized", "already"} =>
        normalized \/ balance # script.read

\* With the lowest slots up but for passing failures, and whatever else is
\* down, the balance is normalised in the end.
NormalizationFinishes == ~normalized ~> normalized
=============================================================================
