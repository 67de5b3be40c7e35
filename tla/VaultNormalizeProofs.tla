------------------------- MODULE VaultNormalizeProofs --------------------------
(***************************************************************************)
(* What holds of a normalisation, for every roster, quorum and number of   *)
(* attempts: the rounds of the coordinator agree, and a run that ends well *)
(* has left nothing to normalise of what it found.                         *)
(***************************************************************************)
EXTENDS VaultNormalize, FanOutProofs

----------------------------------------------------------------------------
(* The inductive invariant                                                 *)

Ops == {"decrypt", "s0", "none"}
Args == {Nil} \cup Nat \cup SUBSET Slots
Bases == {Nil}
Gots == Nat \cup {Nil}

Steps == {"idle", "gate", "read", "decrypt", "bundle", "s0", "verify", "cli", "poll"}

\* The steps of a run that has read the balance.
HasRead == {"decrypt", "bundle", "s0", "verify", "cli", "poll"}

Runs ==
    [at : Steps, read : Nat \cup {Nil}, slots : SUBSET Slots,
     parts : SUBSET (Nat \cup {Nil}), sum : SUBSET Slots, left : Nat,
     req : Flights \cup {"sent", Nil}, tx : {"pending", "ok", "aborted", Nil},
     outcome : {"normalized", "already", "reverted", "failed", Nil}]

\* What a run claims of the balance b, normalised or not.
RunSound(r, b, n) ==
    /\ r \in Runs
    /\ r.at \in HasRead => r.read \in Nat /\ r.read <= b
    /\ r.tx # Nil => r.at = "poll"
    /\ r.outcome # Nil => r.at = "idle"
    /\ r.tx = "ok" => r.read \in Nat /\ r.read < b
    /\ r.outcome = "normalized" => r.read \in Nat /\ r.read < b
    /\ r.outcome = "already" => r.read \in Nat /\ r.read <= b /\ (n \/ r.read < b)

\* The partials are of the balance it read, a response has had all its parts,
\* and it waits for a route in two of its steps.
RoundsSound(r) ==
    /\ r.parts # {} => r.at = "bundle"
    /\ r.parts \subseteq {r.read}
    /\ r.at = "verify" => r.sum = r.slots
    /\ r.req \in Flights => r.at \in {"decrypt", "s0"}

\* The request it waits for, if it is still open, is the one of that step.
AskedSound(r, f) ==
    r.req \in Flights /\ f[r.req].open =>
        /\ r.at = "decrypt" => f[r.req].op = "decrypt" /\ f[r.req].arg = r.read
        /\ r.at = "s0" => f[r.req].op = "s0" /\ f[r.req].slots = r.slots

\* A partial decryption is of the balance of the request.
CallsSound ==
    \A p \in Flights, s \in Slots :
        flight[p].op = "decrypt" /\ call[p][s].at = "ok" =>
            call[p][s].got = flight[p].arg

Typed ==
    /\ balance \in Nat /\ normalized \in BOOLEAN
    /\ Shaped(Ops, Args, Bases, Gots)

NormInv ==
    /\ Typed
    /\ RunSound(script, balance, normalized)
    /\ RoundsSound(script)
    /\ AskedSound(script, flight)
    /\ CallsSound

----------------------------------------------------------------------------
(* Requests and calls                                                      *)

LEMMA WordsApart ==
    /\ Nil \in Bases /\ Nil \in Gots /\ Nil \in Args /\ "none" \in Ops
    /\ "decrypt" \in Ops /\ "s0" \in Ops
<1>1. Nil \in Bases /\ Nil \in Gots
  BY DEF Bases, Gots
<1>2. Nil \in Args
  BY DEF Args
<1> QED BY <1>1, <1>2 DEF Ops

LEMMA LowestSlots ==
    /\ Lowest(Slots) \in SUBSET Slots
    /\ \A S \in SUBSET Slots : Lowest(S) \in SUBSET Slots
BY DEF Lowest

\* Nothing is asked or answered.
LEMMA CallsCalm ==
    ASSUME CallsSound, Calm
    PROVE  CallsSound'
<1>1. ASSUME NEW p \in Flights, NEW s \in Slots,
             flight'[p].op = "decrypt", call'[p][s].at = "ok"
      PROVE  call'[p][s].got = flight'[p].arg
  <2>1. CASE SameRequest(p) /\ (SameCall(p, s) \/ Ends(p, s))
    BY <1>1, <2>1 DEF SameRequest, SameCall, Ends, CallsSound
  <2>2. CASE flight'[p] = Free
    BY <1>1, <2>2 DEF Free
  <2> QED BY <2>1, <2>2 DEF Calm, CalmAt
<1> QED BY <1>1 DEF CallsSound

\* A run that waits for nobody has asked nothing; one that waits goes on
\* waiting for the same request, or for one that is over.
LEMMA AskedCalm ==
    ASSUME AskedSound(script, flight), Calm, script' = script
    PROVE  AskedSound(script', flight')
<1>1. ASSUME NEW p \in Flights, flight'[p].open
      PROVE  SameRequest(p) /\ flight[p].open
  BY <1>1 DEF Calm, CalmAt, SameRequest, Free
<1> QED BY <1>1 DEF AskedSound, SameRequest

LEMMA RequestsStay ==
    UNCHANGED requests => Calm
BY DEF requests, Calm, CalmAt, SameRequest, SameCall

LEMMA CloseCalm ==
    ASSUME Typed, NEW p \in Flights, Close(p)
    PROVE  Shaped(Ops, Args, Bases, Gots)' /\ Calm
BY CloseShape DEF Typed

----------------------------------------------------------------------------
(* The run                                                                 *)

\* What a run claims stays true when the balance changes, ...
LEMMA RunStays ==
    ASSUME NEW r, NEW b \in Nat, NEW n \in BOOLEAN, NEW m \in BOOLEAN, RunSound(r, b, n)
    PROVE  RunSound(r, b + 1, m)
<1>1. r \in Runs
  BY DEF RunSound
<1>2. r.read \in Nat \cup {Nil}
  BY <1>1 DEF Runs
<1> QED BY <1>1, <1>2 DEF RunSound

\* ... and a run ends well when its transaction has done so.
LEMMA ExitSound ==
    ASSUME Typed, RunSound(script, balance, normalized),
           NEW outcome \in {"normalized", "reverted", "failed"},
           outcome = "normalized" => script.tx = "ok", Exit(outcome)
    PROVE  /\ RunSound(script', balance', normalized') /\ RoundsSound(script')
           /\ script'.req \notin Flights
           /\ balance' = balance /\ normalized' = normalized
<1>1. script \in Runs /\ script.read \in Nat \cup {Nil}
  BY DEF RunSound, Runs
<1>2. PICK b : b = IF outcome = "normalized" THEN script.read ELSE Nil
  OBVIOUS
<1>3. script' = [NoRun EXCEPT !.outcome = outcome, !.read = b]
  BY <1>2 DEF Exit
<1>4. /\ script'.at = "idle" /\ script'.read = b /\ script'.slots = {}
      /\ script'.parts = {} /\ script'.sum = {} /\ script'.left = 0
      /\ script'.req = Nil /\ script'.tx = Nil /\ script'.outcome = outcome
  BY <1>3 DEF NoRun
<1>5. script' \in Runs
  BY <1>1, <1>2, <1>3 DEF NoRun, Runs, Steps
<1>6. RunSound(script', balance, normalized)
  BY <1>1, <1>2, <1>4, <1>5, NormalizeNames DEF RunSound, HasRead
<1>7. RoundsSound(script') /\ script'.req \notin Flights
  BY <1>4, NormalizeNames DEF RoundsSound
<1> QED BY <1>6, <1>7 DEF Exit

\* A run that fails ends, or asks again.
LEMMA RetrySound ==
    ASSUME Typed, RunSound(script, balance, normalized), RoundsSound(script), Retry
    PROVE  /\ RunSound(script', balance', normalized') /\ RoundsSound(script')
           /\ script'.req \notin Flights
           /\ balance' = balance /\ normalized' = normalized
<1>1. CASE script.left > 1 /\ script' = [script EXCEPT !.left = @ - 1, !.req = "sent"]
           /\ UNCHANGED chain
  <2>0. script \in Runs /\ script.left \in Nat
    BY DEF RunSound, Runs
  <2>1. PICK l \in Nat : l = script.left - 1
    BY <1>1, <2>0
  <2>2. script' = [script EXCEPT !.left = l, !.req = "sent"]
    BY <1>1, <2>1
  <2>3. script' \in Runs
    BY <2>0, <2>2 DEF Runs
  <2>4. /\ script'.at = script.at /\ script'.read = script.read
        /\ script'.slots = script.slots /\ script'.parts = script.parts
        /\ script'.sum = script.sum /\ script'.tx = script.tx
        /\ script'.outcome = script.outcome /\ script'.req = "sent"
    BY <2>0, <2>2 DEF Runs
  <2>5. RunSound(script', balance, normalized)
    BY <2>3, <2>4 DEF RunSound
  <2>6. RoundsSound(script') /\ script'.req \notin Flights
    BY <2>4, NormalizeNames DEF RoundsSound
  <2> QED BY <1>1, <2>5, <2>6 DEF chain
<1>2. CASE Exit("failed")
  BY <1>2, ExitSound
<1> QED BY <1>1, <1>2 DEF Retry

----------------------------------------------------------------------------
(* One lemma for each kind of step                                         *)

\* The requests are left alone, and the run asks nothing.
LEMMA QuietKeeps ==
    ASSUME NormInv, Calm, Shaped(Ops, Args, Bases, Gots)',
           balance' \in Nat, normalized' \in BOOLEAN,
           RunSound(script', balance', normalized'), RoundsSound(script'),
           script' = script \/ script'.req \notin Flights
    PROVE  NormInv'
<1>1. AskedSound(script', flight')
  BY AskedCalm DEF AskedSound, NormInv
<1> QED BY <1>1, CallsCalm DEF NormInv, Typed

LEMMA AloneKeeps ==
    ASSUME NormInv, UNCHANGED requests,
           balance' \in Nat, normalized' \in BOOLEAN,
           RunSound(script', balance', normalized'), RoundsSound(script'),
           script' = script \/ script'.req \notin Flights
    PROVE  NormInv'
<1>1. Shaped(Ops, Args, Bases, Gots)'
  BY DEF requests, NormInv, Typed, Shaped
<1> QED BY <1>1, RequestsStay, QuietKeeps

\* The balance changes.
LEMMA BalanceKeeps ==
    ASSUME NormInv, Withdraw \/ Rollover \/ ExecuteStray
    PROVE  NormInv'
<1>1. \E n \in BOOLEAN : Becomes(n)
  BY DEF Withdraw, Rollover, ExecuteStray
<1>2. balance' = balance + 1 /\ normalized' \in BOOLEAN
  BY <1>1 DEF Becomes
<1>3. script' = script /\ UNCHANGED requests
  BY DEF Withdraw, Rollover, ExecuteStray
<1>4. RunSound(script', balance', normalized')
  BY <1>2, <1>3, RunStays DEF NormInv, Typed
<1> QED BY <1>2, <1>3, <1>4, AloneKeeps DEF NormInv, Typed

\* The transaction is executed: the balance moves on from the one it was about.
LEMMA ExecuteKeeps ==
    ASSUME NormInv, Execute
    PROVE  NormInv'
<1>1. script \in Runs /\ script.read \in Nat \cup {Nil} /\ balance \in Nat
  BY DEF NormInv, RunSound, Runs, Typed
<1>0. script.at = "poll" /\ script.tx = "pending"
  BY NormalizeNames DEF Execute, NormInv, RunSound
<1>2. PICK tx \in {"ok", "aborted"} :
        /\ script' = [script EXCEPT !.tx = tx]
        /\ tx = "ok" => Holds(script.read) /\ Becomes(TRUE)
        /\ tx # "ok" => UNCHANGED chain
  BY DEF Execute
<1>3. /\ script'.at = script.at /\ script'.read = script.read
      /\ script'.slots = script.slots /\ script'.parts = script.parts
      /\ script'.sum = script.sum /\ script'.tx = tx
      /\ script'.outcome = script.outcome /\ script'.req = script.req
      /\ script' \in Runs
  BY <1>1, <1>2 DEF Runs
<1>4. RoundsSound(script')
  BY <1>3 DEF RoundsSound, NormInv
<1>5. AskedSound(script', flight')
  BY <1>3 DEF AskedSound, NormInv, Execute, requests
<1>6. RunSound(script', balance', normalized') /\ balance' \in Nat /\ normalized' \in BOOLEAN
  <2>1. CASE tx = "ok"
    <3>1. balance' = balance + 1 /\ normalized' = TRUE /\ script.read = balance
      BY <1>2, <2>1 DEF Becomes, Holds
    <3> QED BY <1>0, <1>1, <1>3, <2>1, <3>1 DEF RunSound, HasRead, NormInv
  <2>2. CASE tx # "ok"
    <3>1. balance' = balance /\ normalized' = normalized
      BY <1>2, <2>2 DEF chain
    <3> QED BY <1>0, <1>1, <1>3, <2>2, <3>1 DEF RunSound, HasRead, NormInv, Typed
  <2> QED BY <2>1, <2>2
<1>7. UNCHANGED requests
  BY DEF Execute
<1>8. Typed'
  BY <1>6, <1>7 DEF Typed, NormInv, requests, Shaped
<1>9. CallsSound'
  BY <1>7, RequestsStay, CallsCalm DEF NormInv
<1> QED BY <1>4, <1>5, <1>6, <1>8, <1>9 DEF NormInv

\* The run takes a step of its own: what it claims of the balance it has seen.
LEMMA ScriptKeeps ==
    ASSUME NormInv, ScriptStep
    PROVE  NormInv'
<1>1. /\ script \in Runs /\ script.read \in Nat \cup {Nil}
      /\ balance \in Nat /\ normalized \in BOOLEAN
      /\ RunSound(script, balance, normalized) /\ RoundsSound(script)
  BY DEF NormInv, RunSound, Runs, Typed
<1>2. UNCHANGED requests
  BY DEF ScriptStep, Start, IsNormalized, FetchAvailable, BuildProofBundle,
     PreflightVerify, RunAptosCli, PollTx
<1>3. ASSUME NEW outcome \in {"normalized", "reverted", "failed"},
             outcome = "normalized" => script.tx = "ok", Exit(outcome)
      PROVE  NormInv'
  BY <1>1, <1>2, <1>3, ExitSound, AloneKeeps DEF NormInv
<1>4. ASSUME balance' = balance, normalized' = normalized, script'.req \notin Flights,
             RunSound(script', balance, normalized), RoundsSound(script')
      PROVE  NormInv'
  BY <1>1, <1>2, <1>4, AloneKeeps
<1>5. CASE Start
  <2>1. script' = [NoRun EXCEPT !.at = "gate"] /\ UNCHANGED chain
    BY <1>5 DEF Start
  <2>2. /\ script' \in Runs /\ script'.at = "gate" /\ script'.parts = {}
        /\ script'.req = Nil /\ script'.tx = Nil /\ script'.outcome = Nil
    BY <2>1 DEF NoRun, Runs, Steps
  <2>3. RunSound(script', balance, normalized)
    BY <2>2, NormalizeNames DEF RunSound, HasRead
  <2>4. RoundsSound(script') /\ script'.req \notin Flights
    BY <2>2, NormalizeNames DEF RoundsSound
  <2> QED BY <1>4, <2>1, <2>3, <2>4 DEF chain
<1>6. CASE IsNormalized
  <2>1. CASE normalized
    <3>1. script' = [NoRun EXCEPT !.outcome = "already", !.read = balance]
          /\ UNCHANGED chain
      BY <1>6, <2>1 DEF IsNormalized
    <3>2. /\ script' \in Runs /\ script'.at = "idle" /\ script'.parts = {}
          /\ script'.req = Nil /\ script'.tx = Nil /\ script'.outcome = "already"
          /\ script'.read = balance
      BY <1>1, <3>1 DEF NoRun, Runs, Steps
    <3> QED BY <1>1, <1>4, <2>1, <3>1, <3>2, NormalizeNames
            DEF RunSound, RoundsSound, HasRead, chain
  <2>2. CASE ~normalized
    <3>1. script.at = "gate" /\ script' = [script EXCEPT !.at = "read"] /\ UNCHANGED chain
      BY <1>6, <2>2 DEF IsNormalized, Go
    <3>2. /\ script' \in Runs /\ script'.at = "read" /\ script'.read = script.read
          /\ script'.parts = script.parts /\ script'.req = script.req
          /\ script'.tx = script.tx /\ script'.outcome = script.outcome
      BY <1>1, <3>1 DEF Runs, Steps
    <3> QED BY <1>1, <1>4, <3>1, <3>2 DEF RunSound, RoundsSound, HasRead, chain
  <2> QED BY <2>1, <2>2
<1>7. CASE FetchAvailable
  <2>1. /\ script.at = "read" /\ UNCHANGED chain
        /\ script' = [script EXCEPT !.at = "decrypt", !.read = balance,
                                    !.left = Attempts, !.req = "sent"]
    BY <1>7 DEF FetchAvailable
  <2>2. /\ script' \in Runs /\ script'.at = "decrypt" /\ script'.read = balance
        /\ script'.parts = script.parts /\ script'.req = "sent"
        /\ script'.tx = script.tx /\ script'.outcome = script.outcome
    BY <1>1, <2>1, VaultNormalizeConstants DEF Runs, Steps
  <2> QED BY <1>1, <1>4, <2>1, <2>2, NormalizeNames
          DEF RunSound, RoundsSound, HasRead, chain
<1>8. CASE BuildProofBundle
  <2>1. CASE Recovered
    <3>1. /\ script.at = "bundle" /\ UNCHANGED chain
          /\ script' = [script EXCEPT !.at = "s0", !.left = Attempts, !.req = "sent",
                                      !.parts = {}]
      BY <1>8, <2>1 DEF BuildProofBundle
    <3>2. /\ script' \in Runs /\ script'.at = "s0" /\ script'.read = script.read
          /\ script'.parts = {} /\ script'.req = "sent"
          /\ script'.tx = script.tx /\ script'.outcome = script.outcome
      BY <1>1, <3>1, VaultNormalizeConstants DEF Runs, Steps
    <3> QED BY <1>1, <1>4, <3>1, <3>2, NormalizeNames
            DEF RunSound, RoundsSound, HasRead, chain
  <2> QED BY <1>3, <1>8, <2>1 DEF BuildProofBundle
<1>9. CASE PreflightVerify
  <2>1. CASE Verifies
    <3>1. /\ script.at = "verify" /\ UNCHANGED chain
          /\ script' = [NoRun EXCEPT !.at = "cli", !.read = script.read]
      BY <1>9, <2>1 DEF PreflightVerify
    <3>2. /\ script' \in Runs /\ script'.at = "cli" /\ script'.read = script.read
          /\ script'.parts = {} /\ script'.req = Nil
          /\ script'.tx = Nil /\ script'.outcome = Nil
      BY <1>1, <3>1 DEF NoRun, Runs, Steps
    <3> QED BY <1>1, <1>4, <3>1, <3>2, NormalizeNames
            DEF RunSound, RoundsSound, HasRead, chain
  <2> QED BY <1>3, <1>9, <2>1 DEF PreflightVerify
<1>10. CASE RunAptosCli
  <2>1. CASE Holds(script.read)
    <3>1. /\ script.at = "cli" /\ UNCHANGED chain
          /\ script' = [script EXCEPT !.at = "poll", !.tx = "pending"]
      BY <1>10, <2>1 DEF RunAptosCli
    <3>2. /\ script' \in Runs /\ script'.at = "poll" /\ script'.read = script.read
          /\ script'.parts = script.parts /\ script'.req = script.req
          /\ script'.tx = "pending" /\ script'.outcome = script.outcome
      BY <1>1, <3>1 DEF Runs, Steps
    <3> QED BY <1>1, <1>4, <3>1, <3>2 DEF RunSound, RoundsSound, HasRead, chain
  <2> QED BY <1>3, <1>10, <2>1 DEF RunAptosCli
<1>11. CASE PollTx
  BY <1>3, <1>11 DEF PollTx
<1> QED BY <1>5, <1>6, <1>7, <1>8, <1>9, <1>10, <1>11 DEF ScriptStep

\* The CLI or the script fails, or no answer comes.
LEMMA ScriptFailsKeeps ==
    ASSUME NormInv, CliFails \/ ScriptFails \/ AnswerLost \/ SigmaRefused
    PROVE  NormInv'
<1>1. /\ RunSound(script, balance, normalized) /\ RoundsSound(script) /\ Typed
      /\ script \in Runs /\ balance \in Nat /\ normalized \in BOOLEAN
  BY DEF NormInv, RunSound, Typed
<1>2. UNCHANGED requests
  BY DEF CliFails, ScriptFails, AnswerLost, SigmaRefused
<1>3. CASE Exit("failed")
  BY <1>1, <1>2, <1>3, ExitSound, AloneKeeps
<1>4. CASE Retry
  BY <1>1, <1>2, <1>4, RetrySound, AloneKeeps
<1>5. CASE /\ script.at = "poll" /\ script' = [script EXCEPT !.at = "cli", !.tx = Nil]
           /\ UNCHANGED <<balance, normalized>>
  <2>1. /\ script' \in Runs /\ script'.at = "cli" /\ script'.read = script.read
        /\ script'.parts = script.parts /\ script'.req = script.req
        /\ script'.tx = Nil /\ script'.outcome = script.outcome
    BY <1>1, <1>5 DEF Runs, Steps
  <2>2. RunSound(script', balance, normalized)
    BY <1>1, <1>5, <2>1, NormalizeNames DEF RunSound, HasRead
  <2>3. RoundsSound(script') /\ script'.req \notin Flights
    BY <1>1, <1>5, <2>1 DEF RoundsSound
  <2> QED BY <1>1, <1>2, <1>5, <2>2, <2>3, AloneKeeps
<1> QED BY <1>3, <1>4, <1>5 DEF CliFails, ScriptFails, AnswerLost, SigmaRefused

\* A request is posted for the run, which waits for it.
LEMMA PostKeeps ==
    ASSUME NormInv, NEW p \in Flights, NEW op \in {"decrypt", "s0"},
           NEW S \in SUBSET Slots, NEW arg \in Args, Post(p, op, S, arg),
           script.at = op, script' = [script EXCEPT !.req = p], UNCHANGED chain,
           op = "decrypt" => arg = script.read,
           op = "s0" => S = script.slots
    PROVE  NormInv'
<1>1. op \in Ops /\ Shaped(Ops, Args, Bases, Gots) /\ script \in Runs
  BY WordsApart DEF NormInv, Typed, RunSound
<1>2. /\ Shaped(Ops, Args, Bases, Gots)'
      /\ \A q \in Flights \ {p} : flight'[q] = flight[q] /\ call'[q] = call[q]
      /\ flight'[p].op = op /\ flight'[p].slots = S /\ flight'[p].arg = arg
      /\ \A s \in Slots : call'[p][s] = IF s \in S THEN Sent ELSE Unsent
  BY <1>1, PostShape
<1>3. /\ script' \in Runs /\ script'.at = op /\ script'.read = script.read
      /\ script'.slots = script.slots /\ script'.parts = script.parts
      /\ script'.sum = script.sum /\ script'.req = p /\ script'.tx = script.tx
      /\ script'.outcome = script.outcome
  BY <1>1 DEF Runs
<1>4. Typed'
  BY <1>2 DEF Typed, NormInv, chain
<1>5. RunSound(script', balance', normalized')
  BY <1>3 DEF RunSound, NormInv, chain
<1>6. RoundsSound(script')
  BY <1>3 DEF RoundsSound, NormInv
<1>7. AskedSound(script', flight')
  BY <1>2, <1>3 DEF AskedSound
<1>8. CallsSound'
  <2>1. \A s \in Slots : call'[p][s].at \in {"sent", "none"}
    BY <1>2 DEF Sent, Unsent
  <2> QED BY <1>2, <2>1 DEF CallsSound, NormInv
<1> QED BY <1>4, <1>5, <1>6, <1>7, <1>8 DEF NormInv

LEMMA RouteKeeps ==
    ASSUME NormInv, NEW p \in Flights, DecryptRoute(p) \/ SigmaRoute(p)
    PROVE  NormInv'
<1>1. script \in Runs /\ (script.at = "decrypt" => script.read \in Nat)
  BY DEF NormInv, RunSound, HasRead
<1>2. CASE DecryptRoute(p)
  <2>1. script.at = "decrypt" /\ script.read \in Args /\ Slots \in SUBSET Slots
    BY <1>1, <1>2 DEF DecryptRoute, Received, Args
  <2> QED BY <1>2, <2>1, PostKeeps DEF DecryptRoute
<1>3. CASE SigmaRoute(p)
  <2>1. script.at = "s0" /\ script.slots \in Args /\ script.slots = Lowest(Slots)
    BY <1>1, <1>3 DEF SigmaRoute, Received, Fits, Runs, Args
  <2> QED BY <1>3, <2>1, LowestSlots, PostKeeps DEF SigmaRoute
<1> QED BY <1>2, <1>3

\* The coordinator answers: the run goes on with what all its workers gave it.
LEMMA AnswersKeeps ==
    ASSUME NormInv, NEW p \in Flights, DecryptAnswers(p) \/ SigmaAnswers(p)
    PROVE  NormInv'
<1>1. /\ RunSound(script, balance, normalized) /\ RoundsSound(script)
      /\ AskedSound(script, flight) /\ Typed
      /\ script \in Runs /\ balance \in Nat /\ normalized \in BOOLEAN
  BY DEF NormInv, RunSound, Typed
<1>2. Close(p) /\ flight[p].open /\ AllAnswered(p)
  BY DEF DecryptAnswers, SigmaAnswers
<1>3. Shaped(Ops, Args, Bases, Gots)' /\ Calm
  BY <1>1, <1>2, CloseCalm
<1>4. CASE UNCHANGED <<script, chain>>
  BY <1>1, <1>3, <1>4, QuietKeeps DEF chain
<1>5. CASE Retry
  BY <1>1, <1>3, <1>5, RetrySound, QuietKeeps
<1>6. ASSUME balance' = balance, normalized' = normalized, script'.req \notin Flights,
             RunSound(script', balance, normalized), RoundsSound(script')
      PROVE  NormInv'
  BY <1>1, <1>3, <1>6, QuietKeeps
<1>7. CASE DecryptAnswers(p) /\ script.req = p
  <2>1. flight[p].op = "decrypt" /\ script.at = "decrypt" /\ flight[p].arg = script.read
    BY <1>1, <1>2, <1>7 DEF DecryptAnswers, AskedSound, RoundsSound
  <2>2. CASE script' = [script EXCEPT !.at = "bundle", !.req = Nil,
                          !.slots = Kept(Valid(p)),
                          !.parts = {call[p][s].got : s \in Kept(Valid(p))}]
             /\ UNCHANGED chain
    <3>1. PICK parts : parts = {call[p][s].got : s \in Kept(Valid(p))}
      OBVIOUS
    <3>2. PICK S : S = Kept(Valid(p))
      OBVIOUS
    <3>3. Valid(p) \in SUBSET Slots
      BY <1>1 DEF Valid, Typed, Shaped, Requests
    <3>4. S \in SUBSET Slots /\ S \subseteq Valid(p)
      BY <3>2, <3>3 DEF Kept, Lowest
    <3>5. \A s \in S : call[p][s].got = script.read
      BY <2>1, <3>3, <3>4 DEF Valid, Accepted, NormInv, CallsSound
    <3>6. parts \subseteq {script.read}
      BY <3>1, <3>2, <3>5
    <3>7. script.read \in Nat
      BY <1>1, <2>1 DEF RunSound, HasRead
    <3>8. script' = [script EXCEPT !.at = "bundle", !.req = Nil, !.slots = S,
                                   !.parts = parts]
      BY <2>2, <3>1, <3>2
    <3>9. parts \in SUBSET (Nat \cup {Nil})
      BY <3>6, <3>7
    <3>10. /\ script' \in Runs /\ script'.at = "bundle" /\ script'.read = script.read
           /\ script'.parts = parts /\ script'.req = Nil
           /\ script'.tx = script.tx /\ script'.outcome = script.outcome
      BY <1>1, <3>4, <3>8, <3>9 DEF Runs, Steps
    <3>11. RunSound(script', balance, normalized)
      BY <1>1, <2>1, <3>10 DEF RunSound, HasRead
    <3>12. RoundsSound(script') /\ script'.req \notin Flights
      BY <3>6, <3>10, NormalizeNames DEF RoundsSound
    <3> QED BY <1>6, <2>2, <3>11, <3>12 DEF chain
  <2> QED BY <1>5, <1>7, <2>2 DEF DecryptAnswers
<1>8. CASE SigmaAnswers(p) /\ script.req = p
  <2>1. flight[p].op = "s0" /\ script.at = "s0" /\ flight[p].slots = script.slots
    BY <1>1, <1>2, <1>8 DEF SigmaAnswers, AskedSound, RoundsSound
  <2>2. CASE Complete(p) /\ UNCHANGED chain
             /\ script' = [script EXCEPT !.at = "verify", !.req = Nil,
                                         !.left = 0, !.sum = Valid(p)]
    <3>1. Valid(p) = script.slots
      BY <2>1, <2>2 DEF Valid, Complete, AllAccepted
    <3>2. /\ script' \in Runs /\ script'.at = "verify" /\ script'.read = script.read
          /\ script'.parts = script.parts /\ script'.req = Nil
          /\ script'.slots = script.slots /\ script'.sum = script.slots
          /\ script'.tx = script.tx /\ script'.outcome = script.outcome
      BY <1>1, <2>2, <3>1 DEF Runs, Steps
    <3>3. RunSound(script', balance, normalized)
      BY <1>1, <2>1, <3>2 DEF RunSound, HasRead
    <3>4. RoundsSound(script') /\ script'.req \notin Flights
      BY <1>1, <2>1, <3>2, NormalizeNames DEF RoundsSound
    <3> QED BY <1>6, <2>2, <3>3, <3>4 DEF chain
  <2> QED BY <1>5, <1>8, <2>2 DEF SigmaAnswers
<1> QED BY <1>4, <1>7, <1>8 DEF DecryptAnswers, SigmaAnswers

\* A worker answers: a partial is of the balance the request names.
LEMMA WorkerKeeps ==
    ASSUME NormInv, WorkerStep
    PROVE  NormInv'
<1>1. PICK p \in Flights, s \in Slots :
        BalancePartial(p, s) \/ SigmaPartial(p, s) \/ Unavailable(p, s)
  BY DEF WorkerStep
<1>2. UNCHANGED <<chain, script, flight>> /\ Shaped(Ops, Args, Bases, Gots)
  BY <1>1 DEF BalancePartial, SigmaPartial, Unavailable, NormInv, Typed
<1>3. \E step \in {"ok", "err"}, got \in Gots :
        /\ Move(p, s, step, Nil, got)
        /\ flight[p].op = "decrypt" /\ step = "ok" => got = flight[p].arg
  <2>1. balance \in Gots /\ s \in Gots /\ Nil \in Gots
    BY VaultNormalizeConstants DEF Gots, NormInv, Typed
  <2>2. CASE BalancePartial(p, s) /\ Matches(p, s)
    BY <2>1, <2>2 DEF BalancePartial, Matches, Reply
  <2>3. CASE SigmaPartial(p, s) /\ Opens(p)
    BY <2>1, <2>3 DEF SigmaPartial, At, Reply
  <2>4. CASE Reject(p, s)
    BY <2>1, <2>4 DEF Reject
  <2> QED BY <1>1, <2>2, <2>3, <2>4 DEF BalancePartial, SigmaPartial, Unavailable
<1>4. PICK step \in {"ok", "err"}, got \in Gots :
        /\ Move(p, s, step, Nil, got)
        /\ flight[p].op = "decrypt" /\ step = "ok" => got = flight[p].arg
  BY <1>3
<1>5. step \in Ats /\ Nil \in Bases
  BY AtsOf DEF Bases
<1>6. /\ Shaped(Ops, Args, Bases, Gots)'
      /\ \A q \in Flights, t \in Slots : (q # p \/ t # s) => call'[q][t] = call[q][t]
      /\ \/ call'[p][s] = Unsent
         \/ call'[p][s].at = step /\ call'[p][s].base = Nil /\ call'[p][s].got = got
  BY <1>2, <1>4, <1>5, MoveShape
<1>7. CallsSound'
  <2>1. call'[p][s].at = "ok" => call'[p][s].got = got /\ step = "ok"
    BY <1>6 DEF Unsent
  <2> QED BY <1>2, <1>4, <1>6, <2>1 DEF CallsSound, NormInv
<1>8. Typed' /\ RunSound(script', balance', normalized') /\ RoundsSound(script')
  BY <1>2, <1>6 DEF Typed, NormInv, chain
<1>9. AskedSound(script', flight')
  BY <1>2 DEF NormInv
<1> QED BY <1>7, <1>8, <1>9 DEF NormInv

\* A call or the coordinator is given up.
LEMMA FailureKeeps ==
    ASSUME NormInv, Crash \/ \E p \in Flights, s \in Slots : TimesOut(p, s)
    PROVE  NormInv'
<1>1. UNCHANGED <<chain, script>>
  BY DEF Crash, TimesOut
<1>2. Shaped(Ops, Args, Bases, Gots)' /\ Calm
  BY RestartShape, DisconnectShape DEF Crash, CoordinatorCrash, TimesOut, NormInv, Typed
<1> QED BY <1>1, <1>2, QuietKeeps DEF chain, NormInv, Typed

LEMMA NormInductive ==
    NormInv /\ [Next]_vars => NormInv'
<1> SUFFICES ASSUME NormInv, [Next]_vars PROVE NormInv'
  OBVIOUS
<1>1. CASE UNCHANGED vars
  BY <1>1, AloneKeeps DEF vars, chain, NormInv, Typed
<1>2. CASE CoordinatorStep
  BY <1>2, ScriptFailsKeeps, RouteKeeps, AnswersKeeps DEF CoordinatorStep
<1> QED BY <1>1, <1>2, BalanceKeeps, ExecuteKeeps, ScriptKeeps, ScriptFailsKeeps,
           WorkerKeeps, FailureKeeps DEF Next

LEMMA NormInit ==
    Init => NormInv
<1> SUFFICES ASSUME Init PROVE NormInv
  OBVIOUS
<1>1. /\ Shaped(Ops, Args, Bases, Gots)
      /\ \A p \in Flights : flight[p].op = "none"
  BY WordsApart, InitShape DEF Init
<1>2. /\ script.at = "idle" /\ script.parts = {} /\ script.req = Nil /\ script.tx = Nil
      /\ script.outcome = Nil
  BY DEF Init, NoRun
<1>3. script \in Runs
  BY DEF Init, NoRun, Runs, Steps
<1>4. RunSound(script, balance, normalized)
  BY <1>2, <1>3, NormalizeNames DEF RunSound, HasRead
<1>5. RoundsSound(script) /\ AskedSound(script, flight)
  BY <1>2, NormalizeNames DEF RoundsSound, AskedSound
<1>6. CallsSound
  BY <1>1 DEF CallsSound
<1> QED BY <1>1, <1>4, <1>5, <1>6 DEF NormInv, Typed, Init

----------------------------------------------------------------------------
(* The theorems                                                            *)

\* Whoever fails or is late in one round and not in the other, and whatever the
\* balance becomes meanwhile: the partials a proof is built from are of one
\* balance, and a response that is verified is good
\* (/v2/balance/decrypt and /v2/normalize/sigma/s0 of the coordinator).
THEOREM TheRoundsAgree ==
    Spec => []RoundsAgree
<1>1. NormInv => RoundsAgree
  BY DEF NormInv, RoundsSound, RoundsAgree, Verifies
<1> QED BY <1>1, NormInit, NormInductive, PTL DEF Spec

\* A run that ends well has not left behind, unnormalised, the balance it found
\* (local_v2_normalize_full.mjs).
THEOREM SuccessTellsTheTruth ==
    Spec => []SuccessIsTrue
<1>1. NormInv => SuccessIsTrue
  BY DEF NormInv, RunSound, SuccessIsTrue, Typed
<1> QED BY <1>1, NormInit, NormInductive, PTL DEF Spec
=============================================================================
