---------------------------- MODULE RelayerProofs ----------------------------
(***************************************************************************)
(* The relayer's withdrawal route, for every value of the constants: it    *)
(* drives the bridge and nothing else, and its answers and its journal say *)
(* only what the chain shows, through crashes and lost answers.            *)
(***************************************************************************)
EXTENDS Relayer, EunomaBridgeProofs

----------------------------------------------------------------------------
(* Requests                                                                *)

EntryNames ==
    {"proof", "attestation", "payload", "conservation", "step2a", "step2b"}

Jobs ==
    [request : Requests, next : 1 .. 7, stage : {"ready", "sent", "answered"},
     attempts : Nat,
     answer : {"none", "hash", "pending", "spent", "abort", "retryable", "failed"}]

\* The last entry of every withdrawal is step2b, and the one before step2a.
LEMMA StepsOfRequest ==
    ASSUME NEW r
    PROVE  /\ Len(Steps(r)) \in {5, 6}
           /\ \A n \in 1 .. Len(Steps(r)) :
                 /\ Steps(r)[n] \in EntryNames
                 /\ n = Len(Steps(r)) <=> Steps(r)[n] = "step2b"
                 /\ n = Len(Steps(r)) - 1 <=> Steps(r)[n] = "step2a"
<1>1. CASE r.w.change = None
  BY <1>1 DEF Steps, EntryNames
<1>2. CASE r.w.change # None
  BY <1>2 DEF Steps, EntryNames
<1> QED BY <1>1, <1>2

\* The parts of a request.
LEMMA RequestParts ==
    ASSUME NEW r \in Requests
    PROVE  /\ r.w \in WithdrawIntents /\ r.root \in Nat /\ r.set \in AspSets
           /\ r.sequence \in Nat /\ HashOf(r)[4] = r.sequence
BY DEF Requests, HashOf, RequestHash

\* Two requests with one hash name one recipient, one asset and one sequence.
LEMMA SameHash ==
    ASSUME NEW r \in Requests, NEW q \in Requests, HashOf(r) = HashOf(q)
    PROVE  r.w.recipient = q.w.recipient /\ r.sequence = q.sequence
BY DEF HashOf, RequestHash

----------------------------------------------------------------------------
(* What the chain shows of a completed step                                *)

\* The trace of the n-th entry of a request: the row of step2a, the exit of
\* step2b.
Evidence(r, n) ==
    OwnsHash(r) =>
        /\ n = Len(Steps(r)) => Settled(r)
        /\ n = Len(Steps(r)) - 1 =>
              RowOf(r) \in DOMAIN finalizations \/ Settled(r)

\* The first n entries of a request are done.
Backed(r, n) ==
    OwnsHash(r) => n = 0 \/ (n \in 1 .. Len(Steps(r)) /\ Evidence(r, n))

\* A finalization row is the one of a request that was posted: in this world
\* only the relayer runs step2a.
RowsArePosted ==
    \A k \in DOMAIN finalizations :
        \E q \in Posted :
            k = RowOf(q) /\ RowIsFor(finalizations[k], HashOf(q), q.w)

\* What the proofs below need to know of the bridge.
BridgeInv == TypeOK /\ ExitInvariant /\ RowsArePosted

LEMMA BridgeInvInit == RelayerInit => BridgeInv
BY InitTypes, ExitInvariantInit DEF RelayerInit, Init, RowsArePosted, BridgeInv

\* An exit that settled stays settled.
LEMMA SettledStays ==
    ASSUME BridgeInv, [Next]_vars, NEW r \in Requests, Settled(r)
    PROVE  Settled(r)'
<1>1. r.sequence \in Nat /\ r.sequence + 1 \in 1 .. Len(exit_log)
  BY ExitsStay, RequestParts DEF Settled, BridgeInv
<1> QED BY <1>1, ExitsStay DEF Settled, BridgeInv

\* A row that closes has settled the request that owns its hash.
LEMMA ClosedRowSettles ==
    ASSUME BridgeInv, NEW r \in Requests, OwnsHash(r), ClosesRow(RowOf(r))
    PROVE  Settled(r)'
<1> DEFINE row == finalizations[RowOf(r)]
           exit == [kind |-> "withdraw", note |-> row.nullifier,
                    recipient |-> row.recipient, change |-> row.change,
                    sequence |-> row.sequence]
<1>1. /\ RowOf(r) \in DOMAIN finalizations
      /\ vault_sequence = row.sequence
      /\ exit_log' = Append(exit_log, exit)
  BY DEF ClosesRow, LogExit
<1>2. PICK q \in Posted : RowOf(r) = RowOf(q) /\ RowIsFor(row, HashOf(q), q.w)
  BY <1>1 DEF BridgeInv, RowsArePosted
<1>3. /\ HashOf(q) = HashOf(r) /\ q.w.recipient = r.w.recipient
      /\ row.sequence = r.sequence
  BY <1>2 DEF RowOf, RowIsFor, HashOf, RequestHash
<1>4. q.w.note = r.w.note /\ q.w.change = r.w.change
  BY <1>3 DEF OwnsHash
<1>5. exit = [kind |-> "withdraw", note |-> r.w.note,
              recipient |-> r.w.recipient, change |-> r.w.change,
              sequence |-> r.sequence]
  BY <1>2, <1>3, <1>4 DEF RowIsFor
<1>6. Len(exit_log) = r.sequence /\ exit_log \in Seq(Exits)
  BY <1>1, <1>3
     DEF BridgeInv, ExitInvariant, ExitsAreSequenced, TypeOK, CoreTypeOK
<1> HIDE DEF exit
<1>7. Len(exit_log') > r.sequence /\ exit_log'[r.sequence + 1] = exit
  BY <1>1, <1>6, RequestParts
<1> QED BY <1>5, <1>7 DEF Settled

\* Whatever the bridge does next, a completed step stays visible: the row of
\* step2a only goes when it settles.
LEMMA EvidenceStays ==
    ASSUME BridgeInv, [Next]_vars, Posted \subseteq Posted',
           NEW r \in Requests, NEW n, Evidence(r, n)
    PROVE  Evidence(r, n)'
<1>0. OwnsHash(r)' => OwnsHash(r)
  BY DEF OwnsHash, HashOf
<1>1. Settled(r) => Settled(r)'
  BY SettledStays
<1>2. ASSUME RowOf(r) \in DOMAIN finalizations, OwnsHash(r)
      PROVE  (RowOf(r) \in DOMAIN finalizations \/ Settled(r))'
  <2>1. CASE UNCHANGED finalizations
    BY <1>2, <2>1 DEF RowOf
  <2>2. ASSUME NEW key, OpensRow(key) PROVE RowOf(r) \in DOMAIN finalizations'
    BY <1>2, <2>2 DEF OpensRow, Put
  <2>3. ASSUME NEW key, ClosesRow(key)
        PROVE  RowOf(r) \in DOMAIN finalizations' \/ Settled(r)'
    <3>1. CASE key = RowOf(r)
      BY <1>2, <2>3, <3>1, ClosedRowSettles
    <3>2. CASE key # RowOf(r)
      BY <1>2, <2>3, <3>2 DEF ClosesRow, Remove
    <3> QED BY <3>1, <3>2
  <2> QED BY <2>1, <2>2, <2>3, StepFinalizations DEF BridgeInv
<1> QED BY <1>0, <1>1, <1>2 DEF Evidence

\* The transaction of an entry is a step of the bridge and leaves its trace.
LEMMA LandsIsNext ==
    ASSUME BridgeInv, NEW r \in Requests, r.sequence <= vault_sequence,
           NEW entry \in EntryNames, Lands(r, entry)
    PROVE  Next
<1> USE RequestParts, RelayerConstants DEF EntryNames
<1>0. vault_sequence \in Nat
  BY DEF BridgeInv, TypeOK, CoreTypeOK
<1>1. CASE entry = "proof"
  <2>1. PrepareWithdrawProof(r.w, r.root, r.set)
    BY <1>1 DEF Lands
  <2>2. r.root \in known_roots
    BY <2>1 DEF PrepareWithdrawProof, Spendable
  <2> QED BY <2>1, <2>2 DEF Next, WithdrawStep
<1>2. CASE entry = "attestation"
  <2>1. PrepareWithdrawAttestation(r.w, r.root)
    BY <1>2 DEF Lands
  <2>2. r.root \in known_roots
    BY <2>1 DEF PrepareWithdrawAttestation, Spendable
  <2> QED BY <2>1, <2>2 DEF Next, WithdrawStep
<1>3. CASE entry = "payload"
  <2>1. HashOf(r) \in DOMAIN proofs /\ PrepareWithdrawPayload(HashOf(r))
    BY <1>3 DEF Lands
  <2> QED BY <2>1 DEF Next, WithdrawStep
<1>4. CASE entry = "conservation"
  <2>1. PrepareWithdrawConservation(r.w, r.sequence)
    BY <1>4 DEF Lands
  <2>2. r.sequence \in 0 .. vault_sequence
    BY <1>0
  <2> QED BY <2>1, <2>2 DEF Next, WithdrawStep
<1>5. CASE entry = "step2a"
  <2>1. WithdrawStep2a(Relayer, r.w, r.root)
    BY <1>5 DEF Lands
  <2>2. r.root \in known_roots
    BY <2>1 DEF WithdrawStep2a, Step2aVerified, Spendable
  <2> QED BY <2>1, <2>2 DEF Next, WithdrawStep
<1>6. CASE entry = "step2b"
  <2>1. WithdrawStep2b(Relayer, HashOf(r))
    BY <1>6 DEF Lands
  <2>2. HashOf(r) \in {k[2] : k \in DOMAIN finalizations}
    BY <2>1 DEF WithdrawStep2b
  <2> QED BY <2>1, <2>2 DEF Next, WithdrawStep
<1> QED BY <1>1, <1>2, <1>3, <1>4, <1>5, <1>6

LEMMA LandsLeavesEvidence ==
    ASSUME BridgeInv, Posted \subseteq Posted',
           NEW r \in Requests, NEW n \in 1 .. Len(Steps(r)),
           Lands(r, Steps(r)[n])
    PROVE  Evidence(r, n)'
<1>0. OwnsHash(r)' => OwnsHash(r)
  BY DEF OwnsHash, HashOf
<1>1. CASE Steps(r)[n] = "step2b"
  <2>1. WithdrawStep2b(Relayer, HashOf(r))
    BY <1>1 DEF Lands
  <2>2. ClosesRow(RowOf(r))
    BY <2>1 DEF WithdrawStep2b, ClosesRow, RowOf, Settles, Spend
  <2>3. OwnsHash(r)' => Settled(r)'
    BY <1>0, <2>2, ClosedRowSettles
  <2> QED BY <2>3 DEF Evidence
<1>2. CASE Steps(r)[n] = "step2a"
  <2>1. r.sequence = vault_sequence /\ WithdrawStep2a(Relayer, r.w, r.root)
    BY <1>2 DEF Lands
  <2>2. RowOf(r) \in DOMAIN finalizations'
    BY <2>1 DEF WithdrawStep2a, Put, RowOf, HashOf
  <2>3. n # Len(Steps(r))
    BY <1>2, StepsOfRequest
  <2> QED BY <2>2, <2>3 DEF Evidence
<1>3. CASE Steps(r)[n] \notin {"step2a", "step2b"}
  <2>1. n # Len(Steps(r)) /\ n # Len(Steps(r)) - 1
    BY <1>3, StepsOfRequest
  <2> QED BY <2>1 DEF Evidence
<1> QED BY <1>1, <1>2, <1>3

\* An abort the relayer takes for work already done: the trace is there.
LEMMA PendingHasEvidence ==
    ASSUME NEW r \in Requests, NEW n \in 1 .. Len(Steps(r)),
           AbortsPending(r, Steps(r)[n])
    PROVE  Evidence(r, n)
<1>1. Steps(r)[n] # "step2b"
  BY DEF AbortsPending
<1>2. Steps(r)[n] = "step2a" => RowOf(r) \in DOMAIN finalizations
  BY DEF AbortsPending
<1> QED BY <1>1, <1>2, StepsOfRequest DEF Evidence

----------------------------------------------------------------------------
(* The invariant of the route                                              *)

\* A handler has done the entries before its next one, and its last answer is
\* justified.
JobOK(j) ==
    /\ j.request.sequence <= vault_sequence
    /\ Backed(j.request, j.next - 1)
    /\ j.stage # "ready" => j.next <= Len(Steps(j.request))
    /\ j.stage = "answered" =>
          /\ j.answer \in {"hash", "pending"} => Evidence(j.request, j.next)
          /\ j.answer = "spent" => j.request.w.note \in used_nullifiers

QueueOK ==
    /\ queue \in Seq(Jobs)
    /\ \A i \in 1 .. Len(queue) : JobOK(queue[i])

\* Only the first handler has passed its intent, which mended the file.
OnlyHeadRuns ==
    /\ \A i \in 2 .. Len(queue) : queue[i].stage = "ready"
    /\ queue # <<>> /\ queue[1].stage # "ready" => ~torn

\* What is on the file is in the index, and what is in the index is on the
\* chain.
JournalOK ==
    /\ lines \cup cut \subseteq index
    /\ \A done \in index : done[2] \in 1 .. 6
    /\ \A r \in Requests : \A n : <<HashOf(r), n>> \in index => Backed(r, n)

RepliesOK ==
    \A reply \in replies :
        /\ reply[1] \in Requests
        /\ reply[1].sequence <= vault_sequence
        /\ reply[2] = "202" /\ OwnsHash(reply[1]) => Settled(reply[1])
        /\ reply[2] = "409" => reply[1].w.note \in used_nullifiers

RouteInv == QueueOK /\ OnlyHeadRuns /\ JournalOK /\ RepliesOK

\* Whatever comes next, entries that are done stay done.
LEMMA BackedStays ==
    ASSUME BridgeInv, [Next]_vars, Posted \subseteq Posted',
           NEW r \in Requests, NEW n, Backed(r, n)
    PROVE  Backed(r, n)'
<1>1. OwnsHash(r)' => OwnsHash(r)
  BY DEF OwnsHash, HashOf
<1>2. Evidence(r, n) => Evidence(r, n)'
  BY EvidenceStays
<1>3. Steps(r)' = Steps(r)
  BY DEF Steps
<1> QED BY <1>1, <1>2, <1>3 DEF Backed

\* Steps of the bridge keep a handler justified.
LEMMA JobStays ==
    ASSUME BridgeInv, [Next]_vars, Posted \subseteq Posted',
           NEW j \in Jobs, JobOK(j)
    PROVE  JobOK(j)'
<1>1. j.request \in Requests /\ j.request.sequence \in Nat
  BY RequestParts DEF Jobs
<1>2. j.request.sequence <= vault_sequence'
  BY <1>1, SpendAdvances DEF JobOK, BridgeInv, ExitsUnchanged
<1>3. used_nullifiers \subseteq used_nullifiers'
  BY ExitsStay DEF BridgeInv
<1>4. \A n : Evidence(j.request, n) => Evidence(j.request, n)'
  BY <1>1, EvidenceStays
<1>5. Backed(j.request, j.next - 1)'
  <2>1. PICK r \in Requests : r = j.request
    BY <1>1
  <2>2. PICK n : n = j.next - 1
    OBVIOUS
  <2>3. Backed(r, n)'
    BY <2>1, <2>2, BackedStays DEF JobOK
  <2> QED BY <2>1, <2>2, <2>3 DEF Backed, Evidence, OwnsHash, HashOf, Steps
<1> QED BY <1>2, <1>3, <1>4, <1>5 DEF JobOK

LEMMA QueueStays ==
    ASSUME BridgeInv, [Next]_vars, Posted \subseteq Posted',
           QueueOK, UNCHANGED queue
    PROVE  QueueOK'
<1>1. ASSUME NEW i \in 1 .. Len(queue) PROVE JobOK(queue[i])'
  <2>1. PICK j \in Jobs : j = queue[i]
    BY DEF QueueOK
  <2>2. JobOK(j)
    BY <2>1 DEF QueueOK
  <2>3. JobOK(j)'
    BY <2>2, JobStays
  <2>4. queue'[i] = j
    BY <2>1
  <2> QED BY <2>3, <2>4 DEF JobOK
<1> QED BY <1>1 DEF QueueOK

LEMMA RepliesStay ==
    ASSUME BridgeInv, [Next]_vars, Posted \subseteq Posted',
           RepliesOK, UNCHANGED replies
    PROVE  RepliesOK'
<1>1. ASSUME NEW reply \in replies
      PROVE  /\ reply[1].sequence <= vault_sequence'
             /\ reply[2] = "202" /\ OwnsHash(reply[1])' => Settled(reply[1])'
             /\ reply[2] = "409" => reply[1].w.note \in used_nullifiers'
  <2>1. reply[1] \in Requests /\ reply[1].sequence \in Nat
        /\ reply[1].sequence <= vault_sequence
    BY RequestParts DEF RepliesOK
  <2>2. reply[1].sequence <= vault_sequence'
    BY <2>1, SpendAdvances DEF BridgeInv, ExitsUnchanged
  <2>3. reply[2] = "202" /\ OwnsHash(reply[1])' => Settled(reply[1])'
    BY <2>1, SettledStays DEF RepliesOK, OwnsHash, HashOf
  <2>4. used_nullifiers \subseteq used_nullifiers'
    BY ExitsStay DEF BridgeInv
  <2> QED BY <2>2, <2>3, <2>4 DEF RepliesOK
<1> QED BY <1>1 DEF RepliesOK

LEMMA JournalStays ==
    ASSUME BridgeInv, [Next]_vars, Posted \subseteq Posted',
           JournalOK,
           index' \subseteq index, lines' \cup cut' \subseteq index'
    PROVE  JournalOK'
<1>1. \A r \in Requests : \A n : Backed(r, n) => Backed(r, n)'
  BY BackedStays
<1> QED BY <1>1 DEF JournalOK, HashOf

\* The running handler changes; the others wait.
LEMMA HeadChanges ==
    ASSUME BridgeInv, [Next]_vars, Posted \subseteq Posted',
           QueueOK, OnlyHeadRuns, queue # <<>>,
           NEW j \in Jobs, JobOK(j)', queue' = [queue EXCEPT ![1] = j]
    PROVE  /\ QueueOK'
           /\ \A i \in 2 .. Len(queue') : queue'[i].stage = "ready"
           /\ queue' # <<>> /\ queue'[1] = j
<1>1. /\ queue' \in Seq(Jobs) /\ Len(queue') = Len(queue) /\ Len(queue) \in Nat
      /\ queue'[1] = j /\ queue' # <<>>
      /\ \A i \in 2 .. Len(queue) : queue'[i] = queue[i]
  BY DEF QueueOK
<1>2. ASSUME NEW i \in 2 .. Len(queue) PROVE JobOK(queue[i])'
  <2>1. PICK k \in Jobs : k = queue[i]
    BY <1>1 DEF QueueOK
  <2>2. JobOK(k)'
    BY <1>1, <2>1, JobStays DEF QueueOK
  <2>3. queue'[i] = k
    BY <1>1, <2>1
  <2> QED BY <2>2, <2>3 DEF JobOK
<1>3. JobOK(queue[1])'
  BY <1>1 DEF JobOK
<1>4. ASSUME NEW i \in 1 .. Len(queue') PROVE JobOK(queue[i])'
  <2>1. i = 1 \/ i \in 2 .. Len(queue)
    BY <1>1
  <2> QED BY <1>2, <1>3, <2>1
<1> QED BY <1>1, <1>4 DEF QueueOK, OnlyHeadRuns

\* The handler that runs.
LEMMA JobRuns ==
    ASSUME QueueOK, queue # <<>>
    PROVE  /\ Job \in Jobs /\ Job = queue[1] /\ JobOK(Job)
           /\ Job.request \in Requests /\ Job.request \in Posted
<1>1. Job = queue[1] /\ 1 \in 1 .. Len(queue)
  BY DEF QueueOK, Job
<1>2. Job \in Jobs /\ JobOK(Job)
  BY <1>1 DEF QueueOK
<1>3. \A j \in Jobs : j.request \in Requests
  BY DEF Jobs
<1>4. Job.request \in Posted
  BY <1>1 DEF Posted
<1> QED BY <1>1, <1>2, <1>3, <1>4

LEMMA QueuedRequests ==
    ASSUME QueueOK
    PROVE  \A i \in 1 .. Len(queue) : queue[i].request \in Requests
<1>1. \A j \in Jobs : j.request \in Requests
  BY DEF Jobs
<1>2. \A i \in 1 .. Len(queue) : queue[i] \in Jobs
  BY DEF QueueOK
<1> QED BY <1>1, <1>2

LEMMA ResumeIsBacked ==
    ASSUME JournalOK, NEW r \in Requests
    PROVE  ResumeAfter(HashOf(r)) \in 0 .. 6 /\ Backed(r, ResumeAfter(HashOf(r)))
<1> DEFINE D(n) == <<HashOf(r), n>> \in index
           P(n) == (\A step \in 1 .. n : D(step)) /\ ~D(n + 1)
<1>1. \A n : D(n) => Backed(r, n)
  BY DEF JournalOK
<1> HIDE DEF D
<1>2. ~D(7)
  BY DEF JournalOK, D
<1>3. \E n \in 0 .. 6 : P(n)
  <2>1. CASE ~D(1)
    <3>1. P(0)
      BY <2>1
    <3> QED BY <3>1
  <2>2. ASSUME NEW m \in 1 .. 6, \A step \in 1 .. m : D(step), ~D(m + 1)
        PROVE  \E n \in 0 .. 6 : P(n)
    BY <2>2
  <2>3. D(1) /\ D(2) /\ D(3) /\ D(4) /\ D(5) /\ D(6) => P(6)
    <3>1. ASSUME NEW step \in 1 .. 6, D(1) /\ D(2) /\ D(3) /\ D(4) /\ D(5) /\ D(6)
          PROVE  D(step)
      <4>1. step = 1 \/ step = 2 \/ step = 3 \/ step = 4 \/ step = 5 \/ step = 6
        OBVIOUS
      <4> QED BY <3>1, <4>1
    <3> QED BY <1>2, <3>1
  <2>4. CASE D(1) /\ ~D(2)
    <3>1. \A step \in 1 .. 1 : step = 1
      OBVIOUS
    <3> QED BY <2>2, <2>4, <3>1
  <2>5. CASE D(1) /\ D(2) /\ ~D(3)
    <3>1. \A step \in 1 .. 2 : step = 1 \/ step = 2
      OBVIOUS
    <3> QED BY <2>2, <2>5, <3>1
  <2>6. CASE D(1) /\ D(2) /\ D(3) /\ ~D(4)
    <3>1. \A step \in 1 .. 3 : step = 1 \/ step = 2 \/ step = 3
      OBVIOUS
    <3> QED BY <2>2, <2>6, <3>1
  <2>7. CASE D(1) /\ D(2) /\ D(3) /\ D(4) /\ ~D(5)
    <3>1. \A step \in 1 .. 4 : step = 1 \/ step = 2 \/ step = 3 \/ step = 4
      OBVIOUS
    <3> QED BY <2>2, <2>7, <3>1
  <2>8. CASE D(1) /\ D(2) /\ D(3) /\ D(4) /\ D(5) /\ ~D(6)
    <3>1. \A step \in 1 .. 5 :
             step = 1 \/ step = 2 \/ step = 3 \/ step = 4 \/ step = 5
      OBVIOUS
    <3> QED BY <2>2, <2>8, <3>1
  <2> QED BY <2>1, <2>3, <2>4, <2>5, <2>6, <2>7, <2>8
<1>4. ResumeAfter(HashOf(r)) \in 0 .. 6 /\ P(ResumeAfter(HashOf(r)))
  BY <1>3 DEF ResumeAfter, D
<1>5. ResumeAfter(HashOf(r)) = 0 \/ D(ResumeAfter(HashOf(r)))
  BY <1>4
<1> QED BY <1>1, <1>4, <1>5 DEF Backed

----------------------------------------------------------------------------
(* The route drives the bridge and nothing else                            *)

\* While a handler waits for an answer, its entry is one of the withdrawal's.
LEMMA RunningEntry ==
    ASSUME QueueOK, NEW stage, stage # "ready", Running(stage)
    PROVE  /\ queue # <<>> /\ Job.stage = stage
           /\ Job.next \in 1 .. Len(Steps(Job.request))
           /\ Entry \in EntryNames
<1>1. queue # <<>> /\ Job.stage = stage
  BY DEF Running, Job
<1>2. Job \in Jobs /\ JobOK(Job)
  BY <1>1, JobRuns
<1>3. Job.next \in 1 .. 7 /\ Job.next <= Len(Steps(Job.request))
  BY <1>1, <1>2 DEF Jobs, JobOK
<1>4. Job.next \in 1 .. Len(Steps(Job.request))
  BY <1>3, StepsOfRequest
<1> QED BY <1>1, <1>4, StepsOfRequest DEF Entry

LEMMA RunningLands ==
    ASSUME QueueOK, BridgeInv, Running("sent"), Lands(Job.request, Entry)
    PROVE  Next
<1>1. queue # <<>> /\ Entry \in EntryNames
  BY RunningEntry
<1>2. Job.request \in Requests /\ Job.request.sequence <= vault_sequence
  BY <1>1, JobRuns DEF JobOK
<1> QED BY <1>1, <1>2, LandsIsNext

LEMMA EnvironmentIsNext ==
    ASSUME BridgeInv, Environment
    PROVE  Next
<1>1. ASSUME NEW d \in DepositIntents, DepositWithCommitment(d, FALSE) PROVE Next
  BY <1>1 DEF Next, DepositStep
<1>2. ASSUME NEW root \in 1 .. Len(leaf_log), RecordKnownRoot(root) PROVE Next
  BY <1>2 DEF Next, AdminStep
<1>3. ASSUME NEW set \in AspSets, RecordAspRoot(set) PROVE Next
  BY <1>3 DEF Next, AdminStep
<1>4. CASE Tick
  BY <1>4 DEF Next, AdminStep
<1>5. ASSUME NEW w \in WithdrawIntents, NEW root \in known_roots,
             NEW set \in AspSets, WithdrawToRecipient(w, root, set, FALSE, FALSE)
      PROVE  Next
  BY <1>5 DEF Next, WithdrawStep
<1> QED BY <1>1, <1>2, <1>3, <1>4, <1>5 DEF Environment

\* Every step of the relayer and of the world around it is a transaction of
\* the bridge or leaves the chain alone.
LEMMA RouteStepsBridge ==
    ASSUME BridgeInv, RouteInv, [RelayerNext]_<<vars, relayerVars>>
    PROVE  [Next]_vars
<1> USE DEF RouteInv
<1>1. CASE Environment
  BY <1>1, EnvironmentIsNext
<1>2. CASE Land
  BY <1>2, RunningLands DEF Land
<1>3. CASE LoseAnswer
  BY <1>3, RunningLands DEF LoseAnswer
<1>4. CASE UNCHANGED <<vars, relayerVars>>
  BY <1>4
<1>5. ASSUME NEW r, Submit(r) \/ Refuse(r) PROVE UNCHANGED vars
  BY <1>5 DEF Submit, Refuse
<1>6. CASE Begin \/ Abort \/ Progress \/ Retry \/ Accept \/ Fail \/ Crash
  BY <1>6 DEF Begin, Abort, Progress, Retry, Accept, Fail, Crash
<1> QED BY <1>1, <1>2, <1>3, <1>4, <1>5, <1>6 DEF RelayerNext, RelayerStep

\* What was posted stays posted: a request leaves the queue with an answer, or
\* with none when the process dies.
LEMMA PostedStays ==
    ASSUME RouteInv, [RelayerNext]_<<vars, relayerVars>>
    PROVE  Posted \subseteq Posted'
<1>0. queue \in Seq(Jobs) /\ Len(queue) \in Nat
  BY DEF RouteInv, QueueOK
<1>1. SUFFICES /\ replies \subseteq replies'
               /\ \A i \in 1 .. Len(queue) : queue[i].request \in Posted'
  BY DEF Posted
<1>2. ASSUME UNCHANGED <<queue, replies>>
      PROVE  /\ replies \subseteq replies'
             /\ \A i \in 1 .. Len(queue) : queue[i].request \in Posted'
  BY <1>2 DEF Posted
<1>3. ASSUME UNCHANGED replies, Len(queue') = Len(queue),
             \A i \in 1 .. Len(queue) : queue'[i].request = queue[i].request
      PROVE  /\ replies \subseteq replies'
             /\ \A i \in 1 .. Len(queue) : queue[i].request \in Posted'
  BY <1>3 DEF Posted
<1>4. ASSUME NEW code, queue # <<>>, Reply(code)
      PROVE  /\ replies \subseteq replies'
             /\ \A i \in 1 .. Len(queue) : queue[i].request \in Posted'
  <2>1. replies' = replies \cup {<<queue[1].request, code>>} /\ queue' = Tail(queue)
    BY <1>4 DEF Reply, Job
  <2>2. queue[1].request \in Posted'
    <3> DEFINE reply == <<queue[1].request, code>>
    <3>1. reply[1] = queue[1].request /\ reply \in replies'
      BY <2>1
    <3> HIDE DEF reply
    <3> QED BY <3>1 DEF Posted
  <2>3. ASSUME NEW i \in 1 .. Len(queue), i # 1 PROVE queue[i].request \in Posted'
    <3>1. i - 1 \in 1 .. Len(queue') /\ queue'[i - 1] = queue[i]
      BY <1>0, <2>1, <2>3
    <3> QED BY <3>1 DEF Posted
  <2> QED BY <2>1, <2>2, <2>3
<1>5. ASSUME NEW r \in RequestsNow, Submit(r)
      PROVE  /\ replies \subseteq replies'
             /\ \A i \in 1 .. Len(queue) : queue[i].request \in Posted'
  <2>1. PICK j : queue' = Append(queue, j)
    BY <1>5 DEF Submit
  <2>2. /\ Len(queue') = Len(queue) + 1
        /\ \A i \in 1 .. Len(queue) : queue'[i] = queue[i]
    BY <1>0, <2>1
  <2>3. \A i \in 1 .. Len(queue) : i \in 1 .. Len(queue')
    BY <1>0, <2>2
  <2> QED BY <1>5, <2>2, <2>3 DEF Submit, Posted
<1>6. ASSUME NEW r \in RequestsNow, Refuse(r)
      PROVE  /\ replies \subseteq replies'
             /\ \A i \in 1 .. Len(queue) : queue[i].request \in Posted'
  BY <1>6 DEF Refuse, Posted
<1>7. CASE Crash
  <2>1. ASSUME NEW i \in 1 .. Len(queue) PROVE queue[i].request \in Posted'
    <3> DEFINE reply == <<queue[i].request, "dropped">>
    <3>1. reply[1] = queue[i].request /\ reply \in replies'
      BY <1>7 DEF Crash
    <3> HIDE DEF reply
    <3> QED BY <3>1 DEF Posted
  <2> QED BY <1>7, <2>1 DEF Crash
<1>8. CASE Environment \/ UNCHANGED <<vars, relayerVars>>
  BY <1>2, <1>8 DEF Environment, relayerVars
<1>9. CASE Begin \/ Land \/ Abort \/ LoseAnswer \/ Progress \/ Retry
  <2>1. /\ queue # <<>> /\ queue[1] \in Jobs /\ UNCHANGED replies
        /\ DOMAIN queue = 1 .. Len(queue)
    BY <1>0, <1>9 DEF Begin, Land, Abort, LoseAnswer, Progress, Retry, Running
  <2>2. PICK j : queue' = [queue EXCEPT ![1] = j] /\ j.request = queue[1].request
    BY <1>9, <2>1 DEF Begin, Land, Abort, LoseAnswer, Progress, Retry, Answers, Jobs
  <2>3. /\ Len(queue') = Len(queue)
        /\ \A i \in 1 .. Len(queue) : queue'[i].request = queue[i].request
    BY <1>0, <2>1, <2>2
  <2> QED BY <1>3, <2>1, <2>3
<1>10. CASE Accept \/ Fail
  BY <1>4, <1>10 DEF Accept, Fail, Running
<1> QED BY <1>5, <1>6, <1>7, <1>8, <1>9, <1>10 DEF RelayerNext, RelayerStep

\* The rows the entries of the running handler leave.
LEMMA LandsKeepsRows ==
    ASSUME BridgeInv, QueueOK, Running("sent"), Lands(Job.request, Entry),
           Posted \subseteq Posted'
    PROVE  RowsArePosted'
<1>1. PICK r \in Requests : r = Job.request /\ r \in Posted
  BY RunningEntry, JobRuns
<1>2. \A k, row : (\E q \in Posted : k = RowOf(q) /\ RowIsFor(row, HashOf(q), q.w))
               => (\E q \in Posted' : k = RowOf(q) /\ RowIsFor(row, HashOf(q), q.w))
  OBVIOUS
<1>3. ASSUME DOMAIN finalizations' \subseteq DOMAIN finalizations,
             \A k \in DOMAIN finalizations' : finalizations'[k] = finalizations[k]
      PROVE  RowsArePosted'
  BY <1>2, <1>3 DEF BridgeInv, RowsArePosted, RowOf, HashOf
<1>4. CASE Entry = "step2a"
  <2>1. r.sequence = vault_sequence /\ WithdrawStep2a(Relayer, r.w, r.root)
    BY <1>1, <1>4 DEF Lands
  <2>2. PICK row : /\ RowIsFor(row, HashOf(r), r.w)
                   /\ finalizations' = Put(finalizations, RowOf(r), row)
    <3> DEFINE row == [root |-> r.root, nullifier |-> r.w.note,
                       recipient |-> r.w.recipient, change |-> r.w.change,
                       sequence |-> vault_sequence, expiry |-> r.w.expiry]
    <3>1. finalizations' = Put(finalizations, RowOf(r), row)
      BY <2>1 DEF WithdrawStep2a, RowOf, HashOf
    <3>2. RowIsFor(row, HashOf(r), r.w)
      BY <2>1 DEF RowIsFor, HashOf
    <3> QED BY <3>1, <3>2
  <2>3. \A k \in DOMAIN finalizations' :
            \/ k = RowOf(r) /\ finalizations'[k] = row
            \/ k \in DOMAIN finalizations /\ finalizations'[k] = finalizations[k]
    BY <2>2 DEF Put
  <2> QED BY <1>1, <1>2, <2>2, <2>3 DEF BridgeInv, RowsArePosted, RowOf, HashOf
<1>5. CASE Entry = "step2b"
  BY <1>3, <1>5 DEF Lands, WithdrawStep2b, Settles, Remove
<1>6. CASE Entry \notin {"step2a", "step2b"}
  BY <1>3, <1>6, RunningEntry
     DEF Lands, EntryNames, PrepareWithdrawProof, PrepareWithdrawAttestation,
         PrepareWithdrawPayload, PrepareWithdrawConservation
<1> QED BY <1>4, <1>5, <1>6

\* Nobody else opens a row here.
LEMMA RowsStayPosted ==
    ASSUME BridgeInv, RouteInv, [RelayerNext]_<<vars, relayerVars>>
    PROVE  RowsArePosted'
<1>0. Posted \subseteq Posted'
  BY PostedStays
<1>1. CASE UNCHANGED finalizations
  BY <1>0, <1>1 DEF BridgeInv, RowsArePosted, RowOf, HashOf
<1>2. CASE Land \/ LoseAnswer
  BY <1>0, <1>1, <1>2, LandsKeepsRows DEF Land, LoseAnswer, RouteInv, vars
<1>3. CASE Environment
  BY <1>1, <1>3 DEF Environment, DepositWithCommitment, RecordKnownRoot,
                    RecordAspRoot, Tick, WithdrawToRecipient
<1>4. ASSUME NEW r, Submit(r) \/ Refuse(r) PROVE RowsArePosted'
  BY <1>1, <1>4 DEF Submit, Refuse, vars
<1>5. CASE Begin \/ Abort \/ Progress \/ Retry \/ Accept \/ Fail \/ Crash
           \/ UNCHANGED <<vars, relayerVars>>
  BY <1>1, <1>5 DEF Begin, Abort, Progress, Retry, Accept, Fail, Crash, vars
<1> QED BY <1>2, <1>3, <1>4, <1>5 DEF RelayerNext, RelayerStep

LEMMA BridgeInvInductive ==
    ASSUME BridgeInv, RouteInv, [RelayerNext]_<<vars, relayerVars>>
    PROVE  BridgeInv'
BY RouteStepsBridge, RowsStayPosted, TypesInductive, ExitInvariantInductive
   DEF BridgeInv

----------------------------------------------------------------------------
(* The steps of the running handler                                        *)

\* A step that leaves the journal and the answers alone and changes only the
\* handler that runs.
LEMMA HeadStep ==
    ASSUME BridgeInv, RouteInv, [Next]_vars, Posted \subseteq Posted',
           queue # <<>>,
           NEW j \in Jobs, JobOK(j)', queue' = [queue EXCEPT ![1] = j],
           UNCHANGED journalVars, UNCHANGED replies,
           j.stage = "ready" \/ Job.stage # "ready"
    PROVE  RouteInv'
<1>1. /\ QueueOK' /\ queue'[1] = j
      /\ \A i \in 2 .. Len(queue') : queue'[i].stage = "ready"
  BY HeadChanges DEF RouteInv
<1>2. JournalOK'
  BY JournalStays DEF RouteInv, JournalOK, journalVars
<1>3. RepliesOK'
  BY RepliesStay DEF RouteInv
<1>4. queue'[1].stage # "ready" => ~torn'
  BY <1>1, JobRuns DEF RouteInv, OnlyHeadRuns, journalVars
<1> QED BY <1>1, <1>2, <1>3, <1>4 DEF RouteInv, OnlyHeadRuns

\* An answer arrives, and what it says is so.
LEMMA AnswerStep ==
    ASSUME BridgeInv, RouteInv, [Next]_vars, Posted \subseteq Posted',
           Running("sent"),
           NEW answer \in {"hash", "pending", "spent", "abort", "retryable", "failed"},
           Answers(answer), UNCHANGED journalVars, UNCHANGED replies,
           NEW k \in Jobs, k = Job,
           answer \in {"hash", "pending"} => Evidence(k.request, k.next)',
           answer = "spent" => k.request.w.note \in used_nullifiers'
    PROVE  RouteInv'
<1>0. /\ queue # <<>> /\ k.stage = "sent" /\ JobOK(k) /\ k = queue[1]
      /\ queue \in Seq(Jobs)
  BY RunningEntry, JobRuns DEF RouteInv, QueueOK
<1>1. PICK j \in Jobs : j = [k EXCEPT !.stage = "answered", !.answer = answer]
  BY DEF Jobs
<1>2. queue' = [queue EXCEPT ![1] = j]
  BY <1>0, <1>1 DEF Answers
<1>3. /\ j.request = k.request /\ j.next = k.next
      /\ j.stage = "answered" /\ j.answer = answer
  BY <1>1 DEF Jobs
<1>4. JobOK(k)'
  BY <1>0, JobStays
<1>5. JobOK(j)'
  BY <1>0, <1>3, <1>4 DEF JobOK
<1>6. Job.stage # "ready"
  BY <1>0
<1> QED BY <1>0, <1>2, <1>5, <1>6, HeadStep

LEMMA LandKeepsInv ==
    ASSUME BridgeInv, RouteInv, [Next]_vars, Posted \subseteq Posted',
           Land
    PROVE  RouteInv'
<1>1. PICK k \in Jobs : k = Job
  BY JobRuns DEF Land, Running, RouteInv
<1>2. /\ k.next \in 1 .. Len(Steps(k.request)) /\ k.request \in Requests
      /\ Lands(k.request, Steps(k.request)[k.next])
  BY <1>1, RunningEntry DEF Land, RouteInv, Entry, Jobs
<1>3. Evidence(k.request, k.next)'
  BY <1>2, LandsLeavesEvidence
<1> QED BY <1>1, <1>3, AnswerStep DEF Land, relayerVars

LEMMA AbortKeepsInv ==
    ASSUME BridgeInv, RouteInv, [Next]_vars, Posted \subseteq Posted',
           Abort
    PROVE  RouteInv'
<1>0. /\ Running("sent") /\ UNCHANGED vars /\ UNCHANGED journalVars
      /\ UNCHANGED replies /\ Answers(AbortAnswer(Job.request, Entry))
  BY DEF Abort
<1>1. PICK k \in Jobs : k = Job
  BY <1>0, JobRuns DEF Running, RouteInv
<1>2. /\ k.next \in 1 .. Len(Steps(k.request)) /\ k.request \in Requests
      /\ Entry = Steps(k.request)[k.next]
  BY <1>0, <1>1, RunningEntry DEF RouteInv, Entry, Jobs
<1>3. PICK answer \in {"pending", "spent", "abort"} :
          /\ answer = AbortAnswer(k.request, Entry)
          /\ Answers(answer)
  BY <1>0, <1>1 DEF AbortAnswer
<1>4. answer = "pending" => Evidence(k.request, k.next)
  BY <1>2, <1>3, PendingHasEvidence DEF AbortAnswer
<1>5. answer = "spent" => k.request.w.note \in used_nullifiers
  BY <1>3 DEF AbortAnswer, AbortsSpent
<1>6. UNCHANGED used_nullifiers
  BY <1>0 DEF vars, coreVars
<1>7. answer = "pending" => Evidence(k.request, k.next)'
  BY <1>2, <1>4, EvidenceStays
<1> QED BY <1>0, <1>1, <1>3, <1>5, <1>6, <1>7, AnswerStep

LEMMA LoseAnswerKeepsInv ==
    ASSUME BridgeInv, RouteInv, [Next]_vars, Posted \subseteq Posted',
           LoseAnswer
    PROVE  RouteInv'
<1>1. PICK k \in Jobs : k = Job
  BY JobRuns DEF LoseAnswer, Running, RouteInv
<1>2. PICK answer \in {"retryable", "failed"} : Answers(answer)
  BY DEF LoseAnswer
<1> QED BY <1>1, <1>2, AnswerStep DEF LoseAnswer

LEMMA RetryKeepsInv ==
    ASSUME BridgeInv, RouteInv, [Next]_vars, Posted \subseteq Posted',
           Retry
    PROVE  RouteInv'
<1>1. PICK k \in Jobs : k = Job
  BY JobRuns DEF Retry, Running, RouteInv
<1>0. /\ queue # <<>> /\ k.stage = "answered" /\ JobOK(k) /\ k = queue[1]
      /\ queue \in Seq(Jobs)
  BY <1>1, RunningEntry, JobRuns DEF Retry, RouteInv, QueueOK
<1>2. PICK j \in Jobs : j = [k EXCEPT !.stage = "sent", !.attempts = @ + 1,
                                      !.answer = "none"]
  <2>1. PICK m \in Nat : m = k.attempts + 1
    BY DEF Jobs
  <2>2. [k EXCEPT !.stage = "sent", !.attempts = m, !.answer = "none"] \in Jobs
    BY DEF Jobs
  <2> QED BY <2>1, <2>2
<1>3. queue' = [queue EXCEPT ![1] = j]
  BY <1>0, <1>2 DEF Retry
<1>4. j.request = k.request /\ j.next = k.next /\ j.stage = "sent"
  BY <1>2 DEF Jobs
<1>5. JobOK(k)'
  BY <1>0, JobStays
<1>6. JobOK(j)'
  BY <1>0, <1>4, <1>5 DEF JobOK
<1> QED BY <1>0, <1>1, <1>3, <1>6, HeadStep DEF Retry

LEMMA BeginKeepsInv ==
    ASSUME BridgeInv, RouteInv, [Next]_vars, Posted \subseteq Posted',
           Begin
    PROVE  RouteInv'
<1>1. PICK k \in Jobs : k = Job
  BY JobRuns DEF Begin, Running, RouteInv
<1>2. /\ queue # <<>> /\ k.stage = "ready" /\ JobOK(k) /\ k = queue[1]
      /\ queue \in Seq(Jobs) /\ k.next <= Len(Steps(k.request))
  BY <1>1, JobRuns DEF Begin, Running, Job, RouteInv, QueueOK
<1>3. PICK j \in Jobs : j = [k EXCEPT !.stage = "sent", !.attempts = 1]
  BY DEF Jobs
<1>4. queue' = [queue EXCEPT ![1] = j]
  BY <1>2, <1>3 DEF Begin
<1>5. j.request = k.request /\ j.next = k.next /\ j.stage = "sent"
  BY <1>3 DEF Jobs
<1>6. JobOK(k)'
  BY <1>2, JobStays
<1>7. JobOK(j)'
  BY <1>2, <1>5, <1>6 DEF JobOK
<1>8. /\ index' = index /\ lines' \cup cut' \subseteq index /\ ~torn'
      /\ UNCHANGED replies
  BY DEF Begin, AppendLine, RouteInv, JournalOK
<1>9. QueueOK' /\ OnlyHeadRuns'
  BY <1>2, <1>4, <1>7, <1>8, HeadChanges DEF RouteInv, OnlyHeadRuns
<1> QED BY <1>8, <1>9, JournalStays, RepliesStay DEF RouteInv

\* The n-th entry is recorded once its trace is on the chain.
LEMMA JournalGrows ==
    ASSUME BridgeInv, [Next]_vars, Posted \subseteq Posted',
           JournalOK, NEW r \in Requests,
           r \in Posted, NEW n \in 1 .. Len(Steps(r)), Evidence(r, n),
           index' \subseteq index \cup {<<HashOf(r), n>>},
           lines' \cup cut' \subseteq index'
    PROVE  JournalOK'
<1>1. \A q \in Requests : \A m : Backed(q, m) => Backed(q, m)'
  BY BackedStays
<1>2. ASSUME NEW q \in Requests, HashOf(q) = HashOf(r)
      PROVE  Backed(q, n)
  <2>1. SUFFICES ASSUME OwnsHash(q) PROVE n \in 1 .. Len(Steps(q)) /\ Evidence(q, n)
    BY DEF Backed
  <2>2. /\ q.w.note = r.w.note /\ q.w.change = r.w.change
        /\ q.w.recipient = r.w.recipient /\ q.sequence = r.sequence
    BY <1>2, <2>1, SameHash DEF OwnsHash
  <2>3. /\ Steps(q) = Steps(r) /\ Settled(q) = Settled(r) /\ RowOf(q) = RowOf(r)
        /\ OwnsHash(q) = OwnsHash(r)
    BY <1>2, <2>2 DEF Steps, Settled, RowOf, OwnsHash
  <2> QED BY <2>3 DEF Evidence
<1>3. ASSUME NEW q \in Requests, NEW m, <<HashOf(q), m>> \in index'
      PROVE  Backed(q, m)'
  <2>1. <<HashOf(q), m>> \in index \/ (HashOf(q) = HashOf(r) /\ m = n)
    BY <1>3
  <2> QED BY <1>1, <1>2, <2>1 DEF JournalOK
<1>4. \A done \in index' : done[2] \in 1 .. 6
  <2>1. n \in 1 .. 6
    <3>1. \A m \in {5, 6} : \A i \in 1 .. m : i \in 1 .. 6
      OBVIOUS
    <3> QED BY <3>1, StepsOfRequest
  <2> QED BY <2>1 DEF JournalOK
<1> QED BY <1>3, <1>4 DEF JournalOK, HashOf

LEMMA ProgressKeepsInv ==
    ASSUME BridgeInv, RouteInv, [Next]_vars, Posted \subseteq Posted',
           Progress
    PROVE  RouteInv'
<1>1. PICK k \in Jobs : k = Job
  BY JobRuns DEF Progress, Running, RouteInv
<1>2. /\ queue # <<>> /\ k.stage = "answered" /\ JobOK(k) /\ k = queue[1]
      /\ queue \in Seq(Jobs) /\ k.next \in 1 .. Len(Steps(k.request))
      /\ k.request \in Requests /\ k.request \in Posted
  BY <1>1, RunningEntry, JobRuns DEF Progress, RouteInv, QueueOK
<1>3. Evidence(k.request, k.next)
  BY <1>1, <1>2 DEF Progress, JobOK
<1>4. PICK n \in 1 .. 7 : n = k.next + 1
  <2>1. PICK last \in {5, 6} : last = Len(Steps(k.request))
    BY StepsOfRequest
  <2>2. k.next \in 1 .. last
    BY <1>2, <2>1
  <2> QED BY <2>2
<1>5. PICK j \in Jobs : j = [k EXCEPT !.stage = "ready", !.next = n,
                                      !.answer = "none"]
  BY DEF Jobs
<1>6. queue' = [queue EXCEPT ![1] = j]
  BY <1>2, <1>4, <1>5 DEF Progress
<1>7. j.request = k.request /\ j.next = k.next + 1 /\ j.stage = "ready"
  BY <1>4, <1>5 DEF Jobs
<1>8. JobOK(k)' /\ Evidence(k.request, k.next)'
  BY <1>2, <1>3, JobStays, EvidenceStays
<1>9. JobOK(j)'
  <2>1. j.next - 1 = k.next
    BY <1>2, <1>7
  <2> QED BY <1>2, <1>7, <1>8, <2>1 DEF JobOK, Backed
<1>10. QueueOK' /\ OnlyHeadRuns'
  BY <1>2, <1>6, <1>7, <1>9, HeadChanges DEF RouteInv, OnlyHeadRuns
<1>11. /\ index' = index \cup {<<HashOf(k.request), k.next>>}
       /\ lines' \cup cut' \subseteq index' /\ UNCHANGED replies
  BY <1>1 DEF Progress, AppendLine, Done, RouteInv, JournalOK
<1>12. JournalOK'
  BY <1>2, <1>3, <1>11, JournalGrows DEF RouteInv
<1> QED BY <1>10, <1>11, <1>12, RepliesStay DEF RouteInv

\* The first handler leaves with an answer that is so.
LEMMA ReplyStep ==
    ASSUME BridgeInv, RouteInv, [Next]_vars, Posted \subseteq Posted',
           queue # <<>>, NEW code,
           Reply(code), UNCHANGED journalVars,
           code = "202" /\ OwnsHash(Job.request) => Settled(Job.request),
           code = "409" => Job.request.w.note \in used_nullifiers
    PROVE  RouteInv'
<1>1. PICK k \in Jobs : k = Job /\ JobOK(k) /\ k.request \in Requests
  BY JobRuns DEF RouteInv
<1>2. /\ queue' = Tail(queue) /\ replies' = replies \cup {<<k.request, code>>}
  BY <1>1 DEF Reply
<1>3. /\ queue' \in Seq(Jobs) /\ Len(queue') = Len(queue) - 1
      /\ Len(queue) \in Nat
      /\ \A i \in 1 .. Len(queue') :
            i + 1 \in 2 .. Len(queue) /\ queue'[i] = queue[i + 1]
  BY <1>2 DEF RouteInv, QueueOK
<1>4. ASSUME NEW i \in 1 .. Len(queue') PROVE JobOK(queue[i])'
  <2>1. PICK m \in Jobs : m = queue[i + 1] /\ JobOK(m)
    BY <1>3 DEF RouteInv, QueueOK
  <2>2. JobOK(m)'
    BY <2>1, JobStays
  <2>3. queue'[i] = m
    BY <1>3, <2>1
  <2> QED BY <2>2, <2>3 DEF JobOK
<1>5. QueueOK'
  BY <1>3, <1>4 DEF QueueOK
<1>6. \A i \in 1 .. Len(queue') : queue'[i].stage = "ready"
  BY <1>3 DEF RouteInv, OnlyHeadRuns
<1>7. OnlyHeadRuns'
  BY <1>3, <1>6 DEF OnlyHeadRuns
<1>8. JournalOK'
  BY JournalStays DEF RouteInv, JournalOK, journalVars
<1>9. RepliesOK'
  <2>1. /\ k.request.sequence \in Nat /\ k.request.sequence <= vault_sequence'
    BY <1>1, RequestParts, JobStays DEF JobOK
  <2>2. code = "202" /\ OwnsHash(k.request)' => Settled(k.request)'
    BY <1>1, SettledStays DEF OwnsHash, HashOf
  <2>3. code = "409" => k.request.w.note \in used_nullifiers'
    BY <1>1, ExitsStay DEF BridgeInv
  <2>4. ASSUME NEW reply \in replies
        PROVE  /\ reply[1] \in Requests /\ reply[1].sequence <= vault_sequence'
               /\ reply[2] = "202" /\ OwnsHash(reply[1])' => Settled(reply[1])'
               /\ reply[2] = "409" => reply[1].w.note \in used_nullifiers'
    <3>1. /\ reply[1] \in Requests /\ reply[1].sequence \in Nat
          /\ reply[1].sequence <= vault_sequence
      BY RequestParts DEF RouteInv, RepliesOK
    <3>2. reply[1].sequence <= vault_sequence'
      BY <3>1, SpendAdvances DEF BridgeInv, ExitsUnchanged
    <3>3. reply[2] = "202" /\ OwnsHash(reply[1])' => Settled(reply[1])'
      BY <3>1, SettledStays DEF RouteInv, RepliesOK, OwnsHash, HashOf
    <3> QED BY <3>1, <3>2, <3>3, ExitsStay DEF RouteInv, RepliesOK, BridgeInv
  <2> QED BY <1>1, <1>2, <2>1, <2>2, <2>3, <2>4 DEF RepliesOK
<1> QED BY <1>5, <1>7, <1>8, <1>9 DEF RouteInv

LEMMA AcceptKeepsInv ==
    ASSUME BridgeInv, RouteInv, [Next]_vars, Posted \subseteq Posted',
           Accept
    PROVE  RouteInv'
<1>1. queue # <<>> /\ Job.next > Len(Steps(Job.request)) /\ Reply("202")
      /\ UNCHANGED journalVars
  BY DEF Accept, Running
<1>2. Job \in Jobs /\ JobOK(Job)
  BY <1>1, JobRuns DEF RouteInv
<1>3. Job.next \in 1 .. 7 /\ Len(Steps(Job.request)) \in {5, 6}
  BY <1>2, StepsOfRequest DEF Jobs
<1>4. Backed(Job.request, Job.next - 1)
  BY <1>2 DEF JobOK
<1>5. OwnsHash(Job.request) => Job.next - 1 = Len(Steps(Job.request))
  BY <1>1, <1>3, <1>4 DEF Backed
<1>6. OwnsHash(Job.request) => Settled(Job.request)
  BY <1>3, <1>4, <1>5 DEF Backed, Evidence
<1> QED BY <1>1, <1>6, ReplyStep

LEMMA FailKeepsInv ==
    ASSUME BridgeInv, RouteInv, [Next]_vars, Posted \subseteq Posted',
           Fail
    PROVE  RouteInv'
<1>1. queue # <<>> /\ Job.stage = "answered" /\ UNCHANGED journalVars
  BY DEF Fail, Running, Job
<1>2. JobOK(Job)
  BY <1>1, JobRuns DEF RouteInv
<1>3. CASE Job.answer = "spent" /\ Reply("409")
  <2>1. Job.request.w.note \in used_nullifiers
    BY <1>1, <1>2, <1>3 DEF JobOK
  <2> QED BY <1>1, <1>3, <2>1, ReplyStep
<1>4. CASE Reply("502")
  BY <1>1, <1>4, ReplyStep
<1> QED BY <1>3, <1>4 DEF Fail

----------------------------------------------------------------------------
(* Calls, crashes and the rest of the world                                *)

\* Whatever joins the answers that is neither 202 nor 409.
LEMMA RepliesJoin ==
    ASSUME BridgeInv, [Next]_vars, Posted \subseteq Posted',
           RepliesOK,
           \A reply \in replies' : reply \in replies
              \/ /\ reply[1] \in Requests /\ reply[1].sequence <= vault_sequence
                 /\ reply[2] \notin {"202", "409"}
    PROVE  RepliesOK'
<1>1. ASSUME NEW reply \in replies'
      PROVE  /\ reply[1] \in Requests /\ reply[1].sequence <= vault_sequence'
             /\ reply[2] = "202" /\ OwnsHash(reply[1])' => Settled(reply[1])'
             /\ reply[2] = "409" => reply[1].w.note \in used_nullifiers'
  <2>1. reply[1] \in Requests /\ reply[1].sequence <= vault_sequence
        /\ reply[1].sequence \in Nat
    BY RequestParts DEF RepliesOK
  <2>2. reply[1].sequence <= vault_sequence'
    BY <2>1, SpendAdvances DEF BridgeInv, ExitsUnchanged
  <2>3. CASE reply[2] \notin {"202", "409"}
    BY <2>1, <2>2, <2>3
  <2>4. CASE reply \in replies
    BY <2>1, <2>2, <2>4, SettledStays, ExitsStay
       DEF RepliesOK, BridgeInv, OwnsHash, HashOf
  <2> QED BY <2>3, <2>4
<1> QED BY <1>1 DEF RepliesOK

\* The requests posted now are about the chain so far.
LEMMA PostedNow ==
    ASSUME BridgeInv, NEW r \in RequestsNow
    PROVE  r \in Requests /\ r.sequence <= vault_sequence
<1>1. known_roots \subseteq Nat /\ vault_sequence \in Nat
  BY DEF BridgeInv, TypeOK, RootTypeOK, CoreTypeOK
<1>2. \A n \in 0 .. vault_sequence : n \in Nat /\ n <= vault_sequence
  BY <1>1
<1>3. r.root \in known_roots /\ r.sequence \in 0 .. vault_sequence
  BY DEF RequestsNow
<1>4. r.root \in Nat /\ r.sequence \in Nat /\ r.sequence <= vault_sequence
  BY <1>1, <1>2, <1>3
<1>5. r \in [w : WithdrawIntents, root : known_roots, set : AspSets,
             sequence : 0 .. vault_sequence]
  BY DEF RequestsNow
<1>6. r \in Requests
  BY <1>4, <1>5 DEF Requests
<1> QED BY <1>4, <1>6

LEMMA SubmitKeepsInv ==
    ASSUME BridgeInv, RouteInv, [Next]_vars, Posted \subseteq Posted',
           NEW r \in RequestsNow, Submit(r)
    PROVE  RouteInv'
<1>1. r \in Requests /\ r.sequence <= vault_sequence
  BY PostedNow
<1>2. PICK n \in 0 .. 6 : n = ResumeAfter(HashOf(r)) /\ Backed(r, n)
  BY <1>1, ResumeIsBacked DEF RouteInv
<1>3. PICK j : j = [request |-> r, next |-> n + 1, stage |-> "ready",
                    attempts |-> 0, answer |-> "none"]
  OBVIOUS
<1>4. /\ j \in Jobs /\ j.request = r /\ j.next - 1 = n /\ j.stage = "ready"
  BY <1>1, <1>3 DEF Jobs
<1>5. JobOK(j)
  BY <1>1, <1>2, <1>4 DEF JobOK
<1>6. queue' = Append(queue, j) /\ UNCHANGED journalVars /\ UNCHANGED replies
  BY <1>2, <1>3 DEF Submit
<1>7. /\ queue' \in Seq(Jobs) /\ Len(queue') = Len(queue) + 1
      /\ Len(queue) \in Nat /\ queue'[Len(queue) + 1] = j
      /\ \A i \in 1 .. Len(queue) : queue'[i] = queue[i]
  BY <1>4, <1>6 DEF RouteInv, QueueOK
<1>8. ASSUME NEW i \in 1 .. Len(queue') PROVE JobOK(queue[i])'
  <2>1. PICK m \in Jobs : m = queue'[i] /\ JobOK(m)
    <3>1. i \in 1 .. Len(queue) \/ i = Len(queue) + 1
      BY <1>7
    <3> QED BY <1>4, <1>5, <1>7, <3>1 DEF RouteInv, QueueOK
  <2>2. JobOK(m)'
    BY <2>1, JobStays
  <2> QED BY <2>1, <2>2 DEF JobOK
<1>9. QueueOK'
  BY <1>7, <1>8 DEF QueueOK
<1>10. OnlyHeadRuns'
  <2>1. \A i \in 2 .. Len(queue') : queue'[i].stage = "ready"
    BY <1>4, <1>7 DEF RouteInv, OnlyHeadRuns
  <2>2. CASE queue = <<>>
    <3>1. queue'[1] = j
      BY <1>7, <2>2
    <3> QED BY <1>4, <2>1, <3>1 DEF OnlyHeadRuns
  <2>3. CASE queue # <<>>
    <3>1. queue'[1] = queue[1]
      BY <1>7, <2>3 DEF RouteInv, QueueOK
    <3> QED BY <1>6, <2>1, <2>3, <3>1 DEF RouteInv, OnlyHeadRuns, journalVars
  <2> QED BY <2>2, <2>3
<1>11. JournalOK' /\ RepliesOK'
  BY <1>6, JournalStays, RepliesStay DEF RouteInv, JournalOK, journalVars
<1> QED BY <1>9, <1>10, <1>11 DEF RouteInv

\* Steps that leave the queue and the journal alone.
LEMMA OthersKeepInv ==
    ASSUME BridgeInv, RouteInv, [Next]_vars, Posted \subseteq Posted',
           UNCHANGED <<queue, journalVars>>,
           RepliesOK'
    PROVE  RouteInv'
<1>1. QueueOK' /\ JournalOK'
  BY QueueStays, JournalStays DEF RouteInv, JournalOK, journalVars
<1>2. OnlyHeadRuns'
  BY DEF RouteInv, OnlyHeadRuns, journalVars
<1> QED BY <1>1, <1>2 DEF RouteInv

LEMMA RefuseKeepsInv ==
    ASSUME BridgeInv, RouteInv, [Next]_vars, Posted \subseteq Posted',
           NEW r \in RequestsNow, Refuse(r)
    PROVE  RouteInv'
<1>1. r \in Requests /\ r.sequence <= vault_sequence
  BY PostedNow
<1>2. replies' = replies \cup {<<r, "self_submit">>}
      /\ UNCHANGED <<queue, journalVars>>
  BY DEF Refuse
<1>3. RepliesOK'
  BY <1>1, <1>2, RepliesJoin DEF RouteInv
<1> QED BY <1>2, <1>3, OthersKeepInv

LEMMA CrashKeepsInv ==
    ASSUME BridgeInv, RouteInv, [Next]_vars, Posted \subseteq Posted',
           Crash
    PROVE  RouteInv'
<1>1. /\ queue # <<>> /\ queue' = <<>> /\ lines' = lines
      /\ cut' \subseteq cut \cup NextLine /\ index' = lines' \cup cut'
      /\ replies' = replies \cup
             {<<queue[i].request, "dropped">> : i \in 1 .. Len(queue)}
  BY DEF Crash, AppendInterrupted
<1>2. QueueOK' /\ OnlyHeadRuns'
  BY <1>1 DEF QueueOK, OnlyHeadRuns
<1>3. \A i \in 1 .. Len(queue) :
          queue[i].request \in Requests /\ queue[i].request.sequence <= vault_sequence
  BY QueuedRequests DEF RouteInv, QueueOK, JobOK
<1>4. RepliesOK'
  BY <1>1, <1>3, RepliesJoin DEF RouteInv
<1>5. lines \cup cut \subseteq index
  BY DEF RouteInv, JournalOK
<1>6. CASE NextLine = {}
  BY <1>1, <1>2, <1>4, <1>5, <1>6, JournalStays DEF RouteInv
<1>7. CASE Running("answered") /\ Job.answer \in {"hash", "pending"}
  <2>1. PICK k \in Jobs :
            k = Job /\ k.request \in Requests /\ k.request \in Posted
    BY <1>1, JobRuns DEF RouteInv
  <2>2. k.next \in 1 .. Len(Steps(k.request)) /\ k.stage = "answered"
    BY <1>7, <2>1, RunningEntry DEF RouteInv
  <2>3. Evidence(k.request, k.next)
    BY <1>1, <1>7, <2>1, <2>2, JobRuns DEF RouteInv, JobOK
  <2>4. NextLine = {<<HashOf(k.request), k.next>>}
    BY <1>7, <2>1 DEF NextLine, Done
  <2>5. JournalOK'
    BY <1>1, <1>5, <2>1, <2>2, <2>3, <2>4, JournalGrows DEF RouteInv
  <2> QED BY <1>2, <1>4, <2>5 DEF RouteInv
<1> QED BY <1>6, <1>7 DEF NextLine

LEMMA RouteInvInductive ==
    ASSUME BridgeInv, RouteInv, [RelayerNext]_<<vars, relayerVars>>
    PROVE  RouteInv'
<1>0. [Next]_vars /\ Posted \subseteq Posted'
  BY RouteStepsBridge, PostedStays
<1>1. CASE Environment \/ UNCHANGED <<vars, relayerVars>>
  <2>1. UNCHANGED <<queue, journalVars>> /\ UNCHANGED replies
    BY <1>1 DEF Environment, relayerVars
  <2> QED BY <1>0, <2>1, RepliesStay, OthersKeepInv DEF RouteInv
<1>2. ASSUME NEW r \in RequestsNow, Submit(r) PROVE RouteInv'
  BY <1>0, <1>2, SubmitKeepsInv
<1>3. ASSUME NEW r \in RequestsNow, Refuse(r) PROVE RouteInv'
  BY <1>0, <1>3, RefuseKeepsInv
<1>4. CASE Begin
  BY <1>0, <1>4, BeginKeepsInv
<1>5. CASE Land
  BY <1>0, <1>5, LandKeepsInv
<1>6. CASE Abort
  BY <1>0, <1>6, AbortKeepsInv
<1>7. CASE LoseAnswer
  BY <1>0, <1>7, LoseAnswerKeepsInv
<1>8. CASE Progress
  BY <1>0, <1>8, ProgressKeepsInv
<1>9. CASE Retry
  BY <1>0, <1>9, RetryKeepsInv
<1>10. CASE Accept
  BY <1>0, <1>10, AcceptKeepsInv
<1>11. CASE Fail
  BY <1>0, <1>11, FailKeepsInv
<1>12. CASE Crash
  BY <1>0, <1>12, CrashKeepsInv
<1> QED BY <1>1, <1>2, <1>3, <1>4, <1>5, <1>6, <1>7, <1>8, <1>9, <1>10, <1>11,
           <1>12 DEF RelayerNext, RelayerStep

----------------------------------------------------------------------------
(* The theorems                                                            *)

LEMMA RouteInvInit == RelayerInit => BridgeInv /\ RouteInv
<1> SUFFICES ASSUME RelayerInit PROVE BridgeInv /\ RouteInv
  OBVIOUS
<1>1. BridgeInv
  BY BridgeInvInit
<1>2. QueueOK /\ OnlyHeadRuns /\ JournalOK /\ RepliesOK
  BY DEF RelayerInit, QueueOK, OnlyHeadRuns, JournalOK, RepliesOK
<1> QED BY <1>1, <1>2 DEF RouteInv

LEMMA RouteInvHolds == RelayerSpec => [](BridgeInv /\ RouteInv)
<1>1. BridgeInv /\ RouteInv /\ [RelayerNext]_<<vars, relayerVars>>
        => (BridgeInv /\ RouteInv)'
  BY BridgeInvInductive, RouteInvInductive
<1> QED BY <1>1, RouteInvInit, PTL DEF RelayerSpec

\* The relayer and the world around it only ever send the bridge transactions
\* it allows: every theorem about the bridge holds of the route's runs too.
THEOREM RouteRunsTheBridge == RelayerSpec => Spec
<1>1. BridgeInv /\ RouteInv /\ [RelayerNext]_<<vars, relayerVars>> => [Next]_vars
  BY RouteStepsBridge
<1>2. RelayerInit => Init
  BY DEF RelayerInit
<1> QED BY <1>1, <1>2, RouteInvHolds, PTL DEF RelayerSpec, Spec

\* 202 is only said of a withdrawal that settled as asked, unless another one
\* was posted under its hash, and 409 only of a spent note, whatever was posted,
\* through any number of crashes, lost answers, resumed journals and aborts
\* taken for work already done.
THEOREM RouteAnswersTruly == RelayerSpec => []AnswersAreTrue
<1>1. RouteInv => AnswersAreTrue
  BY DEF RouteInv, RepliesOK, AnswersAreTrue
<1> QED BY <1>1, RouteInvHolds, PTL

\* A step2a the journal calls completed has its row open or settled, a step2b
\* its exit on the chain, whatever the file lost in crashes, for every request
\* whose hash no other withdrawal was posted under.
THEOREM JournalTellsTheTruth == RelayerSpec => []JournalIsTruthful
<1>1. RouteInv => JournalIsTruthful
  <2> SUFFICES ASSUME RouteInv, NEW r \in Posted
               PROVE  LET last == Len(Steps(r))
                      IN  OwnsHash(r) =>
                             /\ <<HashOf(r), last>> \in index => Settled(r)
                             /\ <<HashOf(r), last - 1>> \in index =>
                                   RowOf(r) \in DOMAIN finalizations \/ Settled(r)
    BY DEF JournalIsTruthful
  <2>1. r \in Requests
    <3>1. \A i \in 1 .. Len(queue) : queue[i].request \in Requests
      BY QueuedRequests DEF RouteInv
    <3>2. \A reply \in replies : reply[1] \in Requests
      BY DEF RouteInv, RepliesOK
    <3> QED BY <3>1, <3>2 DEF Posted
  <2>2. \A n : <<HashOf(r), n>> \in index => n \in 1 .. 6 /\ Backed(r, n)
    BY <2>1 DEF RouteInv, JournalOK
  <2> QED BY <2>2 DEF Backed, Evidence
<1> QED BY <1>1, RouteInvHolds, PTL

\* A completed step the relayer records is on a line the next load parses: the
\* intent that precedes it mends a file a crash left torn.
THEOREM RecordsAreReadable == RelayerSpec => RecordedIsReadable
<1>1. RouteInv /\ [RelayerNext]_<<vars, relayerVars>>
        => [index' \ index \subseteq lines' \cup cut']_<<vars, relayerVars>>
  <2> SUFFICES ASSUME RouteInv, RelayerNext
               PROVE  index' \ index \subseteq lines' \cup cut'
    OBVIOUS
  <2>1. CASE Progress
    <3>1. queue # <<>> /\ Job.stage = "answered" /\ Job = queue[1]
      BY <2>1, JobRuns DEF Progress, Running, Job, RouteInv
    <3>2. ~torn
      BY <3>1 DEF RouteInv, OnlyHeadRuns
    <3> QED BY <2>1, <3>2 DEF Progress, AppendLine
  <2>2. CASE Crash
    BY <2>2 DEF Crash
  <2>3. CASE Begin
    BY <2>3 DEF Begin, AppendLine
  <2>4. CASE UNCHANGED journalVars
    BY <2>4 DEF journalVars
  <2>5. ASSUME NEW r, Submit(r) \/ Refuse(r) PROVE UNCHANGED journalVars
    BY <2>5 DEF Submit, Refuse
  <2> QED BY <2>1, <2>2, <2>3, <2>4, <2>5
          DEF RelayerNext, RelayerStep, Environment, relayerVars, Land, Abort,
              LoseAnswer, Retry, Accept, Fail
<1> QED BY <1>1, RouteInvHolds, PTL DEF RelayerSpec, RecordedIsReadable
=============================================================================
