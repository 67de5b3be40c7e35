---------------------------- MODULE OperatorProofs ----------------------------
(***************************************************************************)
(* No bound on leaves, faults or triggers: what the maintenance pipeline   *)
(* publishes is ready, and is never taken back.  And what the operator's   *)
(* withdrawal script says when it ends well is true.                       *)
(***************************************************************************)
EXTENDS RefreshCycle, WithdrawScript, WellFoundedInduction, FiniteSetTheorems, TLAPS

Staging == [tree : Nat, lean : Nat, notes : SUBSET Plain, asp : Nat]

Cycles ==
    [at : Steps, triggered : BOOLEAN, hashes : SUBSET Heard, txs : SUBSET Heard,
     skips : SUBSET Others]

ChainTyped ==
    /\ leaves \in 0..MaxLeaves /\ indexed \in 0..leaves
    /\ rolled \in 0..leaves /\ packed \in 0..rolled
    /\ known \subseteq Leaves /\ approvals \subseteq Leaves /\ observed \subseteq Leaves

\* A hash that anybody has heard of is none of a leaf to come.
PipelineTyped ==
    /\ inFlight \in (SUBSET Heard) \cup {Nil}
    /\ pending \in (SUBSET Heard) \cup {Nil}
    /\ triggers \in Nat /\ faults \in Nat
    /\ cycle \in Cycles
    /\ queue \subseteq Heard

FilesTyped ==
    /\ tree \in 0..leaves /\ lean \in 0..leaves /\ notes \subseteq Plain
    /\ staged \in Staging \cup {Nil}
    /\ staged # Nil => staged.tree <= leaves /\ staged.lean <= leaves /\ staged.asp <= leaves
    /\ sidecars \subseteq Leaves /\ aspSidecars \subseteq Leaves
    /\ aspSet \in 0..leaves /\ approved \in 0..leaves

----------------------------------------------------------------------------
(* The inductive invariant                                                 *)

Publishing == {"lean", "set", "approved", "recorded"}
Backing    == {"sidecar", "asp", "tree", "lean"}
Rolled     == {"renormalize", "rerepack"}
Observed   == {"rollover", "record"} \cup Rolled \cup Backing
Whole      == {"observe", "rollover", "record", "sidecar", "asp", "tree"} \cup Rolled
Following  == Whole \cup {"lean"}

\* What the cycle has established of its staged tree at each step.
Phases ==
    /\ cycle.at \in {"build"} \cup Following \cup Publishing =>
        /\ staged \in Staging
        /\ staged.tree <= leaves /\ staged.lean <= leaves /\ staged.asp <= leaves
        /\ staged.asp # 0 => staged.asp \in approvals
    /\ cycle.at = "build" => staged.tree = tree /\ staged.lean = lean
    /\ cycle.at \in Whole => staged.tree = staged.lean
    /\ cycle.at \in Following => staged.lean >= tree
    /\ cycle.at = "lean" => staged.tree = 0
    /\ cycle.at \in Observed => 1..staged.lean \subseteq observed
    /\ cycle.at \in Rolled => staged.lean <= rolled
    /\ cycle.at = "record" => staged.lean <= packed
    /\ cycle.at \in Backing => staged.lean # 0 /\ Ready(staged.lean)

\* A sidecar stands for the whole of what its tree needs; so what a later cycle
\* recovers from an interrupted one is ready.
Backed ==
    /\ Ready(tree) /\ Ready(lean)
    /\ aspSet # 0 => aspSet \in approvals
    /\ \A n \in sidecars : Ready(n)
    /\ staged # Nil =>
        /\ staged.tree \in {0, staged.lean} \/ Ready(staged.tree)
        /\ staged.asp # 0 => staged.asp \in approvals

RefreshInv == ChainTyped /\ PipelineTyped /\ FilesTyped /\ Phases /\ Backed

LEMMA Least ==
    ASSUME NEW S, S \subseteq Nat, S # {}
    PROVE  \E n \in S : \A m \in S : n <= m
<1> DEFINE R == OpToRel(<, Nat)
<1>1. IsWellFoundedOn(R, Nat)
    BY NatLessThanWellFounded, Zenon
<1>2. PICK n \in S : \A m \in S : <<m, n>> \notin R
    <2> HIDE DEF R
    <2> QED BY <1>1, WFMin, Zenon
<1>3. ASSUME NEW m \in S, m < n
      PROVE  FALSE
    <2>1. m \in Nat /\ n \in Nat
        OBVIOUS
    <2>2. <<m, n>> \in R
        BY <1>3, <2>1, Zenon DEF OpToRel
    <2> QED BY <1>2, <2>2
<1> QED BY <1>3

\* The builder's tree follows its prior one, by leaves it was given only.
LEMMA BuiltFollows ==
    ASSUME ChainTyped, PipelineTyped, staged \in Staging,
           staged.tree <= leaves, staged.lean <= leaves
    PROVE  Built \in Nat /\ Built >= Prior /\ Built <= leaves
<1>1. Prior \in Nat /\ Prior <= leaves /\ MaxLeaves \in Nat /\ leaves \in 0..MaxLeaves
    BY RefreshCycleConstants DEF Prior, Staging, ChainTyped
<1>2. \A n \in Harvested : n \in Nat => n \in 1..leaves
    BY RefreshCycleConstants DEF Harvested, PipelineTyped, Cycles, Heard
<1> DEFINE S == {k \in Nat : k > Prior /\ k \notin Harvested}
           Fits(n) == (Prior + 1)..n \subseteq Harvested /\ n + 1 \notin Harvested
<1>3. MaxLeaves + 1 \in S
    BY <1>1, <1>2
<1>4. PICK k \in S : \A m \in S : k <= m
    BY <1>3, Least
<1>5. k - 1 \in Prior..MaxLeaves /\ Fits(k - 1)
    BY <1>1, <1>3, <1>4
<1>6. Built \in Prior..MaxLeaves /\ Fits(Built)
    BY <1>5 DEF Built
<1>7. Built = Prior \/ Built \in Harvested
    BY <1>1, <1>6
<1> QED BY <1>1, <1>2, <1>6, <1>7

----------------------------------------------------------------------------
(* What every step has in common                                           *)

\* What the chain gives is never taken back.
Grows ==
    /\ ChainTyped'
    /\ leaves <= leaves' /\ rolled <= rolled' /\ packed <= packed'
    /\ known \subseteq known' /\ approvals \subseteq approvals'
    /\ observed \subseteq observed'

LEMMA Same ==
    ASSUME RefreshInv, UNCHANGED chain
    PROVE  Grows /\ Heard' = Heard
BY DEF RefreshInv, ChainTyped, Grows, chain, vault, roots, Heard

LEMMA HeardGrows ==
    ASSUME RefreshInv, Grows
    PROVE  Heard \subseteq Heard'
BY DEF RefreshInv, ChainTyped, Grows, Heard

LEMMA ReadyStays ==
    ASSUME RefreshInv, Grows, NEW n \in Nat, Ready(n)
    PROVE  n = 0 \/ (n \in known' /\ n <= packed' /\ 1..n \subseteq observed')
BY DEF Ready, RefreshInv, ChainTyped, Grows

\* The files are left alone, but for the queue.
LEMMA FilesStay ==
    ASSUME RefreshInv, Grows, UNCHANGED <<published, staged, sidecars, asp>>
    PROVE  FilesTyped' /\ Backed'
<1>1. FilesTyped'
    BY DEF RefreshInv, ChainTyped, Grows, FilesTyped, Staging, published, asp
<1>2. Backed'
    BY ReadyStays DEF RefreshInv, Grows, FilesTyped, Staging, Backed, Ready, Leaves,
                      published, asp
<1> QED BY <1>1, <1>2

\* The cycle stays where it is.
LEMMA PhasesStay ==
    ASSUME RefreshInv, Grows, UNCHANGED <<published, staged>>, cycle'.at = cycle.at
    PROVE  Phases'
<1>1. ASSUME cycle.at \in Backing
      PROVE  staged.lean # 0 /\ Ready(staged.lean)'
    <2>1. staged.lean \in Nat /\ staged.lean # 0 /\ Ready(staged.lean)
        BY <1>1 DEF RefreshInv, Phases, Backing, Following, Whole, Staging
    <2> QED BY <2>1, ReadyStays DEF Ready
<1>2. cycle.at \in {"build"} \cup Following \cup Publishing =>
        /\ staged \in Staging
        /\ staged.tree <= leaves' /\ staged.lean <= leaves' /\ staged.asp <= leaves'
        /\ staged.asp # 0 => staged.asp \in approvals'
    BY DEF RefreshInv, Phases, Grows, ChainTyped, Staging
<1>3. cycle.at \in Rolled => staged.lean <= rolled'
    BY <1>2 DEF RefreshInv, Phases, Grows, ChainTyped, Staging, Rolled, Following, Whole
<1>4. cycle.at = "record" => staged.lean <= packed'
    BY <1>2 DEF RefreshInv, Phases, Grows, ChainTyped, Staging, Following, Whole
<1> QED BY <1>1, <1>2, <1>3, <1>4 DEF RefreshInv, Phases, Grows, published

\* Before a tree is staged, and after all is published, nothing is claimed.
LEMMA Between ==
    ASSUME cycle'.at \in {"none", "normalize", "repack", "queue", "stage", "prune"}
    PROVE  Phases'
<1> DEFINE at == cycle'.at
<1>1. at \notin {"build"} \cup Following \cup Publishing
    BY DEF Publishing, Following, Whole, Rolled
<1>2. at \notin Observed /\ at \notin Backing /\ at \notin Rolled /\ at \notin Whole
    BY DEF Observed, Backing, Rolled, Whole
<1>3. at # "build" /\ at # "record" /\ at # "lean"
    OBVIOUS
<1> HIDE DEF at
<1> QED BY <1>1, <1>2, <1>3, Zenon DEF Phases, at

\* The script ends.
LEMMA CycleExits ==
    ASSUME RefreshInv, Grows, Exit, triggers' = triggers,
           queue' \subseteq Heard', faults' \in Nat
    PROVE  PipelineTyped' /\ Phases'
<1>1. NoCycle \in Cycles' /\ NoCycle.at = "none"
    BY DEF NoCycle, Cycles, Steps
<1>2. inFlight' \in (SUBSET Heard) \cup {Nil} /\ pending' \in (SUBSET Heard) \cup {Nil}
    <2> DEFINE H == (SUBSET Heard) \cup {Nil}
    <2>1. inFlight \in H /\ pending \in H /\ Nil \in H
        BY DEF RefreshInv, PipelineTyped
    <2> HIDE DEF H
    <2>2. inFlight' \in H /\ pending' \in H
        BY <2>1 DEF Exit, RunEnds, pipeline
    <2> QED BY <2>2 DEF H
<1>3. triggers' \in Nat
    BY DEF RefreshInv, PipelineTyped
<1>4. cycle' = NoCycle
    BY DEF Exit
<1>5. PipelineTyped'
    BY <1>1, <1>2, <1>3, <1>4, HeardGrows DEF PipelineTyped
<1>6. Phases'
    BY <1>1, <1>4, Between
<1> QED BY <1>5, <1>6

\* It goes on.
LEMMA Goes ==
    ASSUME RefreshInv, Grows, NEW step \in Steps, Go(step), UNCHANGED <<pipeline, queue>>,
           faults' \in Nat
    PROVE  PipelineTyped' /\ cycle'.at = step
<1>1. cycle \in Cycles
    BY DEF RefreshInv, PipelineTyped
<1>2. cycle' = [cycle EXCEPT !.at = step]
    BY DEF Go
<1>3. cycle' \in Cycles' /\ cycle'.at = step
    BY <1>1, <1>2, HeardGrows DEF Cycles
<1> QED BY <1>3, HeardGrows DEF RefreshInv, PipelineTyped, pipeline

LEMMA SpentFault ==
    ASSUME RefreshInv, Fault \/ UNCHANGED faults
    PROVE  faults' \in Nat
BY DEF RefreshInv, PipelineTyped, Fault

\* A step that sends a transaction goes on or ends the script.
LEMMA Thens ==
    ASSUME RefreshInv, Grows, NEW step \in Steps, Then(step), UNCHANGED <<queue, triggers>>
    PROVE  /\ PipelineTyped'
           /\ cycle'.at = step \/ Phases'
<1>1. queue' \subseteq Heard'
    BY HeardGrows DEF RefreshInv, PipelineTyped
<1> QED BY <1>1, Goes, CycleExits, SpentFault DEF Then

\* What the staged tree is while a step of the script works on it.
LEMMA StagedTyped ==
    ASSUME RefreshInv, cycle.at \in {"build"} \cup Following \cup Publishing
    PROVE  /\ staged \in Staging
           /\ staged.tree \in Nat /\ staged.lean \in Nat /\ staged.asp \in Nat
           /\ staged.tree <= leaves /\ staged.lean <= leaves /\ staged.asp <= leaves
           /\ staged.asp # 0 => staged.asp \in approvals
BY DEF RefreshInv, Phases, Staging

----------------------------------------------------------------------------
(* The chain and the pipeline                                              *)

LEMMA ChainKeeps ==
    ASSUME RefreshInv, LeafConfirmed \/ IndexerCatchesUp \/ VaultPays
    PROVE  RefreshInv'
<1>1. Grows
    BY RefreshCycleConstants
    DEF LeafConfirmed, IndexerCatchesUp, VaultPays, Grows, RefreshInv, ChainTyped,
        vault, roots
<1>2. UNCHANGED <<pipeline, cycle, files, faults>>
    BY DEF LeafConfirmed, IndexerCatchesUp, VaultPays
<1>3. PipelineTyped'
    BY <1>1, <1>2, HeardGrows DEF queued, RefreshInv, PipelineTyped, Cycles, pipeline, files
<1>4. FilesTyped' /\ Backed' /\ Phases'
    BY <1>1, <1>2, FilesStay, PhasesStay DEF files
<1> QED BY <1>1, <1>3, <1>4 DEF RefreshInv, Grows

LEMMA PipelineKeeps ==
    ASSUME RefreshInv, (\E h \in Hashes : Trigger(h)) \/ RunSkipped \/ CoordinatorCrash
    PROVE  RefreshInv'
<1>1. UNCHANGED <<chain, files>>
    BY DEF Trigger, RunSkipped, CoordinatorCrash
<1>2. Grows /\ Heard' = Heard
    BY <1>1, Same
<1>3. inFlight' \in (SUBSET Heard) \cup {Nil} /\ pending' \in (SUBSET Heard) \cup {Nil}
    <2> DEFINE H == (SUBSET Heard) \cup {Nil}
    <2>1. inFlight \in H /\ pending \in H /\ Nil \in H
        BY DEF RefreshInv, PipelineTyped
    <2>2. ASSUME NEW h \in Hashes, Trigger(h)
          PROVE  {h} \in H /\ (IF pending = Nil THEN {} ELSE pending) \cup {h} \in H
        <3>1. h \in Heard
            BY <2>2 DEF Trigger
        <3>2. pending = Nil \/ pending \subseteq Heard
            BY <2>1
        <3> QED BY <3>1, <3>2
    <2> HIDE DEF H
    <2>3. inFlight' \in H /\ pending' \in H
        BY <2>1, <2>2 DEF Trigger, RunSkipped, RunEnds, CoordinatorCrash
    <2> QED BY <2>3 DEF H
<1>4. triggers' \in Nat /\ faults' \in Nat
    BY DEF Trigger, RunSkipped, RunEnds, CoordinatorCrash, Fault, RefreshInv, PipelineTyped
<1>5. cycle' \in Cycles /\ cycle'.at = cycle.at
    <2>1. cycle \in Cycles
        BY DEF RefreshInv, PipelineTyped
    <2>2. cycle' = cycle \/ cycle' = [cycle EXCEPT !.triggered = FALSE]
        BY DEF Trigger, RunSkipped, CoordinatorCrash
    <2> QED BY <2>1, <2>2 DEF Cycles
<1>6. PipelineTyped'
    BY <1>1, <1>2, <1>3, <1>4, <1>5 DEF queued, RefreshInv, PipelineTyped, Cycles, files
<1>7. FilesTyped' /\ Backed' /\ Phases'
    BY <1>1, <1>2, <1>5, FilesStay, PhasesStay DEF files
<1> QED BY <1>2, <1>6, <1>7 DEF RefreshInv, Grows

----------------------------------------------------------------------------
(* The script, up to the staged tree                                       *)

\* A recovery copies a staged tree only if it is ready.
LEMMA StartKeeps ==
    ASSUME RefreshInv, NEW triggered \in BOOLEAN, StartCycle(triggered),
           triggered => inFlight # Nil
    PROVE  RefreshInv'
<1>1. Grows /\ Heard' = Heard
    BY Same DEF StartCycle
<1>2. cycle' \in Cycles /\ cycle'.at = "normalize"
    <2>1. (IF triggered THEN inFlight ELSE {}) \in SUBSET Heard
        BY DEF RefreshInv, PipelineTyped
    <2>2. cycle' = [at |-> "normalize", triggered |-> triggered, txs |-> {},
                    hashes |-> IF triggered THEN inFlight ELSE {},
                    skips |-> Unlisted(triggered)]
        BY DEF StartCycle
    <2>3. Unlisted(triggered) \in SUBSET Others
        BY DEF Unlisted
    <2> QED BY <2>1, <2>2, <2>3 DEF Cycles, Steps
<1>3. PipelineTyped'
    BY <1>1, <1>2 DEF queued, StartCycle, RefreshInv, PipelineTyped, Cycles, pipeline
<1>4. ASSUME Recoverable
      PROVE  /\ staged \in Staging /\ staged.lean <= leaves /\ staged.tree <= leaves
             /\ Ready(staged.lean) /\ Ready(staged.tree)
    BY <1>4 DEF Recoverable, RefreshInv, FilesTyped, Backed, Ready
<1>5. /\ tree' \in 0..leaves /\ lean' \in 0..leaves /\ notes' \subseteq Plain
      /\ Ready(tree') /\ Ready(lean')
    BY <1>4 DEF StartCycle, Recover, published, RefreshInv, FilesTyped, Backed, Staging
<1>6. leaves' = leaves /\ known' = known /\ packed' = packed /\ observed' = observed
      /\ approvals' = approvals
    BY DEF StartCycle, chain, vault, roots
<1>7. UNCHANGED <<staged, sidecars, asp>>
    BY DEF StartCycle
<1>8. FilesTyped' /\ Backed'
    BY <1>5, <1>6, <1>7 DEF RefreshInv, FilesTyped, Backed, Ready, asp
<1>9. Phases'
    BY <1>2, Between
<1> QED BY <1>1, <1>3, <1>8, <1>9 DEF RefreshInv, Grows

LEMMA NormalizeKeeps ==
    ASSUME RefreshInv,
           \/ Normalize("normalize", "repack", "queue")
           \/ Normalize("renormalize", "rerepack", "record")
    PROVE  RefreshInv'
<1> DEFINE step == IF Normalized
                   THEN IF cycle.at = "normalize" THEN "queue" ELSE "record"
                   ELSE IF cycle.at = "normalize" THEN "repack" ELSE "rerepack"
<1>1. Grows
    BY Same DEF Normalize
<1>2. Go(step) /\ step \in Steps /\ UNCHANGED <<pipeline, files, faults>>
    BY DEF Normalize, Steps
<1>3. PipelineTyped' /\ cycle'.at = step
    BY <1>1, <1>2, Goes, SpentFault DEF queued, files
<1>4. FilesTyped' /\ Backed'
    BY <1>1, <1>2, FilesStay DEF files
<1>5. ASSUME cycle.at = "normalize"
      PROVE  Phases'
    <2> HIDE DEF step
    <2>1. cycle'.at \in {"queue", "repack"}
        BY <1>3, <1>5 DEF step
    <2> QED BY <2>1, Between
<1>6. ASSUME cycle.at = "renormalize"
      PROVE  Phases'
    <2> HIDE DEF step
    <2>1. /\ staged' = staged /\ published' = published
          /\ leaves' = leaves /\ packed' = packed /\ rolled' = rolled
          /\ observed' = observed /\ approvals' = approvals
        BY <1>2 DEF Normalize, chain, vault, roots, files
    <2>2. staged.lean <= rolled /\ (Normalized => staged.lean <= packed)
        BY <1>6 DEF RefreshInv, Phases, Rolled, Normalized
    <2>3. cycle'.at \in {"rerepack", "record"} /\ (cycle'.at = "record" => Normalized)
        BY <1>3, <1>6 DEF step
    <2>4. /\ staged.tree = staged.lean /\ staged.lean >= tree
          /\ 1..staged.lean \subseteq observed
        BY <1>6 DEF RefreshInv, Phases, Rolled, Observed, Whole, Following
    <2>5. /\ staged \in Staging
          /\ staged.tree <= leaves /\ staged.lean <= leaves /\ staged.asp <= leaves
          /\ staged.asp # 0 => staged.asp \in approvals
        BY <1>6, StagedTyped DEF Following, Whole, Rolled
    <2> QED BY <2>1, <2>2, <2>3, <2>4, <2>5
            DEF Phases, Backing, Rolled, published
<1> QED BY <1>1, <1>3, <1>4, <1>5, <1>6 DEF RefreshInv, Normalize, Grows

LEMMA RepackKeeps ==
    ASSUME RefreshInv, Repack("repack", "queue") \/ Repack("rerepack", "record")
    PROVE  RefreshInv'
<1> DEFINE step == IF cycle.at = "repack" THEN "queue" ELSE "record"
<1>1. /\ UNCHANGED <<leaves, indexed, rolled, roots, observed, files>>
      /\ packed' = packed \/ packed' = rolled
    BY DEF Repack
<1>2. Grows
    BY <1>1 DEF Grows, RefreshInv, ChainTyped, roots
<1>3. step \in Steps /\ cycle.at \in {"repack", "rerepack"}
    BY DEF Repack, Steps
<1>4. FilesTyped' /\ Backed'
    BY <1>1, <1>2, FilesStay DEF files
<1>5. CASE Normalized
    <2>1. Exit /\ faults' = faults
        BY <1>5 DEF Repack
    <2>2. triggers' = triggers /\ queue' \subseteq Heard'
        BY <1>1, <1>2, <2>1, HeardGrows
        DEF queued, Exit, RunEnds, pipeline, files, RefreshInv, PipelineTyped
    <2>3. PipelineTyped' /\ Phases'
        BY <1>2, <2>1, <2>2, CycleExits, SpentFault
    <2> QED BY <1>2, <1>4, <2>3 DEF RefreshInv, Grows
<1>6. CASE ~Normalized
    <2>1. Then(step) /\ packed' = rolled
        BY <1>3, <1>6 DEF Repack
    <2>2. queue' = queue /\ triggers' = triggers
        BY <1>1, <2>1 DEF queued, files, Then, Exit, RunEnds, pipeline
    <2>3. PipelineTyped' /\ (cycle'.at = step \/ Phases')
        BY <1>2, <1>3, <2>1, <2>2, Thens
    <2>4. ASSUME cycle'.at = step
          PROVE  Phases'
        <3>1. CASE step = "queue"
            BY <2>4, <3>1, Between
        <3>2. CASE cycle.at = "rerepack" /\ cycle'.at = "record"
            <4>1. staged.lean <= packed'
                BY <2>1, <3>2 DEF RefreshInv, Phases, Rolled
            <4>2. /\ staged' = staged /\ tree' = tree /\ leaves' = leaves
                  /\ observed' = observed /\ approvals' = approvals
                BY <1>1 DEF files, published, roots
            <4> QED BY <3>2, <4>1, <4>2
                    DEF RefreshInv, Phases, Publishing, Backing, Rolled, Observed, Whole,
                        Following
        <3> QED BY <1>3, <2>4, <3>1, <3>2
    <2> QED BY <1>2, <1>4, <2>3, <2>4 DEF RefreshInv, Grows
<1> QED BY <1>5, <1>6

\* A call adds only its own hashes to the queue.
LEMMA QueueGrows ==
    ASSUME PersistHashes
    PROVE  queue' \subseteq queue \cup cycle.hashes
<1>1. CASE cycle.hashes = {}
    BY <1>1 DEF PersistHashes, queued
<1>2. CASE cycle.hashes # {}
    BY <1>2 DEF PersistHashes, Joined
<1> QED BY <1>1, <1>2

LEMMA PersistKeeps ==
    ASSUME RefreshInv, PersistHashes
    PROVE  RefreshInv'
<1>1. Grows /\ Heard' = Heard
    BY Same DEF PersistHashes
<1>2. cycle \in Cycles /\ cycle' = [cycle EXCEPT !.at = "stage", !.hashes = {}]
    BY DEF PersistHashes, RefreshInv, PipelineTyped
<1>3. cycle' \in Cycles /\ cycle'.at = "stage"
    BY <1>2 DEF Cycles, Steps
<1>4. PipelineTyped'
    BY <1>1, <1>2, <1>3, QueueGrows
    DEF PersistHashes, RefreshInv, PipelineTyped, Cycles, pipeline
<1>5. FilesTyped' /\ Backed'
    BY <1>1, FilesStay DEF PersistHashes
<1>6. Phases'
    BY <1>3, Between
<1> QED BY <1>1, <1>4, <1>5, <1>6 DEF RefreshInv, Grows

LEMMA StageKeeps ==
    ASSUME RefreshInv, Stage
    PROVE  RefreshInv'
<1>1. Grows /\ Heard' = Heard
    BY Same DEF Stage
<1>2. faults' \in Nat
    BY SpentFault DEF Stage
<1>3. PICK txs \in SUBSET Hashes :
        /\ txs \subseteq queue \cup (1..indexed)
        /\ IF txs = {}
           THEN Exit /\ UNCHANGED staged
           ELSE /\ staged' = [tree |-> tree, lean |-> lean, notes |-> notes, asp |-> 0]
                /\ cycle' = [cycle EXCEPT !.at = "build", !.txs = txs]
                /\ UNCHANGED pipeline
    BY DEF Stage
<1>4. txs \subseteq Heard
    BY <1>3 DEF RefreshInv, PipelineTyped, ChainTyped, Heard
<1>5. UNCHANGED <<chain, queued, published, sidecars, asp>>
    BY DEF Stage
<1>6. CASE txs = {}
    <2>1. Exit /\ staged' = staged
        BY <1>3, <1>6
    <2>2. triggers' = triggers /\ queue' \subseteq Heard'
        BY <1>1, <1>5, <2>1 DEF queued, Exit, RunEnds, pipeline, RefreshInv, PipelineTyped
    <2>3. PipelineTyped' /\ Phases'
        BY <1>1, <1>2, <2>1, <2>2, CycleExits
    <2> QED BY <1>1, <1>5, <2>1, <2>3, FilesStay DEF RefreshInv, Grows
<1>7. CASE txs # {}
    <2>1. /\ staged' = [tree |-> tree, lean |-> lean, notes |-> notes, asp |-> 0]
          /\ cycle' = [cycle EXCEPT !.at = "build", !.txs = txs]
          /\ UNCHANGED pipeline
        BY <1>3, <1>7
    <2>2. cycle' \in Cycles /\ cycle'.at = "build"
        BY <1>4, <2>1 DEF RefreshInv, PipelineTyped, Cycles, Steps
    <2>3. PipelineTyped'
        BY <1>1, <1>2, <1>5, <2>1, <2>2 DEF queued, RefreshInv, PipelineTyped, Cycles, pipeline
    <2>4. /\ staged' \in Staging /\ staged'.tree = tree /\ staged'.lean = lean
          /\ staged'.asp = 0 /\ tree <= leaves /\ lean <= leaves /\ 0 <= leaves
        BY <2>1 DEF RefreshInv, FilesTyped, ChainTyped, Staging
    <2>5. /\ tree' = tree /\ lean' = lean /\ notes' = notes /\ leaves' = leaves
          /\ known' = known /\ packed' = packed /\ observed' = observed
          /\ approvals' = approvals
        BY <1>5 DEF published, chain, vault, roots
    <2>6. FilesTyped'
        BY <1>5, <2>4, <2>5 DEF RefreshInv, FilesTyped, Staging, asp
    <2>7. Backed'
        BY <1>5, <2>4, <2>5 DEF RefreshInv, Backed, Ready, asp
    <2>8. Phases'
        BY <2>2, <2>4, <2>5
        DEF Phases, Publishing, Backing, Rolled, Observed, Whole, Following
    <2> QED BY <1>1, <2>3, <2>6, <2>7, <2>8 DEF RefreshInv, Grows
<1> QED BY <1>6, <1>7

\* The staged tree follows the public one.
LEMMA BuildKeeps ==
    ASSUME RefreshInv, Build
    PROVE  RefreshInv'
<1>1. Grows /\ Heard' = Heard
    BY Same DEF Build
<1>2. faults' = faults /\ UNCHANGED <<chain, queued, published, sidecars, asp>>
    BY DEF Build
<1>3. CASE cycle.txs \cap Aborted # {}
    <2>1. Exit /\ staged' = staged
        BY <1>3 DEF Build
    <2>2. triggers' = triggers /\ queue' \subseteq Heard' /\ faults' \in Nat
        BY <1>1, <1>2, <2>1 DEF queued, Exit, RunEnds, pipeline, RefreshInv, PipelineTyped
    <2>3. PipelineTyped' /\ Phases'
        BY <1>1, <2>1, <2>2, CycleExits
    <2> QED BY <1>1, <1>2, <2>1, <2>3, FilesStay DEF RefreshInv, Grows
<1>4. CASE cycle.txs \cap Aborted = {}
    <2>1. /\ staged' = [tree |-> Built, lean |-> Built, notes |-> Skipped, asp |-> 0]
          /\ cycle' = [cycle EXCEPT !.at = "observe", !.txs = {}]
          /\ UNCHANGED pipeline
        BY <1>4 DEF Build
    <2>2. cycle' \in Cycles /\ cycle'.at = "observe"
        BY <2>1 DEF RefreshInv, PipelineTyped, Cycles, Steps
    <2>3. PipelineTyped'
        BY <1>1, <1>2, <2>1, <2>2 DEF queued, RefreshInv, PipelineTyped, Cycles, pipeline
    <2>4. /\ staged \in Staging /\ staged.tree <= leaves /\ staged.lean <= leaves
          /\ staged.tree = tree
        BY DEF Build, RefreshInv, Phases
    <2>5. Built \in Nat /\ Built >= Prior /\ Built <= leaves
        BY <2>4, BuiltFollows DEF RefreshInv
    <2>6. Built >= tree
        BY <2>4, <2>5 DEF Prior, Staging
    <2>7. /\ staged' \in Staging /\ staged'.tree = Built /\ staged'.lean = Built
          /\ staged'.asp = 0 /\ 0 <= leaves
        BY <2>1, <2>5 DEF Skipped, Staging, RefreshInv, ChainTyped
    <2>8. /\ tree' = tree /\ lean' = lean /\ notes' = notes /\ leaves' = leaves
          /\ known' = known /\ packed' = packed /\ observed' = observed
          /\ approvals' = approvals
        BY <1>2 DEF published, chain, vault, roots
    <2>9. FilesTyped'
        BY <1>2, <2>5, <2>7, <2>8 DEF RefreshInv, FilesTyped, Staging, asp
    <2>10. Backed'
        BY <1>2, <2>7, <2>8 DEF RefreshInv, Backed, Ready, asp
    <2>11. Phases'
        BY <2>2, <2>5, <2>6, <2>7, <2>8
        DEF Phases, Publishing, Backing, Rolled, Observed, Whole, Following
    <2> QED BY <1>1, <2>3, <2>9, <2>10, <2>11 DEF RefreshInv, Grows
<1> QED BY <1>3, <1>4

----------------------------------------------------------------------------
(* The script, from the staged tree to its record on the chain             *)

\* What is known of the staged tree at the steps that follow the build.
LEMMA StagedWhole ==
    ASSUME RefreshInv, cycle.at \in Whole
    PROVE  /\ staged \in Staging
           /\ staged.tree \in Nat /\ staged.lean \in Nat /\ staged.asp \in Nat
           /\ staged.tree <= leaves /\ staged.lean <= leaves /\ staged.asp <= leaves
           /\ staged.asp # 0 => staged.asp \in approvals
           /\ staged.tree = staged.lean /\ staged.lean >= tree
<1>1. cycle.at \in Following
    BY DEF Following
<1> QED BY <1>1, StagedTyped DEF RefreshInv, Phases

LEMMA ObserveKeeps ==
    ASSUME RefreshInv, ObserveLeaves
    PROVE  RefreshInv'
<1> DEFINE step == IF staged.lean \in sidecars THEN "asp" ELSE "rollover"
           own  == (1..staged.lean) \cap Others = {}
<1>1. UNCHANGED <<leaves, indexed, vault, roots, files, faults>>
    BY DEF ObserveLeaves
<1>2. cycle.at \in Whole /\ step \in Steps
      /\ IF own THEN Go(step) /\ UNCHANGED pipeline ELSE Exit
    BY DEF ObserveLeaves, Whole, Steps
<1>3. /\ staged \in Staging /\ staged.lean \in Nat /\ staged.lean <= leaves
      /\ staged.tree = staged.lean /\ staged.lean >= tree /\ staged.asp <= leaves
      /\ staged.asp # 0 => staged.asp \in approvals
    BY <1>2, StagedWhole
<1>4. /\ observed \subseteq observed' /\ observed' \subseteq observed \cup (1..staged.lean)
      /\ own => 1..staged.lean \subseteq observed'
    <2>1. observed' = observed \cup {n \in 1..staged.lean : (1..n) \cap Others = {}}
        BY DEF ObserveLeaves
    <2>2. ASSUME own, NEW n \in 1..staged.lean
          PROVE  (1..n) \cap Others = {}
        <3>1. 1..n \subseteq 1..staged.lean
            BY <1>3
        <3> QED BY <2>2, <3>1
    <2> HIDE DEF own
    <2> QED BY <2>1, <2>2
<1>5. Grows
    <2>1. 1..staged.lean \subseteq Leaves
        BY <1>3, RefreshCycleConstants DEF RefreshInv, ChainTyped, Leaves
    <2> QED BY <1>1, <1>4, <2>1 DEF Grows, RefreshInv, ChainTyped, vault, roots
<1>6. FilesTyped' /\ Backed'
    BY <1>1, <1>5, FilesStay DEF files
<1>7. /\ staged' = staged /\ tree' = tree /\ leaves' = leaves /\ approvals' = approvals
      /\ known' = known /\ packed' = packed /\ sidecars' = sidecars
      /\ queue' = queue /\ faults' \in Nat
    BY <1>1, SpentFault DEF files, queued, published, vault, roots
<1>8. staged.lean \in sidecars => staged.lean # 0 /\ Ready(staged.lean)
    BY <1>3 DEF RefreshInv, Backed, FilesTyped, Leaves
<1> HIDE DEF step, own
<1>9. CASE ~own
    <2>1. Exit /\ triggers' = triggers /\ queue' \subseteq Heard'
        BY <1>2, <1>5, <1>7, <1>9, HeardGrows
        DEF Exit, RunEnds, pipeline, RefreshInv, PipelineTyped
    <2>2. PipelineTyped' /\ Phases'
        BY <1>5, <1>7, <2>1, CycleExits
    <2> QED BY <1>5, <1>6, <2>2 DEF RefreshInv, Grows
<1>10. CASE own
    <2>1. PipelineTyped' /\ cycle'.at = step /\ 1..staged.lean \subseteq observed'
        BY <1>2, <1>4, <1>5, <1>7, <1>10, Goes
    <2>2. CASE step = "asp"
        <3>1. staged.lean # 0 /\ Ready(staged.lean)'
            <4>1. staged.lean \in sidecars
                BY <2>2 DEF step
            <4> QED BY <1>3, <1>4, <1>5, <1>7, <1>8, <4>1, ReadyStays DEF Ready
        <3>2. Phases'
            BY <1>3, <1>7, <2>1, <2>2, <3>1
            DEF Phases, Publishing, Backing, Rolled, Observed, Whole, Following
        <3> QED BY <1>5, <1>6, <2>1, <3>2 DEF RefreshInv, Grows
    <2>3. CASE step = "rollover"
        <3>1. Phases'
            BY <1>3, <1>7, <2>1, <2>3
            DEF Phases, Publishing, Backing, Rolled, Observed, Whole, Following
        <3> QED BY <1>5, <1>6, <2>1, <3>1 DEF RefreshInv, Grows
    <2> QED BY <2>2, <2>3 DEF step
<1> QED BY <1>9, <1>10

LEMMA RolloverKeeps ==
    ASSUME RefreshInv, Rollover
    PROVE  RefreshInv'
<1>1. UNCHANGED <<leaves, indexed, packed, roots, observed, files>> /\ rolled' = leaves
    BY DEF Rollover
<1>2. cycle.at \in Whole /\ cycle.at = "rollover" /\ Then("renormalize")
      /\ "renormalize" \in Steps
    BY DEF Rollover, Whole, Steps
<1>3. /\ staged \in Staging /\ staged.lean \in Nat /\ staged.lean <= leaves
      /\ staged.tree = staged.lean /\ staged.lean >= tree /\ staged.asp <= leaves
      /\ staged.asp # 0 => staged.asp \in approvals
    BY <1>2, StagedWhole
<1>4. 1..staged.lean \subseteq observed
    BY <1>2 DEF RefreshInv, Phases, Observed
<1>5. Grows
    BY <1>1 DEF Grows, RefreshInv, ChainTyped, roots
<1>6. queue' = queue /\ triggers' = triggers
    BY <1>1, <1>2 DEF queued, files, Then, Go, Exit, RunEnds, pipeline
<1>7. PipelineTyped' /\ (cycle'.at = "renormalize" \/ Phases')
    BY <1>2, <1>5, <1>6, Thens
<1>8. FilesTyped' /\ Backed'
    BY <1>1, <1>5, FilesStay DEF files
<1>9. ASSUME cycle'.at = "renormalize"
      PROVE  Phases'
    <2>1. /\ staged' = staged /\ tree' = tree /\ leaves' = leaves
          /\ approvals' = approvals /\ observed' = observed
        BY <1>1 DEF files, published, roots
    <2> QED BY <1>1, <1>3, <1>4, <1>9, <2>1
            DEF Phases, Publishing, Backing, Rolled, Observed, Whole, Following
<1> QED BY <1>5, <1>7, <1>8, <1>9 DEF RefreshInv, Grows

\* A root is recorded of a tree whose leaves are observed and in the balance.
LEMMA RecordKeeps ==
    ASSUME RefreshInv, RecordRoot
    PROVE  RefreshInv'
<1>1. UNCHANGED <<leaves, indexed, vault, approvals, observed, files>>
    BY DEF RecordRoot
<1>2. cycle.at \in Whole /\ cycle.at = "record" /\ "sidecar" \in Steps
    BY DEF RecordRoot, Whole, Steps
<1>3. /\ staged \in Staging /\ staged.lean \in Nat /\ staged.lean <= leaves
      /\ staged.tree = staged.lean /\ staged.lean >= tree /\ staged.asp <= leaves
      /\ staged.asp # 0 => staged.asp \in approvals
    BY <1>2, StagedWhole
<1>4. 1..staged.lean \subseteq observed /\ staged.lean <= packed
    BY <1>2 DEF RefreshInv, Phases, Observed
<1>5. MinSet \in Nat /\ MinSet # 0
    BY RefreshCycleConstants
<1>6. CASE staged.lean < MinSet
    <2>1. Exit /\ known' = known /\ faults' = faults
        BY <1>6 DEF RecordRoot
    <2>2. Grows
        BY <1>1, <2>1 DEF Grows, RefreshInv, ChainTyped, vault
    <2>3. triggers' = triggers /\ queue' \subseteq Heard' /\ faults' \in Nat
        BY <1>1, <2>1, <2>2, HeardGrows
        DEF queued, Exit, RunEnds, pipeline, files, RefreshInv, PipelineTyped
    <2>4. PipelineTyped' /\ Phases'
        BY <2>1, <2>2, <2>3, CycleExits
    <2>5. FilesTyped' /\ Backed'
        BY <1>1, <2>2, FilesStay DEF files
    <2> QED BY <2>2, <2>4, <2>5 DEF RefreshInv, Grows
<1>7. CASE ~(staged.lean < MinSet)
    <2>1. known' = known \cup {staged.lean} /\ Then("sidecar") /\ staged.lean # 0
        BY <1>3, <1>5, <1>7 DEF RecordRoot
    <2>2. Grows
        <3>1. staged.lean \in Leaves
            BY <1>3, <2>1, RefreshCycleConstants DEF RefreshInv, ChainTyped, Leaves
        <3> QED BY <1>1, <2>1, <3>1 DEF Grows, RefreshInv, ChainTyped, vault
    <2>3. queue' = queue /\ triggers' = triggers
        BY <1>1, <2>1 DEF queued, files, Then, Go, Exit, RunEnds, pipeline
    <2>4. PipelineTyped' /\ (cycle'.at = "sidecar" \/ Phases')
        BY <1>2, <2>1, <2>2, <2>3, Thens
    <2>5. FilesTyped' /\ Backed'
        BY <1>1, <2>2, FilesStay DEF files
    <2>6. ASSUME cycle'.at = "sidecar"
          PROVE  Phases'
        <3>1. /\ staged' = staged /\ tree' = tree /\ leaves' = leaves
              /\ approvals' = approvals /\ observed' = observed /\ packed' = packed
            BY <1>1 DEF files, published, vault
        <3>2. Ready(staged.lean)'
            BY <1>4, <2>1, <3>1 DEF Ready
        <3> QED BY <1>3, <1>4, <2>1, <2>6, <3>1, <3>2
                DEF Phases, Publishing, Backing, Rolled, Observed, Whole, Following
    <2> QED BY <2>2, <2>4, <2>5, <2>6 DEF RefreshInv, Grows
<1> QED BY <1>6, <1>7

\* The facts about a staged tree that is ready.
LEMMA StagedReady ==
    ASSUME RefreshInv, cycle.at \in Backing
    PROVE  /\ staged \in Staging
           /\ staged.tree \in Nat /\ staged.lean \in Nat /\ staged.asp \in Nat
           /\ staged.tree <= leaves /\ staged.lean <= leaves /\ staged.asp <= leaves
           /\ staged.asp # 0 => staged.asp \in approvals
           /\ staged.lean >= tree
           /\ 1..staged.lean \subseteq observed
           /\ staged.lean # 0 /\ Ready(staged.lean)
<1>1. cycle.at \in Following /\ cycle.at \in Observed
    BY DEF Backing, Following, Whole, Observed
<1> QED BY <1>1, StagedTyped DEF RefreshInv, Phases

LEMMA SidecarKeeps ==
    ASSUME RefreshInv, WriteSidecar
    PROVE  RefreshInv'
<1>1. UNCHANGED <<chain, pipeline, queue, published, staged, asp>>
    BY DEF queued, WriteSidecar
<1>2. Grows /\ Heard' = Heard
    BY <1>1, Same
<1>3. cycle.at \in Backing /\ cycle.at \in Whole /\ Go("asp") /\ "asp" \in Steps
    BY DEF WriteSidecar, Backing, Whole, Steps
<1>4. /\ staged.lean \in Nat /\ staged.lean <= leaves /\ staged.lean >= tree
      /\ 1..staged.lean \subseteq observed
      /\ staged.lean # 0 /\ Ready(staged.lean)
    BY <1>3, StagedReady
<1>5. /\ staged \in Staging /\ staged.tree = staged.lean /\ staged.asp <= leaves
      /\ staged.asp # 0 => staged.asp \in approvals
    BY <1>3, StagedWhole
<1>6. PipelineTyped' /\ cycle'.at = "asp"
    BY <1>1, <1>2, <1>3, Goes, SpentFault DEF WriteSidecar
<1>7. sidecars' \subseteq sidecars \cup {staged.lean}
    BY DEF WriteSidecar
<1>8. /\ staged' = staged /\ tree' = tree /\ leaves' = leaves /\ known' = known
      /\ approvals' = approvals /\ observed' = observed /\ packed' = packed
      /\ lean' = lean /\ notes' = notes
    BY <1>1 DEF chain, vault, roots, published
<1>9. FilesTyped'
    BY <1>1, <1>4, <1>7, <1>8 DEF RefreshInv, FilesTyped, ChainTyped, Leaves, asp
<1>10. Backed'
    BY <1>1, <1>4, <1>7, <1>8 DEF RefreshInv, Backed, Ready, asp
<1>11. Phases'
    BY <1>4, <1>5, <1>6, <1>8
    DEF Phases, Publishing, Backing, Rolled, Observed, Whole, Following, Ready
<1> QED BY <1>2, <1>6, <1>9, <1>10, <1>11 DEF RefreshInv, Grows

LEMMA AspKeeps ==
    ASSUME RefreshInv, RefreshAsp
    PROVE  RefreshInv'
<1>1. UNCHANGED <<leaves, indexed, vault, known, observed, queue, published, sidecars, asp>>
    BY DEF queued, RefreshAsp
<1>2. cycle.at \in Backing /\ cycle.at \in Whole /\ "tree" \in Steps
    BY DEF RefreshAsp, Backing, Whole, Steps
<1>3. /\ staged.lean \in Nat /\ staged.lean <= leaves /\ staged.lean >= tree
      /\ 1..staged.lean \subseteq observed
      /\ staged.lean # 0 /\ Ready(staged.lean)
    BY <1>2, StagedReady
<1>4. /\ staged \in Staging /\ staged.tree = staged.lean /\ staged.asp <= leaves
      /\ staged.asp # 0 => staged.asp \in approvals
    BY <1>2, StagedWhole
<1>5. /\ staged' \in Staging /\ staged'.tree = staged.tree /\ staged'.lean = staged.lean
      /\ staged'.asp \in {staged.asp, staged.tree}
      /\ approvals \subseteq approvals' /\ approvals' \subseteq approvals \cup {staged.tree}
      /\ staged'.asp # 0 => staged'.asp \in approvals'
    BY <1>4 DEF RefreshAsp, Staging
<1>6. Grows
    BY <1>1, <1>3, <1>4, <1>5 DEF Grows, RefreshInv, ChainTyped, vault, Leaves
<1>7. triggers' = triggers
    BY DEF RefreshAsp, Then, Go, Exit, RunEnds, pipeline
<1>8. PipelineTyped' /\ (cycle'.at = "tree" \/ Phases')
    <2>1. CASE AspUpToDate
        BY <1>1, <1>2, <1>6, <2>1, Goes, SpentFault DEF RefreshAsp
    <2>2. CASE ~AspUpToDate
        BY <1>1, <1>2, <1>6, <1>7, <2>2, Thens DEF RefreshAsp
    <2> QED BY <2>1, <2>2
<1>9. /\ tree' = tree /\ lean' = lean /\ notes' = notes /\ leaves' = leaves
      /\ known' = known /\ packed' = packed /\ observed' = observed
    BY <1>1 DEF published, vault
<1>10. FilesTyped'
    BY <1>1, <1>3, <1>4, <1>5, <1>9 DEF RefreshInv, FilesTyped, asp
<1>11. Backed'
    BY <1>1, <1>4, <1>5, <1>9 DEF RefreshInv, Backed, Ready, asp
<1>12. ASSUME cycle'.at = "tree"
       PROVE  Phases'
    BY <1>3, <1>4, <1>5, <1>9, <1>12
    DEF Phases, Publishing, Backing, Rolled, Observed, Whole, Following, Ready
<1> QED BY <1>6, <1>8, <1>10, <1>11, <1>12 DEF RefreshInv, Grows

----------------------------------------------------------------------------
(* The script: what it publishes, and its end                              *)

LEMMA TreeKeeps ==
    ASSUME RefreshInv, PublishTree
    PROVE  RefreshInv' /\ tree' >= tree /\ lean' = lean
<1>1. UNCHANGED <<chain, pipeline, queue, lean, notes, sidecars, asp, faults>>
    BY DEF queued, PublishTree
<1>2. Grows /\ Heard' = Heard
    BY <1>1, Same
<1>3. cycle.at \in Backing /\ cycle.at \in Whole /\ Go("lean") /\ "lean" \in Steps
    BY DEF PublishTree, Backing, Whole, Steps
<1>4. /\ staged.lean \in Nat /\ staged.lean <= leaves /\ staged.lean >= tree
      /\ 1..staged.lean \subseteq observed
      /\ staged.lean # 0 /\ Ready(staged.lean)
    BY <1>3, StagedReady
<1>5. /\ staged \in Staging /\ staged.tree = staged.lean /\ staged.asp <= leaves
      /\ staged.asp # 0 => staged.asp \in approvals
    BY <1>3, StagedWhole
<1>6. /\ staged' \in Staging /\ staged'.tree = 0 /\ staged'.lean = staged.lean
      /\ staged'.asp = staged.asp /\ tree' = staged.lean
    BY <1>5 DEF PublishTree, Staging
<1>7. PipelineTyped' /\ cycle'.at = "lean"
    BY <1>1, <1>2, <1>3, Goes, SpentFault
<1>8. /\ leaves' = leaves /\ known' = known /\ leaves \in Nat
      /\ approvals' = approvals /\ observed' = observed /\ packed' = packed
    BY <1>1 DEF chain, vault, roots, RefreshInv, ChainTyped
<1>9. FilesTyped'
    BY <1>1, <1>4, <1>5, <1>6, <1>8 DEF RefreshInv, FilesTyped, asp
<1>10. Backed'
    BY <1>1, <1>4, <1>5, <1>6, <1>8 DEF RefreshInv, Backed, Ready, asp
<1>11. Phases'
    BY <1>4, <1>5, <1>6, <1>7, <1>8
    DEF Phases, Publishing, Backing, Rolled, Observed, Whole, Following, Ready
<1> QED BY <1>1, <1>2, <1>4, <1>6, <1>7, <1>9, <1>10, <1>11 DEF RefreshInv, Grows

LEMMA LeanKeeps ==
    ASSUME RefreshInv, PublishLean
    PROVE  RefreshInv' /\ tree' = tree /\ lean' >= tree
<1>1. UNCHANGED <<chain, pipeline, queue, tree, sidecars, asp, faults>>
    BY DEF queued, PublishLean
<1>2. Grows /\ Heard' = Heard
    BY <1>1, Same
<1>3. cycle.at \in Backing /\ Go("set") /\ "set" \in Steps
    BY DEF PublishLean, Backing, Steps
<1>4. /\ staged \in Staging /\ staged.lean \in Nat /\ staged.lean <= leaves
      /\ staged.lean >= tree /\ staged.tree \in Nat /\ staged.tree <= leaves
      /\ staged.asp <= leaves
      /\ staged.asp # 0 => staged.asp \in approvals
      /\ Ready(staged.lean)
    BY <1>3, StagedReady
<1>5. /\ staged' \in Staging /\ staged'.tree = staged.tree /\ staged'.lean = 0
      /\ staged'.asp = staged.asp /\ lean' = staged.lean /\ notes' \subseteq Plain
    BY <1>4 DEF PublishLean, Staging
<1>6. PipelineTyped' /\ cycle'.at = "set"
    BY <1>1, <1>2, <1>3, Goes, SpentFault
<1>7. /\ leaves' = leaves /\ known' = known /\ leaves \in Nat
      /\ approvals' = approvals /\ observed' = observed /\ packed' = packed
    BY <1>1 DEF chain, vault, roots, RefreshInv, ChainTyped
<1>8. FilesTyped'
    BY <1>1, <1>4, <1>5, <1>7 DEF RefreshInv, FilesTyped, asp
<1>9. staged.tree = 0
    BY DEF PublishLean, RefreshInv, Phases
<1>10. Backed'
    BY <1>1, <1>4, <1>5, <1>7, <1>9 DEF RefreshInv, Backed, Ready, asp
<1>11. Phases'
    BY <1>4, <1>5, <1>6, <1>7
    DEF Phases, Publishing, Backing, Rolled, Observed, Whole, Following
<1> QED BY <1>1, <1>2, <1>4, <1>5, <1>6, <1>8, <1>10, <1>11 DEF RefreshInv, Grows

LEMMA SetKeeps ==
    ASSUME RefreshInv, PublishSet \/ PublishApproved \/ PublishAspSidecar
    PROVE  RefreshInv' /\ published' = published
<1> DEFINE step == IF cycle.at = "set" THEN "approved"
                   ELSE IF cycle.at = "approved" THEN "recorded" ELSE "prune"
<1>1. UNCHANGED <<chain, pipeline, queue, published, sidecars, faults>>
    BY DEF queued, PublishSet, PublishApproved, PublishAspSidecar
<1>2. Grows /\ Heard' = Heard
    BY <1>1, Same
<1>3. /\ cycle.at \in {"set", "approved", "recorded"} /\ cycle.at \in Publishing
      /\ Go(step) /\ step \in {"approved", "recorded", "prune"} /\ step \in Steps
    BY DEF PublishSet, PublishApproved, PublishAspSidecar, Publishing, Steps
<1>4. /\ staged \in Staging /\ staged.asp \in Nat /\ staged.asp <= leaves
      /\ staged.tree <= leaves /\ staged.lean <= leaves
      /\ staged.asp # 0 => staged.asp \in approvals
    BY <1>3, StagedTyped
<1> HIDE DEF step
<1>5. PipelineTyped' /\ cycle'.at = step
    BY <1>1, <1>2, <1>3, Goes, SpentFault
<1>6. step # "prune" => staged' = staged
    BY DEF PublishSet, PublishApproved, PublishAspSidecar, step
<1>7. staged' = staged \/ staged' = Nil
    BY DEF PublishSet, PublishApproved, PublishAspSidecar
<1>8. /\ aspSet' \in 0..leaves /\ approved' \in 0..leaves /\ aspSidecars' \subseteq Leaves
      /\ aspSet' # 0 => aspSet' \in approvals
    <2>1. /\ aspSet \in 0..leaves /\ approved \in 0..leaves /\ aspSidecars \subseteq Leaves
          /\ aspSet # 0 => aspSet \in approvals
        BY DEF RefreshInv, FilesTyped, Backed
    <2>2. staged.asp \in 0..leaves /\ (staged.asp # 0 => staged.asp \in Leaves)
        BY <1>4, RefreshCycleConstants DEF RefreshInv, ChainTyped, Leaves
    <2>3. /\ aspSet' = aspSet \/ aspSet' = staged.asp
          /\ approved' = approved \/ approved' = staged.asp
          /\ \/ aspSidecars' = aspSidecars
             \/ staged.asp # 0 /\ aspSidecars' = aspSidecars \cup {staged.asp}
        BY DEF PublishSet, PublishApproved, PublishAspSidecar, NewSet
    <2> QED BY <1>4, <2>1, <2>2, <2>3
<1>9. /\ leaves' = leaves /\ known' = known /\ approvals' = approvals
      /\ observed' = observed /\ packed' = packed
      /\ tree' = tree /\ lean' = lean /\ notes' = notes
    BY <1>1 DEF chain, vault, roots, published
<1>10. FilesTyped'
    BY <1>1, <1>7, <1>8, <1>9 DEF RefreshInv, FilesTyped
<1>11. Backed'
    BY <1>1, <1>7, <1>8, <1>9 DEF RefreshInv, Backed, Ready
<1>12. Phases'
    <2>1. CASE step = "prune"
        BY <1>5, <2>1, Between
    <2>2. CASE step \in {"approved", "recorded"}
        BY <1>4, <1>5, <1>6, <1>9, <2>2
        DEF Phases, Publishing, Backing, Rolled, Observed, Whole, Following
    <2> QED BY <1>3, <2>1, <2>2
<1> QED BY <1>1, <1>2, <1>5, <1>10, <1>11, <1>12 DEF RefreshInv, Grows

\* The script ends, its work done or not.
LEMMA EndKeeps ==
    ASSUME RefreshInv, Prune \/ StepFails \/ PruneInterrupted
    PROVE  RefreshInv' /\ published' = published
<1>1. /\ UNCHANGED <<chain, published, staged, sidecars, asp>> /\ Exit
      /\ queue' \subseteq queue
    BY DEF queued, Prune, StepFails, PruneInterrupted, files, Unserved
<1>2. Grows /\ Heard' = Heard
    BY <1>1, Same
<1>3. triggers' = triggers
    BY <1>1 DEF Exit, RunEnds, pipeline
<1>4. faults' \in Nat
    BY SpentFault DEF Prune, StepFails, PruneInterrupted
<1>5. queue' \subseteq Heard'
    BY <1>1, <1>2 DEF RefreshInv, PipelineTyped
<1>6. PipelineTyped' /\ Phases'
    BY <1>1, <1>2, <1>3, <1>4, <1>5, CycleExits
<1> QED BY <1>1, <1>2, <1>6, FilesStay DEF RefreshInv, Grows

----------------------------------------------------------------------------
(* The whole                                                               *)

LEMMA InitHolds ==
    Init => RefreshInv
<1> SUFFICES ASSUME Init PROVE RefreshInv
    OBVIOUS
<1>1. ChainTyped
    BY RefreshCycleConstants DEF Init, ChainTyped
<1>2. PipelineTyped
    BY RefreshCycleConstants DEF Init, PipelineTyped, Cycles, NoCycle, Steps
<1>3. FilesTyped /\ Backed
    BY DEF Init, FilesTyped, Backed, Ready
<1>4. Phases
    BY DEF Init, NoCycle, Phases, Publishing, Backing, Rolled, Observed, Whole, Following
<1> QED BY <1>1, <1>2, <1>3, <1>4 DEF RefreshInv

\* Whatever a step publishes is ahead of what was public.
PublishedAhead == tree' >= tree /\ (lean' >= lean \/ lean' >= tree)

LEMMA Unpublished ==
    ASSUME RefreshInv, published' = published
    PROVE  PublishedAhead
BY DEF PublishedAhead, published, RefreshInv, FilesTyped, ChainTyped

LEMMA StepKeeps ==
    ASSUME RefreshInv, [Next]_vars
    PROVE  RefreshInv' /\ PublishedAhead
<1>1. CASE ScriptStep
    <2>1. CASE PublishTree
        BY <2>1, TreeKeeps DEF PublishedAhead, RefreshInv, FilesTyped, ChainTyped
    <2>2. CASE PublishLean
        BY <2>2, LeanKeeps DEF PublishedAhead, RefreshInv, FilesTyped, ChainTyped
    <2>3. CASE PublishSet \/ PublishApproved \/ PublishAspSidecar \/ Prune
        BY <2>3, SetKeeps, EndKeeps, Unpublished
    <2>4. CASE ~(PublishTree \/ PublishLean \/ PublishSet \/ PublishApproved
                 \/ PublishAspSidecar \/ Prune)
        <3>1. RefreshInv'
            BY <1>1, <2>4, NormalizeKeeps, RepackKeeps, PersistKeeps, StageKeeps,
               BuildKeeps, ObserveKeeps, RolloverKeeps, RecordKeeps, SidecarKeeps,
               AspKeeps DEF ScriptStep
        <3>2. published' = published
            BY <1>1, <2>4 DEF ScriptStep, Normalize, Repack, PersistHashes, Stage, Build,
               ObserveLeaves, Rollover, RecordRoot, WriteSidecar, RefreshAsp, files
        <3> QED BY <3>1, <3>2, Unpublished
    <2> QED BY <2>1, <2>2, <2>3, <2>4
<1>2. CASE TimerFires \/ RunStarts
    <2>1. PICK triggered \in BOOLEAN :
            StartCycle(triggered) /\ (triggered => inFlight # Nil)
        BY <1>2 DEF TimerFires, RunStarts
    <2>2. tree' >= tree /\ lean' >= lean
        BY <2>1 DEF StartCycle, Recover, Recoverable, published, RefreshInv, FilesTyped,
                    ChainTyped, Staging
    <2> QED BY <2>1, <2>2, StartKeeps DEF PublishedAhead
<1>3. CASE LeafConfirmed \/ IndexerCatchesUp \/ VaultPays
    BY <1>3, ChainKeeps, Unpublished DEF LeafConfirmed, IndexerCatchesUp, VaultPays, files
<1>4. CASE (\E h \in Hashes : Trigger(h)) \/ RunSkipped \/ CoordinatorCrash
    BY <1>4, PipelineKeeps, Unpublished DEF Trigger, RunSkipped, CoordinatorCrash, files
<1>5. CASE StepFails \/ PruneInterrupted
    BY <1>5, EndKeeps, Unpublished
<1>6. CASE UNCHANGED vars
    <2>1. Grows /\ Heard' = Heard /\ UNCHANGED <<files, pipeline, cycle, faults>>
        BY <1>6, Same DEF vars
    <2>2. PipelineTyped'
        BY <2>1 DEF queued, RefreshInv, PipelineTyped, Cycles, files, pipeline
    <2>3. FilesTyped' /\ Backed' /\ Phases' /\ published' = published
        BY <2>1, FilesStay, PhasesStay DEF files
    <2> QED BY <2>1, <2>2, <2>3, Unpublished DEF RefreshInv, Grows
<1> QED BY <1>1, <1>2, <1>3, <1>4, <1>5, <1>6 DEF Next

\* Only persisting and pruning write the queue, and its last line with it.
QueueEnds == unended \in queue \cup {Nil, Torn}

LEMMA QueueEndsKept ==
    ASSUME QueueEnds, [Next]_vars
    PROVE  QueueEnds'
<1>1. CASE PersistHashes
    <2>1. CASE cycle.hashes = {}
        BY <1>1, <2>1 DEF PersistHashes, queued, QueueEnds
    <2>2. CASE cycle.hashes # {}
        BY <1>1, <2>2 DEF PersistHashes, Joined, QueueEnds
    <2> QED BY <2>1, <2>2
<1>2. CASE Prune \/ PruneInterrupted
    BY <1>2 DEF Prune, PruneInterrupted, QueueEnds
<1>3. CASE UNCHANGED queued
    BY <1>3 DEF queued, QueueEnds
<1>4. CASE ScriptStep
    BY <1>1, <1>2, <1>3, <1>4 DEF ScriptStep, Normalize, Repack, Stage, Build, ObserveLeaves,
       Rollover, RecordRoot, WriteSidecar, RefreshAsp, PublishTree, PublishLean, PublishSet,
       PublishApproved, PublishAspSidecar, files
<1>5. CASE TimerFires \/ RunStarts
    BY <1>3, <1>5 DEF TimerFires, RunStarts, StartCycle
<1>6. CASE UNCHANGED vars
    BY <1>3, <1>6 DEF vars, files
<1>7. CASE \/ LeafConfirmed \/ IndexerCatchesUp \/ VaultPays
           \/ (\E h \in Hashes : Trigger(h)) \/ RunSkipped
           \/ CoordinatorCrash \/ StepFails
    BY <1>3, <1>7 DEF LeafConfirmed, IndexerCatchesUp, VaultPays, Trigger, RunSkipped,
       CoordinatorCrash, StepFails, files
<1> QED BY <1>2, <1>4, <1>5, <1>6, <1>7 DEF Next

\* The inductive invariant holds in every behaviour.
LEMMA Inductive ==
    Spec => []RefreshInv
BY InitHolds, StepKeeps, PTL DEF Spec

LEMMA EndsInductive ==
    Spec => []QueueEnds
<1>1. Init => QueueEnds
    BY DEF Init, QueueEnds
<1> QED BY <1>1, QueueEndsKept, PTL DEF Spec

----------------------------------------------------------------------------
(* The theorems                                                            *)

\* Chain, pipeline, cycle and files have their types; no file, no queue and no
\* request knows of a leaf before it is confirmed.
THEOREM RefreshTypes ==
    Spec => []RefreshTypeOK
<1>1. RefreshInv /\ QueueEnds => RefreshTypeOK
    <2> SUFFICES ASSUME RefreshInv, QueueEnds PROVE RefreshTypeOK
        OBVIOUS
    <2>1. Heard \subseteq Hashes
        BY RefreshCycleConstants DEF RefreshInv, ChainTyped, Heard, Hashes, Leaves
    <2>2. cycle \in [at : Steps, triggered : BOOLEAN, hashes : SUBSET Hashes,
                     txs : SUBSET Hashes, skips : SUBSET Others]
        BY <2>1 DEF RefreshInv, PipelineTyped, Cycles
    <2>3. staged \in [tree : 0..leaves, lean : 0..leaves, notes : SUBSET Plain,
                      asp : 0..leaves] \cup {Nil}
        BY DEF RefreshInv, FilesTyped, ChainTyped, Staging
    <2>4. inFlight \in (SUBSET Hashes) \cup {Nil} /\ pending \in (SUBSET Hashes) \cup {Nil}
        BY <2>1 DEF RefreshInv, PipelineTyped
    <2> QED BY <2>1, <2>2, <2>3, <2>4
            DEF RefreshInv, QueueEnds, ChainTyped, PipelineTyped, FilesTyped, RefreshTypeOK
<1> QED BY <1>1, Inductive, EndsInductive, PTL

\* A tree is public only when its root is recorded and every leaf of it is
\* observed, rolled over and normalised, through every interruption and recovery
\* of a cycle (refresh_known_root_cycle.sh).
THEOREM PublicIsReady ==
    Spec => []PublishedIsReady
<1>1. RefreshInv => PublishedIsReady
    BY DEF RefreshInv, Backed, PublishedIsReady, Served
<1> QED BY <1>1, Inductive, PTL

\* No cycle, recovery or rebuild takes a published leaf back.
THEOREM PublicGrows ==
    Spec => PublishedGrows
<1>1. RefreshInv /\ [Next]_vars =>
        [tree' >= tree /\ (lean' >= lean \/ lean' >= tree)]_vars
    BY StepKeeps DEF PublishedAhead
<1> QED BY <1>1, Inductive, PTL DEF Spec, PublishedGrows

----------------------------------------------------------------------------
(* The withdrawal                                                          *)

Files == [Slots -> [sequence : Nat, bound : Nat]]

ScriptSteps ==
    {"idle", "read", "decrypt", "prove", "seal", "catchup", "step", "start", "round2",
     "finalize", "payload", "witness", "proof", "put", "attest", "attestation",
     "submit", "split", "step2b", "coordinator", "after"}

ScriptRuns ==
    [at : ScriptSteps, note : Notes \cup {Nil}, target : Nat, read : Nat, step : Nat,
     txs : SUBSET Nat, require : BOOLEAN, outcome : Outcomes \cup {Nil}]

\* The workers whose files have left the exit at n behind.
Past(f, n) == {s \in Slots : f[s].sequence > n}

\* No file is ahead of the chain.
VaultSound ==
    /\ sequence \in Nat /\ balance \in Nat /\ recorded \subseteq Nat
    /\ file \in Files
    /\ \A s \in Slots : file[s].sequence <= sequence

\* The exit of the run r is on the chain.
Exited(r) == r.note \in spent /\ r.target < sequence

RunSound ==
    /\ script \in ScriptRuns
    /\ script.target <= sequence
    /\ script.at = "after" => Exited(script)
    /\ script.outcome = "ok" =>
        /\ script.at = "idle"
        /\ Exited(script)
        /\ script.require => Cardinality(Past(file, script.target)) >= Threshold

ScriptInv == VaultSound /\ RunSound

\* The chain and the files only go forward.
Forward ==
    /\ VaultSound'
    /\ sequence' >= sequence
    /\ spent \subseteq spent'
    /\ \A s \in Slots : file'[s].sequence >= file[s].sequence

\* What WithdrawScriptConstants says of the roster.
LEMMA Roster ==
    /\ IsFiniteSet(Slots) /\ Slots # {}
    /\ Threshold \in Nat
<1>1. IsFiniteSet(Slots) /\ Threshold \in 1..Cardinality(Slots)
  BY WithdrawScriptConstants
<1>2. Cardinality(Slots) \in Nat /\ (Slots = {} => Cardinality(Slots) = 0)
  BY <1>1, FS_CardinalityType, FS_EmptySet
<1> QED BY <1>1, <1>2

LEMMA PastIsFinite ==
    ASSUME NEW f, NEW n
    PROVE  IsFiniteSet(Past(f, n))
<1>1. Past(f, n) \subseteq Slots /\ IsFiniteSet(Slots)
  BY Roster DEF Past
<1> QED BY <1>1, FS_Subset

LEMMA PastGrows ==
    ASSUME VaultSound, Forward, NEW n \in Nat
    PROVE  Cardinality(Past(file', n)) >= Cardinality(Past(file, n))
<1>1. IsFiniteSet(Past(file', n))
  BY PastIsFinite
<1>2. Past(file, n) \subseteq Past(file', n)
  BY DEF Past, Forward, VaultSound, Files
<1>3. IsFiniteSet(Past(file, n)) /\ Cardinality(Past(file, n)) <= Cardinality(Past(file', n))
  BY <1>1, <1>2, FS_Subset
<1>4. Cardinality(Past(file, n)) \in Nat /\ Cardinality(Past(file', n)) \in Nat
  BY <1>1, <1>3, FS_CardinalityType
<1> QED BY <1>3, <1>4

LEMMA NothingMoves ==
    ASSUME VaultSound, UNCHANGED <<sequence, balance, spent, recorded, file>>
    PROVE  Forward
BY DEF VaultSound, Forward, Files

\* A run that is left alone stays sound while the vault goes on.
LEMMA RunStays ==
    ASSUME ScriptInv, Forward, script' = script
    PROVE  ScriptInv'
<1> DEFINE n == script.target
<1>1. n \in Nat
  BY DEF ScriptInv, RunSound, ScriptRuns
<1>2. IsFiniteSet(Past(file, n)) /\ IsFiniteSet(Past(file', n))
  BY PastIsFinite
<1>3. /\ Cardinality(Past(file, n)) \in Nat /\ Cardinality(Past(file', n)) \in Nat
      /\ Threshold \in Nat
  BY <1>2, FS_CardinalityType, Roster
<1>4. Cardinality(Past(file', n)) >= Cardinality(Past(file, n))
  BY <1>1, PastGrows DEF ScriptInv
<1>5. Cardinality(Past(file, n)) >= Threshold => Cardinality(Past(file', n)) >= Threshold
  BY <1>3, <1>4
<1>6. Exited(script) => Exited(script)'
  BY <1>1 DEF Exited, Forward, ScriptInv, VaultSound
<1>7. n <= sequence'
  BY <1>1 DEF ScriptInv, VaultSound, RunSound, Forward
<1> QED BY <1>5, <1>6, <1>7 DEF ScriptInv, RunSound, Forward

\* So does one that goes on, but not to the step after its exit, ...
LEMMA RunOn ==
    ASSUME ScriptInv, Forward, script.at # "idle", script' \in ScriptRuns,
           script'.at # "after", script'.outcome = script.outcome,
           script'.target = script.target
    PROVE  ScriptInv'
<1>1. script.target <= sequence'
  BY DEF ScriptInv, VaultSound, RunSound, Forward, ScriptRuns
<1>2. script.outcome # "ok"
  BY DEF ScriptInv, RunSound
<1> QED BY <1>1, <1>2 DEF ScriptInv, RunSound, Forward

LEMMA RunGoes ==
    ASSUME ScriptInv, Forward, script.at # "idle",
           NEW step \in ScriptSteps \ {"after"}, GoTo(step)
    PROVE  ScriptInv'
BY DEF ScriptInv, VaultSound, RunSound, Forward, ScriptRuns, GoTo

\* ... and one that ends without success.
LEMMA RunFails ==
    ASSUME ScriptInv, Forward,
           NEW outcome \in {"failed", "unsynced", "short"}, EndWith(outcome)
    PROVE  ScriptInv'
<1>1. script' = [NoRun EXCEPT !.outcome = outcome]
  BY DEF EndWith
<1>2. /\ script' \in ScriptRuns
      /\ script'.target = 0 /\ script'.at = "idle" /\ script'.outcome = outcome
  <2>1. /\ script' = [at |-> "idle", note |-> Nil, target |-> 0, read |-> 0, step |-> 0,
                       txs |-> {}, require |-> FALSE, outcome |-> outcome]
    BY <1>1 DEF NoRun
  <2>2. outcome \in Outcomes \cup {Nil} /\ "idle" \in ScriptSteps
    BY DEF Outcomes, ScriptSteps
  <2> QED BY <2>1, <2>2 DEF ScriptRuns
<1> QED BY <1>2 DEF ScriptInv, VaultSound, RunSound, Forward

LEMMA CheckKeeps ==
    ASSUME ScriptInv, NEW at \in ScriptSteps \ {"idle"},
           NEW holds \in BOOLEAN, NEW next \in ScriptSteps \ {"after"},
           NEW outcome \in {"failed", "unsynced"},
           Check(at, holds, next, outcome)
    PROVE  ScriptInv'
<1>1. Forward
  BY NothingMoves DEF ScriptInv, Check, bridge, cluster
<1> QED BY <1>1, RunGoes, RunFails DEF Check

LEMMA LowestFile ==
    ASSUME VaultSound
    PROVE  Min(Initialized) \in Nat
<1> DEFINE I == Initialized
<1>1. Slots # {}
  BY Roster
<1>2. I \subseteq Nat /\ I # {}
  BY <1>1 DEF VaultSound, Files, Initialized
<1>3. \E n \in I : \A m \in I : n <= m
  BY <1>2, Least
<1> HIDE DEF I
<1>4. Min(I) \in I
  BY <1>3 DEF Min
<1> QED BY <1>2, <1>4 DEF I

\* The workers follow an exit that is on the chain after the step.
LEMMA ResyncKeeps ==
    ASSUME VaultSound, NEW n \in Nat, NEW okSlots, Resync(n, okSlots),
           sequence' \in Nat, sequence' >= sequence, n < sequence'
    PROVE  /\ file' \in Files
           /\ \A s \in Slots : file'[s].sequence \in file[s].sequence..sequence'
           /\ okSlots \subseteq Past(file', n)
<1>1. PICK reached \in SUBSET Up : \E heard \in SUBSET reached :
          /\ okSlots = {t \in heard : Follows(file[t], n)}
          /\ file' = Resynced(reached, n)
  BY DEF Resync
<1>2. /\ okSlots \subseteq {t \in reached : Follows(file[t], n)}
      /\ reached \subseteq Slots
      /\ file' = [t \in Slots |-> IF t \in reached /\ Follows(file[t], n)
                                  THEN [sequence |-> n + 1, bound |-> n + 1]
                                  ELSE file[t]]
  BY <1>1 DEF Resynced, Up
<1>3. ASSUME NEW s \in Slots
      PROVE  /\ file'[s] \in [sequence : Nat, bound : Nat]
             /\ file'[s].sequence \in file[s].sequence..sequence'
             /\ s \in okSlots => file'[s].sequence > n
  <2>1. file[s] \in [sequence : Nat, bound : Nat] /\ file[s].sequence <= sequence
    BY DEF VaultSound, Files
  <2>2. CASE s \in reached /\ Follows(file[s], n)
    <3>1. file'[s] = [sequence |-> n + 1, bound |-> n + 1]
      BY <1>2, <2>2
    <3>2. file[s].sequence <= n + 1
      BY <2>1, <2>2 DEF Follows
    <3> QED BY <2>1, <3>1, <3>2
  <2>3. CASE ~(s \in reached /\ Follows(file[s], n))
    <3>1. file'[s] = file[s] /\ s \notin okSlots
      BY <1>2, <2>3
    <3> QED BY <2>1, <3>1 DEF VaultSound
  <2> QED BY <2>2, <2>3
<1>4. file' \in Files
  BY <1>2, <1>3 DEF Files
<1>5. okSlots \subseteq Past(file', n)
  BY <1>2, <1>3 DEF Past
<1> QED BY <1>3, <1>4, <1>5

\* So the files go forward with the chain.
LEMMA ResyncForward ==
    ASSUME VaultSound, NEW n \in Nat, NEW okSlots, Resync(n, okSlots),
           n < sequence', sequence' \in {sequence, sequence + 1}, balance' \in Nat,
           spent \subseteq spent', recorded' \subseteq Nat
    PROVE  Forward /\ okSlots \subseteq Past(file', n)
<1>1. sequence' \in Nat /\ sequence' >= sequence
  BY DEF VaultSound
<1>2. /\ file' \in Files
      /\ \A s \in Slots : file'[s].sequence \in file[s].sequence..sequence'
      /\ okSlots \subseteq Past(file', n)
  BY <1>1, ResyncKeeps
<1>3. \A s \in Slots : file[s].sequence \in Nat
  BY DEF VaultSound, Files
<1> QED BY <1>1, <1>2, <1>3 DEF Forward, VaultSound

----------------------------------------------------------------------------
(* Its steps                                                               *)

LEMMA StartKeepsRun ==
    ASSUME ScriptInv, NEW note \in Notes,
           StartFor(note)
    PROVE  ScriptInv'
<1>1. PICK require \in BOOLEAN : Start(note, require)
  BY DEF StartFor
<1>2. Forward
  BY <1>1, NothingMoves
     DEF ScriptInv, Start, bridge, cluster
<1>3. script' = [at |-> "read", note |-> note, target |-> sequence, read |-> 0,
                 step |-> 0, txs |-> {}, require |-> require, outcome |-> Nil]
  BY <1>1 DEF Start, NoRun
<1>4. sequence \in Nat /\ sequence <= sequence'
  BY <1>2 DEF ScriptInv, VaultSound, Forward
<1>5. script' \in ScriptRuns
  BY <1>3, <1>4 DEF ScriptRuns, ScriptSteps
<1>6. Nil # "ok"
  BY WithdrawScriptConstants DEF Outcomes
<1> QED BY <1>2, <1>3, <1>4, <1>5, <1>6 DEF ScriptInv, RunSound, Forward

LEMMA ChecksKeep ==
    ASSUME ScriptInv,
           \/ Decrypt \/ Prove \/ Seal
           \/ StepUnknown \/ StepsDone
           \/ StartRound \/ Round2 \/ Finalize
           \/ BuildPayload \/ ProveWithdraw
           \/ PrepareProof \/ PreparePayload
           \/ FrostAttest \/ PrepareAttestation
           \/ Step2a
    PROVE  ScriptInv'
<1>1. PICK at \in ScriptSteps \ {"idle"}, holds \in BOOLEAN,
           next \in ScriptSteps \ {"after"}, outcome \in {"failed", "unsynced"} :
         Check(at, holds, next, outcome)
  BY DEF Decrypt, Prove, Seal,
         StepUnknown, StepsDone,
         StartRound, Round2, Finalize,
         BuildPayload, ProveWithdraw,
         PrepareProof, PreparePayload,
         FrostAttest, PrepareAttestation, Step2a,
         QuorumSynced, Spendable, ScriptSteps
<1> QED BY <1>1, CheckKeeps

LEMMA CatchUpKeeps ==
    ASSUME ScriptInv,
           ReadChain \/ CatchUp \/ ChoosePath
    PROVE  ScriptInv'
<1>1. Forward
  BY NothingMoves DEF ScriptInv, ReadChain, CatchUp,
     ChoosePath, bridge, cluster
<1>2. script.at # "idle"
  BY DEF ReadChain, CatchUp, ChoosePath
<1>3. CASE ReadChain
  <2>1. script' = [script EXCEPT !.at = "decrypt", !.read = balance]
    BY <1>3 DEF ReadChain
  <2>2. balance \in Nat /\ "decrypt" \in ScriptSteps
    BY DEF ScriptInv, VaultSound, ScriptSteps
  <2>3. /\ script' \in ScriptRuns /\ script'.at = "decrypt"
        /\ script'.outcome = script.outcome /\ script'.target = script.target
    BY <2>1, <2>2 DEF ScriptInv, RunSound, ScriptRuns
  <2> QED BY <1>1, <1>2, <2>3, RunOn
<1>4. CASE CatchUp
  <2> DEFINE low == Min(Initialized)
  <2>1. low \in Nat
    BY LowestFile DEF ScriptInv
  <2>2. CASE GoTo("start")
    <3>1. "start" \in ScriptSteps \ {"after"}
      BY DEF ScriptSteps
    <3> QED BY <1>1, <1>2, <2>2, <3>1, RunGoes
  <2>3. CASE script' = [script EXCEPT !.at = "step", !.txs = recorded, !.step = low]
    <3> HIDE DEF low
    <3>1. recorded \subseteq Nat /\ "step" \in ScriptSteps
      BY DEF ScriptInv, VaultSound, ScriptSteps
    <3>2. /\ script' \in ScriptRuns /\ script'.at = "step"
          /\ script'.outcome = script.outcome /\ script'.target = script.target
      BY <2>1, <2>3, <3>1 DEF ScriptInv, RunSound, ScriptRuns
    <3> QED BY <1>1, <1>2, <3>2, RunOn
  <2> QED BY <1>4, <2>2, <2>3 DEF CatchUp
<1>5. CASE ChoosePath
  <2>1. PICK path \in Paths : GoTo(path)
    BY <1>5 DEF ChoosePath
  <2>2. path \in ScriptSteps \ {"after"}
    BY WithdrawScriptConstants DEF ScriptSteps
  <2> QED BY <1>1, <1>2, <2>1, <2>2, RunGoes
<1> QED BY <1>3, <1>4, <1>5

LEMMA StepResyncsKeeps ==
    ASSUME ScriptInv, StepResyncs
    PROVE  ScriptInv'
<1>1. PICK okSlots \in SUBSET Up :
          /\ Resync(script.step, okSlots)
          /\ IF Cardinality(okSlots) < Threshold
             THEN EndWith("unsynced")
             ELSE script' = [script EXCEPT !.step = @ + 1]
  BY DEF StepResyncs
<1>2. /\ script.at = "step" /\ script.step < script.target
      /\ UNCHANGED <<sequence, balance, spent, recorded>>
  BY DEF StepResyncs, bridge
<1>3. /\ script.step \in Nat /\ script.target \in Nat /\ script.target <= sequence
      /\ sequence \in Nat /\ balance \in Nat /\ recorded \subseteq Nat
  BY DEF ScriptInv, RunSound, ScriptRuns, VaultSound
<1>4. Forward
  BY <1>1, <1>2, <1>3, ResyncForward DEF ScriptInv
<1>5. CASE EndWith("unsynced")
  BY <1>4, <1>5, RunFails
<1>6. CASE script' = [script EXCEPT !.step = @ + 1]
  BY <1>2, <1>3, <1>4, <1>6
     DEF ScriptInv, VaultSound, RunSound, Forward, ScriptRuns
<1> QED BY <1>1, <1>5, <1>6

\* Counting the exit of x, the chain goes forward.
LEMMA SettlesForward ==
    ASSUME VaultSound, NEW x, Settles(x),
           UNCHANGED <<recorded, file>>
    PROVE  Forward
BY DEF Settles, Exits, Forward, VaultSound, Files

\* What the two steps that submit leave of a run.
Submitted(r) ==
    /\ r \in ScriptRuns /\ r.at = "after" /\ r.outcome # "ok"
    /\ r.note = script.note /\ r.target = script.target

LEMMA GoesAfter ==
    ASSUME ScriptInv, script.at # "idle", GoTo("after")
    PROVE  Submitted(script')
<1>1. "after" \in ScriptSteps
  BY DEF ScriptSteps
<1> QED BY <1>1 DEF Submitted, ScriptInv, RunSound, ScriptRuns, GoTo

\* The exit of the run has been counted at its target.
LEMMA SubmittedKeeps ==
    ASSUME ScriptInv, Forward, Transfers(script),
           Settles(script), Submitted(script')
    PROVE  ScriptInv'
<1>1. /\ script.target \in Nat /\ script.target = sequence
      /\ sequence' = sequence + 1 /\ script.note \in spent'
  BY DEF ScriptInv, RunSound, ScriptRuns, Transfers, Spendable,
         Settles, Exits
<1> QED BY <1>1 DEF ScriptInv, Submitted, RunSound, Exited, Forward

LEMMA Step2bKeeps ==
    ASSUME ScriptInv, Step2b
    PROVE  ScriptInv'
<1>1. UNCHANGED <<recorded, file>> /\ script.at = "step2b"
  BY DEF Step2b, cluster
<1>2. CASE Transfers(script)
  <2>1. Settles(script) /\ GoTo("after")
    BY <1>2 DEF Step2b
  <2>2. Forward
    BY <1>1, <2>1, SettlesForward DEF ScriptInv
  <2> QED BY <1>1, <1>2, <2>1, <2>2, GoesAfter, SubmittedKeeps
<1>3. CASE ~Transfers(script)
  <2>1. EndWith("failed") /\ UNCHANGED <<sequence, balance, spent>>
    BY <1>3 DEF Step2b
  <2> QED BY <1>1, <2>1, NothingMoves, RunFails DEF ScriptInv
<1> QED BY <1>2, <1>3

LEMMA SubmitKeeps ==
    ASSUME ScriptInv, Submit
    PROVE  ScriptInv'
<1>1. script.at = "coordinator"
  BY DEF Submit
<1>2. CASE Transfers(script)
  <2>1. /\ Settles(script) /\ GoTo("after")
        /\ recorded' = recorded \cup {script.target}
    BY <1>2 DEF Submit
  <2>2. PICK okSlots \in SUBSET Up :
            Resync(script.target, okSlots)
    BY <1>2 DEF Submit
  <2>3. /\ script.target \in Nat /\ script.target = sequence
        /\ sequence' = sequence + 1 /\ balance' = balance + 1 /\ spent \subseteq spent'
    BY <1>2, <2>1 DEF ScriptInv, RunSound, ScriptRuns, Transfers,
       Spendable, Settles, Exits
  <2>4. balance' \in Nat /\ recorded' \subseteq Nat /\ script.target < sequence'
    BY <2>1, <2>3 DEF ScriptInv, VaultSound
  <2>5. Forward
    BY <2>2, <2>3, <2>4, ResyncForward DEF ScriptInv
  <2> QED BY <1>1, <1>2, <2>1, <2>5, GoesAfter, SubmittedKeeps
<1>3. CASE ~Transfers(script)
  <2>1. /\ EndWith("failed")
        /\ UNCHANGED <<sequence, balance, spent, recorded, file>>
    BY <1>3 DEF Submit, cluster
  <2> QED BY <2>1, NothingMoves, RunFails DEF ScriptInv
<1> QED BY <1>2, <1>3

\* Exit code 0 with EUNOMA_E2E_REQUIRE_RESYNC: the okSlots are past the exit.
LEMMA ResyncAfterKeeps ==
    ASSUME ScriptInv, ResyncAfter
    PROVE  ScriptInv'
<1>1. PICK okSlots \in SUBSET Up :
          /\ Resync(script.target, okSlots)
          /\ EndWith(IF script.require /\ ~Enough(okSlots)
                             THEN "short" ELSE "ok")
  BY DEF ResyncAfter
<1>2. script.at = "after" /\ UNCHANGED <<sequence, balance, spent, recorded>>
  BY DEF ResyncAfter, bridge
<1>3. /\ Exited(script) /\ script.target \in Nat /\ sequence \in Nat
      /\ balance \in Nat /\ recorded \subseteq Nat
  BY <1>2 DEF ScriptInv, RunSound, ScriptRuns, VaultSound
<1>4. Forward /\ okSlots \subseteq Past(file', script.target)
  BY <1>1, <1>2, <1>3, ResyncForward DEF ScriptInv, Exited
<1>5. CASE script.require /\ ~Enough(okSlots)
  BY <1>1, <1>4, <1>5, RunFails
<1>6. CASE ~(script.require /\ ~Enough(okSlots))
  <2>1. script' = [script EXCEPT !.at = "idle", !.outcome = "ok", !.read = 0,
                                 !.step = 0, !.txs = {}]
    BY <1>1, <1>6 DEF EndWith
  <2>2. /\ script' \in ScriptRuns /\ script'.at = "idle"
        /\ script'.note = script.note /\ script'.target = script.target
        /\ script'.require = script.require
    <3>1. "idle" \in ScriptSteps /\ "ok" \in Outcomes
      BY DEF ScriptSteps, Outcomes
    <3> QED BY <2>1, <3>1 DEF ScriptInv, RunSound, ScriptRuns
  <2>3. ASSUME script.require
        PROVE  Cardinality(Past(file', script.target)) >= Threshold
    <3>1. Cardinality(okSlots) >= Threshold
      BY <1>6, <2>3 DEF Enough
    <3>2. IsFiniteSet(Past(file', script.target))
      BY PastIsFinite
    <3>3. /\ IsFiniteSet(okSlots)
          /\ Cardinality(okSlots) <= Cardinality(Past(file', script.target))
      BY <1>4, <3>2, FS_Subset
    <3>4. /\ Cardinality(okSlots) \in Nat
          /\ Cardinality(Past(file', script.target)) \in Nat /\ Threshold \in Nat
      BY <3>2, <3>3, FS_CardinalityType, Roster
    <3> QED BY <3>1, <3>3, <3>4
  <2>4. Exited(script)' /\ script'.target <= sequence'
    BY <1>2, <1>3, <2>2 DEF Exited
  <2> QED BY <1>4, <2>2, <2>3, <2>4 DEF ScriptInv, RunSound, Forward
<1> QED BY <1>5, <1>6

\* The run fails, is killed, or gives its transaction up.
LEMMA FailsKeeps ==
    ASSUME ScriptInv,
           Fails \/ GivesUp
    PROVE  ScriptInv'
<1>1. /\ UNCHANGED <<sequence, balance, spent, recorded, file>>
      /\ EndWith("failed")
  BY DEF Fails, GivesUp, bridge, cluster
<1> QED BY <1>1, NothingMoves, RunFails DEF ScriptInv

LEMMA OthersKeep ==
    ASSUME ScriptInv,
           \/ StrayEnds \/ ExitElsewhere
           \/ ExitByCoordinator \/ BalanceMoves
           \/ UNCHANGED scriptVars
    PROVE  ScriptInv'
<1>1. script' = script
  BY DEF StrayEnds, ExitElsewhere, ExitByCoordinator,
         BalanceMoves, scriptVars
<1>2. CASE StrayEnds
  <2>1. UNCHANGED <<recorded, file>>
    BY <1>2 DEF StrayEnds, cluster
  <2>2. \/ \E x \in stray : Settles(x)
        \/ UNCHANGED <<sequence, balance, spent>>
    BY <1>2 DEF StrayEnds
  <2>3. Forward
    BY <2>1, <2>2, SettlesForward, NothingMoves DEF ScriptInv
  <2> QED BY <1>1, <2>3, RunStays
<1>3. CASE ExitElsewhere \/ BalanceMoves \/ UNCHANGED scriptVars
  <2>1. UNCHANGED <<recorded, file, spent>>
    BY <1>3 DEF ExitElsewhere, BalanceMoves, scriptVars,
       bridge, cluster
  <2>2. sequence' \in {sequence, sequence + 1} /\ balance' \in {balance, balance + 1}
    BY <1>3 DEF ExitElsewhere, BalanceMoves, scriptVars,
       bridge, Exits
  <2>3. Forward
    BY <2>1, <2>2 DEF ScriptInv, VaultSound, Forward, Files
  <2> QED BY <1>1, <2>3, RunStays
<1>4. CASE ExitByCoordinator
  <2>1. PICK okSlots \in SUBSET Up : Resync(sequence, okSlots)
    BY <1>4 DEF ExitByCoordinator
  <2>2. /\ sequence' = sequence + 1 /\ balance' = balance + 1 /\ spent' = spent
        /\ recorded' = recorded \cup {sequence}
    BY <1>4 DEF ExitByCoordinator, Exits
  <2>3. /\ sequence \in Nat /\ sequence < sequence' /\ balance' \in Nat
        /\ recorded' \subseteq Nat
    BY <2>2 DEF ScriptInv, VaultSound
  <2>4. Forward
    BY <2>1, <2>2, <2>3, ResyncForward DEF ScriptInv
  <2> QED BY <1>1, <2>4, RunStays
<1> QED BY <1>2, <1>3, <1>4

LEMMA SyncByHandKeeps ==
    ASSUME ScriptInv, SyncByHand
    PROVE  ScriptInv'
<1>1. PICK reached \in SUBSET Up :
          file' = [s \in Slots |-> IF s \in reached THEN Sync(file[s])
                                   ELSE file[s]]
  BY DEF SyncByHand
<1>2. UNCHANGED <<sequence, balance, spent, recorded>> /\ script' = NoRun
  BY DEF SyncByHand, bridge
<1>3. Forward
  <2>1. /\ sequence \in Nat /\ balance \in Nat /\ recorded \subseteq Nat
        /\ \A s \in Slots : /\ file[s] \in [sequence : Nat, bound : Nat]
                            /\ file[s].sequence <= sequence
    BY DEF ScriptInv, VaultSound, Files
  <2>2. \A s \in Slots : /\ file'[s] \in [sequence : Nat, bound : Nat]
                         /\ file'[s].sequence <= sequence
                         /\ file'[s].sequence >= file[s].sequence
    BY <1>1, <2>1 DEF Sync
  <2>3. file' \in Files
    BY <1>1, <2>2 DEF Files
  <2> QED BY <1>2, <2>1, <2>2, <2>3 DEF Forward, VaultSound
<1>4. Nil # "ok"
  BY WithdrawScriptConstants DEF Outcomes
<1>5. script' \in ScriptRuns
  BY <1>2 DEF NoRun, ScriptRuns, ScriptSteps
<1> QED BY <1>2, <1>3, <1>4, <1>5
        DEF ScriptInv, RunSound, Forward, VaultSound, NoRun

LEMMA ScriptStepKeeps ==
    ASSUME ScriptInv, [ScriptNext]_scriptVars
    PROVE  ScriptInv'
<1>1. CASE Proceed
  BY <1>1, CatchUpKeeps, ChecksKeep, StepResyncsKeeps, Step2bKeeps, SubmitKeeps,
     ResyncAfterKeeps DEF Proceed
<1>2. CASE ~Proceed
  BY <1>2, StartKeepsRun, FailsKeeps, OthersKeep, SyncByHandKeeps DEF ScriptNext
<1> QED BY <1>1, <1>2

LEMMA ScriptBegins ==
    ASSUME ScriptInit
    PROVE  ScriptInv
<1>1. VaultSound
  BY DEF ScriptInit, VaultSound, Files
<1>2. Nil # "ok"
  BY WithdrawScriptConstants DEF Outcomes
<1>3. script \in ScriptRuns
  BY DEF ScriptInit, NoRun, ScriptRuns, ScriptSteps
<1> QED BY <1>1, <1>2, <1>3
        DEF ScriptInv, RunSound, ScriptInit, NoRun, VaultSound

\* Exit code 0 is true for any roster, notes and interference: the note is spent
\* at or after the target and, where the operator asked for it, a threshold of
\* the workers has followed, for as long as the run is remembered
\* (local_v2_withdraw_full.mjs, resync_after_withdraw and the end of main).
THEOREM ZeroTellsTheTruth ==
    ScriptSpec => []ZeroIsTrue
<1>1. ScriptInv => ZeroIsTrue
  <2>1. \A n : Past(file, n) = {s \in Slots : file[s].sequence > n}
    BY DEF Past
  <2> QED BY <2>1 DEF ScriptInv, RunSound, Exited, ZeroIsTrue
<1>2. ScriptInit => ScriptInv
  BY ScriptBegins
<1>3. ScriptInv /\ [ScriptNext]_scriptVars => ScriptInv'
  BY ScriptStepKeeps
<1> QED BY <1>1, <1>2, <1>3, PTL DEF ScriptSpec
===============================================================================
