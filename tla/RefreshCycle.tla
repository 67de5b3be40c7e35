----------------------------- MODULE RefreshCycle -----------------------------
(***************************************************************************)
(* How a confirmed leaf becomes withdrawable: the coordinator's bridge     *)
(* maintenance pipeline and refresh_known_root_cycle.sh, which it spawns   *)
(* with the hashes of transactions it has heard of and which a systemd     *)
(* timer starts as well.  A cycle normalises the vault's balance, builds   *)
(* the commitment tree in a staging directory, has its leaves observed,    *)
(* rolls the pending balance over and normalises again, records the root   *)
(* and the association set on chain, and only then publishes tree and set. *)
(*                                                                         *)
(* A tree, a balance and an association set are the number of the leaves   *)
(* in them, and so are their roots; the hash of the transaction of a leaf  *)
(* is the leaf's index.  The leaves of all assets share one order; a cycle *)
(* rolls over, normalises and observes for one asset, that of its vault.   *)
(* The screening of depositors approves all.                               *)
(***************************************************************************)
EXTENDS Operator, FiniteSets

CONSTANTS
    MaxLeaves,  \* bound on the leaves of the bridge
    MinSet,     \* EUNOMA_MIN_ANONYMITY_SET
    Plain,      \* hashes of transactions without a leaf
    Aborted,    \* hashes of settlements not confirmed in time that then aborted
    Others,     \* the leaves of other assets than the script's own
    Listed,     \* those of them whose asset the coordinator's registry has ACTIVE
    MaxTriggers \* bound on the requests the coordinator finishes

ASSUME RefreshCycleConstants ==
    /\ {MaxLeaves, MaxTriggers, MaxFaults} \subseteq Nat
    /\ MinSet \in Nat \ {0}
    /\ Plain \cap Nat = {} /\ Aborted \cap (Nat \cup Plain) = {}
    /\ Listed \subseteq Others /\ Others \subseteq 1..MaxLeaves

VARIABLES
    leaves,     \* the leaves on the chain
    indexed,    \* those the indexer knows
    rolled,     \* those whose amounts were rolled over to the available balance
    packed,     \* those in it when its chunks were normalised last
    known,      \* the roots in known_roots
    approvals,  \* the roots of association sets recorded
    observed,   \* the leaves the deoperators have observed
    inFlight,   \* pipelineInFlight: the hashes of the run, or Nil
    triggers,   \* what is left of MaxTriggers
    pending,    \* pipelineRerunPending, or Nil
    cycle,      \* the cycle that holds the lock
    queue,      \* the hashes in observed_deposit_tx_hashes.queue
    unended,    \* what its last line holds if no newline ends it: a hash, or
                \* Torn for a part of one; else Nil
    tree,       \* commitment_tree_v2.json; 0 if there is none
    lean,       \* state_leanimt_tree.json
    notes,      \* its skipped_no_leaf_event notes
    staged,     \* .refresh-staging, or Nil
    sidecars,   \* known_root_v2_<root>.json
    aspSet,     \* asp_set.json; 0 if there is none
    approved,   \* asp_approved_state.json
    aspSidecars \* asp_root_recorded_<root>.json

vault == <<rolled, packed>>
roots == <<known, approvals>>
chain == <<leaves, indexed, vault, roots, observed>>
pipeline == <<inFlight, pending, triggers>>
published == <<tree, lean, notes>>
asp == <<aspSet, approved, aspSidecars>>
queued == <<queue, unended>>
files == <<queued, published, staged, sidecars, asp>>
vars == <<chain, pipeline, cycle, files, faults>>

Leaves == 1..MaxLeaves
Hashes == Leaves \cup Plain \cup Aborted
Steps == {"none", "normalize", "repack", "queue", "stage", "build", "observe",
          "rollover", "renormalize", "rerepack", "record", "sidecar", "asp",
          "tree", "lean", "set", "approved", "recorded", "prune"}

NoCycle ==
    [at |-> "none", triggered |-> FALSE, hashes |-> {}, txs |-> {}, skips |-> {}]

Torn == 0

----------------------------------------------------------------------------
(* The chain and its indexer                                               *)

LeafConfirmed ==
    /\ leaves < MaxLeaves
    /\ leaves' = leaves + 1
    /\ UNCHANGED <<indexed, vault, roots, observed, pipeline, cycle, files, faults>>

IndexerCatchesUp ==
    /\ indexed < leaves
    /\ indexed' = indexed + 1
    /\ UNCHANGED <<leaves, vault, roots, observed, pipeline, cycle, files, faults>>

\* What the coordinator serves: a staged tree stands in for a missing one, if it
\* is recorded (readStateTreeSnapshot).
Served ==
    IF lean = 0 /\ staged # Nil /\ staged.lean \in sidecars THEN staged.lean ELSE lean

\* A withdrawal leaves a normalised balance behind.
VaultPays ==
    /\ Served > 0 /\ packed # rolled
    /\ packed' = rolled
    /\ UNCHANGED <<leaves, indexed, rolled, roots, observed, pipeline, cycle, files,
                   faults>>

----------------------------------------------------------------------------
(* The pipeline                                                            *)

\* The hashes a request of the coordinator may name when it is finished.
Heard == 1..leaves \cup Plain \cup Aborted

Trigger(h) ==
    /\ h \in Heard
    /\ triggers > 0 /\ triggers' = triggers - 1
    /\ IF inFlight = Nil
       THEN inFlight' = {h} /\ UNCHANGED pending
       ELSE /\ pending' = (IF pending = Nil THEN {} ELSE pending) \cup {h}
            /\ UNCHANGED inFlight
    /\ UNCHANGED <<chain, cycle, files, faults>>

\* The script of the run has ended: drain what was merged meanwhile.
RunEnds == inFlight' = pending /\ pending' = Nil /\ UNCHANGED triggers

\* Another cycle has the lock: the script ends well, and its hashes with it.
RunSkipped ==
    /\ inFlight # Nil
    /\ cycle.at # "none" /\ ~cycle.triggered
    /\ RunEnds
    /\ UNCHANGED <<chain, cycle, files, faults>>

\* The coordinator dies; a cycle it has started runs on by itself.
CoordinatorCrash ==
    /\ inFlight # Nil
    /\ Fault
    /\ inFlight' = Nil /\ pending' = Nil
    /\ cycle' = [cycle EXCEPT !.triggered = FALSE]
    /\ UNCHANGED <<triggers, chain, files>>

----------------------------------------------------------------------------
(* The script                                                              *)

Go(step) == cycle' = [cycle EXCEPT !.at = step]

\* Mutant: the cycle's lock outlives it.
ExitLocked ==
    /\ cycle' = [NoCycle EXCEPT !.at = "locked"]
    /\ IF cycle.triggered THEN RunEnds ELSE UNCHANGED pipeline

\* It ends: its lock is free again, and the pipeline's promise resolved.
Exit ==
    /\ cycle' = NoCycle
    /\ IF cycle.triggered THEN RunEnds ELSE UNCHANGED pipeline

\* A step sends a transaction, which may land although the script fails.
Then(step) ==
    \/ Go(step) /\ UNCHANGED <<pipeline, faults>>
    \/ Exit /\ Fault

\* Mutant: a staged tree is recovered before its root is recorded.
RecoverableUnrecorded == staged # Nil /\ staged.lean # 0

\* The staged tree is the first one, and it was validated up to its sidecar.
Recoverable == staged # Nil /\ staged.lean # 0 /\ staged.lean \in sidecars

\* What is missing of the public trees is copied from the staging directory.
Recover ==
    IF Recoverable
    THEN /\ lean' = IF lean = 0 THEN staged.lean ELSE lean
         /\ tree' = IF tree = 0 THEN staged.tree ELSE tree
         /\ notes' = IF lean = 0 THEN staged.notes ELSE notes
    ELSE UNCHANGED published

\* The leaves outside the cycle's allowlist.  The coordinator hands its registry's
\* active assets to the script; the timer's list is the one asset.
Unlisted(triggered) == IF triggered THEN Others \ Listed ELSE Others

StartCycle(triggered) ==
    /\ cycle.at = "none"
    /\ cycle' = [at |-> "normalize", triggered |-> triggered, txs |-> {},
                 hashes |-> IF triggered THEN inFlight ELSE {},
                 skips |-> Unlisted(triggered)]
    /\ Recover
    /\ UNCHANGED <<chain, pipeline, queued, staged, sidecars, asp, faults>>

TimerFires == StartCycle(FALSE)

RunStarts == inFlight # Nil /\ StartCycle(TRUE)

\* Both normalisations: whether one is needed is asked first, ...
Normalized == packed = rolled

Normalize(at, repack, next) ==
    /\ cycle.at = at
    /\ Go(IF Normalized THEN next ELSE repack)
    /\ UNCHANGED <<chain, pipeline, files, faults>>

\* ... and the proof is about the balance of that time: it is of no use when a
\* withdrawal came in between.
Repack(at, next) ==
    /\ cycle.at = at
    /\ IF Normalized
       THEN Exit /\ UNCHANGED <<packed, faults>>
       ELSE packed' = rolled /\ Then(next)
    /\ UNCHANGED <<leaves, indexed, rolled, roots, observed, files>>

\* persist_observed_tx_hashes renames a complete file into place, whose last line
\* no newline ends.  The next call copies that file and goes on at its last
\* line: the first hash of the call and what stood there make one word, which is
\* no hash and is left out.  The order of the other lines is not kept.
Joined(first, news) ==
    /\ queue' = (queue \ {unended}) \cup (IF unended = Nil THEN news ELSE news \ {first})
    /\ IF queue' = {}
       THEN unended' = Nil
       ELSE unended' \in IF queue' \subseteq queue THEN queue' ELSE queue' \ queue

PersistHashes ==
    /\ cycle.at = "queue"
    /\ IF cycle.hashes = {}
       THEN UNCHANGED queued
       ELSE \E first \in cycle.hashes : Joined(first, cycle.hashes)
    /\ cycle' = [cycle EXCEPT !.at = "stage", !.hashes = {}]
    /\ UNCHANGED <<chain, pipeline, published, staged, sidecars, asp, faults>>

\* The backfill may leave out a leaf whose lookup fails.  What there is to add
\* decides whether a fresh staging directory gets copies of the public trees.
Stage ==
    /\ cycle.at = "stage"
    /\ \E txs \in SUBSET Hashes :
        /\ \/ txs = queue \cup (1..indexed) /\ UNCHANGED faults
           \/ /\ Fault
              /\ \E missed \in 1..indexed : txs = queue \cup ((1..indexed) \ {missed})
        /\ IF txs = {}
           THEN Exit /\ UNCHANGED staged
           ELSE /\ staged' = [tree |-> tree, lean |-> lean, notes |-> notes, asp |-> 0]
                /\ cycle' = [cycle EXCEPT !.at = "build", !.txs = txs]
                /\ UNCHANGED pipeline
    /\ UNCHANGED <<chain, queued, published, sidecars, asp>>

\* Mutant: the leaves of the tree so far are not merged.
PriorForgotten == 0

\* The tree the builder starts from.
Prior == IF staged.tree # 0 THEN staged.tree ELSE staged.lean

\* The leaf events it takes: one outside the allowlist is skipped, without a note.
Harvested == cycle.txs \ cycle.skips

\* It appends the leaves that follow without a gap.
Built == CHOOSE n \in Prior..MaxLeaves :
    /\ (Prior + 1)..n \subseteq Harvested
    /\ n + 1 \notin Harvested

Skipped == cycle.txs \cap Plain

\* The builder throws tx_failed on a transaction that aborted.
Build ==
    /\ cycle.at = "build"
    /\ IF cycle.txs \cap Aborted # {}
       THEN Exit /\ UNCHANGED staged
       ELSE /\ staged' = [tree |-> Built, lean |-> Built, notes |-> Skipped, asp |-> 0]
            /\ cycle' = [cycle EXCEPT !.at = "observe", !.txs = {}]
            /\ UNCHANGED pipeline
    /\ UNCHANGED <<chain, queued, published, sidecars, asp, faults>>

\* The staged leaves are observed in turn, up to one of another asset, which the
\* observer refuses.  With a sidecar the root is taken for recorded, and all
\* that comes before.
ObserveLeaves ==
    /\ cycle.at = "observe"
    /\ observed' = observed \cup {n \in 1..staged.lean : (1..n) \cap Others = {}}
    /\ IF (1..staged.lean) \cap Others = {}
       THEN Go(IF staged.lean \in sidecars THEN "asp" ELSE "rollover") /\ UNCHANGED pipeline
       ELSE Exit
    /\ UNCHANGED <<leaves, indexed, vault, roots, files, faults>>

\* The pending balance of the vault becomes available.
Rollover ==
    /\ cycle.at = "rollover"
    /\ rolled' = leaves
    /\ Then("renormalize")
    /\ UNCHANGED <<leaves, indexed, packed, roots, observed, files>>

RecordRoot ==
    /\ cycle.at = "record"
    /\ IF staged.lean < MinSet
       THEN Exit /\ UNCHANGED <<known, faults>>
       ELSE known' = known \cup {staged.lean} /\ Then("sidecar")
    /\ UNCHANGED <<leaves, indexed, vault, approvals, observed, files>>

\* A sidecar that cannot be written is only warned of.
WriteSidecar ==
    /\ cycle.at = "sidecar"
    /\ \/ sidecars' = sidecars \cup {staged.lean} /\ UNCHANGED faults
       \/ UNCHANGED sidecars /\ Fault
    /\ Go("asp")
    /\ UNCHANGED <<chain, pipeline, queued, published, staged, asp>>

\* The set on file is the approved state, it is recorded, and it is complete.
AspUpToDate ==
    /\ staged.tree = approved
    /\ aspSet = approved
    /\ aspSet \in aspSidecars

\* run_asp_refresh_if_needed: the set is staged once its root is recorded.
RefreshAsp ==
    /\ cycle.at = "asp"
    /\ IF AspUpToDate
       THEN Go("tree") /\ UNCHANGED <<approvals, staged, pipeline, faults>>
       ELSE /\ approvals' = approvals \cup {staged.tree}
            /\ staged' = [staged EXCEPT !.asp = staged.tree]
            /\ Then("tree")
    /\ UNCHANGED <<leaves, indexed, vault, known, observed, queued, published,
                   sidecars, asp>>

PublishTree ==
    /\ cycle.at = "tree"
    /\ tree' = staged.tree
    /\ staged' = [staged EXCEPT !.tree = 0]
    /\ Go("lean")
    /\ UNCHANGED <<chain, pipeline, queued, lean, notes, sidecars, asp, faults>>

PublishLean ==
    /\ cycle.at = "lean"
    /\ lean' = staged.lean
    /\ notes' = staged.notes
    /\ staged' = [staged EXCEPT !.lean = 0]
    /\ Go("set")
    /\ UNCHANGED <<chain, pipeline, queued, tree, sidecars, asp, faults>>

\* What was staged of the set, if anything was.
NewSet == IF staged.asp = 0 THEN aspSet ELSE staged.asp

PublishSet ==
    /\ cycle.at = "set"
    /\ aspSet' = NewSet
    /\ Go("approved")
    /\ UNCHANGED <<chain, pipeline, queued, published, staged, sidecars, approved,
                   aspSidecars, faults>>

PublishApproved ==
    /\ cycle.at = "approved"
    /\ approved' = IF staged.asp = 0 THEN approved ELSE staged.asp
    /\ Go("recorded")
    /\ UNCHANGED <<chain, pipeline, queued, published, staged, sidecars, aspSet,
                   aspSidecars, faults>>

\* The sidecar of the set's record, and the staging directory goes.
PublishAspSidecar ==
    /\ cycle.at = "recorded"
    /\ aspSidecars' = IF staged.asp = 0 THEN aspSidecars
                      ELSE aspSidecars \cup {staged.asp}
    /\ staged' = Nil
    /\ Go("prune")
    /\ UNCHANGED <<chain, pipeline, queued, published, sidecars, aspSet, approved,
                   faults>>

Unserved == queue \ ((1..lean) \cup notes)

Prune ==
    /\ cycle.at = "prune"
    /\ queue' = Unserved /\ unended' = Nil
    /\ Exit
    /\ UNCHANGED <<chain, published, staged, sidecars, asp, faults>>

\* A step of the script fails, or the script is killed.  The queue is written
\* in place when it is pruned, so a part of it is lost with the script, which may
\* stop in the middle of a line.
StepFails ==
    /\ cycle.at \notin {"none", "prune"}
    /\ Fault
    /\ Exit
    /\ UNCHANGED <<chain, files>>

PruneInterrupted ==
    /\ cycle.at = "prune"
    /\ Fault
    /\ queue' \in SUBSET Unserved
    /\ unended' \in queue' \cup {Nil, Torn}
    /\ Exit
    /\ UNCHANGED <<chain, published, staged, sidecars, asp>>

----------------------------------------------------------------------------
(* The specification                                                       *)

Init ==
    /\ leaves = 0 /\ indexed = 0 /\ rolled = 0 /\ packed = 0
    /\ known = {} /\ approvals = {} /\ observed = {}
    /\ inFlight = Nil /\ pending = Nil /\ triggers = MaxTriggers
    /\ cycle = NoCycle
    /\ queue = {} /\ unended = Nil
    /\ tree = 0 /\ lean = 0 /\ notes = {}
    /\ staged = Nil
    /\ sidecars = {}
    /\ aspSet = 0 /\ approved = 0 /\ aspSidecars = {}
    /\ faults = MaxFaults

ScriptStep ==
    \/ Normalize("normalize", "repack", "queue") \/ Repack("repack", "queue")
    \/ PersistHashes \/ Stage \/ Build \/ ObserveLeaves
    \/ Rollover
    \/ Normalize("renormalize", "rerepack", "record") \/ Repack("rerepack", "record")
    \/ RecordRoot \/ WriteSidecar \/ RefreshAsp
    \/ PublishTree \/ PublishLean \/ PublishSet \/ PublishApproved
    \/ PublishAspSidecar \/ Prune

Next ==
    \/ LeafConfirmed \/ IndexerCatchesUp \/ VaultPays
    \/ \E h \in Hashes : Trigger(h)
    \/ RunSkipped \/ RunStarts \/ TimerFires
    \/ ScriptStep
    \/ CoordinatorCrash \/ StepFails \/ PruneInterrupted

\* The timer fires, a script runs on until it ends, spawned scripts start, and
\* the indexer catches up with the chain.
Spec ==
    /\ Init /\ [][Next]_vars
    /\ WF_vars(TimerFires)
    /\ WF_vars(RunStarts \/ RunSkipped)
    /\ WF_vars(ScriptStep)
    /\ WF_vars(IndexerCatchesUp)

----------------------------------------------------------------------------
(* Properties                                                              *)

\* Chain, pipeline, cycle and files have their types.
RefreshTypeOK ==
    /\ leaves \in 0..MaxLeaves /\ indexed \in 0..leaves
    /\ rolled \in 0..leaves /\ packed \in 0..rolled
    /\ known \subseteq Leaves /\ approvals \subseteq Leaves /\ observed \subseteq Leaves
    /\ inFlight \in (SUBSET Hashes) \cup {Nil}
    /\ pending \in (SUBSET Hashes) \cup {Nil}
    /\ triggers \in Nat
    /\ cycle \in [at : Steps, triggered : BOOLEAN, hashes : SUBSET Hashes,
                  txs : SUBSET Hashes, skips : SUBSET Others]
    /\ queue \subseteq Hashes
    /\ unended \in queue \cup {Nil, Torn}
    /\ tree \in 0..leaves /\ lean \in 0..leaves
    /\ notes \subseteq Plain
    /\ staged \in [tree : 0..leaves, lean : 0..leaves, notes : SUBSET Plain,
                   asp : 0..leaves] \cup {Nil}
    /\ sidecars \subseteq Leaves /\ aspSidecars \subseteq Leaves
    /\ aspSet \in 0..leaves /\ approved \in 0..leaves
    /\ faults \in Nat

Ready(n) == n = 0 \/ (n \in known /\ n <= packed /\ 1..n \subseteq observed)

\* A public tree, published, recovered or served from the staging directory, has
\* a recorded root, and all its leaves are observed, rolled over and normalised:
\* "this script never exposes a freshly-deposited root until that route is
\* actually withdrawable".  Nor is an association set served whose root Move
\* would reject.
PublishedIsReady ==
    /\ Ready(tree) /\ Ready(lean) /\ Ready(Served)
    /\ aspSet # 0 => aspSet \in approvals

\* A published leaf is never taken back, whatever the indexer leaves out and
\* wherever the cycle before was interrupted.  The one leaf that may be is a leaf
\* of the served tree alone: a recovery copies each of the two files by itself,
\* and the builder starts from the other one.
PublishedGrows == [][tree' >= tree /\ (lean' >= lean \/ lean' >= tree)]_vars

\* Every leaf is published in the end, and in the association set, once there
\* are enough: "timer will retry next cycle".  Two things stop the cycles for
\* good: a queued hash whose transaction aborted, at which the builder exits each
\* time, and a leaf of another asset, which no cycle publishes, nor any leaf
\* after it.  Nothing else does, and when the hash is gone the cycles go on.
Published(n) == lean >= n /\ aspSet >= n

Own(n) == (1..n) \cap Others = {}

EveryLeafIsPublished ==
    \A n \in MinSet..MaxLeaves :
        Own(n) => ((leaves >= n) ~> (Published(n) \/ [](queue \cap Aborted # {})))

\* The plain claim, for the leaves of the script's own asset at least: "Exits
\* non-zero on hard failure (timer will retry next cycle)".
TimerRetries ==
    \A n \in (MinSet..MaxLeaves) \ Others : (leaves >= n) ~> Published(n)

\* A hash leaves the queue only when the tree has served it: "queued ... observed
\* tx hashes for durable retry".
QueueIsDurable ==
    [][\A h \in queue \ queue' : h \in (1..lean) \cup notes]_vars
=============================================================================
