----------------------------- MODULE VaultProofs ------------------------------
(***************************************************************************)
(* What holds of the workers' files and of the ceremony that gives a vault *)
(* its key, for every roster, threshold and number of requests in flight,  *)
(* without any lock of the coordinator.                                    *)
(***************************************************************************)
EXTENDS KeyCeremony, FanOutProofs, FiniteSetTheorems

----------------------------------------------------------------------------
(* What requests and calls may carry                                       *)

VaultOps == {"init", "finalize", "observe", "resync", "sync", "none"}

VaultBases == Files \cup {Nil}
VaultGots == Contributions \cup {Nil}

\* The nonces of a quorum, by slot.
NoncesOf == UNION {[S -> Nat] : S \in Quorums}

NonceFile == [id : Named \cup Nat, run : Nat, nonce : Nat]

ResponseOf == [nonce : Nat, challenge : NoncesOf, share : Nat]

CeremonyArgs ==
    [run : Nat \cup {Nil}, left : SUBSET Slots] \cup Nat \cup Derivations
        \cup [id : Named \cup Nat, run : Nat]
        \cup [id : Named \cup Nat, run : Nat, challenge : NoncesOf]

Ops == VaultOps \cup CeremonyOps

AnyArg ==
    Inits \cup [transcript : Transcripts] \cup [count : Nat \ {0}]
        \cup [tx : Nat \ {0}, next : Nat \ {0}] \cup {Nil} \cup CeremonyArgs

Bases == VaultBases \cup Nat
Gots == VaultGots \cup Nat \cup NonceFile \cup ResponseOf

Typed ==
    /\ vaultSequence \in 0..MaxExits /\ deposits \in Nat
    /\ file \in [Slots -> VaultBases]
    /\ observed \subseteq Nat /\ faults \in Nat
    /\ Shaped(Ops, AnyArg, Bases, Gots)

----------------------------------------------------------------------------
(* The inductive invariant: what each file, argument and call may claim of *)
(* the files, the exits and the deposits.                                  *)

\* A transcript is about these files, frozen by one request before they moved:
\* a file fixes the transcript it belongs to.
Backed(files, t) ==
    /\ t \in Transcripts
    /\ \A u \in DOMAIN t :
        /\ files[u] # Nil
        /\ files[u].slots = DOMAIN t
        /\ files[u].hash = t[u].hash
        /\ t[u].sequence = 0 /\ t[u].count = 0
    /\ \A u, v \in DOMAIN t : t[u].hash = t[v].hash

\* A file, or a copy of it in a handler's hands.
Sound(files, exits, count, s, f) ==
    /\ f \in Files
    /\ f.sequence <= exits /\ f.count <= count
    /\ f.bound # 0 => f.bound <= f.sequence /\ Kind[f.bound] = "withdraw"
    /\ f.hash.sequence = 0 /\ f.hash.count = 0
    /\ f.pin # Nil => s \in DOMAIN f.pin /\ Backed(files, f.pin)

SameFrozen(files, s, f) ==
    files[s] # Nil /\ f.hash = files[s].hash /\ f.slots = files[s].slots

ArgSound(files, count, r) ==
    /\ r.op = "init" => r.arg \in Inits /\ r.slots \in Quorums
    /\ r.op = "finalize" =>
        /\ r.arg \in [transcript : Transcripts]
        /\ Backed(files, r.arg.transcript)
        /\ DOMAIN r.arg.transcript = r.slots
    /\ r.op = "observe" => r.arg \in [count : Nat \ {0}] /\ r.arg.count <= count
    /\ r.op = "resync" => r.arg \in [tx : Nat \ {0}, next : Nat \ {0}]
    /\ r.op \in {"sync", "none"} => r.arg = Nil

CallSound(files, exits, count, r, s, at, base, got) ==
    /\ at # "none" => s \in r.slots
    /\ r.op \in VaultOps => base \in VaultBases /\ got \in VaultGots
    /\ r.op = "init" /\ at = "ok" =>
        /\ got \in Contributions
        /\ files[s] # Nil
        /\ files[s].hash = got.hash /\ files[s].slots = r.slots
    /\ r.op \in {"finalize", "observe", "resync", "sync"} /\ at \in {"read", "fetched"} =>
        Sound(files, exits, count, s, base) /\ SameFrozen(files, s, base)
    /\ r.op = "sync" /\ at = "fetched" =>
        got \in Contributions /\ base.sequence < got.sequence /\ got.sequence <= exits

FilesSound ==
    \A s \in Slots :
        file[s] = Nil \/ Sound(file, vaultSequence, deposits, s, file[s])

ArgsSound == \A p \in Flights : ArgSound(file, deposits, flight[p])

CallsSound ==
    \A p \in Flights, s \in Slots :
        CallSound(file, vaultSequence, deposits, flight[p], s,
                  call[p][s].at, call[p][s].base, call[p][s].got)

LedgerBacked == \A t \in transcripts : Backed(file, t)

VaultInv == Typed /\ FilesSound /\ ArgsSound /\ CallsSound /\ LedgerBacked

\* Files keep what init froze, and the chain only grows.
Kept(files, files2) ==
    \A s \in Slots : files[s] # Nil =>
        /\ files2[s] # Nil
        /\ files2[s].hash = files[s].hash /\ files2[s].slots = files[s].slots

Grown ==
    /\ Kept(file, file')
    /\ vaultSequence' \in 0..MaxExits /\ vaultSequence <= vaultSequence'
    /\ deposits' \in Nat /\ deposits <= deposits'

----------------------------------------------------------------------------
(* What was claimed stays true while files are kept and the chain grows    *)

LEMMA TranscriptSlots ==
    ASSUME NEW t \in Transcripts
    PROVE  /\ DOMAIN t \in Quorums /\ DOMAIN t \subseteq Slots
           /\ t \in [DOMAIN t -> Contributions]
BY DEF Transcripts, Quorums

LEMMA BackedStays ==
    ASSUME NEW files, NEW files2, Kept(files, files2), NEW t, Backed(files, t)
    PROVE  Backed(files2, t)
BY TranscriptSlots DEF Backed, Kept

LEMMA SoundStays ==
    ASSUME NEW files, NEW files2, Kept(files, files2),
           NEW exits \in Nat, NEW exits2 \in Nat, exits <= exits2,
           NEW count \in Nat, NEW count2 \in Nat, count <= count2,
           NEW s, NEW f, Sound(files, exits, count, s, f)
    PROVE  Sound(files2, exits2, count2, s, f)
<1>1. f \in Files /\ f.sequence \in Nat /\ f.count \in Nat
    BY DEF Sound, Files
<1>2. f.sequence <= exits2 /\ f.count <= count2
    BY <1>1 DEF Sound
<1>3. f.pin # Nil => Backed(files2, f.pin)
    BY BackedStays DEF Sound
<1> QED BY <1>2, <1>3 DEF Sound

LEMMA ArgStays ==
    ASSUME NEW files, NEW files2, Kept(files, files2),
           NEW count \in Nat, NEW count2 \in Nat, count <= count2,
           NEW r, ArgSound(files, count, r)
    PROVE  ArgSound(files2, count2, r)
<1>1. r.op = "finalize" => Backed(files2, r.arg.transcript)
    BY BackedStays DEF ArgSound
<1>2. r.op = "observe" => r.arg.count <= count2
    BY DEF ArgSound
<1> QED BY <1>1, <1>2 DEF ArgSound

LEMMA CallStays ==
    ASSUME NEW files, NEW files2, Kept(files, files2),
           NEW exits \in Nat, NEW exits2 \in Nat, exits <= exits2,
           NEW count \in Nat, NEW count2 \in Nat, count <= count2,
           NEW r, NEW s \in Slots, NEW at, NEW base, NEW got,
           CallSound(files, exits, count, r, s, at, base, got)
    PROVE  CallSound(files2, exits2, count2, r, s, at, base, got)
<1>1. ASSUME r.op = "init", at = "ok"
      PROVE  /\ files2[s] # Nil
             /\ files2[s].hash = got.hash /\ files2[s].slots = r.slots
    BY <1>1 DEF CallSound, Kept
<1>2. ASSUME r.op \in {"finalize", "observe", "resync", "sync"}, at \in {"read", "fetched"}
      PROVE  Sound(files2, exits2, count2, s, base) /\ SameFrozen(files2, s, base)
    <2>1. Sound(files, exits, count, s, base) /\ SameFrozen(files, s, base)
        BY <1>2 DEF CallSound
    <2> QED BY <2>1, SoundStays DEF SameFrozen, Kept
<1>3. ASSUME r.op = "sync", at = "fetched"
      PROVE  got \in Contributions /\ base.sequence < got.sequence /\ got.sequence <= exits2
    <2>1. got \in Contributions /\ base.sequence < got.sequence /\ got.sequence <= exits
        BY <1>3 DEF CallSound
    <2>2. got.sequence \in Nat
        BY <2>1 DEF Contributions
    <2> QED BY <2>1, <2>2
<1> QED BY <1>1, <1>2, <1>3 DEF CallSound

\* A call and its request tell by these fields only what they claim.
LEMMA CallFields ==
    ASSUME NEW files, NEW exits, NEW count, NEW r, NEW r2, r2.op = r.op, r2.slots = r.slots,
           NEW s, NEW at, NEW base, NEW got,
           CallSound(files, exits, count, r, s, at, base, got)
    PROVE  CallSound(files, exits, count, r2, s, at, base, got)
BY DEF CallSound

LEMMA ArgFields ==
    ASSUME NEW files, NEW count, NEW r, NEW r2,
           r2.op = r.op, r2.slots = r.slots, r2.arg = r.arg, ArgSound(files, count, r)
    PROVE  ArgSound(files, count, r2)
BY DEF ArgSound

\* A transcript is fixed by the file of any of its slots.
LEMMA OneTranscript ==
    ASSUME NEW files, NEW t, NEW u, Backed(files, t), Backed(files, u),
           NEW s \in DOMAIN t, s \in DOMAIN u
    PROVE  t = u
<1>1. DOMAIN t = DOMAIN u
    BY DEF Backed
<1>2. t \in [DOMAIN t -> Contributions] /\ u \in [DOMAIN t -> Contributions]
    BY <1>1, TranscriptSlots DEF Backed
<1>3. ASSUME NEW v \in DOMAIN t
      PROVE  t[v] = u[v]
    <2>1. t[v].hash = u[v].hash /\ t[v].sequence = u[v].sequence /\ t[v].count = u[v].count
        BY <1>1, <1>3 DEF Backed
    <2>2. t[v] \in Contributions /\ u[v] \in Contributions
        BY <1>2, <1>3
    <2> QED BY <2>1, <2>2 DEF Contributions
<1> QED BY <1>2, <1>3


----------------------------------------------------------------------------
(* The three shapes of a step                                              *)

LEMMA Ranges ==
    VaultInv => vaultSequence \in Nat /\ deposits \in Nat
BY VaultStateConstants DEF VaultInv, Typed

LEMMA Nobody ==
    ASSUME UNCHANGED <<chain, file>>, VaultInv
    PROVE  Grown
BY DEF Grown, Kept, chain, VaultInv, Typed

\* A call that is left alone, but for who hears it, or that ends.
LEMMA CalmCall ==
    ASSUME VaultInv, Grown, NEW p \in Flights, NEW s \in Slots,
           SameRequest(p), SameCall(p, s) \/ Ends(p, s)
    PROVE  CallSound(file', vaultSequence', deposits', flight'[p], s,
                     call'[p][s].at, call'[p][s].base, call'[p][s].got)
<1>1. /\ CallSound(file, vaultSequence, deposits, flight[p], s,
                   call[p][s].at, call[p][s].base, call[p][s].got)
      /\ vaultSequence \in Nat /\ deposits \in Nat
    BY Ranges DEF VaultInv, CallsSound
<1>2. vaultSequence' \in Nat /\ deposits' \in Nat
    BY VaultStateConstants DEF Grown
<1>3. CallSound(file', vaultSequence', deposits', flight[p], s,
                call[p][s].at, call[p][s].base, call[p][s].got)
    BY <1>1, <1>2, CallStays DEF Grown
<1>4. CallSound(file', vaultSequence', deposits', flight'[p], s,
                call[p][s].at, call[p][s].base, call[p][s].got)
    BY <1>3, CallFields DEF SameRequest
<1>5. CASE SameCall(p, s)
    BY <1>4, <1>5 DEF SameCall
<1>6. CASE Ends(p, s)
    <2>1. call'[p][s].at # "none" => s \in flight'[p].slots
        BY <1>4, <1>6 DEF Ends, CallSound, Running
    <2> QED BY <1>6, <2>1 DEF Ends, CallSound, VaultBases, VaultGots
<1> QED BY <1>5, <1>6

LEMMA CalmArg ==
    ASSUME VaultInv, Grown, NEW p \in Flights, SameRequest(p)
    PROVE  ArgSound(file', deposits', flight'[p])
<1>1. ArgSound(file, deposits, flight[p]) /\ deposits \in Nat
    BY Ranges DEF VaultInv, ArgsSound
<1>2. ArgSound(file', deposits', flight[p])
    BY <1>1, ArgStays DEF Grown
<1> QED BY <1>2, ArgFields DEF SameRequest

LEMMA CalmAtKeeps ==
    ASSUME VaultInv, Grown, NEW p \in Flights, CalmAt(p)
    PROVE  /\ ArgSound(file', deposits', flight'[p])
           /\ \A s \in Slots :
                CallSound(file', vaultSequence', deposits', flight'[p], s,
                          call'[p][s].at, call'[p][s].base, call'[p][s].got)
<1>1. CASE SameRequest(p) /\ \A s \in Slots : SameCall(p, s) \/ Ends(p, s)
    BY <1>1, CalmCall, CalmArg
<1>2. CASE flight'[p] = Free /\ \A s \in Slots : call'[p][s] = Unsent
    BY <1>2 DEF Free, Unsent, ArgSound, CallSound, VaultBases, VaultGots
<1> QED BY <1>1, <1>2 DEF CalmAt

LEMMA FilesStay ==
    ASSUME VaultInv, Grown, file' = file
    PROVE  FilesSound'
<1>1. vaultSequence \in Nat /\ deposits \in Nat /\ vaultSequence' \in Nat
    BY Ranges, VaultStateConstants DEF Grown
<1>2. \A s \in Slots : Sound(file, vaultSequence, deposits, s, file[s])
        => Sound(file', vaultSequence', deposits', s, file[s])
    BY <1>1, SoundStays DEF Grown
<1> QED BY <1>2 DEF VaultInv, FilesSound

LEMMA LedgerStays ==
    ASSUME VaultInv, Grown, transcripts' = transcripts
    PROVE  LedgerBacked'
BY BackedStays DEF VaultInv, LedgerBacked, Grown

\* Nothing is asked, and no file moves: a request ends, something fails, or the
\* chain grows.
LEMMA CalmKeeps ==
    ASSUME VaultInv, Grown, Calm, file' = file, LedgerBacked',
           Shaped(Ops, AnyArg, Bases, Gots)',
           observed' \subseteq Nat, faults' \in Nat
    PROVE  VaultInv'
<1>1. Typed'
    BY DEF VaultInv, Typed, Grown
<1>2. ArgsSound' /\ CallsSound'
    BY CalmAtKeeps DEF Calm, ArgsSound, CallsSound
<1> QED BY <1>1, <1>2, FilesStay DEF VaultInv

\* A request is posted: what its argument claims is so.
LEMMA PostKeeps ==
    ASSUME VaultInv, NEW p \in Flights, NEW op \in Ops, NEW S \in SUBSET Slots,
           NEW arg \in AnyArg, Post(p, op, S, arg),
           ArgSound(file, deposits, [op |-> op, slots |-> S, arg |-> arg]),
           UNCHANGED <<chain, file, ledger, faults>>
    PROVE  VaultInv'
<1>1. Grown /\ file' = file /\ transcripts' = transcripts /\ observed' = observed
    BY Nobody DEF ledger
<1>2. /\ Shaped(Ops, AnyArg, Bases, Gots)'
      /\ \A q \in Flights \ {p} : flight'[q] = flight[q] /\ call'[q] = call[q]
      /\ flight'[p].op = op /\ flight'[p].slots = S /\ flight'[p].arg = arg
      /\ \A s \in Slots : call'[p][s] = IF s \in S THEN Sent ELSE Unsent
    BY PostShape DEF VaultInv, Typed
<1>3. Typed'
    BY <1>1, <1>2 DEF VaultInv, Typed, Grown, chain
<1>4. ArgSound(file', deposits', flight'[p])
    <2>1. deposits' = deposits
        BY DEF chain
    <2> QED BY <1>1, <1>2, <2>1, ArgFields
<1>5. \A s \in Slots :
        CallSound(file', vaultSequence', deposits', flight'[p], s,
                  call'[p][s].at, call'[p][s].base, call'[p][s].got)
    BY <1>2 DEF CallSound, Sent, Unsent, VaultBases, VaultGots
<1>6. \A q \in Flights \ {p} : CalmAt(q)
    BY <1>2 DEF CalmAt, SameRequest, SameCall
<1>7. ArgsSound' /\ CallsSound'
    BY <1>1, <1>4, <1>5, <1>6, CalmAtKeeps DEF ArgsSound, CallsSound
<1> QED BY <1>1, <1>3, <1>7, FilesStay, LedgerStays DEF VaultInv

\* A call moves on: what it carries is so.
LEMMA MoveKeeps ==
    ASSUME VaultInv, Grown, file' \in [Slots -> VaultBases], FilesSound',
           UNCHANGED <<flight, ledger, faults>>,
           NEW p \in Flights, NEW s \in Slots, call[p][s].at # "none",
           NEW step \in Ats, NEW base \in Bases, NEW got \in Gots,
           Move(p, s, step, base, got),
           CallSound(file', vaultSequence', deposits', flight[p], s, step, base, got)
    PROVE  VaultInv'
<1>1. /\ Shaped(Ops, AnyArg, Bases, Gots)'
      /\ \A q \in Flights, t \in Slots : (q # p \/ t # s) => call'[q][t] = call[q][t]
      /\ \/ call'[p][s] = Unsent
         \/ /\ call'[p][s].at = step
            /\ call'[p][s].base = base /\ call'[p][s].got = got
    BY MoveShape DEF VaultInv, Typed
<1>2. Typed'
    BY <1>1 DEF VaultInv, Typed, Grown, ledger
<1>3. \A q \in Flights : SameRequest(q)
    BY DEF SameRequest
<1>4. ArgsSound'
    BY <1>3, CalmArg DEF ArgsSound
<1>5. \A q \in Flights, t \in Slots : (q # p \/ t # s) =>
        CallSound(file', vaultSequence', deposits', flight'[q], t,
                  call'[q][t].at, call'[q][t].base, call'[q][t].got)
    BY <1>1, <1>3, CalmCall DEF SameCall
<1>6. CallSound(file', vaultSequence', deposits', flight'[p], s,
                call'[p][s].at, call'[p][s].base, call'[p][s].got)
    BY <1>1 DEF CallSound, Unsent, VaultBases, VaultGots
<1>7. CallsSound'
    BY <1>5, <1>6 DEF CallsSound
<1> QED BY <1>2, <1>4, <1>7, LedgerStays DEF VaultInv, ledger

\* A call moves on, and no file moves.
LEMMA MoveAlone ==
    ASSUME VaultInv, UNCHANGED <<chain, file, flight, ledger, faults>>,
           NEW p \in Flights, NEW s \in Slots, call[p][s].at # "none",
           NEW step \in Ats, NEW base \in Bases, NEW got \in Gots,
           Move(p, s, step, base, got),
           CallSound(file, vaultSequence, deposits, flight[p], s, step, base, got)
    PROVE  VaultInv'
<1>1. Grown /\ file' = file
    BY Nobody
<1>2. file' \in [Slots -> VaultBases] /\ FilesSound'
    BY <1>1, FilesStay DEF VaultInv, Typed
<1>3. CallSound(file', vaultSequence', deposits', flight[p], s, step, base, got)
    BY <1>1 DEF chain
<1> QED BY <1>1, <1>2, <1>3, MoveKeeps

\* A sound file that keeps what was frozen replaces the one there is.
LEMMA ReplaceKeeps ==
    ASSUME VaultInv, UNCHANGED chain, NEW s \in Slots, NEW f, Replace(s, f),
           Sound(file, vaultSequence, deposits, s, f),
           file[s] = Nil \/ SameFrozen(file, s, f)
    PROVE  /\ Grown /\ FilesSound' /\ file' \in [Slots -> VaultBases]
           /\ file'[s] = f /\ f # Nil
<1>1. f \in Files /\ f # Nil
    BY NilIsNoFile DEF Sound
<1>2. file \in [Slots -> VaultBases]
    BY DEF VaultInv, Typed
<1>3. file' = [file EXCEPT ![s] = f]
    BY DEF Replace
<1>4. file' \in [Slots -> VaultBases] /\ file'[s] = f /\ \A t \in Slots \ {s} : file'[t] = file[t]
    BY <1>1, <1>2, <1>3 DEF VaultBases
<1>5. Kept(file, file')
    BY <1>1, <1>4 DEF Kept, SameFrozen
<1>6. Grown
    BY <1>5 DEF Grown, chain, VaultInv, Typed
<1>7. \A t \in Slots : \A g : Sound(file, vaultSequence, deposits, t, g)
                                => Sound(file', vaultSequence', deposits', t, g)
    <2>1. vaultSequence \in Nat /\ deposits \in Nat /\ vaultSequence' \in Nat
        BY <1>6, Ranges, VaultStateConstants DEF Grown
    <2> QED BY <1>6, <2>1, SoundStays DEF Grown
<1>8. FilesSound'
    BY <1>4, <1>7 DEF FilesSound, VaultInv
<1> QED BY <1>1, <1>4, <1>6, <1>8

----------------------------------------------------------------------------
(* The coordinator's steps                                                 *)

LEMMA StartKeeps ==
    ASSUME VaultInv, NEW p \in Flights, Start(p)
    PROVE  VaultInv'
<1>1. ASSUME NEW request \in Inits, NEW S \in Quorums, StartInit(p, request, S)
      PROVE  VaultInv'
    <2>1. S \in SUBSET Slots /\ request \in AnyArg /\ "init" \in Ops
        BY DEF Quorums, AnyArg, Ops, VaultOps
    <2>2. ArgSound(file, deposits, [op |-> "init", slots |-> S, arg |-> request])
        BY DEF ArgSound
    <2> QED BY <1>1, <2>1, <2>2, PostKeeps DEF StartInit
<1>2. ASSUME NEW n \in 1..MaxDeposits, NEW t \in transcripts, StartObserve(p, n, t)
      PROVE  VaultInv'
    <2> DEFINE arg == [count |-> n]
    <2>1. n \in Nat \ {0} /\ n <= deposits
        BY <1>2 DEF StartObserve, Confirmed
    <2>2. DOMAIN t \in SUBSET Slots
        BY TranscriptSlots DEF VaultInv, LedgerBacked, Backed
    <2>3. arg \in [count : Nat \ {0}] /\ arg.count = n
        BY <2>1
    <2>4. Post(p, "observe", DOMAIN t, arg)
        BY <1>2 DEF StartObserve
    <2> HIDE DEF arg
    <2>5. arg \in AnyArg /\ "observe" \in Ops
        BY <2>3 DEF AnyArg, Ops, VaultOps
    <2>6. ArgSound(file, deposits, [op |-> "observe", slots |-> DOMAIN t, arg |-> arg])
        BY <2>1, <2>3 DEF ArgSound
    <2> QED BY <1>2, <2>2, <2>4, <2>5, <2>6, PostKeeps DEF StartObserve
<1>3. ASSUME NEW tx \in 1..MaxExits, NEW next \in 1..(MaxExits + 1), StartResync(p, tx, next)
      PROVE  VaultInv'
    <2> DEFINE arg == [tx |-> tx, next |-> next]
    <2>1. MaxExits \in Nat
        BY VaultStateConstants
    <2>2. arg \in [tx : Nat \ {0}, next : Nat \ {0}]
        BY <2>1
    <2>3. Post(p, "resync", Slots, arg)
        BY <1>3 DEF StartResync
    <2> HIDE DEF arg
    <2>4. arg \in AnyArg /\ "resync" \in Ops /\ Slots \in SUBSET Slots
        BY <2>2 DEF AnyArg, Ops, VaultOps
    <2>5. ArgSound(file, deposits, [op |-> "resync", slots |-> Slots, arg |-> arg])
        BY <2>2 DEF ArgSound
    <2> QED BY <1>3, <2>3, <2>4, <2>5, PostKeeps DEF StartResync
<1>4. ASSUME StartSync(p)
      PROVE  VaultInv'
    <2>1. Nil \in AnyArg /\ "sync" \in Ops /\ Slots \in SUBSET Slots
        BY DEF AnyArg, Ops, VaultOps
    <2>2. ArgSound(file, deposits, [op |-> "sync", slots |-> Slots, arg |-> Nil])
        BY DEF ArgSound
    <2> QED BY <1>4, <2>1, <2>2, PostKeeps DEF StartSync
<1> QED BY <1>1, <1>2, <1>3, <1>4 DEF Start

\* A request is answered and its lock released.
LEMMA CloseKeeps ==
    ASSUME VaultInv, NEW p \in Flights, Close(p), UNCHANGED <<chain, file, faults>>,
           LedgerBacked', observed' \subseteq Nat
    PROVE  VaultInv'
<1>1. Shaped(Ops, AnyArg, Bases, Gots)' /\ Calm
    BY CloseShape DEF VaultInv, Typed
<1>2. faults' \in Nat
    BY DEF VaultInv, Typed
<1> QED BY <1>1, <1>2, Nobody, CalmKeeps

\* The contributions the coordinator checked make a transcript of the files.
LEMMA Assembled ==
    ASSUME VaultInv, NEW p \in Flights, Returned(p, "init"), AllAccepted(p),
           \A s \in flight[p].slots : ContributionHolds(p, s)
    PROVE  LET t == [s \in flight[p].slots |-> call[p][s].got]
           IN  Backed(file, t) /\ DOMAIN t = flight[p].slots
<1> DEFINE S == flight[p].slots
           t == [s \in S |-> call[p][s].got]
           h == WorkerHash(flight[p].arg, S, 0, 0)
<1>1. flight[p].op = "init" /\ S \in Quorums /\ S \subseteq Slots
    BY DEF Returned, VaultInv, ArgsSound, ArgSound, Quorums
<1>2. ASSUME NEW s \in S
      PROVE  /\ t[s] \in Contributions
             /\ file[s] # Nil /\ file[s].slots = S /\ file[s].hash = t[s].hash
             /\ t[s].hash = h /\ t[s].sequence = 0 /\ t[s].count = 0
    <2>1. s \in Slots /\ call[p][s].at = "ok" /\ t[s] = call[p][s].got
        BY <1>1, <1>2 DEF AllAccepted, Accepted
    <2>2. CallSound(file, vaultSequence, deposits, flight[p], s,
                    call[p][s].at, call[p][s].base, call[p][s].got)
        BY <2>1 DEF VaultInv, CallsSound
    <2>3. /\ t[s] \in Contributions
          /\ file[s] # Nil /\ file[s].slots = S /\ file[s].hash = t[s].hash
        BY <1>1, <2>1, <2>2 DEF CallSound
    <2>4. file[s].hash.sequence = 0 /\ file[s].hash.count = 0
        BY <2>1, <2>3 DEF VaultInv, FilesSound, Sound
    <2>5. t[s].hash = WorkerHash(flight[p].arg, S, t[s].sequence, t[s].count)
        BY <1>2, <2>1 DEF ContributionHolds
    <2>6. t[s].sequence = 0 /\ t[s].count = 0
        BY <2>3, <2>4, <2>5 DEF WorkerHash
    <2> QED BY <2>3, <2>5, <2>6
<1>3. t \in [S -> Contributions] /\ DOMAIN t = S
    BY <1>2
<1>4. t \in Transcripts
    BY <1>1, <1>3 DEF Transcripts
<1>5. Backed(file, t)
    BY <1>2, <1>3, <1>4 DEF Backed
<1> QED BY <1>3, <1>5

LEMMA InitAnsweredKeeps ==
    ASSUME VaultInv, NEW p \in Flights, InitAnswered(p)
    PROVE  VaultInv'
<1>1. CASE AllAccepted(p) /\ \A s \in flight[p].slots : ContributionHolds(p, s)
    <2> DEFINE t == [s \in flight[p].slots |-> call[p][s].got]
               arg == [transcript |-> t]
    <2>1. Backed(file, t) /\ DOMAIN t = flight[p].slots
        BY <1>1, Assembled DEF InitAnswered
    <2>2. Post(p, "finalize", flight[p].slots, arg)
        BY <1>1 DEF InitAnswered
    <2>3. arg.transcript = t /\ t \in Transcripts
        BY <2>1 DEF Backed
    <2>4. arg \in [transcript : Transcripts]
        BY <2>3
    <2> HIDE DEF t, arg
    <2>5. flight[p].slots \in SUBSET Slots
        BY DEF VaultInv, Typed, Shaped, Requests
    <2>6. ArgSound(file, deposits,
                   [op |-> "finalize", slots |-> flight[p].slots, arg |-> arg])
        BY <2>1, <2>3, <2>4 DEF ArgSound
    <2>7. arg \in AnyArg /\ "finalize" \in Ops
        BY <2>4 DEF AnyArg, Ops, VaultOps
    <2> QED BY <2>2, <2>5, <2>6, <2>7, PostKeeps DEF InitAnswered
<1>2. CASE ~(AllAccepted(p) /\ \A s \in flight[p].slots : ContributionHolds(p, s))
    <2>1. Close(p) /\ transcripts' = transcripts /\ observed' = observed
        BY <1>2 DEF InitAnswered, Fail, ledger
    <2>2. Grown
        BY Nobody DEF InitAnswered
    <2>3. LedgerBacked' /\ observed' \subseteq Nat
        BY <2>1, <2>2, LedgerStays DEF VaultInv, Typed
    <2> QED BY <2>1, <2>3, CloseKeeps DEF InitAnswered
<1> QED BY <1>1, <1>2

LEMMA AnsweredKeeps ==
    ASSUME VaultInv, NEW p \in Flights, CoordinatorStep(p)
    PROVE  VaultInv'
<1>1. CASE FinalizeAnswered(p)
    <2>1. Grown /\ file' = file
        BY <1>1, Nobody DEF FinalizeAnswered
    <2>2. Backed(file, flight[p].arg.transcript)
        BY <1>1 DEF FinalizeAnswered, Returned, VaultInv, ArgsSound, ArgSound
    <2>3. \A t \in transcripts' : Backed(file, t)
        BY <1>1, <2>2 DEF FinalizeAnswered, VaultInv, LedgerBacked
    <2>4. LedgerBacked' /\ observed' \subseteq Nat
        BY <1>1, <2>1, <2>3 DEF LedgerBacked, FinalizeAnswered, VaultInv, Typed
    <2> QED BY <1>1, <2>4, CloseKeeps DEF FinalizeAnswered
<1>2. CASE ObserveAnswered(p)
    <2>1. Grown /\ transcripts' = transcripts
        BY <1>2, Nobody DEF ObserveAnswered
    <2>2. flight[p].arg.count \in Nat
        BY <1>2 DEF ObserveAnswered, Returned, VaultInv, ArgsSound, ArgSound
    <2>3. observed' \subseteq Nat
        BY <1>2, <2>2 DEF ObserveAnswered, VaultInv, Typed
    <2> QED BY <1>2, <2>1, <2>3, LedgerStays, CloseKeeps DEF ObserveAnswered
<1>3. CASE FanOutAnswered(p)
    <2>1. Grown /\ transcripts' = transcripts /\ observed' = observed
        BY <1>3, Nobody DEF FanOutAnswered, ledger
    <2>2. LedgerBacked' /\ observed' \subseteq Nat
        BY <2>1, LedgerStays DEF VaultInv, Typed
    <2> QED BY <1>3, <2>2, CloseKeeps DEF FanOutAnswered
<1> QED BY <1>1, <1>2, <1>3, InitAnsweredKeeps DEF CoordinatorStep

----------------------------------------------------------------------------
(* The workers' steps                                                      *)

LEMMA Words ==
    /\ "ok" \in Ats /\ "err" \in Ats /\ "read" \in Ats /\ "fetched" \in Ats
    /\ Nil \in VaultBases /\ Nil \in VaultGots
    /\ VaultBases \subseteq Bases /\ VaultGots \subseteq Gots
    /\ "sent" # "none" /\ "read" # "none" /\ "fetched" # "none"
BY AtsOf DEF VaultBases, VaultGots, Bases, Gots

\* What the invariant says of the call at hand and of the file.
LEMMA AtHand ==
    ASSUME VaultInv, NEW p \in Flights, NEW s \in Slots, call[p][s].at # "none"
    PROVE  /\ CallSound(file, vaultSequence, deposits, flight[p], s,
                        call[p][s].at, call[p][s].base, call[p][s].got)
           /\ s \in flight[p].slots
           /\ ArgSound(file, deposits, flight[p])
           /\ file[s] = Nil \/ Sound(file, vaultSequence, deposits, s, file[s])
BY DEF VaultInv, CallsSound, CallSound, ArgsSound, FilesSound

LEMMA RefuseKeeps ==
    ASSUME VaultInv, UNCHANGED <<chain, flight, ledger, faults>>,
           NEW p \in Flights, NEW s \in Slots, call[p][s].at # "none", Refuse(p, s)
    PROVE  VaultInv'
<1>1. CallSound(file, vaultSequence, deposits, flight[p], s, "err", Nil, Nil)
    BY AtHand, Words DEF CallSound
<1> QED BY <1>1, Words, MoveAlone DEF Refuse, Reject

\* The worker answers from the file it has.
LEMMA ReplyKeeps ==
    ASSUME VaultInv, UNCHANGED <<chain, file, flight, ledger, faults>>,
           NEW p \in Flights, NEW s \in Slots, call[p][s].at # "none",
           flight[p].op # "init", NEW got \in VaultGots, Reply(p, s, got)
    PROVE  VaultInv'
<1>1. CallSound(file, vaultSequence, deposits, flight[p], s, "ok", Nil, got)
    BY AtHand, Words DEF CallSound
<1> QED BY <1>1, Words, MoveAlone DEF Reply

\* It keeps the copy it read.
LEMMA KeepKeeps ==
    ASSUME VaultInv, UNCHANGED <<chain, flight, ledger, faults>>,
           NEW p \in Flights, NEW s \in Slots, call[p][s].at # "none",
           flight[p].op = "init" \/ file[s] # Nil, Keep(p, s)
    PROVE  VaultInv'
<1>1. file[s] # Nil => Sound(file, vaultSequence, deposits, s, file[s])
                        /\ SameFrozen(file, s, file[s])
    BY AtHand DEF SameFrozen
<1>2. file[s] \in VaultBases
    BY DEF VaultInv, Typed
<1>3. CallSound(file, vaultSequence, deposits, flight[p], s, "read", file[s], Nil)
    BY <1>1, <1>2, AtHand, Words DEF CallSound
<1> QED BY <1>2, <1>3, Words, MoveAlone DEF Keep

\* It replaces the file and answers, to a request that is not an init.
LEMMA RewriteKeeps ==
    ASSUME VaultInv, UNCHANGED <<chain, flight, ledger, faults>>,
           NEW p \in Flights, NEW s \in Slots, call[p][s].at # "none",
           flight[p].op # "init",
           NEW f, Sound(file, vaultSequence, deposits, s, f), SameFrozen(file, s, f),
           NEW got \in VaultGots, Replace(s, f), Reply(p, s, got)
    PROVE  VaultInv'
<1>1. Grown /\ FilesSound' /\ file' \in [Slots -> VaultBases]
    BY ReplaceKeeps
<1>2. CallSound(file', vaultSequence', deposits', flight[p], s, "ok", Nil, got)
    BY AtHand, Words DEF CallSound
<1> QED BY <1>1, <1>2, Words, MoveKeeps DEF Reply

\* A copy that keeps what init froze and pinned.
LEMMA CopyIsSound ==
    ASSUME VaultInv, NEW p \in Flights, NEW s \in Slots,
           flight[p].op \in {"finalize", "observe", "resync", "sync"},
           call[p][s].at \in {"read", "fetched"}
    PROVE  /\ Sound(file, vaultSequence, deposits, s, call[p][s].base)
           /\ SameFrozen(file, s, call[p][s].base)
           /\ call[p][s].base \in Files
BY AtHand DEF CallSound, Sound

LEMMA InitReadKeeps ==
    ASSUME VaultInv, NEW p \in Flights, NEW s \in Slots, InitRead(p, s)
    PROVE  VaultInv'
<1>1. call[p][s].at # "none" /\ flight[p].op = "init"
    BY Words DEF InitRead, At
<1>2. CASE file[s] # Nil /\ SameIdentity(p, s)
    <2> DEFINE got == Contribution(file[s])
    <2>1. Reply(p, s, got) /\ UNCHANGED file
        BY <1>2 DEF InitRead
    <2>2. file[s] \in Files
        BY <1>1, <1>2, AtHand DEF Sound
    <2>3. got \in Contributions /\ got.hash = file[s].hash
        BY <2>2 DEF Contribution, Contributions, Files
    <2> HIDE DEF got
    <2>4. CallSound(file, vaultSequence, deposits, flight[p], s, "ok", Nil, got)
        BY <1>1, <1>2, <2>3, AtHand, Words DEF CallSound, SameIdentity, VaultGots
    <2> QED BY <1>1, <2>1, <2>3, <2>4, Words, MoveAlone
            DEF Reply, InitRead, VaultGots
<1>3. CASE ~(file[s] # Nil /\ SameIdentity(p, s))
    <2>1. Keep(p, s) \/ Refuse(p, s)
        BY <1>3 DEF InitRead
    <2> QED BY <1>1, <2>1, KeepKeeps, RefuseKeeps DEF InitRead
<1> QED BY <1>2, <1>3

LEMMA FreshIsSound ==
    ASSUME VaultInv, NEW request \in Inits, NEW S \in Quorums, NEW s \in Slots
    PROVE  /\ Sound(file, vaultSequence, deposits, s, Fresh(request, S))
           /\ Fresh(request, S).slots = S
           /\ Contribution(Fresh(request, S)) \in Contributions
           /\ Contribution(Fresh(request, S)).hash = Fresh(request, S).hash
<1> DEFINE h == WorkerHash(request, S, 0, 0)
<1>1. h \in WorkerHashes /\ h.sequence = 0 /\ h.count = 0
    BY DEF WorkerHash, WorkerHashes
<1>2. vaultSequence \in Nat /\ deposits \in Nat
    BY Ranges
<1> HIDE DEF h
<1>3. Fresh(request, S) = [hash |-> h, slots |-> S, pin |-> Nil,
                           sequence |-> 0, count |-> 0, bound |-> 0]
    BY DEF Fresh, h
<1> QED BY <1>1, <1>2, <1>3 DEF Sound, Files, Contribution, Contributions

LEMMA InitWriteKeeps ==
    ASSUME VaultInv, NEW p \in Flights, NEW s \in Slots, InitWrite(p, s)
    PROVE  VaultInv'
<1>1. call[p][s].at # "none" /\ flight[p].op = "init"
    BY Words DEF InitWrite, At
<1>2. CASE file[s] = Nil
    <2> DEFINE f == Fresh(flight[p].arg, flight[p].slots)
               got == Contribution(f)
    <2>1. Replace(s, f) /\ Reply(p, s, got)
        BY <1>2 DEF InitWrite, Create
    <2>2. flight[p].arg \in Inits /\ flight[p].slots \in Quorums
        BY <1>1, AtHand DEF ArgSound
    <2>3. /\ Sound(file, vaultSequence, deposits, s, f) /\ f.slots = flight[p].slots
          /\ got \in Contributions /\ got.hash = f.hash
        BY <2>2, FreshIsSound
    <2> HIDE DEF f, got
    <2>4. Grown /\ FilesSound' /\ file' \in [Slots -> VaultBases] /\ file'[s] = f /\ f # Nil
        BY <1>2, <2>1, <2>3, ReplaceKeeps DEF InitWrite
    <2>5. CallSound(file', vaultSequence', deposits', flight[p], s, "ok", Nil, got)
        BY <1>1, <2>3, <2>4, AtHand, Words DEF CallSound, VaultGots
    <2> QED BY <1>1, <2>1, <2>3, <2>4, <2>5, Words, MoveKeeps
            DEF Reply, InitWrite, VaultGots
<1>3. CASE file[s] # Nil
    BY <1>1, <1>3, RefuseKeeps DEF InitWrite, Create
<1> QED BY <1>2, <1>3

LEMMA FinalizeKeeps ==
    ASSUME VaultInv, NEW p \in Flights, NEW s \in Slots,
           FinalizeRead(p, s) \/ FinalizeWrite(p, s)
    PROVE  VaultInv'
<1>1. call[p][s].at # "none" /\ flight[p].op = "finalize"
    BY Words DEF FinalizeRead, FinalizeWrite, At
<1>2. CASE FinalizeRead(p, s)
    <2>1. \/ Refuse(p, s)
          \/ file[s] # Nil /\ Keep(p, s)
          \/ Reply(p, s, Nil) /\ UNCHANGED file
        BY <1>2 DEF FinalizeRead
    <2> QED BY <1>1, <1>2, <2>1, Words, RefuseKeeps, KeepKeeps, ReplyKeeps DEF FinalizeRead
<1>3. CASE FinalizeWrite(p, s)
    <2> DEFINE t == flight[p].arg.transcript
               base == call[p][s].base
               f == [base EXCEPT !.pin = t]
    <2>1. Replace(s, f) /\ Reply(p, s, Nil)
        BY <1>3 DEF FinalizeWrite
    <2>2. /\ Sound(file, vaultSequence, deposits, s, base)
          /\ SameFrozen(file, s, base) /\ base \in Files
        BY <1>1, <1>3, CopyIsSound DEF FinalizeWrite, At
    <2>3. Backed(file, t) /\ s \in DOMAIN t
        BY <1>1, AtHand DEF ArgSound
    <2> HIDE DEF t, base
    <2>4. /\ f \in Files /\ f.pin = t
          /\ f.hash = base.hash /\ f.slots = base.slots /\ f.sequence = base.sequence
          /\ f.count = base.count /\ f.bound = base.bound
        BY <2>2, <2>3 DEF Files, Backed
    <2> HIDE DEF f
    <2>5. Sound(file, vaultSequence, deposits, s, f) /\ SameFrozen(file, s, f)
        BY <2>2, <2>3, <2>4 DEF Sound, SameFrozen
    <2> QED BY <1>1, <1>3, <2>1, <2>5, Words, RewriteKeeps DEF FinalizeWrite
<1> QED BY <1>2, <1>3

LEMMA ObserveKeeps ==
    ASSUME VaultInv, NEW p \in Flights, NEW s \in Slots,
           ObserveRead(p, s) \/ ObserveWrite(p, s)
    PROVE  VaultInv'
<1>1. call[p][s].at # "none" /\ flight[p].op = "observe"
    BY Words DEF ObserveRead, ObserveWrite, At
<1>2. CASE ObserveRead(p, s)
    <2>1. Refuse(p, s) \/ (file[s] # Nil /\ Keep(p, s))
        BY <1>2 DEF ObserveRead
    <2> QED BY <1>1, <1>2, <2>1, RefuseKeeps, KeepKeeps DEF ObserveRead
<1>3. CASE ObserveWrite(p, s)
    <2> DEFINE n == flight[p].arg.count
               base == call[p][s].base
               f == [base EXCEPT !.count = n]
    <2>1. Replace(s, f) /\ Reply(p, s, Contribution(f))
        BY <1>3 DEF ObserveWrite
    <2>2. /\ Sound(file, vaultSequence, deposits, s, base)
          /\ SameFrozen(file, s, base) /\ base \in Files
        BY <1>1, <1>3, CopyIsSound DEF ObserveWrite, At
    <2>3. n \in Nat /\ n <= deposits
        BY <1>1, AtHand DEF ArgSound
    <2> HIDE DEF n, base
    <2>4. /\ f \in Files /\ f.count = n /\ f.pin = base.pin
          /\ f.hash = base.hash /\ f.slots = base.slots /\ f.sequence = base.sequence
          /\ f.bound = base.bound
        BY <2>2, <2>3 DEF Files
    <2> HIDE DEF f
    <2>5. Sound(file, vaultSequence, deposits, s, f) /\ SameFrozen(file, s, f)
        BY <2>2, <2>3, <2>4 DEF Sound, SameFrozen
    <2>6. Contribution(f) \in VaultGots
        BY <2>4 DEF Contribution, Contributions, Files, VaultGots
    <2> QED BY <1>1, <1>3, <2>1, <2>5, <2>6, RewriteKeeps DEF ObserveWrite
<1> QED BY <1>2, <1>3

LEMMA ResyncKeeps ==
    ASSUME VaultInv, NEW p \in Flights, NEW s \in Slots,
           ResyncRead(p, s) \/ ResyncWrite(p, s)
    PROVE  VaultInv'
<1>1. call[p][s].at # "none" /\ flight[p].op = "resync"
    BY Words DEF ResyncRead, ResyncWrite, At
<1>2. CASE ResyncRead(p, s)
    <2>1. \/ Refuse(p, s)
          \/ file[s] # Nil /\ Keep(p, s)
          \/ Reply(p, s, Nil) /\ UNCHANGED file
        BY <1>2 DEF ResyncRead
    <2> QED BY <1>1, <1>2, <2>1, Words, RefuseKeeps, KeepKeeps, ReplyKeeps DEF ResyncRead
<1>3. CASE ResyncWrite(p, s) /\ EventHolds(flight[p].arg)
    <2> DEFINE next == flight[p].arg.next
               tx == flight[p].arg.tx
               base == call[p][s].base
               f == [base EXCEPT !.sequence = next, !.bound = tx]
    <2>1. Replace(s, f) /\ Reply(p, s, Nil)
        BY <1>3 DEF ResyncWrite
    <2>2. /\ Sound(file, vaultSequence, deposits, s, base)
          /\ SameFrozen(file, s, base) /\ base \in Files
        BY <1>1, <1>3, CopyIsSound DEF ResyncWrite, At
    <2>3. vaultSequence \in Nat
        BY Ranges
    <2>4. next = tx /\ next \in Nat /\ next <= vaultSequence /\ Kind[tx] = "withdraw"
        BY <1>3, <2>3 DEF EventHolds
    <2> HIDE DEF next, tx, base
    <2>5. /\ f \in Files /\ f.sequence = next /\ f.bound = tx
          /\ f.hash = base.hash /\ f.slots = base.slots /\ f.count = base.count
          /\ f.pin = base.pin
        BY <2>2, <2>4 DEF Files
    <2> HIDE DEF f
    <2>6. Sound(file, vaultSequence, deposits, s, f) /\ SameFrozen(file, s, f)
        BY <2>2, <2>4, <2>5 DEF Sound, SameFrozen
    <2> QED BY <1>1, <1>3, <2>1, <2>6, Words, RewriteKeeps DEF ResyncWrite
<1>4. CASE ResyncWrite(p, s) /\ ~EventHolds(flight[p].arg)
    BY <1>1, <1>4, RefuseKeeps DEF ResyncWrite
<1> QED BY <1>2, <1>3, <1>4

LEMMA SyncKeeps ==
    ASSUME VaultInv, NEW p \in Flights, NEW s \in Slots,
           SyncRead(p, s) \/ SyncFetch(p, s) \/ SyncWrite(p, s)
    PROVE  VaultInv'
<1>1. call[p][s].at # "none" /\ flight[p].op = "sync"
    BY Words DEF SyncRead, SyncFetch, SyncWrite, At
<1>2. CASE SyncRead(p, s)
    <2>1. Refuse(p, s) \/ (file[s] # Nil /\ Keep(p, s))
        BY <1>2 DEF SyncRead
    <2> QED BY <1>1, <1>2, <2>1, RefuseKeeps, KeepKeeps DEF SyncRead
<1>3. CASE SyncFetch(p, s)
    <2> DEFINE base == call[p][s].base
               got == [Contribution(base) EXCEPT !.sequence = vaultSequence]
    <2>1. /\ Sound(file, vaultSequence, deposits, s, base)
          /\ SameFrozen(file, s, base) /\ base \in Files
        BY <1>1, <1>3, CopyIsSound DEF SyncFetch, At
    <2>2. vaultSequence \in Nat
        BY Ranges
    <2>3. CASE vaultSequence < base.sequence \/ vaultSequence = base.sequence
        <3>1. Refuse(p, s) \/ (Reply(p, s, Nil) /\ UNCHANGED file)
            BY <1>3, <2>3 DEF SyncFetch
        <3> QED BY <1>1, <1>3, <3>1, Words, RefuseKeeps, ReplyKeeps DEF SyncFetch
    <2>4. CASE ~(vaultSequence < base.sequence \/ vaultSequence = base.sequence)
        <3>1. Move(p, s, "fetched", base, got) /\ UNCHANGED file
            BY <1>3, <2>4 DEF SyncFetch
        <3>2. base.sequence \in Nat
            BY <2>1 DEF Files
        <3>3. base.sequence < vaultSequence
            BY <2>2, <2>4, <3>2
        <3>4. got \in Contributions /\ got.sequence = vaultSequence
            BY <2>1, <2>2 DEF Contribution, Contributions, Files
        <3> HIDE DEF base, got
        <3>5. CallSound(file, vaultSequence, deposits, flight[p], s, "fetched", base, got)
            BY <1>1, <2>1, <2>2, <3>3, <3>4, AtHand
               DEF CallSound, VaultBases, VaultGots
        <3>6. base \in Bases /\ got \in Gots
            BY <2>1, <3>4, Words DEF VaultBases, VaultGots
        <3> QED BY <1>1, <1>3, <3>1, <3>5, <3>6, Words, MoveAlone DEF SyncFetch
    <2> QED BY <2>3, <2>4
<1>4. CASE SyncWrite(p, s)
    <2> DEFINE next == call[p][s].got.sequence
               base == call[p][s].base
               f == [base EXCEPT !.sequence = next]
    <2>1. Replace(s, f) /\ Reply(p, s, Nil)
        BY <1>4 DEF SyncWrite
    <2>2. /\ Sound(file, vaultSequence, deposits, s, base)
          /\ SameFrozen(file, s, base) /\ base \in Files
        BY <1>1, <1>4, CopyIsSound DEF SyncWrite, At
    <2>3. next \in Nat /\ base.sequence < next /\ next <= vaultSequence
        BY <1>1, <1>4, AtHand DEF SyncWrite, At, CallSound, Contributions
    <2> HIDE DEF next, base
    <2>4. /\ f \in Files /\ f.sequence = next /\ f.pin = base.pin
          /\ f.hash = base.hash /\ f.slots = base.slots /\ f.count = base.count
          /\ f.bound = base.bound
        BY <2>2, <2>3 DEF Files
    <2>5. base.sequence \in Nat /\ base.bound \in Nat
        BY <2>2 DEF Files
    <2> HIDE DEF f
    <2>6. Sound(file, vaultSequence, deposits, s, f) /\ SameFrozen(file, s, f)
        BY <2>2, <2>3, <2>4, <2>5 DEF Sound, SameFrozen
    <2> QED BY <1>1, <1>4, <2>1, <2>6, Words, RewriteKeeps DEF SyncWrite
<1> QED BY <1>2, <1>3, <1>4

----------------------------------------------------------------------------
(* The chain, what goes wrong, and the whole                               *)

LEMMA ChainKeeps ==
    ASSUME VaultInv, ChainExits \/ ChainDeposit
    PROVE  VaultInv'
<1>1. vaultSequence \in Nat /\ deposits \in Nat /\ MaxExits \in Nat
    BY Ranges, VaultStateConstants
<1>2. UNCHANGED <<file, flight, call, transcripts, observed, faults>>
    BY DEF ChainExits, ChainDeposit, ledger
<1>3. Grown
    BY <1>1, <1>2 DEF Grown, Kept, ChainExits, ChainDeposit, VaultInv, Typed
<1>4. Calm
    BY <1>2 DEF Calm, CalmAt, SameRequest, SameCall
<1>5. Shaped(Ops, AnyArg, Bases, Gots)' /\ observed' \subseteq Nat /\ faults' \in Nat
    BY <1>2 DEF VaultInv, Typed, Shaped
<1> QED BY <1>2, <1>3, <1>4, <1>5, LedgerStays, CalmKeeps

LEMMA FailureKeeps ==
    ASSUME VaultInv, Failure
    PROVE  VaultInv'
<1>1. Grown /\ file' = file /\ transcripts' = transcripts /\ observed' = observed
    BY Nobody DEF Failure, ledger
<1>2. Shaped(Ops, AnyArg, Bases, Gots)' /\ Calm
    BY DisconnectShape, WorkerCrashShape, RestartShape
    DEF Failure, CoordinatorCrash, VaultInv, Typed
<1>3. faults' \in Nat
    <2>1. Fault
        BY DEF Failure, Disconnect, WorkerCrash, CoordinatorCrash, Restart
    <2> QED BY <2>1 DEF Fault, VaultInv, Typed
<1>4. observed' \subseteq Nat
    BY <1>1 DEF VaultInv, Typed
<1> QED BY <1>1, <1>2, <1>3, <1>4, LedgerStays, CalmKeeps

LEMMA StutterKeeps ==
    ASSUME VaultInv, UNCHANGED vars
    PROVE  VaultInv'
<1>1. Grown /\ UNCHANGED <<file, flight, call, transcripts, observed, faults>>
    BY Nobody DEF vars, ledger
<1>2. Calm
    BY <1>1 DEF Calm, CalmAt, SameRequest, SameCall
<1>3. Shaped(Ops, AnyArg, Bases, Gots)' /\ observed' \subseteq Nat /\ faults' \in Nat
    BY <1>1 DEF VaultInv, Typed, Shaped
<1> QED BY <1>1, <1>2, <1>3, LedgerStays, CalmKeeps

LEMMA InitHolds ==
    Init => VaultInv
<1> SUFFICES ASSUME Init PROVE VaultInv
    OBVIOUS
<1>1. /\ Shaped(Ops, AnyArg, Bases, Gots)
      /\ \A p \in Flights : flight[p] = Free
      /\ \A p \in Flights, s \in Slots : call[p][s] = Unsent
    <2>1. /\ "none" \in Ops /\ Nil \in AnyArg /\ Nil \in Bases /\ Nil \in Gots
        BY Words DEF Ops, VaultOps, AnyArg
    <2>2. FanOutInit
        BY DEF Init
    <2>3. /\ \A p \in Flights : flight[p] = Free
          /\ \A p \in Flights, s \in Slots : call[p][s] = Unsent
        BY <2>2 DEF FanOutInit
    <2> QED BY <2>1, <2>2, <2>3, InitShape
<1>2. Typed
    BY <1>1, VaultStateConstants DEF Init, FanOutInit, Typed, VaultBases
<1>3. ArgsSound /\ CallsSound
    BY <1>1 DEF ArgsSound, CallsSound, ArgSound, CallSound, Free, Unsent,
       VaultBases, VaultGots
<1>4. FilesSound /\ LedgerBacked
    BY DEF Init, FilesSound, LedgerBacked
<1> QED BY <1>2, <1>3, <1>4 DEF VaultInv

LEMMA StepKeeps ==
    VaultInv /\ [Next]_vars => VaultInv'
<1> SUFFICES ASSUME VaultInv, [Next]_vars PROVE VaultInv'
    OBVIOUS
<1>1. ASSUME NEW p \in Flights, NEW s \in Slots, WorkerStep(p, s)
      PROVE  VaultInv'
    BY <1>1, InitReadKeeps, InitWriteKeeps, FinalizeKeeps, ObserveKeeps,
       ResyncKeeps, SyncKeeps DEF WorkerStep
<1> QED BY <1>1, StartKeeps, AnsweredKeeps, ChainKeeps, FailureKeeps, StutterKeeps DEF Next

\* The inductive invariant holds in every behaviour.
LEMMA Inductive ==
    Spec => []VaultInv
BY InitHolds, StepKeeps, PTL DEF Spec

----------------------------------------------------------------------------
(* The theorems                                                            *)

\* Without the ceremony, the requests are those of these routes.
OnlyVault == \A p \in Flights : flight[p].op \in VaultOps

LEMMA OnlyVaultStays ==
    ASSUME VaultInv, OnlyVault, [Next]_vars
    PROVE  OnlyVault'
<1>0. flight \in [Flights -> Requests(Ops, AnyArg)]
    BY DEF VaultInv, Typed, Shaped
<1>1. ASSUME NEW p \in Flights, NEW op \in VaultOps, NEW S, NEW arg, Post(p, op, S, arg)
      PROVE  OnlyVault'
    BY <1>0, <1>1 DEF Post, OnlyVault
<1>2. \A p \in Flights : Dropped(p).op \in VaultOps
    <2> TAKE p \in Flights
    <2>1. flight[p] \in Requests(Ops, AnyArg) /\ flight[p].op \in VaultOps
        BY <1>0 DEF OnlyVault
    <2>2. [flight[p] EXCEPT !.open = FALSE].op = flight[p].op
        BY <2>1 DEF Requests
    <2> QED BY <2>1, <2>2 DEF Dropped, Free, VaultOps
<1>3. ASSUME NEW p \in Flights, Close(p) PROVE OnlyVault'
    BY <1>0, <1>2, <1>3 DEF Close, OnlyVault
<1>4. CASE Restart
    BY <1>2, <1>4 DEF Restart, OnlyVault
<1>5. CASE UNCHANGED flight
    BY <1>5 DEF OnlyVault
<1>6. {"init", "finalize", "observe", "resync", "sync"} \subseteq VaultOps
    BY DEF VaultOps
<1>7. ASSUME NEW p \in Flights, Start(p) \/ CoordinatorStep(p) PROVE OnlyVault'
    BY <1>1, <1>3, <1>6, <1>7
       DEF Start, StartInit, StartObserve, StartResync, StartSync, CoordinatorStep,
           InitAnswered, FinalizeAnswered, ObserveAnswered, FanOutAnswered, Fail
<1>8. ASSUME NEW p, NEW s, WorkerStep(p, s) PROVE UNCHANGED flight
    BY <1>8 DEF WorkerStep, InitRead, InitWrite, FinalizeRead, FinalizeWrite,
       ObserveRead, ObserveWrite, ResyncRead, ResyncWrite, SyncRead, SyncFetch,
       SyncWrite
<1>9. CASE ChainExits \/ ChainDeposit \/ UNCHANGED vars
    BY <1>5, <1>9 DEF ChainExits, ChainDeposit, vars
<1>10. CASE Failure
    BY <1>4, <1>5, <1>10 DEF Failure, Disconnect, WorkerCrash, CoordinatorCrash
<1> QED BY <1>5, <1>7, <1>8, <1>9, <1>10 DEF Next

\* The files of the workers, the coordinator's requests and the calls have
\* their types (vault_state_v2.json, the routes' bodies and answers).
THEOREM VaultTypes ==
    Spec => []VaultTypeOK
<1>1. VaultInv /\ OnlyVault => VaultTypeOK
    <2> SUFFICES ASSUME VaultInv, OnlyVault PROVE VaultTypeOK
        OBVIOUS
    <2>1. \A p \in Flights :
            /\ flight[p].op \in VaultOps
            /\ flight[p].slots \subseteq Slots
            /\ flight[p].arg \in Args(flight[p].op)
            /\ flight[p].open \in BOOLEAN
        <3> TAKE p \in Flights
        <3>1. flight[p] \in Requests(Ops, AnyArg) /\ flight[p].op \in VaultOps
            BY DEF VaultInv, Typed, Shaped, OnlyVault
        <3>2. flight[p].arg \in Args(flight[p].op)
            <4>1. ArgSound(file, deposits, flight[p])
                BY DEF VaultInv, ArgsSound
            <4> QED BY <3>1, <4>1 DEF ArgSound, Args, VaultOps
        <3> QED BY <3>1, <3>2 DEF Requests
    <2>2. call \in [Flights -> [Slots -> Calls]]
        <3>1. call \in [Flights -> [Slots -> CallsOf(Bases, Gots)]]
            BY DEF VaultInv, Typed, Shaped
        <3>2. ASSUME NEW p \in Flights, NEW s \in Slots PROVE call[p][s] \in Calls
            <4>1. call[p][s] \in CallsOf(Bases, Gots)
                BY <3>1
            <4>2. call[p][s].base \in VaultBases /\ call[p][s].got \in VaultGots
                BY DEF OnlyVault, VaultInv, CallsSound, CallSound
            <4> QED BY <4>1, <4>2 DEF CallsOf, Calls, Ats, VaultBases, VaultGots
        <3> QED BY <3>1, <3>2
    <2>3. DOMAIN flight = Flights /\ file \in [Slots -> Files \cup {Nil}]
        BY DEF VaultInv, Typed, Shaped, VaultBases
    <2>4. transcripts \subseteq Transcripts
        BY DEF VaultInv, LedgerBacked, Backed
    <2> QED BY <2>1, <2>2, <2>3, <2>4 DEF VaultTypeOK, VaultInv, Typed, VaultOps
<1>2. Init => OnlyVault
    BY DEF Init, FanOutInit, Free, OnlyVault, VaultOps
<1> QED BY <1>1, <1>2, OnlyVaultStays, Inductive, PTL DEF Spec

LEMMA VaultInvGivesCursors ==
    VaultInv => CursorIsBacked
BY DEF VaultInv, FilesSound, Sound, CursorIsBacked

LEMMA VaultInvGivesPins ==
    VaultInv => PinsAgree
<1> SUFFICES ASSUME VaultInv, NEW s \in Slots, file[s] # Nil, file[s].pin # Nil
             PROVE  /\ s \in DOMAIN file[s].pin
                    /\ Held(file[s].pin)
                    /\ \A t \in DOMAIN file[s].pin :
                        /\ file[t].hash = file[s].hash
                        /\ file[t].pin \in {Nil, file[s].pin}
    BY DEF PinsAgree
<1>1. s \in DOMAIN file[s].pin /\ Backed(file, file[s].pin)
    BY DEF VaultInv, FilesSound, Sound
<1>2. Held(file[s].pin)
    BY <1>1 DEF Backed, Held
<1>3. ASSUME NEW t \in DOMAIN file[s].pin, file[t].pin # Nil
      PROVE  file[t].pin = file[s].pin
    <2>1. t \in Slots /\ file[t] # Nil
        BY <1>1, TranscriptSlots DEF Backed
    <2>2. t \in DOMAIN file[t].pin /\ Backed(file, file[t].pin)
        BY <1>3, <2>1 DEF VaultInv, FilesSound, Sound
    <2> QED BY <1>1, <2>2, OneTranscript
<1> QED BY <1>1, <1>2, <1>3 DEF Backed

LEMMA VaultInvGivesTranscripts ==
    VaultInv => TranscriptsAreHeld
<1> SUFFICES ASSUME VaultInv PROVE TranscriptsAreHeld
    OBVIOUS
<1>1. \A t \in transcripts : Backed(file, t)
    BY DEF VaultInv, LedgerBacked
<1>2. \A t \in transcripts : Held(t)
    BY <1>1 DEF Backed, Held
<1>3. \A t, u \in transcripts : DOMAIN t \cap DOMAIN u # {} => t = u
    BY <1>1, OneTranscript
<1> QED BY <1>2, <1>3 DEF TranscriptsAreHeld

\* Whatever the interleaving of its handlers, no worker is ahead of the chain,
\* nor bound to anything but a withdrawal it has passed (vault_state_v2.json).
THEOREM CursorsAreBacked ==
    Spec => []CursorIsBacked
BY VaultInvGivesCursors, Inductive, PTL

\* Workers that share a quorum pin the same transcript, and it is about the
\* files they hold (finalize_vault_state_v2).
THEOREM PinsAreOne ==
    Spec => []PinsAgree
BY VaultInvGivesPins, Inductive, PTL

\* A transcript the coordinator persisted is about files the workers hold, and
\* no two of them share a worker (the provenance scans of its routes).
THEOREM TranscriptsStayHeld ==
    Spec => []TranscriptsAreHeld
BY VaultInvGivesTranscripts, Inductive, PTL

\* A step that replaces a file keeps what init froze in it.
LEMMA StepFreezes ==
    VaultInv /\ [Next]_vars => Kept(file, file')
<1> SUFFICES ASSUME VaultInv, [Next]_vars PROVE Kept(file, file')
    OBVIOUS
<1>1. ASSUME NEW p \in Flights, NEW s \in Slots, WorkerStep(p, s), file' # file
      PROVE  \E f : f # Nil /\ Replace(s, f) /\ (file[s] = Nil \/ SameFrozen(file, s, f))
    <2>1. CASE InitWrite(p, s)
        <3>1. flight[p].arg \in Inits /\ flight[p].slots \in Quorums
            BY <2>1, AtHand, Words DEF InitWrite, At, ArgSound
        <3>2. Fresh(flight[p].arg, flight[p].slots) # Nil
            BY <3>1, FreshIsSound, NilIsNoFile DEF Sound
        <3> QED BY <1>1, <2>1, <3>2 DEF InitWrite, Create, Refuse
    <2>2. CASE FinalizeWrite(p, s)
        <3> DEFINE f == [call[p][s].base EXCEPT !.pin = flight[p].arg.transcript]
        <3>1. SameFrozen(file, s, call[p][s].base) /\ call[p][s].base \in Files
            BY <2>2, CopyIsSound DEF FinalizeWrite, At
        <3>2. flight[p].arg.transcript \in Transcripts
            BY <2>2, AtHand, Words DEF FinalizeWrite, At, ArgSound, Backed
        <3>3. f \in Files /\ SameFrozen(file, s, f)
            BY <3>1, <3>2 DEF SameFrozen, Files
        <3> QED BY <2>2, <3>3, NilIsNoFile DEF FinalizeWrite
    <2>3. CASE ObserveWrite(p, s)
        <3> DEFINE f == [call[p][s].base EXCEPT !.count = flight[p].arg.count]
        <3>1. SameFrozen(file, s, call[p][s].base) /\ call[p][s].base \in Files
            BY <2>3, CopyIsSound DEF ObserveWrite, At
        <3>2. flight[p].arg.count \in Nat
            BY <2>3, AtHand, Words DEF ObserveWrite, At, ArgSound
        <3>3. f \in Files /\ SameFrozen(file, s, f)
            BY <3>1, <3>2 DEF SameFrozen, Files
        <3> QED BY <2>3, <3>3, NilIsNoFile DEF ObserveWrite
    <2>4. CASE ResyncWrite(p, s)
        <3> DEFINE f == [call[p][s].base EXCEPT !.sequence = flight[p].arg.next,
                                                !.bound = flight[p].arg.tx]
        <3>1. SameFrozen(file, s, call[p][s].base) /\ call[p][s].base \in Files
            BY <2>4, CopyIsSound DEF ResyncWrite, At
        <3>2. flight[p].arg.next \in Nat /\ flight[p].arg.tx \in Nat
            BY <2>4, AtHand, Words DEF ResyncWrite, At, ArgSound
        <3>3. f \in Files /\ SameFrozen(file, s, f)
            BY <3>1, <3>2 DEF SameFrozen, Files
        <3>4. Replace(s, f)
            BY <1>1, <2>4 DEF ResyncWrite, Refuse
        <3> QED BY <3>3, <3>4, NilIsNoFile
    <2>5. CASE SyncWrite(p, s)
        <3> DEFINE f == [call[p][s].base EXCEPT !.sequence = call[p][s].got.sequence]
        <3>1. SameFrozen(file, s, call[p][s].base) /\ call[p][s].base \in Files
            BY <2>5, CopyIsSound DEF SyncWrite, At
        <3>2. call[p][s].got.sequence \in Nat
            BY <2>5, AtHand, Words DEF SyncWrite, At, CallSound, Contributions
        <3>3. f \in Files /\ SameFrozen(file, s, f)
            BY <3>1, <3>2 DEF SameFrozen, Files
        <3> QED BY <2>5, <3>3, NilIsNoFile DEF SyncWrite
    <2> QED BY <1>1, <2>1, <2>2, <2>3, <2>4, <2>5
            DEF WorkerStep, InitRead, FinalizeRead, ObserveRead, ResyncRead, SyncRead,
                SyncFetch, Keep, Refuse
<1>2. ASSUME NEW s \in Slots, NEW f, f # Nil, Replace(s, f),
             file[s] = Nil \/ SameFrozen(file, s, f)
      PROVE  Kept(file, file')
    BY <1>2 DEF Kept, Replace, SameFrozen, VaultInv, Typed
<1>3. CASE file' = file
    BY <1>3 DEF Kept
<1>4. CASE file' # file
    <2>1. \E p \in Flights, s \in Slots : WorkerStep(p, s)
        BY <1>4 DEF Next, vars, Start, CoordinatorStep, ChainExits, ChainDeposit, Failure,
           StartInit, StartObserve, StartResync, StartSync, InitAnswered,
           FinalizeAnswered, ObserveAnswered, FanOutAnswered
    <2> QED BY <1>1, <1>2, <1>4, <2>1
<1> QED BY <1>3, <1>4

\* What init froze in a file is never replaced by a handler that wrote back a
\* copy it had read before (the workers' read-modify-write of vault_state_v2.json).
THEOREM WhatInitFroze ==
    Spec => FrozenForever
<1>1. VaultInv /\ [Next]_vars =>
        [\A s \in Slots : file[s] # Nil =>
            /\ file'[s] # Nil
            /\ file'[s].hash = file[s].hash
            /\ file'[s].slots = file[s].slots]_vars
    BY StepFreezes DEF Kept
<1> QED BY <1>1, Inductive, PTL DEF Spec, FrozenForever

----------------------------------------------------------------------------
(* The ceremony: what its files, requests and calls hold                   *)

CeremonyFiles ==
    /\ runs \in Nat /\ accepted \in Nat \cup {Nil}
    /\ share \in [Slots -> Nat \cup {Nil}]
    /\ drawn \in [Slots -> Nat]
    /\ blind \in [Slots -> Nat \cup {Nil}]
    /\ derived \in Derivations \cup {Nil}
    /\ nonces \in [Slots -> SUBSET NonceFile]
    /\ answers \in [Slots -> SUBSET ResponseOf]
    /\ registered \subseteq Registrations

CeremonyArg(r) ==
    /\ r.op \in {"dkg1", "dkg2", "dkg3"} =>
          r.arg \in [run : Nat \cup {Nil}, left : SUBSET Slots]
    /\ r.op \in {"dkg2", "dkg3"} => r.arg.run \in Nat
    /\ r.op \in {"ek0", "reg1"} => r.slots \in Quorums
    /\ r.op = "ek0" => r.arg \in Nat
    /\ r.op = "ek1" => r.arg \in Derivations /\ DOMAIN r.arg.blinds = r.slots
    /\ r.op = "reg1" => r.arg \in [id : Named \cup Nat, run : Nat]
    /\ r.op = "reg2" =>
          /\ r.arg \in [id : Named \cup Nat, run : Nat, challenge : NoncesOf]
          /\ DOMAIN r.arg.challenge = r.slots

CeremonyCall(op, at, base, got) ==
    /\ op = "ek0" /\ at = "ok" => got \in Nat
    /\ op = "ek1" /\ at \in {"read", "ok"} => got \in Nat
    /\ op = "reg1" /\ at = "ok" => got \in NonceFile
    /\ op = "reg2" /\ at = "read" => base \in Nat

CeremonyAsked ==
    /\ \A p \in Flights : CeremonyArg(flight[p])
    /\ \A p \in Flights, s \in Slots :
          CeremonyCall(flight[p].op, call[p][s].at, call[p][s].base, call[p][s].got)

\* The requests of init are those that name two transcripts (the configuration
\* gives Inits this value; the set is infinite, so TLC cannot compare it in an
\* ASSUME).
InitsNameTranscripts == InitBodies \subseteq Inits

CeremonyInv ==
    InitsNameTranscripts /\ VaultInv /\ CeremonyFiles /\ CeremonyAsked

LEMMA CeremonyOpsApart ==
    ASSUME NEW op \in CeremonyOps
    PROVE  op \in Ops /\ op \notin VaultOps
BY DEF CeremonyOps, Ops, VaultOps

LEMMA NoncesOfSlots ==
    ASSUME NEW f \in NoncesOf
    PROVE  /\ DOMAIN f \in Quorums /\ DOMAIN f \subseteq Slots
           /\ \A s \in DOMAIN f : f[s] \in Nat
BY DEF NoncesOf, Quorums

LEMMA CalmAsked ==
    ASSUME CeremonyAsked, Calm
    PROVE  CeremonyAsked'
<1>1. ASSUME NEW p \in Flights
      PROVE  /\ CeremonyArg(flight'[p])
             /\ \A s \in Slots : CeremonyCall(flight'[p].op, call'[p][s].at,
                                              call'[p][s].base, call'[p][s].got)
  <2>1. CASE SameRequest(p) /\ \A s \in Slots : SameCall(p, s) \/ Ends(p, s)
    <3>1. CeremonyArg(flight'[p])
      BY <2>1 DEF CeremonyAsked, CeremonyArg, SameRequest
    <3>2. ASSUME NEW s \in Slots
          PROVE  CeremonyCall(flight'[p].op, call'[p][s].at,
                              call'[p][s].base, call'[p][s].got)
      <4>1. CASE SameCall(p, s)
        BY <2>1, <4>1 DEF CeremonyAsked, SameRequest, SameCall
      <4>2. CASE Ends(p, s)
        BY <4>2 DEF CeremonyCall, Ends
      <4> QED BY <2>1, <4>1, <4>2
    <3> QED BY <3>1, <3>2
  <2>2. CASE flight'[p] = Free /\ \A s \in Slots : call'[p][s] = Unsent
    BY <2>2 DEF Free, Unsent, CeremonyArg, CeremonyCall
  <2> QED BY <2>1, <2>2 DEF Calm, CalmAt
<1> QED BY <1>1 DEF CeremonyAsked

LEMMA PostAsked ==
    ASSUME VaultInv, CeremonyAsked, NEW p \in Flights, NEW op, NEW S, NEW arg,
           Post(p, op, S, arg),
           CeremonyArg([op |-> op, slots |-> S, arg |-> arg, open |-> TRUE])
    PROVE  CeremonyAsked'
<1>1. PICK r : r = [op |-> op, slots |-> S, arg |-> arg, open |-> TRUE]
  OBVIOUS
<1>2. PICK c : c = [s \in Slots |-> IF s \in S THEN Sent ELSE Unsent]
  OBVIOUS
<1>3. flight' = [flight EXCEPT ![p] = r] /\ call' = [call EXCEPT ![p] = c]
  BY <1>1, <1>2 DEF Post
<1>4. /\ flight'[p] = r /\ call'[p] = c
      /\ \A q \in Flights \ {p} : flight'[q] = flight[q] /\ call'[q] = call[q]
  BY <1>3 DEF VaultInv, Typed, Shaped
<1>5. CeremonyArg(r)
  BY <1>1
<1>6. \A s \in Slots : CeremonyCall(r.op, c[s].at, c[s].base, c[s].got)
  BY <1>2 DEF CeremonyCall, Sent, Unsent
<1> QED BY <1>4, <1>5, <1>6 DEF CeremonyAsked

LEMMA MoveAsked ==
    ASSUME VaultInv, CeremonyAsked, NEW p \in Flights, NEW s \in Slots,
           UNCHANGED flight, NEW step, NEW base, NEW got, Move(p, s, step, base, got),
           CeremonyCall(flight[p].op, step, base, got)
    PROVE  CeremonyAsked'
<1>1. /\ \A q \in Flights, t \in Slots :
            (q # p \/ t # s) => call'[q][t] = call[q][t]
      /\ \/ call'[p][s] = Unsent
         \/ /\ call'[p][s].at = step
            /\ call'[p][s].base = base /\ call'[p][s].got = got
  BY MovedCall DEF VaultInv, Typed
<1>2. CeremonyCall(flight[p].op, call'[p][s].at, call'[p][s].base, call'[p][s].got)
  BY <1>1 DEF CeremonyCall, Unsent
<1> QED BY <1>1, <1>2 DEF CeremonyAsked

\* A request of the ceremony is posted, moves at a worker, or is answered.
LEMMA CeremonyPost ==
    ASSUME CeremonyInv, NEW p \in Flights, NEW op \in CeremonyOps,
           NEW S \in SUBSET Slots, NEW arg \in CeremonyArgs, Post(p, op, S, arg),
           CeremonyArg([op |-> op, slots |-> S, arg |-> arg, open |-> TRUE]),
           UNCHANGED <<vault, faults>>
    PROVE  (VaultInv /\ CeremonyAsked)'
<1>1. op \in Ops /\ arg \in AnyArg
  BY CeremonyOpsApart DEF AnyArg
<1>2. ArgSound(file, deposits, [op |-> op, slots |-> S, arg |-> arg])
  BY CeremonyOpsApart DEF ArgSound, VaultOps
<1> QED BY <1>1, <1>2, PostKeeps, PostAsked DEF CeremonyInv, vault

LEMMA CeremonyMove ==
    ASSUME CeremonyInv, NEW p \in Flights, NEW s \in Slots, call[p][s].at # "none",
           flight[p].op \in CeremonyOps, UNCHANGED <<vault, flight, faults>>,
           NEW step \in Ats, NEW base \in Bases, NEW got \in Gots,
           Move(p, s, step, base, got), CeremonyCall(flight[p].op, step, base, got)
    PROVE  (VaultInv /\ CeremonyAsked)'
<1>1. s \in flight[p].slots
  BY AtHand DEF CeremonyInv
<1>2. CallSound(file, vaultSequence, deposits, flight[p], s, step, base, got)
  BY <1>1, CeremonyOpsApart DEF CallSound, VaultOps
<1> QED BY <1>2, MoveAlone, MoveAsked DEF CeremonyInv, vault

LEMMA CeremonyClose ==
    ASSUME CeremonyInv, NEW p \in Flights, Close(p), UNCHANGED <<vault, faults>>
    PROVE  (VaultInv /\ CeremonyAsked)' /\ Calm
<1>1. Grown /\ transcripts' = transcripts /\ observed' = observed
  BY Nobody DEF CeremonyInv, vault, ledger
<1>2. LedgerBacked' /\ observed' \subseteq Nat
  BY <1>1, LedgerStays DEF CeremonyInv, VaultInv, Typed
<1>3. VaultInv'
  BY <1>2, CloseKeeps DEF CeremonyInv, vault
<1>4. Calm
  BY CloseShape DEF CeremonyInv, VaultInv, Typed
<1> QED BY <1>3, <1>4, CalmAsked DEF CeremonyInv

\* The call at hand has been asked of one of the slots of its request.
LEMMA Asked ==
    ASSUME CeremonyInv, NEW p \in Flights, NEW s \in Slots, NEW op, NEW step,
           At(p, s, op, step), step \in {"sent", "read"}
    PROVE  /\ flight[p].op = op /\ call[p][s].at = step /\ call[p][s].at # "none"
           /\ s \in flight[p].slots
           /\ CeremonyArg(flight[p])
           /\ CeremonyCall(op, step, call[p][s].base, call[p][s].got)
<1>1. call[p][s].at # "none"
  BY DEF At
<1> QED BY <1>1, AtHand DEF CeremonyInv, At, CeremonyAsked

LEMMA AnswerTypes ==
    /\ Nil \in Bases /\ Nil \in Gots /\ Nat \subseteq Bases /\ Nat \subseteq Gots
    /\ NonceFile \subseteq Gots /\ ResponseOf \subseteq Gots
    /\ {"ok", "err", "read", "sent"} \subseteq Ats
BY AtsOf, Words DEF Bases, Gots

\* A worker of the ceremony refuses.
LEMMA CeremonyReject ==
    ASSUME CeremonyInv, NEW p \in Flights, NEW s \in Slots, call[p][s].at # "none",
           flight[p].op \in CeremonyOps, UNCHANGED <<vault, flight, faults>>,
           Reject(p, s)
    PROVE  (VaultInv /\ CeremonyAsked)'
<1>1. CeremonyCall(flight[p].op, "err", Nil, Nil)
  BY DEF CeremonyCall
<1> QED BY <1>1, AnswerTypes, CeremonyMove DEF Reject

----------------------------------------------------------------------------
(* The DKG                                                                 *)

LEMMA SomeNode ==
    ASSUME NEW left \in SUBSET Slots, left # {}
    PROVE  {NextNode(left)} \in SUBSET Slots
BY DEF NextNode

LEMMA SlotsThere == Slots # {}
<1>1. IsFiniteSet(Slots) /\ Cardinality(Slots) # 0
  BY VaultStateConstants, FS_CardinalityType
<1> QED BY <1>1, FS_EmptySet

LEMMA AskKeeps ==
    ASSUME CeremonyInv, NEW p \in Flights, NEW op \in {"dkg1", "dkg2", "dkg3"},
           NEW run \in Nat \cup {Nil}, op # "dkg1" => run \in Nat,
           NEW left \in SUBSET Slots, left # {}, Ask(p, op, run, left),
           UNCHANGED <<vault, faults>>
    PROVE  (VaultInv /\ CeremonyAsked)'
<1>1. PICK arg : arg = DkgBody(run, left)
  OBVIOUS
<1>2. arg \in [run : Nat \cup {Nil}, left : SUBSET Slots] /\ arg.run = run
  BY <1>1 DEF DkgBody
<1>3. Post(p, op, {NextNode(left)}, arg)
  BY <1>1 DEF Ask
<1>4. CeremonyArg([op |-> op, slots |-> {NextNode(left)}, arg |-> arg, open |-> TRUE])
  BY <1>2 DEF CeremonyArg
<1>5. arg \in CeremonyArgs /\ op \in CeremonyOps
  BY <1>2 DEF CeremonyArgs, CeremonyOps
<1> QED BY <1>3, <1>4, <1>5, SomeNode, CeremonyPost

LEMMA StartDkgKeeps ==
    ASSUME CeremonyInv, NEW p \in Flights, StartDkg(p)
    PROVE  (VaultInv /\ CeremonyAsked /\ CeremonyFiles)'
<1>1. CeremonyFiles'
  BY DEF StartDkg, ceremony, CeremonyInv, CeremonyFiles
<1> QED BY <1>1, AskKeeps, SlotsThere DEF StartDkg

LEMMA DkgArg ==
    ASSUME CeremonyInv, NEW p \in Flights, flight[p].op \in {"dkg1", "dkg2", "dkg3"}
    PROVE  /\ flight[p].op # "dkg1" => flight[p].arg.run \in Nat
           /\ flight[p].arg.run \in Nat \cup {Nil}
           /\ Left(p) \in SUBSET Slots
BY DEF CeremonyInv, CeremonyAsked, CeremonyArg, Left

LEMMA DkgAnsweredKeeps ==
    ASSUME CeremonyInv, NEW p \in Flights, DkgAnswered(p)
    PROVE  (VaultInv /\ CeremonyAsked /\ CeremonyFiles)'
<1>1. flight[p].op \in {"dkg1", "dkg2", "dkg3"}
  BY DEF DkgAnswered, Returned
<1>2. UNCHANGED <<vault, faults, share, drawn, blind, derived, nonces, answers,
                  registered>>
  BY DEF DkgAnswered
<1>3. CASE NextInRound(p)
  <2>1. (VaultInv /\ CeremonyAsked)'
    BY <1>1, <1>2, <1>3, DkgArg, AskKeeps DEF NextInRound
  <2> QED BY <1>2, <1>3, <2>1 DEF NextInRound, CeremonyInv, CeremonyFiles
<1>4. CASE AllDealt(p)
  <2>1. runs' \in Nat
    BY <1>4 DEF AllDealt, CeremonyInv, CeremonyFiles
  <2>2. (VaultInv /\ CeremonyAsked)'
    BY <1>2, <1>4, <2>1, AskKeeps, SlotsThere DEF AllDealt
  <2> QED BY <1>2, <1>4, <2>1, <2>2 DEF AllDealt, CeremonyInv, CeremonyFiles
<1>5. CASE AllCombined(p)
  <2>1. (VaultInv /\ CeremonyAsked)'
    BY <1>1, <1>2, <1>5, DkgArg, AskKeeps, SlotsThere DEF AllCombined
  <2> QED BY <1>2, <1>5, <2>1 DEF AllCombined, CeremonyInv, CeremonyFiles
<1>6. CASE AllFinal(p)
  <2>1. (VaultInv /\ CeremonyAsked)'
    BY <1>2, <1>6, CeremonyClose DEF AllFinal
  <2>2. accepted' \in Nat
    BY <1>6, DkgArg DEF AllFinal
  <2> QED BY <1>2, <1>6, <2>1, <2>2 DEF AllFinal, CeremonyInv, CeremonyFiles
<1>7. CASE Fail(p) /\ UNCHANGED <<runs, accepted>>
  <2>1. (VaultInv /\ CeremonyAsked)'
    BY <1>2, <1>7, CeremonyClose DEF Fail
  <2> QED BY <1>2, <1>7, <2>1 DEF CeremonyInv, CeremonyFiles
<1> QED BY <1>3, <1>4, <1>5, <1>6, <1>7 DEF DkgAnswered

LEMMA DkgWorkerKeeps ==
    ASSUME CeremonyInv, NEW p \in Flights, NEW s \in Slots,
           Deal(p, s) \/ Combine(p, s) \/ FinalizeDkg(p, s)
    PROVE  (VaultInv /\ CeremonyAsked /\ CeremonyFiles)'
<1>1. \E op \in {"dkg1", "dkg2", "dkg3"} : At(p, s, op, "sent")
  BY DEF Deal, Combine, FinalizeDkg
<1>2. /\ flight[p].op \in {"dkg1", "dkg2", "dkg3"} /\ call[p][s].at # "none"
      /\ flight[p].op = "dkg2" => flight[p].arg.run \in Nat
  BY <1>1, Asked, DkgArg
<1>3. flight[p].op \in CeremonyOps /\ CeremonyCall(flight[p].op, "ok", Nil, Nil)
  BY <1>2 DEF CeremonyOps, CeremonyCall
<1>4. UNCHANGED <<vault, flight, faults>>
  BY DEF Deal, Combine, FinalizeDkg
<1>5. (VaultInv /\ CeremonyAsked)'
  <2>1. Reply(p, s, Nil) \/ Reject(p, s)
    BY DEF Deal, Combine, FinalizeDkg
  <2> QED BY <1>2, <1>3, <1>4, <2>1, AnswerTypes, CeremonyMove, CeremonyReject
          DEF Reply
<1>6. CeremonyFiles'
  <2>1. CASE Combine(p, s)
    BY <1>2, <2>1 DEF Combine, At, CeremonyInv, CeremonyFiles
  <2>2. CASE UNCHANGED ceremony
    BY <2>2 DEF ceremony, CeremonyInv, CeremonyFiles
  <2> QED BY <2>1, <2>2 DEF Deal, FinalizeDkg
<1> QED BY <1>5, <1>6

----------------------------------------------------------------------------
(* The derivation                                                          *)

\* There is always a scalar that nobody speaks of: each request in hand and
\* the transcript speak of one.
LEMMA FreshBlindIsOne ==
    ASSUME NEW p \in Flights, NEW s
    PROVE  FreshBlind(s) \in Nat
<1> DEFINE n == Cardinality(Flights)
           spoken(q) == IF flight[q].op = "ek0" THEN call[q][s].got
                                                ELSE flight[q].arg.blinds[s]
           T == {spoken(q) : q \in Flights}
           U == T \cup {derived.blinds[s]}
           f == [q \in Flights |-> spoken(q)]
<1>1. n \in Nat /\ n # 0
  BY CeremonyConstants, FS_CardinalityType, FS_EmptySet
<1>2. IsFiniteSet(T) /\ Cardinality(T) <= n
  <2>1. f \in Surjection(Flights, T)
    BY DEF Surjection
  <2> HIDE DEF f, T
  <2> QED BY <2>1, FS_Surjection, CeremonyConstants
<1>3. IsFiniteSet(U) /\ Cardinality(U) <= n + 1
  <2> HIDE DEF T
  <2>1. Cardinality(T) \in Nat
    BY <1>2, FS_CardinalityType
  <2>2. IsFiniteSet(U) /\ Cardinality(U) \in {Cardinality(T), Cardinality(T) + 1}
    BY <1>2, FS_AddElement
  <2> QED BY <1>1, <1>2, <2>1, <2>2
<1>4. BlindsInUse(s) \subseteq U
  BY DEF BlindsInUse
<1>5. \E b \in 1 .. (2 * n + 1) : b \notin BlindsInUse(s)
  <2> SUFFICES ASSUME 1 .. (2 * n + 1) \subseteq U PROVE FALSE
    BY <1>4
  <2> HIDE DEF n, U
  <2>1. Cardinality(1 .. (2 * n + 1)) = 2 * n + 1
    BY <1>1, FS_Interval
  <2>2. Cardinality(1 .. (2 * n + 1)) <= Cardinality(U)
    BY <1>3, FS_Subset
  <2>3. Cardinality(U) \in Nat
    BY <1>3, FS_CardinalityType
  <2> QED BY <1>1, <1>3, <2>1, <2>2, <2>3
<1>6. FreshBlind(s) \in 1 .. (2 * n + 1)
  BY <1>5 DEF FreshBlind
<1> QED BY <1>1, <1>6

LEMMA DeriveKeeps ==
    ASSUME CeremonyInv, NEW p \in Flights, NEW S \in Quorums, StartDerive(p, S)
    PROVE  (VaultInv /\ CeremonyAsked /\ CeremonyFiles)'
<1>1. accepted \in Nat /\ S \in SUBSET Slots
  BY DEF StartDerive, CeremonyInv, CeremonyFiles, Quorums
<1>2. accepted \in CeremonyArgs /\ "ek0" \in CeremonyOps
  BY <1>1 DEF CeremonyArgs, CeremonyOps
<1>3. CeremonyArg([op |-> "ek0", slots |-> S, arg |-> accepted, open |-> TRUE])
  BY <1>1 DEF CeremonyArg
<1>4. CeremonyFiles'
  BY DEF StartDerive, ceremony, CeremonyInv, CeremonyFiles
<1> QED BY <1>1, <1>2, <1>3, <1>4, CeremonyPost DEF StartDerive

LEMMA Round0Keeps ==
    ASSUME CeremonyInv, NEW p \in Flights, NEW s \in Slots, Round0(p, s)
    PROVE  (VaultInv /\ CeremonyAsked /\ CeremonyFiles)'
<1>1. /\ flight[p].op = "ek0" /\ call[p][s].at # "none"
      /\ flight[p].op \in CeremonyOps
  BY Asked DEF Round0, CeremonyOps
<1>2. UNCHANGED <<vault, flight, faults>>
  BY DEF Round0
<1>3. CASE Reject(p, s) /\ UNCHANGED blind
  <2>1. CeremonyFiles'
    BY <1>3 DEF Round0, CeremonyInv, CeremonyFiles
  <2> QED BY <1>1, <1>2, <1>3, <2>1, CeremonyReject
<1>4. CASE /\ blind' = [blind EXCEPT ![s] = IF @ = Nil THEN FreshBlind(s) ELSE @]
           /\ Reply(p, s, blind'[s])
  <2>1. blind' \in [Slots -> Nat \cup {Nil}] /\ blind'[s] \in Nat
    BY <1>4, FreshBlindIsOne DEF CeremonyInv, CeremonyFiles
  <2>2. PICK n \in Nat : n = blind'[s]
    BY <2>1
  <2>3. CeremonyCall(flight[p].op, "ok", Nil, n)
    BY <1>1 DEF CeremonyCall
  <2>4. Move(p, s, "ok", Nil, n)
    BY <1>4, <2>2 DEF Reply
  <2>5. (VaultInv /\ CeremonyAsked)'
    BY <1>1, <1>2, <2>3, <2>4, AnswerTypes, CeremonyMove
  <2> QED BY <2>1, <2>5 DEF Round0, CeremonyInv, CeremonyFiles
<1> QED BY <1>3, <1>4 DEF Round0

\* All calls of a request were answered: each of its slots has its answer.
LEMMA AnswersAreTyped ==
    ASSUME CeremonyInv, NEW p \in Flights, AllAccepted(p)
    PROVE  /\ flight[p].slots \subseteq Slots
           /\ \A s \in flight[p].slots :
                 /\ flight[p].op = "ek0" => call[p][s].got \in Nat
                 /\ flight[p].op = "reg1" => call[p][s].got \in NonceFile
<1>1. flight[p].slots \subseteq Slots
  BY DEF CeremonyInv, VaultInv, Typed, Shaped, Requests
<1> QED BY <1>1 DEF AllAccepted, Accepted, CeremonyInv, CeremonyAsked, CeremonyCall

LEMMA Round0AnsweredKeeps ==
    ASSUME CeremonyInv, NEW p \in Flights, Round0Answered(p)
    PROVE  (VaultInv /\ CeremonyAsked /\ CeremonyFiles)'
<1>0. CeremonyFiles'
  BY DEF Round0Answered, ceremony, CeremonyInv, CeremonyFiles
<1>1. flight[p].op = "ek0"
  BY DEF Round0Answered, Returned
<1>2. UNCHANGED <<vault, faults>>
  BY DEF Round0Answered
<1>3. CASE AllAccepted(p)
  <2> DEFINE S == flight[p].slots
             blinds == [s \in S |-> call[p][s].got]
             arg == [run |-> flight[p].arg, blinds |-> blinds]
  <2>1. S \in Quorums /\ S \in SUBSET Slots /\ flight[p].arg \in Nat
    BY <1>1, <1>3, AnswersAreTyped DEF CeremonyInv, CeremonyAsked, CeremonyArg
  <2>2. blinds \in [S -> Nat]
    BY <1>1, <1>3, AnswersAreTyped
  <2>3. arg \in Derivations /\ DOMAIN arg.blinds = S
    BY <2>1, <2>2 DEF Derivations
  <2>4. Post(p, "ek1", S, arg)
    BY <1>3 DEF Round0Answered, Broadcast
  <2> HIDE DEF S, arg
  <2>5. CeremonyArg([op |-> "ek1", slots |-> S, arg |-> arg, open |-> TRUE])
    BY <2>3 DEF CeremonyArg
  <2>6. arg \in CeremonyArgs /\ "ek1" \in CeremonyOps
    BY <2>3 DEF CeremonyArgs, CeremonyOps
  <2> QED BY <1>0, <1>2, <2>1, <2>4, <2>5, <2>6, CeremonyPost
<1>4. CASE ~AllAccepted(p)
  BY <1>0, <1>2, <1>4, CeremonyClose DEF Round0Answered, Fail
<1> QED BY <1>3, <1>4

LEMMA Round1Keeps ==
    ASSUME CeremonyInv, NEW p \in Flights, NEW s \in Slots,
           Round1Read(p, s) \/ Invert(p, s)
    PROVE  (VaultInv /\ CeremonyAsked /\ CeremonyFiles)'
<1>1. \E step \in {"sent", "read"} : At(p, s, "ek1", step)
  BY DEF Round1Read, Invert
<1>2. /\ flight[p].op = "ek1" /\ call[p][s].at # "none" /\ s \in flight[p].slots
      /\ flight[p].op \in CeremonyOps
      /\ flight[p].arg.blinds \in NoncesOf
      /\ DOMAIN flight[p].arg.blinds = flight[p].slots
  BY <1>1, Asked DEF CeremonyOps, CeremonyArg, Derivations, NoncesOf
<1>3. flight[p].arg.blinds[s] \in Nat
  BY <1>2, NoncesOfSlots
<1>4. UNCHANGED <<vault, flight, faults>>
  BY DEF Round1Read, Invert
<1>5. CeremonyFiles'
  BY DEF Round1Read, Invert, CeremonyInv, CeremonyFiles
<1>6. CASE Reject(p, s)
  BY <1>2, <1>4, <1>5, <1>6, CeremonyReject
<1>7. ASSUME NEW step \in {"read", "ok"}, NEW got \in Nat, Move(p, s, step, Nil, got)
      PROVE  (VaultInv /\ CeremonyAsked /\ CeremonyFiles)'
  <2>1. CeremonyCall(flight[p].op, step, Nil, got)
    BY <1>2 DEF CeremonyCall
  <2> QED BY <1>2, <1>4, <1>5, <1>7, <2>1, AnswerTypes, CeremonyMove
<1>8. CASE Round1Read(p, s)
  <2>1. Reject(p, s)
        \/ (blind[s] = flight[p].arg.blinds[s] /\ Move(p, s, "read", Nil, blind[s]))
    BY <1>8 DEF Round1Read
  <2> QED BY <1>3, <1>6, <1>7, <2>1
<1>9. CASE Invert(p, s)
  <2>1. call[p][s].got \in Nat
    BY <1>9, Asked DEF Invert, CeremonyCall
  <2>2. Reject(p, s) \/ Move(p, s, "ok", Nil, call[p][s].got)
    BY <1>9 DEF Invert, Reply
  <2> QED BY <1>6, <1>7, <2>1, <2>2
<1> QED BY <1>8, <1>9

LEMMA Round1AnsweredKeeps ==
    ASSUME CeremonyInv, NEW p \in Flights, Round1Answered(p)
    PROVE  (VaultInv /\ CeremonyAsked /\ CeremonyFiles)'
<1>1. flight[p].arg \in Derivations
  BY DEF Round1Answered, Returned, CeremonyInv, CeremonyAsked, CeremonyArg
<1>2. CeremonyFiles'
  BY <1>1 DEF Round1Answered, CeremonyInv, CeremonyFiles
<1> QED BY <1>2, CeremonyClose DEF Round1Answered

----------------------------------------------------------------------------
(* The registration                                                        *)

LEMMA RegisterKeeps ==
    ASSUME CeremonyInv, NEW p \in Flights, NEW q \in RequestIds, NEW S \in Quorums,
           StartRegister(p, q, S)
    PROVE  (VaultInv /\ CeremonyAsked /\ CeremonyFiles)'
<1>1. accepted \in Nat /\ S \in SUBSET Slots
  BY DEF StartRegister, CeremonyInv, CeremonyFiles, Quorums
<1>2. PICK arg : arg = RegisterBody(q)
  OBVIOUS
<1>3. arg \in [id : Named \cup Nat, run : Nat]
  BY <1>1, <1>2 DEF RegisterBody, RequestIds
<1>4. arg \in CeremonyArgs /\ "reg1" \in CeremonyOps
  BY <1>3 DEF CeremonyArgs, CeremonyOps
<1>5. CeremonyArg([op |-> "reg1", slots |-> S, arg |-> arg, open |-> TRUE])
  BY <1>3 DEF CeremonyArg
<1>6. CeremonyFiles'
  BY DEF StartRegister, ceremony, CeremonyInv, CeremonyFiles
<1> QED BY <1>1, <1>2, <1>4, <1>5, <1>6, CeremonyPost DEF StartRegister

LEMMA CommitKeeps ==
    ASSUME CeremonyInv, NEW p \in Flights, NEW s \in Slots, Commit(p, s)
    PROVE  (VaultInv /\ CeremonyAsked /\ CeremonyFiles)'
<1> DEFINE new == [id |-> flight[p].arg.id, run |-> flight[p].arg.run,
                   nonce |-> drawn[s] + 1]
<1>1. /\ flight[p].op = "reg1" /\ call[p][s].at # "none"
      /\ flight[p].op \in CeremonyOps
      /\ flight[p].arg \in [id : Named \cup Nat, run : Nat]
  BY Asked DEF Commit, CeremonyOps, CeremonyArg
<1>2. UNCHANGED <<vault, flight, faults>>
  BY DEF Commit
<1>3. new \in NonceFile
  BY <1>1 DEF NonceFile, CeremonyInv, CeremonyFiles
<1>4. ASSUME NEW f \in NonceFile, Reply(p, s, f)
      PROVE  (VaultInv /\ CeremonyAsked)'
  <2>1. CeremonyCall(flight[p].op, "ok", Nil, f)
    BY <1>1 DEF CeremonyCall
  <2> QED BY <1>1, <1>2, <1>4, <2>1, AnswerTypes, CeremonyMove DEF Reply
<1>5. \A f \in NonceFiles(s, flight[p].arg.id) : f \in NonceFile
  BY DEF NonceFiles, CeremonyInv, CeremonyFiles
<1> HIDE DEF new
<1>6. CASE UNCHANGED <<drawn, nonces>>
  <2>1. Reject(p, s) \/ (\E f \in NonceFiles(s, flight[p].arg.id) : Reply(p, s, f))
        \/ Reply(p, s, new)
    BY DEF Commit, new
  <2>2. (VaultInv /\ CeremonyAsked)'
    BY <1>1, <1>2, <1>3, <1>4, <1>5, <2>1, CeremonyReject
  <2> QED BY <1>6, <2>2 DEF Commit, CeremonyInv, CeremonyFiles
<1>7. CASE /\ drawn' = [drawn EXCEPT ![s] = @ + 1]
           /\ nonces' = [nonces EXCEPT ![s] = @ \cup {new}]
           /\ Reply(p, s, new)
  <2>1. (VaultInv /\ CeremonyAsked)'
    BY <1>3, <1>4, <1>7
  <2>2. drawn' \in [Slots -> Nat] /\ nonces' \in [Slots -> SUBSET NonceFile]
    BY <1>3, <1>7 DEF CeremonyInv, CeremonyFiles
  <2> QED BY <2>1, <2>2 DEF Commit, CeremonyInv, CeremonyFiles
<1> QED BY <1>6, <1>7 DEF Commit, new

LEMMA CommitAnsweredKeeps ==
    ASSUME CeremonyInv, NEW p \in Flights, CommitAnswered(p)
    PROVE  (VaultInv /\ CeremonyAsked /\ CeremonyFiles)'
<1>0. CeremonyFiles'
  BY DEF CommitAnswered, ceremony, CeremonyInv, CeremonyFiles
<1>1. flight[p].op = "reg1"
  BY DEF CommitAnswered, Returned
<1>2. UNCHANGED <<vault, faults>>
  BY DEF CommitAnswered
<1>3. CASE AllAccepted(p) /\ CommitmentsTied(p)
  <2> DEFINE S == flight[p].slots
             arg == RespondBody(p)
  <2>1. /\ S \in Quorums /\ S \in SUBSET Slots
        /\ flight[p].arg \in [id : Named \cup Nat, run : Nat]
    BY <1>1, <1>3, AnswersAreTyped DEF CeremonyInv, CeremonyAsked, CeremonyArg
  <2>2. Challenge(p) \in [S -> Nat]
    BY <1>1, <1>3, AnswersAreTyped DEF Challenge, NonceFile
  <2>3. PICK c \in NoncesOf : c = Challenge(p) /\ DOMAIN c = S
    BY <2>1, <2>2 DEF NoncesOf
  <2>4. /\ arg \in [id : Named \cup Nat, run : Nat, challenge : NoncesOf]
        /\ DOMAIN arg.challenge = S
    BY <2>1, <2>3 DEF RespondBody
  <2>5. Post(p, "reg2", S, arg)
    BY <1>3 DEF CommitAnswered
  <2> HIDE DEF S, arg
  <2>6. CeremonyArg([op |-> "reg2", slots |-> S, arg |-> arg, open |-> TRUE])
    BY <2>4 DEF CeremonyArg
  <2>7. arg \in CeremonyArgs /\ "reg2" \in CeremonyOps
    BY <2>4 DEF CeremonyArgs, CeremonyOps
  <2> QED BY <1>0, <1>2, <2>1, <2>5, <2>6, <2>7, CeremonyPost
<1>4. CASE ~(AllAccepted(p) /\ CommitmentsTied(p))
  BY <1>0, <1>2, <1>4, CeremonyClose DEF CommitAnswered, Fail
<1> QED BY <1>3, <1>4

LEMMA RespondKeeps ==
    ASSUME CeremonyInv, NEW p \in Flights, NEW s \in Slots,
           RespondRead(p, s) \/ Respond(p, s)
    PROVE  (VaultInv /\ CeremonyAsked /\ CeremonyFiles)'
<1>1. \E step \in {"sent", "read"} : At(p, s, "reg2", step)
  BY DEF RespondRead, Respond
<1>2. /\ flight[p].op = "reg2" /\ call[p][s].at # "none" /\ s \in flight[p].slots
      /\ flight[p].op \in CeremonyOps
      /\ flight[p].arg \in [id : Named \cup Nat, run : Nat, challenge : NoncesOf]
      /\ DOMAIN flight[p].arg.challenge = flight[p].slots
  BY <1>1, Asked DEF CeremonyOps, CeremonyArg
<1>3. flight[p].arg.challenge[s] \in Nat
  BY <1>2, NoncesOfSlots
<1>4. UNCHANGED <<vault, flight, faults>>
  BY DEF RespondRead, Respond
<1>5. CASE RespondRead(p, s)
  <2>1. CeremonyFiles'
    BY <1>5 DEF RespondRead, ceremony, CeremonyInv, CeremonyFiles
  <2>2. CASE Reject(p, s)
    BY <1>2, <1>4, <2>1, <2>2, CeremonyReject
  <2>3. CASE ShareFits(s, flight[p].arg.run) /\ Move(p, s, "read", share[s], Nil)
    <3>1. share[s] \in Nat
      BY <1>2, <2>3 DEF ShareFits
    <3>2. CeremonyCall(flight[p].op, "read", share[s], Nil)
      BY <1>2, <3>1 DEF CeremonyCall
    <3> QED BY <1>2, <1>4, <2>1, <2>3, <3>1, <3>2, AnswerTypes, CeremonyMove
  <2> QED BY <1>5, <2>2, <2>3 DEF RespondRead
<1>6. CASE Respond(p, s)
  <2>1. call[p][s].base \in Nat
    BY <1>6, Asked DEF Respond, CeremonyCall
  <2>2. PICK a : a = Response(p, s)
    OBVIOUS
  <2>3. a \in ResponseOf
    BY <1>2, <1>3, <2>1, <2>2 DEF Response, ResponseOf
  <2>4. nonces' \in [Slots -> SUBSET NonceFile]
    BY <1>6 DEF Respond, Consume, CeremonyInv, CeremonyFiles
  <2>5. answers' \in [Slots -> SUBSET ResponseOf]
    <3>1. answers' = [answers EXCEPT ![s] = @ \cup {a}] \/ answers' = answers
      BY <1>6, <2>2 DEF Respond, Consume
    <3> QED BY <2>3, <3>1 DEF CeremonyInv, CeremonyFiles
  <2>6. CeremonyFiles'
    BY <1>6, <2>4, <2>5 DEF Respond, CeremonyInv, CeremonyFiles
  <2>7. Reply(p, s, a) \/ Reject(p, s)
    BY <1>6, <2>2 DEF Respond, Consume
  <2>8. CeremonyCall(flight[p].op, "ok", Nil, a)
    BY <1>2 DEF CeremonyCall
  <2> QED BY <1>2, <1>4, <2>3, <2>6, <2>7, <2>8, AnswerTypes, CeremonyMove,
             CeremonyReject
          DEF Reply
<1> QED BY <1>5, <1>6

LEMMA RespondAnsweredKeeps ==
    ASSUME CeremonyInv, NEW p \in Flights, RespondAnswered(p)
    PROVE  (VaultInv /\ CeremonyAsked /\ CeremonyFiles)'
<1>1. flight[p].arg \in [id : Named \cup Nat, run : Nat, challenge : NoncesOf]
  BY DEF RespondAnswered, Returned, CeremonyInv, CeremonyAsked, CeremonyArg
<1>2. Registration(flight[p].arg) \in Registrations
  BY <1>1 DEF Registration, Registrations, NoncesOf
<1>3. registered' \subseteq Registrations
  BY <1>2 DEF RespondAnswered, Persisted, CeremonyInv, CeremonyFiles
<1>4. CeremonyFiles'
  BY <1>3 DEF RespondAnswered, CeremonyInv, CeremonyFiles
<1> QED BY <1>4, CeremonyClose DEF RespondAnswered

----------------------------------------------------------------------------
(* The init, the observer, and the whole                                   *)

LEMMA VaultOpArg ==
    ASSUME NEW op \in VaultOps, NEW S, NEW arg, NEW open
    PROVE  CeremonyArg([op |-> op, slots |-> S, arg |-> arg, open |-> open])
BY DEF VaultOps, CeremonyArg

LEMMA VaultOpCall ==
    ASSUME NEW op \in VaultOps, NEW at, NEW base, NEW got
    PROVE  CeremonyCall(op, at, base, got)
BY DEF VaultOps, CeremonyCall

LEMMA CeremonyInitKeeps ==
    ASSUME CeremonyInv, NEW p \in Flights, NEW id \in Ids, NEW r \in registered,
           NEW S \in Quorums, StartCeremonyInit(p, id, r, S)
    PROVE  (VaultInv /\ CeremonyAsked /\ CeremonyFiles)'
<1>1. derived \in Derivations /\ r \in Registrations
  BY DEF StartCeremonyInit, DerivationFound, CeremonyInv, CeremonyFiles
<1>2. PICK b : b = InitBody(id, r)
  OBVIOUS
<1>3. b \in Inits
  BY <1>1, <1>2 DEF InitBody, InitBodies, CeremonyInv, InitsNameTranscripts
<1>4. StartInit(p, b, S)
  BY <1>2 DEF StartCeremonyInit
<1>5. VaultInv'
  BY <1>3, <1>4, StartKeeps DEF Start, CeremonyInv
<1>6. "init" \in VaultOps
  BY DEF VaultOps
<1>7. CeremonyAsked'
  BY <1>4, <1>6, VaultOpArg, PostAsked DEF StartInit, CeremonyInv
<1> QED BY <1>5, <1>7 DEF StartCeremonyInit, ceremony, CeremonyInv, CeremonyFiles

LEMMA CeremonyObserveKeeps ==
    ASSUME CeremonyInv, UNCHANGED ceremony, NEW p \in Flights,
           NEW n \in 1..MaxDeposits, NEW t \in transcripts, StartObserve(p, n, t)
    PROVE  (VaultInv /\ CeremonyAsked /\ CeremonyFiles)'
<1>1. VaultInv'
  BY StartKeeps DEF Start, CeremonyInv
<1>2. "observe" \in VaultOps
  BY DEF VaultOps
<1>3. CeremonyAsked'
  BY <1>2, VaultOpArg, PostAsked DEF StartObserve, CeremonyInv
<1> QED BY <1>1, <1>3 DEF ceremony, CeremonyInv, CeremonyFiles

\* What a worker does to a request of the vault: one call moves.
VaultWorker(p, s) ==
    \/ InitRead(p, s) \/ InitWrite(p, s) \/ FinalizeRead(p, s) \/ FinalizeWrite(p, s)
    \/ ObserveRead(p, s) \/ ObserveWrite(p, s)

LEMMA VaultWorkerMoves ==
    ASSUME NEW p, NEW s, VaultWorker(p, s)
    PROVE  /\ flight[p].op \in {"init", "finalize", "observe"}
           /\ call[p][s].at \in {"sent", "read"}
           /\ UNCHANGED <<flight, transcripts>>
           /\ \E step \in {"read", "ok", "err"} : \E base, got :
                 Move(p, s, step, base, got)
<1>1. \/ Refuse(p, s) \/ Keep(p, s) \/ (\E got : Reply(p, s, got))
  BY DEF VaultWorker, InitRead, InitWrite, Create, FinalizeRead, FinalizeWrite,
     ObserveRead, ObserveWrite
<1>2. \E step \in {"read", "ok", "err"} : \E base, got : Move(p, s, step, base, got)
  BY <1>1 DEF Refuse, Reject, Keep, Reply
<1>3. /\ flight[p].op \in {"init", "finalize", "observe"}
      /\ call[p][s].at \in {"sent", "read"}
  BY DEF VaultWorker, InitRead, InitWrite, FinalizeRead, FinalizeWrite,
     ObserveRead, ObserveWrite, At
<1>4. UNCHANGED <<flight, transcripts>>
  BY DEF VaultWorker, InitRead, InitWrite, FinalizeRead, FinalizeWrite,
     ObserveRead, ObserveWrite, ledger
<1> QED BY <1>2, <1>3, <1>4

LEMMA CeremonyVaultWorkerKeeps ==
    ASSUME CeremonyInv, UNCHANGED ceremony, NEW p \in Flights, NEW s \in Slots,
           VaultWorker(p, s)
    PROVE  (VaultInv /\ CeremonyAsked /\ CeremonyFiles)'
<1>1. VaultInv'
  BY InitReadKeeps, InitWriteKeeps, FinalizeKeeps, ObserveKeeps
     DEF VaultWorker, CeremonyInv
<1>2. /\ flight[p].op \in VaultOps /\ UNCHANGED flight
      /\ \E step, base, got : Move(p, s, step, base, got)
  BY VaultWorkerMoves DEF VaultOps
<1>3. CeremonyAsked'
  BY <1>2, VaultOpCall, MoveAsked DEF CeremonyInv
<1> QED BY <1>1, <1>3 DEF ceremony, CeremonyInv, CeremonyFiles

LEMMA CeremonyInitReadKeeps ==
    ASSUME CeremonyInv, NEW p \in Flights, NEW s \in Slots, CeremonyInitRead(p, s)
    PROVE  (VaultInv /\ CeremonyAsked /\ CeremonyFiles)'
<1>1. UNCHANGED ceremony
  BY DEF CeremonyInitRead
<1>2. CASE InitRead(p, s)
  BY <1>1, <1>2, CeremonyVaultWorkerKeeps DEF VaultWorker
<1>3. CASE /\ At(p, s, "init", "sent")
           /\ Refuse(p, s) /\ UNCHANGED <<chain, flight, ledger, faults>>
  <2>1. call[p][s].at # "none" /\ flight[p].op \in VaultOps
    BY <1>3, Asked DEF VaultOps
  <2>2. VaultInv'
    BY <1>3, <2>1, RefuseKeeps DEF CeremonyInv
  <2>3. CeremonyAsked'
    BY <1>3, <2>1, VaultOpCall, MoveAsked DEF Refuse, Reject, CeremonyInv
  <2> QED BY <1>1, <2>2, <2>3 DEF ceremony, CeremonyInv, CeremonyFiles
<1> QED BY <1>2, <1>3 DEF CeremonyInitRead

LEMMA CeremonyVaultAnsweredKeeps ==
    ASSUME CeremonyInv, UNCHANGED ceremony, NEW p \in Flights,
           InitAnswered(p) \/ FinalizeAnswered(p) \/ ObserveAnswered(p)
    PROVE  (VaultInv /\ CeremonyAsked /\ CeremonyFiles)'
<1>1. VaultInv'
  BY AnsweredKeeps DEF CoordinatorStep, CeremonyInv
<1>2. CASE Close(p)
  <2>1. Calm
    BY <1>2, CloseShape DEF CeremonyInv, VaultInv, Typed
  <2> QED BY <1>1, <2>1, CalmAsked DEF ceremony, CeremonyInv, CeremonyFiles
<1>3. ASSUME NEW S, NEW arg, Post(p, "finalize", S, arg) PROVE CeremonyAsked'
  <2>1. "finalize" \in VaultOps
    BY DEF VaultOps
  <2> QED BY <1>3, <2>1, VaultOpArg, PostAsked DEF CeremonyInv
<1> QED BY <1>1, <1>2, <1>3
        DEF InitAnswered, FinalizeAnswered, ObserveAnswered, Fail, ceremony,
            CeremonyInv, CeremonyFiles

LEMMA CeremonyFailureKeeps ==
    ASSUME CeremonyInv, CeremonyFailure
    PROVE  (VaultInv /\ CeremonyAsked /\ CeremonyFiles)' /\ Calm
<1>0. UNCHANGED ceremony /\ UNCHANGED <<chain, file, ledger>>
  BY DEF CeremonyFailure, vault, Failure
<1>1. Grown /\ file' = file /\ transcripts' = transcripts /\ observed' = observed
  BY <1>0, Nobody DEF CeremonyInv, ledger
<1>2. Shaped(Ops, AnyArg, Bases, Gots)' /\ Calm
  BY DisconnectShape, WorkerCrashShape, RestartShape
     DEF CeremonyFailure, Failure, CoordinatorCrash, CeremonyInv, VaultInv, Typed
<1>3. faults' \in Nat
  <2>1. Fault
    BY DEF CeremonyFailure, Failure, Disconnect, WorkerCrash, CoordinatorCrash, Restart
  <2> QED BY <2>1 DEF Fault, CeremonyInv, VaultInv, Typed
<1>4. observed' \subseteq Nat
  BY <1>1 DEF CeremonyInv, VaultInv, Typed
<1>5. VaultInv'
  BY <1>1, <1>2, <1>3, <1>4, LedgerStays, CalmKeeps DEF CeremonyInv
<1> QED BY <1>0, <1>2, <1>5, CalmAsked DEF ceremony, CeremonyInv, CeremonyFiles

LEMMA CeremonyQuietKeeps ==
    ASSUME CeremonyInv, UNCHANGED ceremony, ChainDeposit \/ UNCHANGED vars
    PROVE  (VaultInv /\ CeremonyAsked /\ CeremonyFiles)' /\ Calm
<1>1. VaultInv'
  BY ChainKeeps, StutterKeeps DEF CeremonyInv
<1>2. Calm
  BY DEF ChainDeposit, vars, Calm, CalmAt, SameRequest, SameCall
<1> QED BY <1>1, <1>2, CalmAsked DEF ceremony, CeremonyInv, CeremonyFiles

LEMMA CeremonyInductive ==
    ASSUME CeremonyInv, [CeremonyNext]_allVars
    PROVE  CeremonyInv'
<1>1. ASSUME NEW p \in Flights, CeremonyCoordinator(p) PROVE CeremonyInv'
  BY <1>1, DkgAnsweredKeeps, Round0AnsweredKeeps, Round1AnsweredKeeps,
     CommitAnsweredKeeps, RespondAnsweredKeeps, CeremonyVaultAnsweredKeeps
     DEF CeremonyCoordinator, CeremonyInv, InitsNameTranscripts
<1>2. ASSUME NEW p \in Flights, NEW s \in Slots, CeremonyWorker(p, s)
      PROVE  CeremonyInv'
  BY <1>2, DkgWorkerKeeps, Round0Keeps, Round1Keeps, CommitKeeps, RespondKeeps,
     CeremonyInitReadKeeps, CeremonyVaultWorkerKeeps
     DEF CeremonyWorker, VaultWorker, CeremonyInv, InitsNameTranscripts
<1>3. CASE CeremonyFailure \/ (ChainDeposit /\ UNCHANGED ceremony) \/ UNCHANGED allVars
  BY <1>3, CeremonyFailureKeeps, CeremonyQuietKeeps
     DEF allVars, CeremonyInv, InitsNameTranscripts
<1>4. CASE \/ StartKey \/ StartDerivation
           \/ \E q \in RequestIds : StartRegistration(q)
           \/ StartVault
           \/ /\ \E p \in Flights, n \in 1..MaxDeposits, t \in transcripts :
                    StartObserve(p, n, t)
              /\ UNCHANGED ceremony
  BY <1>4, StartDkgKeeps, DeriveKeeps, RegisterKeeps, CeremonyInitKeeps,
     CeremonyObserveKeeps
     DEF StartKey, StartDerivation, StartRegistration, StartVault, CeremonyInv,
         InitsNameTranscripts
<1> QED BY <1>1, <1>2, <1>3, <1>4 DEF CeremonyNext

LEMMA CeremonyBegins ==
    ASSUME InitsNameTranscripts, CeremonyInit
    PROVE  CeremonyInv
<1>1. VaultInv
  BY InitHolds DEF CeremonyInit
<1>2. CeremonyAsked
  BY DEF CeremonyInit, Init, FanOutInit, Free, Unsent, CeremonyAsked, CeremonyArg,
     CeremonyCall
<1>3. CeremonyFiles
  BY DEF CeremonyInit, CeremonyFiles
<1> QED BY <1>1, <1>2, <1>3 DEF CeremonyInv

----------------------------------------------------------------------------
(* A nonce answers one challenge                                           *)

\* Every nonce of a worker is one it drew; no two files hold the same one, no
\* answer used one that a file still holds, and no two answers used the same.
NonceAt(s) ==
    /\ \A f \in nonces[s] : f.nonce <= drawn[s]
    /\ \A f, g \in nonces[s] : f.nonce = g.nonce => f = g
    /\ \A a \in answers[s] : a.nonce <= drawn[s]
    /\ \A a \in answers[s], f \in nonces[s] : a.nonce # f.nonce
    /\ \A a, b \in answers[s] : a.nonce = b.nonce => a = b

NonceInv == \A s \in Slots : NonceAt(s)

LEMMA NonceTypes ==
    ASSUME CeremonyInv, NEW s \in Slots
    PROVE  /\ drawn[s] \in Nat
           /\ \A f \in nonces[s] : f.nonce \in Nat
           /\ \A a \in answers[s] : a.nonce \in Nat
<1>1. drawn[s] \in Nat /\ nonces[s] \subseteq NonceFile /\ answers[s] \subseteq ResponseOf
  BY DEF CeremonyInv, CeremonyFiles
<1> QED BY <1>1 DEF NonceFile, ResponseOf

\* A fresh nonce is above all that the worker drew, ...
LEMMA CommitDraws ==
    ASSUME CeremonyInv, NonceInv, NEW p \in Flights, NEW s \in Slots, Commit(p, s)
    PROVE  NonceInv'
<1>1. UNCHANGED answers
  BY DEF Commit
<1>2. CASE UNCHANGED <<drawn, nonces>>
  BY <1>1, <1>2 DEF NonceInv, NonceAt
<1>3. CASE ~UNCHANGED <<drawn, nonces>>
  <2>1. PICK new : new = [id |-> flight[p].arg.id, run |-> flight[p].arg.run,
                          nonce |-> drawn[s] + 1]
    OBVIOUS
  <2>2. /\ drawn' = [drawn EXCEPT ![s] = @ + 1]
        /\ nonces' = [nonces EXCEPT ![s] = @ \cup {new}]
    BY <1>3, <2>1 DEF Commit
  <2>3. DOMAIN drawn = Slots /\ DOMAIN nonces = Slots
    BY DEF CeremonyInv, CeremonyFiles
  <2>4. \A t \in Slots \ {s} : drawn'[t] = drawn[t] /\ nonces'[t] = nonces[t]
    BY <2>2, <2>3
  <2>5. drawn'[s] = drawn[s] + 1 /\ nonces'[s] = nonces[s] \cup {new}
    BY <2>2, <2>3
  <2>6. new.nonce = drawn[s] + 1
    BY <2>1
  <2>7. NonceAt(s)'
    BY <1>1, <2>5, <2>6, NonceTypes DEF NonceInv, NonceAt
  <2>8. ASSUME NEW t \in Slots \ {s} PROVE NonceAt(t)'
    BY <1>1, <2>4 DEF NonceInv, NonceAt
  <2> QED BY <2>7, <2>8 DEF NonceInv
<1> QED BY <1>2, <1>3

\* ... and an answer drops the file its nonce is of.
LEMMA RespondDrops ==
    ASSUME CeremonyInv, NonceInv, NEW p \in Flights, NEW s \in Slots, Respond(p, s)
    PROVE  NonceInv'
<1>0. DOMAIN nonces = Slots /\ DOMAIN answers = Slots /\ UNCHANGED drawn
  BY DEF Respond, CeremonyInv, CeremonyFiles
<1>1. PICK held : held = NonceFiles(s, flight[p].arg.id)
  OBVIOUS
<1>2. PICK a : a = Response(p, s)
  OBVIOUS
<1>3. nonces' = [nonces EXCEPT ![s] = @ \ held]
  BY <1>1 DEF Respond, Consume
<1>4. nonces'[s] = nonces[s] \ held /\ \A t \in Slots \ {s} : nonces'[t] = nonces[t]
  BY <1>0, <1>3
<1>5. CASE UNCHANGED answers
  <2>1. NonceAt(s)'
    BY <1>0, <1>4, <1>5 DEF NonceInv, NonceAt
  <2>2. ASSUME NEW t \in Slots \ {s} PROVE NonceAt(t)'
    BY <1>0, <1>4, <1>5 DEF NonceInv, NonceAt
  <2> QED BY <2>1, <2>2 DEF NonceInv
<1>6. CASE ~UNCHANGED answers
  <2>1. PICK f \in held : FileFits(p, s, f)
    BY <1>1, <1>6 DEF Respond, Consume
  <2>2. answers' = [answers EXCEPT ![s] = @ \cup {a}]
    BY <1>2, <1>6 DEF Respond, Consume
  <2>3. answers'[s] = answers[s] \cup {a} /\ \A t \in Slots \ {s} : answers'[t] = answers[t]
    BY <1>0, <2>2
  <2>4. a.nonce = f.nonce /\ f \in nonces[s] /\ f \notin nonces'[s]
    BY <1>1, <1>2, <1>4, <2>1 DEF Response, FileFits, NonceFiles
  <2>5. NonceAt(s)'
    BY <1>0, <1>4, <2>3, <2>4 DEF NonceInv, NonceAt
  <2>6. ASSUME NEW t \in Slots \ {s} PROVE NonceAt(t)'
    BY <1>0, <1>4, <2>3 DEF NonceInv, NonceAt
  <2> QED BY <2>5, <2>6 DEF NonceInv
<1> QED BY <1>5, <1>6

LEMMA NonceInductive ==
    ASSUME CeremonyInv, NonceInv, [CeremonyNext]_allVars
    PROVE  NonceInv'
<1>1. ASSUME UNCHANGED <<drawn, nonces, answers>> PROVE NonceInv'
  BY <1>1 DEF NonceInv, NonceAt
<1>2. CASE \E p \in Flights, s \in Slots : Commit(p, s) \/ Respond(p, s)
  BY <1>2, CommitDraws, RespondDrops
<1>3. CASE ~\E p \in Flights, s \in Slots : Commit(p, s) \/ Respond(p, s)
  <2>1. ASSUME NEW p \in Flights, CeremonyCoordinator(p)
        PROVE  UNCHANGED <<drawn, nonces, answers>>
    BY <2>1 DEF CeremonyCoordinator, DkgAnswered, Round0Answered, Round1Answered,
       CommitAnswered, RespondAnswered, ceremony
  <2>2. ASSUME NEW p \in Flights, NEW s \in Slots, CeremonyWorker(p, s)
        PROVE  UNCHANGED <<drawn, nonces, answers>>
    BY <1>3, <2>2 DEF CeremonyWorker, Deal, Combine, FinalizeDkg, Round0, Round1Read,
       Invert, RespondRead, CeremonyInitRead, ceremony
  <2>3. UNCHANGED <<drawn, nonces, answers>>
    BY <2>1, <2>2 DEF CeremonyNext, StartKey, StartDerivation, StartRegistration,
       StartVault, StartDkg, StartDerive, StartRegister, StartCeremonyInit,
       CeremonyFailure, allVars, ceremony
  <2> QED BY <1>1, <2>3
<1> QED BY <1>2, <1>3

\* However the rounds of one request id overlap, and whatever is lost or
\* crashes between them, a worker never answers two challenges with one nonce
\* (create_registration_partial_response_v2's rename of the nonce file).
THEOREM NoncesAnswerOnce ==
    InitsNameTranscripts /\ CeremonySpec => []NonceAnswersOnce
<1>1. InitsNameTranscripts /\ CeremonyInit => CeremonyInv /\ NonceInv
  <2>1. CeremonyInit => NonceInv
    BY DEF CeremonyInit, NonceInv, NonceAt
  <2> QED BY <2>1, CeremonyBegins
<1>2. CeremonyInv /\ NonceInv /\ [CeremonyNext]_allVars => (CeremonyInv /\ NonceInv)'
  BY CeremonyInductive, NonceInductive
<1>3. NonceInv => NonceAnswersOnce
  BY DEF NonceInv, NonceAt, NonceAnswersOnce
<1> QED BY <1>1, <1>2, <1>3, PTL DEF CeremonySpec

----------------------------------------------------------------------------
(* The key that is frozen is one throughout                                *)

\* What is registered was answered, what is answered to the coordinator is kept,
\* and a request for init names the transcripts of one key.
ReplyKept(p, s) ==
    flight[p].op = "reg2" /\ call[p][s].at = "ok" => call[p][s].got \in answers[s]

NamesOneKey(q) == q \in InitBodies /\ KeyIsWhole(q)

AskedWhole(p) == flight[p].op = "init" => NamesOneKey(flight[p].arg)

FrozenWhole(s) == file[s] # Nil => NamesOneKey(file[s].hash.request)

WholeInv ==
    /\ \A r \in registered : Responded(r)
    /\ \A p \in Flights, s \in Slots : ReplyKept(p, s)
    /\ \A p \in Flights : AskedWhole(p)
    /\ \A s \in Slots : FrozenWhole(s)

\* No answer is forgotten, ...
LEMMA AnswersGrow ==
    ASSUME CeremonyInv, [CeremonyNext]_allVars, NEW s \in Slots
    PROVE  answers[s] \subseteq answers'[s]
<1>1. CASE \E p \in Flights, t \in Slots : Respond(p, t)
  BY <1>1 DEF Respond, Consume, CeremonyInv, CeremonyFiles
<1>2. CASE ~\E p \in Flights, t \in Slots : Respond(p, t)
  <2>1. ASSUME NEW p \in Flights, CeremonyCoordinator(p) PROVE UNCHANGED answers
    BY <2>1 DEF CeremonyCoordinator, DkgAnswered, Round0Answered, Round1Answered,
       CommitAnswered, RespondAnswered, ceremony
  <2>2. ASSUME NEW p \in Flights, NEW t \in Slots, CeremonyWorker(p, t)
        PROVE  UNCHANGED answers
    BY <1>2, <2>2 DEF CeremonyWorker, Deal, Combine, FinalizeDkg, Round0, Round1Read,
       Invert, Commit, RespondRead, CeremonyInitRead, ceremony
  <2>3. UNCHANGED answers
    BY <2>1, <2>2 DEF CeremonyNext, StartKey, StartDerivation, StartRegistration,
       StartVault, StartDkg, StartDerive, StartRegister, StartCeremonyInit,
       CeremonyFailure, allVars, ceremony
  <2> QED BY <2>3
<1> QED BY <1>1, <1>2

\* ... so what was answered stays answered.
LEMMA RespondedStays ==
    ASSUME CeremonyInv, [CeremonyNext]_allVars, NEW r \in Registrations, Responded(r)
    PROVE  Responded(r)'
<1>1. r.nonces \in NoncesOf
  BY DEF Registrations, NoncesOf
<1>2. DOMAIN r.nonces \subseteq Slots
  BY <1>1, NoncesOfSlots
<1> QED BY <1>2, AnswersGrow DEF Responded

LEMMA KeyStaysWhole ==
    ASSUME CeremonyInv, [CeremonyNext]_allVars, NEW q, NamesOneKey(q)
    PROVE  NamesOneKey(q)'
<1>1. q \in InitBodies /\ q.registration \in Registrations
  BY DEF NamesOneKey, InitBodies
<1> QED BY <1>1, RespondedStays DEF NamesOneKey, KeyIsWhole, InitBodies, Derivations,
           Registrations

\* A step of the ceremony asks nothing new, posts one request, or moves one call.
Posts ==
    \E p \in Flights : \E op, S, arg :
        /\ Post(p, op, S, arg)
        /\ op = "init" => NamesOneKey(arg)

Moves ==
    \E p \in Flights, s \in Slots : \E step, base, got :
        /\ UNCHANGED flight
        /\ Move(p, s, step, base, got)
        /\ flight[p].op = "reg2" /\ step = "ok" => got \in answers'[s]

LEMMA ClosesCalmly ==
    ASSUME CeremonyInv, NEW p \in Flights, Close(p)
    PROVE  Calm
BY CloseShape DEF CeremonyInv, VaultInv, Typed

LEMMA StartsPost ==
    ASSUME CeremonyInv, WholeInv,
           \/ StartKey \/ StartDerivation
           \/ \E q \in RequestIds : StartRegistration(q)
           \/ StartVault
           \/ \E p \in Flights, n \in 1..MaxDeposits, t \in transcripts :
                StartObserve(p, n, t)
    PROVE  Posts
<1>1. CASE StartVault
  <2>1. PICK p \in Flights, id \in Ids, r \in registered, S \in Quorums :
           StartCeremonyInit(p, id, r, S)
    BY <1>1 DEF StartVault
  <2>2. PICK b : b = InitBody(id, r)
    OBVIOUS
  <2>3. derived \in Derivations /\ r \in Registrations /\ derived.run = r.run
    BY <2>1 DEF StartCeremonyInit, DerivationFound, CeremonyInv, CeremonyFiles
  <2>4. NamesOneKey(b)
    BY <2>2, <2>3 DEF NamesOneKey, KeyIsWhole, InitBody, InitBodies, WholeInv
  <2> QED BY <2>1, <2>2, <2>4 DEF StartCeremonyInit, StartInit, Posts
<1>2. CASE StartKey
  <2>1. PICK p \in Flights : StartDkg(p)
    BY <1>2 DEF StartKey
  <2>2. \E S, arg : Post(p, "dkg1", S, arg)
    BY <2>1 DEF StartDkg, Ask
  <2> QED BY <2>2 DEF Posts
<1>3. CASE StartDerivation
  <2>1. PICK p \in Flights, S \in Quorums : StartDerive(p, S)
    BY <1>3 DEF StartDerivation
  <2> QED BY <2>1 DEF StartDerive, Posts
<1>4. CASE \E q \in RequestIds : StartRegistration(q)
  <2>1. PICK p \in Flights : \E q \in RequestIds, S \in Quorums : StartRegister(p, q, S)
    BY <1>4 DEF StartRegistration
  <2>2. \E S, arg : Post(p, "reg1", S, arg)
    BY <2>1 DEF StartRegister
  <2> QED BY <2>2 DEF Posts
<1>5. CASE \E p \in Flights, n \in 1..MaxDeposits, t \in transcripts : StartObserve(p, n, t)
  <2>1. PICK p \in Flights : \E S, arg : Post(p, "observe", S, arg)
    BY <1>5 DEF StartObserve
  <2> QED BY <2>1 DEF Posts
<1> QED BY <1>1, <1>2, <1>3, <1>4, <1>5

LEMMA CoordinatorPosts ==
    ASSUME CeremonyInv, NEW p \in Flights, CeremonyCoordinator(p)
    PROVE  Calm \/ Posts
<1>1. \/ Close(p)
      \/ \E op \in CeremonyOps \cup {"finalize"} : \E S, arg : Post(p, op, S, arg)
  <2>1. CASE DkgAnswered(p)
    <3>1. flight[p].op \in CeremonyOps
      BY <2>1 DEF DkgAnswered, Returned, CeremonyOps
    <3> QED BY <2>1, <3>1 DEF DkgAnswered, NextInRound, AllDealt, AllCombined, AllFinal,
               Ask, Fail, CeremonyOps
  <2>2. CASE ~DkgAnswered(p)
    BY <2>2 DEF CeremonyCoordinator, Round0Answered, Round1Answered, CommitAnswered,
       RespondAnswered, InitAnswered, FinalizeAnswered, ObserveAnswered, Fail, CeremonyOps
  <2> QED BY <2>1, <2>2
<1>2. "init" \notin CeremonyOps \cup {"finalize"}
  BY DEF CeremonyOps
<1> QED BY <1>1, <1>2, ClosesCalmly DEF Posts

LEMMA WorkerMoves ==
    ASSUME CeremonyInv, NEW p \in Flights, NEW s \in Slots, CeremonyWorker(p, s)
    PROVE  Moves
<1>1. CASE Respond(p, s)
  <2>1. UNCHANGED flight
    BY <1>1 DEF Respond
  <2>2. CASE Reject(p, s)
    BY <2>1, <2>2 DEF Reject, Moves
  <2>3. CASE /\ answers' = [answers EXCEPT ![s] = @ \cup {Response(p, s)}]
             /\ Reply(p, s, Response(p, s))
    <3>1. Response(p, s) \in answers'[s]
      BY <2>3 DEF CeremonyInv, CeremonyFiles
    <3> QED BY <2>1, <2>3, <3>1 DEF Reply, Moves
  <2> QED BY <1>1, <2>2, <2>3 DEF Respond, Consume
<1>2. ASSUME NEW step, NEW base, NEW got, UNCHANGED flight,
             Move(p, s, step, base, got), flight[p].op # "reg2" \/ step # "ok"
      PROVE  Moves
  BY <1>2 DEF Moves
<1>3. CASE RespondRead(p, s)
  BY <1>2, <1>3 DEF RespondRead, Reject
<1>4. CASE \/ Deal(p, s) \/ Combine(p, s) \/ FinalizeDkg(p, s)
           \/ Round0(p, s) \/ Round1Read(p, s) \/ Invert(p, s) \/ Commit(p, s)
  <2>1. UNCHANGED flight /\ flight[p].op # "reg2"
    BY <1>4 DEF Deal, Combine, FinalizeDkg, Round0, Round1Read, Invert, Commit, At
  <2>2. \E step, base, got : Move(p, s, step, base, got)
    BY <1>4 DEF Deal, Combine, FinalizeDkg, Round0, Round1Read, Invert, Commit, Reject,
       Reply
  <2> QED BY <1>2, <2>1, <2>2
<1>5. CASE CeremonyInitRead(p, s) /\ ~VaultWorker(p, s)
  <2>1. At(p, s, "init", "sent") /\ Reject(p, s) /\ UNCHANGED flight
    BY <1>5 DEF CeremonyInitRead, VaultWorker, Refuse
  <2> QED BY <1>2, <2>1 DEF At, Reject
<1>6. CASE VaultWorker(p, s)
  BY <1>2, <1>6, VaultWorkerMoves
<1> QED BY <1>1, <1>3, <1>4, <1>5, <1>6 DEF CeremonyWorker, VaultWorker

LEMMA StepShape ==
    ASSUME CeremonyInv, WholeInv, [CeremonyNext]_allVars
    PROVE  Calm \/ Posts \/ Moves
<1>1. CASE CeremonyFailure \/ (ChainDeposit /\ UNCHANGED ceremony) \/ UNCHANGED allVars
  BY <1>1, CeremonyFailureKeeps, CeremonyQuietKeeps DEF allVars
<1> QED BY <1>1, StartsPost, CoordinatorPosts, WorkerMoves DEF CeremonyNext

\* What is asked and what is answered: the requests and calls of the invariant.
LEMMA CallsStayWhole ==
    ASSUME CeremonyInv, WholeInv, [CeremonyNext]_allVars
    PROVE  /\ \A p \in Flights, s \in Slots : ReplyKept(p, s)'
           /\ \A p \in Flights : AskedWhole(p)'
<1>1. ASSUME NEW p \in Flights, flight'[p].op = flight[p].op,
             flight'[p].arg = flight[p].arg
      PROVE  AskedWhole(p)'
  BY <1>1, KeyStaysWhole DEF WholeInv, AskedWhole, NamesOneKey, KeyIsWhole, Responded
<1>2. ASSUME NEW p \in Flights, NEW s \in Slots, flight'[p].op = flight[p].op,
             call'[p][s].at = call[p][s].at, call'[p][s].got = call[p][s].got
      PROVE  ReplyKept(p, s)'
  BY <1>2, AnswersGrow DEF WholeInv, ReplyKept
<1>3. CASE Calm
  <2>1. ASSUME NEW p \in Flights, flight'[p] = Free, \A s \in Slots : call'[p][s] = Unsent
        PROVE  AskedWhole(p)' /\ \A s \in Slots : ReplyKept(p, s)'
    BY <2>1 DEF Free, Unsent, AskedWhole, ReplyKept
  <2>2. ASSUME NEW p \in Flights, SameRequest(p), NEW s \in Slots,
               SameCall(p, s) \/ Ends(p, s)
        PROVE  AskedWhole(p)' /\ ReplyKept(p, s)'
    BY <1>1, <1>2, <2>2 DEF SameRequest, SameCall, Ends, ReplyKept
  <2>3. ASSUME NEW p \in Flights, SameRequest(p) PROVE AskedWhole(p)'
    BY <1>1, <2>3 DEF SameRequest
  <2> QED BY <1>3, <2>1, <2>2, <2>3 DEF Calm, CalmAt
<1>4. CASE Posts
  <2>0. PICK p \in Flights :
           \E op, S, arg : Post(p, op, S, arg) /\ (op = "init" => NamesOneKey(arg))
    BY <1>4 DEF Posts
  <2>1. PICK op, S, arg :
           Post(p, op, S, arg) /\ (op = "init" => NamesOneKey(arg))
    BY <2>0
  <2>2. PICK r : r = [op |-> op, slots |-> S, arg |-> arg, open |-> TRUE]
    OBVIOUS
  <2>3. PICK c : c = [s \in Slots |-> IF s \in S THEN Sent ELSE Unsent]
    OBVIOUS
  <2>4. flight' = [flight EXCEPT ![p] = r] /\ call' = [call EXCEPT ![p] = c]
    BY <2>1, <2>2, <2>3 DEF Post
  <2>5. /\ flight'[p] = r /\ call'[p] = c
        /\ \A q \in Flights \ {p} : flight'[q] = flight[q] /\ call'[q] = call[q]
    BY <2>4 DEF CeremonyInv, VaultInv, Typed, Shaped
  <2>6. r.op = op /\ r.arg = arg /\ \A s \in Slots : c[s].at \in {"sent", "none"}
    BY <2>2, <2>3 DEF Sent, Unsent
  <2>7. op = "init" => NamesOneKey(arg)'
    BY <2>1, KeyStaysWhole
  <2>8. AskedWhole(p)'
    BY <2>5, <2>6, <2>7 DEF AskedWhole, NamesOneKey, KeyIsWhole, Responded
  <2>9. \A s \in Slots : ReplyKept(p, s)'
    BY <2>5, <2>6 DEF ReplyKept
  <2>10. \A q \in Flights \ {p} : AskedWhole(q)' /\ \A s \in Slots : ReplyKept(q, s)'
    BY <1>1, <1>2, <2>5
  <2> QED BY <2>8, <2>9, <2>10
<1>5. CASE Moves
  <2>0. PICK p \in Flights, s \in Slots : \E step, base, got :
           /\ UNCHANGED flight /\ Move(p, s, step, base, got)
           /\ flight[p].op = "reg2" /\ step = "ok" => got \in answers'[s]
    BY <1>5 DEF Moves
  <2>1. PICK step, base, got :
           /\ UNCHANGED flight /\ Move(p, s, step, base, got)
           /\ flight[p].op = "reg2" /\ step = "ok" => got \in answers'[s]
    BY <2>0
  <2>2. /\ \A q \in Flights, t \in Slots : (q # p \/ t # s) => call'[q][t] = call[q][t]
        /\ \/ call'[p][s].at = "none"
           \/ call'[p][s].at = step /\ call'[p][s].got = got
    BY <2>1, MovedCall DEF CeremonyInv, VaultInv, Typed, Unsent
  <2>3. ReplyKept(p, s)'
    BY <2>1, <2>2 DEF ReplyKept
  <2>4. \A q \in Flights, t \in Slots : (q # p \/ t # s) => ReplyKept(q, t)'
    BY <1>2, <2>1, <2>2
  <2>5. \A q \in Flights : AskedWhole(q)'
    BY <1>1, <2>1
  <2> QED BY <2>3, <2>4, <2>5
<1> QED BY <1>3, <1>4, <1>5, StepShape

\* A registration is persisted when its workers have answered it.
LEMMA RegisteredIsResponded ==
    ASSUME CeremonyInv, WholeInv, [CeremonyNext]_allVars
    PROVE  \A r \in registered' : Responded(r)'
<1>1. \A r \in registered : Responded(r)'
  BY RespondedStays DEF WholeInv, CeremonyInv, CeremonyFiles
<1>2. CASE registered' \subseteq registered
  BY <1>1, <1>2
<1>3. CASE \E p \in Flights : RespondAnswered(p) /\ registered' # registered
  <2>1. PICK p \in Flights : RespondAnswered(p) /\ registered' # registered
    BY <1>3
  <2>2. PICK arg : arg = flight[p].arg
    OBVIOUS
  <2>3. /\ flight[p].op = "reg2"
        /\ AllAccepted(p) /\ ResponsesTied(p) /\ ProofHolds(p)
        /\ registered' = Persisted(Registration(arg))
    BY <2>1, <2>2 DEF RespondAnswered, Returned
  <2>4. /\ arg.challenge \in NoncesOf /\ DOMAIN arg.challenge = flight[p].slots
        /\ flight[p].slots \subseteq Slots
    BY <2>2, <2>3, NoncesOfSlots DEF CeremonyInv, CeremonyAsked, CeremonyArg
  <2>5. ASSUME NEW s \in flight[p].slots
        PROVE  [nonce |-> arg.challenge[s], challenge |-> arg.challenge,
                share |-> arg.run] \in answers'[s]
    <3>1. PICK a : a = call[p][s].got
      OBVIOUS
    <3>2. a \in answers[s] /\ s \in Slots
      BY <2>3, <2>4, <3>1 DEF AllAccepted, Accepted, WholeInv, ReplyKept
    <3>3. a \in ResponseOf
      BY <3>2 DEF CeremonyInv, CeremonyFiles
    <3>4. a.nonce = arg.challenge[s] /\ a.challenge = arg.challenge /\ a.share = arg.run
      BY <2>2, <2>3, <3>1 DEF ResponsesTied, ProofHolds
    <3>5. a = [nonce |-> arg.challenge[s], challenge |-> arg.challenge,
               share |-> arg.run]
      BY <3>3, <3>4 DEF ResponseOf
    <3> QED BY <3>2, <3>5, AnswersGrow
  <2>6. Responded(Registration(arg))'
    BY <2>4, <2>5 DEF Responded, Registration
  <2> QED BY <1>1, <2>3, <2>6 DEF Persisted
<1>4. CASE ~\E p \in Flights : RespondAnswered(p) /\ registered' # registered
  <2>1. ASSUME NEW p \in Flights, CeremonyCoordinator(p) PROVE UNCHANGED registered
    BY <1>4, <2>1 DEF CeremonyCoordinator, DkgAnswered, Round0Answered, Round1Answered,
       CommitAnswered, ceremony
  <2>2. ASSUME NEW p \in Flights, NEW t \in Slots, CeremonyWorker(p, t)
        PROVE  UNCHANGED registered
    BY <2>2 DEF CeremonyWorker, Deal, Combine, FinalizeDkg, Round0, Round1Read,
       Invert, Commit, RespondRead, Respond, CeremonyInitRead, ceremony
  <2>3. UNCHANGED registered
    BY <2>1, <2>2 DEF CeremonyNext, StartKey, StartDerivation, StartRegistration,
       StartVault, StartDkg, StartDerive, StartRegister, StartCeremonyInit,
       CeremonyFailure, allVars, ceremony
  <2> QED BY <1>2, <2>3
<1> QED BY <1>3, <1>4

\* A handler that replaces a file keeps its hash; init writes the request's.
LEMMA FilesStayWhole ==
    ASSUME CeremonyInv, WholeInv, [CeremonyNext]_allVars, NEW s \in Slots
    PROVE  FrozenWhole(s)'
<1>1. CASE file'[s] = file[s]
  BY <1>1, KeyStaysWhole DEF FrozenWhole, WholeInv, NamesOneKey, KeyIsWhole, Responded
<1>2. ASSUME NEW p \in Flights, VaultWorker(p, s), file'[s] # file[s]
      PROVE  FrozenWhole(s)'
  <2>1. DOMAIN file = Slots
    BY DEF CeremonyInv, VaultInv, Typed
  <2>2. CASE InitWrite(p, s)
    <3>1. flight[p].op = "init"
      BY <2>2 DEF InitWrite, At
    <3>2. PICK arg : arg = flight[p].arg
      OBVIOUS
    <3>3. PICK f : f = Fresh(arg, flight[p].slots)
      OBVIOUS
    <3>4. file'[s] = f
      BY <1>2, <2>1, <2>2, <3>2, <3>3 DEF InitWrite, Create, Replace, Refuse
    <3>5. f.hash.request = arg
      BY <3>3 DEF Fresh, WorkerHash
    <3>6. NamesOneKey(arg)'
      BY <3>1, <3>2, KeyStaysWhole DEF WholeInv, AskedWhole
    <3> QED BY <3>4, <3>5, <3>6 DEF FrozenWhole, NamesOneKey, KeyIsWhole, Responded
  <2>3. CASE FinalizeWrite(p, s) \/ ObserveWrite(p, s)
    <3>1. PICK b : b = call[p][s].base
      OBVIOUS
    <3>2. b \in Files /\ SameFrozen(file, s, b)
      BY <2>3, <3>1 DEF FinalizeWrite, ObserveWrite, At, CeremonyInv, VaultInv, CallsSound,
         CallSound, Sound
    <3>3. \/ file'[s] = [b EXCEPT !.pin = flight[p].arg.transcript]
          \/ file'[s] = [b EXCEPT !.count = flight[p].arg.count]
      BY <2>1, <2>3, <3>1 DEF FinalizeWrite, ObserveWrite, Replace
    <3>4. file[s] # Nil /\ file'[s].hash = file[s].hash
      BY <3>2, <3>3 DEF SameFrozen, Files
    <3>5. PICK q : q = file[s].hash.request
      OBVIOUS
    <3>6. NamesOneKey(q)'
      BY <3>4, <3>5, KeyStaysWhole DEF WholeInv, FrozenWhole
    <3> QED BY <3>4, <3>5, <3>6 DEF FrozenWhole, NamesOneKey, KeyIsWhole, Responded
  <2> QED BY <1>2, <2>2, <2>3 DEF VaultWorker, InitRead, FinalizeRead, ObserveRead, Keep,
             Refuse
<1>3. ASSUME NEW p \in Flights, NEW t \in Slots, CeremonyWorker(p, t), file'[s] # file[s]
      PROVE  t = s /\ VaultWorker(p, s)
  <2>1. VaultWorker(p, t)
    BY <1>3 DEF CeremonyWorker, Deal, Combine, FinalizeDkg, Round0, Round1Read, Invert,
       Commit, RespondRead, Respond, CeremonyInitRead, VaultWorker, Refuse, vault
  <2>2. file' = file \/ \E f : file' = [file EXCEPT ![t] = f]
    BY <2>1 DEF VaultWorker, InitRead, InitWrite, Create, FinalizeRead, FinalizeWrite,
       ObserveRead, ObserveWrite, Keep, Refuse, Replace
  <2> QED BY <1>3, <2>1, <2>2 DEF CeremonyInv, VaultInv, Typed
<1>4. ASSUME ~\E p \in Flights, t \in Slots : CeremonyWorker(p, t)
      PROVE  file' = file
  <2>1. ASSUME NEW p \in Flights, CeremonyCoordinator(p) PROVE file' = file
    BY <2>1 DEF CeremonyCoordinator, DkgAnswered, Round0Answered, Round1Answered,
       CommitAnswered, RespondAnswered, InitAnswered, FinalizeAnswered, ObserveAnswered,
       vault
  <2> QED BY <1>4, <2>1 DEF CeremonyNext, StartKey, StartDerivation, StartRegistration,
             StartVault, StartDkg, StartDerive, StartRegister, StartCeremonyInit, StartInit,
             StartObserve, ChainDeposit, CeremonyFailure, Failure, allVars, vars, vault
<1> QED BY <1>1, <1>2, <1>3, <1>4

LEMMA WholeInductive ==
    ASSUME CeremonyInv, WholeInv, [CeremonyNext]_allVars
    PROVE  WholeInv'
BY CallsStayWhole, RegisteredIsResponded, FilesStayWhole DEF WholeInv

\* Whatever was lost, repeated or dealt again, a worker freezes the transcripts of
\* one key, and every worker of its registration had a share of that key when it
\* answered (the provenance scans of init and the rounds of ca_registration_v2).
\* It need not have that share still: see VaultKeyIsHeld.
THEOREM FrozenKeyStaysWhole ==
    InitsNameTranscripts /\ CeremonySpec => []FrozenKeyIsWhole
<1>1. InitsNameTranscripts /\ CeremonyInit => CeremonyInv /\ WholeInv
  <2>1. CeremonyInit => WholeInv
    BY DEF CeremonyInit, Init, FanOutInit, Free, WholeInv, ReplyKept, AskedWhole,
       FrozenWhole
  <2> QED BY <2>1, CeremonyBegins
<1>2. CeremonyInv /\ WholeInv /\ [CeremonyNext]_allVars => (CeremonyInv /\ WholeInv)'
  BY CeremonyInductive, WholeInductive
<1>3. WholeInv => FrozenKeyIsWhole
  BY DEF WholeInv, FrozenWhole, NamesOneKey, FrozenKeyIsWhole
<1> QED BY <1>1, <1>2, <1>3, PTL DEF CeremonySpec

\* What holds of the files without the ceremony holds under it.
COROLLARY CeremonyFilesAreSound ==
    InitsNameTranscripts /\ CeremonySpec
        => [](CursorIsBacked /\ PinsAgree /\ TranscriptsAreHeld)
<1>1. CeremonyInv => CursorIsBacked /\ PinsAgree /\ TranscriptsAreHeld
  BY VaultInvGivesCursors, VaultInvGivesPins, VaultInvGivesTranscripts DEF CeremonyInv
<1>2. InitsNameTranscripts /\ CeremonyInit => CeremonyInv
  BY CeremonyBegins
<1>3. CeremonyInv /\ [CeremonyNext]_allVars => CeremonyInv'
  BY CeremonyInductive
<1> QED BY <1>1, <1>2, <1>3, PTL DEF CeremonySpec

=============================================================================
