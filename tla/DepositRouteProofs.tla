------------------------- MODULE DepositRouteProofs -------------------------
(***************************************************************************)
(* The deposit route, for every value of the constants: it drives the      *)
(* bridge and nothing else, and a wallet that was told 202 has a deposit   *)
(* it can drain, has drained, or let expire.                               *)
(***************************************************************************)
EXTENDS DepositRoute, EunomaBridgeProofs

----------------------------------------------------------------------------
(* What the route handles                                                  *)

Messages == [deposit : DepositIntents, config : Configs]

Handlers ==
    [message : Messages, next : 1 .. 3, attempts : Nat, done : BOOLEAN]

RouteTypeOK ==
    /\ attests \subseteq [message : Messages, phase : Nat]
    /\ attested \subseteq Messages
    /\ handlers \in Seq(Handlers)

\* A deposit under this key is pending, was drained, or has expired.
Opened(key) ==
    \/ key \in DOMAIN deposit_finalizations
    \/ \E i \in 1 .. Len(leaf_log) :
          leaf_log[i].user = key[1] /\ leaf_log[i].commitment = key[2]
    \/ \E other \in attested :
          /\ PendingKey(other.deposit) = key
          /\ other.deposit.nonce \in used_deposit_nonces
          /\ ~NotExpired(other.deposit.expiry)

\* Every pending row was attested, nonce and expiry included.
RowsAttested ==
    \A k \in DOMAIN deposit_finalizations :
        \E m \in attested :
            /\ PendingKey(m.deposit) = k
            /\ m.deposit.nonce = deposit_finalizations[k].nonce
            /\ m.deposit.expiry = deposit_finalizations[k].expiry

\* The n-th entry of a deposit is done: of step2a the row shows it.
StepShows(m, n) == n \in {1, 2} /\ (n = 2 => Opened(PendingKey(m.deposit)))

HandlerOK(h) ==
    /\ h.message \in attested
    /\ h.next > 1 => StepShows(h.message, h.next - 1)
    /\ h.done => StepShows(h.message, h.next)

JournalOK ==
    \A m : \A n : <<HashOf(m), n>> \in completed => StepShows(m, n)

HandlersOK == \A i \in 1 .. Len(handlers) : HandlerOK(handlers[i])

AcceptedOK == \A m \in accepted : Opened(PendingKey(m.deposit))

RouteInv ==
    RouteTypeOK /\ RowsAttested /\ JournalOK /\ HandlersOK /\ AcceptedOK

BridgeInv == TypeOK /\ NonceUsedOnce

LEMMA BridgeInvInductive ==
    ASSUME BridgeInv, [Next]_vars
    PROVE  BridgeInv'
BY TypesInductive, NonceUsedOnceInductive DEF BridgeInv

----------------------------------------------------------------------------
(* The route drives the bridge and nothing else                            *)

\* The transactions the route and everybody else send: those of the bridge,
\* and step2a only for an attested deposit.
OpensAttested ==
    \E m \in attested, cached \in BOOLEAN : DepositStep2a(m.deposit, cached)

NeverOpens ==
    \/ UNCHANGED vars
    \/ AdminStep
    \/ \E d \in DepositIntents : PrepareDepositBinding(d)
    \/ \E d \in DepositIntents, cached \in BOOLEAN : DepositWithCommitment(d, cached)
    \/ \E user \in Accounts, commitment \in Commitments :
          DepositStep2b(user, commitment)
    \/ \E depositor \in Accounts, asset \in Assets, commitment \in Commitments,
          root \in known_roots : Ragequit(depositor, asset, commitment, root)

LEMMA MessageParts ==
    ASSUME RouteTypeOK, NEW m \in attested
    PROVE  m \in Messages /\ m.deposit \in DepositIntents
BY DEF RouteTypeOK, Messages

LEMMA LandsOpens ==
    ASSUME RouteTypeOK, NEW m \in attested, NEW entry, Lands(m, entry)
    PROVE  NeverOpens \/ OpensAttested
BY MessageParts DEF Lands, NeverOpens, OpensAttested

LEMMA HandlerMessage ==
    ASSUME RouteInv, NEW i \in 1 .. Len(handlers)
    PROVE  /\ handlers[i] \in Handlers /\ HandlerOK(handlers[i])
           /\ handlers[i].message \in attested
BY DEF RouteInv, RouteTypeOK, HandlersOK, HandlerOK

LEMMA UserOpens ==
    ASSUME RouteTypeOK, UserStep
    PROVE  NeverOpens \/ OpensAttested
<1>1. ASSUME NEW m \in attested, NEW cached \in BOOLEAN,
             DepositStep2a(m.deposit, cached) \/ DepositWithCommitment(m.deposit, cached)
      PROVE  NeverOpens \/ OpensAttested
  BY <1>1, MessageParts DEF NeverOpens, OpensAttested
<1>2. CASE \/ \E d \in DepositIntents : PrepareDepositBinding(d)
           \/ \E user \in Accounts, commitment \in Commitments :
                 DepositStep2b(user, commitment)
           \/ \E depositor \in Accounts, asset \in Assets,
                 commitment \in Commitments, root \in known_roots :
                    Ragequit(depositor, asset, commitment, root)
  BY <1>2 DEF NeverOpens
<1> QED BY <1>1, <1>2 DEF UserStep

LEMMA RouteOpens ==
    ASSUME RouteInv, [RouteNext]_<<vars, routeVars>>
    PROVE  NeverOpens \/ OpensAttested
<1>1. ASSUME NEW i \in 1 .. Len(handlers), Land(i) \/ LoseAnswer(i)
      PROVE  NeverOpens \/ OpensAttested
  <2>1. handlers[i].message \in attested
    BY HandlerMessage
  <2>2. Lands(handlers[i].message, Entry(i)) \/ UNCHANGED vars
    BY <1>1 DEF Land, LoseAnswer
  <2> QED BY <2>1, <2>2, LandsOpens DEF RouteInv, NeverOpens
<1>2. CASE UNCHANGED vars
  BY <1>2 DEF NeverOpens
<1>3. CASE ChainStep
  BY <1>3, UserOpens DEF ChainStep, NeverOpens, RouteInv
<1>4. CASE AttestStep
  BY <1>4 DEF AttestStep, Attest, PhaseAnswered, AttestFails, Aggregated,
       NeverOpens
<1>5. ASSUME NEW m, Submit(m) \/ Refuse(m) PROVE UNCHANGED vars
  BY <1>5 DEF Submit, Refuse
<1>6. ASSUME NEW i, Abort(i) \/ StepDone(i) \/ Accept(i) PROVE UNCHANGED vars
  BY <1>6 DEF Abort, StepDone, Accept
<1>7. CASE Crash
  BY <1>7 DEF Crash, NeverOpens
<1>8. CASE UNCHANGED <<vars, routeVars>>
  BY <1>8 DEF NeverOpens
<1> QED BY <1>1, <1>2, <1>3, <1>4, <1>5, <1>6, <1>7, <1>8
        DEF RouteNext, RelayerStep

LEMMA RouteStepsBridge ==
    ASSUME RouteInv, [RouteNext]_<<vars, routeVars>>
    PROVE  [Next]_vars
<1>1. CASE NeverOpens
  BY <1>1 DEF NeverOpens, Next, DepositStep, WithdrawStep
<1>2. CASE OpensAttested
  BY <1>2, MessageParts DEF OpensAttested, RouteInv, Next, DepositStep
<1> QED BY <1>1, <1>2, RouteOpens

----------------------------------------------------------------------------
(* What stays so                                                           *)

\* Nonces stay used.
LEMMA NoncesStay ==
    ASSUME TypeOK, [Next]_vars
    PROVE  used_deposit_nonces \subseteq used_deposit_nonces'
BY StepDeposits DEF DepositsUnchanged, EvictsDeposits, OpensDeposit,
     SettlesDeposit, DepositsAtOnce, KeepsChange

\* A pending row stays, becomes a leaf, or is evicted once it has expired.
LEMMA RowGoesOn ==
    ASSUME BridgeInv, RowsAttested, RouteTypeOK, [Next]_vars,
           attested \subseteq attested', NEW key \in DOMAIN deposit_finalizations
    PROVE  Opened(key)'
<1>1. CASE UNCHANGED deposit_finalizations
  BY <1>1 DEF Opened
<1>2. ASSUME NEW k, NEW row, OpensDeposit(k, row) PROVE Opened(key)'
  BY <1>2 DEF OpensDeposit, Put, Opened
<1>3. ASSUME NEW user, NEW commitment, SettlesDeposit(user, commitment)
      PROVE  Opened(key)'
  <2> DEFINE n == Len(leaf_log) + 1
  <2>1. CASE key # <<user, commitment>>
    BY <1>3, <2>1 DEF SettlesDeposit, Remove, Opened
  <2>2. CASE key = <<user, commitment>>
    <3>1. /\ n \in 1 .. Len(leaf_log') /\ leaf_log'[n].user = user
          /\ leaf_log'[n].commitment = commitment
      BY <1>3, DepositInLog DEF SettlesDeposit, BridgeInv
    <3> HIDE DEF n
    <3> QED BY <2>2, <3>1 DEF Opened
  <2> QED BY <2>1, <2>2
<1>4. CASE EvictsDeposits
  <2>1. CASE key \in DOMAIN deposit_finalizations'
    BY <2>1 DEF Opened
  <2>2. CASE key \notin DOMAIN deposit_finalizations'
    <3>1. deposit_finalizations[key].expiry < now
      BY <1>4, <2>2 DEF EvictsDeposits
    <3>2. PICK m \in attested :
              /\ PendingKey(m.deposit) = key
              /\ m.deposit.nonce = deposit_finalizations[key].nonce
              /\ m.deposit.expiry = deposit_finalizations[key].expiry
      BY DEF RowsAttested
    <3>3. m.deposit.nonce \in used_deposit_nonces'
      BY <3>2, NoncesStay DEF BridgeInv, NonceUsedOnce
    <3>4. m.deposit.expiry \in Nat
      BY MessageParts, PendingKeyType
    <3>5. m.deposit.expiry < now'
      BY <3>1, <3>2, <3>4, ClockRuns DEF BridgeInv
    <3>6. ~(now' <= m.deposit.expiry)
      BY <3>4, <3>5, ClockRuns DEF BridgeInv
    <3> QED BY <3>2, <3>3, <3>6 DEF Opened, PendingKey, NotExpired
  <2> QED BY <2>1, <2>2
<1> QED BY <1>1, <1>2, <1>3, <1>4, StepDeposits
        DEF BridgeInv, DepositsUnchanged, DepositsAtOnce, KeepsChange

LEMMA OpenedStays ==
    ASSUME BridgeInv, RowsAttested, RouteTypeOK, [Next]_vars,
           attested \subseteq attested', NEW key, Opened(key)
    PROVE  Opened(key)'
<1>1. CASE key \in DOMAIN deposit_finalizations
  BY <1>1, RowGoesOn
<1>2. CASE \E i \in 1 .. Len(leaf_log) :
               leaf_log[i].user = key[1] /\ leaf_log[i].commitment = key[2]
  BY <1>2, LeafLogStays DEF Opened, BridgeInv
<1>3. ASSUME NEW other \in attested, PendingKey(other.deposit) = key,
             other.deposit.nonce \in used_deposit_nonces,
             ~NotExpired(other.deposit.expiry)
      PROVE  Opened(key)'
  <2>1. other.deposit.expiry \in Nat
    BY MessageParts, PendingKeyType
  <2>2. ~(now' <= other.deposit.expiry)
    BY <1>3, <2>1, ClockRuns DEF NotExpired, BridgeInv
  <2>3. other.deposit.nonce \in used_deposit_nonces'
    BY <1>3, NoncesStay DEF BridgeInv
  <2> QED BY <1>3, <2>2, <2>3 DEF Opened, PendingKey, NotExpired
<1> QED BY <1>1, <1>2, <1>3 DEF Opened

LEMMA StepShowsStays ==
    ASSUME BridgeInv, RowsAttested, RouteTypeOK, [Next]_vars,
           attested \subseteq attested', NEW m, NEW n, StepShows(m, n)
    PROVE  StepShows(m, n)'
<1>1. PICK key : key = PendingKey(m.deposit)
  OBVIOUS
<1>2. Opened(key) => Opened(key)'
  BY OpenedStays
<1> QED BY <1>1, <1>2 DEF StepShows, PendingKey

LEMMA HandlerStays ==
    ASSUME BridgeInv, RowsAttested, RouteTypeOK, [Next]_vars,
           attested \subseteq attested', NEW h, HandlerOK(h)
    PROVE  HandlerOK(h)'
BY StepShowsStays DEF HandlerOK

\* Only step2a adds a row, and it is the attested one.
LEMMA RowsAttestedInductive ==
    ASSUME BridgeInv, RouteInv, NeverOpens \/ OpensAttested,
           attested \subseteq attested'
    PROVE  RowsAttested'
<1>1. ASSUME DOMAIN deposit_finalizations' \subseteq DOMAIN deposit_finalizations,
             \A k \in DOMAIN deposit_finalizations' :
                deposit_finalizations'[k] = deposit_finalizations[k]
      PROVE  RowsAttested'
  BY <1>1 DEF RouteInv, RowsAttested
<1>2. CASE NeverOpens
  <2>1. CASE AdminStep
    BY <1>1, <2>1, AdminDeposits DEF BridgeInv, DepositsUnchanged, EvictsDeposits
  <2>2. ASSUME NEW user, NEW commitment, DepositStep2b(user, commitment)
        PROVE  RowsAttested'
    BY <1>1, <2>2 DEF DepositStep2b, Remove
  <2>3. CASE UNCHANGED deposit_finalizations
    BY <1>1, <2>3
  <2>4. ASSUME NEW d, PrepareDepositBinding(d)
               \/ \E cached \in BOOLEAN : DepositWithCommitment(d, cached)
        PROVE  UNCHANGED deposit_finalizations
    BY <2>4 DEF PrepareDepositBinding, DepositWithCommitment
  <2>5. ASSUME NEW depositor, NEW asset, NEW commitment, NEW root,
               Ragequit(depositor, asset, commitment, root)
        PROVE  UNCHANGED deposit_finalizations
    BY <2>5 DEF Ragequit, depositVars
  <2>6. CASE UNCHANGED vars
    BY <2>3, <2>6 DEF vars, depositVars
  <2> QED BY <1>2, <2>1, <2>2, <2>3, <2>4, <2>5, <2>6 DEF NeverOpens
<1>3. ASSUME NEW m \in attested, NEW cached, DepositStep2a(m.deposit, cached)
      PROVE  RowsAttested'
  <2> DEFINE row == [sender |-> m.deposit.user, nonce |-> m.deposit.nonce,
                     expiry |-> m.deposit.expiry]
  <2>1. row.nonce = m.deposit.nonce /\ row.expiry = m.deposit.expiry
    OBVIOUS
  <2>2. deposit_finalizations' = Put(deposit_finalizations, PendingKey(m.deposit), row)
    BY <1>3 DEF DepositStep2a
  <2> HIDE DEF row
  <2>3. /\ DOMAIN deposit_finalizations'
              = DOMAIN deposit_finalizations \cup {PendingKey(m.deposit)}
        /\ \A k \in DOMAIN deposit_finalizations' :
              deposit_finalizations'[k] =
                 IF k = PendingKey(m.deposit) THEN row ELSE deposit_finalizations[k]
    BY <2>2 DEF Put
  <2> QED BY <2>1, <2>3 DEF RouteInv, RowsAttested, PendingKey
<1> QED BY <1>2, <1>3 DEF OpensAttested

----------------------------------------------------------------------------
(* The handlers                                                            *)

\* A step of the chain, with what was attested before it.
Frame ==
    /\ BridgeInv /\ RouteInv
    /\ [Next]_vars
    /\ attested \subseteq attested'

LEMMA JournalStays ==
    ASSUME Frame, UNCHANGED completed
    PROVE  JournalOK'
<1>1. \A m : \A n : StepShows(m, n) => StepShows(m, n)'
  BY StepShowsStays DEF Frame, RouteInv
<1> QED BY <1>1 DEF Frame, RouteInv, JournalOK, HashOf

LEMMA AcceptedStays ==
    ASSUME Frame, UNCHANGED accepted
    PROVE  AcceptedOK'
<1>1. \A key : Opened(key) => Opened(key)'
  BY OpenedStays DEF Frame, RouteInv
<1> QED BY <1>1 DEF Frame, RouteInv, AcceptedOK, PendingKey

\* The handlers after a step are old ones, or justified.
LEMMA HandlersGo ==
    ASSUME Frame,
           \A j \in 1 .. Len(handlers') :
              \E h : /\ h = handlers'[j]
                     /\ HandlerOK(h)' \/ \E k \in 1 .. Len(handlers) : h = handlers[k]
    PROVE  HandlersOK'
<1>1. ASSUME NEW j \in 1 .. Len(handlers') PROVE HandlerOK(handlers[j])'
  <2>1. PICK h : /\ h = handlers'[j]
                 /\ HandlerOK(h)' \/ \E k \in 1 .. Len(handlers) : h = handlers[k]
    OBVIOUS
  <2>2. (\E k \in 1 .. Len(handlers) : h = handlers[k]) => HandlerOK(h)
    BY DEF Frame, RouteInv, HandlersOK
  <2>3. HandlerOK(h)'
    BY <2>1, <2>2, HandlerStays DEF Frame, RouteInv
  <2> QED BY <2>1, <2>3 DEF HandlerOK
<1> QED BY <1>1 DEF HandlersOK

LEMMA HandlersStay ==
    ASSUME Frame, UNCHANGED handlers
    PROVE  HandlersOK'
BY HandlersGo

\* One handler moves on.
LEMMA HandlerMoves ==
    ASSUME Frame, NEW i \in 1 .. Len(handlers), NEW h \in Handlers,
           HandlerOK(h)', handlers' = [handlers EXCEPT ![i] = h]
    PROVE  HandlersOK' /\ handlers' \in Seq(Handlers)
<1>1. handlers \in Seq(Handlers)
  BY DEF Frame, RouteInv, RouteTypeOK
<1>2. /\ handlers' \in Seq(Handlers) /\ Len(handlers') = Len(handlers)
      /\ \A j \in 1 .. Len(handlers) :
            handlers'[j] = IF j = i THEN h ELSE handlers[j]
  BY <1>1
<1> QED BY <1>2, HandlersGo

\* One handler answers.
LEMMA HandlerLeaves ==
    ASSUME Frame, NEW i \in 1 .. Len(handlers),
           handlers' = Seqs!RemoveAt(handlers, i)
    PROVE  HandlersOK' /\ handlers' \in Seq(Handlers)
<1>1. handlers \in Seq(Handlers) /\ Len(handlers) \in Nat
  BY DEF Frame, RouteInv, RouteTypeOK
<1> DEFINE before == SubSeq(handlers, 1, i - 1)
           after  == SubSeq(handlers, i + 1, Len(handlers))
<1>2. handlers' = before \o after
  BY DEF Seqs!RemoveAt
<1>3. /\ before \in Seq(Handlers) /\ Len(before) = i - 1
      /\ \A j \in 1 .. i - 1 : before[j] = handlers[j]
  BY <1>1, SubSeqProperties
<1>4. /\ after \in Seq(Handlers) /\ Len(after) = Len(handlers) - i
      /\ \A j \in 1 .. Len(handlers) - i : after[j] = handlers[i + j]
  BY <1>1, SubSeqProperties
<1> HIDE DEF before, after
<1>5. /\ handlers' \in Seq(Handlers) /\ Len(handlers') = Len(handlers) - 1
      /\ \A j \in 1 .. Len(handlers') :
            handlers'[j] = IF j <= i - 1 THEN handlers[j] ELSE handlers[j + 1]
  <2>1. /\ handlers' \in Seq(Handlers)
        /\ Len(handlers') = Len(before) + Len(after)
        /\ \A j \in 1 .. Len(before) + Len(after) :
              handlers'[j] = IF j <= Len(before) THEN before[j]
                                                ELSE after[j - Len(before)]
    <3>1. /\ before \o after \in Seq(Handlers)
          /\ Len(before \o after) = Len(before) + Len(after)
          /\ \A j \in 1 .. Len(before) + Len(after) :
                (before \o after)[j] = IF j <= Len(before) THEN before[j]
                                                          ELSE after[j - Len(before)]
      <4>1. before \in Seq(Handlers) /\ after \in Seq(Handlers)
        BY <1>3, <1>4
      <4> QED BY ONLY <4>1, ConcatProperties, Zenon
    <3> QED BY <1>2, <3>1
  <2>2. Len(before) = i - 1 /\ Len(handlers') = Len(handlers) - 1
    BY <1>1, <1>3, <1>4, <2>1
  <2>3. ASSUME NEW j \in 1 .. Len(handlers'), j <= i - 1
        PROVE  handlers'[j] = handlers[j]
    BY <1>1, <1>3, <2>1, <2>2, <2>3
  <2>4. ASSUME NEW j \in 1 .. Len(handlers'), ~(j <= i - 1)
        PROVE  handlers'[j] = handlers[j + 1]
    <3>1. j - (i - 1) \in 1 .. Len(handlers) - i
      BY <1>1, <2>2, <2>4
    <3>2. after[j - (i - 1)] = handlers[i + (j - (i - 1))]
      BY <1>4, <3>1
    <3>3. i + (j - (i - 1)) = j + 1
      BY <1>1, <2>2
    <3>4. handlers'[j] = after[j - (i - 1)]
      BY <1>1, <2>1, <2>2, <2>4, <1>3, <1>4
    <3> QED BY <3>2, <3>3, <3>4
  <2> QED BY <2>1, <2>2, <2>3, <2>4
<1>6. ASSUME NEW j \in 1 .. Len(handlers')
      PROVE  \E k \in 1 .. Len(handlers) : handlers'[j] = handlers[k]
  BY <1>1, <1>5
<1> QED BY <1>5, <1>6, HandlersGo

\* The entry that is to run next: those before it are done.
LEMMA FirstMissingShows ==
    ASSUME JournalOK, NEW m
    PROVE  /\ FirstMissing(m) \in 1 .. 3
           /\ FirstMissing(m) > 1 => StepShows(m, FirstMissing(m) - 1)
<1> DEFINE Missing(n) ==
        /\ \A step \in 1 .. n - 1 : <<HashOf(m), step>> \in completed
        /\ <<HashOf(m), n>> \notin completed
<1>1. <<HashOf(m), 3>> \notin completed
  BY DEF JournalOK, StepShows
<1>2. \E n \in 1 .. 3 : Missing(n)
  <2>1. CASE <<HashOf(m), 1>> \notin completed
    <3>1. Missing(1)
      BY <2>1
    <3> QED BY <3>1
  <2>2. CASE <<HashOf(m), 1>> \in completed /\ <<HashOf(m), 2>> \notin completed
    <3>1. Missing(2)
      BY <2>2
    <3> QED BY <3>1
  <2>3. CASE <<HashOf(m), 1>> \in completed /\ <<HashOf(m), 2>> \in completed
    <3>1. \A step \in 1 .. 3 - 1 : step = 1 \/ step = 2
      OBVIOUS
    <3>2. Missing(3)
      BY <1>1, <2>3, <3>1
    <3> QED BY <3>2
  <2> QED BY <2>1, <2>2, <2>3
<1>3. FirstMissing(m) \in 1 .. 3 /\ Missing(FirstMissing(m))
  BY <1>2 DEF FirstMissing
<1>4. ASSUME FirstMissing(m) > 1 PROVE StepShows(m, FirstMissing(m) - 1)
  <2>1. PICK n \in 1 .. 3 : n = FirstMissing(m)
    BY <1>3
  <2>2. n - 1 \in 1 .. n - 1
    BY <1>4, <2>1
  <2>3. <<HashOf(m), n - 1>> \in completed
    BY <1>3, <2>1, <2>2
  <2> QED BY <2>1, <2>3 DEF JournalOK
<1> QED BY <1>3, <1>4

----------------------------------------------------------------------------
(* The deoperators sign                                                    *)

LEMMA AttestTypes ==
    ASSUME Frame, AttestStep
    PROVE  /\ attests' \subseteq [message : Messages, phase : Nat]
           /\ attested' \subseteq Messages
           /\ UNCHANGED <<handlers, completed, accepted>>
<1>1. ASSUME NEW d \in DepositIntents, Attest(MessageOf(d))
      PROVE  /\ attests' \subseteq [message : Messages, phase : Nat]
             /\ UNCHANGED <<attested, handlers, completed, accepted>>
  <2>1. MessageOf(d) \in Messages
    BY DEF MessageOf, Messages, Frame, BridgeInv, TypeOK, RootTypeOK, ControlTypeOK
  <2> QED BY <1>1, <2>1 DEF Attest, Frame, RouteInv, RouteTypeOK
<1>2. ASSUME NEW a \in attests, PhaseAnswered(a) \/ AttestFails(a) \/ Aggregated(a)
      PROVE  /\ attests' \subseteq [message : Messages, phase : Nat]
             /\ attested' \subseteq Messages
             /\ UNCHANGED <<handlers, completed, accepted>>
  <2>1. /\ a \in [message : Messages, phase : Nat]
        /\ a.message \in Messages
        /\ [a EXCEPT !.phase = @ + 1] \in [message : Messages, phase : Nat]
    BY DEF Frame, RouteInv, RouteTypeOK
  <2> QED BY <1>2, <2>1
          DEF PhaseAnswered, AttestFails, Aggregated, Frame, RouteInv, RouteTypeOK
<1> QED BY <1>1, <1>2 DEF AttestStep, Frame, RouteInv, RouteTypeOK

LEMMA AttestedGrows ==
    ASSUME [RouteNext]_<<vars, routeVars>>
    PROVE  attested \subseteq attested'
<1>1. CASE AttestStep
  BY <1>1 DEF AttestStep, Attest, PhaseAnswered, AttestFails, Aggregated
<1>2. CASE RelayerStep
  BY <1>2 DEF RelayerStep, Submit, Refuse, Land, Abort, LoseAnswer, StepDone,
       Accept, Crash
<1>3. CASE ChainStep \/ UNCHANGED <<vars, routeVars>>
  BY <1>3 DEF ChainStep, routeVars
<1> QED BY <1>1, <1>2, <1>3 DEF RouteNext

----------------------------------------------------------------------------
(* The relayer's steps                                                     *)

\* What a step of the relayer leaves to be shown of its handlers and journal.
Justified ==
    /\ handlers' \in Seq(Handlers)
    /\ HandlersOK' /\ JournalOK' /\ AcceptedOK'

LEMMA SubmitJustified ==
    ASSUME Frame, NEW m \in Requests, Submit(m)
    PROVE  Justified
<1>1. PICK h : h = [message |-> m, next |-> FirstMissing(m), attempts |-> 1,
                    done |-> FALSE]
  OBVIOUS
<1>2. h \in Handlers /\ HandlerOK(h)
  BY <1>1, FirstMissingShows
     DEF Handlers, HandlerOK, Requests, Frame, RouteInv, RouteTypeOK
<1>3. HandlerOK(h)'
  BY <1>2, HandlerStays DEF Frame, RouteInv
<1>4. handlers \in Seq(Handlers) /\ handlers' = Append(handlers, h)
  BY <1>1 DEF Submit, Frame, RouteInv, RouteTypeOK
<1>5. /\ handlers' \in Seq(Handlers) /\ Len(handlers') = Len(handlers) + 1
      /\ \A j \in 1 .. Len(handlers) : handlers'[j] = handlers[j]
      /\ handlers'[Len(handlers) + 1] = h
  BY <1>2, <1>4, AppendProperties
<1>6. \A j \in 1 .. Len(handlers') : j \in 1 .. Len(handlers) \/ j = Len(handlers) + 1
  BY <1>4, <1>5
<1>7. HandlersOK'
  BY <1>3, <1>5, <1>6, HandlersGo
<1> QED BY <1>5, <1>7, JournalStays, AcceptedStays DEF Submit, Justified

\* An entry that took effect, or found its own row, is done.
LEMMA DoneJustified ==
    ASSUME Frame, NEW i \in 1 .. Len(handlers), Runs(i), Done(i),
           UNCHANGED <<completed, accepted>>, NEW d,
           d = handlers[i].message.deposit,
           Entry(i) = "step2a" => Opened(PendingKey(d))'
    PROVE  Justified
<1>1. PICK h : h = handlers[i]
  OBVIOUS
<1>2. h \in Handlers /\ HandlerOK(h)
  BY <1>1, HandlerMessage DEF Frame
<1>3. d = h.message.deposit
  BY <1>1
<1>4. h.next \in {1, 2} /\ (h.next = 2 => Entry(i) = "step2a")
  BY <1>1, <1>2 DEF Runs, Entry, Entries, Handlers
<1>5. h.next = 2 => Opened(PendingKey(d))'
  BY <1>4
<1>6. PICK g : g = [h EXCEPT !.done = TRUE]
  OBVIOUS
<1>7. /\ g \in Handlers /\ g.message = h.message /\ g.next = h.next
  BY <1>2, <1>6 DEF Handlers
<1>8. HandlerOK(h)'
  BY <1>2, HandlerStays DEF Frame, RouteInv
<1>9. StepShows(h.message, h.next)'
  BY <1>3, <1>4, <1>5 DEF StepShows, PendingKey
<1>10. HandlerOK(g)'
  BY <1>7, <1>8, <1>9 DEF HandlerOK
<1>11. handlers' = [handlers EXCEPT ![i] = g]
  BY <1>1, <1>6 DEF Done
<1>12. HandlersOK' /\ handlers' \in Seq(Handlers)
  BY <1>7, <1>10, <1>11, HandlerMoves
<1> QED BY <1>12, JournalStays, AcceptedStays DEF Justified

LEMMA LandJustified ==
    ASSUME Frame, NEW i \in 1 .. Len(handlers), Land(i)
    PROVE  Justified
<1>1. PICK d : d = handlers[i].message.deposit
  OBVIOUS
<1>2. ASSUME Entry(i) = "step2a" PROVE Opened(PendingKey(d))'
  <2>1. DepositStep2a(d, FALSE)
    BY <1>1, <1>2 DEF Land, Lands
  <2>2. PendingKey(d) \in DOMAIN deposit_finalizations'
    BY <2>1 DEF DepositStep2a, Put
  <2> QED BY <2>2 DEF Opened, PendingKey
<1> QED BY <1>1, <1>2, DoneJustified DEF Land

LEMMA AbortJustified ==
    ASSUME Frame, NEW i \in 1 .. Len(handlers), Abort(i)
    PROVE  Justified
<1>1. CASE Done(i) /\ AbortsPending(handlers[i].message, Entry(i))
  <2>1. PICK d : d = handlers[i].message.deposit
    OBVIOUS
  <2>2. ASSUME Entry(i) = "step2a" PROVE Opened(PendingKey(d))'
    <3>1. PendingKey(d) \in DOMAIN deposit_finalizations
      BY <1>1, <2>1, <2>2 DEF AbortsPending
    <3>2. deposit_finalizations' = deposit_finalizations
      BY DEF Abort, vars, depositVars
    <3> QED BY <3>1, <3>2 DEF Opened, PendingKey
  <2> QED BY <1>1, <2>1, <2>2, DoneJustified DEF Abort
<1>2. CASE Fail(i)
  BY <1>2, HandlerLeaves, JournalStays, AcceptedStays DEF Abort, Fail, Justified
<1> QED BY <1>1, <1>2 DEF Abort

LEMMA LoseAnswerJustified ==
    ASSUME Frame, NEW i \in 1 .. Len(handlers), LoseAnswer(i)
    PROVE  Justified
<1>1. CASE Fail(i)
  BY <1>1, HandlerLeaves, JournalStays, AcceptedStays
     DEF LoseAnswer, Fail, Justified
<1>2. CASE handlers' = [handlers EXCEPT ![i].attempts = @ + 1]
  <2>1. PICK h : h = handlers[i]
    OBVIOUS
  <2>2. h \in Handlers /\ HandlerOK(h)'
    BY <2>1, HandlerMessage, HandlerStays DEF Frame, RouteInv
  <2>3. PICK g : g = [h EXCEPT !.attempts = @ + 1]
    OBVIOUS
  <2>4. /\ g \in Handlers /\ g.message = h.message /\ g.next = h.next
        /\ g.done = h.done
    BY <2>2, <2>3 DEF Handlers
  <2>5. HandlerOK(g)'
    BY <2>2, <2>4 DEF HandlerOK
  <2>6. handlers' = [handlers EXCEPT ![i] = g]
    BY <1>2, <2>1, <2>3
  <2> QED BY <2>4, <2>5, <2>6, HandlerMoves, JournalStays, AcceptedStays
          DEF LoseAnswer, Justified
<1> QED BY <1>1, <1>2 DEF LoseAnswer

LEMMA StepDoneJustified ==
    ASSUME Frame, NEW i \in 1 .. Len(handlers), StepDone(i)
    PROVE  Justified
<1>1. PICK h : h = handlers[i]
  OBVIOUS
<1>2. h \in Handlers /\ HandlerOK(h) /\ h.done
  BY <1>1, HandlerMessage DEF Frame, StepDone
<1>3. StepShows(h.message, h.next)
  BY <1>2 DEF HandlerOK
<1>4. HandlerOK(h)' /\ StepShows(h.message, h.next)'
  BY <1>2, <1>3, HandlerStays, StepShowsStays DEF Frame, RouteInv
<1>5. PICK g : g = [h EXCEPT !.done = FALSE, !.next = @ + 1, !.attempts = 1]
  OBVIOUS
<1>6. /\ g \in Handlers /\ g.message = h.message /\ g.next = h.next + 1
      /\ g.next - 1 = h.next /\ g.done = FALSE
  <2>1. h.next \in {1, 2} /\ h.message \in Messages
    BY <1>2, <1>3 DEF StepShows, Handlers
  <2>2. g = [message |-> h.message, next |-> h.next + 1, attempts |-> 1,
             done |-> FALSE]
    BY <1>2, <1>5 DEF Handlers
  <2>3. h.next + 1 \in 1 .. 3 /\ (h.next + 1) - 1 = h.next
    BY <2>1
  <2> QED BY <2>1, <2>2, <2>3 DEF Handlers
<1>7. HandlerOK(g)'
  BY <1>4, <1>6 DEF HandlerOK
<1>8. handlers' = [handlers EXCEPT ![i] = g]
  BY <1>1, <1>5 DEF StepDone
<1>9. HandlersOK' /\ handlers' \in Seq(Handlers)
  BY <1>6, <1>7, <1>8, HandlerMoves
<1>10. ASSUME NEW m, NEW n, <<HashOf(m), n>> \in completed'
       PROVE  StepShows(m, n)'
  <2>1. completed' = completed \cup {<<HashOf(h.message), h.next>>}
    BY <1>1 DEF StepDone
  <2>2. CASE <<HashOf(m), n>> \in completed
    BY <2>2, StepShowsStays DEF Frame, RouteInv, JournalOK
  <2>3. CASE <<HashOf(m), n>> = <<HashOf(h.message), h.next>>
    <3>1. n = h.next /\ PendingKey(m.deposit) = PendingKey(h.message.deposit)
      BY <2>3 DEF HashOf, PendingKey
    <3>2. StepShows(m, n)
      BY <1>3, <3>1 DEF StepShows
    <3> QED BY <3>2, StepShowsStays DEF Frame, RouteInv
  <2> QED BY <1>10, <2>1, <2>2, <2>3
<1>11. JournalOK'
  BY <1>10 DEF JournalOK, HashOf
<1> QED BY <1>9, <1>11, AcceptedStays DEF StepDone, Justified

LEMMA AcceptJustified ==
    ASSUME Frame, NEW i \in 1 .. Len(handlers), Accept(i)
    PROVE  Justified
<1>1. PICK h : h = handlers[i]
  OBVIOUS
<1>2. h \in Handlers /\ HandlerOK(h) /\ h.next > 2
  BY <1>1, HandlerMessage DEF Frame, Accept, Entries
<1>3. Opened(PendingKey(h.message.deposit))
  BY <1>2 DEF Handlers, HandlerOK, StepShows
<1>4. \A key : Opened(key) => Opened(key)'
  BY OpenedStays DEF Frame, RouteInv
<1>5. accepted' \subseteq accepted \cup {h.message}
  BY <1>1 DEF Accept, Tell
<1>6. \A m \in accepted' : Opened(PendingKey(m.deposit))
  BY <1>3, <1>5 DEF Frame, RouteInv, AcceptedOK
<1>7. AcceptedOK'
  BY <1>4, <1>6 DEF AcceptedOK, PendingKey
<1> QED BY <1>7, HandlerLeaves, JournalStays DEF Accept, Justified

LEMMA CrashJustified ==
    ASSUME Frame, Crash
    PROVE  Justified
<1>1. handlers' = <<>> /\ handlers' \in Seq(Handlers) /\ Len(handlers') = 0
  BY DEF Crash
<1>2. HandlersOK'
  BY <1>1, HandlersGo
<1> QED BY <1>1, <1>2, JournalStays, AcceptedStays DEF Crash, Justified

LEMMA RelayerJustified ==
    ASSUME Frame, RelayerStep
    PROVE  Justified
<1>1. ASSUME NEW m, Refuse(m) PROVE Justified
  BY <1>1, HandlersStay, JournalStays, AcceptedStays
     DEF Refuse, Justified, Frame, RouteInv, RouteTypeOK
<1> QED BY <1>1, SubmitJustified, LandJustified, AbortJustified,
           LoseAnswerJustified, StepDoneJustified, AcceptJustified,
           CrashJustified
        DEF RelayerStep

----------------------------------------------------------------------------
(* The theorems                                                            *)

LEMMA RouteInvInductive ==
    ASSUME BridgeInv, RouteInv, [RouteNext]_<<vars, routeVars>>
    PROVE  RouteInv'
<1>1. Frame
  BY RouteStepsBridge, AttestedGrows DEF Frame
<1>2. RowsAttested'
  BY <1>1, RouteOpens, RowsAttestedInductive DEF Frame
<1>3. CASE AttestStep
  <2>1. /\ attests' \subseteq [message : Messages, phase : Nat]
        /\ attested' \subseteq Messages
        /\ UNCHANGED <<handlers, completed, accepted>>
    BY <1>1, <1>3, AttestTypes
  <2>2. RouteTypeOK'
    BY <2>1 DEF RouteInv, RouteTypeOK, Messages, Handlers
  <2> QED BY <1>1, <1>2, <2>1, <2>2, HandlersStay, JournalStays, AcceptedStays
          DEF RouteInv
<1>4. CASE RelayerStep
  <2>1. UNCHANGED <<attests, attested>>
    BY <1>4 DEF RelayerStep, Submit, Refuse, Land, Abort, LoseAnswer, StepDone,
         Accept, Crash
  <2>2. Justified
    BY <1>1, <1>4, RelayerJustified
  <2>3. RouteTypeOK'
    BY <2>1, <2>2 DEF RouteInv, RouteTypeOK, Justified, Messages, Handlers
  <2> QED BY <1>2, <2>2, <2>3 DEF RouteInv, Justified
<1>5. CASE ChainStep \/ UNCHANGED <<vars, routeVars>>
  <2>1. UNCHANGED routeVars
    BY <1>5 DEF ChainStep
  <2>2. RouteTypeOK'
    BY <2>1 DEF RouteInv, RouteTypeOK, routeVars, Messages, Handlers
  <2> QED BY <1>1, <1>2, <2>1, <2>2, HandlersStay, JournalStays, AcceptedStays
          DEF RouteInv, routeVars
<1> QED BY <1>3, <1>4, <1>5 DEF RouteNext

LEMMA RouteInvInit ==
    ASSUME RouteInit
    PROVE  RouteInv
<1>1. handlers = <<>> /\ handlers \in Seq(Handlers) /\ Len(handlers) = 0
  BY DEF RouteInit
<1>2. DOMAIN deposit_finalizations = {}
  BY DEF RouteInit, Init
<1> QED BY <1>1, <1>2
        DEF RouteInit, RouteInv, RouteTypeOK, RowsAttested, JournalOK,
            HandlersOK, AcceptedOK

LEMMA RouteInvHolds == RouteSpec => [](BridgeInv /\ RouteInv)
<1>1. RouteInit => BridgeInv /\ RouteInv
  <2>1. Init => NonceUsedOnce
    BY DEF Init, NonceUsedOnce
  <2> QED BY <2>1, RouteInvInit, InitTypes DEF RouteInit, BridgeInv
<1>2. BridgeInv /\ RouteInv /\ [RouteNext]_<<vars, routeVars>>
         => (BridgeInv /\ RouteInv)'
  BY RouteStepsBridge, BridgeInvInductive, RouteInvInductive
<1> QED BY <1>1, <1>2, PTL DEF RouteSpec

\* Every behaviour of the deposit route is one of the bridge: the relayer, the
\* deoperators and the wallets only submit the bridge's own entries
\* (deposit_v3_submitter.ts:148), so all that is proved of the bridge holds here.
THEOREM DepositRouteRunsTheBridge == RouteSpec => Spec
<1>1. RouteInit => Init
  BY DEF RouteInit
<1>2. BridgeInv /\ RouteInv /\ [RouteNext]_<<vars, routeVars>> => [Next]_vars
  BY RouteStepsBridge
<1> QED BY <1>1, <1>2, RouteInvHolds, PTL DEF RouteSpec, Spec

\* A wallet that was told 202 has a deposit it can drain, drained it, or let it
\* expire, though the journal forgets the expiry of what it resumes and a row
\* that is already there is taken for the request's own
\* (deposit_v3_submitter.ts:343).
THEOREM AcceptedMeansOpen == RouteSpec => []AcceptedDepositsAreOpen
<1>1. RouteInv => AcceptedDepositsAreOpen
  BY DEF RouteInv, AcceptedOK, AcceptedDepositsAreOpen, Opened, PendingKey
<1> QED BY <1>1, RouteInvHolds, PTL
=============================================================================
