---------------------------- MODULE WithdrawProofs ----------------------------
(***************************************************************************)
(* The safety of a withdrawal session, and of the submit route's record of *)
(* the withdrawal, for every roster, any number of requests in hand, of    *)
(* starts, crashes, lost answers and calls the relayer has in hand.        *)
(***************************************************************************)
EXTENDS WithdrawSubmit, TLAPS

----------------------------------------------------------------------------
(* Types                                                                   *)

Ats == Running \cup {"none", "ok", "err"}

AnyArg == Runs \cup [run : Runs, proof : Proofs] \cup Round2s \cup Finals \cup {Nil}

AnyBase == Runs \cup Shares \cup {Nil}

Requests == [op : Routes \cup {"none"}, slots : {{}, Slots}, arg : AnyArg,
             open : BOOLEAN]

Calls == [at : Ats, base : AnyBase, got : Runs \cup {Nil}, heard : BOOLEAN]

\* Requests and calls are functions of records, which SessionTypeOK leaves open.
Shape ==
    /\ flight \in [Flights -> Requests]
    /\ call \in [Flights -> [Slots -> Calls]]

\* A request that is open has asked every slot.
OpenAsksAll == \A p \in Flights : flight[p].open => flight[p].slots = Slots

RequestsOK ==
    /\ Shape
    /\ OpenAsksAll
    /\ \A p \in Flights :
        /\ RequestTypeOK(flight[p])
        /\ \A s \in Slots : CallTypeOK(flight[p].op, call[p][s])

\* What each route takes with it, and what each handler keeps.
LEMMA ArgsOf ==
    /\ Args("start") = Runs
    /\ Args("round2") = [run : Runs, proof : Proofs]
    /\ Args("finalize") = Round2s
    /\ Args("commit") = Finals
    /\ Args("sign") = Finals
    /\ Args("none") = {Nil}
BY DEF Args

LEMMA BasesOf ==
    /\ Bases("round2") = Runs \cup {Nil}
    /\ Bases("finalize") = Shares \cup {Nil}
    /\ \A op : Nil \in Bases(op)
    /\ \A op : Bases(op) \subseteq AnyBase
BY DEF Bases, AnyBase

LEMMA ArgsAreAny == \A op \in Routes \cup {"none"} : Args(op) \subseteq AnyArg
BY ArgsOf DEF Routes, AnyArg

LEMMA FreeOK == Free \in Requests /\ RequestTypeOK(Free) /\ ~Free.open
BY ArgsOf DEF Free, Requests, RequestTypeOK, AnyArg

LEMMA UnsentOK == Unsent \in Calls /\ \A op : CallTypeOK(op, Unsent)
BY BasesOf DEF Unsent, Calls, CallTypeOK, Ats, AnyBase

LEMMA SentOK == Sent \in Calls /\ \A op : CallTypeOK(op, Sent)
BY BasesOf DEF Sent, Calls, CallTypeOK, Ats, AnyBase, Running

LEMMA ClosedOK ==
    ASSUME NEW r \in Requests, RequestTypeOK(r)
    PROVE  /\ [r EXCEPT !.open = FALSE] \in Requests
           /\ RequestTypeOK([r EXCEPT !.open = FALSE])
           /\ [r EXCEPT !.open = FALSE].op = r.op
           /\ [r EXCEPT !.open = FALSE].arg = r.arg
           /\ ~[r EXCEPT !.open = FALSE].open
BY DEF Requests, RequestTypeOK

LEMMA UnheardOK ==
    ASSUME NEW c \in Calls, NEW op, CallTypeOK(op, c)
    PROVE  /\ [c EXCEPT !.heard = FALSE] \in Calls
           /\ CallTypeOK(op, [c EXCEPT !.heard = FALSE])
           /\ [c EXCEPT !.heard = FALSE].at = c.at
           /\ [c EXCEPT !.heard = FALSE].got = c.got
BY DEF Calls, CallTypeOK

LEMMA Pointwise ==
    ASSUME RequestsOK, NEW p \in Flights
    PROVE  /\ flight[p] \in Requests /\ RequestTypeOK(flight[p])
           /\ flight[p].open => flight[p].slots = Slots
           /\ \A s \in Slots : call[p][s] \in Calls /\ CallTypeOK(flight[p].op, call[p][s])
BY DEF RequestsOK, Shape, OpenAsksAll

LEMMA FromPoints ==
    ASSUME flight' \in [Flights -> Requests],
           call' \in [Flights -> [Slots -> Calls]],
           \A p \in Flights :
               /\ RequestTypeOK(flight'[p])
               /\ flight'[p].open => flight'[p].slots = Slots
               /\ \A s \in Slots : CallTypeOK(flight'[p].op, call'[p][s])
    PROVE  RequestsOK'
BY DEF RequestsOK, Shape, OpenAsksAll

\* The coordinator's steps keep the types of requests and calls: a request that
\* is posted, ...
LEMMA PostOK ==
    ASSUME RequestsOK, NEW p \in Flights, NEW op \in Routes, NEW arg \in Args(op),
           Post(p, op, Slots, arg)
    PROVE  RequestsOK'
<1> DEFINE r == [op |-> op, slots |-> Slots, arg |-> arg, open |-> TRUE]
<1>1. r \in Requests /\ RequestTypeOK(r) /\ r.slots = Slots
    BY ArgsAreAny DEF Requests, RequestTypeOK
<1>2. flight' = [flight EXCEPT ![p] = r]
    BY DEF Post
<1>3. call' = [call EXCEPT ![p] = [s \in Slots |-> Sent]]
    BY DEF Post
<1> HIDE DEF r
<1>4. flight' \in [Flights -> Requests] /\ call' \in [Flights -> [Slots -> Calls]]
    BY <1>1, <1>2, <1>3, SentOK DEF RequestsOK, Shape
<1>5. ASSUME NEW q \in Flights
      PROVE  /\ RequestTypeOK(flight'[q])
             /\ flight'[q].open => flight'[q].slots = Slots
             /\ \A s \in Slots : CallTypeOK(flight'[q].op, call'[q][s])
    <2>1. CASE q = p
        <3>1. flight'[q] = r /\ call'[q] = [s \in Slots |-> Sent]
            BY <2>1, <1>2, <1>3 DEF RequestsOK, Shape
        <3> QED BY <3>1, <1>1, SentOK
    <2>2. CASE q # p
        <3>1. flight'[q] = flight[q] /\ call'[q] = call[q]
            BY <2>2, <1>2, <1>3 DEF RequestsOK, Shape
        <3> QED BY <3>1, Pointwise
    <2> QED BY <2>1, <2>2
<1> QED BY <1>4, <1>5, FromPoints

\* ... one that is answered or dropped, ...
LEMMA DropOK ==
    ASSUME RequestsOK, NEW p \in Flights
    PROVE  /\ Dropped(p) \in Requests
           /\ ~Dropped(p).open
           /\ RequestTypeOK(Dropped(p))
           /\ Unheard(p) \in [Slots -> Calls]
           /\ \A s \in Slots : CallTypeOK(Dropped(p).op, Unheard(p)[s])
<1>1. CASE \E s \in Slots : call[p][s].at \in Running
    <2>1. Dropped(p) = [flight[p] EXCEPT !.open = FALSE]
        BY <1>1 DEF Dropped
    <2>2. \A s \in Slots : Unheard(p)[s] = IF call[p][s].at \in Running
                                THEN [call[p][s] EXCEPT !.heard = FALSE] ELSE Unsent
        BY DEF Unheard
    <2>3. \A s \in Slots : Unheard(p)[s] \in Calls
                           /\ CallTypeOK(flight[p].op, Unheard(p)[s])
        BY <2>2, Pointwise, UnheardOK, UnsentOK
    <2>4. Unheard(p) \in [Slots -> Calls]
        BY <2>3 DEF Unheard
    <2> QED BY <2>1, <2>3, <2>4, ClosedOK, Pointwise
<1>2. CASE ~\E s \in Slots : call[p][s].at \in Running
    <2>1. Dropped(p) = Free
        BY <1>2 DEF Dropped
    <2>2. Unheard(p) = [s \in Slots |-> Unsent]
        BY <1>2 DEF Unheard
    <2> QED BY <2>1, <2>2, FreeOK, UnsentOK
<1> QED BY <1>1, <1>2

LEMMA CloseOK ==
    ASSUME RequestsOK, NEW p \in Flights, Close(p)
    PROVE  RequestsOK'
<1>1. flight' \in [Flights -> Requests] /\ call' \in [Flights -> [Slots -> Calls]]
    BY DropOK DEF RequestsOK, Shape, Close
<1>2. ASSUME NEW q \in Flights
      PROVE  /\ RequestTypeOK(flight'[q])
             /\ flight'[q].open => flight'[q].slots = Slots
             /\ \A s \in Slots : CallTypeOK(flight'[q].op, call'[q][s])
    <2>1. CASE q = p
        <3>1. flight'[q] = Dropped(p) /\ call'[q] = Unheard(p)
            BY <2>1 DEF Close, RequestsOK, Shape
        <3> QED BY <3>1, DropOK
    <2>2. CASE q # p
        <3>1. flight'[q] = flight[q] /\ call'[q] = call[q]
            BY <2>2 DEF Close, RequestsOK, Shape
        <3> QED BY <3>1, Pointwise
    <2> QED BY <2>1, <2>2
<1> QED BY <1>1, <1>2, FromPoints

\* ... and all of them dropped when the coordinator restarts.
LEMMA RestartOK ==
    ASSUME RequestsOK, Restart
    PROVE  RequestsOK'
<1>1. \A q \in Flights : flight'[q] = Dropped(q) /\ call'[q] = Unheard(q)
    BY DEF Restart
<1>2. flight' \in [Flights -> Requests] /\ call' \in [Flights -> [Slots -> Calls]]
    BY DropOK DEF Restart
<1>3. ASSUME NEW q \in Flights
      PROVE  /\ RequestTypeOK(flight'[q])
             /\ flight'[q].open => flight'[q].slots = Slots
             /\ \A s \in Slots : CallTypeOK(flight'[q].op, call'[q][s])
    BY <1>1, DropOK
<1> QED BY <1>2, <1>3, FromPoints

\* A worker's step keeps them too.
LEMMA MovedOK ==
    ASSUME RequestsOK, NEW p \in Flights, NEW s \in Slots, NEW step \in Ats,
           NEW base \in Bases(flight[p].op), NEW got \in Runs \cup {Nil}
    PROVE  /\ Moved(p, s, step, base, got) \in Calls
           /\ CallTypeOK(flight[p].op, Moved(p, s, step, base, got))
<1>1. base \in AnyBase
    BY BasesOf
<1>2. call[p][s].heard \in BOOLEAN
    BY Pointwise DEF Calls
<1>3. CASE step \in Running \/ call[p][s].heard
    BY <1>1, <1>2, <1>3 DEF Moved, Calls, CallTypeOK, Ats
<1>4. CASE ~(step \in Running \/ call[p][s].heard)
    BY <1>4, UnsentOK DEF Moved
<1> QED BY <1>3, <1>4

LEMMA MoveOK ==
    ASSUME RequestsOK, NEW p \in Flights, NEW s \in Slots, NEW step \in Ats,
           NEW base \in Bases(flight[p].op), NEW got \in Runs \cup {Nil},
           UNCHANGED flight, Move(p, s, step, base, got)
    PROVE  RequestsOK'
<1> DEFINE m == Moved(p, s, step, base, got)
<1>1. m \in Calls /\ CallTypeOK(flight[p].op, m)
    BY MovedOK
<1>2. call' = [call EXCEPT ![p][s] = m]
    BY DEF Move
<1> HIDE DEF m
<1>3. call' \in [Flights -> [Slots -> Calls]] /\ flight' \in [Flights -> Requests]
    BY <1>1, <1>2 DEF RequestsOK, Shape
<1>4. ASSUME NEW q \in Flights, NEW t \in Slots
      PROVE  CallTypeOK(flight[q].op, call'[q][t])
    <2>1. CASE q = p /\ t = s
        BY <2>1, <1>1, <1>2 DEF RequestsOK, Shape
    <2>2. CASE ~(q = p /\ t = s)
        <3>1. call'[q][t] = call[q][t]
            BY <2>2, <1>2 DEF RequestsOK, Shape
        <3> QED BY <3>1, Pointwise
    <2> QED BY <2>1, <2>2
<1> QED BY <1>3, <1>4, FromPoints, Pointwise

LEMMA TogetherOK ==
    ASSUME RequestsOK, NEW p \in Flights, NEW q \in Flights, NEW s \in Slots, NEW op,
           UNCHANGED flight, Together(p, q, s, op)
    PROVE  RequestsOK'
<1> DEFINE got == IF op = "round2" THEN call[p][s].base ELSE Nil
           m == Moved(p, s, "ok", Nil, got)
           n == Moved(q, s, "err", Nil, Nil)
<1>1. got \in Runs \cup {Nil}
    BY Pointwise, BasesOf DEF Together, At, CallTypeOK
<1>2. m \in Calls /\ CallTypeOK(flight[p].op, m)
    BY <1>1, MovedOK, BasesOf DEF Ats
<1>3. n \in Calls /\ CallTypeOK(flight[q].op, n)
    BY MovedOK, BasesOf DEF Ats
<1>4. p # q /\ call' = [call EXCEPT ![p][s] = m, ![q][s] = n]
    BY DEF Together
<1> HIDE DEF m, n
<1>5. call' \in [Flights -> [Slots -> Calls]] /\ flight' \in [Flights -> Requests]
    BY <1>2, <1>3, <1>4 DEF RequestsOK, Shape
<1>6. ASSUME NEW r \in Flights, NEW t \in Slots
      PROVE  CallTypeOK(flight[r].op, call'[r][t])
    <2>1. CASE r = p /\ t = s
        BY <2>1, <1>2, <1>4 DEF RequestsOK, Shape
    <2>2. CASE r = q /\ t = s
        BY <2>2, <1>3, <1>4 DEF RequestsOK, Shape
    <2>3. CASE ~(r = p /\ t = s) /\ ~(r = q /\ t = s)
        <3>1. call'[r][t] = call[r][t]
            BY <2>3, <1>4 DEF RequestsOK, Shape
        <3> QED BY <3>1, Pointwise
    <2> QED BY <2>1, <2>2, <2>3
<1> QED BY <1>5, <1>6, FromPoints, Pointwise

\* What can go wrong with a call keeps them.
LEMMA DisconnectOK ==
    ASSUME RequestsOK, NEW p \in Flights, NEW s \in Slots, NEW ops, Disconnect(p, s, ops)
    PROVE  RequestsOK'
<1> DEFINE c == [call[p][s] EXCEPT !.heard = FALSE]
<1>1. c \in Calls /\ CallTypeOK(flight[p].op, c)
    BY Pointwise, UnheardOK
<1>2. call' = [call EXCEPT ![p][s] = c] /\ UNCHANGED flight
    BY DEF Disconnect, RequestsOK, Shape
<1> HIDE DEF c
<1>3. call' \in [Flights -> [Slots -> Calls]] /\ flight' \in [Flights -> Requests]
    BY <1>1, <1>2 DEF RequestsOK, Shape
<1>4. ASSUME NEW q \in Flights, NEW t \in Slots
      PROVE  CallTypeOK(flight[q].op, call'[q][t])
    <2>1. CASE q = p /\ t = s
        BY <2>1, <1>1, <1>2 DEF RequestsOK, Shape
    <2>2. CASE ~(q = p /\ t = s)
        <3>1. call'[q][t] = call[q][t]
            BY <2>2, <1>2 DEF RequestsOK, Shape
        <3> QED BY <3>1, Pointwise
    <2> QED BY <2>1, <2>2
<1> QED BY <1>2, <1>3, <1>4, FromPoints, Pointwise

LEMMA WorkerCrashOK ==
    ASSUME RequestsOK, NEW s \in Slots, WorkerCrash(s)
    PROVE  RequestsOK'
<1>1. ASSUME NEW q \in Flights
      PROVE  /\ Moved(q, s, "err", Nil, Nil) \in Calls
             /\ CallTypeOK(flight[q].op, Moved(q, s, "err", Nil, Nil))
    BY MovedOK, BasesOf DEF Ats
<1>2. \A q \in Flights :
          call'[q] = IF call[q][s].at \in Running
                     THEN [call[q] EXCEPT ![s] = Moved(q, s, "err", Nil, Nil)]
                     ELSE call[q]
    BY DEF WorkerCrash
<1>3. ASSUME NEW q \in Flights
      PROVE  /\ call'[q] \in [Slots -> Calls]
             /\ \A t \in Slots : CallTypeOK(flight[q].op, call'[q][t])
    <2> DEFINE m == Moved(q, s, "err", Nil, Nil)
    <2>1. m \in Calls /\ CallTypeOK(flight[q].op, m)
        BY <1>1
    <2>2. call'[q] = IF call[q][s].at \in Running
                     THEN [call[q] EXCEPT ![s] = m] ELSE call[q]
        BY <1>2
    <2>3. call[q] \in [Slots -> Calls]
        BY DEF RequestsOK, Shape
    <2> HIDE DEF m
    <2>4. call'[q] \in [Slots -> Calls]
        BY <2>1, <2>2, <2>3
    <2>5. \A t \in Slots : CallTypeOK(flight[q].op, call'[q][t])
        BY <2>1, <2>2, <2>3, Pointwise
    <2> QED BY <2>4, <2>5
<1>4. flight' = flight /\ call' \in [Flights -> [Slots -> Calls]]
    BY <1>3 DEF WorkerCrash
<1> QED BY <1>3, <1>4, FromPoints, Pointwise DEF RequestsOK, Shape

LEMMA AskOK ==
    ASSUME RequestsOK, NEW p \in Flights, NEW op \in Routes, NEW done, NEW arg \in Args(op),
           Ask(p, op, done, arg)
    PROVE  RequestsOK'
<1> DEFINE r == [op |-> op, slots |-> {}, arg |-> arg, open |-> FALSE]
<1>1. r \in Requests /\ RequestTypeOK(r) /\ ~r.open
    BY ArgsAreAny DEF Requests, RequestTypeOK
<1>2. flight' = [flight EXCEPT ![p] = r]
      /\ call' = [call EXCEPT ![p] = [s \in Slots |-> Unsent]]
    BY DEF Ask
<1> HIDE DEF r
<1>3. flight' \in [Flights -> Requests] /\ call' \in [Flights -> [Slots -> Calls]]
    BY <1>1, <1>2, UnsentOK DEF RequestsOK, Shape
<1>4. ASSUME NEW q \in Flights
      PROVE  /\ RequestTypeOK(flight'[q])
             /\ flight'[q].open => flight'[q].slots = Slots
             /\ \A s \in Slots : CallTypeOK(flight'[q].op, call'[q][s])
    <2>1. CASE q = p
        <3>1. flight'[q] = r /\ call'[q] = [s \in Slots |-> Unsent]
            BY <2>1, <1>2 DEF RequestsOK, Shape
        <3> QED BY <3>1, <1>1, UnsentOK
    <2>2. CASE q # p
        <3>1. flight'[q] = flight[q] /\ call'[q] = call[q]
            BY <2>2, <1>2 DEF RequestsOK, Shape
        <3> QED BY <3>1, Pointwise
    <2> QED BY <2>1, <2>2
<1> QED BY <1>3, <1>4, FromPoints

TypeInv == FilesTypeOK /\ RequestsOK

LEMMA Asks ==
    ASSUME TypeInv, NEW p \in Flights, AskAny(p)
    PROVE  TypeInv'
<1> USE DEF TypeInv, FilesTypeOK
<1>1. CASE AskStart(p)
    <2>1. starts + 1 \in Runs
        BY <1>1, WithdrawSessionConstants DEF AskStart, Runs
    <2>2. RequestsOK'
        BY <1>1, <2>1, AskOK, ArgsOf DEF AskStart, Routes
    <2> QED BY <1>1, <2>2, WithdrawSessionConstants DEF AskStart, Ask, artifacts, session
<1>2. ASSUME NEW u \in Proofs, AskRound2(p, u) PROVE TypeInv'
    <2>1. [run |-> round1, proof |-> u] \in Args("round2")
        BY <1>2, ArgsOf DEF AskRound2
    <2>2. RequestsOK'
        BY <1>2, <2>1, AskOK DEF AskRound2, Routes
    <2> QED BY <1>2, <2>2 DEF AskRound2, Ask, artifacts, session
<1>3. CASE AskFinalize(p)
    <2>1. round2 \in Args("finalize")
        BY <1>3, ArgsOf DEF AskFinalize
    <2>2. RequestsOK'
        BY <1>3, <2>1, AskOK DEF AskFinalize, Routes
    <2> QED BY <1>3, <2>2 DEF AskFinalize, Ask, artifacts, session
<1>4. CASE AskAttest(p)
    <2>1. final \in Args("commit")
        BY <1>4, ArgsOf DEF AskAttest
    <2>2. RequestsOK'
        BY <1>4, <2>1, AskOK DEF AskAttest, Routes
    <2> QED BY <1>4, <2>2 DEF AskAttest, Ask, artifacts, session
<1> QED BY <1>1, <1>2, <1>3, <1>4 DEF AskAny

\* An answered request asked every slot, and each answered.
LEMMA AllAnsweredWell ==
    ASSUME RequestsOK, NEW p \in Flights, NEW op, Returned(p, op), AllAccepted(p)
    PROVE  \A s \in Slots : call[p][s].at = "ok"
BY Pointwise DEF Returned, AllAccepted, Accepted

----------------------------------------------------------------------------
(* Custody: what a call in hand, an artifact and a released answer rest on *)

CallInv(p, s) ==
    /\ flight[p].op = "round2" /\ call[p][s].at = "read" => call[p][s].base \in Runs
    /\ flight[p].op = "round2" /\ call[p][s].at = "ok" => call[p][s].got \in Runs
    /\ flight[p].op = "finalize" /\ call[p][s].at \in {"read", "pinned"} =>
           call[p][s].base \in Shares
    /\ flight[p].op = "finalize" /\ call[p][s].at = "pinned" =>
           pin[s] = flight[p].arg
    /\ flight[p].op = "finalize" /\ call[p][s].at = "ok" =>
           /\ pin[s] = flight[p].arg
           /\ call[p][s].got \in Runs
           /\ [alpha |-> call[p][s].got, commitments |-> flight[p].arg.commitments]
                  \in released[s]

\* frost-attest carries an artifact that finalize has written.
ArgInv(p) == flight[p].op \in {"commit", "sign"} => Backed(flight[p].arg)

ReleasedUnderPin ==
    \A s \in Slots : \A a \in released[s] :
        pin[s] # Nil /\ a.commitments = pin[s].commitments

Custody ==
    /\ \A p \in Flights, s \in Slots : CallInv(p, s)
    /\ \A p \in Flights : ArgInv(p)
    /\ FinalIsBacked
    /\ ReleasedUnderPin

SessionInv == TypeInv /\ Custody

\* A step leaves a call as it is, or where it binds nothing.
Same(p, s) ==
    /\ flight'[p].op = flight[p].op /\ flight'[p].arg = flight[p].arg
    /\ call'[p][s].at = call[p][s].at
    /\ call'[p][s].base = call[p][s].base
    /\ call'[p][s].got = call[p][s].got

Inert(p, s) == call'[p][s].at \notin {"read", "pinned", "ok"}

CarriesCalls == \A p \in Flights, s \in Slots : Same(p, s) \/ Inert(p, s)

CarriesArgs ==
    \A p \in Flights : flight'[p].op \in {"commit", "sign"} =>
        /\ flight[p].op \in {"commit", "sign"}
        /\ flight'[p].arg = flight[p].arg

LEMMA PostCarries ==
    ASSUME RequestsOK, NEW p \in Flights, NEW op, NEW arg, Post(p, op, Slots, arg)
    PROVE  /\ CarriesCalls
           /\ (op \in {"commit", "sign"} =>
                  flight[p].op \in {"commit", "sign"} /\ arg = flight[p].arg)
                  => CarriesArgs
<1>1. \A q \in Flights \ {p} : flight'[q] = flight[q] /\ call'[q] = call[q]
    BY DEF Post, RequestsOK, Shape
<1>2. flight'[p].op = op /\ flight'[p].arg = arg
      /\ \A s \in Slots : call'[p][s].at = "sent"
    BY DEF Post, RequestsOK, Shape, Sent
<1> QED BY <1>1, <1>2 DEF CarriesCalls, CarriesArgs, Same, Inert

LEMMA AskCarries ==
    ASSUME RequestsOK, NEW p \in Flights, NEW op, NEW done, NEW arg, Ask(p, op, done, arg)
    PROVE  /\ CarriesCalls
           /\ op \notin {"commit", "sign"} => CarriesArgs
           /\ \A q \in Flights \ {p} : flight'[q] = flight[q]
           /\ flight'[p].arg = arg
<1>1. \A q \in Flights \ {p} : flight'[q] = flight[q] /\ call'[q] = call[q]
    BY DEF Ask, RequestsOK, Shape
<1>2. flight'[p].op = op /\ flight'[p].arg = arg
      /\ \A s \in Slots : call'[p][s].at = "none"
    BY DEF Ask, RequestsOK, Shape, Unsent
<1> QED BY <1>1, <1>2 DEF CarriesCalls, CarriesArgs, Same, Inert

LEMMA DropCarries ==
    ASSUME RequestsOK, NEW p \in Flights, flight'[p] = Dropped(p), call'[p] = Unheard(p)
    PROVE  /\ \A s \in Slots : Same(p, s) \/ Inert(p, s)
           /\ flight'[p].op \in {"commit", "sign"} =>
                flight[p].op = flight'[p].op /\ flight'[p].arg = flight[p].arg
<1>1. CASE \E s \in Slots : call[p][s].at \in Running
    <2>1. flight'[p].op = flight[p].op /\ flight'[p].arg = flight[p].arg
        BY <1>1, ClosedOK, Pointwise DEF Dropped
    <2>2. ASSUME NEW s \in Slots PROVE Same(p, s) \/ Inert(p, s)
        <3>1. call'[p][s] = IF call[p][s].at \in Running
                            THEN [call[p][s] EXCEPT !.heard = FALSE] ELSE Unsent
            BY DEF Unheard
        <3> QED BY <2>1, <3>1, Pointwise DEF Same, Inert, Unsent, Calls
    <2> QED BY <2>1, <2>2
<1>2. CASE ~\E s \in Slots : call[p][s].at \in Running
    BY <1>2 DEF Dropped, Unheard, Free, Unsent, Inert
<1> QED BY <1>1, <1>2

LEMMA CloseCarries ==
    ASSUME RequestsOK, NEW p \in Flights, Close(p)
    PROVE  CarriesCalls /\ CarriesArgs
<1>1. \A q \in Flights \ {p} : flight'[q] = flight[q] /\ call'[q] = call[q]
    BY DEF Close, RequestsOK, Shape
<1>2. flight'[p] = Dropped(p) /\ call'[p] = Unheard(p)
    BY DEF Close, RequestsOK, Shape
<1> QED BY <1>1, <1>2, DropCarries DEF CarriesCalls, CarriesArgs, Same

LEMMA RestartCarries ==
    ASSUME RequestsOK, Restart
    PROVE  CarriesCalls /\ CarriesArgs
<1>1. \A q \in Flights : flight'[q] = Dropped(q) /\ call'[q] = Unheard(q)
    BY DEF Restart
<1> QED BY <1>1, DropCarries DEF CarriesCalls, CarriesArgs

\* A move of worker s touches its own call only.
LEMMA MoveCarries ==
    ASSUME RequestsOK, NEW p \in Flights, NEW s \in Slots, NEW step, NEW base, NEW got,
           UNCHANGED flight, Move(p, s, step, base, got)
    PROVE  /\ CarriesArgs
           /\ \A q \in Flights, t \in Slots : (q # p \/ t # s) => Same(q, t)
           /\ \/ Inert(p, s)
              \/ /\ call'[p][s].at = step
                 /\ call'[p][s].base = base /\ call'[p][s].got = got
<1>1. \A q \in Flights, t \in Slots : (q # p \/ t # s) => call'[q][t] = call[q][t]
    BY DEF Move, RequestsOK, Shape
<1>2. call'[p][s] = Moved(p, s, step, base, got)
    BY DEF Move, RequestsOK, Shape
<1>3. CASE step \in Running \/ call[p][s].heard
    BY <1>1, <1>2, <1>3 DEF Moved, CarriesArgs, Same
<1>4. CASE ~(step \in Running \/ call[p][s].heard)
    BY <1>1, <1>2, <1>4 DEF Moved, CarriesArgs, Same, Inert, Unsent
<1> QED BY <1>3, <1>4

LEMMA CrashCarries ==
    ASSUME RequestsOK, NEW s \in Slots, WorkerCrash(s)
    PROVE  CarriesCalls /\ CarriesArgs
<1>1. ASSUME NEW q \in Flights, NEW t \in Slots
      PROVE  call'[q][t] = call[q][t] \/ Inert(q, t)
    <2>1. call'[q] = IF call[q][s].at \in Running
                     THEN [call[q] EXCEPT ![s] = Moved(q, s, "err", Nil, Nil)]
                     ELSE call[q]
        BY DEF WorkerCrash
    <2>2. Moved(q, s, "err", Nil, Nil).at \in {"err", "none"}
        BY DEF Moved, Unsent, Running
    <2> QED BY <2>1, <2>2, Pointwise DEF Inert, RequestsOK, Shape
<1> QED BY <1>1 DEF WorkerCrash, CarriesCalls, CarriesArgs, Same

LEMMA DisconnectCarries ==
    ASSUME RequestsOK, NEW p \in Flights, NEW s \in Slots, NEW ops, Disconnect(p, s, ops)
    PROVE  CarriesCalls /\ CarriesArgs
<1>1. ASSUME NEW q \in Flights, NEW t \in Slots
      PROVE  /\ call'[q][t].at = call[q][t].at
             /\ call'[q][t].base = call[q][t].base
             /\ call'[q][t].got = call[q][t].got
    BY DEF Disconnect, RequestsOK, Shape, Calls
<1> QED BY <1>1 DEF Disconnect, CarriesCalls, CarriesArgs, Same

LEMMA TogetherCarries ==
    ASSUME RequestsOK, NEW p \in Flights, NEW q \in Flights, NEW s \in Slots,
           NEW op \in {"start", "round2"}, UNCHANGED flight, Together(p, q, s, op),
           Custody
    PROVE  /\ CarriesArgs
           /\ \A r \in Flights, t \in Slots :
                \/ Same(r, t) \/ Inert(r, t)
                \/ /\ flight'[r].op = op
                   /\ op = "round2" => call'[r][t].at = "ok" /\ call'[r][t].got \in Runs
<1> DEFINE got == IF op = "round2" THEN call[p][s].base ELSE Nil
           m == Moved(p, s, "ok", Nil, got)
           n == Moved(q, s, "err", Nil, Nil)
<1>1. op = "round2" => got \in Runs
    BY DEF Together, At, Custody, CallInv
<1>2. m.at \in {"ok", "none"} /\ (m.at = "ok" => m.got = got)
    BY DEF Moved, Unsent, Running
<1>3. n.at \in {"err", "none"}
    BY DEF Moved, Unsent, Running
<1>4. p # q /\ call' = [call EXCEPT ![p][s] = m, ![q][s] = n]
    BY DEF Together
<1> HIDE DEF m, n, got
<1>5. call'[p][s] = m /\ call'[q][s] = n
    BY <1>4 DEF RequestsOK, Shape
<1>6. \A r \in Flights, t \in Slots :
        ~(r = p /\ t = s) /\ ~(r = q /\ t = s) => call'[r][t] = call[r][t]
    BY <1>4 DEF RequestsOK, Shape
<1>7. CarriesArgs
    BY DEF CarriesArgs
<1>8. ASSUME NEW r \in Flights, NEW t \in Slots
      PROVE  \/ Same(r, t) \/ Inert(r, t)
             \/ /\ flight'[r].op = op
                /\ op = "round2" => call'[r][t].at = "ok" /\ call'[r][t].got \in Runs
    <2>1. CASE r = p /\ t = s
        BY <2>1, <1>1, <1>2, <1>5 DEF Inert, Together, At
    <2>2. CASE r = q /\ t = s
        BY <2>2, <1>3, <1>5 DEF Inert
    <2>3. CASE ~(r = p /\ t = s) /\ ~(r = q /\ t = s)
        BY <2>3, <1>6 DEF Same
    <2> QED BY <2>1, <2>2, <2>3
<1> QED BY <1>7, <1>8

\* Pins stay and released answers accumulate.
Grows ==
    \A s \in Slots :
        /\ pin[s] # Nil => pin'[s] = pin[s]
        /\ released[s] \subseteq released'[s]

LEMMA BackedStays ==
    ASSUME Grows, NEW f, Backed(f)
    PROVE  Backed(f)'
BY DEF Grows, Backed

LEMMA CallKept ==
    ASSUME RequestsOK, Grows, NEW p \in Flights, NEW s \in Slots, CallInv(p, s),
           Same(p, s) \/ Inert(p, s)
    PROVE  CallInv(p, s)'
<1>1. CASE Inert(p, s)
    BY <1>1 DEF Inert, CallInv
<1>2. CASE Same(p, s)
    <2>1. flight[p].op = "finalize" => flight[p].arg # Nil
        BY Pointwise, ArgsOf, NilIsApart DEF RequestTypeOK
    <2> QED BY <1>2, <2>1 DEF Same, Grows, CallInv
<1> QED BY <1>1, <1>2

\* Steps that leave pins, answers and the artifact of finalize alone.
LEMMA Carried ==
    ASSUME SessionInv, CarriesCalls, CarriesArgs, UNCHANGED <<pin, released, final>>
    PROVE  Custody'
<1>1. Grows
    BY DEF Grows
<1>2. \A p \in Flights, s \in Slots : CallInv(p, s)'
    BY <1>1, CallKept DEF SessionInv, TypeInv, Custody, CarriesCalls
<1>3. \A p \in Flights : ArgInv(p)'
    BY <1>1, BackedStays DEF SessionInv, Custody, ArgInv, CarriesArgs
<1>4. FinalIsBacked'
    BY <1>1, BackedStays DEF SessionInv, Custody, FinalIsBacked
<1>5. ReleasedUnderPin'
    BY DEF SessionInv, Custody, ReleasedUnderPin
<1> QED BY <1>2, <1>3, <1>4, <1>5 DEF Custody

LEMMA AskStep ==
    ASSUME SessionInv, NEW p \in Flights, AskAny(p)
    PROVE  SessionInv'
<1> USE DEF SessionInv, TypeInv
<1>1. TypeInv'
    BY Asks
<1>2. UNCHANGED <<pin, released, final>>
    BY DEF AskAny, AskStart, AskRound2, AskFinalize, AskAttest, Ask, artifacts, session
<1>3. CASE AskAttest(p)
    <2>1. CarriesCalls /\ flight'[p].arg = final
          /\ \A q \in Flights \ {p} : flight'[q] = flight[q]
        BY <1>3, AskCarries DEF AskAttest
    <2>2. Grows
        BY <1>2 DEF Grows
    <2>3. \A q \in Flights, s \in Slots : CallInv(q, s)'
        BY <2>1, <2>2, CallKept DEF Custody, CarriesCalls
    <2>4. \A q \in Flights \ {p} : ArgInv(q)'
        BY <2>1, <2>2, BackedStays DEF Custody, ArgInv
    <2>5. Backed(final)'
        BY <1>2, <1>3, <2>2, BackedStays DEF Custody, FinalIsBacked, AskAttest
    <2>6. ArgInv(p)'
        <3>1. Backed(final)' => (\A s \in Slots :
                /\ pin'[s] # Nil /\ pin'[s].commitments = final.commitments
                /\ [alpha |-> final.answer[s], commitments |-> final.commitments]
                        \in released'[s])
            BY <1>2 DEF Backed
        <3> QED BY <2>1, <2>5, <3>1 DEF ArgInv, Backed
    <2>7. FinalIsBacked' /\ ReleasedUnderPin'
        BY <1>2, <2>5 DEF Custody, FinalIsBacked, ReleasedUnderPin
    <2> QED BY <1>1, <2>3, <2>4, <2>6, <2>7 DEF Custody
<1>4. CASE ~AskAttest(p)
    <2>1. CarriesCalls /\ CarriesArgs
        <3>1. CASE AskStart(p)
            BY <3>1, AskCarries DEF AskStart
        <3>2. ASSUME NEW u \in Proofs, AskRound2(p, u) PROVE CarriesCalls /\ CarriesArgs
            BY <3>2, AskCarries DEF AskRound2
        <3>3. CASE AskFinalize(p)
            BY <3>3, AskCarries DEF AskFinalize
        <3> QED BY <1>4, <3>1, <3>2, <3>3 DEF AskAny
    <2> QED BY <1>1, <1>2, <2>1, Carried
<1> QED BY <1>3, <1>4

LEMMA LockStep ==
    ASSUME SessionInv, NEW p \in Flights, TakeLock(p)
    PROVE  SessionInv'
<1> USE DEF SessionInv, TypeInv, FilesTypeOK
<1>1. UNCHANGED <<starts, artifacts, session, nonces, moved, faults>>
    BY DEF TakeLock
<1>2. CASE Locked(Routes)
    <2>1. Close(p)
        BY <1>2 DEF TakeLock, Fail
    <2> QED BY <1>1, <2>1, CloseOK, CloseCarries, Carried DEF artifacts, session
<1>3. CASE ~Locked(Routes)
    <2>1. Post(p, flight[p].op, Slots, flight[p].arg) /\ flight[p].op \in Routes
        BY <1>3 DEF TakeLock, Asking
    <2>2. flight[p].arg \in Args(flight[p].op)
        BY Pointwise DEF RequestTypeOK
    <2>3. RequestsOK'
        BY <2>1, <2>2, PostOK
    <2>4. CarriesCalls /\ CarriesArgs
        BY <2>1, PostCarries
    <2> QED BY <1>1, <2>3, <2>4, Carried DEF artifacts, session
<1> QED BY <1>2, <1>3

LEMMA StartStep ==
    ASSUME SessionInv, NEW p \in Flights, StartAnswered(p)
    PROVE  SessionInv'
<1> USE DEF SessionInv, TypeInv, FilesTypeOK
<1>1. flight[p].arg \in Runs
    BY Pointwise, ArgsOf DEF StartAnswered, Returned, RequestTypeOK
<1>2. round1' \in Runs \cup {Nil}
    BY <1>1 DEF StartAnswered
<1>3. RequestsOK' /\ CarriesCalls /\ CarriesArgs
    BY CloseOK, CloseCarries DEF StartAnswered
<1> QED BY <1>2, <1>3, Carried DEF StartAnswered, session

LEMMA Round2Step ==
    ASSUME SessionInv, NEW p \in Flights, Round2Answered(p)
    PROVE  SessionInv'
<1> USE DEF SessionInv, TypeInv, FilesTypeOK
<1>1. flight[p].arg \in [run : Runs, proof : Proofs] /\ flight[p].op = "round2"
    BY Pointwise, ArgsOf DEF Round2Answered, Returned, RequestTypeOK
<1>2. round2' \in Round2s \cup {Nil}
    <2>1. CASE AllAccepted(p)
        <3>1. \A s \in Slots : call[p][s].got \in Runs
            BY <1>1, <2>1, AllAnsweredWell DEF Round2Answered, Custody, CallInv
        <3>2. Aggregate(p) \in Commitments
            BY <1>1, <3>1 DEF Aggregate, Commitments
        <3> QED BY <1>1, <2>1, <3>2 DEF Round2Answered, Round2s
    <2>2. CASE ~AllAccepted(p)
        BY <2>2 DEF Round2Answered
    <2> QED BY <2>1, <2>2
<1>3. RequestsOK' /\ CarriesCalls /\ CarriesArgs
    BY CloseOK, CloseCarries DEF Round2Answered
<1> QED BY <1>2, <1>3, Carried DEF Round2Answered, session

\* All workers were heard, so the artifact has an alpha of each.
LEMMA FinalWritten ==
    ASSUME SessionInv, NEW p \in Flights, FinalizeAnswered(p), AllAccepted(p)
    PROVE  final' \in Finals /\ Backed(final')
<1> DEFINE f == [commitments |-> flight[p].arg.commitments,
                 answer |-> [s \in Slots |-> call[p][s].got],
                 attested |-> Nil]
<1>1. flight[p].arg \in Round2s /\ flight[p].op = "finalize"
    BY Pointwise, ArgsOf DEF SessionInv, TypeInv, FinalizeAnswered, Returned, RequestTypeOK
<1>2. final' = f
    BY DEF FinalizeAnswered, EnoughAnswers
<1>3. ASSUME NEW s \in Slots
      PROVE  /\ pin[s] = flight[p].arg
             /\ call[p][s].got \in Runs
             /\ [alpha |-> call[p][s].got,
                 commitments |-> flight[p].arg.commitments] \in released[s]
    <2>1. call[p][s].at = "ok"
        BY AllAnsweredWell DEF FinalizeAnswered, SessionInv, TypeInv
    <2> QED BY <1>1, <2>1 DEF SessionInv, Custody, CallInv
<1>4. f \in Finals
    BY <1>1, <1>3 DEF Finals, Round2s
<1>5. Backed(f)
    BY <1>1, <1>3, NilIsApart DEF Backed
<1> QED BY <1>2, <1>4, <1>5

\* The artifact is backed: every worker's answer was heard, and names its alpha.
LEMMA FinalizeStep ==
    ASSUME SessionInv, NEW p \in Flights, FinalizeAnswered(p)
    PROVE  SessionInv'
<1> USE DEF SessionInv, TypeInv, FilesTypeOK
<1>1. flight[p].arg \in Round2s /\ flight[p].op = "finalize"
    BY Pointwise, ArgsOf DEF FinalizeAnswered, Returned, RequestTypeOK
<1>2. RequestsOK' /\ CarriesCalls /\ CarriesArgs
    BY CloseOK, CloseCarries DEF FinalizeAnswered
<1>3. CASE ~AllAccepted(p)
    BY <1>2, <1>3, Carried DEF FinalizeAnswered, EnoughAnswers, session
<1>4. CASE AllAccepted(p)
    <2> DEFINE f == final'
    <2>1. final' = f
        OBVIOUS
    <2>2. f \in Finals /\ Backed(f)
        BY <1>4, FinalWritten
    <2> HIDE DEF f
    <2>5. Grows
        BY DEF FinalizeAnswered, session, Grows
    <2>6. FinalIsBacked'
        BY <2>1, <2>2, <2>5, BackedStays DEF FinalIsBacked, Backed
    <2>7. \A q \in Flights, s \in Slots : CallInv(q, s)'
        BY <1>2, <2>5, CallKept DEF Custody, CarriesCalls
    <2>8. \A q \in Flights : ArgInv(q)'
        BY <1>2, <2>5, BackedStays DEF Custody, ArgInv, CarriesArgs
    <2>9. ReleasedUnderPin'
        BY DEF FinalizeAnswered, session, Custody, ReleasedUnderPin
    <2>10. FilesTypeOK'
        BY <2>1, <2>2 DEF FinalizeAnswered, session
    <2> QED BY <1>2, <2>6, <2>7, <2>8, <2>9, <2>10 DEF Custody
<1> QED BY <1>3, <1>4

LEMMA CommitStep ==
    ASSUME SessionInv, NEW p \in Flights, CommitAnswered(p)
    PROVE  SessionInv'
<1> USE DEF SessionInv, TypeInv, FilesTypeOK
<1>1. CASE AllAccepted(p)
    <2>1. Post(p, "sign", Slots, flight[p].arg) /\ flight[p].op = "commit"
        BY <1>1 DEF CommitAnswered, Returned
    <2>2. flight[p].arg \in Args("sign")
        BY <2>1, Pointwise, ArgsOf DEF RequestTypeOK
    <2>3. RequestsOK'
        BY <2>1, <2>2, PostOK DEF Routes
    <2>4. CarriesCalls /\ CarriesArgs
        BY <2>1, PostCarries
    <2> QED BY <2>3, <2>4, Carried DEF CommitAnswered, artifacts, session
<1>2. CASE ~AllAccepted(p)
    <2>1. Close(p)
        BY <1>2 DEF CommitAnswered, Fail
    <2> QED BY <2>1, CloseOK, CloseCarries, Carried DEF CommitAnswered, artifacts, session
<1> QED BY <1>1, <1>2

\* What frost-attest writes is the artifact it has read, with the signature.
LEMMA FinalAttested ==
    ASSUME SessionInv, NEW p \in Flights, SignAnswered(p), AllAccepted(p)
    PROVE  final' \in Finals /\ Backed(final')
<1>1. flight[p].arg \in Finals /\ flight[p].op = "sign"
    BY Pointwise, ArgsOf DEF SessionInv, TypeInv, SignAnswered, Returned, RequestTypeOK
<1>2. PICK signature \in Signatures :
          final' = [flight[p].arg EXCEPT !.attested = signature]
    BY DEF SignAnswered
<1>3. final' \in Finals /\ final'.commitments = flight[p].arg.commitments
      /\ final'.answer = flight[p].arg.answer
    BY <1>1, <1>2 DEF Finals
<1>4. Backed(flight[p].arg)
    BY <1>1 DEF SessionInv, Custody, ArgInv
<1> QED BY <1>3, <1>4 DEF Backed

\* The attested artifact is the backed one that was read before the lock.
LEMMA SignStep ==
    ASSUME SessionInv, NEW p \in Flights, SignAnswered(p)
    PROVE  SessionInv'
<1> USE DEF SessionInv, TypeInv, FilesTypeOK
<1>1. flight[p].arg \in Finals /\ flight[p].op = "sign"
    BY Pointwise, ArgsOf DEF SignAnswered, Returned, RequestTypeOK
<1>2. RequestsOK' /\ CarriesCalls /\ CarriesArgs
    BY CloseOK, CloseCarries DEF SignAnswered
<1>3. CASE ~AllAccepted(p)
    BY <1>2, <1>3, Carried DEF SignAnswered, session
<1>4. CASE AllAccepted(p)
    <2> DEFINE f == final'
    <2>1. final' = f
        OBVIOUS
    <2>2. f \in Finals /\ Backed(f)
        BY <1>4, FinalAttested
    <2> HIDE DEF f
    <2>6. Grows
        BY DEF SignAnswered, session, Grows
    <2>7. FinalIsBacked'
        BY <2>1, <2>2, <2>6, BackedStays DEF FinalIsBacked, Backed
    <2>8. \A q \in Flights, s \in Slots : CallInv(q, s)'
        BY <1>2, <2>6, CallKept DEF Custody, CarriesCalls
    <2>9. \A q \in Flights : ArgInv(q)'
        BY <1>2, <2>6, BackedStays DEF Custody, ArgInv, CarriesArgs
    <2>10. ReleasedUnderPin'
        BY DEF SignAnswered, session, Custody, ReleasedUnderPin
    <2>11. FilesTypeOK'
        BY <2>1, <2>2 DEF SignAnswered, session
    <2> QED BY <1>2, <2>7, <2>8, <2>9, <2>10, <2>11 DEF Custody
<1> QED BY <1>3, <1>4

----------------------------------------------------------------------------
(* The workers                                                             *)

\* A worker moves its call on, and the call binds what the move gives it.
LEMMA WorkerMoves ==
    ASSUME SessionInv, NEW p \in Flights, NEW s \in Slots, NEW step \in Ats,
           NEW base \in Bases(flight[p].op), NEW got \in Runs \cup {Nil},
           UNCHANGED <<flight, final>>, Move(p, s, step, base, got),
           Grows, ReleasedUnderPin',
           Inert(p, s) \/ CallInv(p, s)'
    PROVE  RequestsOK' /\ Custody'
<1> USE DEF SessionInv, TypeInv
<1>1. RequestsOK'
    BY MoveOK
<1>2. CarriesArgs /\ \A q \in Flights, t \in Slots : (q # p \/ t # s) => Same(q, t)
    BY MoveCarries
<1>3. \A q \in Flights, t \in Slots : CallInv(q, t)'
    BY <1>2, CallKept DEF Custody
<1>4. \A q \in Flights : ArgInv(q)'
    BY <1>2, BackedStays DEF Custody, ArgInv, CarriesArgs
<1>5. FinalIsBacked'
    BY BackedStays DEF Custody, FinalIsBacked, Backed
<1> QED BY <1>1, <1>3, <1>4, <1>5 DEF Custody

\* Steps that change neither pins nor answers.
LEMMA QuietMove ==
    ASSUME SessionInv, NEW p \in Flights, NEW s \in Slots, NEW step \in Ats,
           NEW base \in Bases(flight[p].op), NEW got \in Runs \cup {Nil},
           UNCHANGED <<flight, final, pin, released>>, Move(p, s, step, base, got),
           \/ step \in {"sent", "fetched", "none", "err"}
           \/ flight[p].op \notin {"round2", "finalize"}
           \/ flight[p].op = "round2" /\ step = "read" /\ base \in Runs
           \/ flight[p].op = "round2" /\ step = "ok" /\ got \in Runs
           \/ flight[p].op = "finalize" /\ step = "read" /\ base \in Shares
    PROVE  RequestsOK' /\ Custody'
<1>1. \/ Inert(p, s)
      \/ call'[p][s].at = step /\ call'[p][s].base = base /\ call'[p][s].got = got
    BY MoveCarries DEF SessionInv, TypeInv
<1>2. Inert(p, s) \/ CallInv(p, s)'
    BY <1>1 DEF Inert, CallInv
<1>3. Grows /\ ReleasedUnderPin'
    BY DEF Grows, SessionInv, Custody, ReleasedUnderPin
<1> QED BY <1>2, <1>3, WorkerMoves

LEMMA Rejects ==
    ASSUME SessionInv, NEW p \in Flights, NEW s \in Slots, Reject(p, s),
           UNCHANGED <<flight, final, pin, released>>
    PROVE  RequestsOK' /\ Custody'
BY QuietMove, BasesOf DEF Reject, Ats

LEMMA RoundStep ==
    ASSUME SessionInv, NEW p \in Flights, NEW s \in Slots,
           \/ Round1Read(p, s) \/ Round1Write(p, s)
           \/ Round2Read(p, s) \/ Round2Write(p, s)
           \/ NonceCommit(p, s) \/ PartialSign(p, s)
    PROVE  SessionInv'
<1> USE DEF SessionInv, TypeInv, FilesTypeOK, At, artifacts, session
<1>1. CASE Round1Read(p, s)
    <2>1. RequestsOK' /\ Custody'
        BY <1>1, QuietMove, Rejects, BasesOf DEF Round1Read, Keep, Ats, Running
    <2> QED BY <1>1, <2>1 DEF Round1Read
<1>2. CASE Round1Write(p, s)
    <2>1. RequestsOK' /\ Custody'
        BY <1>2, QuietMove, BasesOf DEF Round1Write, Reply, Ats
    <2>2. flight[p].arg \in Runs
        BY <1>2, Pointwise, ArgsOf DEF Round1Write, RequestTypeOK
    <2> QED BY <1>2, <2>1, <2>2 DEF Round1Write
<1>3. CASE Round2Read(p, s)
    <2>1. RequestsOK' /\ Custody'
        <3>1. CASE Current(s) /\ ingress[s] # Nil
            <4>1. ingress[s] \in Runs /\ ingress[s] \in Bases(flight[p].op)
                BY <1>3, <3>1, BasesOf DEF Round2Read
            <4> QED BY <1>3, <3>1, <4>1, QuietMove DEF Round2Read, Keep, Ats, Running
        <3>2. CASE ~(Current(s) /\ ingress[s] # Nil)
            BY <1>3, <3>2, Rejects DEF Round2Read
        <3> QED BY <3>1, <3>2
    <2> QED BY <1>3, <2>1 DEF Round2Read
<1>4. CASE Round2Write(p, s)
    <2> DEFINE alpha == call[p][s].base
    <2>1. alpha \in Runs
        BY <1>4 DEF Round2Write, Custody, CallInv
    <2>2. flight[p].arg \in [run : Runs, proof : Proofs]
        BY <1>4, Pointwise, ArgsOf DEF Round2Write, RequestTypeOK
    <2>3. Reply(p, s, alpha)
          /\ share' = [share EXCEPT ![s] = [run |-> flight[p].arg.run, alpha |-> alpha]]
        BY <1>4 DEF Round2Write
    <2>4. RequestsOK' /\ Custody'
        BY <1>4, <2>1, <2>3, QuietMove, BasesOf DEF Round2Write, Reply, Ats
    <2> HIDE DEF alpha
    <2>5. share' \in [Slots -> Shares \cup {Nil}]
        BY <2>1, <2>2, <2>3 DEF Shares
    <2> QED BY <1>4, <2>4, <2>5 DEF Round2Write
<1>5. CASE NonceCommit(p, s)
    <2>1. RequestsOK' /\ Custody'
        BY <1>5, QuietMove, BasesOf DEF NonceCommit, Reply, Ats
    <2> QED BY <1>5, <2>1 DEF NonceCommit
<1>6. CASE PartialSign(p, s)
    <2>1. RequestsOK' /\ Custody'
        BY <1>6, QuietMove, Rejects, BasesOf DEF PartialSign, Reply, Ats
    <2> QED BY <1>6, <2>1 DEF PartialSign
<1> QED BY <1>1, <1>2, <1>3, <1>4, <1>5, <1>6

\* Where a challenge is answered: the pin is in place before the secret is
\* loaded, and only the pinned challenge is answered.
LEMMA FinalizeWorkerStep ==
    ASSUME SessionInv, NEW p \in Flights, NEW s \in Slots,
           FinalizeRead(p, s) \/ FinalizePin(p, s) \/ FinalizeAnswer(p, s)
    PROVE  SessionInv'
<1> USE DEF SessionInv, TypeInv, FilesTypeOK, At, artifacts, session
<1>1. flight[p].op = "finalize" /\ flight[p].arg \in Round2s /\ flight[p].arg # Nil
    BY Pointwise, ArgsOf, NilIsApart DEF FinalizeRead, FinalizePin, FinalizeAnswer,
        RequestTypeOK
<1>2. CASE FinalizeRead(p, s)
    <2>1. RequestsOK' /\ Custody'
        <3>1. CASE Current(s) /\ share[s] # Nil /\ share[s].run = flight[p].arg.run
            <4>1. share[s] \in Shares /\ share[s] \in Bases(flight[p].op)
                BY <1>1, <3>1, BasesOf
            <4> QED BY <1>1, <1>2, <3>1, <4>1, QuietMove DEF FinalizeRead, Keep, Ats, Running
        <3>2. CASE ~(Current(s) /\ share[s] # Nil /\ share[s].run = flight[p].arg.run)
            BY <1>2, <3>2, Rejects DEF FinalizeRead
        <3> QED BY <3>1, <3>2
    <2> QED BY <1>2, <2>1 DEF FinalizeRead
<1>3. CASE FinalizePin(p, s)
    <2>1. CASE PinAllows(p, s)
        <3> DEFINE base == call[p][s].base
        <3>1. base \in Shares /\ base \in Bases(flight[p].op)
            BY <1>1, <1>3, BasesOf DEF FinalizePin, Custody, CallInv
        <3>2. pin' = [pin EXCEPT ![s] = flight[p].arg] /\ Move(p, s, "pinned", base, Nil)
            BY <1>3, <2>1 DEF FinalizePin
        <3> HIDE DEF base
        <3>3. pin[s] \in {Nil, flight[p].arg}
            BY <2>1 DEF PinAllows
        <3>4. pin'[s] = flight[p].arg /\ \A t \in Slots \ {s} : pin'[t] = pin[t]
            BY <3>2
        <3>5. Grows
            BY <1>3, <3>3, <3>4 DEF FinalizePin, Grows
        <3>6. ReleasedUnderPin'
            <4> SUFFICES ASSUME NEW t \in Slots, NEW a \in released[t]
                         PROVE  pin'[t] # Nil /\ a.commitments = pin'[t].commitments
                BY <1>3 DEF FinalizePin, ReleasedUnderPin
            <4> QED BY <3>5 DEF Grows, Custody, ReleasedUnderPin
        <3>7. \/ Inert(p, s)
              \/ call'[p][s].at = "pinned" /\ call'[p][s].base = base
            BY <1>3, <3>2, MoveCarries DEF FinalizePin
        <3>8. Inert(p, s) \/ CallInv(p, s)'
            BY <1>1, <1>3, <3>1, <3>4, <3>7 DEF FinalizePin, CallInv
        <3>9. RequestsOK' /\ Custody'
            BY <1>3, <3>1, <3>2, <3>5, <3>6, <3>8, WorkerMoves DEF FinalizePin, Ats, Running
        <3>10. pin' \in [Slots -> Pins \cup {Nil}]
            BY <1>1, <3>2 DEF Pins, Round2s
        <3> QED BY <1>3, <3>9, <3>10 DEF FinalizePin
    <2>2. CASE ~PinAllows(p, s)
        <3>1. RequestsOK' /\ Custody'
            BY <1>3, <2>2, Rejects DEF FinalizePin
        <3> QED BY <1>3, <2>2, <3>1 DEF FinalizePin
    <2> QED BY <2>1, <2>2
<1>4. CASE FinalizeAnswer(p, s)
    <2> DEFINE alpha == call[p][s].base.alpha
               a == [alpha |-> alpha, commitments |-> flight[p].arg.commitments]
    <2>1. alpha \in Runs /\ pin[s] = flight[p].arg
        BY <1>1, <1>4 DEF FinalizeAnswer, Custody, CallInv, Shares
    <2>2. released' = [released EXCEPT ![s] = released[s] \cup {a}] /\ Reply(p, s, alpha)
        BY <1>4 DEF FinalizeAnswer
    <2>3. a \in Answers
        BY <1>1, <2>1 DEF Answers, Round2s
    <2>4. a.commitments = pin[s].commitments
        BY <2>1
    <2>5. a = [alpha |-> alpha, commitments |-> flight[p].arg.commitments]
        OBVIOUS
    <2> HIDE DEF alpha, a
    <2>6. released'[s] = released[s] \cup {a}
          /\ \A t \in Slots \ {s} : released'[t] = released[t]
        BY <2>2
    <2>7. Grows
        BY <1>4, <2>6 DEF FinalizeAnswer, Grows
    <2>8. ReleasedUnderPin'
        BY <1>1, <1>4, <2>1, <2>4, <2>6 DEF FinalizeAnswer, Custody, ReleasedUnderPin
    <2>9. \/ Inert(p, s)
          \/ call'[p][s].at = "ok" /\ call'[p][s].got = alpha
        BY <1>4, <2>2, MoveCarries DEF FinalizeAnswer, Reply
    <2>10. Inert(p, s) \/ CallInv(p, s)'
        BY <1>1, <1>4, <2>1, <2>5, <2>6, <2>9 DEF FinalizeAnswer, CallInv
    <2>11. RequestsOK' /\ Custody'
        BY <1>4, <2>1, <2>2, <2>7, <2>8, <2>10, WorkerMoves, BasesOf
            DEF FinalizeAnswer, Reply, Ats
    <2>12. released' \in [Slots -> SUBSET Answers]
        BY <2>2, <2>3
    <2> QED BY <1>4, <2>11, <2>12 DEF FinalizeAnswer
<1> QED BY <1>2, <1>3, <1>4

LEMMA TogetherStep ==
    ASSUME SessionInv, NEW p \in Flights, NEW q \in Flights, NEW s \in Slots,
           RoundsWriteTogether(p, q, s)
    PROVE  SessionInv'
<1> USE DEF SessionInv, TypeInv, FilesTypeOK, artifacts
<1>1. PICK writer \in {p, q} :
        /\ \/ /\ Together(p, q, s, "start")
              /\ ingress' = [ingress EXCEPT ![s] = flight[writer].arg]
              /\ UNCHANGED share
           \/ /\ Together(p, q, s, "round2")
              /\ share' = [share EXCEPT ![s] =
                    [run |-> flight[writer].arg.run, alpha |-> call[writer][s].base]]
              /\ UNCHANGED ingress
        /\ UNCHANGED <<starts, artifacts, pin, released, nonces, moved, flight, faults>>
    BY DEF RoundsWriteTogether
<1>2. PICK op \in {"start", "round2"} : Together(p, q, s, op)
    BY <1>1
<1>3. RequestsOK'
    BY <1>1, <1>2, TogetherOK
<1>4. Custody'
    <2>1. /\ CarriesArgs
          /\ \A r \in Flights, t \in Slots :
                \/ Same(r, t) \/ Inert(r, t)
                \/ /\ flight'[r].op = op
                   /\ op = "round2" => call'[r][t].at = "ok" /\ call'[r][t].got \in Runs
        BY <1>1, <1>2, TogetherCarries
    <2>2. Grows
        BY <1>1 DEF Grows
    <2>3. ASSUME NEW r \in Flights, NEW t \in Slots PROVE CallInv(r, t)'
        <3>1. CASE Same(r, t) \/ Inert(r, t)
            BY <2>2, <3>1, CallKept DEF Custody
        <3>2. CASE /\ flight'[r].op = op
                   /\ op = "round2" => call'[r][t].at = "ok" /\ call'[r][t].got \in Runs
            BY <3>2 DEF CallInv
        <3> QED BY <2>1, <3>1, <3>2
    <2>4. \A r \in Flights : ArgInv(r)'
        BY <2>1, <2>2, BackedStays DEF Custody, ArgInv, CarriesArgs
    <2>5. FinalIsBacked' /\ ReleasedUnderPin'
        BY <1>1, <2>2, BackedStays DEF Custody, FinalIsBacked, ReleasedUnderPin, Backed
    <2> QED BY <2>3, <2>4, <2>5 DEF Custody
<1>5. ingress' \in [Slots -> Runs \cup {Nil}]
    <2>1. CASE Together(p, q, s, "start")
        BY <1>1, <2>1, Pointwise, ArgsOf DEF Together, At, RequestTypeOK
    <2>2. CASE Together(p, q, s, "round2")
        BY <1>1, <2>2 DEF Together, At
    <2> QED BY <1>1, <2>1, <2>2
<1>6. share' \in [Slots -> Shares \cup {Nil}]
    <2>1. CASE Together(p, q, s, "start")
        BY <1>1, <2>1 DEF Together, At
    <2>2. CASE Together(p, q, s, "round2")
        <3> DEFINE w == [run |-> flight[writer].arg.run, alpha |-> call[writer][s].base]
        <3>1. flight[writer].arg \in [run : Runs, proof : Proofs]
            BY <2>2, Pointwise, ArgsOf DEF Together, At, RequestTypeOK
        <3>2. call[writer][s].base \in Runs
            BY <2>2 DEF Together, At, Custody, CallInv
        <3>3. w \in Shares
            BY <3>1, <3>2 DEF Shares
        <3>4. share' = [share EXCEPT ![s] = w]
            BY <1>1, <2>2 DEF Together, At
        <3> HIDE DEF w
        <3> QED BY <3>3, <3>4
    <2> QED BY <1>1, <2>1, <2>2
<1> QED BY <1>1, <1>3, <1>4, <1>5, <1>6

LEMMA FaultStep ==
    ASSUME SessionInv, Failure \/ Crash
    PROVE  SessionInv'
<1> USE DEF SessionInv, TypeInv
<1>1. faults' \in Nat /\ UNCHANGED <<starts, artifacts, session, nonces, moved>>
    BY WithdrawSessionConstants DEF Failure, Crash, Disconnect, WorkerCrash,
        CoordinatorCrash, Restart, Fault, FilesTypeOK
<1>2. RequestsOK' /\ CarriesCalls /\ CarriesArgs
    <2>1. ASSUME NEW p \in Flights, NEW s \in Slots, Disconnect(p, s, Routes)
          PROVE  RequestsOK' /\ CarriesCalls /\ CarriesArgs
        BY <2>1, DisconnectOK, DisconnectCarries
    <2>2. ASSUME NEW s \in Slots, WorkerCrash(s)
          PROVE  RequestsOK' /\ CarriesCalls /\ CarriesArgs
        BY <2>2, WorkerCrashOK, CrashCarries
    <2>3. CASE Crash
        BY <2>3, RestartOK, RestartCarries DEF Crash, CoordinatorCrash
    <2> QED BY <2>1, <2>2, <2>3 DEF Failure
<1> QED BY <1>1, <1>2, Carried DEF FilesTypeOK, artifacts, session

LEMMA InitHolds == Init => SessionInv
<1> SUFFICES ASSUME Init PROVE SessionInv
    OBVIOUS
<1> USE DEF Init, FanOutInit
<1>1. FilesTypeOK
    BY WithdrawSessionConstants DEF FilesTypeOK
<1>2. RequestsOK
    <2>1. flight \in [Flights -> Requests] /\ call \in [Flights -> [Slots -> Calls]]
        BY FreeOK, UnsentOK
    <2>2. \A p \in Flights : flight[p] = Free /\ \A s \in Slots : call[p][s] = Unsent
        OBVIOUS
    <2> QED BY <2>1, <2>2, FreeOK, UnsentOK DEF RequestsOK, Shape, OpenAsksAll
<1>3. Custody
    BY DEF Custody, CallInv, ArgInv, FinalIsBacked, ReleasedUnderPin, Free, Unsent
<1> QED BY <1>1, <1>2, <1>3 DEF SessionInv, TypeInv

LEMMA StepHolds == SessionInv /\ [Next]_vars => SessionInv'
<1> SUFFICES ASSUME SessionInv, [Next]_vars PROVE SessionInv'
    OBVIOUS
<1>1. CASE UNCHANGED vars
    <2>1. RequestsOK' /\ FilesTypeOK'
        BY <1>1 DEF SessionInv, TypeInv, vars, artifacts, session, RequestsOK, Shape,
            OpenAsksAll, FilesTypeOK, RequestTypeOK, CallTypeOK
    <2>2. CarriesCalls /\ CarriesArgs
        BY <1>1 DEF vars, CarriesCalls, CarriesArgs, Same
    <2> QED BY <1>1, <2>1, <2>2, Carried DEF SessionInv, TypeInv, vars, artifacts, session
<1>2. ASSUME NEW p \in Flights, AskAny(p) PROVE SessionInv'
    BY <1>2, AskStep
<1>3. ASSUME NEW p \in Flights, CoordinatorStep(p) PROVE SessionInv'
    BY <1>3, LockStep, StartStep, Round2Step, FinalizeStep, CommitStep, SignStep
        DEF CoordinatorStep
<1>4. ASSUME NEW p \in Flights, NEW s \in Slots, WorkerStep(p, s) PROVE SessionInv'
    BY <1>4, RoundStep, FinalizeWorkerStep DEF WorkerStep
<1>5. ASSUME NEW p \in Flights, NEW q \in Flights, NEW s \in Slots,
             RoundsWriteTogether(p, q, s)
      PROVE  SessionInv'
    BY <1>5, TogetherStep
<1>6. ASSUME NEW s \in Slots, SequenceMoves(s) PROVE SessionInv'
    <2>1. UNCHANGED <<starts, artifacts, session, nonces, flight, call, faults>>
          /\ moved' \subseteq Slots
        BY <1>6, WithdrawSessionConstants DEF SequenceMoves, SessionInv, TypeInv, FilesTypeOK
    <2>2. RequestsOK' /\ FilesTypeOK'
        BY <2>1 DEF SessionInv, TypeInv, artifacts, session, RequestsOK, Shape,
            OpenAsksAll, FilesTypeOK, RequestTypeOK, CallTypeOK
    <2>3. CarriesCalls /\ CarriesArgs
        BY <2>1 DEF CarriesCalls, CarriesArgs, Same
    <2> QED BY <2>1, <2>2, <2>3, Carried DEF SessionInv, TypeInv, artifacts, session
<1>7. CASE Failure \/ Crash
    BY <1>7, FaultStep
<1> QED BY <1>1, <1>2, <1>3, <1>4, <1>5, <1>6, <1>7 DEF Next, SessionStep

\* No step takes a pin or an answer back, or removes the artifact of finalize.
LEMMA StepGrows ==
    ASSUME SessionInv, [Next]_vars
    PROVE  Grows /\ (final # Nil => final' # Nil)
<1> USE DEF session, artifacts
<1>1. CASE UNCHANGED vars
    BY <1>1 DEF vars, Grows
<1>2. ASSUME NEW p \in Flights, AskAny(p) PROVE Grows /\ final' = final
    BY <1>2 DEF AskAny, AskStart, AskRound2, AskFinalize, AskAttest, Ask, Grows
<1>3. ASSUME NEW p \in Flights, CoordinatorStep(p)
      PROVE  Grows /\ (final # Nil => final' # Nil)
    <2>1. Grows
        BY <1>3 DEF CoordinatorStep, TakeLock, StartAnswered, Round2Answered,
            FinalizeAnswered, CommitAnswered, SignAnswered, Grows
    <2>2. CASE FinalizeAnswered(p)
        <3>1. AllAccepted(p) => final' \in Finals
            BY <2>2, FinalWritten
        <3>2. ~AllAccepted(p) => final' = final
            BY <2>2 DEF FinalizeAnswered, EnoughAnswers
        <3> QED BY <2>1, <3>1, <3>2, NilIsApart
    <2>3. CASE SignAnswered(p)
        <3>1. AllAccepted(p) => final' \in Finals
            BY <2>3, FinalAttested
        <3>2. ~AllAccepted(p) => final' = final
            BY <2>3 DEF SignAnswered
        <3> QED BY <2>1, <3>1, <3>2, NilIsApart
    <2>4. CASE ~FinalizeAnswered(p) /\ ~SignAnswered(p)
        BY <1>3, <2>1, <2>4 DEF CoordinatorStep, TakeLock, StartAnswered,
            Round2Answered, CommitAnswered
    <2> QED BY <2>1, <2>2, <2>3, <2>4
<1>4. ASSUME NEW p \in Flights, NEW s \in Slots, WorkerStep(p, s)
      PROVE  Grows /\ final' = final
    <2>1. CASE FinalizePin(p, s)
        <3>1. pin' = pin \/ (pin' = [pin EXCEPT ![s] = flight[p].arg]
                             /\ pin[s] \in {Nil, flight[p].arg})
            BY <2>1 DEF FinalizePin, PinAllows
        <3>2. \A t \in Slots : pin[t] # Nil => pin'[t] = pin[t]
            BY <3>1 DEF SessionInv, TypeInv, FilesTypeOK
        <3> QED BY <2>1, <3>2 DEF FinalizePin, Grows
    <2>2. CASE FinalizeAnswer(p, s)
        <3>1. PICK a : released' = [released EXCEPT ![s] = @ \cup {a}]
            BY <2>2 DEF FinalizeAnswer
        <3>2. \A t \in Slots : released[t] \subseteq released'[t]
            BY <3>1 DEF SessionInv, TypeInv, FilesTypeOK
        <3> QED BY <2>2, <3>2 DEF FinalizeAnswer, Grows
    <2>3. CASE ~FinalizePin(p, s) /\ ~FinalizeAnswer(p, s)
        BY <1>4, <2>3 DEF WorkerStep, Round1Read, Round1Write, Round2Read, Round2Write,
            FinalizeRead, NonceCommit, PartialSign, Grows
    <2> QED BY <2>1, <2>2, <2>3
<1>5. ASSUME NEW p \in Flights, NEW q \in Flights, NEW s \in Slots,
             RoundsWriteTogether(p, q, s)
      PROVE  Grows /\ final' = final
    BY <1>5 DEF RoundsWriteTogether, Grows
<1>6. ASSUME NEW s \in Slots, SequenceMoves(s) PROVE Grows /\ final' = final
    BY <1>6 DEF SequenceMoves, Grows
<1>7. CASE Failure \/ Crash
    BY <1>7 DEF Failure, Crash, Grows
<1> QED BY <1>1, <1>2, <1>3, <1>4, <1>5, <1>6, <1>7 DEF Next, SessionStep

LEMMA SessionHolds == Spec => []SessionInv
BY InitHolds, StepHolds, PTL DEF Spec

----------------------------------------------------------------------------
(* The theorems                                                            *)

\* Artifacts, session files, requests and calls keep their types, whatever the
\* routes of the coordinator and the workers do to them.
THEOREM SessionTypes == Spec => []SessionTypeOK
<1>1. SessionInv => SessionTypeOK
    BY DEF SessionInv, TypeInv, RequestsOK, SessionTypeOK
<1> QED BY <1>1, SessionHolds, PTL

\* A worker answers one challenge in a session, however many handlers run at it
\* and whatever is repeated (run_finalize_v2: the pin before the secret).
THEOREM ChallengesAreSingle == Spec => []OneChallenge
<1>1. SessionInv => OneChallenge
    BY DEF SessionInv, Custody, ReleasedUnderPin, OneChallenge
<1> QED BY <1>1, SessionHolds, PTL

\* The artifact of finalize, attested or not, is one every worker is pinned to
\* and answered.
THEOREM FinalsAreBacked == Spec => []FinalIsBacked
<1>1. SessionInv => FinalIsBacked
    BY DEF SessionInv, Custody
<1> QED BY <1>1, SessionHolds, PTL

\* Nothing replaces its commitments: the artifact before a step and the one after
\* it are backed by the same pins.
THEOREM FinalsAreStable == Spec => FinalIsStable
<1>1. SessionInv /\ SessionInv' /\ [Next]_vars =>
          [final # Nil => final' # Nil /\ final'.commitments = final.commitments]_vars
    <2> SUFFICES ASSUME SessionInv, SessionInv', [Next]_vars, final # Nil
                 PROVE  final' # Nil /\ final'.commitments = final.commitments
        OBVIOUS
    <2>1. Grows /\ final' # Nil
        BY StepGrows
    <2>2. PICK s \in Slots : TRUE
        BY WithdrawSessionConstants
    <2>3. pin[s] # Nil /\ pin[s].commitments = final.commitments
        BY DEF SessionInv, Custody, FinalIsBacked, Backed
    <2>4. pin'[s].commitments = final'.commitments
        BY <2>1 DEF SessionInv, Custody, FinalIsBacked, Backed
    <2> QED BY <2>1, <2>3, <2>4 DEF Grows
<1> QED BY <1>1, SessionHolds, PTL DEF Spec, FinalIsStable

----------------------------------------------------------------------------
(* The record of the submit route                                          *)


Handlers == [at : {"none", "relaying", "confirming"}, args : CallArgs \cup {Nil},
             fresh : BOOLEAN]

Relays == [args : CallArgs, heard : BOOLEAN]

\* The artifact of the session has its type, ...
SubmitTyped ==
    /\ submit \in Handlers
    /\ submit.at # "none" => submit.args \in CallArgs
    /\ artifact \in Artifacts \cup {Nil}
    /\ relays \subseteq Relays

\* ... the relayer is heard by the handler that called it and by no other, ...
HeardByOne ==
    \A r \in relays : r.heard =>
        submit.at = "relaying" /\ submit.fresh /\ r.args = submit.args

\* ... a handler that broadcasts does so because nothing is recorded, and one
\* that recovers has the inputs on record.
RecordRead ==
    /\ submit.fresh => NothingRecorded
    /\ submit.at = "relaying" => submit.fresh
    /\ submit.at = "confirming" /\ ~submit.fresh =>
          InFlight /\ artifact.args = submit.args

RouteInv == SubmitTyped /\ HeardByOne /\ RecordRead

\* The session's invariant comes along: it says that what is signed for is a
\* signature.
SubmitInv == SessionInv /\ RouteInv /\ CompletedIsSettled

----------------------------------------------------------------------------
(* The session under the submit route                                      *)

\* The route writes none of the session's files and takes none of its requests.
LEMMA QuietKeeps ==
    ASSUME SessionInv, UNCHANGED quiet, faults' \in Nat
    PROVE  SessionInv'
<1>1. RequestsOK' /\ FilesTypeOK'
    BY DEF SessionInv, TypeInv, quiet, artifacts, session, RequestsOK, Shape,
        OpenAsksAll, FilesTypeOK, RequestTypeOK, CallTypeOK
<1>2. CarriesCalls /\ CarriesArgs
    BY DEF quiet, CarriesCalls, CarriesArgs, Same
<1> QED BY <1>1, <1>2, Carried DEF SessionInv, TypeInv, quiet, artifacts, session

LEMMA FaultsCount ==
    ASSUME SessionInv, Fault \/ UNCHANGED faults
    PROVE  faults' \in Nat
BY WithdrawSessionConstants DEF SessionInv, TypeInv, FilesTypeOK, Fault

LEMMA SessionKept ==
    ASSUME SessionInv, [SubmitNext]_allVars
    PROVE  SessionInv'
<1>1. CASE UNCHANGED allVars
    BY <1>1, StepHolds DEF allVars
<1>2. CASE SessionStep \/ Crash
    BY <1>2, StepHolds DEF Next
<1>3. CASE CrashSubmit
    <2>1. RequestsOK' /\ CarriesCalls /\ CarriesArgs
        BY <1>3, RestartOK, RestartCarries DEF CrashSubmit, SessionInv, TypeInv
    <2>2. faults' \in Nat
        BY <1>3, FaultsCount DEF CrashSubmit, Restart
    <2> QED BY <1>3, <2>1, <2>2, Carried
        DEF CrashSubmit, SessionInv, TypeInv, FilesTypeOK, artifacts, session
<1>4. CASE (\E prepared \in BOOLEAN : Submit(prepared)) \/ SubmitStep \/ RelayAnswers
           \/ SpendElsewhere
    <2>1. UNCHANGED quiet /\ (Fault \/ UNCHANGED faults)
        BY <1>4 DEF Submit, SubmitStep, Confirmed, Failed, Unconfirmed, RelayAnswers,
            RelayReplays, RelayLands, RelayFails, RelayLoses, RelayRefuses, RelaySpent,
            SpendElsewhere
    <2> QED BY <2>1, QuietKeeps, FaultsCount
<1> QED BY <1>1, <1>2, <1>3, <1>4 DEF SubmitNext

----------------------------------------------------------------------------
(* The route                                                               *)

LEMMA UnlockedOK ==
    Unlocked \in Handlers /\ Unlocked.at = "none" /\ ~Unlocked.fresh
BY DEF Unlocked, Handlers

\* What finalize and frost-attest left assembles to call arguments, or to none.
LEMMA AssembledOK ==
    ASSUME SessionInv, final # Nil, NEW prepared \in BOOLEAN, Assembled(prepared) # Nil
    PROVE  Assembled(prepared) \in CallArgs
BY DEF SessionInv, TypeInv, FilesTypeOK, Finals, Assembled, CallArgs

LEMMA RecordedOK ==
    ASSUME NEW stage \in {"attempted", "completed"}, NEW args \in CallArgs,
           Record(stage, args)
    PROVE  /\ artifact' \in Artifacts /\ artifact' # Nil
           /\ artifact'.stage = stage /\ artifact'.args = args
BY NilIsNoArtifact DEF Record, Artifacts

\* A record of the route's kind has the arguments of a call.
LEMMA RecordHasArgs ==
    ASSUME SubmitTyped, InFlight
    PROVE  artifact.args \in CallArgs
BY DEF SubmitTyped, InFlight, IsStage, Artifacts

\* Nobody is heard while the route is free.
LEMMA FreeIsUnheard ==
    ASSUME RouteInv, submit = Unlocked
    PROVE  \A r \in relays : ~r.heard
BY UnlockedOK DEF RouteInv, HeardByOne

\* Releasing the lock when nobody is heard any more.
LEMMA ToldOK ==
    ASSUME submit' = Unlocked, artifact' \in Artifacts \cup {Nil},
           relays' \subseteq Relays, \A r \in relays' : ~r.heard
    PROVE  RouteInv'
BY UnlockedOK DEF RouteInv, SubmitTyped, HeardByOne, RecordRead

LEMMA SubmitOK ==
    ASSUME SubmitInv, NEW prepared \in BOOLEAN, Submit(prepared)
    PROVE  RouteInv'
<1> DEFINE args == Assembled(prepared)
<1>1. /\ SubmitReplayed(args) \/ SubmitRecovers(args) \/ SubmitStub(args)
         \/ SubmitRelays(args)
      /\ submit = Unlocked /\ final # Nil
    BY DEF Submit
<1>2. args # Nil => args \in CallArgs
    BY <1>1, AssembledOK DEF SubmitInv
<1>3. /\ \A r \in relays : ~r.heard
      /\ relays \subseteq Relays /\ artifact \in Artifacts \cup {Nil} /\ SubmitTyped
    BY <1>1, FreeIsUnheard DEF SubmitInv, RouteInv, SubmitTyped
<1> HIDE DEF args
<1>4. CASE SubmitReplayed(args)
    BY <1>3, <1>4, ToldOK DEF SubmitReplayed, Tell
<1>5. CASE SubmitRecovers(args)
    <2>1. CASE artifact.args = args
        <3>1. /\ submit' = [at |-> "confirming", args |-> args, fresh |-> FALSE]
              /\ UNCHANGED <<artifact, relays>> /\ InFlight
            BY <1>5, <2>1 DEF SubmitRecovers
        <3>2. args \in CallArgs
            BY <1>3, <2>1, <3>1, RecordHasArgs
        <3> QED BY <1>3, <2>1, <3>1, <3>2
            DEF RouteInv, SubmitTyped, HeardByOne, RecordRead, Handlers, InFlight, IsStage
    <2>2. CASE artifact.args # args
        BY <1>3, <1>5, <2>2, ToldOK DEF SubmitRecovers, Tell
    <2> QED BY <2>1, <2>2
<1>6. CASE SubmitStub(args)
    <2>1. artifact' \in Artifacts
        BY <1>6 DEF SubmitStub, Record, Artifacts
    <2> QED BY <1>3, <1>6, <2>1, ToldOK DEF SubmitStub, Tell
<1>7. CASE SubmitRelays(args)
    <2>1. /\ relays' = relays \cup {[args |-> args, heard |-> TRUE]}
          /\ submit' = [at |-> "relaying", args |-> args, fresh |-> TRUE]
          /\ UNCHANGED artifact /\ NothingRecorded /\ args \in CallArgs
        BY <1>2, <1>7 DEF SubmitRelays
    <2>2. SubmitTyped'
        <3>1. [at |-> "relaying", args |-> args, fresh |-> TRUE] \in Handlers
              /\ [args |-> args, heard |-> TRUE] \in Relays
            BY <2>1 DEF Handlers, Relays
        <3> QED BY <1>3, <2>1, <3>1 DEF SubmitTyped
    <2>3. HeardByOne'
        BY <1>3, <2>1 DEF HeardByOne
    <2>4. RecordRead'
        BY <2>1 DEF RecordRead, NothingRecorded, InFlight, IsStage
    <2> QED BY <2>2, <2>3, <2>4 DEF RouteInv
<1> QED BY <1>1, <1>4, <1>5, <1>6, <1>7

\* The wait for a transaction ends in a record, or in none.
LEMMA StepOK ==
    ASSUME SubmitInv, SubmitStep
    PROVE  RouteInv'
<1>1. submit' = Unlocked /\ UNCHANGED relays /\ submit.at = "confirming"
    BY DEF SubmitStep, Confirmed, Failed, Unconfirmed, Tell, relayer
<1>2. \A r \in relays' : ~r.heard
    BY <1>1 DEF SubmitInv, RouteInv, HeardByOne
<1>3. submit.args \in CallArgs /\ artifact \in Artifacts \cup {Nil}
      /\ relays \subseteq Relays
    BY <1>1 DEF SubmitInv, RouteInv, SubmitTyped
<1>4. artifact' \in Artifacts \cup {Nil}
    BY <1>3, RecordedOK DEF SubmitStep, Confirmed, Failed, Unconfirmed
<1> QED BY <1>1, <1>2, <1>3, <1>4, ToldOK

LEMMA NamesOK ==
    ASSUME RouteInv, NEW r \in relays, Names(r)
    PROVE  RouteInv'
<1>1. relays' = relays \ {r} /\ UNCHANGED artifact
    BY DEF Names
<1>2. CASE r.heard
    <2>1. submit.at = "relaying" /\ submit.fresh /\ r.args = submit.args
        BY <1>2 DEF RouteInv, HeardByOne
    <2>2. \A q \in relays' : ~q.heard
        BY <1>1, <1>2, <2>1 DEF RouteInv, HeardByOne, SubmitTyped, Relays
    <2>3. /\ submit' \in Handlers /\ submit'.at = "confirming"
          /\ submit'.args = submit.args /\ submit'.fresh
        BY <1>2, <2>1 DEF Names, RouteInv, SubmitTyped, Handlers
    <2> QED BY <1>1, <2>1, <2>2, <2>3
        DEF RouteInv, SubmitTyped, HeardByOne, RecordRead, NothingRecorded, InFlight,
            IsStage
<1>3. CASE ~r.heard
    BY <1>1, <1>3 DEF Names, RouteInv, SubmitTyped, HeardByOne, RecordRead,
        NothingRecorded, InFlight, IsStage
<1> QED BY <1>2, <1>3

\* A relayer's answer to a handler is its last: the others are unheard.
LEMMA OnlyOneHeard ==
    ASSUME RouteInv, NEW r \in relays, r.heard
    PROVE  \A q \in relays \ {r} : ~q.heard
BY DEF RouteInv, HeardByOne, SubmitTyped, Relays

LEMMA RefusesOK ==
    ASSUME RouteInv, NEW r \in relays, NEW code, Refuses(r, code)
    PROVE  RouteInv'
<1>1. relays' = relays \ {r} /\ UNCHANGED artifact
    BY DEF Refuses
<1>2. CASE r.heard
    BY <1>1, <1>2, OnlyOneHeard, ToldOK DEF Refuses, Tell, RouteInv, SubmitTyped
<1>3. CASE ~r.heard
    BY <1>1, <1>3 DEF Refuses, RouteInv, SubmitTyped, HeardByOne, RecordRead,
        NothingRecorded, InFlight, IsStage
<1> QED BY <1>2, <1>3

LEMMA AnswersOK ==
    ASSUME SubmitInv, RelayAnswers
    PROVE  RouteInv'
<1>1. PICK r \in relays :
        RelayReplays(r) \/ RelayLands(r) \/ RelayFails(r) \/ RelayLoses(r)
        \/ RelayRefuses(r) \/ RelaySpent(r)
    BY DEF RelayAnswers
<1>2. CASE Names(r)
    BY <1>2, NamesOK DEF SubmitInv
<1>3. CASE \E code : Refuses(r, code)
    BY <1>3, RefusesOK DEF SubmitInv
<1>4. CASE /\ r.heard
           /\ relays' = (relays \ {r}) \cup {[r EXCEPT !.heard = FALSE]}
           /\ Tell("retry")
           /\ UNCHANGED artifact
    <2>1. r \in Relays /\ relays \subseteq Relays /\ artifact \in Artifacts \cup {Nil}
        BY DEF SubmitInv, RouteInv, SubmitTyped
    <2>2. [r EXCEPT !.heard = FALSE] \in Relays /\ ~[r EXCEPT !.heard = FALSE].heard
        BY <2>1 DEF Relays
    <2>3. \A q \in relays' : ~q.heard
        BY <1>4, <2>2, OnlyOneHeard DEF SubmitInv
    <2> QED BY <1>4, <2>1, <2>2, <2>3, ToldOK DEF Tell
<1> QED BY <1>1, <1>2, <1>3, <1>4
    DEF RelayReplays, RelayLands, RelayFails, RelayLoses, RelayRefuses, RelaySpent

LEMMA CrashOK ==
    ASSUME SubmitInv, CrashSubmit
    PROVE  RouteInv'
<1>1. /\ submit' = Unlocked /\ UNCHANGED artifact
      /\ relays' = {[r EXCEPT !.heard = FALSE] : r \in relays}
      /\ relays \subseteq Relays /\ artifact \in Artifacts \cup {Nil}
    BY DEF CrashSubmit, SubmitInv, RouteInv, SubmitTyped
<1>2. \A r \in relays : [r EXCEPT !.heard = FALSE] \in Relays
                        /\ ~[r EXCEPT !.heard = FALSE].heard
    BY <1>1 DEF Relays
<1> QED BY <1>1, <1>2, ToldOK

LEMMA RouteHolds ==
    ASSUME SubmitInv, [SubmitNext]_allVars
    PROVE  RouteInv'
<1>1. CASE UNCHANGED submitVars
    BY <1>1 DEF submitVars, relayer, SubmitInv, RouteInv, SubmitTyped, HeardByOne,
        RecordRead, NothingRecorded, InFlight, IsStage
<1>2. CASE SpendElsewhere
    BY <1>2 DEF SpendElsewhere, SubmitInv, RouteInv, SubmitTyped, HeardByOne,
        RecordRead, NothingRecorded, InFlight, IsStage
<1> QED BY <1>1, <1>2, SubmitOK, StepOK, AnswersOK, CrashOK DEF SubmitNext, allVars

\* A settlement that succeeded is never undone, and only one that did is told.
LEMMA SettledKept ==
    ASSUME SubmitInv, [SubmitNext]_allVars
    PROVE  CompletedIsSettled'
<1> USE DEF SubmitInv, CompletedIsSettled, IsStage, Tell, Record
<1>1. CASE UNCHANGED submitVars
    BY <1>1 DEF submitVars, relayer
<1>2. ASSUME NEW prepared \in BOOLEAN, Submit(prepared) PROVE CompletedIsSettled'
    BY <1>2 DEF Submit, SubmitReplayed, SubmitRecovers, SubmitStub, SubmitRelays
<1>3. CASE SubmitStep
    BY <1>3 DEF SubmitStep, Confirmed, Failed, Unconfirmed, Executed, relayer
<1>4. CASE RelayAnswers
    BY <1>4 DEF RelayAnswers, RelayReplays, RelayLands, RelayFails, RelayLoses,
        RelayRefuses, RelaySpent, Names, Refuses
<1>5. CASE SpendElsewhere \/ CrashSubmit
    BY <1>5 DEF SpendElsewhere, CrashSubmit
<1> QED BY <1>1, <1>2, <1>3, <1>4, <1>5 DEF SubmitNext, allVars

LEMMA SubmitStarts == SubmitInit => SubmitInv
<1> SUFFICES ASSUME SubmitInit PROVE SubmitInv
    OBVIOUS
<1>1. SessionInv
    BY InitHolds DEF SubmitInit
<1>2. RouteInv
    BY UnlockedOK, NilIsNoArtifact
        DEF SubmitInit, RouteInv, SubmitTyped, HeardByOne, RecordRead
<1> QED BY <1>1, <1>2 DEF SubmitInit, SubmitInv, CompletedIsSettled, IsStage

LEMMA SubmitHolds == SubmitSpec => []SubmitInv
<1>1. SubmitInv /\ [SubmitNext]_allVars => SubmitInv'
    BY SessionKept, RouteHolds, SettledKept DEF SubmitInv
<1> QED BY <1>1, SubmitStarts, PTL DEF SubmitSpec

----------------------------------------------------------------------------
(* The theorems                                                            *)

\* Whatever is retried, lost or crashed, the route calls a withdrawal completed
\* only if its settlement succeeded on the chain.
THEOREM CompletionsAreSettled == SubmitSpec => []CompletedIsSettled
BY SubmitHolds, PTL DEF SubmitInv

\* The record of what was broadcast is completed or left alone: a handler that
\* broadcasts has seen that there is none, under the lock it still holds, and one
\* that recovers brings the recorded inputs.
THEOREM RecordsAreKept == SubmitSpec => RecordedIsKept
<1> DEFINE Kept == (IsStage("attempted") \/ IsStage("completed")) =>
                        /\ artifact' # Nil
                        /\ artifact'.args = artifact.args
                        /\ artifact'.stage \in {artifact.stage, "completed"}
<1>1. SubmitInv /\ [SubmitNext]_allVars => [Kept]_allVars
    <2> SUFFICES ASSUME SubmitInv, SubmitNext, IsStage("attempted") \/ IsStage("completed")
                 PROVE  /\ artifact' # Nil
                        /\ artifact'.args = artifact.args
                        /\ artifact'.stage \in {artifact.stage, "completed"}
        OBVIOUS
    <2>1. CASE UNCHANGED artifact
        BY <2>1 DEF IsStage
    <2>2. ASSUME NEW prepared \in BOOLEAN, Submit(prepared) PROVE UNCHANGED artifact
        BY <2>2 DEF Submit, SubmitReplayed, SubmitRecovers, SubmitStub, SubmitRelays,
            NothingRecorded, InFlight
    <2>3. CASE SubmitStep
        <3>1. submit.at = "confirming" /\ submit.args \in CallArgs
            BY <2>3 DEF SubmitStep, Confirmed, Failed, Unconfirmed, SubmitInv, RouteInv,
                SubmitTyped
        <3>2. ~submit.fresh /\ artifact.stage = "attempted" /\ artifact.args = submit.args
            BY <3>1 DEF SubmitInv, RouteInv, RecordRead, NothingRecorded, InFlight, IsStage
        <3>3. \/ UNCHANGED artifact
              \/ \E stage \in {"attempted", "completed"} : Record(stage, submit.args)
            BY <2>3 DEF SubmitStep, Confirmed, Failed, Unconfirmed
        <3> QED BY <2>1, <3>1, <3>2, <3>3, RecordedOK
    <2>4. CASE RelayAnswers \/ SpendElsewhere \/ CrashSubmit
        BY <2>1, <2>4 DEF RelayAnswers, RelayReplays, RelayLands, RelayFails, RelayLoses,
            RelayRefuses, RelaySpent, Names, Refuses, SpendElsewhere, CrashSubmit
    <2> QED BY <2>1, <2>2, <2>3, <2>4 DEF SubmitNext, submitVars
<1> QED BY <1>1, SubmitHolds, PTL DEF SubmitSpec, RecordedIsKept

=============================================================================
