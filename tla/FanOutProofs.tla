----------------------------- MODULE FanOutProofs -----------------------------
(***************************************************************************)
(* What the steps of FanOut do to requests and calls, whatever routes,     *)
(* arguments and answers the module that extends it has.                   *)
(***************************************************************************)
EXTENDS FanOut, TLAPS

Ats == Running \cup {"none", "ok", "err"}

\* Requests of the kinds Ops with arguments of Args; calls that keep Bases and
\* have got Gots.
Requests(Ops, Args) ==
    [op : Ops, slots : SUBSET Slots, arg : Args, open : BOOLEAN]

CallsOf(Bases, Gots) == [at : Ats, base : Bases, got : Gots, heard : BOOLEAN]

Shaped(Ops, Args, Bases, Gots) ==
    /\ "none" \in Ops /\ Nil \in Args /\ Nil \in Bases /\ Nil \in Gots
    /\ flight \in [Flights -> Requests(Ops, Args)]
    /\ call \in [Flights -> [Slots -> CallsOf(Bases, Gots)]]

\* A step leaves a request but for its lock, or the request is over.
SameRequest(p) ==
    /\ flight'[p].op = flight[p].op
    /\ flight'[p].slots = flight[p].slots
    /\ flight'[p].arg = flight[p].arg
    /\ flight'[p].open => flight[p].open

\* It leaves a call but for who hears it, or the call is over.
SameCall(p, s) ==
    /\ call'[p][s].at = call[p][s].at
    /\ call'[p][s].base = call[p][s].base
    /\ call'[p][s].got = call[p][s].got

Ends(p, s) ==
    /\ call'[p][s].at \in {"none", "err"}
    /\ call'[p][s].base = Nil /\ call'[p][s].got = Nil
    /\ call'[p][s].at = "err" => call[p][s].at \in Running

\* Nothing is asked, and nothing is answered but with an error.
CalmAt(p) ==
    \/ SameRequest(p) /\ \A s \in Slots : SameCall(p, s) \/ Ends(p, s)
    \/ flight'[p] = Free /\ \A s \in Slots : call'[p][s] = Unsent

Calm == \A p \in Flights : CalmAt(p)

LEMMA AtsOf ==
    /\ "none" \in Ats /\ "ok" \in Ats /\ "err" \in Ats /\ "sent" \in Ats
    /\ "read" \in Ats /\ "fetched" \in Ats
    /\ Running \subseteq Ats
    /\ "none" \notin Running /\ "err" \notin Running /\ "ok" \notin Running
BY DEF Ats, Running

LEMMA FreeShape ==
    ASSUME NEW Ops, NEW Args, "none" \in Ops, Nil \in Args
    PROVE  Free \in Requests(Ops, Args)
BY DEF Free, Requests

LEMMA UnsentShape ==
    ASSUME NEW Bases, NEW Gots, Nil \in Bases, Nil \in Gots
    PROVE  Unsent \in CallsOf(Bases, Gots) /\ Sent \in CallsOf(Bases, Gots)
BY AtsOf DEF Unsent, Sent, CallsOf

\* At the beginning nothing is asked.
LEMMA InitShape ==
    ASSUME NEW Ops, NEW Args, NEW Bases, NEW Gots,
           "none" \in Ops, Nil \in Args, Nil \in Bases, Nil \in Gots,
           FanOutInit
    PROVE  /\ Shaped(Ops, Args, Bases, Gots)
           /\ \A p \in Flights : flight[p].op = "none"
           /\ \A p \in Flights, s \in Slots : call[p][s].at = "none"
<1>1. Free.op = "none" /\ Unsent.at = "none"
    BY DEF Free, Unsent
<1> QED BY <1>1, FreeShape, UnsentShape DEF FanOutInit, Shaped

\* A request is posted: its calls are sent, all others are left alone.
LEMMA PostShape ==
    ASSUME NEW Ops, NEW Args, NEW Bases, NEW Gots, Shaped(Ops, Args, Bases, Gots),
           NEW p \in Flights, NEW op \in Ops, NEW S \in SUBSET Slots, NEW arg \in Args,
           Post(p, op, S, arg)
    PROVE  /\ Shaped(Ops, Args, Bases, Gots)'
           /\ \A q \in Flights \ {p} : flight'[q] = flight[q] /\ call'[q] = call[q]
           /\ flight'[p].op = op /\ flight'[p].slots = S /\ flight'[p].arg = arg
           /\ \A s \in Slots : call'[p][s] = IF s \in S THEN Sent ELSE Unsent
<1> DEFINE r == [op |-> op, slots |-> S, arg |-> arg, open |-> TRUE]
           c == [s \in Slots |-> IF s \in S THEN Sent ELSE Unsent]
<1>1. r \in Requests(Ops, Args) /\ r.op = op /\ r.slots = S /\ r.arg = arg
    BY DEF Requests
<1>2. c \in [Slots -> CallsOf(Bases, Gots)]
    BY UnsentShape DEF Shaped
<1>3. \A s \in Slots : c[s] = IF s \in S THEN Sent ELSE Unsent
    OBVIOUS
<1>4. flight' = [flight EXCEPT ![p] = r] /\ call' = [call EXCEPT ![p] = c]
    BY DEF Post
<1> HIDE DEF r, c
<1> QED BY <1>1, <1>2, <1>3, <1>4 DEF Shaped

LEMMA DropShape ==
    ASSUME NEW Ops, NEW Args, NEW Bases, NEW Gots, Shaped(Ops, Args, Bases, Gots),
           NEW p \in Flights
    PROVE  /\ Dropped(p) \in Requests(Ops, Args)
           /\ Unheard(p) \in [Slots -> CallsOf(Bases, Gots)]
           /\ flight'[p] = Dropped(p) /\ call'[p] = Unheard(p) => CalmAt(p)
<1>1. flight[p] \in Requests(Ops, Args) /\ call[p] \in [Slots -> CallsOf(Bases, Gots)]
    BY DEF Shaped
<1>2. ASSUME NEW s \in Slots
      PROVE  /\ Unheard(p)[s] \in CallsOf(Bases, Gots)
             /\ \/ /\ Unheard(p)[s].at = call[p][s].at
                   /\ Unheard(p)[s].base = call[p][s].base
                   /\ Unheard(p)[s].got = call[p][s].got
                \/ Unheard(p)[s] = Unsent
             /\ ~(\E t \in Slots : call[p][t].at \in Running)
                    => Unheard(p)[s] = Unsent
    <2>1. Unheard(p)[s] = IF call[p][s].at \in Running
                          THEN [call[p][s] EXCEPT !.heard = FALSE] ELSE Unsent
        BY DEF Unheard
    <2>2. CASE call[p][s].at \in Running
        <3>1. call[p][s] \in CallsOf(Bases, Gots)
            BY <1>1
        <3>2. Unheard(p)[s] = [call[p][s] EXCEPT !.heard = FALSE]
            BY <2>1, <2>2
        <3> QED BY <2>2, <3>1, <3>2 DEF CallsOf
    <2>3. CASE call[p][s].at \notin Running
        <3>1. Unheard(p)[s] = Unsent
            BY <2>1, <2>3
        <3> QED BY <2>3, <3>1, UnsentShape DEF Shaped
    <2> QED BY <2>2, <2>3
<1>3. Unheard(p) \in [Slots -> CallsOf(Bases, Gots)]
    BY <1>2 DEF Unheard
<1>4. CASE \E s \in Slots : call[p][s].at \in Running
    <2>1. Dropped(p) = [flight[p] EXCEPT !.open = FALSE]
        BY <1>4 DEF Dropped
    <2>2. /\ Dropped(p) \in Requests(Ops, Args)
          /\ Dropped(p).op = flight[p].op /\ Dropped(p).slots = flight[p].slots
          /\ Dropped(p).arg = flight[p].arg /\ ~Dropped(p).open
        BY <1>1, <2>1 DEF Requests
    <2>3. Unsent.at = "none" /\ Unsent.base = Nil /\ Unsent.got = Nil
        BY DEF Unsent
    <2> QED BY <1>2, <1>3, <2>2, <2>3 DEF CalmAt, SameRequest, SameCall, Ends
<1>5. CASE ~\E s \in Slots : call[p][s].at \in Running
    <2>1. Dropped(p) = Free
        BY <1>5 DEF Dropped
    <2> QED BY <1>2, <1>3, <1>5, <2>1, FreeShape DEF CalmAt, Shaped
<1> QED BY <1>4, <1>5

\* A request is answered, ...
LEMMA CloseShape ==
    ASSUME NEW Ops, NEW Args, NEW Bases, NEW Gots, Shaped(Ops, Args, Bases, Gots),
           NEW p \in Flights, Close(p)
    PROVE  Shaped(Ops, Args, Bases, Gots)' /\ Calm
<1>1. Dropped(p) \in Requests(Ops, Args) /\ Unheard(p) \in [Slots -> CallsOf(Bases, Gots)]
    BY DropShape
<1>2. flight' = [flight EXCEPT ![p] = Dropped(p)] /\ call' = [call EXCEPT ![p] = Unheard(p)]
    BY DEF Close
<1>3. Shaped(Ops, Args, Bases, Gots)'
    BY <1>1, <1>2 DEF Shaped
<1>4. flight'[p] = Dropped(p) /\ call'[p] = Unheard(p)
    BY <1>2 DEF Shaped
<1>5. \A q \in Flights \ {p} : flight'[q] = flight[q] /\ call'[q] = call[q]
    BY <1>2 DEF Shaped
<1>6. CalmAt(p)
    BY <1>4, DropShape
<1>7. \A q \in Flights \ {p} : CalmAt(q)
    BY <1>5 DEF CalmAt, SameRequest, SameCall
<1> QED BY <1>3, <1>6, <1>7 DEF Calm

\* ... or all of them are dropped.
LEMMA RestartShape ==
    ASSUME NEW Ops, NEW Args, NEW Bases, NEW Gots, Shaped(Ops, Args, Bases, Gots), Restart
    PROVE  Shaped(Ops, Args, Bases, Gots)' /\ Calm
<1>1. /\ flight' = [p \in Flights |-> Dropped(p)]
      /\ call' = [p \in Flights |-> Unheard(p)]
    BY DEF Restart
<1>2. \A p \in Flights : /\ Dropped(p) \in Requests(Ops, Args)
                         /\ Unheard(p) \in [Slots -> CallsOf(Bases, Gots)]
    BY DropShape
<1>3. Shaped(Ops, Args, Bases, Gots)'
    BY <1>1, <1>2 DEF Shaped
<1>4. \A p \in Flights : flight'[p] = Dropped(p) /\ call'[p] = Unheard(p)
    BY <1>1
<1>5. \A p \in Flights : CalmAt(p)
    BY <1>4, DropShape
<1> QED BY <1>3, <1>5 DEF Calm

\* A worker's step: one call is where it moved to, or nobody hears its end.
LEMMA MoveShape ==
    ASSUME NEW Ops, NEW Args, NEW Bases, NEW Gots, Shaped(Ops, Args, Bases, Gots),
           NEW p \in Flights, NEW s \in Slots,
           NEW step \in Ats, NEW base \in Bases, NEW got \in Gots,
           UNCHANGED flight, Move(p, s, step, base, got)
    PROVE  /\ Shaped(Ops, Args, Bases, Gots)'
           /\ \A q \in Flights, t \in Slots :
                (q # p \/ t # s) => call'[q][t] = call[q][t]
           /\ \/ call'[p][s] = Unsent
              \/ /\ call'[p][s].at = step
                 /\ call'[p][s].base = base /\ call'[p][s].got = got
<1> DEFINE m == Moved(p, s, step, base, got)
<1>1. call[p][s] \in CallsOf(Bases, Gots)
    BY DEF Shaped
<1>2. /\ m \in CallsOf(Bases, Gots)
      /\ m = Unsent \/ (m.at = step /\ m.base = base /\ m.got = got)
    <2>1. CASE step \in Running \/ call[p][s].heard
        <3>1. m = [at |-> step, base |-> base, got |-> got, heard |-> call[p][s].heard]
            BY <2>1 DEF Moved
        <3>2. call[p][s].heard \in BOOLEAN
            BY <1>1 DEF CallsOf
        <3> HIDE DEF m
        <3> QED BY <3>1, <3>2 DEF CallsOf
    <2>2. CASE ~(step \in Running \/ call[p][s].heard)
        <3>1. m = Unsent
            BY <2>2 DEF Moved
        <3> HIDE DEF m
        <3> QED BY <3>1, UnsentShape DEF Shaped
    <2> QED BY <2>1, <2>2
<1>3. call' = [call EXCEPT ![p][s] = m]
    BY DEF Move
<1> HIDE DEF m
<1>4. call' \in [Flights -> [Slots -> CallsOf(Bases, Gots)]]
    BY <1>2, <1>3 DEF Shaped
<1>5. call'[p][s] = m
    BY <1>3 DEF Shaped
<1>6. \A q \in Flights, t \in Slots : (q # p \/ t # s) => call'[q][t] = call[q][t]
    BY <1>3 DEF Shaped
<1> QED BY <1>2, <1>4, <1>5, <1>6 DEF Shaped

\* A call moves: what it carries need not be known.
LEMMA MovedCall ==
    ASSUME NEW Ops, NEW Args, NEW Bases, NEW Gots, Shaped(Ops, Args, Bases, Gots),
           NEW p \in Flights, NEW s \in Slots, NEW step, NEW base, NEW got,
           Move(p, s, step, base, got)
    PROVE  /\ \A q \in Flights, t \in Slots :
                (q # p \/ t # s) => call'[q][t] = call[q][t]
           /\ \/ call'[p][s] = Unsent
              \/ /\ call'[p][s].at = step
                 /\ call'[p][s].base = base /\ call'[p][s].got = got
<1> DEFINE m == Moved(p, s, step, base, got)
<1>1. m = Unsent \/ (m.at = step /\ m.base = base /\ m.got = got)
    BY DEF Moved
<1>2. call' = [call EXCEPT ![p][s] = m]
    BY DEF Move
<1> HIDE DEF m
<1> QED BY <1>1, <1>2 DEF Shaped

\* What goes wrong.
LEMMA DisconnectShape ==
    ASSUME NEW Ops, NEW Args, NEW Bases, NEW Gots, Shaped(Ops, Args, Bases, Gots),
           NEW p \in Flights, NEW s \in Slots, NEW ops, Disconnect(p, s, ops)
    PROVE  Shaped(Ops, Args, Bases, Gots)' /\ Calm
<1> DEFINE c == [call[p][s] EXCEPT !.heard = FALSE]
<1>1. call[p][s] \in CallsOf(Bases, Gots)
    BY DEF Shaped
<1>2. /\ c \in CallsOf(Bases, Gots)
      /\ c.at = call[p][s].at /\ c.base = call[p][s].base /\ c.got = call[p][s].got
    BY <1>1 DEF CallsOf
<1>3. call' = [call EXCEPT ![p][s] = c] /\ flight' = flight
    BY DEF Disconnect, Shaped
<1> HIDE DEF c
<1>4. call' \in [Flights -> [Slots -> CallsOf(Bases, Gots)]]
    BY <1>2, <1>3 DEF Shaped
<1>5. \A q \in Flights, t \in Slots : SameCall(q, t)
    <2>1. call'[p][s] = c
        BY <1>3 DEF Shaped
    <2>2. \A q \in Flights, t \in Slots : (q # p \/ t # s) => call'[q][t] = call[q][t]
        BY <1>3 DEF Shaped
    <2> QED BY <1>2, <2>1, <2>2 DEF SameCall
<1> QED BY <1>3, <1>4, <1>5 DEF Shaped, Calm, CalmAt, SameRequest

LEMMA WorkerCrashShape ==
    ASSUME NEW Ops, NEW Args, NEW Bases, NEW Gots, Shaped(Ops, Args, Bases, Gots),
           NEW s \in Slots, WorkerCrash(s)
    PROVE  Shaped(Ops, Args, Bases, Gots)' /\ Calm
<1> DEFINE m(q) == Moved(q, s, "err", Nil, Nil)
<1>1. \A q \in Flights : call'[q] = IF call[q][s].at \in Running
                                    THEN [call[q] EXCEPT ![s] = m(q)] ELSE call[q]
    BY DEF WorkerCrash
<1>2. ASSUME NEW q \in Flights
      PROVE  /\ m(q) \in CallsOf(Bases, Gots) /\ m(q).at \in {"none", "err"}
             /\ m(q).base = Nil /\ m(q).got = Nil
    <2>1. call[q][s].heard \in BOOLEAN
        BY DEF Shaped, CallsOf
    <2>2. CASE call[q][s].heard
        BY <2>1, <2>2, AtsOf DEF Moved, CallsOf, Shaped
    <2>3. CASE ~call[q][s].heard
        <3>1. /\ m(q) = Unsent /\ Unsent.at = "none"
              /\ Unsent.base = Nil /\ Unsent.got = Nil
            BY <2>3, AtsOf DEF Moved, Unsent
        <3> QED BY <3>1, UnsentShape DEF Shaped
    <2> QED BY <2>2, <2>3
<1> HIDE DEF m
<1>3. ASSUME NEW q \in Flights
      PROVE  /\ call'[q] \in [Slots -> CallsOf(Bases, Gots)]
             /\ \A t \in Slots : SameCall(q, t) \/ Ends(q, t)
    <2>1. call[q] \in [Slots -> CallsOf(Bases, Gots)]
        BY DEF Shaped
    <2>2. CASE call[q][s].at \in Running
        <3>1. call'[q] = [call[q] EXCEPT ![s] = m(q)]
            BY <1>1, <2>2
        <3>2. call'[q][s] = m(q)
            BY <2>1, <3>1
        <3>3. \A t \in Slots \ {s} : call'[q][t] = call[q][t]
            BY <2>1, <3>1
        <3>4. call'[q] \in [Slots -> CallsOf(Bases, Gots)]
            BY <1>2, <2>1, <3>1
        <3> QED BY <1>2, <2>2, <3>2, <3>3, <3>4 DEF SameCall, Ends
    <2>3. CASE call[q][s].at \notin Running
        BY <1>1, <2>1, <2>3 DEF SameCall
    <2> QED BY <2>2, <2>3
<1>4. call' \in [Flights -> [Slots -> CallsOf(Bases, Gots)]] /\ flight' = flight
    BY <1>3 DEF WorkerCrash
<1> QED BY <1>3, <1>4 DEF Shaped, Calm, CalmAt, SameRequest

=============================================================================
