------------------------------- MODULE FanOut --------------------------------
(***************************************************************************)
(* How the coordinator asks the deoperators: a request takes a lock of the *)
(* coordinator, posts one call to the node of each slot, waits for all of  *)
(* them (Promise.all) and answers.  A call the coordinator stops waiting   *)
(* for runs on at the worker, and its answer is lost.                      *)
(***************************************************************************)
EXTENDS Integers, FiniteSets

CONSTANTS
    Slots,      \* the slots of the roster
    Flights,    \* requests the coordinator and the workers have in hand
    Nil,        \* undefined, None
    MaxFaults   \* bound on crashes and lost answers

VARIABLES
    flight,     \* the coordinator's requests
    call,       \* what they asked of each worker, and how far it got
    faults      \* what is left of MaxFaults

Running == {"sent", "read", "fetched", "pinned"}

Unsent == [at |-> "none", base |-> Nil, got |-> Nil, heard |-> FALSE]
Sent   == [at |-> "sent", base |-> Nil, got |-> Nil, heard |-> TRUE]
Free   == [op |-> "none", slots |-> {}, arg |-> Nil, open |-> FALSE]

\* The calls of p have ended at every worker, so p can carry a new request.
Idle(p) ==
    /\ ~flight[p].open
    /\ \A s \in Slots : call[p][s].at \notin Running

\* A lock of the coordinator is held while a request of these kinds is open.
Locked(ops) == \E p \in Flights : flight[p].open /\ flight[p].op \in ops

\* Promise.all over forwardToRosterNode: one call to each slot of S.
Post(p, op, S, arg) ==
    /\ flight' = [flight EXCEPT ![p] =
            [op |-> op, slots |-> S, arg |-> arg, open |-> TRUE]]
    /\ call' = [call EXCEPT ![p] =
            [s \in Slots |-> IF s \in S THEN Sent ELSE Unsent]]

Answered(p, s) == ~call[p][s].heard \/ call[p][s].at \in {"ok", "err"}
Accepted(p, s) == call[p][s].heard /\ call[p][s].at = "ok"
AllAnswered(p) == \A s \in flight[p].slots : Answered(p, s)
AllAccepted(p) == \A s \in flight[p].slots : Accepted(p, s)

Dropped(p) ==
    IF \E s \in Slots : call[p][s].at \in Running
    THEN [flight[p] EXCEPT !.open = FALSE]
    ELSE Free

Unheard(p) == [s \in Slots |->
    IF call[p][s].at \in Running
    THEN [call[p][s] EXCEPT !.heard = FALSE]
    ELSE Unsent]

\* The handler answers its client and, in a finally, releases its lock.
Close(p) ==
    /\ flight' = [flight EXCEPT ![p] = Dropped(p)]
    /\ call' = [call EXCEPT ![p] = Unheard(p)]

\* It answers with an error.
Fail(p) == Close(p)

\* Worker s has call p at this step.
At(p, s, op, step) ==
    /\ flight[p].op = op
    /\ call[p][s].at = step

\* A call that is not heard leaves nothing behind when it ends.
Moved(p, s, step, base, got) ==
    IF step \in Running \/ call[p][s].heard
    THEN [at |-> step, base |-> base, got |-> got, heard |-> call[p][s].heard]
    ELSE Unsent

Move(p, s, step, base, got) ==
    call' = [call EXCEPT ![p][s] = Moved(p, s, step, base, got)]

Reply(p, s, got) == Move(p, s, "ok", Nil, got)
Reject(p, s)     == Move(p, s, "err", Nil, Nil)

----------------------------------------------------------------------------
(* What goes wrong                                                         *)

Fault == faults > 0 /\ faults' = faults - 1

\* The coordinator loses the connection, or gives the call up when its time is
\* over, and the worker goes on with it.
Disconnect(p, s, ops) ==
    /\ Fault
    /\ flight[p].open /\ flight[p].op \in ops
    /\ call[p][s].at \in Running /\ call[p][s].heard
    /\ call' = [call EXCEPT ![p][s].heard = FALSE]
    /\ UNCHANGED flight

\* A crashed worker ends its calls; its files are the last ones renamed or
\* linked into place.
WorkerCrash(s) ==
    /\ Fault
    /\ \E p \in Flights : call[p][s].at \in Running
    /\ call' = [p \in Flights |->
            IF call[p][s].at \in Running
            THEN [call[p] EXCEPT ![s] = Moved(p, s, "err", Nil, Nil)]
            ELSE call[p]]
    /\ UNCHANGED flight

\* Locks and open requests are in the coordinator's memory only.
Restart ==
    /\ Fault
    /\ flight' = [p \in Flights |-> Dropped(p)]
    /\ call' = [p \in Flights |-> Unheard(p)]

CoordinatorCrash ==
    /\ \E p \in Flights : flight[p].open
    /\ Restart

FanOutInit ==
    /\ flight = [p \in Flights |-> Free]
    /\ call = [p \in Flights |-> [s \in Slots |-> Unsent]]
    /\ faults = MaxFaults

=============================================================================
