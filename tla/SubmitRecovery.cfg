SPECIFICATION SubmitSpec
CONSTANTS
    s1 = s1
    s2 = s2
    p1 = p1
    p2 = p2
    u1 = u1
    Slots = {s1, s2}
    Flights = {p1}
    Nil = Nil
    Proofs = {u1}
    Movable = {}
    Repeats = {"commit"}
    Signatures = {1, 2}
    MaxStarts = 5
    MaxFaults = 2
INVARIANTS
    CompletedIsSettled
PROPERTIES
    RecordedIsKept
    SessionFinishes
    SubmitFinishes
CHECK_DEADLOCK FALSE
