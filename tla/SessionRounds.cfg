CONSTANTS
  s1 = s1
  s2 = s2
  p1 = p1
  p2 = p2
  u1 = u1
  Nil = Nil
  Slots = {s1, s2}
  Flights = {p1, p2}
  MaxFaults = 1
  MaxStarts = 2
  Proofs = {u1}
  Movable = {s1, s2}
  Repeats = {"start", "round2", "finalize"}
  Signatures = {1}
SPECIFICATION Spec
INVARIANTS
  OneChallenge
  FinalIsBacked
PROPERTIES
  FinalIsStable
SYMMETRY Alike
CHECK_DEADLOCK FALSE
