SPECIFICATION Spec
CONSTANTS
  p1 = p1
  p2 = p2
  Nil = Nil
  Slots = {1, 2, 3}
  Flights = {p1, p2}
  Quorum = 2
  Attempts = 2
  MaxMoves = 2
  MaxFaults = 1
INVARIANTS
  RoundsAgree
  SuccessIsTrue
PROPERTIES
  NormalizationFinishes
CHECK_DEADLOCK FALSE
