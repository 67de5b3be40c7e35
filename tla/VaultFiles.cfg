CONSTANTS
  s1 = s1
  s2 = s2
  s3 = s3
  r1 = r1
  r2 = r2
  k1 = k1
  p1 = p1
  p2 = p2
  p3 = p3
  Nil = Nil
  Slots = {s1, s2}
  Threshold = 2
  Inits = {r1, r2}
  KeyOf <- OneKey
  Flights = {p1, p2}
  MaxExits = 1
  Kind <- OneWithdrawal
  MaxDeposits = 1
  MaxEvents = 1
  MaxFaults = 1
SPECIFICATION Spec
INVARIANTS
  CursorIsBacked
  PinsAgree
  TranscriptsAreHeld
PROPERTIES
  FrozenForever
SYMMETRY Alike
CHECK_DEADLOCK FALSE
