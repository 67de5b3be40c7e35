CONSTANTS
  s1 = s1
  s2 = s2
  r1 = r1
  q1 = q1
  p1 = p1
  p2 = p2
  Nil = Nil
  Slots = {s1, s2}
  Threshold = 2
  Ids = {r1}
  Inits <- CeremonyInits
  KeyOf <- CeremonyKey
  Named = {q1}
  MaxRuns = 1
  Flights = {p1, p2}
  MaxExits = 0
  Kind <- NoExits
  MaxDeposits = 1
  MaxEvents = 1
  MaxFaults = 1
SPECIFICATION CeremonySpec
INVARIANTS
  NonceAnswersOnce
  FrozenKeyIsWhole
PROPERTIES
  CeremonyFinishes
CHECK_DEADLOCK FALSE
