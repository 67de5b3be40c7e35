SPECIFICATION ScriptSpec
CONSTANTS
  n1 = n1
  n2 = n2
  Nil = Nil
  Slots = {1, 2, 3}
  Threshold = 2
  Notes = {n1, n2}
  Paths = {"split", "coordinator"}
  MaxMoves = 1
  MaxFaults = 2
INVARIANTS
  ZeroIsTrue
PROPERTIES
  NotesAreWithdrawn
