SPECIFICATION Spec
CONSTANTS
  MaxInt = 1
  Deltas <- MCDeltas
  LevelValues = {1}
  Absent = absent
  Clients = {c1, c2}
  MaxCalls = 3
  Faults = FALSE
  NoCache = nocache
  Torn = torn
  Chosen = {"sql"}
INVARIANTS
  SqlAdditionsSum
CHECK_DEADLOCK FALSE
