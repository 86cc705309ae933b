SPECIFICATION FairSpec
CONSTANTS
  MaxInt = 1
  Deltas <- MCDeltas
  LevelValues = {1}
  Absent = absent
  Clients = {c1, c2}
  MaxCalls = 3
  Faults = TRUE
  NoCache = nocache
  Torn = torn
  Chosen = {"sql", "redis", "file", "fallback"}
INVARIANTS
  SqlSnapshotOrdered
  RedisStaleExplained
  FallbackSerialSafe
PROPERTIES
  SqlUnovertakenExact
  SqlInsertOnce
  RedisCacheSettles
  FileKeepsContract
CHECK_DEADLOCK FALSE
