SPECIFICATION FairSpec
CONSTANTS
  Workers = {1, 2}
  MaxSubs = 2
  Buffer = 1
  MaxEvents = 2
  Conns = {1}
  WireBuffer = 1
  OutBuffer = 1
CHECK_DEADLOCK FALSE
INVARIANTS
  PanicOnlyFromRace
  FlowInOrder
PROPERTIES
  BroadcastReturns
  EventReachesClient
  ExpiredStreamCollected
  StreamCloses
