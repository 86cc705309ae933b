SPECIFICATION FairSpec
CONSTANTS
  Runners = {r1, r2}
  Types = {ta}
  Capacity = 2
  MaxEvents = 1
  MaxSubs = 1
PROPERTIES
  QueuedBeforeCloseDispatched
CHECK_DEADLOCK FALSE
