SPECIFICATION FairSpec
CONSTANTS
  Runners = {r1, r2}
  Types = {ta}
  Capacity = 1
  MaxEvents = 3
  MaxSubs = 2
INVARIANTS
  TypeOK
  EventInOnePlace
  NeverRedelivered
  SubscriberNotMissed
  LateCallsBounded
PROPERTIES
  AcceptedIsDispatched
  CloseStopsWorkers
CHECK_DEADLOCK FALSE
