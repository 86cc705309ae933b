SPECIFICATION FairSpec
CONSTANTS
  Keys = {"k1", "k2"}
  TicksPerMinute = 3
  Rpm = 2
  Burst = 1
  Missing = Missing
  Garbled = Garbled
  EnvChoices <- MCEnv
  FileChoices <- MCFile
  Clients = {1, 2}
  Kinds = {"write", "read", "options", "malformed"}
  MaxClock = 3
  MaxRequests = 3
CHECK_DEADLOCK FALSE
INVARIANTS
  RateBound
  WaitedIsAdmitted
  ServiceGuarded
  RefusalChangesNothing
PROPERTIES
  SignalExits
