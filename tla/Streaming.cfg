SPECIFICATION PublisherFairSpec
CONSTANTS
  Inputs <- MCInputs
  TicksPerDay = 1
  Days = {0, 2}
  FirstWeekday = 6
  MonthStarts = {1}
  MaxLate = 0
  MaxEvents = 2
  Workers = {1, 2}
  MaxRecent = 1
  Buffer = 1
  MaxSubs = 1
CHECK_DEADLOCK FALSE
INVARIANTS
  DashboardCounts
PROPERTIES
  ReaderEnds
