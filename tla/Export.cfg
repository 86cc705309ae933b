SPECIFICATION FairSpec
CONSTANTS
  Inputs <- MCInputs
  TicksPerDay = 1
  Days = {0, 1}
  FirstWeekday = 0
  MonthStarts = {1}
  MaxLate = 1
  MaxEvents = 1
  MaxAggs = 2
  Setups <- MCSetups
  MaxFailures = 2
  MaxHeld = 0
CHECK_DEADLOCK FALSE
INVARIANTS
  AggregateBracketed
  RoundDelivers
PROPERTIES
  HeldIsDelivered
