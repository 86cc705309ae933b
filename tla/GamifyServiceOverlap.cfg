SPECIFICATION Spec
CONSTANTS
  MaxInt = 450
  Names = {alice}
  Blank = blank
  Metrics = {xp, pts}
  XP = xp
  Badges = {b1}
  BadBadge = bad
  Clients = {c1, c2}
  Deltas <- MCDeltas
  MaxCalls = 2
INVARIANTS
  StoredLevelCurrent
CHECK_DEADLOCK FALSE
