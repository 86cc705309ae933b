SPECIFICATION FairSpec
CONSTANTS
  MaxInt = 450
  Names = {alice}
  Blank = blank
  Metrics = {xp, pts}
  XP = xp
  Badges = {b1}
  BadBadge = bad
  Clients = {c1, c2}
  Deltas <- MCDeltas
  MaxCalls = 4
INVARIANTS
  TypeOK
  LevelsEarned
  NoLevelUpLost
  StoredLevelAnnounced
  OneRecordPerUser
  AnnouncedBadgeHeld
PROPERTIES
  SerialLevelCurrent
  SustainedLevelAnnounced
CHECK_DEADLOCK FALSE
