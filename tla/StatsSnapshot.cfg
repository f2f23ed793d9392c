\* One job at a time, one failing statement, two users and two pairs.
SPECIFICATION FairSpec
CONSTANTS
  u1 = u1  u2 = u2  p1 = p1  p2 = p2  j1 = j1  None = None
  Users = {u1, u2}  Pairs = {p1, p2}
  LevelPrice = 15  IndoorPrice = 69  TenthsPerLevel <- Rates
  TargetLevel = 1
  Jobs = {j1}
  MaxEvents = 1  MaxFailures = 1
INVARIANTS
  BpNeverDoubled
  SnapshotExact
PROPERTIES
  CatchesUp
