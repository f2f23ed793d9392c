\* One snapshot at a time and one client reading in pages of one
\* or two rows, or with no limit.
SPECIFICATION BoardSpec
CONSTANTS
  u1 = u1  u2 = u2  u3 = u3  j1 = j1  None = None
  Users = {u1, u2, u3}  Pairs = {}
  LevelPrice = 15  IndoorPrice = 69  TenthsPerLevel <- NoPairs
  TargetLevel = 2
  Jobs = {j1}
  MaxEvents = 4  MaxFailures = 0
  Limits = {0, 1, 3}  MaxTake = 2  MaxPages = 4
SYMMETRY UserSymmetry
INVARIANTS
  PagesComplete
  PagesDescend
