\* Three requests at a time on one pair, no failures.
SPECIFICATION Spec
CONSTANTS
  u1 = u1  u2 = u2  s1 = s1  s2 = s2  key1 = key1  r1 = r1  r2 = r2
  pass = pass  serum = serum  None = None
  Users = {u1}
  MaleBuds = {m1}  FemaleBuds = {f1}
  Slots = {s1}  SlotUser <- OneOwner  SlotKey <- FreeKeys  SlotOpen <- AllOpen
  Keys = {}
  Items = {}  FarmerPass = pass  SuperweedSerum = serum  Stock <- NoItems
  Reqs = {r1, r2, r3}
  MaxPairs = 1
  TargetLevel = 2
  LevelPrice = 15  InitialPoints = 45
  TimePeriod = 1  MaxTime = 2
  Bonuses = {0, 1}
  Endpoints = {"createPair", "levelUp", "finalize", "cancel"}
  MayFail = FALSE
SYMMETRY ReqSymmetry
INVARIANTS
  LadderNeverStuck
