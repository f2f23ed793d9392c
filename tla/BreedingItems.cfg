\* One request at a time that may fail, pairs created with in-game items.
SPECIFICATION Spec
CONSTANTS
  u1 = u1  u2 = u2  s1 = s1  s2 = s2  key1 = key1  r1 = r1  r2 = r2
  pass = pass  serum = serum  None = None
  Users = {u1, u2}
  MaleBuds = {m1, m2}  FemaleBuds = {f1, f2}
  Slots = {s1, s2}  SlotUser <- OneOwner  SlotKey <- FreeKeys  SlotOpen <- AllOpen
  Keys = {}
  Items = {pass}  FarmerPass = pass  SuperweedSerum = serum  Stock <- OneEach
  Reqs = {r1}
  MaxPairs = 2
  TargetLevel = 2
  LevelPrice = 15  InitialPoints = 30
  TimePeriod = 0  MaxTime = 0
  Bonuses <- WithLoss
  Endpoints = {"createPair", "levelUp", "transferItem"}
  MayFail = TRUE
SYMMETRY BudSymmetry
PROPERTIES
  BonusFixed
  ItemsCoverPairs
