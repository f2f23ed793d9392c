\* Two createPair requests overlap and take the same slot.
SPECIFICATION Spec
CONSTANTS
  u1 = u1  u2 = u2  s1 = s1  s2 = s2  key1 = key1  r1 = r1  r2 = r2
  pass = pass  serum = serum  None = None
  Users = {u1}
  MaleBuds = {m1, m2}  FemaleBuds = {f1, f2}
  Slots = {s1}  SlotUser <- OneOwner  SlotKey <- FreeKeys  SlotOpen <- AllOpen
  Keys = {}
  Items = {}  FarmerPass = pass  SuperweedSerum = serum  Stock <- NoItems
  Reqs = {r1, r2}
  MaxPairs = 2
  TargetLevel = 1
  LevelPrice = 15  InitialPoints = 0
  TimePeriod = 0  MaxTime = 0
  Bonuses = {0, 1}
  Endpoints = {"createPair"}
  MayFail = FALSE
SYMMETRY ReqSymmetry
INVARIANTS
  SlotBredOnce
