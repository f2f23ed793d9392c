\* One request at a time, no failures, under the fairness of the event loop: two users,
\* two pairs, buds and slots change hands between any two steps. The clock stands still
\* (every breeding time is over at once), and every bonus is 0, which the code takes for
\* a level not evaluated yet.
SPECIFICATION FairSpec
CONSTANTS
  u1 = u1  u2 = u2  s1 = s1  s2 = s2  key1 = key1  r1 = r1  r2 = r2
  pass = pass  serum = serum  None = None
  Users = {u1, u2}
  MaleBuds = {m1, m2}  FemaleBuds = {f1, f2}
  Slots = {s1, s2}  SlotUser <- TwoOwners  SlotKey <- Keyed  SlotOpen <- AllOpen
  Keys = {key1}
  Items = {}  FarmerPass = pass  SuperweedSerum = serum  Stock <- NoItems
  Reqs = {r1}
  MaxPairs = 2
  TargetLevel = 1
  LevelPrice = 15  InitialPoints = 0
  TimePeriod = 0  MaxTime = 0
  Bonuses = {0}
  Endpoints = {"createPair", "finalize", "cancel", "invalidate",
               "adminInvalidate", "invalidateSlots", "transferBud"}
  MayFail = FALSE
INVARIANTS
  BudBredOnce
  SlotBredOnce
  SlotUsedIffBred
  RewardOnce
PROPERTIES
  SettledIsFinal
  SlotReleased
