\* One request at a time, no failures, under the fairness of the event loop.
SPECIFICATION FairSpec
CONSTANTS
  u1 = u1  u2 = u2  k1 = k1  k2 = k2  t1 = t1  t2 = t2  t3 = t3  t4 = t4  t5 = t5
  r1 = r1  r2 = r2  None = None
  Users = {u1}  Keys = {k1}
  Txs = {t1, t2, t3, t4, t5}  Events <- AllKinds
  SlotsPerLand = 2
  PriceToOpen = 4200  PriceIndoor = 6900  LandPrice = 14000
  Reqs = {r1}
  MaxSlots = 6  MaxHandled = 2  MaxTime = 1
  Endpoints = {"login", "openSlot", "convertIndoor", "purchase", "invalidateSlots",
               "convertBp2High", "deposit", "withdraw", "burn"}
  MayFail = FALSE
INVARIANTS
  TypeOK
  LedgerBalances
  FreeLandOnce
  HandledOnce
  VoucherCovered
PROPERTIES
  DepositCredited
