\* Two requests at a time, any of which may fail; a deposit is reported again, and
\* breeding opens and upgrades slots while they are being bought.
SPECIFICATION Spec
CONSTANTS
  u1 = u1  u2 = u2  k1 = k1  k2 = k2  t1 = t1  t2 = t2  t3 = t3  t4 = t4  t5 = t5
  r1 = r1  r2 = r2  None = None
  Users = {u1}  Keys = {k1, k2}
  Txs = {t1}  Events <- Deposits
  SlotsPerLand = 2
  PriceToOpen = 4200  PriceIndoor = 6900  LandPrice = 14000
  Reqs = {r1, r2}
  MaxSlots = 4  MaxHandled = 2  MaxTime = 0
  Endpoints = {"login", "openSlot", "purchase", "deposit", "finalize", "createPair"}
  MayFail = TRUE
SYMMETRY ReqSymmetry
INVARIANTS
  DepositOnce
  LedgerInv
  GoodsPaid
  LoginGivesLand
