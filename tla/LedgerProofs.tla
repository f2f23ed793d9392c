---------------------------- MODULE LedgerProofs ----------------------------
(***************************************************************************)
(* Proofs about Ledger, for any events, users, keys, prices and number of  *)
(* requests.                                                               *)
(*                                                                         *)
(* - LedgerInv is inductive; the type invariant, DepositOnce and           *)
(*   LoginGivesLand are conjuncts of it.                                   *)
(* - CalmInv is inductive while requests do not overlap (Serial): what a   *)
(*   request read of the points is what they still are.  It gives          *)
(*   VoucherCovered and FreeLandOnce, and LedgerBalances with it; nothing  *)
(*   is assumed of failures.  HandledInv also needs that nothing fails.    *)
(* - GoodsInv needs neither: a price once taken is either in the goods of  *)
(*   the user or in the locals of a request about to give them, and what   *)
(*   breeding gives free is counted when it is given.                      *)
(***************************************************************************)
EXTENDS Ledger, SequenceTheorems, SumTheorems, TLAPS

LEMMA WholeZero == Whole(0)
  BY DEF Whole

-----------------------------------------------------------------------------
(* Types *)

TablesOK ==
  /\ account \in [Users -> Keys \union {None}]
  /\ points \in [Users -> Int]
  /\ \A u \in Users : Whole(points[u])
  /\ slots \in Seq(SlotRow)
  /\ log \subseteq LogRow
  /\ gen1 \in [Txs -> Gen1Row]
  /\ now \in Nat
  /\ voucher \in [Events -> Nat \union {None}]
  /\ credited \in [Txs -> Nat] /\ debited \in [Txs -> Nat]
  /\ charged \in [Users -> Nat] /\ withdrawn \in [Users -> Nat] /\ given \in [Users -> Nat]

LEMMA TypeParts == TypeOK <=> TablesOK /\ req \in [Reqs -> Local]
  BY DEF TypeOK, TablesOK

LEMMA IdleType == Idle \in Local
  BY DEF Idle, Local, Ops, Pcs

\* Replacing the locals of one request keeps the locals typed.
LEMMA LocalsType ==
  ASSUME TypeOK, NEW r \in Reqs, NEW x \in Local, req' = [req EXCEPT ![r] = x]
  PROVE  /\ (req \in [Reqs -> Local])'
         /\ req'[r] = x
         /\ \A q \in Reqs \ {r} : req'[q] = req[q]
  BY DEF TypeOK

LEMMA GotoLocal ==
  ASSUME TypeOK, NEW r \in Reqs, NEW pc \in Pcs, Goto(r, pc)
  PROVE  /\ [req[r] EXCEPT !.pc = pc] \in Local
         /\ req' = [req EXCEPT ![r] = [req[r] EXCEPT !.pc = pc]]
  BY DEF TypeOK, Local, Goto

\* What going on to another await leaves of the locals.
LEMMA PcFields ==
  ASSUME NEW y \in Local, NEW pc, NEW x, x = [y EXCEPT !.pc = pc]
  PROVE  /\ x.pc = pc /\ x.op = y.op /\ x.user = y.user /\ x.key = y.key
         /\ x.event = y.event /\ x.seen = y.seen /\ x.price = y.price
         /\ x.slot = y.slot /\ x.land = y.land
  BY DEF Local

\* Setting two fields is setting the locals once.
LEMMA SeenAndPc ==
  ASSUME NEW f \in [Reqs -> Local], NEW r \in Reqs, NEW n, NEW pc
  PROVE  [f EXCEPT ![r].seen = n, ![r].pc = pc] = [f EXCEPT ![r] = [f[r] EXCEPT !.seen = n, !.pc = pc]]
  BY DEF Local

-----------------------------------------------------------------------------
(* The invariant as a predicate of values, so that it can be stated of the *)
(* tables and the locals before and after a step                           *)

\* LandFor, of the rows S.
LandIn(S, u, key) == \E s \in DOMAIN S : S[s].user = u /\ S[s].key = key /\ S[s].open

\* Rows are added, opened, converted and marked deleted, never moved or closed.
Grown(S, T) ==
  /\ DOMAIN S \subseteq DOMAIN T
  /\ \A s \in DOMAIN S :
       /\ T[s].user = S[s].user /\ T[s].key = S[s].key /\ T[s].land = S[s].land
       /\ S[s].open => T[s].open

\* FreeLandsOpen, of the rows S.
FreeOpen(S) == \A s \in DOMAIN S : S[s].land = None => LandIn(S, S[s].user, S[s].key)

LoginPcs == {"freeSlots", "upsert"}
PayerPcs == {"readPoints", "writePoints", "open", "convert", "countLand", "newLand"}
VoucherPcs == {"readBalance", "signVoucher"}
EventPcs == {"findUser", "insertLog", "credit", "debit", "dice", "mint", "sign"}
GiftPcs == {"openFree", "upgradeFree"}

\* RequestInv, of the locals x, the log L, the credits C and the rows S.
LocalInv(x, L, C, S) ==
  /\ x.pc \in LoginPcs => x.op = "login" /\ x.user \in Users /\ x.key \in Keys
  /\ x.pc \in PayerPcs => x.user \in Users
  /\ x.pc \in EventPcs => x.event \in Events /\ x.op = OpOf(x.event.type)
                          /\ x.user = x.event.user
  /\ x.pc \in VoucherPcs => x.event \in Events /\ x.user = x.event.user
  /\ Whole(x.seen) /\ Whole(x.price)
  /\ x.pc = "credit" => /\ x.op = "deposit"
                        /\ [tx |-> x.event.tx, type |-> "DEPOSIT_BP"] \in L
                        /\ C[x.event.tx] = 0
  /\ x.pc = "upsert" => LandIn(S, x.user, x.key)

LEMMA RequestInvIs ==
  ASSUME NEW r \in Reqs
  PROVE  /\ RequestInv(r) <=> LocalInv(req[r], log, credited, slots)
         /\ RequestInv(r)' <=> LocalInv(req'[r], log', credited', slots')
  BY DEF RequestInv, LoginKnows, PayerKnows, EventKnows, VoucherKnows, SeenWhole, CreditPending, Crediting,
         UpsertHasLand, LocalInv, LoginPcs, PayerPcs, EventPcs, VoucherPcs, LandFor, LandIn, SlotIds

LEMMA FreeOpenIs == /\ FreeLandsOpen <=> FreeOpen(slots)
                    /\ FreeLandsOpen' <=> FreeOpen(slots')
  BY DEF FreeLandsOpen, FreeOpen, LandFor, LandIn, SlotIds

LEMMA LoginGivesIs ==
  /\ LoginGivesLand <=> \A u \in Users : account[u] # None => LandIn(slots, u, account[u])
  /\ LoginGivesLand' <=> \A u \in Users : account'[u] # None => LandIn(slots', u, account'[u])
  BY DEF LoginGivesLand, LandFor, LandIn, SlotIds

LEMMA GrownLand ==
  ASSUME NEW S, NEW T, Grown(S, T), NEW u, NEW key, LandIn(S, u, key)
  PROVE  LandIn(T, u, key)
  BY DEF Grown, LandIn

LEMMA GrownSame == ASSUME NEW S PROVE Grown(S, S)
  BY DEF Grown

\* A request that is idle knows nothing.
LEMMA IdleInv == ASSUME NEW L, NEW C, NEW S PROVE LocalInv(Idle, L, C, S)
  BY WholeZero DEF LocalInv, Idle, LoginPcs, PayerPcs, EventPcs, VoucherPcs

\* What another request knows stays true when the log and the rows grow and
\* nobody credits its tx.
LEMMA OthersKnow ==
  ASSUME NEW x, NEW L, NEW C, NEW S, NEW LL, NEW CC, NEW SS,
         LocalInv(x, L, C, S), L \subseteq LL, Grown(S, SS),
         x.pc = "credit" => CC[x.event.tx] = 0
  PROVE  LocalInv(x, LL, CC, SS)
<1>1. x.pc = "upsert" => LandIn(SS, x.user, x.key)
  BY GrownLand DEF LocalInv
<1> QED BY <1>1 DEF LocalInv

\* A step of one request keeps the invariant when it keeps the tables in order
\* and the request, and whoever else credits, still know what they must.
LEMMA Step ==
  ASSUME LedgerInv, NEW r \in Reqs, NEW x \in Local, req' = [req EXCEPT ![r] = x],
         TablesOK', log \subseteq log', Grown(slots, slots'),
         FreeLandsOpen', LoginGivesLand', DepositOnce',
         LocalInv(x, log', credited', slots'),
         \A q \in Reqs \ {r} :
           Crediting(q) => /\ credited'[req[q].event.tx] = 0
                           /\ x.pc = "credit" => x.event.tx # req[q].event.tx
  PROVE  LedgerInv'
<1>1. /\ TypeOK /\ OneCreditor /\ \A q \in Reqs : RequestInv(q)
  BY DEF LedgerInv
<1>2. /\ (req \in [Reqs -> Local])' /\ req'[r] = x /\ \A q \in Reqs \ {r} : req'[q] = req[q]
  BY <1>1, LocalsType
<1>3. TypeOK'
  BY <1>2 DEF TypeOK, TablesOK
<1>4. ASSUME NEW q \in Reqs PROVE RequestInv(q)'
  <2>1. CASE q = r
    BY <2>1, <1>2, RequestInvIs
  <2>2. CASE q # r
    <3>1. LocalInv(req[q], log, credited, slots)
      BY <1>1, RequestInvIs
    <3>2. LocalInv(req[q], log', credited', slots')
      BY <3>1, <2>2, OthersKnow DEF Crediting
    <3> QED BY <3>2, <2>2, <1>2, RequestInvIs
  <2> QED BY <2>1, <2>2
<1>5. OneCreditor'
  <2> SUFFICES ASSUME NEW q \in Reqs, NEW p \in Reqs, q # p, Crediting(q)', Crediting(p)'
               PROVE  (req[q].event.tx # req[p].event.tx)'
    BY DEF OneCreditor
  <2> QED BY <1>1, <1>2 DEF OneCreditor, Crediting
<1> QED BY <1>3, <1>4, <1>5 DEF LedgerInv

\* A step that only sets the locals of a request, and not to credit.
LEMMA LocalStep ==
  ASSUME LedgerInv, NEW r \in Reqs, NEW x \in Local, req' = [req EXCEPT ![r] = x],
         TablesOK', UNCHANGED <<slots, account, log, credited>>,
         LocalInv(x, log, credited, slots), x.pc # "credit"
  PROVE  LedgerInv'
<1>1. FreeLandsOpen /\ LoginGivesLand /\ DepositOnce /\ \A q \in Reqs : RequestInv(q)
  BY DEF LedgerInv
<1>2. FreeLandsOpen' /\ LoginGivesLand'
  BY <1>1, FreeOpenIs, LoginGivesIs
<1>3. DepositOnce'
  BY <1>1 DEF DepositOnce
<1>4. \A q \in Reqs : Crediting(q) => credited'[req[q].event.tx] = 0
  BY <1>1 DEF RequestInv, CreditPending
<1>5. log \subseteq log' /\ Grown(slots, slots') /\ LocalInv(x, log', credited', slots')
  BY GrownSame
<1> QED BY <1>2, <1>3, <1>4, <1>5, Step

LEMMA ReplyStep ==
  ASSUME LedgerInv, NEW r \in Reqs, Reply(r), TablesOK', UNCHANGED <<slots, account, log, credited>>
  PROVE  LedgerInv'
<1>1. Idle.pc # "credit"
  BY DEF Idle
<1> QED BY <1>1, IdleType, IdleInv, LocalStep DEF Reply

-----------------------------------------------------------------------------
(* Steps that touch neither the log nor the slots *)

LEMMA TablesFrame == ASSUME TablesOK, UNCHANGED <<rows, now, history>> PROVE TablesOK'
  BY DEF TablesOK, rows, history

LEMMA Tables == ASSUME LedgerInv PROVE TablesOK
  BY TypeParts DEF LedgerInv

\* A request before it sent anything for its user.
LEMMA StartsStep ==
  ASSUME LedgerInv, NEW r \in Reqs, NEW x \in Local, req' = [req EXCEPT ![r] = x],
         UNCHANGED <<rows, now, history>>, LocalInv(x, log, credited, slots), x.pc # "credit"
  PROVE  LedgerInv'
  BY Tables, TablesFrame, LocalStep DEF rows, history

LEMMA LoginBeginStep ==
  ASSUME LedgerInv, NEW r \in Reqs, LoginBegin(r) PROVE LedgerInv'
<1> DEFINE x(u, key) == [Idle EXCEPT !.op = "login", !.user = u, !.key = key,
                            !.pc = IF HasFreeLand(u, key) THEN "upsert" ELSE "freeSlots"]
<1>1. PICK u \in Users, key \in Keys : req' = [req EXCEPT ![r] = x(u, key)]
  BY Zenon DEF LoginBegin
<1>2. x(u, key) \in Local
  BY IdleType DEF Local, Ops, Pcs
<1>3. /\ x(u, key).op = "login" /\ x(u, key).user = u /\ x(u, key).key = key
      /\ x(u, key).pc = IF HasFreeLand(u, key) THEN "upsert" ELSE "freeSlots"
      /\ x(u, key).seen = 0 /\ x(u, key).price = 0
  BY DEF Idle
<1>4. HasFreeLand(u, key) => LandIn(slots, u, key)
  <2> SUFFICES ASSUME NEW s \in DOMAIN slots, slots[s].user = u, slots[s].key = key,
                      slots[s].land = None
               PROVE  LandIn(slots, u, key)
    BY DEF HasFreeLand, FreeRows, SlotIds
  <2> QED BY FreeOpenIs DEF FreeOpen, LedgerInv
<1> HIDE DEF x
<1>5. LocalInv(x(u, key), log, credited, slots)
  BY <1>3, <1>4, WholeZero DEF LocalInv, LoginPcs, PayerPcs, EventPcs, VoucherPcs
<1> QED BY <1>1, <1>2, <1>3, <1>5, StartsStep DEF LoginBegin

LEMMA PayingLocal ==
  ASSUME NEW op \in Ops, NEW u \in Users, NEW s \in Nat, NEW land \in Nat, NEW price \in Nat,
         Whole(price)
  PROVE  /\ Paying(op, u, s, land, price) \in Local
         /\ Paying(op, u, s, land, price).pc # "credit"
         /\ LocalInv(Paying(op, u, s, land, price), log, credited, slots)
<1> DEFINE x == Paying(op, u, s, land, price)
<1>1. x \in Local
  BY IdleType DEF Paying, Local, Ops, Pcs
<1>2. x.pc = "readPoints" /\ x.user = u /\ x.seen = 0 /\ x.price = price
  BY DEF Paying, Idle
<1> HIDE DEF x
<1>3. LocalInv(x, log, credited, slots)
  BY <1>2, WholeZero DEF LocalInv, LoginPcs, PayerPcs, EventPcs, VoucherPcs
<1> QED BY <1>1, <1>2, <1>3 DEF x

LEMMA PayBeginStep ==
  ASSUME LedgerInv, NEW r \in Reqs, OpenSlotBegin(r) \/ ConvertBegin(r) \/ PurchaseBegin(r)
  PROVE  LedgerInv'
<1>1. \A u \in Users : OwnSlots(u) \subseteq Nat
  BY DEF OwnSlots, SlotIds, LedgerInv, TypeOK
<1>2. /\ PriceToOpen \in Nat /\ Whole(PriceToOpen) /\ PriceIndoor \in Nat /\ Whole(PriceIndoor)
      /\ LandPrice \in Nat /\ Whole(LandPrice) /\ now \in Nat
      /\ {"openSlot", "convertIndoor", "purchase"} \subseteq Ops
  BY PricesAssumption DEF Ops, LedgerInv, TypeOK
<1>3. PICK op \in Ops, u \in Users, s \in Nat, land \in Nat, price \in Nat :
        Whole(price) /\ req' = [req EXCEPT ![r] = Paying(op, u, s, land, price)]
  <2>1. CASE OpenSlotBegin(r)
    <3>1. PICK u \in Users : \E s \in OwnSlots(u) :
            req' = [req EXCEPT ![r] = Paying("openSlot", u, s, 0, PriceToOpen)]
      BY <2>1, Zenon DEF OpenSlotBegin
    <3> QED BY <3>1, <1>1, <1>2
  <2>2. CASE ConvertBegin(r)
    <3>1. PICK u \in Users : \E s \in OwnSlots(u) :
            req' = [req EXCEPT ![r] = Paying("convertIndoor", u, s, 0, PriceIndoor)]
      BY <2>2, Zenon DEF ConvertBegin
    <3> QED BY <3>1, <1>1, <1>2
  <2>3. CASE PurchaseBegin(r)
    <3>1. PICK u \in Users : req' = [req EXCEPT ![r] = Paying("purchase", u, 0, now, LandPrice)]
      BY <2>3, Zenon DEF PurchaseBegin
    <3> QED BY <3>1, <1>2
  <2> QED BY <2>1, <2>2, <2>3
<1>4. UNCHANGED <<rows, now, history>>
  BY DEF OpenSlotBegin, ConvertBegin, PurchaseBegin
<1> QED BY <1>3, <1>4, PayingLocal, StartsStep

LEMMA InvalidateSlotsBeginStep ==
  ASSUME LedgerInv, NEW r \in Reqs, InvalidateSlotsBegin(r) PROVE LedgerInv'
<1> DEFINE x(found) == [Idle EXCEPT !.op = "invalidateSlots", !.doomed = found,
                                    !.pc = "deleteSlots"]
<1>1. PICK prevOwner \in Users, key \in Keys :
        req' = [req EXCEPT ![r] =
                  x({s \in SlotIds : slots[s].user = prevOwner /\ slots[s].key = key})]
  BY Zenon DEF InvalidateSlotsBegin
<1>2. SlotIds \subseteq Nat
  BY DEF SlotIds, LedgerInv, TypeOK
<1>3. ASSUME NEW found \in SUBSET Nat
      PROVE  x(found) \in Local /\ x(found).pc = "deleteSlots"
             /\ x(found).seen = 0 /\ x(found).price = 0
  <2>1. x(found) \in Local
    BY IdleType DEF Local, Ops, Pcs
  <2>2. x(found).pc = "deleteSlots" /\ x(found).seen = 0 /\ x(found).price = 0
    BY DEF Idle
  <2> QED BY <2>1, <2>2
<1> HIDE DEF x
<1>4. ASSUME NEW found \in SUBSET Nat PROVE LocalInv(x(found), log, credited, slots)
  BY <1>3, WholeZero DEF LocalInv, LoginPcs, PayerPcs, EventPcs, VoucherPcs
<1>5. {s \in SlotIds : slots[s].user = prevOwner /\ slots[s].key = key} \in SUBSET Nat
  BY <1>2
<1> QED BY <1>1, <1>3, <1>4, <1>5, StartsStep DEF InvalidateSlotsBegin

LEMMA EventParts ==
  ASSUME NEW e \in Events
  PROVE  /\ e.tx \in Txs /\ e.type \in EventTypes /\ e.user \in Users /\ e.amount \in Nat
         /\ OpOf(e.type) \in {"deposit", "withdraw", "burn"}
         /\ OpOf(e.type) = "deposit" <=> e.type = "DEPOSIT_BP"
         /\ OpOf(e.type) = "withdraw" <=> e.type = "WITHDRAW_BP"
<1>1. e.tx \in Txs /\ e.type \in EventTypes /\ e.user \in Users /\ e.amount \in Nat
  BY EventsAssumption
<1> QED BY <1>1 DEF EventTypes, OpOf

LEMMA EventBeginStep ==
  ASSUME LedgerInv, NEW r \in Reqs, EventBegin(r) PROVE LedgerInv'
<1> DEFINE x(e) == [Idle EXCEPT !.op = OpOf(e.type), !.user = e.user, !.event = e,
                                !.pc = "findUser"]
<1>1. PICK e \in Events : req' = [req EXCEPT ![r] = x(e)]
  BY Zenon DEF EventBegin
<1>2. OpOf(e.type) \in Ops /\ e.user \in Users
  BY EventParts DEF Ops
<1>3. x(e) \in Local
  BY <1>2, IdleType DEF Local, Pcs
<1>4. /\ x(e).pc = "findUser" /\ x(e).event = e /\ x(e).op = OpOf(e.type) /\ x(e).user = e.user
      /\ x(e).seen = 0 /\ x(e).price = 0
  BY DEF Idle
<1> HIDE DEF x
<1>5. LocalInv(x(e), log, credited, slots)
  BY <1>4, WholeZero DEF LocalInv, LoginPcs, PayerPcs, EventPcs, VoucherPcs
<1> QED BY <1>1, <1>3, <1>4, <1>5, StartsStep DEF EventBegin

LEMMA VoucherBeginStep ==
  ASSUME LedgerInv, NEW r \in Reqs, VoucherBegin(r) PROVE LedgerInv'
<1> DEFINE x(e) == [Idle EXCEPT !.op = "convertBp2High", !.user = e.user, !.event = e,
                                !.pc = "readBalance"]
<1>1. PICK e \in Events : req' = [req EXCEPT ![r] = x(e)]
  BY Zenon DEF VoucherBegin
<1>2. x(e) \in Local
  BY EventParts, IdleType DEF Local, Ops, Pcs
<1>3. /\ x(e).pc = "readBalance" /\ x(e).event = e /\ x(e).user = e.user
      /\ x(e).seen = 0 /\ x(e).price = 0
  BY DEF Idle
<1> HIDE DEF x
<1>4. LocalInv(x(e), log, credited, slots)
  BY <1>3, WholeZero DEF LocalInv, LoginPcs, PayerPcs, EventPcs, VoucherPcs
<1> QED BY <1>1, <1>2, <1>3, <1>4, StartsStep DEF VoucherBegin

LEMMA GivingLocal ==
  ASSUME NEW op \in {"finalize", "createPair"}, NEW u \in Users, NEW s \in Nat, NEW pc \in GiftPcs
  PROVE  /\ Giving(op, u, s, pc) \in Local
         /\ Giving(op, u, s, pc).pc = pc /\ Giving(op, u, s, pc).user = u
         /\ Giving(op, u, s, pc).slot = s
         /\ Giving(op, u, s, pc).seen = 0 /\ Giving(op, u, s, pc).price = 0
<1>1. op \in Ops /\ pc \in Pcs
  BY DEF Ops, Pcs, GiftPcs
<1> QED BY <1>1, IdleType DEF Giving, Local, Idle

\* A gift begins with a slot of the user.
GiftBegins(r, x) ==
  \E op \in {"finalize", "createPair"}, u \in Users, s \in Nat, pc \in GiftPcs :
    s \in OwnSlots(u) /\ x = Giving(op, u, s, pc) /\ req' = [req EXCEPT ![r] = x]

LEMMA GiftBegin ==
  ASSUME LedgerInv, NEW r \in Reqs, FinalizeBegin(r) \/ CreatePairBegin(r)
  PROVE  (\E x : GiftBegins(r, x)) /\ UNCHANGED <<rows, now, history>>
<1>1. \A u \in Users : OwnSlots(u) \subseteq Nat
  BY DEF OwnSlots, SlotIds, LedgerInv, TypeOK
<1>2. "openFree" \in GiftPcs /\ "upgradeFree" \in GiftPcs
  BY DEF GiftPcs
<1>3. CASE FinalizeBegin(r)
  <2>1. PICK u \in Users : \E s \in OwnSlots(u) :
          req' = [req EXCEPT ![r] = Giving("finalize", u, s, "openFree")]
    BY <1>3, Zenon DEF FinalizeBegin
  <2>2. PICK s \in OwnSlots(u) : req' = [req EXCEPT ![r] = Giving("finalize", u, s, "openFree")]
    BY <2>1
  <2>3. GiftBegins(r, Giving("finalize", u, s, "openFree"))
    BY <1>1, <1>2, <2>2 DEF GiftBegins
  <2> QED BY <1>3, <2>3 DEF FinalizeBegin
<1>4. CASE CreatePairBegin(r)
  <2>1. PICK u \in Users : \E s \in OwnSlots(u) :
          req' = [req EXCEPT ![r] = Giving("createPair", u, s, "upgradeFree")]
    BY <1>4, Zenon DEF CreatePairBegin
  <2>2. PICK s \in OwnSlots(u) : req' = [req EXCEPT ![r] = Giving("createPair", u, s, "upgradeFree")]
    BY <2>1
  <2>3. GiftBegins(r, Giving("createPair", u, s, "upgradeFree"))
    BY <1>1, <1>2, <2>2 DEF GiftBegins
  <2> QED BY <1>4, <2>3 DEF CreatePairBegin
<1> QED BY <1>3, <1>4

LEMMA GiftBeginStep ==
  ASSUME LedgerInv, NEW r \in Reqs, FinalizeBegin(r) \/ CreatePairBegin(r) PROVE LedgerInv'
<1>1. PICK x : GiftBegins(r, x)
  BY GiftBegin
<1>2. /\ x \in Local /\ x.pc \in GiftPcs /\ x.seen = 0 /\ x.price = 0
      /\ req' = [req EXCEPT ![r] = x]
  BY <1>1, GivingLocal DEF GiftBegins
<1>3. LocalInv(x, log, credited, slots) /\ x.pc # "credit"
  BY <1>2, WholeZero DEF LocalInv, LoginPcs, PayerPcs, EventPcs, VoucherPcs, GiftPcs
<1> QED BY <1>2, <1>3, GiftBegin, StartsStep

\* Steps that read the points, the rows or the chain and go on, or give up.
LEMMA GotoStep ==
  ASSUME LedgerInv, NEW r \in Reqs, NEW pc \in Pcs \ {"credit", "upsert"}, Goto(r, pc),
         TablesOK', UNCHANGED <<slots, account, log, credited>>,
         pc \in LoginPcs => req[r].pc \in LoginPcs,
         pc \in PayerPcs => req[r].pc \in PayerPcs,
         pc \in EventPcs => req[r].pc \in EventPcs,
         pc \in VoucherPcs => req[r].pc \in VoucherPcs
  PROVE  LedgerInv'
<1> DEFINE x == [req[r] EXCEPT !.pc = pc]
<1>1. TypeOK /\ req[r] \in Local /\ LocalInv(req[r], log, credited, slots)
  BY RequestInvIs DEF LedgerInv, TypeOK
<1>2. x \in Local /\ req' = [req EXCEPT ![r] = x]
  BY <1>1, GotoLocal
<1>3. /\ x.pc = pc /\ x.op = req[r].op /\ x.user = req[r].user /\ x.key = req[r].key
      /\ x.event = req[r].event /\ x.seen = req[r].seen /\ x.price = req[r].price
  BY <1>1, PcFields
<1> HIDE DEF x
<1>4. LocalInv(x, log, credited, slots)
  BY <1>1, <1>3, Zenon DEF LocalInv
<1> QED BY <1>2, <1>3, <1>4, LocalStep

\* A balance that was just read is a whole number of points.
LEMMA SeenStep ==
  ASSUME LedgerInv, NEW r \in Reqs, NEW pc \in Pcs \ {"credit", "upsert"}, NEW u \in Users,
         req' = [req EXCEPT ![r].seen = points[u], ![r].pc = pc],
         UNCHANGED <<rows, now, history>>,
         pc \notin LoginPcs \union VoucherPcs,
         pc \in PayerPcs => req[r].pc \in PayerPcs,
         pc \in EventPcs => req[r].pc \in EventPcs
  PROVE  LedgerInv'
<1>0. PICK x : x = [req[r] EXCEPT !.seen = points[u], !.pc = pc]
  OBVIOUS
<1>1. TypeOK /\ req[r] \in Local /\ LocalInv(req[r], log, credited, slots)
  BY RequestInvIs DEF LedgerInv, TypeOK
<1>2. points[u] \in Int /\ Whole(points[u])
  BY <1>1 DEF TypeOK
<1>3. /\ x \in Local
      /\ x.pc = pc /\ x.op = req[r].op /\ x.user = req[r].user /\ x.key = req[r].key
      /\ x.event = req[r].event /\ x.seen = points[u] /\ x.price = req[r].price
  <2>1. pc \in Pcs
    OBVIOUS
  <2> QED BY <1>0, <1>1, <1>2, <2>1 DEF Local
<1>4. req' = [req EXCEPT ![r] = x]
  <2>1. req \in [Reqs -> Local]
    BY <1>1 DEF TypeOK
  <2> QED BY <1>0, <2>1, SeenAndPc, Zenon
<1>5. LocalInv(x, log, credited, slots)
  BY <1>1, <1>2, <1>3, Zenon DEF LocalInv
<1> QED BY <1>3, <1>4, <1>5, StartsStep

LEMMA PcPhases ==
  /\ {"writePoints", "open", "convert", "countLand", "newLand"}
       \subseteq PayerPcs \ (LoginPcs \union VoucherPcs)
  /\ {"insertLog", "debit", "dice", "mint", "sign"} \subseteq EventPcs \ (LoginPcs \union VoucherPcs)
  /\ PayerPcs \intersect EventPcs = {}
  /\ VoucherPcs \intersect (PayerPcs \union EventPcs \union LoginPcs) = {}
  /\ PayerPcs \union EventPcs \union VoucherPcs \subseteq Pcs
  /\ "credit" \notin PayerPcs /\ "upsert" \notin PayerPcs \union EventPcs
  /\ "readPoints" \in PayerPcs /\ "findUser" \in EventPcs
  BY DEF LoginPcs, PayerPcs, EventPcs, VoucherPcs, Pcs

LEMMA ReadBalanceStep ==
  ASSUME LedgerInv, NEW r \in Reqs, ReadBalance(r) PROVE LedgerInv'
<1>1. TablesOK' /\ UNCHANGED <<slots, account, log, credited>>
  BY Tables, TablesFrame DEF ReadBalance, rows, history
<1>2. CASE Reply(r)
  BY <1>1, <1>2, ReplyStep
<1>3. CASE Goto(r, "signVoucher")
  <2>1. req[r].pc \in VoucherPcs
    BY DEF ReadBalance, At, VoucherPcs
  <2>2. "signVoucher" \in VoucherPcs /\ "signVoucher" \in Pcs \ {"credit", "upsert"}
    BY DEF VoucherPcs, Pcs
  <2> QED BY <1>1, <1>3, <2>1, <2>2, GotoStep, PcPhases
<1> QED BY <1>2, <1>3 DEF ReadBalance

LEMMA ReadPointsStep ==
  ASSUME LedgerInv, NEW r \in Reqs, ReadPoints(r) PROVE LedgerInv'
<1>1. LocalInv(req[r], log, credited, slots) /\ TablesOK'
  BY RequestInvIs, Tables, TablesFrame DEF LedgerInv, ReadPoints
<1>2. req[r].pc \in PayerPcs /\ req[r].user \in Users
  BY <1>1, PcPhases DEF ReadPoints, At, LocalInv
<1>3. CASE Reply(r)
  BY <1>1, <1>3, ReplyStep DEF ReadPoints, rows, history
<1>4. CASE ~Reply(r)
  BY <1>2, <1>4, SeenStep, PcPhases DEF ReadPoints
<1> QED BY <1>3, <1>4

LEMMA CountLandStep ==
  ASSUME LedgerInv, NEW r \in Reqs, CountLand(r) PROVE LedgerInv'
<1>1. TablesOK' /\ UNCHANGED <<slots, account, log, credited>>
  BY Tables, TablesFrame DEF CountLand, rows, history
<1>2. CASE Reply(r)
  BY <1>1, <1>2, ReplyStep
<1>3. CASE Goto(r, "newLand")
  <2>1. req[r].pc \in PayerPcs
    BY PcPhases DEF CountLand, At, PayerPcs
  <2> QED BY <1>1, <1>3, <2>1, GotoStep, PcPhases
<1> QED BY <1>2, <1>3 DEF CountLand

LEMMA FindUserStep ==
  ASSUME LedgerInv, NEW r \in Reqs, FindUser(r) PROVE LedgerInv'
<1>1. LocalInv(req[r], log, credited, slots) /\ TablesOK'
  BY RequestInvIs, Tables, TablesFrame DEF LedgerInv, FindUser
<1>2. req[r].pc \in EventPcs
  BY PcPhases DEF FindUser, At
<1>3. req[r].user \in Users
  BY <1>1, <1>2, EventParts DEF LocalInv
<1>4. AfterUser(r) \in {"insertLog", "debit", "dice"}
  BY DEF AfterUser
<1>5. CASE Reply(r)
  BY <1>1, <1>5, ReplyStep DEF FindUser, rows, history
<1>6. CASE ~Reply(r)
  BY <1>2, <1>3, <1>4, <1>6, SeenStep, PcPhases DEF FindUser
<1> QED BY <1>5, <1>6

LEMMA DiceStep ==
  ASSUME LedgerInv, NEW r \in Reqs, Dice(r) PROVE LedgerInv'
<1>1. TablesOK' /\ UNCHANGED <<slots, account, log, credited>>
  BY Tables, TablesFrame DEF Dice, rows, history
<1>2. req[r].pc \in EventPcs
  BY PcPhases DEF Dice, At
<1>3. CASE Reply(r)
  BY <1>1, <1>3, ReplyStep
<1>4. CASE Goto(r, "mint") \/ Goto(r, "insertLog")
  BY <1>1, <1>2, <1>4, GotoStep, PcPhases
<1> QED BY <1>3, <1>4 DEF Dice

LEMMA AbortStep ==
  ASSUME LedgerInv, NEW r \in Reqs, Abort(r) PROVE LedgerInv'
  BY Tables, TablesFrame, ReplyStep DEF Abort, rows, history

-----------------------------------------------------------------------------
(* Steps that write the points or the rows of a burn *)

\* One balance written keeps the column of points whole.
LEMMA PointsWritten ==
  ASSUME TablesOK, NEW u \in Users, NEW n \in Int, Whole(n), points' = [points EXCEPT ![u] = n]
  PROVE  (points \in [Users -> Int] /\ \A v \in Users : Whole(points[v]))'
<1>1. points \in [Users -> Int] /\ \A v \in Users : Whole(points[v])
  BY DEF TablesOK
<1>2. points' \in [Users -> Int]
  BY <1>1
<1>3. ASSUME NEW v \in Users PROVE Whole(points'[v])
  <2>1. CASE v = u
    <3>1. points'[v] = n
      BY <1>1, <2>1
    <3> QED BY <3>1, Zenon
  <2>2. CASE v # u
    <3>1. points'[v] = points[v]
      BY <1>1, <2>2
    <3> QED BY <1>1, <3>1, Zenon
  <2> QED BY <2>1, <2>2
<1> QED BY <1>2, <1>3

LEMMA CountUp ==
  ASSUME NEW T, NEW f \in [T -> Nat], NEW t \in T, NEW n \in Nat, NEW g, g = [f EXCEPT ![t] = @ + n]
  PROVE  g \in [T -> Nat]
  OBVIOUS

LEMMA WritePointsStep ==
  ASSUME LedgerInv, NEW r \in Reqs, WritePoints(r) PROVE LedgerInv'
<1>1. LocalInv(req[r], log, credited, slots) /\ TablesOK /\ req[r] \in Local
  BY RequestInvIs, Tables DEF LedgerInv, TypeOK
<1>2. req[r].pc \in PayerPcs
  BY PcPhases DEF WritePoints, At, PayerPcs
<1>3. /\ req[r].user \in Users /\ req[r].seen \in Int /\ req[r].price \in Nat
      /\ Whole(req[r].seen) /\ Whole(req[r].price)
  BY <1>1, <1>2 DEF LocalInv, Local
<1>4. req[r].seen - req[r].price \in Int /\ Whole(req[r].seen - req[r].price)
  <2>1. ASSUME NEW a \in Int, NEW b \in Int, Whole(a), Whole(b), a = req[r].seen, b = req[r].price
        PROVE  req[r].seen - req[r].price \in Int /\ Whole(req[r].seen - req[r].price)
    <3>1. a - b \in Int
      OBVIOUS
    <3>2. Whole(a - b)
      BY <2>1 DEF Whole
    <3> QED BY <2>1, <3>1, <3>2, Zenon
  <2>2. req[r].price \in Int
    BY <1>3
  <2> QED BY <1>3, <2>1, <2>2, Zenon
<1>5. TablesOK'
  <2>1. (points \in [Users -> Int] /\ \A v \in Users : Whole(points[v]))'
    BY <1>1, <1>3, <1>4, PointsWritten DEF WritePoints
  <2>2. (charged \in [Users -> Nat])'
    BY <1>1, <1>3, CountUp DEF TablesOK, WritePoints
  <2>3. UNCHANGED <<account, slots, log, gen1, now, voucher, credited, debited, withdrawn, given>>
    BY DEF WritePoints
  <2> QED BY <1>1, <2>1, <2>2, <2>3 DEF TablesOK
<1>6. AfterPaying(r) \in {"open", "convert", "countLand"}
  BY DEF AfterPaying
<1> QED BY <1>2, <1>5, <1>6, GotoStep, PcPhases DEF WritePoints

\* What a request of an event knows of it.
LEMMA EventKnown ==
  ASSUME LedgerInv, NEW r \in Reqs, req[r].pc \in EventPcs
  PROVE  /\ req[r].event \in Events /\ req[r].op = OpOf(req[r].event.type)
         /\ req[r].event.tx \in Txs /\ req[r].event.user \in Users
         /\ req[r].event.type \in EventTypes /\ req[r].event.amount \in Nat
         /\ req[r].seen \in Int
<1>1. LocalInv(req[r], log, credited, slots) /\ req[r] \in Local
  BY RequestInvIs DEF LedgerInv, TypeOK
<1> QED BY <1>1, EventParts DEF LocalInv, Local

LEMMA MintStep ==
  ASSUME LedgerInv, NEW r \in Reqs, Mint(r) \/ Sign(r) PROVE LedgerInv'
<1>1. req[r].pc \in EventPcs
  BY PcPhases DEF Mint, Sign, At
<1>2. req[r].event.tx \in Txs /\ TablesOK
  BY <1>1, EventKnown, Tables
<1>3. gen1 \in [Txs -> Gen1Row]
  BY <1>2 DEF TablesOK
<1>4. (gen1 \in [Txs -> Gen1Row])'
  <2>1. ASSUME NEW t \in Txs
        PROVE  /\ [gen1 EXCEPT ![t].issued = @ + 1] \in [Txs -> Gen1Row]
               /\ [gen1 EXCEPT ![t].signed = @ + 1] \in [Txs -> Gen1Row]
    BY <1>3 DEF Gen1Row
  <2> QED BY <1>2, <2>1 DEF Mint, Sign
<1>5. TablesOK'
  <2>1. UNCHANGED <<account, points, slots, log, now, history>>
    BY DEF Mint, Sign
  <2> QED BY <1>2, <1>4, <2>1 DEF TablesOK, history
<1>6. CASE Mint(r)
  BY <1>1, <1>5, <1>6, GotoStep, PcPhases DEF Mint, history
<1>7. CASE Sign(r)
  BY <1>1, <1>5, <1>7, GotoStep, PcPhases DEF Sign, history
<1> QED BY <1>6, <1>7

LEMMA BalanceType ==
  ASSUME LedgerInv, NEW r \in Reqs, req[r].pc \in EventPcs PROVE NewBalance(r) \in Int
  BY EventKnown DEF NewBalance

LEMMA DebitStep ==
  ASSUME LedgerInv, NEW r \in Reqs, Debit(r) PROVE LedgerInv'
<1>1. req[r].pc \in EventPcs
  BY PcPhases DEF Debit, At
<1>2. req[r].event.tx \in Txs /\ req[r].event.user \in Users /\ TablesOK /\ NewBalance(r) \in Int
  BY <1>1, EventKnown, Tables, BalanceType
<1>3. TablesOK'
  <2>1. CASE Storable(NewBalance(r))
    <3>1. (points \in [Users -> Int] /\ \A v \in Users : Whole(points[v]))'
      BY <1>2, <2>1, PointsWritten DEF Debit, Storable
    <3>2. (debited \in [Txs -> Nat])'
      <4>1. debited' = [debited EXCEPT ![req[r].event.tx] = @ + 1]
        BY <2>1 DEF Debit
      <4>2. debited \in [Txs -> Nat]
        BY <1>2 DEF TablesOK
      <4> QED BY <1>2, <4>1, <4>2, CountUp
    <3>3. UNCHANGED <<account, slots, log, gen1, now, voucher, credited, charged, given>>
      BY DEF Debit
    <3>4. (withdrawn \in [Users -> Nat])'
      <4>1. withdrawn' = [withdrawn EXCEPT ![req[r].event.user] = @ + req[r].event.amount]
        BY <2>1 DEF Debit
      <4>2. req[r].event.amount \in Nat /\ withdrawn \in [Users -> Nat]
        BY <1>1, <1>2, EventKnown DEF TablesOK
      <4> QED BY <1>2, <4>1, <4>2, CountUp
    <3> QED BY <1>2, <3>1, <3>2, <3>3, <3>4 DEF TablesOK
  <2>2. CASE ~Storable(NewBalance(r))
    BY <1>2, <2>2 DEF TablesOK, Debit
  <2> QED BY <2>1, <2>2
<1>4. CASE Storable(NewBalance(r))
  BY <1>1, <1>3, <1>4, GotoStep, PcPhases DEF Debit
<1>5. CASE ~Storable(NewBalance(r))
  BY <1>3, <1>5, ReplyStep DEF Debit
<1> QED BY <1>4, <1>5

\* A signature is no row; the model only notes what had left the points by then.
LEMMA SignVoucherStep ==
  ASSUME LedgerInv, NEW r \in Reqs, SignVoucher(r) PROVE LedgerInv'
<1> DEFINE e == req[r].event
<1>1. LocalInv(req[r], log, credited, slots) /\ TablesOK
  BY RequestInvIs, Tables DEF LedgerInv
<1>2. e \in Events /\ e.user \in Users
  BY <1>1, EventParts DEF LocalInv, SignVoucher, At, VoucherPcs
<1>3. charged[e.user] + withdrawn[e.user] \in Nat
  BY <1>1, <1>2 DEF TablesOK
<1>4. (voucher \in [Events -> Nat \union {None}])'
  BY <1>1, <1>2, <1>3 DEF TablesOK, SignVoucher
<1>5. TablesOK'
  BY <1>1, <1>4 DEF TablesOK, SignVoucher, rows
<1> QED BY <1>5, ReplyStep DEF SignVoucher, rows

\* The request was the only one to credit its tx, which it then has credited once.
LEMMA CreditStep ==
  ASSUME LedgerInv, NEW r \in Reqs, Credit(r) PROVE LedgerInv'
<1> DEFINE t == req[r].event.tx
<1>1. req[r].pc \in EventPcs /\ Crediting(r)
  BY PcPhases DEF Credit, At, Crediting, EventPcs
<1>2. /\ t \in Txs /\ req[r].event.user \in Users /\ TablesOK /\ NewBalance(r) \in Int
      /\ Idle.pc # "credit"
  BY <1>1, EventKnown, Tables, BalanceType DEF Idle
<1>3. [tx |-> t, type |-> "DEPOSIT_BP"] \in log /\ credited[t] = 0 /\ DepositOnce
  BY <1>1 DEF LedgerInv, RequestInv, CreditPending
<1>4. CASE Storable(NewBalance(r))
  <2>1. TablesOK'
    <3>1. (points \in [Users -> Int] /\ \A v \in Users : Whole(points[v]))'
      BY <1>2, <1>4, PointsWritten DEF Credit, Storable
    <3>2. (credited \in [Txs -> Nat])'
      <4>1. credited' = [credited EXCEPT ![t] = credited[t] + 1]
        BY <1>4 DEF Credit
      <4>2. credited \in [Txs -> Nat]
        BY <1>2 DEF TablesOK
      <4> HIDE DEF t
      <4> QED BY <1>2, <4>1, <4>2
    <3>3. UNCHANGED <<account, slots, log, gen1, now, voucher, debited, charged, withdrawn, given>>
      BY DEF Credit
    <3> QED BY <1>2, <3>1, <3>2, <3>3 DEF TablesOK
  <2>2. /\ credited' = [credited EXCEPT ![t] = credited[t] + 1] /\ credited \in [Txs -> Nat]
        /\ UNCHANGED <<slots, account, log>>
    BY <1>2, <1>4 DEF Credit, TablesOK
  <2>3. DepositOnce'
    <3> SUFFICES ASSUME NEW tx \in Txs
                 PROVE  /\ credited'[tx] <= 1
                        /\ credited'[tx] = 1 => [tx |-> tx, type |-> "DEPOSIT_BP"] \in log'
      BY DEF DepositOnce
    <3> QED BY <1>2, <1>3, <2>2 DEF DepositOnce
  <2>4. ASSUME NEW q \in Reqs \ {r}, Crediting(q) PROVE credited'[req[q].event.tx] = 0
    <3>1. req[q].event.tx # t
      BY <1>1, <2>4 DEF LedgerInv, OneCreditor
    <3>2. credited[req[q].event.tx] = 0
      BY <2>4 DEF LedgerInv, RequestInv, CreditPending
    <3>3. req[q].event.tx \in Txs
      BY <2>4, EventKnown DEF Crediting, EventPcs
    <3> QED BY <2>2, <3>1, <3>2, <3>3
  <2>5. FreeLandsOpen' /\ LoginGivesLand'
    BY <2>2, FreeOpenIs, LoginGivesIs DEF LedgerInv
  <2>6. Grown(slots, slots') /\ log \subseteq log' /\ LocalInv(Idle, log', credited', slots')
    BY <2>2, GrownSame, IdleInv
  <2> QED BY <1>2, <2>1, <2>3, <2>4, <2>5, <2>6, IdleType, Step DEF Credit, Reply
<1>5. CASE ~Storable(NewBalance(r))
  <2>1. TablesOK'
    BY <1>2, <1>5 DEF TablesOK, Credit
  <2> QED BY <2>1, <1>5, ReplyStep DEF Credit
<1> QED BY <1>4, <1>5

\* The unique txHash lets a deposit through to its credit once: whoever else is
\* about to credit the tx, or has credited it, has logged it before.
LEMMA InsertLogStep ==
  ASSUME LedgerInv, NEW r \in Reqs, InsertLog(r) PROVE LedgerInv'
<1> DEFINE e == req[r].event
           pc == AfterLog(r)
<1>1. req[r].pc \in EventPcs /\ TablesOK /\ TypeOK /\ req[r] \in Local
  BY PcPhases, Tables DEF InsertLog, At, LedgerInv, TypeOK
<1>2. e \in Events /\ e.tx \in Txs /\ e.type \in EventTypes /\ req[r].op = OpOf(e.type)
  BY <1>1, EventKnown
<1>3. CASE TxTaken(e.tx)
  <2>1. Reply(r) /\ UNCHANGED <<account, points, slots, log, gen1, now, history>>
    BY <1>3 DEF InsertLog
  <2> QED BY <2>1, Tables, TablesFrame, ReplyStep DEF rows, history
<1>4. CASE ~TxTaken(e.tx)
  <2>1. /\ log' = log \union {[tx |-> e.tx, type |-> e.type]}
        /\ IF pc = "idle" THEN Reply(r) ELSE Goto(r, pc)
        /\ UNCHANGED <<account, points, slots, gen1, now, voucher, credited, debited, charged, withdrawn,
                       given>>
    BY <1>4 DEF InsertLog, history
  <2>2. TablesOK' /\ log \subseteq log'
    <3>1. [tx |-> e.tx, type |-> e.type] \in LogRow
      BY <1>2 DEF LogRow
    <3>2. log' \subseteq LogRow
      BY <1>1, <2>1, <3>1 DEF TablesOK
    <3> QED BY <1>1, <2>1, <3>2 DEF TablesOK
  <2>3. /\ FreeLandsOpen' /\ LoginGivesLand' /\ Grown(slots, slots')
        /\ LocalInv(Idle, log', credited', slots')
    BY <2>1, FreeOpenIs, LoginGivesIs, GrownSame, IdleInv DEF LedgerInv
  <2>4. DepositOnce'
    BY <2>1, <2>2 DEF LedgerInv, DepositOnce
  <2>5. ASSUME NEW q \in Reqs, Crediting(q)
        PROVE  credited'[req[q].event.tx] = 0 /\ e.tx # req[q].event.tx
    <3>1. /\ credited[req[q].event.tx] = 0
          /\ [tx |-> req[q].event.tx, type |-> "DEPOSIT_BP"] \in log
      BY <2>5 DEF LedgerInv, RequestInv, CreditPending
    <3>2. [tx |-> req[q].event.tx, type |-> "DEPOSIT_BP"].tx = req[q].event.tx
      OBVIOUS
    <3> QED BY <1>4, <2>1, <3>1, <3>2, Zenon DEF TxTaken
  <2>6. CASE pc = "idle"
    <3>1. req' = [req EXCEPT ![r] = Idle] /\ Idle.pc # "credit"
      BY <2>1, <2>6 DEF Reply, Idle
    <3> QED BY <3>1, <2>2, <2>3, <2>4, <2>5, IdleType, Step
  <2>7. CASE pc # "idle"
    <3>1. pc = "credit" /\ req[r].op = "deposit"
      BY <2>7 DEF AfterLog
    <3>2. e.type = "DEPOSIT_BP"
      BY <3>1, <1>2, EventParts
    <3>3. PICK x : x = [req[r] EXCEPT !.pc = "credit"]
      OBVIOUS
    <3>4. x \in Local /\ req' = [req EXCEPT ![r] = x]
      BY <1>1, <2>1, <2>7, <3>1, <3>3, GotoLocal DEF Pcs
    <3>5. /\ x.pc = "credit" /\ x.op = req[r].op /\ x.user = req[r].user
          /\ x.event = req[r].event /\ x.seen = req[r].seen /\ x.price = req[r].price
      BY <1>1, <3>3, PcFields
    <3>6. credited[e.tx] = 0
      <4>1. [tx |-> e.tx, type |-> "DEPOSIT_BP"].tx = e.tx
        OBVIOUS
      <4>2. [tx |-> e.tx, type |-> "DEPOSIT_BP"] \notin log
        BY <1>4, <4>1, Zenon DEF TxTaken
      <4>3. credited[e.tx] <= 1 /\ credited[e.tx] # 1 /\ credited[e.tx] \in Nat
        BY <1>1, <1>2, <4>2 DEF LedgerInv, DepositOnce, TypeOK
      <4> QED BY <4>3
    <3>7. LocalInv(req[r], log, credited, slots)
      BY RequestInvIs DEF LedgerInv
    <3>8. [tx |-> e.tx, type |-> "DEPOSIT_BP"] \in log'
      BY <2>1, <3>2
    <3>9. LocalInv(x, log', credited', slots')
      BY <1>1, <2>1, <3>1, <3>5, <3>6, <3>7, <3>8, PcPhases, Zenon
      DEF LocalInv, LoginPcs, PayerPcs, EventPcs, VoucherPcs
    <3> QED BY <2>2, <2>3, <2>4, <2>5, <3>4, <3>5, <3>9, Step
  <2> QED BY <2>6, <2>7
<1> QED BY <1>3, <1>4

-----------------------------------------------------------------------------
(* Steps that write the slots or the row of a user *)

\* Rows of a land added at the end: the first of them is open.
LEMMA LandAdded ==
  ASSUME LedgerInv, NEW u \in Users, NEW key \in Keys \union {None},
         NEW land \in Nat \union {None}, slots' = slots \o LandRows(u, key, land)
  PROVE  /\ slots' \in Seq(SlotRow) /\ Grown(slots, slots') /\ FreeLandsOpen'
         /\ LandIn(slots', u, key)
<1>1. PICK new : new = LandRows(u, key, land)
  OBVIOUS
<1>2. /\ new \in Seq(SlotRow) /\ Len(new) = SlotsPerLand
      /\ \A i \in 1..SlotsPerLand :
           new[i].user = u /\ new[i].key = key /\ new[i].land = land /\ (new[i].open <=> i = 1)
  <2>1. new \in [1..SlotsPerLand -> SlotRow]
    BY <1>1 DEF LandRows, SlotRow
  <2>2. SlotsPerLand \in Nat
    BY LandAssumption
  <2>3. new \in Seq(SlotRow)
    BY <2>1, <2>2, SeqDef
  <2>4. Len(new) = SlotsPerLand
    BY <2>1, <2>2, <2>3, LenProperties
  <2>5. \A i \in 1..SlotsPerLand :
          new[i].user = u /\ new[i].key = key /\ new[i].land = land /\ (new[i].open <=> i = 1)
    BY <1>1 DEF LandRows
  <2> QED BY <2>3, <2>4, <2>5
<1>3. slots \in Seq(SlotRow) /\ slots' = slots \o new /\ SlotsPerLand \in Nat \ {0}
  BY <1>1, LandAssumption DEF LedgerInv, TypeOK
<1>4. /\ slots' \in Seq(SlotRow) /\ Len(slots') = Len(slots) + Len(new)
      /\ Len(slots) \in Nat /\ DOMAIN slots = 1..Len(slots) /\ DOMAIN slots' = 1..Len(slots')
      /\ \A i \in 1..Len(slots') :
           slots'[i] = IF i <= Len(slots) THEN slots[i] ELSE new[i - Len(slots)]
  BY <1>2, <1>3
<1>5. \A i \in DOMAIN slots : i \in DOMAIN slots' /\ slots'[i] = slots[i]
  BY <1>2, <1>3, <1>4
<1>6. Grown(slots, slots')
  BY <1>5 DEF Grown
<1>7. LandIn(slots', u, key)
  <2>1. Len(slots) + 1 \in DOMAIN slots' /\ slots'[Len(slots) + 1] = new[1] /\ 1 \in 1..SlotsPerLand
    BY <1>2, <1>3, <1>4
  <2>2. new[1].user = u /\ new[1].key = key /\ new[1].open
    BY <1>2, <2>1
  <2> QED BY <2>1, <2>2 DEF LandIn
<1>8. ASSUME NEW i \in DOMAIN slots', slots'[i].land = None
      PROVE  LandIn(slots', slots'[i].user, slots'[i].key)
  <2>1. CASE i \in DOMAIN slots
    <3>1. slots'[i] = slots[i]
      BY <1>5, <2>1
    <3>2. FreeOpen(slots)
      BY FreeOpenIs DEF LedgerInv
    <3>3. LandIn(slots, slots[i].user, slots[i].key)
      BY <1>8, <2>1, <3>1, <3>2 DEF FreeOpen
    <3> QED BY <1>6, <3>1, <3>3, GrownLand
  <2>2. CASE i \notin DOMAIN slots
    <3>1. slots'[i] = new[i - Len(slots)] /\ i - Len(slots) \in 1..SlotsPerLand
      BY <1>2, <1>3, <1>4, <2>2
    <3>2. slots'[i].user = u /\ slots'[i].key = key
      BY <1>2, <3>1
    <3> QED BY <1>7, <3>2
  <2> QED BY <2>1, <2>2
<1>9. FreeLandsOpen'
  BY <1>8, FreeOpenIs DEF FreeOpen
<1> QED BY <1>4, <1>6, <1>7, <1>9

\* Rows edited in place, and never closed.
LEMMA RowsEdited ==
  ASSUME LedgerInv, DOMAIN slots' = DOMAIN slots, NEW D, D = DOMAIN slots,
         slots' \in [D -> SlotRow], Grown(slots, slots')
  PROVE  slots' \in Seq(SlotRow) /\ FreeLandsOpen'
<1>1. slots \in Seq(SlotRow)
  BY DEF LedgerInv, TypeOK
<1>2. Len(slots) \in Nat /\ D = 1..Len(slots)
  BY <1>1
<1>3. slots' \in Seq(SlotRow)
  BY <1>2, SeqDef
<1>4. ASSUME NEW i \in DOMAIN slots', slots'[i].land = None
      PROVE  LandIn(slots', slots'[i].user, slots'[i].key)
  <2>1. slots[i].land = None /\ slots'[i].user = slots[i].user /\ slots'[i].key = slots[i].key
    BY <1>4 DEF Grown
  <2>2. LandIn(slots, slots[i].user, slots[i].key)
    BY <2>1, FreeOpenIs DEF FreeOpen, LedgerInv
  <2> QED BY <2>1, <2>2, GrownLand
<1> QED BY <1>3, <1>4, FreeOpenIs DEF FreeOpen

\* A request that writes slots and is done.
LEMMA RowsStep ==
  ASSUME LedgerInv, NEW r \in Reqs, Reply(r), slots' \in Seq(SlotRow), Grown(slots, slots'),
         FreeLandsOpen', (given \in [Users -> Nat])',
         UNCHANGED <<account, points, log, gen1, now, voucher, credited, debited, charged, withdrawn>>
  PROVE  LedgerInv'
<1>1. TablesOK'
  BY Tables DEF TablesOK
<1>2. UNCHANGED <<account, log, credited>> /\ Idle.pc # "credit"
  BY DEF Idle
<1>3. LoginGivesLand'
  <2>1. \A u \in Users : account[u] # None => LandIn(slots, u, account[u])
    BY LoginGivesIs DEF LedgerInv
  <2> QED BY <1>2, <2>1, GrownLand, LoginGivesIs
<1>4. DepositOnce'
  BY <1>2 DEF LedgerInv, DepositOnce
<1>5. \A q \in Reqs : Crediting(q) => credited'[req[q].event.tx] = 0
  BY <1>2 DEF LedgerInv, RequestInv, CreditPending
<1>6. LocalInv(Idle, log', credited', slots') /\ log \subseteq log'
  BY <1>2, IdleInv
<1> QED BY <1>1, <1>2, <1>3, <1>4, <1>5, <1>6, IdleType, Step DEF Reply

\* What is given is worth a price, or nothing.
LEMMA GivenTyped ==
  ASSUME LedgerInv, NEW r \in Reqs, OpenFree(r) \/ UpgradeFree(r) PROVE (given \in [Users -> Nat])'
<1>1. given \in [Users -> Nat] /\ PriceToOpen \in Nat /\ PriceIndoor \in Nat
  BY PricesAssumption DEF LedgerInv, TypeOK
<1>2. PICK n \in Nat, v \in {req[r].user} : given' = [given EXCEPT ![v] = @ + n]
  <2>1. OpeningWorth(req[r].slot) \in Nat /\ IndoorWorth(req[r].slot) \in Nat
    BY <1>1 DEF OpeningWorth, IndoorWorth
  <2> QED BY <2>1 DEF OpenFree, UpgradeFree
<1>3. CASE v \in Users
  BY <1>1, <1>2, <1>3, CountUp
<1>4. CASE v \notin Users
  <2>1. given' = given
    BY <1>1, <1>2, <1>4
  <2> QED BY <1>1, <2>1
<1> QED BY <1>3, <1>4

LEMMA EditStep ==
  ASSUME LedgerInv, NEW r \in Reqs,
         Open(r) \/ Convert(r) \/ DeleteSlots(r) \/ OpenFree(r) \/ UpgradeFree(r)
  PROVE  LedgerInv'
<1>1. slots \in [DOMAIN slots -> SlotRow]
  <2>1. slots \in Seq(SlotRow)
    BY DEF LedgerInv, TypeOK
  <2> QED BY <2>1
<1>2. \A row \in SlotRow :
        /\ [row EXCEPT !.open = TRUE] \in SlotRow
        /\ [row EXCEPT !.indoor = TRUE] \in SlotRow
        /\ [row EXCEPT !.deleted = TRUE] \in SlotRow
  BY DEF SlotRow
<1>3. /\ DOMAIN slots' = DOMAIN slots
      /\ \A s \in DOMAIN slots :
           slots'[s] \in {slots[s], [slots[s] EXCEPT !.open = TRUE],
                         [slots[s] EXCEPT !.indoor = TRUE], [slots[s] EXCEPT !.deleted = TRUE]}
      /\ slots' = [s \in DOMAIN slots |-> slots'[s]]
  <2>1. CASE Open(r)
    BY <2>1, <1>1 DEF Open
  <2>2. CASE Convert(r)
    BY <2>2, <1>1 DEF Convert
  <2>3. CASE DeleteSlots(r)
    BY <2>3, <1>1 DEF DeleteSlots, SlotIds
  <2>4. CASE OpenFree(r)
    BY <2>4, <1>1 DEF OpenFree
  <2>5. CASE UpgradeFree(r)
    BY <2>5, <1>1 DEF UpgradeFree
  <2> QED BY <2>1, <2>2, <2>3, <2>4, <2>5
<1>4. slots' \in [DOMAIN slots -> SlotRow]
  BY <1>1, <1>2, <1>3
<1>5. Grown(slots, slots')
  <2> SUFFICES ASSUME NEW s \in DOMAIN slots
               PROVE  /\ slots'[s].user = slots[s].user /\ slots'[s].key = slots[s].key
                      /\ slots'[s].land = slots[s].land /\ (slots[s].open => slots'[s].open)
    BY <1>3 DEF Grown
  <2>1. slots[s] \in SlotRow
    BY <1>1
  <2> QED BY <2>1, <1>3 DEF SlotRow
<1>6. slots' \in Seq(SlotRow) /\ FreeLandsOpen'
  BY <1>3, <1>4, <1>5, RowsEdited
<1>7. (given \in [Users -> Nat])'
  <2>1. given \in [Users -> Nat]
    BY DEF LedgerInv, TypeOK
  <2> QED BY <2>1, GivenTyped DEF Open, Convert, DeleteSlots, history
<1>8. UNCHANGED <<account, points, log, gen1, now, voucher, credited, debited, charged, withdrawn>> /\ Reply(r)
  BY DEF Open, Convert, DeleteSlots, OpenFree, UpgradeFree, history
<1> QED BY <1>5, <1>6, <1>7, <1>8, RowsStep

LEMMA CreateLandStep ==
  ASSUME LedgerInv, NEW r \in Reqs, CreateLand(r) PROVE LedgerInv'
<1>1. LocalInv(req[r], log, credited, slots) /\ req[r] \in Local
  BY RequestInvIs DEF LedgerInv, TypeOK
<1>2. req[r].user \in Users /\ req[r].land \in Nat
  BY <1>1 DEF CreateLand, At, LocalInv, PayerPcs, Local
<1>3. slots' \in Seq(SlotRow) /\ Grown(slots, slots') /\ FreeLandsOpen'
  BY <1>2, LandAdded DEF CreateLand
<1>4. (given \in [Users -> Nat])'
  BY DEF LedgerInv, TypeOK, CreateLand, history
<1> QED BY <1>3, <1>4, RowsStep DEF CreateLand, history

LEMMA CreateFreeStep ==
  ASSUME LedgerInv, NEW r \in Reqs, CreateFree(r) PROVE LedgerInv'
<1>1. LocalInv(req[r], log, credited, slots) /\ req[r] \in Local /\ TypeOK
  BY RequestInvIs DEF LedgerInv, TypeOK
<1>2. req[r].op = "login" /\ req[r].user \in Users /\ req[r].key \in Keys
  BY <1>1 DEF CreateFree, At, LocalInv, LoginPcs
<1>3. /\ slots' \in Seq(SlotRow) /\ Grown(slots, slots') /\ FreeLandsOpen'
      /\ LandIn(slots', req[r].user, req[r].key)
  BY <1>2, LandAdded DEF CreateFree
<1>4. PICK x : x = [req[r] EXCEPT !.pc = "upsert"]
  OBVIOUS
<1>5. x \in Local /\ req' = [req EXCEPT ![r] = x]
  BY <1>1, <1>4, GotoLocal DEF CreateFree, Pcs
<1>6. /\ x.pc = "upsert" /\ x.op = req[r].op /\ x.user = req[r].user /\ x.key = req[r].key
      /\ x.event = req[r].event /\ x.seen = req[r].seen /\ x.price = req[r].price
  BY <1>1, <1>4, PcFields
<1>7. UNCHANGED <<account, points, log, gen1, now, voucher, credited, debited, charged, withdrawn, given>>
  BY DEF CreateFree, history
<1>8. TablesOK'
  BY <1>3, <1>7, Tables DEF TablesOK
<1>9. LoginGivesLand'
  <2>1. \A u \in Users : account[u] # None => LandIn(slots, u, account[u])
    BY LoginGivesIs DEF LedgerInv
  <2> QED BY <1>3, <1>7, <2>1, GrownLand, LoginGivesIs
<1>10. DepositOnce' /\ log \subseteq log'
  BY <1>7 DEF LedgerInv, DepositOnce
<1>11. \A q \in Reqs : Crediting(q) => credited'[req[q].event.tx] = 0
  BY <1>7 DEF LedgerInv, RequestInv, CreditPending
<1>12. LocalInv(x, log', credited', slots')
  BY <1>1, <1>2, <1>3, <1>6, PcPhases, Zenon DEF LocalInv, LoginPcs
<1> QED BY <1>3, <1>5, <1>6, <1>8, <1>9, <1>10, <1>11, <1>12, Step

\* The only write of a user's row, by a request that knows there is a land.
LEMMA UpsertStep ==
  ASSUME LedgerInv, NEW r \in Reqs, Upsert(r) PROVE LedgerInv'
<1>1. LocalInv(req[r], log, credited, slots) /\ TablesOK
  BY RequestInvIs, Tables DEF LedgerInv
<1>2. req[r].user \in Users /\ req[r].key \in Keys /\ LandIn(slots, req[r].user, req[r].key)
  BY <1>1 DEF Upsert, At, LocalInv, LoginPcs
<1>3. /\ account' = [account EXCEPT ![req[r].user] = req[r].key]
      /\ UNCHANGED <<points, slots, log, gen1, now, voucher, credited, debited, charged, withdrawn, given>>
      /\ req' = [req EXCEPT ![r] = Idle] /\ Idle.pc # "credit"
  BY DEF Upsert, history, Reply, Idle
<1>4. (account \in [Users -> Keys \union {None}])'
  BY <1>1, <1>2, <1>3 DEF TablesOK
<1>5. TablesOK'
  BY <1>1, <1>3, <1>4 DEF TablesOK
<1>6. LoginGivesLand'
  <2>1. \A u \in Users : account[u] # None => LandIn(slots, u, account[u])
    BY LoginGivesIs DEF LedgerInv
  <2>2. \A u \in Users : account'[u] = IF u = req[r].user THEN req[r].key ELSE account[u]
    BY <1>1, <1>3 DEF TablesOK
  <2> QED BY <1>2, <1>3, <2>1, <2>2, LoginGivesIs
<1>7. FreeLandsOpen' /\ Grown(slots, slots') /\ log \subseteq log'
  BY <1>3, FreeOpenIs, GrownSame DEF LedgerInv
<1>8. DepositOnce'
  BY <1>3 DEF LedgerInv, DepositOnce
<1>9. \A q \in Reqs : Crediting(q) => credited'[req[q].event.tx] = 0
  BY <1>3 DEF LedgerInv, RequestInv, CreditPending
<1> QED BY <1>3, <1>5, <1>6, <1>7, <1>8, <1>9, IdleType, IdleInv, Step

-----------------------------------------------------------------------------
(* The theorems *)

LEMMA InitInv == Init => LedgerInv
<1> SUFFICES ASSUME Init PROVE LedgerInv
  OBVIOUS
<1>1. TypeOK
  <2>1. slots \in Seq(SlotRow)
    BY DEF Init
  <2>2. \A u \in Users : Whole(points[u])
    BY WholeZero DEF Init
  <2>3. req \in [Reqs -> Local]
    BY IdleType DEF Init
  <2> QED BY <2>1, <2>2, <2>3 DEF Init, TypeOK, Gen1Row
<1>2. DepositOnce
  BY DEF Init, DepositOnce
<1>3. LoginGivesLand /\ FreeLandsOpen
  <2>1. SlotIds = {}
    BY DEF Init, SlotIds
  <2> QED BY <2>1 DEF Init, LoginGivesLand, FreeLandsOpen
<1>4. \A r \in Reqs : req[r] = Idle
  BY DEF Init
<1>5. \A r \in Reqs : RequestInv(r)
  BY <1>4, IdleInv, RequestInvIs
<1>6. \A r \in Reqs : ~Crediting(r)
  BY <1>4 DEF Crediting, Idle
<1> QED BY <1>1, <1>2, <1>3, <1>5, <1>6 DEF LedgerInv, OneCreditor

LEMMA Stutter == ASSUME LedgerInv, UNCHANGED vars PROVE LedgerInv'
<1>1. UNCHANGED <<slots, account, log, credited, req>> /\ TypeOK'
  BY DEF vars, LedgerInv, TypeOK
<1>2. DepositOnce' /\ LoginGivesLand' /\ FreeLandsOpen' /\ OneCreditor'
  BY <1>1, LoginGivesIs, FreeOpenIs DEF LedgerInv, DepositOnce, OneCreditor, Crediting
<1>3. \A r \in Reqs : RequestInv(r)'
  BY <1>1, RequestInvIs DEF LedgerInv
<1> QED BY <1>1, <1>2, <1>3 DEF LedgerInv

LEMMA TickStep == ASSUME LedgerInv, Tick PROVE LedgerInv'
<1>1. UNCHANGED <<slots, account, log, credited, req>>
  BY DEF Tick, rows, history
<1>2. TypeOK'
  BY DEF Tick, rows, history, LedgerInv, TypeOK
<1>3. DepositOnce' /\ LoginGivesLand' /\ FreeLandsOpen' /\ OneCreditor'
  BY <1>1, LoginGivesIs, FreeOpenIs DEF LedgerInv, DepositOnce, OneCreditor, Crediting
<1>4. \A r \in Reqs : RequestInv(r)'
  BY <1>1, RequestInvIs DEF LedgerInv
<1> QED BY <1>2, <1>3, <1>4 DEF LedgerInv

LEMMA NextInv == LedgerInv /\ [Next]_vars => LedgerInv'
<1> SUFFICES ASSUME LedgerInv, [Next]_vars PROVE LedgerInv'
  OBVIOUS
<1>1. ASSUME NEW r \in Reqs, Start(r) PROVE LedgerInv'
  BY <1>1, LoginBeginStep, PayBeginStep, InvalidateSlotsBeginStep, VoucherBeginStep,
     EventBeginStep, GiftBeginStep DEF Start
<1>2. ASSUME NEW r \in Reqs, Continue(r) PROVE LedgerInv'
  BY <1>2, CreateFreeStep, UpsertStep, ReadPointsStep, WritePointsStep, EditStep, CountLandStep,
     CreateLandStep, FindUserStep, InsertLogStep, CreditStep, DebitStep, DiceStep, MintStep,
     ReadBalanceStep, SignVoucherStep
  DEF Continue
<1>3. ASSUME NEW r \in Reqs, Abort(r) PROVE LedgerInv'
  BY <1>3, AbortStep
<1>4. ASSUME NEW r \in Reqs, Refuse(r) PROVE LedgerInv'
  BY <1>4, Stutter DEF Refuse
<1> QED BY <1>1, <1>2, <1>3, <1>4, TickStep, Stutter DEF Next

\* The invariant holds in every behaviour: it holds at first and every step of
\* every endpoint keeps it, failed and overlapping requests included.
THEOREM Invariance == Spec => []LedgerInv
  BY InitInv, NextInv, PTL DEF Spec

\* Every table keeps to its columns, and no request stores a fraction of a point.
THEOREM TypeCorrect == Spec => []TypeOK
<1>1. LedgerInv => TypeOK
  BY DEF LedgerInv
<1> QED BY <1>1, Invariance, PTL

\* A deposit is credited at most once and never without its log row, however many
\* requests report it at the same time (AdminController.addBreedingPoint).
THEOREM CreditedOnce == Spec => []DepositOnce
<1>1. LedgerInv => DepositOnce
  BY DEF LedgerInv
<1> QED BY <1>1, Invariance, PTL

\* A user whose row names a game key has an open slot of the free land of that
\* key, whichever requests fail or overlap (UserController.login).
THEOREM LoginLand == Spec => []LoginGivesLand
<1>1. LedgerInv => LoginGivesLand
  BY DEF LedgerInv
<1> QED BY <1>1, Invariance, PTL

-----------------------------------------------------------------------------
(* Requests that do not overlap                                            *)

\* At most one request is being handled at any time.
Serial == \A r, q \in Reqs : r # q => At(r, "idle") \/ At(q, "idle")

\* FreeRows, of the rows S.
FreeOf(S, u, key) ==
  {s \in DOMAIN S : /\ S[s].user = u /\ S[s].key = key
                    /\ S[s].land = None /\ ~S[s].deleted}

\* The balance read before is going to be written back.
Computing(x) ==
  \/ x.pc \in {"writePoints", "credit", "debit"}
  \/ x.pc = "insertLog" /\ x.op = "deposit"

\* What the locals x know of the points P and the rows S while nobody else runs.
CalmLocal(x, P, S) ==
  /\ Computing(x) => x.seen = P[x.user]
  /\ x.pc = "debit" => x.op = "withdraw"
  /\ x.pc \in {"dice", "mint", "sign"} => x.op = "burn"
  /\ x.pc = "signVoucher" => P[x.event.user] >= x.event.amount
  /\ x.pc = "freeSlots" => FreeOf(S, x.user, x.key) = {}

\* The price and the slot of a request that pays, of the rows S.
PaidPcs == {"open", "convert", "countLand", "newLand"}
PriceOf(op) ==
  CASE op = "openSlot" -> PriceToOpen
    [] op = "convertIndoor" -> PriceIndoor
    [] OTHER -> LandPrice
PaidFor(op) ==
  CASE op = "openSlot" -> {"open"}
    [] op = "convertIndoor" -> {"convert"}
    [] OTHER -> {"countLand", "newLand"}
PayLocal(x, S) ==
  x.pc \in PayerPcs =>
    /\ x.op \in {"openSlot", "convertIndoor", "purchase"}
    /\ x.price = PriceOf(x.op)
    /\ x.pc \in PaidFor(x.op) \union {"readPoints", "writePoints"}
    /\ x.op # "purchase" => x.slot \in DOMAIN S /\ S[x.slot].user = x.user

\* The slot of a request that gives.
GiftLocal(x, S) == x.pc \in GiftPcs => x.slot \in DOMAIN S /\ S[x.slot].user = x.user

-----------------------------------------------------------------------------
(* What a step makes of the locals of its request *)

BeginPcs == {"freeSlots", "upsert", "readPoints", "deleteSlots", "readBalance", "findUser",
             "openFree", "upgradeFree"}

\* What a request knows after its first step.
Begun(x) ==
  /\ x \in Local /\ x.pc \in BeginPcs
  /\ x.pc = "freeSlots" => ~HasFreeLand(x.user, x.key)
  /\ x.pc = "findUser" => x.event \in Events /\ ~Handled(x.event) /\ x.op = OpOf(x.event.type)
  /\ PayLocal(x, slots) /\ GiftLocal(x, slots)

LEMMA PayingBegun ==
  ASSUME NEW op \in {"openSlot", "convertIndoor", "purchase"}, NEW u \in Users, NEW s \in Nat,
         NEW land \in Nat, op # "purchase" => s \in OwnSlots(u)
  PROVE  Begun(Paying(op, u, s, land, PriceOf(op)))
<1> DEFINE x == Paying(op, u, s, land, PriceOf(op))
<1>1. PriceOf(op) \in Nat
  BY PricesAssumption DEF PriceOf
<1>2. x \in Local
  BY <1>1, IdleType DEF Paying, Local, Ops, Pcs
<1>3. x.pc = "readPoints" /\ x.op = op /\ x.user = u /\ x.slot = s /\ x.price = PriceOf(op)
  BY DEF Paying, Idle
<1>4. op # "purchase" => s \in DOMAIN slots /\ slots[s].user = u
  BY DEF OwnSlots, SlotIds
<1> HIDE DEF x
<1>5. Begun(x)
  BY <1>2, <1>3, <1>4 DEF Begun, BeginPcs, PayLocal, GiftLocal, GiftPcs
<1> QED BY <1>5 DEF x

\* A first step reads, and writes only the locals of its request.
LEMMA StartBegins ==
  ASSUME LedgerInv, NEW r \in Reqs, Start(r)
  PROVE  /\ At(r, "idle") /\ UNCHANGED <<rows, now, history>>
         /\ \E x : Begun(x) /\ req' = [req EXCEPT ![r] = x]
<1>0. SlotIds \subseteq Nat /\ now \in Nat
  BY DEF SlotIds, LedgerInv, TypeOK
<1>1. At(r, "idle") /\ UNCHANGED <<rows, now, history>>
  BY DEF Start, Begin, At, LoginBegin, OpenSlotBegin, ConvertBegin, PurchaseBegin,
         InvalidateSlotsBegin, VoucherBegin, EventBegin, FinalizeBegin, CreatePairBegin
<1>2. CASE LoginBegin(r)
  <2> DEFINE x(u, key) == [Idle EXCEPT !.op = "login", !.user = u, !.key = key,
                              !.pc = IF HasFreeLand(u, key) THEN "upsert" ELSE "freeSlots"]
  <2>1. PICK u \in Users, key \in Keys : req' = [req EXCEPT ![r] = x(u, key)]
    BY <1>2, Zenon DEF LoginBegin
  <2>2. x(u, key) \in Local
    BY IdleType DEF Local, Ops, Pcs
  <2>3. /\ x(u, key).user = u /\ x(u, key).key = key
        /\ x(u, key).pc = IF HasFreeLand(u, key) THEN "upsert" ELSE "freeSlots"
    BY DEF Idle
  <2> HIDE DEF x
  <2>4. Begun(x(u, key))
    BY <2>2, <2>3 DEF Begun, BeginPcs, PayLocal, PayerPcs, GiftLocal, GiftPcs
  <2> QED BY <2>1, <2>4, <1>1
<1>3. CASE OpenSlotBegin(r)
  <2>1. PICK u \in Users : \E s \in OwnSlots(u) :
          req' = [req EXCEPT ![r] = Paying("openSlot", u, s, 0, PriceToOpen)]
    BY <1>3, Zenon DEF OpenSlotBegin
  <2>2. PICK s \in OwnSlots(u) : req' = [req EXCEPT ![r] = Paying("openSlot", u, s, 0, PriceToOpen)]
    BY <2>1
  <2>3. s \in Nat /\ PriceOf("openSlot") = PriceToOpen
    BY <1>0 DEF OwnSlots, PriceOf
  <2>4. Begun(Paying("openSlot", u, s, 0, PriceToOpen))
    BY <2>3, PayingBegun
  <2> QED BY <1>1, <2>2, <2>4
<1>4. CASE ConvertBegin(r)
  <2>1. PICK u \in Users : \E s \in OwnSlots(u) :
          req' = [req EXCEPT ![r] = Paying("convertIndoor", u, s, 0, PriceIndoor)]
    BY <1>4, Zenon DEF ConvertBegin
  <2>2. PICK s \in OwnSlots(u) : req' = [req EXCEPT ![r] = Paying("convertIndoor", u, s, 0, PriceIndoor)]
    BY <2>1
  <2>3. s \in Nat /\ PriceOf("convertIndoor") = PriceIndoor
    BY <1>0 DEF OwnSlots, PriceOf
  <2>4. Begun(Paying("convertIndoor", u, s, 0, PriceIndoor))
    BY <2>3, PayingBegun
  <2> QED BY <1>1, <2>2, <2>4
<1>5. CASE PurchaseBegin(r)
  <2>1. PICK u \in Users : req' = [req EXCEPT ![r] = Paying("purchase", u, 0, now, LandPrice)]
    BY <1>5, Zenon DEF PurchaseBegin
  <2>2. PriceOf("purchase") = LandPrice
    BY DEF PriceOf
  <2>3. Begun(Paying("purchase", u, 0, now, LandPrice))
    BY <1>0, <2>2, PayingBegun
  <2> QED BY <1>1, <2>1, <2>3
<1>6. CASE InvalidateSlotsBegin(r)
  <2> DEFINE x(found) == [Idle EXCEPT !.op = "invalidateSlots", !.doomed = found,
                                      !.pc = "deleteSlots"]
  <2>1. PICK prevOwner \in Users, key \in Keys :
          req' = [req EXCEPT ![r] =
                    x({s \in SlotIds : slots[s].user = prevOwner /\ slots[s].key = key})]
    BY <1>6, Zenon DEF InvalidateSlotsBegin
  <2>2. PICK found \in SUBSET Nat : req' = [req EXCEPT ![r] = x(found)]
    BY <1>0, <2>1
  <2>3. x(found) \in Local /\ x(found).pc = "deleteSlots"
    BY IdleType DEF Local, Ops, Pcs, Idle
  <2> HIDE DEF x
  <2>4. Begun(x(found))
    BY <2>3 DEF Begun, BeginPcs, PayLocal, PayerPcs, GiftLocal, GiftPcs
  <2> QED BY <1>1, <2>2, <2>4
<1>7. CASE VoucherBegin(r)
  <2> DEFINE x(e) == [Idle EXCEPT !.op = "convertBp2High", !.user = e.user, !.event = e,
                                  !.pc = "readBalance"]
  <2>1. PICK e \in Events : req' = [req EXCEPT ![r] = x(e)]
    BY <1>7, Zenon DEF VoucherBegin
  <2>2. x(e) \in Local /\ x(e).pc = "readBalance"
    BY EventParts, IdleType DEF Local, Ops, Pcs, Idle
  <2> HIDE DEF x
  <2>3. Begun(x(e))
    BY <2>2 DEF Begun, BeginPcs, PayLocal, PayerPcs, GiftLocal, GiftPcs
  <2> QED BY <1>1, <2>1, <2>3
<1>8. CASE EventBegin(r)
  <2> DEFINE x(e) == [Idle EXCEPT !.op = OpOf(e.type), !.user = e.user, !.event = e,
                                  !.pc = "findUser"]
  <2>1. PICK e \in Events : ~Handled(e) /\ req' = [req EXCEPT ![r] = x(e)]
    BY <1>8, Zenon DEF EventBegin
  <2>2. OpOf(e.type) \in Ops /\ e.user \in Users
    BY EventParts DEF Ops
  <2>3. x(e) \in Local /\ x(e).pc = "findUser" /\ x(e).event = e /\ x(e).op = OpOf(e.type)
    BY <2>2, IdleType DEF Local, Pcs, Idle
  <2> HIDE DEF x
  <2>4. Begun(x(e))
    BY <2>1, <2>3 DEF Begun, BeginPcs, PayLocal, PayerPcs, GiftLocal, GiftPcs
  <2> QED BY <1>1, <2>1, <2>4
<1>9. CASE FinalizeBegin(r) \/ CreatePairBegin(r)
  <2>1. PICK x : GiftBegins(r, x)
    BY <1>9, GiftBegin
  <2>2. PICK op \in {"finalize", "createPair"}, u \in Users, s \in Nat, pc \in GiftPcs :
          s \in OwnSlots(u) /\ x = Giving(op, u, s, pc) /\ req' = [req EXCEPT ![r] = x]
    BY <2>1 DEF GiftBegins
  <2>3. x \in Local /\ x.pc \in GiftPcs /\ x.slot = s /\ x.user = u
    BY <2>2, GivingLocal
  <2>4. s \in DOMAIN slots /\ slots[s].user = u
    BY <2>2 DEF OwnSlots, SlotIds
  <2>5. Begun(x)
    BY <2>3, <2>4 DEF Begun, BeginPcs, PayLocal, PayerPcs, GiftLocal, GiftPcs
  <2> QED BY <1>1, <2>2, <2>5
<1> QED BY <1>2, <1>3, <1>4, <1>5, <1>6, <1>7, <1>8, <1>9 DEF Start

\* A step to another await keeps the other locals.
LEMMA GoesTo ==
  ASSUME LedgerInv, NEW r \in Reqs, NEW pc \in Pcs, Goto(r, pc)
  PROVE  \E x \in Local :
           /\ req' = [req EXCEPT ![r] = x]
           /\ x.pc = pc /\ x.op = req[r].op /\ x.user = req[r].user /\ x.key = req[r].key
           /\ x.event = req[r].event /\ x.seen = req[r].seen /\ x.price = req[r].price
           /\ x.slot = req[r].slot /\ x.land = req[r].land
<1>1. TypeOK /\ req[r] \in Local
  BY DEF LedgerInv, TypeOK
<1>2. PICK x : x = [req[r] EXCEPT !.pc = pc]
  OBVIOUS
<1>3. x \in Local /\ req' = [req EXCEPT ![r] = x]
  BY <1>1, <1>2, GotoLocal
<1>4. /\ x.pc = pc /\ x.op = req[r].op /\ x.user = req[r].user /\ x.key = req[r].key
      /\ x.event = req[r].event /\ x.seen = req[r].seen /\ x.price = req[r].price
      /\ x.slot = req[r].slot /\ x.land = req[r].land
  BY <1>1, <1>2, PcFields
<1> QED BY <1>3, <1>4

\* A step that reads the balance of the user keeps the rest of the locals.
Reads(r, pc) ==
  \E x \in Local : /\ req' = [req EXCEPT ![r] = x]
                   /\ x.pc = pc /\ x.seen = points[req[r].user]
                   /\ x.op = req[r].op /\ x.user = req[r].user /\ x.event = req[r].event
                   /\ x.price = req[r].price /\ x.slot = req[r].slot

LEMMA ReadsTo ==
  ASSUME LedgerInv, NEW r \in Reqs, NEW u \in Users, u = req[r].user, NEW pc \in Pcs,
         req' = [req EXCEPT ![r].seen = points[u], ![r].pc = pc]
  PROVE  Reads(r, pc)
<1>1. req \in [Reqs -> Local] /\ req[r] \in Local /\ points[u] \in Int
  BY DEF LedgerInv, TypeOK
<1>2. PICK x : x = [req[r] EXCEPT !.seen = points[u], !.pc = pc]
  OBVIOUS
<1>3. x \in Local
  BY <1>1, <1>2 DEF Local
<1>4. req' = [req EXCEPT ![r] = x]
  BY <1>1, <1>2, SeenAndPc, Zenon
<1>5. /\ x.pc = pc /\ x.seen = points[u]
      /\ x.op = req[r].op /\ x.user = req[r].user /\ x.event = req[r].event
      /\ x.price = req[r].price /\ x.slot = req[r].slot
  BY <1>1, <1>2 DEF Local
<1> QED BY <1>3, <1>4, <1>5 DEF Reads

\* The balance is read by the requests that pay and by those of an event.
LEMMA BalanceRead ==
  ASSUME LedgerInv, NEW r \in Reqs, ReadPoints(r) \/ FindUser(r), ~Reply(r)
  PROVE  /\ ReadPoints(r) => Reads(r, "writePoints")
         /\ FindUser(r) => Reads(r, AfterUser(r)) /\ AfterUser(r) \in {"insertLog", "debit", "dice"}
         /\ UNCHANGED <<rows, now, history>>
<1>1. LocalInv(req[r], log, credited, slots)
  BY RequestInvIs DEF LedgerInv
<1>2. req[r].user \in Users
  BY <1>1, EventParts DEF ReadPoints, FindUser, At, LocalInv, PayerPcs, EventPcs
<1>3. AfterUser(r) \in {"insertLog", "debit", "dice"} /\ {"insertLog", "debit", "dice", "writePoints"} \subseteq Pcs
  BY DEF AfterUser, Pcs
<1>4. CASE ReadPoints(r)
  <2>1. Reads(r, "writePoints")
    BY <1>2, <1>3, <1>4, ReadsTo DEF ReadPoints
  <2> QED BY <1>4, <2>1 DEF ReadPoints, FindUser, At
<1>5. CASE FindUser(r)
  <2>1. Reads(r, AfterUser(r))
    BY <1>2, <1>3, <1>5, ReadsTo DEF FindUser
  <2> QED BY <1>3, <1>5, <2>1 DEF ReadPoints, FindUser, At
<1> QED BY <1>4, <1>5

-----------------------------------------------------------------------------
(* What a request knows while nobody else runs                             *)

\* The locals of r become ones that know of the points and the rows of after the step.
CalmMoves(r) ==
  \E x \in Local : /\ req' = [req EXCEPT ![r] = x]
                   /\ At(r, "idle") => x.pc # "idle"
                   /\ CalmLocal(x, points', slots')

LEMMA CalmIdle == ASSUME NEW x, x.pc = "idle", NEW P, NEW S PROVE CalmLocal(x, P, S)
  BY DEF CalmLocal, Computing

\* The calm knowledge of the others is of no await.
LEMMA CalmStep ==
  ASSUME TypeOK, NEW r \in Reqs, CalmMoves(r), Serial, Serial'
  PROVE  \A q \in Reqs : CalmLocal(req'[q], points', slots')
<1>1. PICK x \in Local : /\ req' = [req EXCEPT ![r] = x]
                         /\ At(r, "idle") => x.pc # "idle"
                         /\ CalmLocal(x, points', slots')
  BY DEF CalmMoves
<1>2. req'[r] = x /\ \A q \in Reqs \ {r} : req'[q] = req[q]
  BY <1>1, LocalsType
<1>3. ASSUME NEW q \in Reqs \ {r} PROVE req'[q].pc = "idle"
  BY <1>1, <1>2 DEF Serial, At
<1> QED BY <1>1, <1>2, <1>3, CalmIdle

LEMMA CalmReply ==
  ASSUME NEW r \in Reqs, Reply(r), ~At(r, "idle") PROVE CalmMoves(r)
<1>1. Idle \in Local /\ Idle.pc = "idle"
  BY IdleType DEF Idle
<1> QED BY <1>1, CalmIdle DEF Reply, CalmMoves

LEMMA CalmBegin ==
  ASSUME LedgerInv, NEW r \in Reqs, Start(r) PROVE CalmMoves(r)
<1>1. UNCHANGED <<points, slots>>
  BY StartBegins DEF rows
<1>2. PICK x : Begun(x) /\ req' = [req EXCEPT ![r] = x]
  BY StartBegins
<1>3. /\ x.pc # "idle" /\ ~Computing(x)
      /\ x.pc \notin {"debit", "dice", "mint", "sign", "signVoucher"}
  BY <1>2 DEF Begun, BeginPcs, Computing
<1>4. x.pc = "freeSlots" => FreeOf(slots, x.user, x.key) = {}
  BY <1>2 DEF Begun, HasFreeLand, FreeRows, FreeOf, SlotIds
<1> QED BY <1>1, <1>2, <1>3, <1>4 DEF CalmMoves, CalmLocal, Begun

\* Going on to an await at which the balance read before is no longer used.
LEMMA CalmGoto ==
  ASSUME LedgerInv, NEW r \in Reqs, ~At(r, "idle"), NEW pc \in Pcs, Goto(r, pc),
         pc \notin {"writePoints", "credit", "debit", "signVoucher", "freeSlots"},
         pc = "insertLog" => req[r].op # "deposit",
         pc \in {"dice", "mint", "sign"} => req[r].op = "burn"
  PROVE  CalmMoves(r)
<1>1. PICK x \in Local : req' = [req EXCEPT ![r] = x] /\ x.pc = pc /\ x.op = req[r].op
  BY GoesTo
<1>2. CalmLocal(x, points', slots')
  BY <1>1 DEF CalmLocal, Computing
<1> QED BY <1>1, <1>2 DEF CalmMoves

LEMMA CalmPays ==
  ASSUME LedgerInv, NEW r \in Reqs, ReadPoints(r) \/ WritePoints(r) \/ CountLand(r)
  PROVE  CalmMoves(r)
<1>0. ~At(r, "idle") /\ {"writePoints", "open", "convert", "countLand", "newLand"} \subseteq Pcs
  BY DEF ReadPoints, WritePoints, CountLand, At, Pcs
<1>1. CASE ReadPoints(r)
  <2>1. CASE Reply(r)
    BY <1>0, <2>1, CalmReply
  <2>2. CASE ~Reply(r)
    <3>1. Reads(r, "writePoints") /\ UNCHANGED points
      BY <1>1, <2>2, BalanceRead DEF rows
    <3>2. PICK x \in Local : /\ req' = [req EXCEPT ![r] = x] /\ x.pc = "writePoints"
                             /\ x.seen = points[req[r].user] /\ x.user = req[r].user
      BY <3>1 DEF Reads
    <3>3. CalmLocal(x, points', slots')
      BY <3>1, <3>2 DEF CalmLocal
    <3> QED BY <1>0, <3>2, <3>3 DEF CalmMoves
  <2> QED BY <2>1, <2>2
<1>2. CASE WritePoints(r)
  BY <1>0, <1>2, CalmGoto DEF WritePoints, AfterPaying
<1>3. CASE CountLand(r)
  BY <1>0, <1>3, CalmGoto, CalmReply DEF CountLand
<1> QED BY <1>1, <1>2, <1>3

LEMMA CalmEvents ==
  ASSUME LedgerInv, NEW r \in Reqs, CalmLocal(req[r], points, slots),
         FindUser(r) \/ InsertLog(r) \/ Credit(r) \/ Debit(r) \/ Dice(r) \/ Mint(r) \/ Sign(r)
  PROVE  CalmMoves(r)
<1>0. /\ ~At(r, "idle") /\ req[r].pc \in EventPcs
      /\ {"insertLog", "credit", "debit", "dice", "mint", "sign"} \subseteq Pcs
  BY DEF FindUser, InsertLog, Credit, Debit, Dice, Mint, Sign, At, Pcs, EventPcs
<1>1. /\ LocalInv(req[r], log, credited, slots)
      /\ req[r].event \in Events /\ req[r].user = req[r].event.user
  BY <1>0, RequestInvIs DEF LedgerInv, LocalInv
<1>2. req[r].user \in Users
  BY <1>1, EventParts
<1>3. CASE Reply(r)
  BY <1>0, <1>3, CalmReply
<1>4. CASE FindUser(r) /\ ~Reply(r)
  <2>1. Reads(r, AfterUser(r)) /\ UNCHANGED points
    BY <1>4, BalanceRead DEF rows
  <2>2. PICK pc : pc = AfterUser(r)
    OBVIOUS
  <2>3. PICK x \in Local : /\ req' = [req EXCEPT ![r] = x] /\ x.pc = pc /\ x.op = req[r].op
                           /\ x.seen = points[req[r].user] /\ x.user = req[r].user
    BY <2>1, <2>2 DEF Reads
  <2>4. /\ req[r].op \in {"deposit", "withdraw", "burn"}
        /\ pc = IF req[r].op = "deposit" THEN "insertLog"
                ELSE IF req[r].op = "withdraw" THEN "debit" ELSE "dice"
    BY <1>0, <1>1, <2>2, EventParts DEF AfterUser, LocalInv
  <2>5. CalmLocal(x, points', slots')
    BY <2>1, <2>3, <2>4 DEF CalmLocal
  <2> QED BY <1>0, <2>3, <2>5 DEF CalmMoves
<1>5. CASE InsertLog(r) /\ ~Reply(r)
  <2>1. Goto(r, "credit") /\ req[r].op = "deposit" /\ UNCHANGED points
    BY <1>5 DEF InsertLog, AfterLog
  <2>2. PICK x \in Local : /\ req' = [req EXCEPT ![r] = x] /\ x.pc = "credit"
                           /\ x.seen = req[r].seen /\ x.user = req[r].user
    BY <1>0, <2>1, GoesTo
  <2>3. req[r].seen = points[req[r].user]
    BY <1>5, <2>1 DEF CalmLocal, Computing, InsertLog, At
  <2>4. CalmLocal(x, points', slots')
    BY <2>1, <2>2, <2>3 DEF CalmLocal
  <2> QED BY <1>0, <2>2, <2>4 DEF CalmMoves
<1>6. CASE Debit(r) /\ ~Reply(r)
  <2>1. Goto(r, "insertLog") /\ req[r].op = "withdraw"
    BY <1>6 DEF Debit, CalmLocal, At
  <2> QED BY <1>0, <2>1, CalmGoto
<1>7. CASE Dice(r) /\ ~Reply(r)
  <2>1. req[r].op = "burn" /\ (Goto(r, "mint") \/ Goto(r, "insertLog"))
    BY <1>7 DEF Dice, CalmLocal, At
  <2> QED BY <1>0, <2>1, CalmGoto
<1>8. CASE Mint(r) \/ Sign(r)
  <2>1. req[r].op = "burn" /\ (Goto(r, "sign") \/ Goto(r, "insertLog"))
    BY <1>8 DEF Mint, Sign, CalmLocal, At
  <2> QED BY <1>0, <2>1, CalmGoto
<1> QED BY <1>3, <1>4, <1>5, <1>6, <1>7, <1>8 DEF Credit

LEMMA CalmOthers ==
  ASSUME LedgerInv, NEW r \in Reqs,
         \/ CreateFree(r) \/ Upsert(r) \/ Open(r) \/ Convert(r) \/ CreateLand(r) \/ DeleteSlots(r)
         \/ ReadBalance(r) \/ SignVoucher(r) \/ Abort(r) \/ OpenFree(r) \/ UpgradeFree(r)
  PROVE  CalmMoves(r)
<1>0. ~At(r, "idle") /\ {"upsert", "signVoucher"} \subseteq Pcs
  BY DEF CreateFree, Upsert, Open, Convert, CreateLand, DeleteSlots, ReadBalance, SignVoucher,
         Abort, OpenFree, UpgradeFree, At, Pcs
<1>1. CASE Reply(r)
  BY <1>0, <1>1, CalmReply
<1>2. CASE CreateFree(r)
  BY <1>0, <1>2, CalmGoto DEF CreateFree
<1>3. CASE ReadBalance(r) /\ ~Reply(r)
  <2>1. Covers(req[r].event) /\ Goto(r, "signVoucher") /\ UNCHANGED points
    BY <1>3 DEF ReadBalance, rows
  <2>2. PICK x \in Local : /\ req' = [req EXCEPT ![r] = x] /\ x.pc = "signVoucher"
                           /\ x.event = req[r].event
    BY <1>0, <2>1, GoesTo
  <2>3. CalmLocal(x, points', slots')
    BY <2>1, <2>2 DEF CalmLocal, Computing, Covers
  <2> QED BY <1>0, <2>2, <2>3 DEF CalmMoves
<1> QED BY <1>1, <1>2, <1>3 DEF Upsert, Open, Convert, CreateLand, DeleteSlots, SignVoucher, Abort,
                                     OpenFree, UpgradeFree

\* Every step of a request leaves it knowing what it must.
LEMMA CalmMove ==
  ASSUME LedgerInv, NEW r \in Reqs, CalmLocal(req[r], points, slots),
         Start(r) \/ Continue(r) \/ Abort(r)
  PROVE  CalmMoves(r)
  BY CalmBegin, CalmPays, CalmEvents, CalmOthers DEF Continue

-----------------------------------------------------------------------------
(* The points                                                              *)

\* What has left the points of a user, or is still there.
Worth(u) == points[u] + charged[u] + withdrawn[u]

LEMMA PointsKept ==
  ASSUME NEW r \in Reqs, Start(r) \/ Continue(r) \/ Abort(r),
         ~WritePoints(r), ~Credit(r), ~Debit(r)
  PROVE  UNCHANGED <<points, credited, debited, charged, withdrawn>>
<1>1. CASE Start(r)
  BY <1>1 DEF Start, LoginBegin, OpenSlotBegin, ConvertBegin, PurchaseBegin, InvalidateSlotsBegin,
              VoucherBegin, EventBegin, FinalizeBegin, CreatePairBegin, rows, history
<1>2. CASE Continue(r)
  BY <1>2 DEF Continue, CreateFree, Upsert, ReadPoints, Open, Convert, CountLand, CreateLand,
              DeleteSlots, ReadBalance, SignVoucher, FindUser, InsertLog, Dice, Mint, Sign,
              OpenFree, UpgradeFree, rows, history
<1>3. CASE Abort(r)
  BY <1>3 DEF Abort, rows, history
<1> QED BY <1>1, <1>2, <1>3

LEMMA SlotsKept ==
  ASSUME NEW r \in Reqs, Start(r) \/ Continue(r) \/ Abort(r),
         ~CreateFree(r), ~CreateLand(r), ~Open(r), ~Convert(r), ~DeleteSlots(r),
         ~OpenFree(r), ~UpgradeFree(r)
  PROVE  UNCHANGED slots
<1>1. CASE Start(r)
  BY <1>1 DEF Start, LoginBegin, OpenSlotBegin, ConvertBegin, PurchaseBegin, InvalidateSlotsBegin,
              VoucherBegin, EventBegin, FinalizeBegin, CreatePairBegin, rows
<1>2. CASE Continue(r)
  BY <1>2 DEF Continue, Upsert, ReadPoints, WritePoints, CountLand, ReadBalance, SignVoucher,
              FindUser, InsertLog, Credit, Debit, Dice, Mint, Sign, rows
<1>3. CASE Abort(r)
  BY <1>3 DEF Abort, rows
<1> QED BY <1>1, <1>2, <1>3

LEMMA LogKept ==
  ASSUME NEW r \in Reqs, Start(r) \/ Continue(r), ~InsertLog(r) PROVE UNCHANGED log
<1>1. CASE Start(r)
  BY <1>1 DEF Start, LoginBegin, OpenSlotBegin, ConvertBegin, PurchaseBegin, InvalidateSlotsBegin,
              VoucherBegin, EventBegin, FinalizeBegin, CreatePairBegin, rows
<1>2. CASE Continue(r)
  BY <1>2 DEF Continue, CreateFree, Upsert, ReadPoints, WritePoints, Open, Convert, CountLand,
              CreateLand, DeleteSlots, ReadBalance, SignVoucher, FindUser, Credit, Debit, Dice, Mint,
              Sign, OpenFree, UpgradeFree, rows
<1> QED BY <1>1, <1>2

LEMMA VoucherKept ==
  ASSUME NEW r \in Reqs, Start(r) \/ Continue(r) \/ Abort(r), ~SignVoucher(r)
  PROVE  UNCHANGED voucher
<1>1. CASE Start(r)
  BY <1>1 DEF Start, LoginBegin, OpenSlotBegin, ConvertBegin, PurchaseBegin, InvalidateSlotsBegin,
              VoucherBegin, EventBegin, FinalizeBegin, CreatePairBegin, history
<1>2. CASE Continue(r)
  BY <1>2 DEF Continue, CreateFree, Upsert, ReadPoints, WritePoints, Open, Convert, CountLand,
              CreateLand, DeleteSlots, ReadBalance, FindUser, InsertLog, Credit, Debit, Dice, Mint,
              Sign, OpenFree, UpgradeFree, history
<1>3. CASE Abort(r)
  BY <1>3 DEF Abort, history
<1> QED BY <1>1, <1>2, <1>3

\* A price is taken from the points and nothing else.
LEMMA PriceTaken ==
  ASSUME LedgerInv, NEW r \in Reqs, CalmLocal(req[r], points, slots), WritePoints(r)
  PROVE  /\ req[r].user \in Users /\ req[r].price \in Nat
         /\ points' = [points EXCEPT ![req[r].user] = points[req[r].user] - req[r].price]
         /\ charged' = [charged EXCEPT ![req[r].user] = charged[req[r].user] + req[r].price]
         /\ UNCHANGED <<credited, debited, withdrawn, voucher>>
<1>1. LocalInv(req[r], log, credited, slots) /\ req[r] \in Local
  BY RequestInvIs DEF LedgerInv, TypeOK
<1>2. req[r].user \in Users /\ req[r].price \in Nat
  BY <1>1 DEF LocalInv, PayerPcs, WritePoints, At, Local
<1>3. req[r].seen = points[req[r].user]
  BY DEF CalmLocal, Computing, WritePoints, At
<1> QED BY <1>2, <1>3 DEF WritePoints

\* A deposit is added to the points and nothing else.
LEMMA DepositAdded ==
  ASSUME LedgerInv, NEW r \in Reqs, CalmLocal(req[r], points, slots), Credit(r),
         Storable(NewBalance(r)), NEW e, e = req[r].event
  PROVE  /\ e \in Events /\ e.type = "DEPOSIT_BP"
         /\ points' = [points EXCEPT ![e.user] = points[e.user] + e.amount]
         /\ credited' = [credited EXCEPT ![e.tx] = credited[e.tx] + 1]
         /\ UNCHANGED <<debited, charged, withdrawn, voucher>>
<1>1. LocalInv(req[r], log, credited, slots) /\ req[r].pc = "credit"
  BY RequestInvIs DEF LedgerInv, Credit, At
<1>2. e \in Events /\ req[r].op = "deposit" /\ req[r].op = OpOf(e.type) /\ req[r].user = e.user
  BY <1>1 DEF LocalInv, EventPcs
<1>3. req[r].seen = points[e.user]
  BY <1>1, <1>2 DEF CalmLocal, Computing
<1>4. NewBalance(r) = points[e.user] + e.amount
  BY <1>2, <1>3 DEF NewBalance
<1>5. e.type = "DEPOSIT_BP"
  BY <1>2, EventParts
<1>6. points' = [points EXCEPT ![e.user] = NewBalance(r)]
      /\ credited' = [credited EXCEPT ![e.tx] = credited[e.tx] + 1]
      /\ UNCHANGED <<debited, charged, withdrawn, voucher>>
  BY DEF Credit
<1> QED BY <1>2, <1>4, <1>5, <1>6

\* A withdrawal is taken from the points and nothing else.
LEMMA WithdrawalTaken ==
  ASSUME LedgerInv, NEW r \in Reqs, CalmLocal(req[r], points, slots), Debit(r),
         Storable(NewBalance(r)), NEW e, e = req[r].event
  PROVE  /\ e \in Events /\ e.type = "WITHDRAW_BP"
         /\ points' = [points EXCEPT ![e.user] = points[e.user] - e.amount]
         /\ debited' = [debited EXCEPT ![e.tx] = debited[e.tx] + 1]
         /\ withdrawn' = [withdrawn EXCEPT ![e.user] = withdrawn[e.user] + e.amount]
         /\ UNCHANGED <<credited, charged, voucher>>
<1>1. LocalInv(req[r], log, credited, slots) /\ req[r].pc = "debit"
  BY RequestInvIs DEF LedgerInv, Debit, At
<1>2. e \in Events /\ req[r].op = "withdraw" /\ req[r].op = OpOf(e.type) /\ req[r].user = e.user
  BY <1>1 DEF LocalInv, EventPcs, CalmLocal
<1>3. req[r].seen = points[e.user]
  BY <1>1, <1>2 DEF CalmLocal, Computing
<1>4. NewBalance(r) = points[e.user] - e.amount
  BY <1>2, <1>3 DEF NewBalance
<1>5. e.type = "WITHDRAW_BP"
  BY <1>2, EventParts
<1>6. /\ points' = [points EXCEPT ![e.user] = NewBalance(r)]
      /\ debited' = [debited EXCEPT ![e.tx] = debited[e.tx] + 1]
      /\ withdrawn' = [withdrawn EXCEPT ![e.user] = withdrawn[e.user] + e.amount]
      /\ UNCHANGED <<credited, charged, voucher>>
  BY DEF Debit
<1> QED BY <1>2, <1>4, <1>5, <1>6

\* Without these three writes there is nothing to account for.
LEMMA NothingMoved ==
  ASSUME NEW r \in Reqs, Start(r) \/ Continue(r) \/ Abort(r), ~WritePoints(r),
         Credit(r) \/ Debit(r) => ~Storable(NewBalance(r))
  PROVE  UNCHANGED <<points, credited, debited, charged, withdrawn>>
<1>1. CASE Credit(r)
  BY <1>1 DEF Credit
<1>2. CASE Debit(r)
  BY <1>2 DEF Debit
<1> QED BY <1>1, <1>2, PointsKept

LEMMA WorthKept ==
  ASSUME LedgerInv, NEW r \in Reqs, CalmLocal(req[r], points, slots),
         Start(r) \/ Continue(r) \/ Abort(r)
  PROVE  \A u \in Users : Worth(u) \in Int /\ Worth(u)' \in Int /\ Worth(u) <= Worth(u)'
<1>1. /\ points \in [Users -> Int] /\ charged \in [Users -> Nat] /\ withdrawn \in [Users -> Nat]
  BY DEF LedgerInv, TypeOK
<1>2. CASE WritePoints(r)
  <2>1. PICK u \in Users, n \in Nat :
          /\ points' = [points EXCEPT ![u] = points[u] - n]
          /\ charged' = [charged EXCEPT ![u] = charged[u] + n] /\ UNCHANGED withdrawn
    BY <1>2, PriceTaken
  <2> QED BY <1>1, <2>1 DEF Worth
<1>3. CASE Credit(r) /\ Storable(NewBalance(r))
  <2>1. PICK u \in Users, n \in Nat :
          points' = [points EXCEPT ![u] = points[u] + n] /\ UNCHANGED <<charged, withdrawn>>
    BY <1>3, DepositAdded, EventParts
  <2> QED BY <1>1, <2>1 DEF Worth
<1>4. CASE Debit(r) /\ Storable(NewBalance(r))
  <2>1. PICK u \in Users, n \in Nat :
          /\ points' = [points EXCEPT ![u] = points[u] - n]
          /\ withdrawn' = [withdrawn EXCEPT ![u] = withdrawn[u] + n] /\ UNCHANGED charged
    BY <1>4, WithdrawalTaken, EventParts
  <2> QED BY <1>1, <2>1 DEF Worth
<1>5. CASE ~WritePoints(r) /\ (Credit(r) \/ Debit(r) => ~Storable(NewBalance(r)))
  BY <1>1, <1>5, NothingMoved DEF Worth
<1>6. ~(Credit(r) /\ Debit(r)) /\ ~(WritePoints(r) /\ (Credit(r) \/ Debit(r)))
  BY DEF Credit, Debit, WritePoints, At
<1> QED BY <1>2, <1>3, <1>4, <1>5, <1>6

\* Signing only for covered amounts keeps every voucher covered.
LEMMA VoucherStep ==
  ASSUME LedgerInv, VoucherCovered, NEW r \in Reqs, CalmLocal(req[r], points, slots),
         Start(r) \/ Continue(r) \/ Abort(r)
  PROVE  VoucherCovered'
<1>0. /\ points \in [Users -> Int] /\ charged \in [Users -> Nat] /\ withdrawn \in [Users -> Nat]
      /\ voucher \in [Events -> Nat \union {None}]
  BY DEF LedgerInv, TypeOK
<1> SUFFICES ASSUME NEW e \in Events, voucher'[e] # None
             PROVE  Worth(e.user)' - voucher'[e] >= e.amount /\ voucher'[e] \in Int /\ Worth(e.user)' \in Int
                    /\ points'[e.user] \in Int /\ charged'[e.user] \in Int /\ withdrawn'[e.user] \in Int
  BY DEF VoucherCovered, Worth
<1>1. e.user \in Users /\ e.amount \in Nat
  BY EventParts
<1>2. LedgerInv'
  BY NextInv DEF Next
<1>3. /\ points'[e.user] \in Int /\ charged'[e.user] \in Int /\ withdrawn'[e.user] \in Int
      /\ voucher'[e] \in Int
  BY <1>1, <1>2 DEF LedgerInv, TypeOK
<1>4. Worth(e.user) <= Worth(e.user)' /\ Worth(e.user) \in Int /\ Worth(e.user)' \in Int
  BY <1>1, WorthKept
<1>5. CASE SignVoucher(r) /\ e = req[r].event
  <2>1. voucher'[e] = charged[e.user] + withdrawn[e.user]
    BY <1>0, <1>5 DEF SignVoucher
  <2>2. points[e.user] >= e.amount
    BY <1>5 DEF CalmLocal, SignVoucher, At
  <2> QED BY <1>0, <1>1, <1>3, <1>4, <2>1, <2>2 DEF Worth
<1>6. CASE ~(SignVoucher(r) /\ e = req[r].event)
  <2>1. voucher'[e] = voucher[e]
    <3>1. CASE SignVoucher(r)
      BY <1>0, <1>6, <3>1 DEF SignVoucher
    <3>2. CASE ~SignVoucher(r)
      BY <3>2, VoucherKept
    <3> QED BY <3>1, <3>2
  <2>2. points[e.user] + (charged[e.user] + withdrawn[e.user] - voucher[e]) >= e.amount
    BY <2>1 DEF VoucherCovered
  <2>3. Worth(e.user) - voucher[e] >= e.amount
    BY <1>0, <1>1, <1>3, <2>1, <2>2 DEF Worth
  <2> QED BY <1>1, <1>3, <1>4, <2>1, <2>3
<1> QED BY <1>5, <1>6

-----------------------------------------------------------------------------
(* The rows of the free lands                                              *)

LEMMA FreeOfIs ==
  ASSUME NEW u, NEW key
  PROVE  FreeRows(u, key) = FreeOf(slots, u, key) /\ FreeRows(u, key)' = FreeOf(slots', u, key)
  BY DEF FreeRows, FreeOf, SlotIds

\* Rows that only change, and never back from deleted, are no more free rows.
LEMMA FreeFewer ==
  ASSUME NEW S, NEW T, Grown(S, T), DOMAIN T = DOMAIN S,
         \A s \in DOMAIN S : S[s].deleted => T[s].deleted,
         NEW u, NEW key
  PROVE  FreeOf(T, u, key) \subseteq FreeOf(S, u, key)
  BY DEF FreeOf, Grown

\* The rows of a land come after the m others, the first of them open.
LandAppended(m, u, key, land) ==
  /\ m \in Nat /\ DOMAIN slots = 1..m /\ DOMAIN slots' = 1..(m + SlotsPerLand)
  /\ \A s \in 1..m : slots'[s] = slots[s]
  /\ \A s \in (m + 1)..(m + SlotsPerLand) :
       /\ slots'[s].user = u /\ slots'[s].key = key /\ slots'[s].land = land
       /\ slots'[s].open = (s = m + 1)
       /\ slots'[s].indoor = FALSE

LEMMA LandRowsAdded ==
  ASSUME TypeOK, NEW u \in Users, NEW key \in Keys \union {None}, NEW land \in Nat \union {None},
         slots' = slots \o LandRows(u, key, land)
  PROVE  LandAppended(Len(slots), u, key, land)
<1>0. PICK m : m = Len(slots)
  OBVIOUS
<1>1. PICK new : new = LandRows(u, key, land)
  OBVIOUS
<1>2. SlotsPerLand \in Nat \ {0} /\ slots \in Seq(SlotRow) /\ slots' = slots \o new
  BY <1>1, LandAssumption DEF TypeOK
<1>3. new \in [1..SlotsPerLand -> SlotRow]
  BY <1>1 DEF LandRows, SlotRow
<1>4. new \in Seq(SlotRow)
  BY <1>2, <1>3, SeqDef
<1>5. Len(new) = SlotsPerLand
  BY <1>2, <1>3, <1>4, LenProperties
<1>6. /\ Len(slots') = m + Len(new) /\ m \in Nat /\ DOMAIN slots = 1..m
      /\ DOMAIN slots' = 1..Len(slots')
      /\ \A i \in 1..Len(slots') :
           slots'[i] = IF i <= m THEN slots[i] ELSE new[i - m]
  BY <1>0, <1>2, <1>4
<1>7. \A s \in 1..m : slots'[s] = slots[s]
  BY <1>2, <1>5, <1>6
<1>8. ASSUME NEW s \in (m + 1)..(m + SlotsPerLand)
      PROVE  /\ slots'[s].user = u /\ slots'[s].key = key /\ slots'[s].land = land
             /\ slots'[s].open = (s = m + 1)
             /\ slots'[s].indoor = FALSE
  <2>1. PICK i \in 1..SlotsPerLand : i = s - m /\ slots'[s] = new[i]
    BY <1>2, <1>5, <1>6
  <2>2. new[i] = [user |-> u, key |-> key, land |-> land, open |-> i = 1,
                  indoor |-> FALSE, deleted |-> FALSE]
    BY <1>1 DEF LandRows
  <2>3. (i = 1) = (s = m + 1)
    BY <1>2, <1>6, <2>1
  <2>4. /\ new[i].user = u /\ new[i].key = key /\ new[i].land = land
        /\ new[i].open = (i = 1) /\ new[i].indoor = FALSE
    BY <2>2
  <2> QED BY <2>1, <2>3, <2>4, Zenon
<1> QED BY <1>0, <1>2, <1>5, <1>6, <1>7, <1>8, Zenon DEF LandAppended

LEMMA FreeFinite ==
  ASSUME TypeOK, NEW u, NEW key
  PROVE  IsFiniteSet(FreeOf(slots, u, key)) /\ Cardinality(FreeOf(slots, u, key)) \in Nat
<1>1. DOMAIN slots = 1..Len(slots) /\ Len(slots) \in Nat
  BY DEF TypeOK
<1>2. IsFiniteSet(1..Len(slots))
  BY <1>1, FS_Interval
<1>3. FreeOf(slots, u, key) \subseteq 1..Len(slots)
  BY <1>1 DEF FreeOf
<1> QED BY <1>2, <1>3, FS_Subset, FS_CardinalityType

\* Login creates a free land only when there is none for the key.
LEMMA FreeStep ==
  ASSUME LedgerInv, FreeLandOnce, NEW r \in Reqs, CalmLocal(req[r], points, slots),
         Start(r) \/ Continue(r) \/ Abort(r)
  PROVE  FreeLandOnce'
<1> SUFFICES ASSUME NEW u \in Users, NEW key \in Keys
             PROVE  Cardinality(FreeOf(slots', u, key)) <= SlotsPerLand
  BY FreeOfIs DEF FreeLandOnce
<1>0. /\ TypeOK /\ SlotsPerLand \in Nat /\ Cardinality(FreeOf(slots, u, key)) <= SlotsPerLand
      /\ LocalInv(req[r], log, credited, slots) /\ req[r] \in Local
  BY FreeOfIs, LandAssumption, RequestInvIs DEF FreeLandOnce, LedgerInv, TypeOK
<1>1. ASSUME FreeOf(slots', u, key) \subseteq FreeOf(slots, u, key)
      PROVE  Cardinality(FreeOf(slots', u, key)) <= SlotsPerLand
  <2>1. /\ Cardinality(FreeOf(slots', u, key)) <= Cardinality(FreeOf(slots, u, key))
        /\ Cardinality(FreeOf(slots', u, key)) \in Nat
        /\ Cardinality(FreeOf(slots, u, key)) \in Nat
    BY <1>0, <1>1, FreeFinite, FS_Subset, FS_CardinalityType
  <2> QED BY <1>0, <2>1
<1>2. CASE CreateFree(r)
  <2>1. /\ req[r].user \in Users /\ req[r].key \in Keys /\ FreeOf(slots, req[r].user, req[r].key) = {}
        /\ slots' = slots \o LandRows(req[r].user, req[r].key, None)
    BY <1>0, <1>2 DEF CreateFree, At, LocalInv, LoginPcs, CalmLocal
  <2>2. PICK m : m = Len(slots)
    OBVIOUS
  <2>3. LandAppended(m, req[r].user, req[r].key, None)
    BY <1>0, <2>1, <2>2, LandRowsAdded
  <2>4. /\ m \in Nat /\ DOMAIN slots = 1..m /\ DOMAIN slots' = 1..(m + SlotsPerLand)
        /\ \A s \in 1..m : slots'[s] = slots[s]
        /\ \A s \in (m + 1)..(m + SlotsPerLand) :
             slots'[s].user = req[r].user /\ slots'[s].key = req[r].key
    BY <2>3 DEF LandAppended
  <2>5. CASE u = req[r].user /\ key = req[r].key
    <3>1. FreeOf(slots', u, key) \subseteq (m + 1)..(m + SlotsPerLand)
      <4> SUFFICES ASSUME NEW s \in FreeOf(slots', u, key), s \in 1..m PROVE FALSE
        BY <1>0, <2>4 DEF FreeOf
      <4>1. s \in FreeOf(slots, u, key)
        BY <2>4 DEF FreeOf
      <4> QED BY <2>1, <2>5, <4>1
    <3>2. /\ IsFiniteSet((m + 1)..(m + SlotsPerLand))
          /\ Cardinality((m + 1)..(m + SlotsPerLand)) = SlotsPerLand
      <4>1. /\ IsFiniteSet((m + 1)..(m + SlotsPerLand))
            /\ Cardinality((m + 1)..(m + SlotsPerLand)) =
                 IF m + 1 > m + SlotsPerLand THEN 0 ELSE (m + SlotsPerLand) - (m + 1) + 1
        BY <1>0, <2>4, FS_Interval
      <4> QED BY <1>0, <2>4, <4>1
    <3> QED BY <3>1, <3>2, FS_Subset
  <2>6. CASE ~(u = req[r].user /\ key = req[r].key)
    <3>1. FreeOf(slots', u, key) \subseteq FreeOf(slots, u, key)
      <4> SUFFICES ASSUME NEW s \in FreeOf(slots', u, key), s \notin 1..m PROVE FALSE
        BY <2>4 DEF FreeOf
      <4>1. s \in (m + 1)..(m + SlotsPerLand)
        BY <1>0, <2>4 DEF FreeOf
      <4> QED BY <2>4, <2>6, <4>1 DEF FreeOf
    <3> QED BY <1>1, <3>1
  <2> QED BY <2>5, <2>6
<1>3. CASE CreateLand(r)
  <2>1. /\ req[r].user \in Users /\ req[r].land \in Nat
        /\ slots' = slots \o LandRows(req[r].user, None, req[r].land)
    BY <1>0, <1>3 DEF CreateLand, At, LocalInv, PayerPcs, Local
  <2>2. PICK m : m = Len(slots)
    OBVIOUS
  <2>3. LandAppended(m, req[r].user, None, req[r].land)
    BY <1>0, <2>1, <2>2, LandRowsAdded
  <2>4. /\ m \in Nat /\ DOMAIN slots = 1..m /\ DOMAIN slots' = 1..(m + SlotsPerLand)
        /\ \A s \in 1..m : slots'[s] = slots[s]
        /\ \A s \in (m + 1)..(m + SlotsPerLand) : slots'[s].key = None
    BY <2>3 DEF LandAppended
  <2>5. FreeOf(slots', u, key) \subseteq FreeOf(slots, u, key)
    <3> SUFFICES ASSUME NEW s \in FreeOf(slots', u, key), s \notin 1..m PROVE FALSE
      BY <2>4 DEF FreeOf
    <3>1. s \in (m + 1)..(m + SlotsPerLand)
      BY <1>0, <2>4 DEF FreeOf
    <3> QED BY <2>4, <3>1, NoneAssumption DEF FreeOf
  <2> QED BY <1>1, <2>5
<1>4. CASE Open(r) \/ Convert(r) \/ DeleteSlots(r) \/ OpenFree(r) \/ UpgradeFree(r)
  <2>1. slots \in [DOMAIN slots -> SlotRow]
    <3>1. slots \in Seq(SlotRow)
      BY <1>0 DEF TypeOK
    <3> QED BY <3>1
  <2>2. FreeOf(slots', u, key) \subseteq FreeOf(slots, u, key)
    <3>1. CASE Open(r)
      BY <2>1, <3>1 DEF Open, FreeOf, SlotRow
    <3>2. CASE Convert(r)
      BY <2>1, <3>2 DEF Convert, FreeOf, SlotRow
    <3>3. CASE DeleteSlots(r)
      BY <2>1, <3>3 DEF DeleteSlots, FreeOf, SlotRow, SlotIds
    <3>4. CASE OpenFree(r)
      BY <2>1, <3>4 DEF OpenFree, FreeOf, SlotRow
    <3>5. CASE UpgradeFree(r)
      BY <2>1, <3>5 DEF UpgradeFree, FreeOf, SlotRow
    <3> QED BY <1>4, <3>1, <3>2, <3>3, <3>4, <3>5
  <2> QED BY <1>1, <2>2
<1>5. CASE /\ ~CreateFree(r) /\ ~CreateLand(r) /\ ~Open(r) /\ ~Convert(r) /\ ~DeleteSlots(r)
           /\ ~OpenFree(r) /\ ~UpgradeFree(r)
  <2>1. UNCHANGED slots
    BY <1>5, SlotsKept
  <2> QED BY <1>0, <2>1
<1> QED BY <1>2, <1>3, <1>4, <1>5

-----------------------------------------------------------------------------
(* The balance of the points                                               *)

\* A transaction of the chain emits one of these events.
OneEventPerTx == \A e, f \in Events : e.tx = f.tx => e = f

EventsOf(u) == {e \in Events : e.user = u}
Effects     == [e \in Events |-> Effect(e)]

LEMMA MovedIs ==
  ASSUME NEW u
  PROVE  /\ Moved(u) = SumFunctionOnSet(Effects, EventsOf(u))
         /\ Moved(u)' = SumFunctionOnSet(Effects', EventsOf(u))
  BY DEF Moved, Effects, EventsOf

LEMMA OneMore == ASSUME NEW n \in Nat, NEW a \in Nat PROVE (n + 1) * a = n * a + a
  BY SMT

LEMMA Product == ASSUME NEW n \in Nat, NEW a \in Nat PROVE n * a \in Int
  BY SMT

LEMMA EffectsInt ==
  ASSUME TypeOK PROVE \A e \in Events : Effects[e] \in Int
<1> SUFFICES ASSUME NEW e \in Events PROVE Effect(e) \in Int
  BY DEF Effects
<1>1. credited[e.tx] \in Nat /\ debited[e.tx] \in Nat /\ e.amount \in Nat
  BY EventParts DEF TypeOK
<1>2. PICK c \in Int, d \in Int : c = credited[e.tx] * e.amount /\ d = debited[e.tx] * e.amount
  BY <1>1, Product
<1> QED BY <1>2 DEF Effect

\* When one event comes to n more, so do the events of its user.
LEMMA MovedBy ==
  ASSUME TypeOK, NEW e \in Events, NEW n \in Int, Effects'[e] = Effects[e] + n,
         \A f \in Events \ {e} : Effects'[f] = Effects[f], NEW u \in Users
  PROVE  Moved(u)' = IF u = e.user THEN Moved(u) + n ELSE Moved(u)
<1> DEFINE E == EventsOf(u)
<1>1. IsFiniteSet(E) /\ E \subseteq Events
  BY FiniteAssumption, FS_Subset DEF EventsOf
<1>2. (\A f \in E : Effects[f] \in Int) /\ Effects[e] \in Int
  BY <1>1, EffectsInt
<1>3. CASE u = e.user
  <2>1. e \in E
    BY <1>3 DEF EventsOf
  <2>2. Effects'[e] \in Int /\ \A f \in E \ {e} : Effects'[f] = Effects[f]
    BY <1>1, <1>2
  <2>3. SumFunctionOnSet(Effects', E) = SumFunctionOnSet(Effects, E) - Effects[e] + Effects'[e]
    BY <1>1, <1>2, <2>1, <2>2, SumUpdate
  <2>4. SumFunctionOnSet(Effects, E) \in Int
    BY <1>1, <1>2, SumInt
  <2> QED BY <1>2, <1>3, <2>3, <2>4, MovedIs
<1>4. CASE u # e.user
  <2>1. \A f \in E : Effects'[f] = Effects[f]
    BY <1>4 DEF EventsOf
  <2>2. SumFunctionOnSet(Effects', E) = SumFunctionOnSet(Effects, E)
    BY <1>1, <1>2, <2>1, SumSame
  <2> QED BY <1>4, <2>2, MovedIs
<1> QED BY <1>3, <1>4

LEMMA MovedInt == ASSUME TypeOK, NEW u PROVE Moved(u) \in Int
<1>1. IsFiniteSet(EventsOf(u)) /\ EventsOf(u) \subseteq Events
  BY FiniteAssumption, FS_Subset DEF EventsOf
<1>2. \A f \in EventsOf(u) : Effects[f] \in Int
  BY <1>1, EffectsInt
<1> QED BY <1>1, <1>2, SumInt, MovedIs

\* Without a credit or a debit the events come to what they came to.
LEMMA MovedSame == ASSUME NEW u, UNCHANGED <<credited, debited>> PROVE Moved(u)' = Moved(u)
  BY DEF Moved, Effect

LEMMA CreditMoves ==
  ASSUME TypeOK, OneEventPerTx, NEW e \in Events, e.type = "DEPOSIT_BP", UNCHANGED debited,
         credited' = [credited EXCEPT ![e.tx] = credited[e.tx] + 1], NEW u \in Users
  PROVE  Moved(u)' = IF u = e.user THEN Moved(u) + e.amount ELSE Moved(u)
<1>1. credited \in [Txs -> Nat] /\ \A f \in Events : f.tx \in Txs /\ f.amount \in Nat
  BY EventParts DEF TypeOK
<1>2. Effect(e)' = Effect(e) + e.amount
  BY <1>1, OneMore DEF Effect
<1>3. ASSUME NEW f \in Events \ {e} PROVE Effect(f)' = Effect(f)
  <2>1. f.tx # e.tx
    BY DEF OneEventPerTx
  <2> QED BY <1>1, <2>1 DEF Effect
<1>4. Effects'[e] = Effects[e] + e.amount /\ \A f \in Events \ {e} : Effects'[f] = Effects[f]
  BY <1>2, <1>3 DEF Effects
<1> QED BY <1>1, <1>4, MovedBy

LEMMA DebitMoves ==
  ASSUME TypeOK, OneEventPerTx, NEW e \in Events, e.type = "WITHDRAW_BP", UNCHANGED credited,
         debited' = [debited EXCEPT ![e.tx] = debited[e.tx] + 1], NEW u \in Users
  PROVE  Moved(u)' = IF u = e.user THEN Moved(u) - e.amount ELSE Moved(u)
<1>1. debited \in [Txs -> Nat] /\ \A f \in Events : f.tx \in Txs /\ f.amount \in Nat
  BY EventParts DEF TypeOK
<1>2. Effect(e)' = Effect(e) - e.amount
  <2>1. PICK a \in Nat, d \in Nat, m \in Int : a = e.amount /\ d = debited[e.tx] /\ m = d * a
    BY <1>1, Product
  <2>2. debited'[e.tx] = d + 1 /\ (d + 1) * a = m + a
    BY <1>1, <2>1, OneMore
  <2>3. Effect(e)' = -(m + a) /\ Effect(e) = -m
    BY <2>1, <2>2 DEF Effect
  <2> QED BY <2>1, <2>3
<1>3. ASSUME NEW f \in Events \ {e} PROVE Effect(f)' = Effect(f)
  <2>1. f.tx # e.tx
    BY DEF OneEventPerTx
  <2> QED BY <1>1, <2>1 DEF Effect
<1>4. /\ Effects'[e] = Effects[e] + (0 - e.amount)
      /\ \A f \in Events \ {e} : Effects'[f] = Effects[f]
  <2>1. Effect(e) \in Int /\ e.amount \in Nat
    BY <1>1, EffectsInt DEF Effects
  <2> QED BY <1>2, <1>3, <2>1 DEF Effects
<1>5. 0 - e.amount \in Int
  BY <1>1
<1>6. Moved(u)' = IF u = e.user THEN Moved(u) + (0 - e.amount) ELSE Moved(u)
  BY <1>4, <1>5, MovedBy
<1> QED BY <1>1, <1>6, MovedInt

\* Each write of the points is the sum of what was there and its own amount.
LEMMA BalanceStep ==
  ASSUME LedgerInv, OneEventPerTx, LedgerBalances, NEW r \in Reqs,
         CalmLocal(req[r], points, slots), Start(r) \/ Continue(r) \/ Abort(r)
  PROVE  LedgerBalances'
<1> SUFFICES ASSUME NEW u \in Users PROVE points'[u] = Moved(u)' - charged'[u]
  BY DEF LedgerBalances
<1>1. /\ TypeOK /\ points \in [Users -> Int] /\ charged \in [Users -> Nat]
      /\ points[u] = Moved(u) - charged[u]
  BY DEF LedgerInv, TypeOK, LedgerBalances
<1>2. Moved(u) \in Int
  BY <1>1, MovedInt
<1>3. CASE WritePoints(r)
  <2>1. PICK v \in Users, n \in Nat :
          /\ points' = [points EXCEPT ![v] = points[v] - n]
          /\ charged' = [charged EXCEPT ![v] = charged[v] + n]
          /\ UNCHANGED <<credited, debited>>
    BY <1>3, PriceTaken
  <2>2. Moved(u)' = Moved(u)
    BY <2>1, MovedSame
  <2> QED BY <1>1, <1>2, <2>1, <2>2
<1>4. CASE Credit(r) /\ Storable(NewBalance(r))
  <2>1. PICK e : e = req[r].event
    OBVIOUS
  <2>2. /\ e \in Events /\ e.type = "DEPOSIT_BP"
        /\ points' = [points EXCEPT ![e.user] = points[e.user] + e.amount]
        /\ credited' = [credited EXCEPT ![e.tx] = credited[e.tx] + 1]
        /\ UNCHANGED <<debited, charged>>
    BY <1>4, <2>1, DepositAdded
  <2>3. Moved(u)' = IF u = e.user THEN Moved(u) + e.amount ELSE Moved(u)
    BY <1>1, <2>2, CreditMoves
  <2>4. e.amount \in Nat /\ e.user \in Users
    BY <2>2, EventParts
  <2> QED BY <1>1, <1>2, <2>2, <2>3, <2>4
<1>5. CASE Debit(r) /\ Storable(NewBalance(r))
  <2>1. PICK e : e = req[r].event
    OBVIOUS
  <2>2. /\ e \in Events /\ e.type = "WITHDRAW_BP"
        /\ points' = [points EXCEPT ![e.user] = points[e.user] - e.amount]
        /\ debited' = [debited EXCEPT ![e.tx] = debited[e.tx] + 1]
        /\ UNCHANGED <<credited, charged>>
    BY <1>5, <2>1, WithdrawalTaken
  <2>3. Moved(u)' = IF u = e.user THEN Moved(u) - e.amount ELSE Moved(u)
    BY <1>1, <2>2, DebitMoves
  <2>4. e.amount \in Nat /\ e.user \in Users
    BY <2>2, EventParts
  <2> QED BY <1>1, <1>2, <2>2, <2>3, <2>4
<1>6. CASE ~WritePoints(r) /\ (Credit(r) \/ Debit(r) => ~Storable(NewBalance(r)))
  <2>1. UNCHANGED <<points, credited, debited, charged>>
    BY <1>6, NothingMoved
  <2> QED BY <1>1, <2>1, MovedSame
<1>7. ~(Credit(r) /\ Debit(r)) /\ ~(WritePoints(r) /\ (Credit(r) \/ Debit(r)))
  BY DEF Credit, Debit, WritePoints, At
<1> QED BY <1>3, <1>4, <1>5, <1>6, <1>7

-----------------------------------------------------------------------------
(* The theorems about requests that do not overlap                         *)

\* LedgerInv with what a request knows while nobody else runs, and what that gives.
CalmInv ==
  /\ LedgerInv
  /\ \A r \in Reqs : CalmLocal(req[r], points, slots)
  /\ VoucherCovered
  /\ FreeLandOnce

LEMMA CalmInit == Init => CalmInv
<1> SUFFICES ASSUME Init PROVE CalmInv
  OBVIOUS
<1>1. LedgerInv /\ TypeOK
  BY InitInv DEF LedgerInv
<1>2. \A r \in Reqs : req[r].pc = "idle"
  BY DEF Init, Idle
<1>3. VoucherCovered
  BY DEF Init, VoucherCovered
<1>4. ASSUME NEW u \in Users, NEW key \in Keys PROVE Cardinality(FreeRows(u, key)) <= SlotsPerLand
  <2>1. FreeRows(u, key) = {}
    BY DEF Init, FreeRows, SlotIds
  <2> QED BY <2>1, FS_EmptySet, LandAssumption
<1> QED BY <1>1, <1>2, <1>3, <1>4, CalmIdle DEF CalmInv, FreeLandOnce

LEMMA CalmStutter ==
  ASSUME CalmInv, UNCHANGED <<points, slots, req, voucher, charged, withdrawn>>, LedgerInv'
  PROVE  CalmInv'
<1>1. \A r \in Reqs : CalmLocal(req'[r], points', slots')
  BY DEF CalmInv
<1>2. VoucherCovered' /\ FreeLandOnce'
  BY DEF CalmInv, VoucherCovered, FreeLandOnce, FreeRows, SlotIds
<1> QED BY <1>1, <1>2 DEF CalmInv

LEMMA CalmNext == ASSUME CalmInv, Serial, Serial', [Next]_vars PROVE CalmInv'
<1>1. LedgerInv' /\ LedgerInv /\ TypeOK
  BY NextInv DEF CalmInv, LedgerInv
<1>2. ASSUME NEW r \in Reqs, Start(r) \/ Continue(r) \/ Abort(r) PROVE CalmInv'
  <2>1. CalmLocal(req[r], points, slots) /\ VoucherCovered /\ FreeLandOnce
    BY DEF CalmInv
  <2>2. CalmMoves(r)
    BY <1>1, <1>2, <2>1, CalmMove
  <2>3. \A q \in Reqs : CalmLocal(req'[q], points', slots')
    BY <1>1, <2>2, CalmStep
  <2>4. VoucherCovered' /\ FreeLandOnce'
    BY <1>1, <1>2, <2>1, VoucherStep, FreeStep
  <2> QED BY <1>1, <2>3, <2>4 DEF CalmInv
<1>3. ASSUME NEW r \in Reqs, Refuse(r) PROVE CalmInv'
  BY <1>1, <1>3, CalmStutter DEF Refuse, vars
<1>4. CASE Tick
  BY <1>1, <1>4, CalmStutter DEF Tick, rows, history
<1>5. CASE UNCHANGED vars
  BY <1>1, <1>5, CalmStutter DEF vars
<1> QED BY <1>2, <1>3, <1>4, <1>5 DEF Next

LEMMA CalmAlways == Spec /\ []Serial => []CalmInv
<1>1. CalmInv /\ Serial /\ Serial' /\ [Next]_vars => CalmInv'
  BY CalmNext
<1> QED BY <1>1, CalmInit, PTL DEF Spec

\* While requests do not overlap a signed voucher stays covered by the points of its
\* user and what has left them since (convertBp2High, withdrawBreedingPoint).
THEOREM VouchersCovered == Spec /\ []Serial => []VoucherCovered
<1>1. CalmInv => VoucherCovered
  BY DEF CalmInv
<1> QED BY <1>1, CalmAlways, PTL

\* While requests do not overlap no user gets the free land of a key twice
\* (UserController.login, LandService.createFreeLandSlots).
THEOREM OneFreeLand == Spec /\ []Serial => []FreeLandOnce
<1>1. CalmInv => FreeLandOnce
  BY DEF CalmInv
<1> QED BY <1>1, CalmAlways, PTL

LEMMA BalanceNext ==
  ASSUME OneEventPerTx, CalmInv, LedgerBalances, [Next]_vars PROVE LedgerBalances'
<1>1. ASSUME NEW r \in Reqs, Start(r) \/ Continue(r) \/ Abort(r) PROVE LedgerBalances'
  BY <1>1, BalanceStep DEF CalmInv
<1>2. ASSUME UNCHANGED <<points, credited, debited, charged>> PROVE LedgerBalances'
  BY <1>2, MovedSame DEF LedgerBalances
<1>3. ASSUME NEW r \in Reqs, Refuse(r) PROVE LedgerBalances'
  BY <1>2, <1>3 DEF Refuse, vars
<1>4. CASE Tick
  BY <1>2, <1>4 DEF Tick, rows, history
<1>5. CASE UNCHANGED vars
  BY <1>2, <1>5 DEF vars
<1> QED BY <1>1, <1>3, <1>4, <1>5 DEF Next

LEMMA BalanceInit == ASSUME Init PROVE LedgerBalances
<1> SUFFICES ASSUME NEW u \in Users PROVE points[u] = Moved(u) - charged[u]
  BY DEF LedgerBalances
<1>1. \A e \in Events : Effects[e] = 0
  <2> SUFFICES ASSUME NEW e \in Events PROVE Effect(e) = 0
    BY DEF Effects
  <2>1. credited[e.tx] = 0 /\ debited[e.tx] = 0 /\ e.amount \in Nat
    BY EventParts DEF Init
  <2> QED BY <2>1 DEF Effect
<1>2. IsFiniteSet(EventsOf(u)) /\ EventsOf(u) \subseteq Events
  BY FiniteAssumption, FS_Subset DEF EventsOf
<1>3. Moved(u) = 0
  BY <1>1, <1>2, SumZero, MovedIs
<1> QED BY <1>3 DEF Init

\* While requests do not overlap the points of a user are what was credited less what
\* was debited and charged, also when requests fail (addBreedingPoint,
\* withdrawBreedingPoint, consumeBreedingPoint).
THEOREM BalancesHold == ASSUME OneEventPerTx PROVE Spec /\ []Serial => []LedgerBalances
<1>1. Init => LedgerBalances
  BY BalanceInit
<1>2. CalmInv /\ LedgerBalances /\ [Next]_vars => LedgerBalances'
  BY BalanceNext
<1> QED BY <1>1, <1>2, CalmAlways, PTL DEF Spec

-----------------------------------------------------------------------------
(* An event handled once, when requests neither overlap nor fail           *)

\* What there is in the log is of events.
LogOfEvents == \A row \in log : \E e \in Events : row.tx = e.tx /\ row.type = e.type

\* What was done to a tx was done once.
Once(t, D, G) == D[t] <= 1 /\ G[t].issued <= 1 /\ G[t].signed <= G[t].issued

\* What was done to a tx is logged.
Settled(t, L, D, G) ==
  /\ D[t] = 1 => [tx |-> t, type |-> "WITHDRAW_BP"] \in L
  /\ G[t].issued = 1 => G[t].signed = 1 /\ [tx |-> t, type |-> "BURN_GEN0"] \in L

\* What is left to do for the tx of the locals x.
Closing(x, t) == x.pc \in {"sign", "insertLog"} /\ x.event.tx = t

\* What the locals x know of their tx: it is in no row of the log, and what was done
\* to it is what the request did.
TxLocal(x, L, D, G) ==
  LET t == x.event.tx
  IN  /\ x.pc \in EventPcs \ {"credit"} => \A row \in L : row.tx # t
      /\ x.pc \in {"findUser", "debit", "dice", "mint"} =>
           D[t] = 0 /\ G[t].issued = 0 /\ G[t].signed = 0
      /\ x.pc = "sign" => D[t] = 0 /\ G[t].issued = 1 /\ G[t].signed = 0
      /\ x.pc = "insertLog" => /\ D[t] = 1 => x.op = "withdraw"
                               /\ G[t].issued = 1 => x.op = "burn"
                               /\ G[t].issued = G[t].signed

\* The invariant, of the locals x of the only request being handled.
TxKnown(x, L, D, G) ==
  /\ TxLocal(x, L, D, G)
  /\ \A t \in Txs : Once(t, D, G) /\ (Settled(t, L, D, G) \/ Closing(x, t))

HandledInv ==
  /\ LogOfEvents
  /\ \A r \in Reqs : TxLocal(req[r], log, debited, gen1)
  /\ \A t \in Txs :
       /\ Once(t, debited, gen1)
       /\ Settled(t, log, debited, gen1) \/ \E r \in Reqs : Closing(req[r], t)

TxMoves(r) ==
  \E x \in Local : /\ req' = [req EXCEPT ![r] = x]
                   /\ At(r, "idle") => x.pc # "idle"
                   /\ TxKnown(x, log', debited', gen1')

LEMMA Outside ==
  ASSUME NEW x, x.pc \notin EventPcs, NEW L, NEW D, NEW G
  PROVE  TxLocal(x, L, D, G) /\ \A t : ~Closing(x, t)
  BY DEF TxLocal, Closing, EventPcs

\* A request that is about no event, or is done, knows nothing of a tx.
LEMMA TxOutside ==
  ASSUME NEW r \in Reqs, NEW x \in Local, req' = [req EXCEPT ![r] = x], x.pc \notin EventPcs,
         At(r, "idle") => x.pc # "idle",
         \A t \in Txs : Once(t, debited', gen1') /\ Settled(t, log', debited', gen1')
  PROVE  TxMoves(r)
  BY Outside DEF TxMoves, TxKnown

\* An event that is not handled has a tx nothing was done to.
LEMMA Fresh ==
  ASSUME TypeOK, OneEventPerTx, LogOfEvents, NEW e \in Events, ~Handled(e),
         Once(e.tx, debited, gen1), Settled(e.tx, log, debited, gen1)
  PROVE  /\ \A row \in log : row.tx # e.tx
         /\ debited[e.tx] = 0 /\ gen1[e.tx].issued = 0 /\ gen1[e.tx].signed = 0
<1>1. ASSUME NEW row \in log, row.tx = e.tx PROVE FALSE
  <2>1. PICK f \in Events : row.tx = f.tx /\ row.type = f.type
    BY DEF LogOfEvents
  <2>2. f = e
    BY <1>1, <2>1 DEF OneEventPerTx
  <2>3. row = [tx |-> e.tx, type |-> e.type]
    BY <2>1, <2>2 DEF TypeOK, LogRow
  <2> QED BY <2>3 DEF Handled
<1>2. e.tx \in Txs
  BY EventParts
<1>3. debited[e.tx] \in Nat /\ gen1[e.tx].issued \in Nat /\ gen1[e.tx].signed \in Nat
  BY <1>2 DEF TypeOK, Gen1Row
<1>4. /\ [tx |-> e.tx, type |-> "WITHDRAW_BP"] \notin log
      /\ [tx |-> e.tx, type |-> "BURN_GEN0"] \notin log
  <2>1. [tx |-> e.tx, type |-> "WITHDRAW_BP"].tx = e.tx /\ [tx |-> e.tx, type |-> "BURN_GEN0"].tx = e.tx
    OBVIOUS
  <2> QED BY <1>1, <2>1
<1> QED BY <1>1, <1>3, <1>4 DEF Once, Settled

LEMMA TxBegin ==
  ASSUME LedgerInv, OneEventPerTx, LogOfEvents, NEW r \in Reqs, Start(r),
         TxKnown(req[r], log, debited, gen1)
  PROVE  TxMoves(r)
<1>1. At(r, "idle") /\ UNCHANGED <<log, debited, gen1>> /\ TypeOK
  BY StartBegins DEF rows, history, LedgerInv
<1>2. PICK x : Begun(x) /\ req' = [req EXCEPT ![r] = x]
  BY StartBegins
<1>3. x \in Local /\ x.pc # "idle" /\ x.pc \in BeginPcs
  BY <1>2 DEF Begun, BeginPcs
<1>4. \A t \in Txs : Once(t, debited, gen1) /\ Settled(t, log, debited, gen1)
  BY <1>1 DEF TxKnown, Closing, At
<1>5. CASE x.pc # "findUser"
  <2>1. x.pc \notin EventPcs
    BY <1>3, <1>5 DEF BeginPcs, EventPcs
  <2> QED BY <1>1, <1>2, <1>3, <1>4, <2>1, TxOutside
<1>6. CASE x.pc = "findUser"
  <2>1. x.event \in Events /\ ~Handled(x.event) /\ x.event.tx \in Txs
    BY <1>2, <1>6, EventParts DEF Begun
  <2>2. /\ \A row \in log : row.tx # x.event.tx
        /\ debited[x.event.tx] = 0 /\ gen1[x.event.tx].issued = 0 /\ gen1[x.event.tx].signed = 0
    BY <1>1, <1>4, <2>1, Fresh
  <2>3. TxLocal(x, log, debited, gen1)
    BY <1>6, <2>2 DEF TxLocal
  <2> QED BY <1>1, <1>2, <1>3, <1>4, <2>3 DEF TxMoves, TxKnown
<1> QED BY <1>5, <1>6

\* The requests about no event leave the log, the burns and the debits alone.
LEMMA TxOthers ==
  ASSUME LedgerInv, NEW r \in Reqs, TxKnown(req[r], log, debited, gen1),
         \/ CreateFree(r) \/ Upsert(r) \/ ReadPoints(r) \/ WritePoints(r) \/ Open(r)
         \/ Convert(r) \/ CountLand(r) \/ CreateLand(r) \/ DeleteSlots(r)
         \/ ReadBalance(r) \/ SignVoucher(r) \/ OpenFree(r) \/ UpgradeFree(r)
  PROVE  TxMoves(r)
<1>1. ~At(r, "idle") /\ req[r].pc \notin EventPcs /\ UNCHANGED <<log, debited, gen1>>
  BY DEF CreateFree, Upsert, ReadPoints, WritePoints, Open, Convert, CountLand, CreateLand,
         DeleteSlots, ReadBalance, SignVoucher, OpenFree, UpgradeFree, At, EventPcs, rows, history
<1>2. \A t \in Txs : Once(t, debited, gen1) /\ Settled(t, log, debited, gen1)
  BY <1>1, Outside DEF TxKnown
<1>3. CASE Reply(r)
  <2>1. Idle.pc \notin EventPcs
    BY DEF Idle, EventPcs
  <2> QED BY <1>1, <1>2, <1>3, <2>1, IdleType, TxOutside DEF Reply
<1>4. CASE \E pc \in Pcs \ EventPcs : Goto(r, pc)
  <2>1. PICK pc \in Pcs \ EventPcs : Goto(r, pc)
    BY <1>4
  <2>2. PICK x \in Local : req' = [req EXCEPT ![r] = x] /\ x.pc = pc
    BY <2>1, GoesTo
  <2> QED BY <1>1, <1>2, <2>1, <2>2, TxOutside
<1>5. CASE ReadPoints(r) /\ ~Reply(r)
  <2>1. Reads(r, "writePoints")
    BY <1>5, BalanceRead
  <2>2. PICK x \in Local : req' = [req EXCEPT ![r] = x] /\ x.pc = "writePoints"
    BY <2>1 DEF Reads
  <2>3. x.pc \notin EventPcs
    BY <2>2 DEF EventPcs
  <2> QED BY <1>1, <1>2, <2>2, <2>3, TxOutside
<1>6. {"upsert", "open", "convert", "countLand", "newLand", "signVoucher"} \subseteq Pcs \ EventPcs
  BY DEF Pcs, EventPcs
<1> QED BY <1>3, <1>4, <1>5, <1>6
    DEF CreateFree, Upsert, WritePoints, Open, Convert, CountLand, CreateLand,
        DeleteSlots, ReadBalance, SignVoucher, OpenFree, UpgradeFree, AfterPaying

\* What a request of an event knows of it, by the type of the event.
LEMMA OpKnown ==
  ASSUME LedgerInv, NEW r \in Reqs, req[r].pc \in EventPcs, NEW e, e = req[r].event
  PROVE  /\ e \in Events /\ e.tx \in Txs
         /\ req[r].op \in {"deposit", "withdraw", "burn"}
         /\ req[r].op = "withdraw" => e.type = "WITHDRAW_BP"
         /\ req[r].op = "burn" => e.type = "BURN_GEN0"
<1>1. e \in Events /\ req[r].op = OpOf(e.type) /\ e.tx \in Txs /\ e.type \in EventTypes
  BY EventKnown
<1> QED BY <1>1, EventParts DEF EventTypes

LEMMA TxReads ==
  ASSUME LedgerInv, NEW r \in Reqs, CalmLocal(req[r], points, slots), FindUser(r),
         TxKnown(req[r], log, debited, gen1)
  PROVE  TxMoves(r)
<1>1. ~At(r, "idle") /\ req[r].pc = "findUser" /\ UNCHANGED <<log, debited, gen1>>
  BY DEF FindUser, At, rows, history
<1>2. \A t \in Txs : Once(t, debited, gen1) /\ Settled(t, log, debited, gen1)
  BY <1>1 DEF TxKnown, Closing
<1>3. CASE Reply(r)
  <2>1. Idle.pc \notin EventPcs
    BY DEF Idle, EventPcs
  <2> QED BY <1>1, <1>2, <1>3, <2>1, IdleType, TxOutside DEF Reply
<1>4. CASE ~Reply(r)
  <2>1. Reads(r, AfterUser(r)) /\ AfterUser(r) \in {"insertLog", "debit", "dice"}
    BY <1>4, BalanceRead
  <2>2. PICK x \in Local : /\ req' = [req EXCEPT ![r] = x] /\ x.pc \in {"insertLog", "debit", "dice"}
                           /\ x.event = req[r].event
    BY <2>1 DEF Reads
  <2>3. TxLocal(x, log, debited, gen1)
    BY <1>1, <2>2 DEF TxKnown, TxLocal, EventPcs
  <2> QED BY <1>1, <1>2, <2>2, <2>3 DEF TxMoves, TxKnown
<1> QED BY <1>3, <1>4

\* The row in the log settles what the request did.
LEMMA TxLogs ==
  ASSUME LedgerInv, LogOfEvents, NEW r \in Reqs, InsertLog(r),
         TxKnown(req[r], log, debited, gen1)
  PROVE  TxMoves(r) /\ LogOfEvents'
<1>0. PICK e, t : e = req[r].event /\ t = e.tx
  OBVIOUS
<1>1. ~At(r, "idle") /\ req[r].pc = "insertLog" /\ UNCHANGED <<debited, gen1>> /\ req[r].pc \in EventPcs
  BY DEF InsertLog, At, history, EventPcs
<1>2. /\ e \in Events /\ t \in Txs /\ req[r].op \in {"deposit", "withdraw", "burn"}
      /\ req[r].op = "withdraw" => e.type = "WITHDRAW_BP"
      /\ req[r].op = "burn" => e.type = "BURN_GEN0"
  BY <1>0, <1>1, OpKnown
<1>3. /\ \A row \in log : row.tx # t
      /\ debited[t] = 1 => req[r].op = "withdraw"
      /\ gen1[t].issued = 1 => req[r].op = "burn"
      /\ gen1[t].issued = gen1[t].signed
  BY <1>0, <1>1 DEF TxKnown, TxLocal
<1>4. /\ log' = log \union {[tx |-> t, type |-> e.type]}
      /\ IF AfterLog(r) = "idle" THEN Reply(r) ELSE Goto(r, AfterLog(r))
  BY <1>0, <1>3 DEF InsertLog, TxTaken
<1>5. LogOfEvents'
  <2>1. ASSUME NEW row \in log' PROVE \E f \in Events : row.tx = f.tx /\ row.type = f.type
    <3>1. CASE row \in log
      BY <3>1 DEF LogOfEvents
    <3>2. CASE row = [tx |-> t, type |-> e.type]
      BY <1>0, <1>2, <3>2
    <3> QED BY <1>4, <3>1, <3>2
  <2> QED BY <2>1 DEF LogOfEvents
<1>6. ASSUME NEW s \in Txs PROVE Once(s, debited, gen1) /\ Settled(s, log', debited, gen1)
  <2>1. Once(s, debited, gen1) /\ (Settled(s, log, debited, gen1) \/ s = t)
    BY <1>0 DEF TxKnown, Closing
  <2>2. CASE s = t
    BY <1>2, <1>3, <1>4, <2>1, <2>2 DEF Settled
  <2>3. CASE s # t
    BY <1>4, <2>1, <2>3 DEF Settled
  <2> QED BY <2>1, <2>2, <2>3
<1>7. CASE AfterLog(r) = "idle"
  <2>1. Idle.pc \notin EventPcs
    BY DEF Idle, EventPcs
  <2> QED BY <1>1, <1>4, <1>5, <1>6, <1>7, <2>1, IdleType, TxOutside DEF Reply
<1>8. CASE AfterLog(r) # "idle"
  <2>1. Goto(r, "credit") /\ "credit" \in Pcs
    BY <1>4, <1>8 DEF AfterLog, Pcs
  <2>2. PICK x \in Local : req' = [req EXCEPT ![r] = x] /\ x.pc = "credit"
    BY <2>1, GoesTo
  <2>3. TxLocal(x, log', debited, gen1)
    BY <2>2 DEF TxLocal
  <2> QED BY <1>1, <1>5, <1>6, <2>2, <2>3 DEF TxMoves, TxKnown
<1> QED BY <1>7, <1>8

LEMMA TxCredits ==
  ASSUME NEW r \in Reqs, Credit(r), TxKnown(req[r], log, debited, gen1)
  PROVE  TxMoves(r)
<1>1. ~At(r, "idle") /\ req[r].pc = "credit" /\ UNCHANGED <<log, debited, gen1>> /\ Reply(r)
  BY DEF Credit, At
<1>2. \A t \in Txs : Once(t, debited, gen1) /\ Settled(t, log, debited, gen1)
  BY <1>1 DEF TxKnown, Closing
<1>3. Idle.pc \notin EventPcs
  BY DEF Idle, EventPcs
<1> QED BY <1>1, <1>2, <1>3, IdleType, TxOutside DEF Reply

LEMMA TxDebits ==
  ASSUME LedgerInv, NEW r \in Reqs, CalmLocal(req[r], points, slots), Debit(r),
         TxKnown(req[r], log, debited, gen1)
  PROVE  TxMoves(r)
<1>0. PICK e, t : e = req[r].event /\ t = e.tx
  OBVIOUS
<1>1. /\ ~At(r, "idle") /\ req[r].pc = "debit" /\ UNCHANGED <<log, gen1>> /\ req[r].pc \in EventPcs
      /\ req[r].op = "withdraw" /\ t \in Txs /\ debited \in [Txs -> Nat] /\ "insertLog" \in Pcs
  BY <1>0, EventKnown DEF Debit, At, EventPcs, CalmLocal, LedgerInv, TypeOK, Pcs
<1>2. \A s \in Txs : Once(s, debited, gen1) /\ Settled(s, log, debited, gen1)
  BY <1>1 DEF TxKnown, Closing
<1>3. /\ \A row \in log : row.tx # t
      /\ debited[t] = 0 /\ gen1[t].issued = 0 /\ gen1[t].signed = 0
  BY <1>0, <1>1 DEF TxKnown, TxLocal
<1>4. CASE ~Storable(NewBalance(r))
  <2>1. Reply(r) /\ UNCHANGED debited
    BY <1>4 DEF Debit
  <2>2. Idle.pc \notin EventPcs
    BY DEF Idle, EventPcs
  <2> QED BY <1>1, <1>2, <2>1, <2>2, IdleType, TxOutside DEF Reply
<1>5. CASE Storable(NewBalance(r))
  <2>1. Goto(r, "insertLog") /\ debited' = [debited EXCEPT ![t] = debited[t] + 1]
    BY <1>0, <1>5 DEF Debit
  <2>2. PICK x \in Local : /\ req' = [req EXCEPT ![r] = x] /\ x.pc = "insertLog"
                           /\ x.event = e /\ x.op = "withdraw"
    BY <1>0, <1>1, <2>1, GoesTo
  <2>3. debited'[t] = 1 /\ \A s \in Txs \ {t} : debited'[s] = debited[s]
    BY <1>1, <1>3, <2>1
  <2>4. TxLocal(x, log', debited', gen1')
    BY <1>0, <1>1, <1>3, <2>2, <2>3 DEF TxLocal
  <2>5. ASSUME NEW s \in Txs
        PROVE  Once(s, debited', gen1') /\ (Settled(s, log', debited', gen1') \/ Closing(x, s))
    <3>1. CASE s = t
      BY <1>0, <1>1, <1>3, <2>2, <2>3, <3>1 DEF Once, Closing
    <3>2. CASE s # t
      BY <1>1, <1>2, <2>3, <3>2 DEF Once, Settled
    <3> QED BY <3>1, <3>2
  <2> QED BY <1>1, <2>2, <2>4, <2>5 DEF TxMoves, TxKnown
<1> QED BY <1>4, <1>5

\* The dice are cast, the bud issued and its signature made, in this order.
LEMMA TxBurns ==
  ASSUME LedgerInv, NEW r \in Reqs, CalmLocal(req[r], points, slots),
         Dice(r) \/ Mint(r) \/ Sign(r), TxKnown(req[r], log, debited, gen1)
  PROVE  TxMoves(r)
<1>0. PICK e, t : e = req[r].event /\ t = e.tx
  OBVIOUS
<1>1. /\ ~At(r, "idle") /\ req[r].pc \in {"dice", "mint", "sign"} /\ UNCHANGED <<log, debited>>
      /\ req[r].op = "burn" /\ {"mint", "sign", "insertLog"} \subseteq Pcs /\ req[r].pc \in EventPcs
  BY DEF Dice, Mint, Sign, At, CalmLocal, rows, history, Pcs, EventPcs
<1>2. t \in Txs /\ gen1 \in [Txs -> Gen1Row]
  BY <1>0, <1>1, EventKnown DEF LedgerInv, TypeOK
<1>3. /\ \A row \in log : row.tx # t
      /\ debited[t] = 0 /\ gen1[t].signed = 0
      /\ gen1[t].issued = IF req[r].pc = "sign" THEN 1 ELSE 0
  BY <1>0, <1>1 DEF TxKnown, TxLocal
<1>4. \A s \in Txs : Once(s, debited, gen1) /\ (Settled(s, log, debited, gen1) \/ s = t)
  BY <1>0 DEF TxKnown, Closing
<1>5. CASE Reply(r) /\ Dice(r)
  <2>1. Idle.pc \notin EventPcs /\ UNCHANGED gen1 /\ req[r].pc = "dice"
    BY <1>5 DEF Idle, EventPcs, Dice, At, rows
  <2>2. \A s \in Txs : Once(s, debited, gen1) /\ Settled(s, log, debited, gen1)
    BY <2>1 DEF TxKnown, Closing
  <2> QED BY <1>1, <1>5, <2>1, <2>2, IdleType, TxOutside DEF Reply
<1>6. ASSUME NEW pc \in {"mint", "sign", "insertLog"}, Goto(r, pc),
             NEW n \in {0, 1}, NEW k \in {0, 1}, k <= n,
             gen1'[t].issued = n, gen1'[t].signed = k, \A s \in Txs \ {t} : gen1'[s] = gen1[s],
             pc = "mint" => n = 0, pc = "sign" => n = 1 /\ k = 0, pc = "insertLog" => n = k
      PROVE  TxMoves(r)
  <2>1. PICK x \in Local : /\ req' = [req EXCEPT ![r] = x] /\ x.pc = pc
                           /\ x.event = e /\ x.op = "burn"
    BY <1>0, <1>1, <1>6, GoesTo
  <2>2. TxLocal(x, log', debited', gen1')
    BY <1>0, <1>1, <1>3, <1>6, <2>1 DEF TxLocal
  <2>3. ASSUME NEW s \in Txs
        PROVE  Once(s, debited', gen1') /\ (Settled(s, log', debited', gen1') \/ Closing(x, s))
    <3>1. CASE s = t
      BY <1>0, <1>1, <1>3, <1>6, <2>1, <3>1 DEF Once, Closing, Settled
    <3>2. CASE s # t
      BY <1>1, <1>4, <1>6, <3>2 DEF Once, Settled
    <3> QED BY <3>1, <3>2
  <2> QED BY <1>1, <2>1, <2>2, <2>3 DEF TxMoves, TxKnown
<1>7. CASE Dice(r) /\ ~Reply(r)
  <2>1. /\ Goto(r, "mint") \/ Goto(r, "insertLog")
        /\ gen1' = gen1 /\ req[r].pc = "dice"
    BY <1>7 DEF Dice, At, rows
  <2> QED BY <1>3, <1>6, <2>1
<1>8. CASE Mint(r)
  <2>1. Goto(r, "sign") /\ req[r].pc = "mint" /\ gen1' = [gen1 EXCEPT ![t].issued = @ + 1]
    BY <1>0, <1>8 DEF Mint, At
  <2>2. gen1'[t].issued = 1 /\ gen1'[t].signed = 0 /\ \A s \in Txs \ {t} : gen1'[s] = gen1[s]
    BY <1>2, <1>3, <2>1 DEF Gen1Row
  <2> QED BY <1>6, <2>1, <2>2
<1>9. CASE Sign(r)
  <2>1. Goto(r, "insertLog") /\ req[r].pc = "sign" /\ gen1' = [gen1 EXCEPT ![t].signed = @ + 1]
    BY <1>0, <1>9 DEF Sign, At
  <2>2. gen1'[t].issued = 1 /\ gen1'[t].signed = 1 /\ \A s \in Txs \ {t} : gen1'[s] = gen1[s]
    BY <1>2, <1>3, <2>1 DEF Gen1Row
  <2> QED BY <1>6, <2>1, <2>2
<1> QED BY <1>5, <1>7, <1>8, <1>9

\* The step of the only request keeps the invariant.
LEMMA HandledStep ==
  ASSUME CalmInv, HandledInv, OneEventPerTx, Serial, Serial', NEW r \in Reqs,
         Start(r) \/ Continue(r)
  PROVE  HandledInv'
<1>1. /\ LedgerInv /\ TypeOK /\ LogOfEvents /\ CalmLocal(req[r], points, slots)
      /\ TxLocal(req[r], log, debited, gen1)
  BY DEF CalmInv, LedgerInv, HandledInv
<1>2. CalmMoves(r)
  BY <1>1, CalmMove
<1>3. PICK x \in Local : req' = [req EXCEPT ![r] = x] /\ (At(r, "idle") => x.pc # "idle")
  BY <1>2 DEF CalmMoves
<1>4. req'[r] = x /\ \A q \in Reqs \ {r} : req'[q] = req[q]
  BY <1>1, <1>3, LocalsType
<1>5. ASSUME NEW q \in Reqs \ {r} PROVE req[q].pc = "idle" /\ req'[q].pc = "idle"
  BY <1>3, <1>4 DEF Serial, At
<1>6. \A t : \A q \in Reqs \ {r} : ~Closing(req[q], t) /\ ~Closing(req'[q], t)
  BY <1>5 DEF Closing
<1>7. TxKnown(req[r], log, debited, gen1)
  BY <1>1, <1>6 DEF HandledInv, TxKnown
<1>8. ASSUME TxMoves(r), LogOfEvents' PROVE HandledInv'
  <2>1. PICK y \in Local : req' = [req EXCEPT ![r] = y] /\ TxKnown(y, log', debited', gen1')
    BY <1>8 DEF TxMoves
  <2>2. req'[r] = y
    BY <1>1, <2>1, LocalsType
  <2>3. ASSUME NEW q \in Reqs PROVE TxLocal(req'[q], log', debited', gen1')
    <3>1. CASE q = r
      BY <2>1, <2>2, <3>1 DEF TxKnown
    <3>2. CASE q # r
      <4>1. req'[q].pc \notin EventPcs
        BY <1>5, <3>2 DEF EventPcs
      <4> QED BY <4>1, Outside
    <3> QED BY <3>1, <3>2
  <2> QED BY <1>8, <2>1, <2>2, <2>3 DEF HandledInv, TxKnown
<1>9. CASE InsertLog(r)
  <2>1. TxMoves(r) /\ LogOfEvents'
    BY <1>1, <1>7, <1>9, TxLogs
  <2> QED BY <2>1, <1>8
<1>10. CASE ~InsertLog(r)
  <2>1. TxMoves(r)
    BY <1>1, <1>7, <1>10, TxBegin, TxOthers, TxReads, TxCredits, TxDebits, TxBurns DEF Continue
  <2>2. UNCHANGED log
    BY <1>10, LogKept
  <2>3. LogOfEvents'
    BY <1>1, <2>2 DEF LogOfEvents
  <2> QED BY <1>8, <2>1, <2>3
<1> QED BY <1>9, <1>10

LEMMA HandledStutter ==
  ASSUME HandledInv, UNCHANGED <<log, req, debited, gen1>> PROVE HandledInv'
  BY DEF HandledInv, LogOfEvents

LEMMA HandledNext ==
  ASSUME ~MayFail, OneEventPerTx, CalmInv, HandledInv, Serial, Serial', [Next]_vars
  PROVE  HandledInv'
<1>1. ASSUME NEW r \in Reqs, Start(r) \/ Continue(r) PROVE HandledInv'
  BY <1>1, HandledStep
<1>2. \A r \in Reqs : ~Abort(r)
  BY DEF Abort
<1>3. ASSUME NEW r \in Reqs, Refuse(r) PROVE HandledInv'
  BY <1>3, HandledStutter DEF Refuse, vars
<1>4. CASE Tick
  BY <1>4, HandledStutter DEF Tick, rows, history
<1>5. CASE UNCHANGED vars
  BY <1>5, HandledStutter DEF vars
<1> QED BY <1>1, <1>2, <1>3, <1>4, <1>5 DEF Next

LEMMA HandledInit == ASSUME Init PROVE HandledInv
<1>1. \A r \in Reqs : req[r].pc \notin EventPcs
  BY DEF Init, Idle, EventPcs
<1>2. LogOfEvents
  BY DEF Init, LogOfEvents
<1>3. \A t \in Txs : Once(t, debited, gen1) /\ Settled(t, log, debited, gen1)
  BY DEF Init, Once, Settled
<1> QED BY <1>1, <1>2, <1>3, Outside DEF HandledInv

LEMMA HandledGives == ASSUME HandledInv PROVE HandledOnce
<1>1. \A t \in Txs : Once(t, debited, gen1)
  BY DEF HandledInv
<1>2. ASSUME Quiet, NEW t \in Txs PROVE Settled(t, log, debited, gen1)
  <2>1. \A r \in Reqs : ~Closing(req[r], t)
    BY <1>2 DEF Quiet, At, Closing
  <2> QED BY <2>1 DEF HandledInv
<1> QED BY <1>1, <1>2 DEF HandledOnce, Once, Settled

\* While requests neither overlap nor fail a withdrawal is debited and a burn is
\* rewarded at most once, and both are logged when the request is done
\* (withdrawBreedingPoint, burnGen0Buds, validateTransaction).
THEOREM EventsHandledOnce ==
  ASSUME ~MayFail, OneEventPerTx PROVE Spec /\ []Serial => []HandledOnce
<1>1. Init => HandledInv
  BY HandledInit
<1>2. CalmInv /\ HandledInv /\ Serial /\ Serial' /\ [Next]_vars => HandledInv'
  BY HandledNext
<1>3. HandledInv => HandledOnce
  BY HandledGives
<1> QED BY <1>1, <1>2, <1>3, CalmAlways, PTL DEF Spec

-----------------------------------------------------------------------------
(* What was paid for, whichever requests overlap or fail                   *)

\* The price the locals x have paid and got nothing for yet.
Weight(x, u) == IF x.pc \in PaidPcs /\ x.user = u THEN x.price ELSE 0

\* The locals of r after a step, of which the paying and giving ones are in order, and
\* hold what they have paid; only writing the points makes a request hold more than before.
PayMoves(r) ==
  \E x \in Local :
    /\ req' = [req EXCEPT ![r] = x]
    /\ PayLocal(x, slots) /\ GiftLocal(x, slots)
    /\ WritePoints(r) => \A u : Weight(x, u) = IF u = req[r].user THEN req[r].price ELSE 0
    /\ ~WritePoints(r) => \A u : Weight(x, u) \in {0, Weight(req[r], u)}
    /\ Open(r) \/ Convert(r) \/ CreateLand(r) => x.pc = "idle"

LEMMA PayOutside ==
  ASSUME NEW x, x.pc \notin PayerPcs
  PROVE  PayLocal(x, slots) /\ \A u : Weight(x, u) = 0
  BY DEF PayLocal, Weight, PayerPcs, PaidPcs

LEMMA PayLeaves ==
  ASSUME NEW r \in Reqs, NEW x \in Local, req' = [req EXCEPT ![r] = x],
         x.pc \notin PayerPcs \union GiftPcs,
         ~WritePoints(r), Open(r) \/ Convert(r) \/ CreateLand(r) => x.pc = "idle"
  PROVE  PayMoves(r)
  BY PayOutside DEF PayMoves, GiftLocal

LEMMA PayReply ==
  ASSUME NEW r \in Reqs, Reply(r), ~WritePoints(r) PROVE PayMoves(r)
<1>1. Idle.pc = "idle" /\ Idle.pc \notin PayerPcs \union GiftPcs
  BY DEF Idle, PayerPcs, GiftPcs
<1> QED BY <1>1, IdleType, PayLeaves DEF Reply

LEMMA PayGoto ==
  ASSUME LedgerInv, NEW r \in Reqs, NEW pc \in Pcs \ (PayerPcs \union GiftPcs), Goto(r, pc),
         ~WritePoints(r), ~Open(r), ~Convert(r), ~CreateLand(r)
  PROVE  PayMoves(r)
<1>1. PICK x \in Local : req' = [req EXCEPT ![r] = x] /\ x.pc = pc
  BY GoesTo
<1> QED BY <1>1, PayLeaves

\* Writing the points is not giving up.
LEMMA NoPaidReply == ASSUME LedgerInv, NEW r \in Reqs PROVE ~(WritePoints(r) /\ Reply(r))
<1> SUFFICES ASSUME WritePoints(r), Reply(r) PROVE FALSE
  OBVIOUS
<1>1. PICK pc \in Pcs : Goto(r, pc) /\ pc # "idle"
  <2>1. Goto(r, AfterPaying(r)) /\ AfterPaying(r) \in {"open", "convert", "countLand"}
    BY DEF WritePoints, AfterPaying
  <2> QED BY <2>1 DEF Pcs
<1>2. PICK x \in Local : req' = [req EXCEPT ![r] = x] /\ x.pc = pc
  BY <1>1, GoesTo
<1>3. req'[r] = x /\ req'[r] = Idle
  <2>1. TypeOK
    BY DEF LedgerInv
  <2> QED BY <1>2, <2>1, IdleType, LocalsType DEF Reply
<1> QED BY <1>1, <1>2, <1>3 DEF Idle

LEMMA PayBegins ==
  ASSUME LedgerInv, NEW r \in Reqs, Start(r) PROVE PayMoves(r)
<1>1. At(r, "idle")
  BY StartBegins
<1>2. PICK x : Begun(x) /\ req' = [req EXCEPT ![r] = x]
  BY StartBegins
<1>3. x \in Local /\ PayLocal(x, slots) /\ GiftLocal(x, slots) /\ x.pc \notin PaidPcs
  BY <1>2 DEF Begun, BeginPcs, PaidPcs
<1>4. \A u : Weight(x, u) = 0
  BY <1>3 DEF Weight
<1>5. ~WritePoints(r) /\ ~Open(r) /\ ~Convert(r) /\ ~CreateLand(r)
  BY <1>1 DEF WritePoints, Open, Convert, CreateLand, At
<1> QED BY <1>2, <1>3, <1>4, <1>5 DEF PayMoves

LEMMA PayWrites ==
  ASSUME LedgerInv, NEW r \in Reqs, PayLocal(req[r], slots), WritePoints(r) PROVE PayMoves(r)
<1>1. req[r].pc = "writePoints" /\ req[r].pc \in PayerPcs
  BY DEF WritePoints, At, PayerPcs
<1>2. /\ req[r].op \in {"openSlot", "convertIndoor", "purchase"}
      /\ req[r].price = PriceOf(req[r].op)
      /\ req[r].op # "purchase" => req[r].slot \in DOMAIN slots /\ slots[req[r].slot].user = req[r].user
  BY <1>1 DEF PayLocal
<1>3. PICK pc \in Pcs : /\ pc \in PaidPcs /\ pc \in PaidFor(req[r].op) /\ Goto(r, pc)
  BY <1>2 DEF WritePoints, AfterPaying, PaidPcs, PaidFor, Pcs
<1>4. PICK x \in Local : /\ req' = [req EXCEPT ![r] = x] /\ x.pc = pc /\ x.op = req[r].op
                         /\ x.user = req[r].user /\ x.price = req[r].price /\ x.slot = req[r].slot
  BY <1>3, GoesTo
<1>5. PayLocal(x, slots) /\ GiftLocal(x, slots)
  BY <1>2, <1>3, <1>4 DEF PayLocal, GiftLocal, GiftPcs, PaidPcs
<1>6. \A u : Weight(x, u) = IF u = req[r].user THEN req[r].price ELSE 0
  BY <1>3, <1>4 DEF Weight
<1>7. ~Open(r) /\ ~Convert(r) /\ ~CreateLand(r)
  BY <1>1 DEF Open, Convert, CreateLand, At
<1> QED BY <1>4, <1>5, <1>6, <1>7 DEF PayMoves

LEMMA PayMove ==
  ASSUME LedgerInv, NEW r \in Reqs, PayLocal(req[r], slots), Start(r) \/ Continue(r) \/ Abort(r)
  PROVE  PayMoves(r)
<1>1. CASE Start(r)
  BY <1>1, PayBegins
<1>2. CASE WritePoints(r)
  BY <1>2, PayWrites
<1>3. CASE Reply(r) /\ ~WritePoints(r)
  BY <1>3, PayReply
<1>4. CASE ReadPoints(r) /\ ~Reply(r)
  <2>1. Reads(r, "writePoints")
    BY <1>4, BalanceRead
  <2>2. PICK x \in Local : /\ req' = [req EXCEPT ![r] = x] /\ x.pc = "writePoints" /\ x.op = req[r].op
                           /\ x.user = req[r].user /\ x.price = req[r].price /\ x.slot = req[r].slot
    BY <2>1 DEF Reads
  <2>3. req[r].pc = "readPoints" /\ req[r].pc \in PayerPcs
    BY <1>4 DEF ReadPoints, At, PayerPcs
  <2>4. PayLocal(x, slots) /\ GiftLocal(x, slots) /\ \A u : Weight(x, u) = 0
    BY <2>2, <2>3 DEF PayLocal, Weight, PaidPcs, GiftLocal, GiftPcs
  <2>5. ~WritePoints(r) /\ ~Open(r) /\ ~Convert(r) /\ ~CreateLand(r)
    BY <2>3 DEF WritePoints, Open, Convert, CreateLand, At
  <2> QED BY <2>2, <2>4, <2>5 DEF PayMoves
<1>5. CASE CountLand(r) /\ ~Reply(r)
  <2>1. Goto(r, "newLand") /\ "newLand" \in Pcs /\ req[r].pc = "countLand" /\ req[r].pc \in PayerPcs
    BY <1>5 DEF CountLand, At, Pcs, PayerPcs
  <2>2. PICK x \in Local : /\ req' = [req EXCEPT ![r] = x] /\ x.pc = "newLand" /\ x.op = req[r].op
                           /\ x.user = req[r].user /\ x.price = req[r].price /\ x.slot = req[r].slot
    BY <2>1, GoesTo
  <2>3. PayLocal(x, slots) /\ GiftLocal(x, slots) /\ \A u : Weight(x, u) = Weight(req[r], u)
    BY <2>1, <2>2 DEF PayLocal, Weight, PaidPcs, PaidFor, GiftLocal, GiftPcs
  <2>4. ~WritePoints(r) /\ ~Open(r) /\ ~Convert(r) /\ ~CreateLand(r)
    BY <2>1 DEF WritePoints, Open, Convert, CreateLand, At
  <2> QED BY <2>2, <2>3, <2>4 DEF PayMoves
<1>6. CASE FindUser(r) /\ ~Reply(r)
  <2>1. Reads(r, AfterUser(r)) /\ AfterUser(r) \in {"insertLog", "debit", "dice"}
    BY <1>6, BalanceRead
  <2>2. PICK x \in Local : req' = [req EXCEPT ![r] = x] /\ x.pc \in {"insertLog", "debit", "dice"}
    BY <2>1 DEF Reads
  <2>3. /\ x.pc \notin PayerPcs \union GiftPcs
        /\ ~WritePoints(r) /\ ~Open(r) /\ ~Convert(r) /\ ~CreateLand(r)
    BY <1>6, <2>2 DEF WritePoints, Open, Convert, CreateLand, FindUser, At, PayerPcs, GiftPcs
  <2> QED BY <2>2, <2>3, PayLeaves
<1>7. CASE \/ CreateFree(r) \/ ReadBalance(r) \/ InsertLog(r) \/ Debit(r) \/ Dice(r) \/ Mint(r)
           \/ Sign(r)
  <2>1. {"upsert", "signVoucher", "credit", "insertLog", "mint", "sign"}
          \subseteq Pcs \ (PayerPcs \union GiftPcs)
    BY DEF Pcs, PayerPcs, GiftPcs
  <2>2. Reply(r) \/ \E pc \in Pcs \ (PayerPcs \union GiftPcs) : Goto(r, pc)
    BY <1>7, <2>1 DEF CreateFree, ReadBalance, InsertLog, AfterLog, Debit, Dice, Mint, Sign
  <2>3. ~WritePoints(r) /\ ~Open(r) /\ ~Convert(r) /\ ~CreateLand(r)
    BY <1>7 DEF WritePoints, Open, Convert, CreateLand, CreateFree, ReadBalance, InsertLog, Debit,
                Dice, Mint, Sign, At
  <2> QED BY <2>2, <2>3, PayReply, PayGoto
<1>8. CASE \/ Upsert(r) \/ Open(r) \/ Convert(r) \/ CreateLand(r) \/ DeleteSlots(r)
           \/ SignVoucher(r) \/ Credit(r) \/ Abort(r) \/ OpenFree(r) \/ UpgradeFree(r)
  <2>1. Reply(r) /\ (Abort(r) \/ ~WritePoints(r))
    BY <1>8 DEF Upsert, Open, Convert, CreateLand, DeleteSlots, SignVoucher, Credit, Abort,
                OpenFree, UpgradeFree, WritePoints, At
  <2>2. ~(WritePoints(r) /\ Reply(r))
    BY NoPaidReply
  <2> QED BY <2>1, <2>2, PayReply
<1> QED BY <1>1, <1>2, <1>3, <1>4, <1>5, <1>6, <1>7, <1>8 DEF Continue

\* The slots of a user, those of bought lands, and those that are open or indoor.
OwnedBy(S, u)  == {s \in DOMAIN S : S[s].user = u}
BoughtBy(S, u) == {s \in DOMAIN S : S[s].user = u /\ S[s].land # None}
OpenOf(S, u)   == {s \in DOMAIN S : S[s].user = u /\ S[s].open}
IndoorOf(S, u) == {s \in DOMAIN S : S[s].user = u /\ S[s].indoor}

LEMMA SetsFinite ==
  ASSUME TypeOK, NEW u
  PROVE  /\ IsFiniteSet(OwnedBy(slots, u)) /\ Cardinality(OwnedBy(slots, u)) \in Nat
         /\ IsFiniteSet(BoughtBy(slots, u)) /\ Cardinality(BoughtBy(slots, u)) \in Nat
         /\ IsFiniteSet(OpenOf(slots, u)) /\ Cardinality(OpenOf(slots, u)) \in Nat
         /\ IsFiniteSet(IndoorOf(slots, u)) /\ Cardinality(IndoorOf(slots, u)) \in Nat
<1>1. DOMAIN slots = 1..Len(slots) /\ Len(slots) \in Nat
  BY DEF TypeOK
<1>2. IsFiniteSet(DOMAIN slots)
  BY <1>1, FS_Interval
<1>3. /\ OwnedBy(slots, u) \subseteq DOMAIN slots /\ BoughtBy(slots, u) \subseteq DOMAIN slots
      /\ OpenOf(slots, u) \subseteq DOMAIN slots /\ IndoorOf(slots, u) \subseteq DOMAIN slots
  BY DEF OwnedBy, BoughtBy, OpenOf, IndoorOf
<1> QED BY <1>2, <1>3, FS_Subset, FS_CardinalityType

\* The number of lands of u, of bought ones, of open and of indoor slots.
Counts(S, u, n, b, o, i) ==
  /\ n \in Nat /\ Cardinality(OwnedBy(S, u)) = SlotsPerLand * n
  /\ b \in Nat /\ Cardinality(BoughtBy(S, u)) = SlotsPerLand * b
  /\ o \in Nat /\ Cardinality(OpenOf(S, u)) = o
  /\ i \in Nat /\ Cardinality(IndoorOf(S, u)) = i

LEMMA MulNext == ASSUME NEW p \in Nat, NEW x \in Int PROVE p * (x + 1) = p * x + p /\ p * x \in Int
  BY SMT

LEMMA DivMul == ASSUME NEW k \in Nat \ {0}, NEW n \in Nat PROVE (k * n) \div k = n
  BY SMTT(30)

\* Rows that are only marked deleted count as before.
LEMMA CountsDeleted ==
  ASSUME LedgerInv, NEW r \in Reqs, DeleteSlots(r), NEW u
  PROVE  /\ OwnedBy(slots', u) = OwnedBy(slots, u) /\ BoughtBy(slots', u) = BoughtBy(slots, u)
         /\ OpenOf(slots', u) = OpenOf(slots, u) /\ IndoorOf(slots', u) = IndoorOf(slots, u)
<1>1. slots \in [DOMAIN slots -> SlotRow]
  <2>1. slots \in Seq(SlotRow)
    BY DEF LedgerInv, TypeOK
  <2> QED BY <2>1
<1>2. /\ DOMAIN slots' = DOMAIN slots
      /\ \A s \in DOMAIN slots :
           /\ slots'[s].user = slots[s].user /\ slots'[s].land = slots[s].land
           /\ slots'[s].open = slots[s].open /\ slots'[s].indoor = slots[s].indoor
  BY <1>1 DEF DeleteSlots, SlotIds, SlotRow
<1> QED BY <1>2, Zenon DEF OwnedBy, BoughtBy, OpenOf, IndoorOf

\* One slot opened, or made indoor.
LEMMA CountsOpened ==
  ASSUME LedgerInv, NEW d \in DOMAIN slots, NEW v, slots[d].user = v,
         slots' = [slots EXCEPT ![d].open = TRUE], NEW u
  PROVE  /\ OwnedBy(slots', u) = OwnedBy(slots, u) /\ BoughtBy(slots', u) = BoughtBy(slots, u)
         /\ IndoorOf(slots', u) = IndoorOf(slots, u)
         /\ OpenOf(slots', u) = IF u = v THEN OpenOf(slots, u) \union {d} ELSE OpenOf(slots, u)
<1>1. slots \in [DOMAIN slots -> SlotRow]
  <2>1. slots \in Seq(SlotRow)
    BY DEF LedgerInv, TypeOK
  <2> QED BY <2>1
<1>2. /\ DOMAIN slots' = DOMAIN slots /\ slots'[d] = [slots[d] EXCEPT !.open = TRUE]
      /\ \A s \in DOMAIN slots \ {d} : slots'[s] = slots[s]
  BY <1>1
<1>3. /\ slots'[d].user = slots[d].user /\ slots'[d].land = slots[d].land
      /\ slots'[d].open = TRUE /\ slots'[d].indoor = slots[d].indoor
  BY <1>1, <1>2 DEF SlotRow
<1>4. /\ OwnedBy(slots', u) = OwnedBy(slots, u) /\ BoughtBy(slots', u) = BoughtBy(slots, u)
      /\ IndoorOf(slots', u) = IndoorOf(slots, u)
  <2>1. /\ DOMAIN slots' = DOMAIN slots
        /\ \A s \in DOMAIN slots : slots'[s].user = slots[s].user
    BY <1>2, <1>3, Zenon
  <2>2. \A s \in DOMAIN slots : slots'[s].land = slots[s].land
    BY <1>2, <1>3, Zenon
  <2>3. \A s \in DOMAIN slots : slots'[s].indoor = slots[s].indoor
    BY <1>2, <1>3, Zenon
  <2>4. OwnedBy(slots', u) = OwnedBy(slots, u)
    BY <2>1 DEF OwnedBy
  <2>5. BoughtBy(slots', u) = BoughtBy(slots, u)
    BY <2>1, <2>2 DEF BoughtBy
  <2>6. IndoorOf(slots', u) = IndoorOf(slots, u)
    BY <2>1, <2>3 DEF IndoorOf
  <2> QED BY <2>4, <2>5, <2>6
<1>5. OpenOf(slots', u) = IF u = v THEN OpenOf(slots, u) \union {d} ELSE OpenOf(slots, u)
  <2>1. CASE u = v
    BY <1>2, <1>3, <2>1 DEF OpenOf
  <2>2. CASE u # v
    BY <1>2, <1>3, <2>2 DEF OpenOf
  <2> QED BY <2>1, <2>2
<1> QED BY <1>4, <1>5

LEMMA CountsUpgraded ==
  ASSUME LedgerInv, NEW d \in DOMAIN slots, NEW v, slots[d].user = v,
         slots' = [slots EXCEPT ![d].indoor = TRUE], NEW u
  PROVE  /\ OwnedBy(slots', u) = OwnedBy(slots, u) /\ BoughtBy(slots', u) = BoughtBy(slots, u)
         /\ OpenOf(slots', u) = OpenOf(slots, u)
         /\ IndoorOf(slots', u) = IF u = v THEN IndoorOf(slots, u) \union {d} ELSE IndoorOf(slots, u)
<1>1. slots \in [DOMAIN slots -> SlotRow]
  <2>1. slots \in Seq(SlotRow)
    BY DEF LedgerInv, TypeOK
  <2> QED BY <2>1
<1>2. /\ DOMAIN slots' = DOMAIN slots /\ slots'[d] = [slots[d] EXCEPT !.indoor = TRUE]
      /\ \A s \in DOMAIN slots \ {d} : slots'[s] = slots[s]
  BY <1>1
<1>3. /\ slots'[d].user = slots[d].user /\ slots'[d].land = slots[d].land
      /\ slots'[d].indoor = TRUE /\ slots'[d].open = slots[d].open
  BY <1>1, <1>2 DEF SlotRow
<1>4. /\ OwnedBy(slots', u) = OwnedBy(slots, u) /\ BoughtBy(slots', u) = BoughtBy(slots, u)
      /\ OpenOf(slots', u) = OpenOf(slots, u)
  <2>1. /\ DOMAIN slots' = DOMAIN slots
        /\ \A s \in DOMAIN slots : slots'[s].user = slots[s].user
    BY <1>2, <1>3, Zenon
  <2>2. \A s \in DOMAIN slots : slots'[s].land = slots[s].land
    BY <1>2, <1>3, Zenon
  <2>3. \A s \in DOMAIN slots : slots'[s].open = slots[s].open
    BY <1>2, <1>3, Zenon
  <2>4. OwnedBy(slots', u) = OwnedBy(slots, u)
    BY <2>1 DEF OwnedBy
  <2>5. BoughtBy(slots', u) = BoughtBy(slots, u)
    BY <2>1, <2>2 DEF BoughtBy
  <2>6. OpenOf(slots', u) = OpenOf(slots, u)
    BY <2>1, <2>3 DEF OpenOf
  <2> QED BY <2>4, <2>5, <2>6
<1>5. IndoorOf(slots', u) = IF u = v THEN IndoorOf(slots, u) \union {d} ELSE IndoorOf(slots, u)
  <2>1. CASE u = v
    BY <1>2, <1>3, <2>1 DEF IndoorOf
  <2>2. CASE u # v
    BY <1>2, <1>3, <2>2 DEF IndoorOf
  <2> QED BY <2>1, <2>2
<1> QED BY <1>4, <1>5

LEMMA OneMoreOrNot ==
  ASSUME NEW T, IsFiniteSet(T), NEW d, NEW k \in Nat, Cardinality(T) = k
  PROVE  Cardinality(T \union {d}) = IF d \in T THEN k ELSE k + 1
  BY FS_AddElement

Opens(r)    == Open(r) \/ OpenFree(r)
Upgrades(r) == Convert(r) \/ UpgradeFree(r)

\* The slot a request opens or upgrades is one of its user's; it paid for it, or gives it.
LEMMA EditedSlot ==
  ASSUME LedgerInv, NEW r \in Reqs, PayLocal(req[r], slots), GiftLocal(req[r], slots),
         Opens(r) \/ Upgrades(r)
  PROVE  /\ req[r].slot \in DOMAIN slots /\ slots[req[r].slot].user = req[r].user
         /\ Open(r) => req[r].price = PriceToOpen
         /\ Convert(r) => req[r].price = PriceIndoor
<1>1. CASE Open(r) \/ Convert(r)
  <2>1. /\ req[r].pc = "open" <=> Open(r)
        /\ req[r].pc = "convert" <=> Convert(r)
        /\ req[r].pc \in {"open", "convert"} /\ req[r].pc \in PayerPcs
    BY <1>1 DEF Open, Convert, At, PayerPcs
  <2> QED BY <2>1 DEF PayLocal, PaidFor, PriceOf
<1>2. CASE OpenFree(r) \/ UpgradeFree(r)
  <2>1. req[r].pc \in GiftPcs /\ ~Open(r) /\ ~Convert(r)
    BY <1>2 DEF OpenFree, UpgradeFree, Open, Convert, At, GiftPcs
  <2> QED BY <2>1 DEF GiftLocal
<1> QED BY <1>1, <1>2 DEF Opens, Upgrades

\* A land is so many rows more, one of them open.
LEMMA CountsLand ==
  ASSUME TypeOK, NEW m, NEW v, NEW key, NEW land, LandAppended(m, v, key, land), NEW u
  PROVE  IF u = v
         THEN /\ Cardinality(OwnedBy(slots', u)) = Cardinality(OwnedBy(slots, u)) + SlotsPerLand
              /\ Cardinality(BoughtBy(slots', u)) =
                   IF land = None THEN Cardinality(BoughtBy(slots, u))
                   ELSE Cardinality(BoughtBy(slots, u)) + SlotsPerLand
              /\ Cardinality(OpenOf(slots', u)) = Cardinality(OpenOf(slots, u)) + 1
              /\ IndoorOf(slots', u) = IndoorOf(slots, u)
         ELSE /\ OwnedBy(slots', u) = OwnedBy(slots, u) /\ BoughtBy(slots', u) = BoughtBy(slots, u)
              /\ OpenOf(slots', u) = OpenOf(slots, u) /\ IndoorOf(slots', u) = IndoorOf(slots, u)
<1> DEFINE New == (m + 1)..(m + SlotsPerLand)
<1>0. SlotsPerLand \in Nat \ {0}
  BY LandAssumption
<1>1. /\ m \in Nat /\ DOMAIN slots = 1..m /\ DOMAIN slots' = 1..(m + SlotsPerLand)
      /\ \A s \in 1..m : slots'[s] = slots[s]
      /\ \A s \in New : /\ slots'[s].user = v /\ slots'[s].land = land
                        /\ slots'[s].open = (s = m + 1) /\ slots'[s].indoor = FALSE
  BY DEF LandAppended
<1>2. 1..(m + SlotsPerLand) = (1..m) \union New /\ (1..m) \intersect New = {} /\ m + 1 \in New
  BY <1>0, <1>1
<1>3. IsFiniteSet(New) /\ Cardinality(New) = SlotsPerLand
  <2>1. /\ IsFiniteSet(New)
        /\ Cardinality(New) = IF m + 1 > m + SlotsPerLand THEN 0 ELSE (m + SlotsPerLand) - (m + 1) + 1
    BY <1>0, <1>1, FS_Interval
  <2> QED BY <1>0, <1>1, <2>1
<1> HIDE DEF New
<1>4. /\ OwnedBy(slots, u) \subseteq 1..m /\ BoughtBy(slots, u) \subseteq 1..m
      /\ OpenOf(slots, u) \subseteq 1..m
  BY <1>1 DEF OwnedBy, BoughtBy, OpenOf
<1>5. IndoorOf(slots', u) = IndoorOf(slots, u)
  BY <1>1, <1>2 DEF IndoorOf
<1>6. CASE u # v
  <2>1. OwnedBy(slots', u) = OwnedBy(slots, u)
    BY <1>1, <1>2, <1>6 DEF OwnedBy
  <2>2. BoughtBy(slots', u) = BoughtBy(slots, u)
    BY <1>1, <1>2, <1>6 DEF BoughtBy
  <2>3. OpenOf(slots', u) = OpenOf(slots, u)
    BY <1>1, <1>2, <1>6 DEF OpenOf
  <2> QED BY <1>5, <1>6, <2>1, <2>2, <2>3
<1>7. CASE u = v
  <2>1. OwnedBy(slots', u) = OwnedBy(slots, u) \union New
    BY <1>1, <1>2, <1>7 DEF OwnedBy
  <2>2. BoughtBy(slots', u) = IF land = None THEN BoughtBy(slots, u)
                              ELSE BoughtBy(slots, u) \union New
    BY <1>1, <1>2, <1>7 DEF BoughtBy
  <2>3. OpenOf(slots', u) = OpenOf(slots, u) \union {m + 1}
    BY <1>1, <1>2, <1>7 DEF OpenOf
  <2>4. ASSUME NEW T, IsFiniteSet(T), Cardinality(T) \in Nat, T \subseteq 1..m
        PROVE  Cardinality(T \union New) = Cardinality(T) + SlotsPerLand
    <3>1. T \intersect New = {}
      BY <1>2, <2>4
    <3>2. Cardinality(T \union New) = Cardinality(T) + Cardinality(New) - Cardinality(T \intersect New)
      BY <1>3, <2>4, FS_Union
    <3> QED BY <1>0, <1>3, <2>4, <3>1, <3>2, FS_EmptySet
  <2>5. m + 1 \notin OpenOf(slots, u)
    BY <1>1, <1>2, <1>4
  <2>6. Cardinality(OpenOf(slots', u)) = Cardinality(OpenOf(slots, u)) + 1
    BY <2>3, <2>5, SetsFinite, FS_AddElement
  <2> QED BY <1>4, <1>5, <1>7, <2>1, <2>2, <2>4, <2>6, SetsFinite
<1> QED BY <1>6, <1>7

\* What the requests have paid for the user and got nothing for yet.
Weights(u) == [r \in Reqs |-> Weight(req[r], u)]
Pending(u) == SumFunctionOnSet(Weights(u), Reqs)

LEMMA WeightNat == ASSUME NEW x \in Local, NEW u PROVE Weight(x, u) \in Nat
  BY DEF Weight, Local

LEMMA PendingNat == ASSUME LedgerInv, NEW u PROVE Pending(u) \in Nat
<1>1. \A r \in Reqs : Weights(u)[r] \in Nat
  BY WeightNat DEF Weights, LedgerInv, TypeOK
<1> QED BY <1>1, FiniteAssumption, SumNat DEF Pending

LEMMA PendingStep ==
  ASSUME LedgerInv, NEW r \in Reqs, NEW x \in Local, req' = [req EXCEPT ![r] = x], NEW u
  PROVE  /\ Pending(u) \in Nat /\ Pending(u)' \in Nat
         /\ Weight(req[r], u) \in Nat /\ Weight(x, u) \in Nat
         /\ Pending(u)' = Pending(u) - Weight(req[r], u) + Weight(x, u)
<1>1. req \in [Reqs -> Local] /\ TypeOK
  BY DEF LedgerInv, TypeOK
<1>2. PICK g : g = [q \in Reqs |-> Weight(req'[q], u)]
  OBVIOUS
<1>3. Pending(u)' = SumFunctionOnSet(g, Reqs)
  BY <1>2 DEF Pending, Weights
<1>4. req'[r] = x /\ \A q \in Reqs \ {r} : req'[q] = req[q]
  BY <1>1, LocalsType
<1>5. /\ \A q \in Reqs : Weights(u)[q] \in Nat
      /\ Weights(u)[r] = Weight(req[r], u)
      /\ g[r] = Weight(x, u) /\ g[r] \in Nat
      /\ \A q \in Reqs \ {r} : g[q] = Weights(u)[q]
  BY <1>1, <1>2, <1>4, WeightNat DEF Weights
<1>6. SumFunctionOnSet(g, Reqs) = SumFunctionOnSet(Weights(u), Reqs) - Weights(u)[r] + g[r]
  BY <1>5, FiniteAssumption, SumUpdate
<1>7. \A q \in Reqs : g[q] \in Nat
  BY <1>5
<1>8. SumFunctionOnSet(g, Reqs) \in Nat
  BY <1>7, FiniteAssumption, SumNat
<1> QED BY <1>3, <1>5, <1>6, <1>8, PendingNat DEF Pending

\* The worth of what a user bought, and of what is paid for and about to be given, is
\* within what was charged and what was given.
Cost(n, b, o, i) == LandPrice * b + PriceToOpen * (o - n) + PriceIndoor * i
Paid(S, u, pending, taken) ==
  \E n, b, o, i \in Nat : Counts(S, u, n, b, o, i) /\ Cost(n, b, o, i) + pending <= taken

LEMMA CostStep ==
  ASSUME NEW n \in Nat, NEW b \in Nat, NEW o \in Nat, NEW i \in Nat
  PROVE  /\ Cost(n, b, o, i) \in Int
         /\ Cost(n, b, o + 1, i) = Cost(n, b, o, i) + PriceToOpen
         /\ Cost(n, b, o, i + 1) = Cost(n, b, o, i) + PriceIndoor
         /\ Cost(n + 1, b, o + 1, i) = Cost(n, b, o, i)
         /\ Cost(n + 1, b + 1, o + 1, i) = Cost(n, b, o, i) + LandPrice
<1>1. LandPrice \in Nat /\ PriceToOpen \in Nat /\ PriceIndoor \in Nat
  BY PricesAssumption
<1>2. o - n \in Int /\ (o + 1) - n = (o - n) + 1 /\ (o + 1) - (n + 1) = o - n
  OBVIOUS
<1>3. PICK p \in Int, q \in Int, v \in Int :
        p = LandPrice * b /\ q = PriceToOpen * (o - n) /\ v = PriceIndoor * i
  BY <1>1, <1>2, MulNext
<1>4. /\ LandPrice * (b + 1) = p + LandPrice
      /\ PriceToOpen * ((o + 1) - n) = q + PriceToOpen
      /\ PriceToOpen * ((o + 1) - (n + 1)) = q
      /\ PriceIndoor * (i + 1) = v + PriceIndoor
  BY <1>1, <1>2, <1>3, MulNext
<1> QED BY <1>1, <1>3, <1>4 DEF Cost

Taken(u) == charged[u] + given[u]

\* Only writing the points charges, and only a gift gives.
LEMMA TakenKept ==
  ASSUME NEW r \in Reqs, Start(r) \/ Continue(r) \/ Abort(r)
  PROVE  /\ ~WritePoints(r) => UNCHANGED charged
         /\ ~OpenFree(r) /\ ~UpgradeFree(r) => UNCHANGED given
<1>1. CASE Start(r)
  BY <1>1 DEF Start, LoginBegin, OpenSlotBegin, ConvertBegin, PurchaseBegin, InvalidateSlotsBegin,
              VoucherBegin, EventBegin, FinalizeBegin, CreatePairBegin, history
<1>2. CASE Continue(r)
  BY <1>2 DEF Continue, CreateFree, Upsert, ReadPoints, WritePoints, Open, Convert, CountLand,
              CreateLand, DeleteSlots, ReadBalance, SignVoucher, FindUser, InsertLog, Credit, Debit,
              Dice, Mint, Sign, OpenFree, UpgradeFree, history
<1>3. CASE Abort(r)
  BY <1>3 DEF Abort, history
<1> QED BY <1>1, <1>2, <1>3

LEMMA TakenNat == ASSUME TypeOK, NEW u \in Users PROVE Taken(u) \in Nat
  BY DEF TypeOK, Taken

\* What a step gives the user is what its request has paid for, or is counted as given.
LEMMA PaidStep ==
  ASSUME LedgerInv, NEW r \in Reqs, PayLocal(req[r], slots), GiftLocal(req[r], slots),
         Start(r) \/ Continue(r) \/ Abort(r),
         NEW u \in Users, Paid(slots, u, Pending(u), Taken(u))
  PROVE  Paid(slots', u, Pending(u)', Taken(u)')
<1>1. PICK x \in Local :
        /\ req' = [req EXCEPT ![r] = x]
        /\ WritePoints(r) => \A v : Weight(x, v) = IF v = req[r].user THEN req[r].price ELSE 0
        /\ ~WritePoints(r) => \A v : Weight(x, v) \in {0, Weight(req[r], v)}
        /\ Open(r) \/ Convert(r) \/ CreateLand(r) => x.pc = "idle"
  BY PayMove DEF PayMoves
<1>2. PICK w \in Nat, y \in Nat, P \in Nat, Q \in Nat :
        /\ w = Weight(req[r], u) /\ y = Weight(x, u) /\ P = Pending(u) /\ Q = Pending(u)'
        /\ Q = P - w + y
  <2>1. /\ Pending(u) \in Nat /\ Pending(u)' \in Nat
        /\ Weight(req[r], u) \in Nat /\ Weight(x, u) \in Nat
        /\ Pending(u)' = Pending(u) - Weight(req[r], u) + Weight(x, u)
    BY <1>1, PendingStep
  <2> QED BY <2>1
<1>3. PICK n \in Nat, b \in Nat, o \in Nat, i \in Nat :
        Counts(slots, u, n, b, o, i) /\ Cost(n, b, o, i) + P <= Taken(u)
  BY <1>2 DEF Paid
<1>4. /\ TypeOK /\ req[r] \in Local /\ Taken(u) \in Nat /\ Cost(n, b, o, i) \in Int
      /\ charged[u] \in Nat /\ given[u] \in Nat
      /\ LocalInv(req[r], log, credited, slots)
      /\ LandPrice \in Nat /\ PriceToOpen \in Nat /\ PriceIndoor \in Nat /\ SlotsPerLand \in Nat \ {0}
  BY CostStep, TakenNat, RequestInvIs, PricesAssumption, LandAssumption DEF LedgerInv, TypeOK
<1>5. ~WritePoints(r) => Q <= P
  BY <1>1, <1>2
<1>0. ~WritePoints(r) /\ ~OpenFree(r) /\ ~UpgradeFree(r) => Taken(u)' = Taken(u)
  BY TakenKept DEF Taken
<1>6. ASSUME NEW nn \in Nat, NEW bb \in Nat, NEW oo \in Nat, NEW ii \in Nat,
             Counts(slots', u, nn, bb, oo, ii), Cost(nn, bb, oo, ii) + Q <= Taken(u)'
      PROVE  Paid(slots', u, Pending(u)', Taken(u)')
  BY <1>2, <1>6 DEF Paid
<1>11. /\ Cost(n, b, o + 1, i) = Cost(n, b, o, i) + PriceToOpen
       /\ Cost(n, b, o, i + 1) = Cost(n, b, o, i) + PriceIndoor
       /\ Cost(n + 1, b, o + 1, i) = Cost(n, b, o, i)
       /\ Cost(n + 1, b + 1, o + 1, i) = Cost(n, b, o, i) + LandPrice
       /\ n + 1 \in Nat /\ b + 1 \in Nat /\ o + 1 \in Nat
  BY CostStep
<1>7. CASE WritePoints(r)
  <2>1. UNCHANGED slots
    BY <1>7 DEF WritePoints
  <2>2. w = 0 /\ y = IF u = req[r].user THEN req[r].price ELSE 0
    BY <1>1, <1>2, <1>7 DEF Weight, PaidPcs, WritePoints, At
  <2>3. Taken(u)' = Taken(u) + y
    <3>1. req[r].user \in Users /\ req[r].price \in Nat /\ charged \in [Users -> Nat]
      BY <1>4, <1>7 DEF WritePoints, At, LocalInv, PayerPcs, Local, TypeOK
    <3>2. charged'[u] = charged[u] + y /\ given'[u] = given[u]
      BY <1>7, <2>2, <3>1 DEF WritePoints
    <3> QED BY <1>2, <1>4, <3>2 DEF Taken
  <2>4. Cost(n, b, o, i) + Q <= Taken(u)'
    BY <1>2, <1>3, <1>4, <2>2, <2>3
  <2> QED BY <1>3, <1>6, <2>1, <2>4
<1>8. CASE ~WritePoints(r) /\ ~OpenFree(r) /\ ~UpgradeFree(r) /\ (UNCHANGED slots \/ DeleteSlots(r))
  <2>1. Counts(slots', u, n, b, o, i)
    <3>1. CASE UNCHANGED slots
      BY <1>3, <3>1
    <3>2. CASE DeleteSlots(r)
      BY <1>3, <3>2, CountsDeleted DEF Counts
    <3> QED BY <1>8, <3>1, <3>2
  <2>2. Cost(n, b, o, i) + Q <= Taken(u)'
    BY <1>0, <1>2, <1>3, <1>4, <1>5, <1>8
  <2> QED BY <1>6, <2>1, <2>2
<1>9. CASE Opens(r) \/ Upgrades(r)
  <2>1. PICK d \in DOMAIN slots :
          /\ d = req[r].slot /\ slots[d].user = req[r].user
          /\ Open(r) => req[r].price = PriceToOpen
          /\ Convert(r) => req[r].price = PriceIndoor
    BY <1>9, EditedSlot
  <2>2. ~WritePoints(r) /\ ~(Opens(r) /\ Upgrades(r))
    BY <1>9 DEF Opens, Upgrades, Open, Convert, OpenFree, UpgradeFree, WritePoints, At
  <2>3. /\ Cardinality(OpenOf(slots, u)) = o /\ Cardinality(IndoorOf(slots, u)) = i
        /\ IsFiniteSet(OpenOf(slots, u)) /\ IsFiniteSet(IndoorOf(slots, u))
    BY <1>3, <1>4, SetsFinite DEF Counts
  <2>4. ASSUME NEW c \in Nat, NEW oo \in {o, o + 1}, NEW ii \in {i, i + 1},
               Cardinality(OpenOf(slots', u)) = oo, Cardinality(IndoorOf(slots', u)) = ii,
               OwnedBy(slots', u) = OwnedBy(slots, u), BoughtBy(slots', u) = BoughtBy(slots, u),
               Cost(n, b, oo, ii) <= Cost(n, b, o, i) + c, Cost(n, b, oo, ii) \in Int,
               Taken(u)' \in Nat, Taken(u)' - Q = Taken(u) - P + c
        PROVE  Paid(slots', u, Pending(u)', Taken(u)')
    <3>1. Counts(slots', u, n, b, oo, ii) /\ oo \in Nat /\ ii \in Nat
      BY <1>3, <2>4 DEF Counts
    <3>2. Cost(n, b, oo, ii) + Q <= Taken(u)'
      BY <1>2, <1>3, <1>4, <2>4
    <3> QED BY <1>6, <3>1, <3>2
  <2>5. CASE Open(r) \/ Convert(r)
    <3>1. ~OpenFree(r) /\ ~UpgradeFree(r)
      BY <2>5 DEF Open, Convert, OpenFree, UpgradeFree, At
    <3>2. w = (IF u = req[r].user THEN req[r].price ELSE 0) /\ y = 0
      BY <1>1, <1>2, <2>5 DEF Open, Convert, At, Weight, PaidPcs
    <3>3. Taken(u)' \in Nat /\ Taken(u)' - Q = Taken(u) - P + w
      <4>1. Taken(u)' = Taken(u)
        BY <1>0, <2>2, <3>1
      <4> QED BY <1>2, <1>4, <3>2, <4>1
    <3>4. CASE Open(r)
      <4>1. /\ OwnedBy(slots', u) = OwnedBy(slots, u) /\ BoughtBy(slots', u) = BoughtBy(slots, u)
            /\ IndoorOf(slots', u) = IndoorOf(slots, u)
            /\ OpenOf(slots', u) = IF u = req[r].user THEN OpenOf(slots, u) \union {d} ELSE OpenOf(slots, u)
        <5>1. slots' = [slots EXCEPT ![d].open = TRUE]
          BY <2>1, <3>4 DEF Open
        <5> QED BY <2>1, <5>1, CountsOpened
      <4>2. PICK oo \in {o, o + 1} : /\ Cardinality(OpenOf(slots', u)) = oo
                                     /\ oo = o + 1 => u = req[r].user
        <5>1. Cardinality(OpenOf(slots, u) \union {d}) \in {o, o + 1}
          BY <1>3, <2>3, OneMoreOrNot
        <5> QED BY <1>3, <2>3, <4>1, <5>1
      <4>3. Cost(n, b, oo, i) <= Cost(n, b, o, i) + w /\ Cost(n, b, oo, i) \in Int
        <5>1. CASE oo = o
          BY <1>2, <1>4, <5>1
        <5>2. CASE oo = o + 1
          BY <1>4, <1>11, <2>1, <3>2, <3>4, <4>2, <5>2
        <5> QED BY <4>2, <5>1, <5>2
      <4> QED BY <1>2, <2>3, <2>4, <3>3, <4>1, <4>2, <4>3
    <3>5. CASE Convert(r)
      <4>1. /\ OwnedBy(slots', u) = OwnedBy(slots, u) /\ BoughtBy(slots', u) = BoughtBy(slots, u)
            /\ OpenOf(slots', u) = OpenOf(slots, u)
            /\ IndoorOf(slots', u) = IF u = req[r].user THEN IndoorOf(slots, u) \union {d} ELSE IndoorOf(slots, u)
        <5>1. slots' = [slots EXCEPT ![d].indoor = TRUE]
          BY <2>1, <3>5 DEF Convert
        <5> QED BY <2>1, <5>1, CountsUpgraded
      <4>2. PICK ii \in {i, i + 1} : /\ Cardinality(IndoorOf(slots', u)) = ii
                                     /\ ii = i + 1 => u = req[r].user
        <5>1. Cardinality(IndoorOf(slots, u) \union {d}) \in {i, i + 1}
          BY <1>3, <2>3, OneMoreOrNot
        <5> QED BY <1>3, <2>3, <4>1, <5>1
      <4>3. Cost(n, b, o, ii) <= Cost(n, b, o, i) + w /\ Cost(n, b, o, ii) \in Int
        <5>1. CASE ii = i
          BY <1>2, <1>4, <5>1
        <5>2. CASE ii = i + 1
          BY <1>4, <1>11, <2>1, <3>2, <3>5, <4>2, <5>2
        <5> QED BY <4>2, <5>1, <5>2
      <4> QED BY <1>2, <2>3, <2>4, <3>3, <4>1, <4>2, <4>3
    <3> QED BY <2>5, <3>4, <3>5
  <2>6. CASE OpenFree(r)
    <3>1. /\ slots' = [slots EXCEPT ![d].open = TRUE] /\ ~WritePoints(r)
          /\ given' = [given EXCEPT ![req[r].user] = @ + OpeningWorth(d)]
      BY <2>1, <2>2, <2>6 DEF OpenFree
    <3>2. /\ OwnedBy(slots', u) = OwnedBy(slots, u) /\ BoughtBy(slots', u) = BoughtBy(slots, u)
          /\ IndoorOf(slots', u) = IndoorOf(slots, u)
          /\ OpenOf(slots', u) = IF u = req[r].user THEN OpenOf(slots, u) \union {d} ELSE OpenOf(slots, u)
      BY <2>1, <3>1, CountsOpened
    <3>3. PICK c \in Nat : c = IF u = req[r].user THEN OpeningWorth(d) ELSE 0
      BY <1>4 DEF OpeningWorth
    <3>4. Taken(u)' \in Nat /\ Taken(u)' - Q = Taken(u) - P + c
      <4>1. given'[u] = given[u] + c /\ charged'[u] = charged[u]
        <5>1. given \in [Users -> Nat]
          BY <1>4 DEF TypeOK
        <5> QED BY <1>4, <3>1, <3>3, <5>1, TakenKept
      <4>2. w = 0 /\ y = 0
        BY <1>1, <1>2, <2>6, <3>1 DEF OpenFree, At, Weight, PaidPcs
      <4> QED BY <1>2, <1>4, <4>1, <4>2 DEF Taken
    <3>5. PICK oo \in {o, o + 1} : /\ Cardinality(OpenOf(slots', u)) = oo
                                   /\ oo = o + 1 => u = req[r].user /\ ~slots[d].open
      <4>1. u = req[r].user /\ slots[d].open => d \in OpenOf(slots, u)
        BY <2>1 DEF OpenOf
      <4>2. Cardinality(OpenOf(slots, u) \union {d}) = IF d \in OpenOf(slots, u) THEN o ELSE o + 1
        BY <1>3, <2>3, OneMoreOrNot
      <4> QED BY <1>3, <2>3, <3>2, <4>1, <4>2
    <3>6. Cost(n, b, oo, i) <= Cost(n, b, o, i) + c /\ Cost(n, b, oo, i) \in Int
      <4>1. CASE oo = o
        BY <1>4, <3>3, <4>1
      <4>2. CASE oo = o + 1
        BY <1>4, <1>11, <3>3, <3>5, <4>2 DEF OpeningWorth
      <4> QED BY <3>5, <4>1, <4>2
    <3> QED BY <2>3, <2>4, <3>2, <3>3, <3>4, <3>5, <3>6
  <2>7. CASE UpgradeFree(r)
    <3>1. /\ slots' = [slots EXCEPT ![d].indoor = TRUE] /\ ~WritePoints(r)
          /\ given' = [given EXCEPT ![req[r].user] = @ + IndoorWorth(d)]
      BY <2>1, <2>2, <2>7 DEF UpgradeFree
    <3>2. /\ OwnedBy(slots', u) = OwnedBy(slots, u) /\ BoughtBy(slots', u) = BoughtBy(slots, u)
          /\ OpenOf(slots', u) = OpenOf(slots, u)
          /\ IndoorOf(slots', u) = IF u = req[r].user THEN IndoorOf(slots, u) \union {d} ELSE IndoorOf(slots, u)
      BY <2>1, <3>1, CountsUpgraded
    <3>3. PICK c \in Nat : c = IF u = req[r].user THEN IndoorWorth(d) ELSE 0
      BY <1>4 DEF IndoorWorth
    <3>4. Taken(u)' \in Nat /\ Taken(u)' - Q = Taken(u) - P + c
      <4>1. given'[u] = given[u] + c /\ charged'[u] = charged[u]
        <5>1. given \in [Users -> Nat]
          BY <1>4 DEF TypeOK
        <5> QED BY <1>4, <3>1, <3>3, <5>1, TakenKept
      <4>2. w = 0 /\ y = 0
        BY <1>1, <1>2, <2>7, <3>1 DEF UpgradeFree, At, Weight, PaidPcs
      <4> QED BY <1>2, <1>4, <4>1, <4>2 DEF Taken
    <3>5. PICK ii \in {i, i + 1} : /\ Cardinality(IndoorOf(slots', u)) = ii
                                   /\ ii = i + 1 => u = req[r].user /\ ~slots[d].indoor
      <4>1. u = req[r].user /\ slots[d].indoor => d \in IndoorOf(slots, u)
        BY <2>1 DEF IndoorOf
      <4>2. Cardinality(IndoorOf(slots, u) \union {d}) = IF d \in IndoorOf(slots, u) THEN i ELSE i + 1
        BY <1>3, <2>3, OneMoreOrNot
      <4> QED BY <1>3, <2>3, <3>2, <4>1, <4>2
    <3>6. Cost(n, b, o, ii) <= Cost(n, b, o, i) + c /\ Cost(n, b, o, ii) \in Int
      <4>1. CASE ii = i
        BY <1>4, <3>3, <4>1
      <4>2. CASE ii = i + 1
        BY <1>4, <1>11, <3>3, <3>5, <4>2 DEF IndoorWorth
      <4> QED BY <3>5, <4>1, <4>2
    <3> QED BY <2>3, <2>4, <3>2, <3>3, <3>4, <3>5, <3>6
  <2> QED BY <1>9, <2>5, <2>6, <2>7 DEF Opens, Upgrades
<1>10. CASE CreateFree(r) \/ CreateLand(r)
  <2>1. PICK key, land : /\ LandAppended(Len(slots), req[r].user, key, land)
                         /\ CreateFree(r) => land = None
    <3>1. CASE CreateFree(r)
      <4>1. req[r].user \in Users /\ req[r].key \in Keys
        BY <1>4, <3>1 DEF CreateFree, At, LocalInv, LoginPcs
      <4>2. LandAppended(Len(slots), req[r].user, req[r].key, None)
        BY <1>4, <3>1, <4>1, LandRowsAdded DEF CreateFree
      <4> QED BY <4>2
    <3>2. CASE CreateLand(r)
      <4>1. req[r].user \in Users /\ req[r].land \in Nat
        BY <1>4, <3>2 DEF CreateLand, At, LocalInv, PayerPcs, Local
      <4>2. LandAppended(Len(slots), req[r].user, None, req[r].land)
        BY <1>4, <3>2, <4>1, LandRowsAdded DEF CreateLand
      <4>3. ~CreateFree(r)
        BY <3>2 DEF CreateLand, CreateFree, At
      <4> QED BY <4>2, <4>3
    <3> QED BY <1>10, <3>1, <3>2
  <2>2. ~WritePoints(r) /\ Taken(u)' = Taken(u)
    <3>1. ~WritePoints(r) /\ ~OpenFree(r) /\ ~UpgradeFree(r)
      BY <1>10 DEF CreateFree, CreateLand, WritePoints, OpenFree, UpgradeFree, At
    <3> QED BY <1>0, <3>1
  <2>3. CASE u # req[r].user
    <3>1. Counts(slots', u, n, b, o, i)
      BY <1>3, <1>4, <2>1, <2>3, CountsLand DEF Counts
    <3>2. Cost(n, b, o, i) + Q <= Taken(u)'
      BY <1>2, <1>3, <1>4, <1>5, <2>2
    <3> QED BY <1>6, <3>1, <3>2
  <2>4. CASE u = req[r].user
    <3>1. /\ Cardinality(OwnedBy(slots', u)) = SlotsPerLand * n + SlotsPerLand
          /\ Cardinality(BoughtBy(slots', u)) =
               IF land = None THEN SlotsPerLand * b ELSE SlotsPerLand * b + SlotsPerLand
          /\ Cardinality(OpenOf(slots', u)) = o + 1 /\ Cardinality(IndoorOf(slots', u)) = i
      <4>1. /\ Cardinality(OwnedBy(slots', u)) = Cardinality(OwnedBy(slots, u)) + SlotsPerLand
            /\ Cardinality(BoughtBy(slots', u)) =
                 IF land = None THEN Cardinality(BoughtBy(slots, u))
                 ELSE Cardinality(BoughtBy(slots, u)) + SlotsPerLand
            /\ Cardinality(OpenOf(slots', u)) = Cardinality(OpenOf(slots, u)) + 1
            /\ IndoorOf(slots', u) = IndoorOf(slots, u)
        BY <1>4, <2>1, <2>4, CountsLand
      <4> QED BY <1>3, <4>1 DEF Counts
    <3>2. /\ SlotsPerLand * (n + 1) = SlotsPerLand * n + SlotsPerLand
          /\ SlotsPerLand * (b + 1) = SlotsPerLand * b + SlotsPerLand
      BY <1>4, MulNext
    <3>3. CASE land = None
      <4>1. Counts(slots', u, n + 1, b, o + 1, i)
        BY <3>1, <3>2, <3>3 DEF Counts
      <4>2. Cost(n + 1, b, o + 1, i) + Q <= Taken(u)'
        BY <1>2, <1>3, <1>4, <1>5, <1>11, <2>2
      <4> QED BY <1>6, <1>11, <4>1, <4>2
    <3>4. CASE land # None
      <4>1. Counts(slots', u, n + 1, b + 1, o + 1, i)
        BY <3>1, <3>2, <3>4 DEF Counts
      <4>2. req[r].pc = "newLand" /\ x.pc = "idle" /\ req[r].pc \in PayerPcs
        BY <1>1, <1>10, <2>1, <3>4 DEF CreateLand, At, PayerPcs
      <4>3. req[r].price = LandPrice
        BY <4>2 DEF PayLocal, PaidFor, PriceOf
      <4>4. w = LandPrice /\ y = 0
        BY <1>2, <2>4, <4>2, <4>3 DEF Weight, PaidPcs
      <4>5. Cost(n + 1, b + 1, o + 1, i) + Q <= Taken(u)'
        <5>1. Taken(u)' = Taken(u) /\ Q = P - LandPrice
          BY <1>2, <2>2, <4>4
        <5> QED BY <1>2, <1>3, <1>4, <1>11, <5>1
      <4> QED BY <1>6, <1>11, <4>1, <4>5
    <3> QED BY <3>3, <3>4
  <2> QED BY <2>3, <2>4
<1> QED BY <1>7, <1>8, <1>9, <1>10, SlotsKept DEF Opens, Upgrades, DeleteSlots, OpenFree, UpgradeFree, At

\* No slot is taken from its user: requests may go on with the slots they found.
UsersKept(S, T) == \A s \in DOMAIN S : s \in DOMAIN T /\ T[s].user = S[s].user

LEMMA RowsKeepUsers ==
  ASSUME LedgerInv, NEW r \in Reqs, PayLocal(req[r], slots), GiftLocal(req[r], slots),
         Start(r) \/ Continue(r) \/ Abort(r)
  PROVE  UsersKept(slots, slots')
<1>1. TypeOK /\ req[r] \in Local /\ LocalInv(req[r], log, credited, slots)
  BY RequestInvIs DEF LedgerInv, TypeOK
<1>2. slots \in [DOMAIN slots -> SlotRow]
  <2>1. slots \in Seq(SlotRow)
    BY <1>1 DEF TypeOK
  <2> QED BY <2>1
<1>3. CASE UNCHANGED slots
  BY <1>3 DEF UsersKept
<1>4. CASE CreateFree(r) \/ CreateLand(r)
  <2>1. PICK v, key, land : LandAppended(Len(slots), v, key, land)
    <3>1. CASE CreateFree(r)
      <4>1. req[r].user \in Users /\ req[r].key \in Keys
        BY <1>1, <3>1 DEF CreateFree, At, LocalInv, LoginPcs
      <4> QED BY <1>1, <3>1, <4>1, LandRowsAdded DEF CreateFree
    <3>2. CASE CreateLand(r)
      <4>1. req[r].user \in Users /\ req[r].land \in Nat
        BY <1>1, <3>2 DEF CreateLand, At, LocalInv, PayerPcs, Local
      <4> QED BY <1>1, <3>2, <4>1, LandRowsAdded DEF CreateLand
    <3> QED BY <1>4, <3>1, <3>2
  <2>2. SlotsPerLand \in Nat
    BY LandAssumption
  <2> QED BY <2>1, <2>2 DEF LandAppended, UsersKept
<1>5. CASE Opens(r)
  <2>1. PICK d : d = req[r].slot
    OBVIOUS
  <2>2. d \in DOMAIN slots
    BY <1>5, <2>1, EditedSlot
  <2>3. /\ DOMAIN slots' = DOMAIN slots /\ slots'[d] = [slots[d] EXCEPT !.open = TRUE]
        /\ \A s \in DOMAIN slots \ {d} : slots'[s] = slots[s]
    BY <1>2, <1>5, <2>1, <2>2 DEF Opens, Open, OpenFree
  <2>4. slots'[d].user = slots[d].user
    BY <1>2, <2>2, <2>3 DEF SlotRow
  <2> QED BY <2>2, <2>3, <2>4 DEF UsersKept
<1>6. CASE Upgrades(r)
  <2>1. PICK d : d = req[r].slot
    OBVIOUS
  <2>2. d \in DOMAIN slots
    BY <1>6, <2>1, EditedSlot
  <2>3. /\ DOMAIN slots' = DOMAIN slots /\ slots'[d] = [slots[d] EXCEPT !.indoor = TRUE]
        /\ \A s \in DOMAIN slots \ {d} : slots'[s] = slots[s]
    BY <1>2, <1>6, <2>1, <2>2 DEF Upgrades, Convert, UpgradeFree
  <2>4. slots'[d].user = slots[d].user
    BY <1>2, <2>2, <2>3 DEF SlotRow
  <2> QED BY <2>2, <2>3, <2>4 DEF UsersKept
<1>7. CASE DeleteSlots(r)
  <2>1. /\ DOMAIN slots' = DOMAIN slots
        /\ \A s \in DOMAIN slots : slots'[s].user = slots[s].user
    BY <1>2, <1>7 DEF DeleteSlots, SlotIds, SlotRow
  <2> QED BY <2>1 DEF UsersKept
<1> QED BY <1>3, <1>4, <1>5, <1>6, <1>7, SlotsKept DEF Opens, Upgrades

LEMMA PayKeeps ==
  ASSUME NEW x, NEW S, NEW T, UsersKept(S, T)
  PROVE  (PayLocal(x, S) => PayLocal(x, T)) /\ (GiftLocal(x, S) => GiftLocal(x, T))
  BY DEF PayLocal, GiftLocal, UsersKept

\* LedgerInv with what the requests that pay or give know, and what they have paid.
GoodsInv ==
  /\ LedgerInv
  /\ \A r \in Reqs : PayLocal(req[r], slots) /\ GiftLocal(req[r], slots)
  /\ \A u \in Users : Paid(slots, u, Pending(u), Taken(u))

LEMMA GoodsInit == Init => GoodsInv
<1> SUFFICES ASSUME Init PROVE GoodsInv
  OBVIOUS
<1>1. \A r \in Reqs : req[r].pc = "idle"
  BY DEF Init, Idle
<1>2. \A r \in Reqs : /\ PayLocal(req[r], slots) /\ GiftLocal(req[r], slots)
                     /\ \A u : Weight(req[r], u) = 0
  BY <1>1, PayOutside DEF PayerPcs, GiftLocal, GiftPcs
<1>3. ASSUME NEW u \in Users PROVE Paid(slots, u, Pending(u), Taken(u))
  <2>1. Pending(u) = 0
    <3>1. \A r \in Reqs : Weights(u)[r] = 0
      BY <1>2 DEF Weights
    <3> QED BY <3>1, FiniteAssumption, SumZero DEF Pending
  <2>2. /\ OwnedBy(slots, u) = {} /\ BoughtBy(slots, u) = {}
        /\ OpenOf(slots, u) = {} /\ IndoorOf(slots, u) = {}
    BY DEF Init, OwnedBy, BoughtBy, OpenOf, IndoorOf
  <2>3. SlotsPerLand * 0 = 0
    BY LandAssumption
  <2>4. Counts(slots, u, 0, 0, 0, 0)
    BY <2>2, <2>3, FS_EmptySet DEF Counts
  <2>5. Cost(0, 0, 0, 0) = 0
    BY PricesAssumption DEF Cost
  <2>6. Taken(u) = 0
    BY DEF Init, Taken
  <2> QED BY <2>1, <2>4, <2>5, <2>6 DEF Paid
<1> QED BY <1>2, <1>3, InitInv DEF GoodsInv

LEMMA GoodsStep ==
  ASSUME GoodsInv, NEW r \in Reqs, Start(r) \/ Continue(r) \/ Abort(r), LedgerInv'
  PROVE  GoodsInv'
<1>1. LedgerInv /\ TypeOK /\ PayLocal(req[r], slots) /\ GiftLocal(req[r], slots)
  BY DEF GoodsInv, LedgerInv
<1>2. UsersKept(slots, slots')
  BY <1>1, RowsKeepUsers
<1>3. PICK x \in Local : req' = [req EXCEPT ![r] = x] /\ PayLocal(x, slots) /\ GiftLocal(x, slots)
  BY <1>1, PayMove DEF PayMoves
<1>4. req'[r] = x /\ \A q \in Reqs \ {r} : req'[q] = req[q]
  BY <1>1, <1>3, LocalsType
<1>5. ASSUME NEW q \in Reqs PROVE PayLocal(req'[q], slots') /\ GiftLocal(req'[q], slots')
  <2>1. PayLocal(req'[q], slots) /\ GiftLocal(req'[q], slots)
    BY <1>3, <1>4 DEF GoodsInv
  <2> QED BY <1>2, <2>1, PayKeeps
<1>6. ASSUME NEW u \in Users PROVE Paid(slots', u, Pending(u)', Taken(u)')
  <2>1. Paid(slots, u, Pending(u), Taken(u))
    BY DEF GoodsInv
  <2> QED BY <1>1, <2>1, PaidStep
<1> QED BY <1>5, <1>6 DEF GoodsInv

LEMMA GoodsStutter ==
  ASSUME GoodsInv, UNCHANGED <<slots, req, charged, given>>, LedgerInv' PROVE GoodsInv'
<1>1. \A r \in Reqs : PayLocal(req'[r], slots') /\ GiftLocal(req'[r], slots')
  BY DEF GoodsInv
<1>2. \A u \in Users : Pending(u)' = Pending(u) /\ Taken(u)' = Taken(u)
  BY DEF Pending, Weights, Taken
<1>3. \A u \in Users : Paid(slots', u, Pending(u)', Taken(u)')
  BY <1>2 DEF GoodsInv
<1> QED BY <1>1, <1>3 DEF GoodsInv

LEMMA GoodsNext == GoodsInv /\ [Next]_vars => GoodsInv'
<1> SUFFICES ASSUME GoodsInv, [Next]_vars PROVE GoodsInv'
  OBVIOUS
<1>1. LedgerInv'
  BY NextInv DEF GoodsInv
<1>2. ASSUME NEW r \in Reqs, Start(r) \/ Continue(r) \/ Abort(r) PROVE GoodsInv'
  BY <1>1, <1>2, GoodsStep
<1>3. ASSUME NEW r \in Reqs, Refuse(r) PROVE GoodsInv'
  BY <1>1, <1>3, GoodsStutter DEF Refuse, vars
<1>4. CASE Tick
  BY <1>1, <1>4, GoodsStutter DEF Tick, rows, history
<1>5. CASE UNCHANGED vars
  BY <1>1, <1>5, GoodsStutter DEF vars
<1> QED BY <1>2, <1>3, <1>4, <1>5 DEF Next

\* The lands are whole, so counting slots counts lands.
LEMMA GoodsGive == ASSUME GoodsInv PROVE GoodsPaid
<1> SUFFICES ASSUME NEW u \in Users
             PROVE  LandPrice * Bought(u) + PriceToOpen * (Opened(u) - LandsOf(u))
                      + PriceIndoor * Indoors(u) <= charged[u] + given[u]
  BY DEF GoodsPaid
<1>1. PICK n \in Nat, b \in Nat, o \in Nat, i \in Nat :
        Counts(slots, u, n, b, o, i) /\ Cost(n, b, o, i) + Pending(u) <= Taken(u)
  BY DEF GoodsInv, Paid
<1>2. LandsOf(u) = n /\ Bought(u) = b /\ Opened(u) = o /\ Indoors(u) = i
  <2>1. (SlotsPerLand * n) \div SlotsPerLand = n /\ (SlotsPerLand * b) \div SlotsPerLand = b
    BY LandAssumption, DivMul
  <2>2. /\ LandsOf(u) = Cardinality(OwnedBy(slots, u)) \div SlotsPerLand
        /\ Bought(u) = Cardinality(BoughtBy(slots, u)) \div SlotsPerLand
        /\ Opened(u) = Cardinality(OpenOf(slots, u))
        /\ Indoors(u) = Cardinality(IndoorOf(slots, u))
    BY Zenon DEF LandsOf, Bought, Opened, Indoors, OwnedBy, BoughtBy, OpenOf, IndoorOf, SlotIds
  <2> QED BY <1>1, <2>1, <2>2 DEF Counts
<1>3. Cost(n, b, o, i) \in Int /\ Pending(u) \in Nat /\ Taken(u) \in Nat
  BY CostStep, PendingNat, TakenNat DEF GoodsInv, LedgerInv
<1>4. Cost(n, b, o, i) <= Taken(u)
  BY <1>1, <1>3
<1> QED BY <1>2, <1>4 DEF Cost, Taken

\* Whichever requests overlap or fail, no user has a land, an open slot or an indoor
\* slot that consumeBreedingPoint took no price for (LandController.openSlot,
\* convertIndoor, purchaseLand) and that breeding did not give free: the slot of a
\* successful finalizeBreeding and the Farmer Pass upgrade of createPair.
THEOREM GoodsArePaid == Spec => []GoodsPaid
<1>1. GoodsInv => GoodsPaid
  BY GoodsGive
<1> QED BY <1>1, GoodsInit, GoodsNext, PTL DEF Spec

=============================================================================
