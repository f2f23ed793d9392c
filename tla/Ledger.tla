------------------------------- MODULE Ledger -------------------------------
(***************************************************************************)
(* Breeding points and what they are moved by: the deposits, withdrawals   *)
(* and burns AdminController is told of, each logged in EventServiceLog,   *)
(* and the slots a user gets by login, buys, or is given by breeding       *)
(* (UserController.login, LandController,                                  *)
(* UserService.consumeBreedingPoint, BreedController).                     *)
(*                                                                         *)
(* As in Breeding a request is a process, the code between two awaits is   *)
(* one step, any await may throw (Abort), and a request refused before it  *)
(* wrote anything has the effect of Refuse.  Points, prices and amounts    *)
(* are all in hundredths of a point, the unit of the amounts reported.     *)
(*                                                                         *)
(* Abstracted: signatures, the traits of a minted bud, the ownership of    *)
(* burnt buds (the check may pass or fail), the contract that redeems a    *)
(* voucher for the amount it was signed for.  Of the breeding endpoints    *)
(* only what they do to a slot's isOpen and type is here, with the guards  *)
(* on the slot; the pair, the points of a level and isUsed are Breeding's. *)
(***************************************************************************)
EXTENDS Integers, Sequences, FiniteSets, Functions

CONSTANTS
  Users, Keys, Txs,
  Events,          \* what the chain emitted: [tx, type, user, amount]
  SlotsPerLand,    \* 5 in LandService
  PriceToOpen,     \* breed.breedingPointToOpenSlot
  PriceIndoor,     \* breed.breedingPointToCovertIndoor
  LandPrice,       \* land.price
  Reqs,            \* requests being handled at one time
  MaxSlots,        \* bound: rows of BreedSlot
  MaxHandled,      \* bound: how often one event is handled
  MaxTime,         \* bound: the clock, in ms
  Endpoints, MayFail, None

EventTypes == {"DEPOSIT_BP", "WITHDRAW_BP", "BURN_GEN0"}
Whole(n)   == n % 100 = 0

ASSUME EventsAssumption  == Events \subseteq [tx : Txs, type : EventTypes, user : Users, amount : Nat]
ASSUME NoneAssumption    == None \notin Users \union Keys \union Events
ASSUME LandAssumption    == SlotsPerLand \in Nat \ {0}
ASSUME PricesAssumption  == \A n \in {PriceToOpen, PriceIndoor, LandPrice} : n \in Nat /\ Whole(n)
ASSUME BoundsAssumption  == MaxSlots \in Nat /\ MaxHandled \in Nat /\ MaxTime \in Nat
ASSUME MayFailAssumption == MayFail \in BOOLEAN
ASSUME FiniteAssumption  == IsFiniteSet(Events) /\ IsFiniteSet(Reqs)

VARIABLES
  account,    \* table User: the gameKeyId of the row, None without a row
  points,     \* User.breedingPoint
  slots,      \* table BreedSlot, in the order of the ids
  log,        \* table EventServiceLog
  gen1,       \* table Gen1Bud: the rows and signatures made for a burn
  now,        \* Date.now()
  req,        \* the local variables of the requests being handled
  voucher,    \* the withdrawals signed for: None, or what had left the points by then
  credited, debited,  \* history: how often each tx moved points
  charged, withdrawn, \* history: what consumeBreedingPoint and withdrawals took of each user
  given       \* history: the price of what breeding opened and upgraded free

rows    == <<account, points, slots, log, gen1>>
history == <<voucher, credited, debited, charged, withdrawn, given>>
vars    == <<account, points, slots, log, gen1, now, req,
             voucher, credited, debited, charged, withdrawn, given>>

SlotRow == [user : Users, key : Keys \union {None}, land : Nat \union {None},
            open : BOOLEAN, indoor : BOOLEAN, deleted : BOOLEAN]
LogRow  == [tx : Txs, type : EventTypes]
Gen1Row == [issued : Nat, signed : Nat]

Ops == {"none", "login", "openSlot", "convertIndoor", "purchase", "invalidateSlots",
        "convertBp2High", "deposit", "withdraw", "burn", "finalize", "createPair"}
Pcs == {"idle", "freeSlots", "upsert", "readPoints", "writePoints", "open", "convert",
        "countLand", "newLand", "deleteSlots", "readBalance", "signVoucher",
        "findUser", "insertLog", "credit", "debit", "dice", "mint", "sign",
        "openFree", "upgradeFree"}
Local == [op : Ops, pc : Pcs, user : Users \union {None}, key : Keys \union {None},
          event : Events \union {None}, slot : Nat, doomed : SUBSET Nat,
          land : Nat, price : Nat, seen : Int]

Idle == [op |-> "none", pc |-> "idle", user |-> None, key |-> None, event |-> None,
         slot |-> 0, doomed |-> {}, land |-> 0, price |-> 0, seen |-> 0]

Init ==
  /\ account = [u \in Users |-> None]
  /\ points = [u \in Users |-> 0]
  /\ slots = <<>>
  /\ log = {}
  /\ gen1 = [t \in Txs |-> [issued |-> 0, signed |-> 0]]
  /\ now = 0
  /\ req = [r \in Reqs |-> Idle]
  /\ voucher = [e \in Events |-> None]
  /\ credited = [t \in Txs |-> 0]
  /\ debited = [t \in Txs |-> 0]
  /\ charged = [u \in Users |-> 0]
  /\ withdrawn = [u \in Users |-> 0]
  /\ given = [u \in Users |-> 0]

Begin(r, name) == name \in Endpoints /\ req[r].pc = "idle"
At(r, pc)      == req[r].pc = pc
Goto(r, pc)    == req' = [req EXCEPT ![r].pc = pc]
Reply(r)       == req' = [req EXCEPT ![r] = Idle]

-----------------------------------------------------------------------------
(* POST users/login and LandService                                        *)
(* The faulty variant of a definition some mutant replaces precedes it, as *)
(* in Breeding; no variant is used by the specification.                   *)

SlotIds == DOMAIN slots

LandRowsAllOpen(u, key, land) ==
  [i \in 1..SlotsPerLand |->
     [user |-> u, key |-> key, land |-> land, open |-> TRUE,
      indoor |-> FALSE, deleted |-> FALSE]]

\* The data of createMany: the first slot of a land is open.
LandRows(u, key, land) ==
  [i \in 1..SlotsPerLand |->
     [user |-> u, key |-> key, land |-> land, open |-> i = 1,
      indoor |-> FALSE, deleted |-> FALSE]]

FreeRows(u, key) ==
  {s \in SlotIds : /\ slots[s].user = u /\ slots[s].key = key
                   /\ slots[s].land = None /\ ~slots[s].deleted}

HasLandOfAnyKey(u, key) == \E k \in Keys : FreeRows(u, k) # {}

HadLandDeleted(u, key) ==
  \E s \in SlotIds : slots[s].user = u /\ slots[s].key = key /\ slots[s].deleted

\* LandService.createFreeLandSlots: "Already opened free land slot"
HasFreeLand(u, key) == FreeRows(u, key) # {}

Building == {r \in Reqs : req[r].op \in {"login", "purchase"}}
RoomForLand == Len(slots) + SlotsPerLand * (Cardinality(Building) + 1) <= MaxSlots

\* isGameKeyStaked is not awaited: any key passes.
LoginBegin(r) ==
  /\ Begin(r, "login") /\ RoomForLand
  /\ \E u \in Users, key \in Keys :
       req' = [req EXCEPT ![r] =
                [Idle EXCEPT !.op = "login", !.user = u, !.key = key,
                             !.pc = IF HasFreeLand(u, key) THEN "upsert" ELSE "freeSlots"]]
  /\ UNCHANGED <<rows, now, history>>

CreateFree(r) ==
  /\ At(r, "freeSlots")
  /\ slots' = slots \o LandRows(req[r].user, req[r].key, None)
  /\ Goto(r, "upsert")
  /\ UNCHANGED <<account, points, log, gen1, now, history>>

Upsert(r) ==
  /\ At(r, "upsert")
  /\ account' = [account EXCEPT ![req[r].user] = req[r].key]
  /\ Reply(r)
  /\ UNCHANGED <<points, slots, log, gen1, now, history>>

-----------------------------------------------------------------------------
(* PUT lands/openSlot, PUT lands/convertIndoor, POST lands/purchase         *)

\* The token of a user's session was given by login.
HasSession(u) == account[u] # None

OwnSlots(u) == {s \in SlotIds : slots[s].user = u /\ ~slots[s].deleted}

Paying(op, u, s, land, price) ==
  [Idle EXCEPT !.op = op, !.user = u, !.slot = s, !.land = land, !.price = price,
               !.pc = "readPoints"]

OpenSlotBegin(r) ==
  /\ Begin(r, "openSlot")
  /\ \E u \in Users : \E s \in OwnSlots(u) :
       /\ HasSession(u) /\ ~slots[s].open
       /\ req' = [req EXCEPT ![r] = Paying("openSlot", u, s, 0, PriceToOpen)]
  /\ UNCHANGED <<rows, now, history>>

ConvertBegin(r) ==
  /\ Begin(r, "convertIndoor")
  /\ \E u \in Users : \E s \in OwnSlots(u) :
       /\ HasSession(u) /\ ~slots[s].indoor
       /\ req' = [req EXCEPT ![r] = Paying("convertIndoor", u, s, 0, PriceIndoor)]
  /\ UNCHANGED <<rows, now, history>>

\* The new land is named by the millisecond of the request.
PurchaseBegin(r) ==
  /\ Begin(r, "purchase") /\ RoomForLand
  /\ \E u \in Users :
       /\ HasSession(u)
       /\ req' = [req EXCEPT ![r] = Paying("purchase", u, 0, now, LandPrice)]
  /\ UNCHANGED <<rows, now, history>>

\* UserService.consumeBreedingPoint
ReadPoints(r) ==
  /\ At(r, "readPoints")
  /\ IF points[req[r].user] < req[r].price
       THEN Reply(r)
       ELSE req' = [req EXCEPT ![r].seen = points[req[r].user], ![r].pc = "writePoints"]
  /\ UNCHANGED <<rows, now, history>>

AfterPaying(r) ==
  CASE req[r].op = "openSlot" -> "open"
    [] req[r].op = "convertIndoor" -> "convert"
    [] OTHER -> "countLand"

WritePoints(r) ==
  /\ At(r, "writePoints")
  /\ points' = [points EXCEPT ![req[r].user] = req[r].seen - req[r].price]
  /\ charged' = [charged EXCEPT ![req[r].user] = @ + req[r].price]
  /\ Goto(r, AfterPaying(r))
  /\ UNCHANGED <<account, slots, log, gen1, now, voucher, credited, debited, withdrawn, given>>

Open(r) ==
  /\ At(r, "open")
  /\ slots' = [slots EXCEPT ![req[r].slot].open = TRUE]
  /\ Reply(r)
  /\ UNCHANGED <<account, points, log, gen1, now, history>>

Convert(r) ==
  /\ At(r, "convert")
  /\ slots' = [slots EXCEPT ![req[r].slot].indoor = TRUE]
  /\ Reply(r)
  /\ UNCHANGED <<account, points, log, gen1, now, history>>

LandTaken(u, land) ==
  \E s \in SlotIds : slots[s].user = u /\ slots[s].land = land /\ ~slots[s].deleted

\* A land of the same millisecond is there: the request has paid for nothing.
CountLand(r) ==
  /\ At(r, "countLand")
  /\ IF LandTaken(req[r].user, req[r].land) THEN Reply(r) ELSE Goto(r, "newLand")
  /\ UNCHANGED <<rows, now, history>>

CreateLand(r) ==
  /\ At(r, "newLand")
  /\ slots' = slots \o LandRows(req[r].user, None, req[r].land)
  /\ Reply(r)
  /\ UNCHANGED <<account, points, log, gen1, now, history>>

-----------------------------------------------------------------------------
(* POST breeds/finalize and POST breeds/pair, what they do to a slot free of *)
(* charge.  Whether a breeding succeeds, and whether the pair of a caller   *)
(* who has a Farmer Pass can be created, is left open.                      *)

Giving(op, u, s, pc) == [Idle EXCEPT !.op = op, !.user = u, !.slot = s, !.pc = pc]

\* A successful finalize looks for a closed slot of the user.
FinalizeBegin(r) ==
  /\ Begin(r, "finalize")
  /\ \E u \in Users : \E s \in OwnSlots(u) :
       /\ HasSession(u) /\ ~slots[s].open
       /\ req' = [req EXCEPT ![r] = Giving("finalize", u, s, "openFree")]
  /\ UNCHANGED <<rows, now, history>>

\* What the gift saves the user: nothing when the slot was bought meanwhile.
OpeningWorth(s) == IF slots[s].open THEN 0 ELSE PriceToOpen
IndoorWorth(s)  == IF slots[s].indoor THEN 0 ELSE PriceIndoor

OpenFree(r) ==
  /\ At(r, "openFree")
  /\ slots' = [slots EXCEPT ![req[r].slot].open = TRUE]
  /\ given' = [given EXCEPT ![req[r].user] = @ + OpeningWorth(req[r].slot)]
  /\ Reply(r)
  /\ UNCHANGED <<account, points, log, gen1, now, voucher, credited, debited, charged, withdrawn>>

\* createPair with a Farmer Pass and upgradeSlot; the session may be of any game
\* key the user ever logged in with, so the slot's key is no guard here.
CreatePairBegin(r) ==
  /\ Begin(r, "createPair")
  /\ \E u \in Users : \E s \in OwnSlots(u) :
       /\ HasSession(u) /\ slots[s].open /\ ~slots[s].indoor
       /\ req' = [req EXCEPT ![r] = Giving("createPair", u, s, "upgradeFree")]
  /\ UNCHANGED <<rows, now, history>>

UpgradeFree(r) ==
  /\ At(r, "upgradeFree")
  /\ slots' = [slots EXCEPT ![req[r].slot].indoor = TRUE]
  /\ given' = [given EXCEPT ![req[r].user] = @ + IndoorWorth(req[r].slot)]
  /\ Reply(r)
  /\ UNCHANGED <<account, points, log, gen1, now, voucher, credited, debited, charged, withdrawn>>

-----------------------------------------------------------------------------
(* PUT admin/invalidate-slots, its part on the slots *)

InvalidateSlotsBegin(r) ==
  /\ Begin(r, "invalidateSlots")
  /\ \E prevOwner \in Users, key \in Keys :
       LET found == {s \in SlotIds : slots[s].user = prevOwner /\ slots[s].key = key}
       IN  /\ found # {}
           /\ req' = [req EXCEPT ![r] = [Idle EXCEPT !.op = "invalidateSlots",
                                                     !.doomed = found, !.pc = "deleteSlots"]]
  /\ UNCHANGED <<rows, now, history>>

DeleteSlots(r) ==
  /\ At(r, "deleteSlots")
  /\ slots' = [s \in SlotIds |->
                IF s \in req[r].doomed THEN [slots[s] EXCEPT !.deleted = TRUE] ELSE slots[s]]
  /\ Reply(r)
  /\ UNCHANGED <<account, points, log, gen1, now, history>>

-----------------------------------------------------------------------------
(* PUT users/convertBp2High: a signature the user redeems on chain, which  *)
(* then emits the withdrawal.  The request carries the event it asks for.  *)

Asked(e) == voucher[e] # None \/ \E r \in Reqs : req[r].event = e

VoucherBegin(r) ==
  /\ Begin(r, "convertBp2High")
  /\ \E e \in Events :
       /\ e.type = "WITHDRAW_BP" /\ HasSession(e.user) /\ ~Asked(e)
       /\ req' = [req EXCEPT ![r] = [Idle EXCEPT !.op = "convertBp2High", !.user = e.user,
                                                 !.event = e, !.pc = "readBalance"]]
  /\ UNCHANGED <<rows, now, history>>

AnyBalance(e) == e.amount > 0

Covers(e) == points[e.user] >= e.amount

ReadBalance(r) ==
  /\ At(r, "readBalance")
  /\ IF Covers(req[r].event) THEN Goto(r, "signVoucher") ELSE Reply(r)
  /\ UNCHANGED <<rows, now, history>>

\* Nothing is written: the points promised are still there to be spent.
SignVoucher(r) ==
  /\ At(r, "signVoucher")
  /\ LET e == req[r].event
     IN  voucher' = [voucher EXCEPT ![e] = charged[e.user] + withdrawn[e.user]]
  /\ Reply(r)
  /\ UNCHANGED <<rows, now, credited, debited, charged, withdrawn, given>>

-----------------------------------------------------------------------------
(* PUT admin/breedingPoint, PUT admin/withdrawBreedingPoint, POST          *)
(* admin/burnBuds: an event of the chain is reported, once or again        *)

HandledAsDeposit(e) == [tx |-> e.tx, type |-> "DEPOSIT_BP"] \in log

\* AdminService.validateTransaction
Handled(e) == [tx |-> e.tx, type |-> e.type] \in log

OpOf(type) ==
  CASE type = "DEPOSIT_BP" -> "deposit"
    [] type = "WITHDRAW_BP" -> "withdraw"
    [] type = "BURN_GEN0" -> "burn"

InFlight(e)  == Cardinality({r \in Reqs : req[r].event = e})
MayHandle(e) == InFlight(e) + debited[e.tx] + gen1[e.tx].issued < MaxHandled

EventBegin(r) ==
  /\ \E e \in Events :
       /\ Begin(r, OpOf(e.type)) /\ MayHandle(e)
       /\ ~Handled(e)
       /\ e.type = "WITHDRAW_BP" => voucher[e] # None
       /\ req' = [req EXCEPT ![r] = [Idle EXCEPT !.op = OpOf(e.type), !.user = e.user,
                                                 !.event = e, !.pc = "findUser"]]
  /\ UNCHANGED <<rows, now, history>>

AfterUserAtOnce(r) ==
  CASE req[r].op = "deposit" -> "credit"
    [] req[r].op = "withdraw" -> "debit"
    [] OTHER -> "dice"

AfterUser(r) ==
  CASE req[r].op = "deposit" -> "insertLog"
    [] req[r].op = "withdraw" -> "debit"
    [] OTHER -> "dice"

\* The balance a deposit or withdrawal will write is computed from this row.
FindUser(r) ==
  /\ At(r, "findUser")
  /\ IF account[req[r].user] = None
       THEN Reply(r)
       ELSE req' = [req EXCEPT ![r].seen = points[req[r].user], ![r].pc = AfterUser(r)]
  /\ UNCHANGED <<rows, now, history>>

TxIgnored(t) == FALSE

\* @@unique([txHash]): of any type.
TxTaken(t) == \E row \in log : row.tx = t

AfterLogDone(r) == "idle"

\* A deposit is logged before it is credited, the others when they are done.
AfterLog(r) == IF req[r].op = "deposit" THEN "credit" ELSE "idle"

InsertLog(r) ==
  /\ At(r, "insertLog")
  /\ LET e == req[r].event IN
     IF TxTaken(e.tx)
       THEN Reply(r) /\ UNCHANGED log
       ELSE /\ log' = log \union {[tx |-> e.tx, type |-> e.type]}
            /\ IF AfterLog(r) = "idle" THEN Reply(r) ELSE Goto(r, AfterLog(r))
  /\ UNCHANGED <<account, points, slots, gen1, now, history>>

AnyAmount(n) == n >= 0

\* breedingPoint is an Int column: the client refuses a fraction of a point.
Storable(n) == Whole(n)

NewBalanceClamped(r) ==
  IF req[r].op = "deposit" THEN req[r].seen + req[r].event.amount
  ELSE IF req[r].seen < req[r].event.amount THEN 0
  ELSE req[r].seen - req[r].event.amount

NewBalance(r) ==
  IF req[r].op = "deposit" THEN req[r].seen + req[r].event.amount
                           ELSE req[r].seen - req[r].event.amount

Credit(r) ==
  /\ At(r, "credit")
  /\ LET e == req[r].event IN
     IF Storable(NewBalance(r))
       THEN /\ points' = [points EXCEPT ![e.user] = NewBalance(r)]
            /\ credited' = [credited EXCEPT ![e.tx] = @ + 1]
       ELSE UNCHANGED <<points, credited>>
  /\ Reply(r)
  /\ UNCHANGED <<account, slots, log, gen1, now, voucher, debited, charged, withdrawn, given>>

\* An insufficient balance is only logged: the points may fall below zero.
Debit(r) ==
  /\ At(r, "debit")
  /\ LET e == req[r].event IN
     IF Storable(NewBalance(r))
       THEN /\ points' = [points EXCEPT ![e.user] = NewBalance(r)]
            /\ debited' = [debited EXCEPT ![e.tx] = @ + 1]
            /\ withdrawn' = [withdrawn EXCEPT ![e.user] = @ + e.amount]
            /\ Goto(r, "insertLog")
       ELSE Reply(r) /\ UNCHANGED <<points, debited, withdrawn>>
  /\ UNCHANGED <<account, slots, log, gen1, now, voucher, credited, charged, given>>

\* verifyBudPairs and findPairInBreeding may refuse the burn.
Dice(r) ==
  /\ At(r, "dice")
  /\ Goto(r, "mint") \/ Goto(r, "insertLog") \/ Reply(r)
  /\ UNCHANGED <<rows, now, history>>

Mint(r) ==
  /\ At(r, "mint")
  /\ gen1' = [gen1 EXCEPT ![req[r].event.tx].issued = @ + 1]
  /\ Goto(r, "sign")
  /\ UNCHANGED <<account, points, slots, log, now, history>>

Sign(r) ==
  /\ At(r, "sign")
  /\ gen1' = [gen1 EXCEPT ![req[r].event.tx].signed = @ + 1]
  /\ Goto(r, "insertLog")
  /\ UNCHANGED <<account, points, slots, log, now, history>>

-----------------------------------------------------------------------------

Refuse(r) == At(r, "idle") /\ UNCHANGED vars

Abort(r) ==
  /\ MayFail /\ ~At(r, "idle")
  /\ Reply(r)
  /\ UNCHANGED <<rows, now, history>>

Tick ==
  /\ now < MaxTime
  /\ now' = now + 1
  /\ UNCHANGED <<rows, req, history>>

Start(r) ==
  \/ LoginBegin(r) \/ OpenSlotBegin(r) \/ ConvertBegin(r) \/ PurchaseBegin(r)
  \/ InvalidateSlotsBegin(r) \/ VoucherBegin(r) \/ EventBegin(r)
  \/ FinalizeBegin(r) \/ CreatePairBegin(r)

Continue(r) ==
  \/ CreateFree(r) \/ Upsert(r) \/ ReadPoints(r) \/ WritePoints(r) \/ Open(r)
  \/ Convert(r) \/ CountLand(r) \/ CreateLand(r) \/ DeleteSlots(r)
  \/ ReadBalance(r) \/ SignVoucher(r) \/ FindUser(r) \/ InsertLog(r) \/ Credit(r)
  \/ Debit(r) \/ Dice(r) \/ Mint(r) \/ Sign(r) \/ OpenFree(r) \/ UpgradeFree(r)

Next == \/ \E r \in Reqs : Start(r) \/ Continue(r) \/ Abort(r) \/ Refuse(r)
        \/ Tick

Spec == Init /\ [][Next]_vars

\* The event loop resumes every settled await; nothing makes anyone send a request.
FairSpec == Spec /\ \A r \in Reqs : WF_vars(Continue(r))

-----------------------------------------------------------------------------
(* Properties that no interleaving and no failure may break *)

\* Every variable keeps to the columns of the schema; breedingPoint is an
\* integer, so no write may store a fraction of a point (addBreedingPoint).
TypeOK ==
  /\ account \in [Users -> Keys \union {None}]
  /\ points \in [Users -> Int]
  /\ \A u \in Users : Whole(points[u])
  /\ slots \in Seq(SlotRow)
  /\ log \subseteq LogRow
  /\ gen1 \in [Txs -> Gen1Row]
  /\ now \in Nat
  /\ req \in [Reqs -> Local]
  /\ voucher \in [Events -> Nat \union {None}]
  /\ credited \in [Txs -> Nat] /\ debited \in [Txs -> Nat]
  /\ charged \in [Users -> Nat] /\ withdrawn \in [Users -> Nat] /\ given \in [Users -> Nat]

\* A deposit is credited at most once, and only when it was logged, however
\* often and however concurrently it is reported and whatever fails: the unique
\* txHash lets one request through to the credit (addBreedingPoint).
DepositOnce ==
  \A t \in Txs :
    /\ credited[t] <= 1
    /\ credited[t] = 1 => [tx |-> t, type |-> "DEPOSIT_BP"] \in log

\* The worth of what a user bought, by the slots in the table: five slots and one
\* of them open come with a land, the others were opened for a price.
LandsOf(u)  == Cardinality({s \in SlotIds : slots[s].user = u}) \div SlotsPerLand
Bought(u)   == Cardinality({s \in SlotIds : slots[s].user = u /\ slots[s].land # None})
                 \div SlotsPerLand
Opened(u)   == Cardinality({s \in SlotIds : slots[s].user = u /\ slots[s].open})
Indoors(u)  == Cardinality({s \in SlotIds : slots[s].user = u /\ slots[s].indoor})

\* No order of requests and no failure gives a user a land, an open slot or an
\* indoor slot that neither consumeBreedingPoint took its price for nor breeding
\* gave free: the slot a successful finalize opens (breed.controller.ts:416-434) and
\* the upgrade of a Farmer Pass in createPair (216-226), counted in given.
GoodsPaid ==
  \A u \in Users :
    LandPrice * Bought(u) + PriceToOpen * (Opened(u) - LandsOf(u)) + PriceIndoor * Indoors(u)
      <= charged[u] + given[u]

LandFor(u, key) ==
  \E s \in SlotIds : slots[s].user = u /\ slots[s].key = key /\ slots[s].open

\* A user whose row names a game key was given a land for that key, with a slot
\* open, although login writes the slots and the row one after the other.
LoginGivesLand ==
  \A u \in Users : account[u] # None => LandFor(u, account[u])

-----------------------------------------------------------------------------
(* The inductive invariant behind them *)

\* What a request knows of its caller at which await.
LoginKnows(r) ==
  req[r].pc \in {"freeSlots", "upsert"} =>
    req[r].op = "login" /\ req[r].user \in Users /\ req[r].key \in Keys
PayerKnows(r) ==
  req[r].pc \in {"readPoints", "writePoints", "open", "convert", "countLand", "newLand"} =>
    req[r].user \in Users

\* A request of an event carries the operation of its type.
EventKnows(r) ==
  req[r].pc \in {"findUser", "insertLog", "credit", "debit", "dice", "mint", "sign"} =>
    /\ req[r].event \in Events
    /\ req[r].op = OpOf(req[r].event.type)
    /\ req[r].user = req[r].event.user

\* A request for a voucher carries the withdrawal it asks for.
VoucherKnows(r) ==
  req[r].pc \in {"readBalance", "signVoucher"} =>
    req[r].event \in Events /\ req[r].user = req[r].event.user

\* What a request has read of the points, and its price, are whole points.
SeenWhole(r) == Whole(req[r].seen) /\ Whole(req[r].price)

\* A request about to credit has logged its deposit, and nothing was credited for it.
Crediting(r) == req[r].pc = "credit"
CreditPending(r) ==
  Crediting(r) =>
    /\ req[r].op = "deposit"
    /\ [tx |-> req[r].event.tx, type |-> "DEPOSIT_BP"] \in log
    /\ credited[req[r].event.tx] = 0

\* Login writes the user's row only when there is a land for the key.
UpsertHasLand(r) == req[r].pc = "upsert" => LandFor(req[r].user, req[r].key)

RequestInv(r) ==
  /\ LoginKnows(r) /\ PayerKnows(r) /\ EventKnows(r) /\ VoucherKnows(r) /\ SeenWhole(r)
  /\ CreditPending(r) /\ UpsertHasLand(r)

\* The unique txHash: one request at a time credits a tx.
OneCreditor ==
  \A r, q \in Reqs :
    r # q /\ Crediting(r) /\ Crediting(q) => req[r].event.tx # req[q].event.tx

\* createMany opens the first slot of a free land with the others, in one statement.
FreeLandsOpen ==
  \A s \in SlotIds : slots[s].land = None => LandFor(slots[s].user, slots[s].key)

\* TypeOK, DepositOnce and LoginGivesLand with what the requests know at their awaits.
LedgerInv ==
  /\ TypeOK
  /\ DepositOnce
  /\ LoginGivesLand
  /\ FreeLandsOpen
  /\ \A r \in Reqs : RequestInv(r)
  /\ OneCreditor

-----------------------------------------------------------------------------
(* Properties of requests that do not overlap and do not fail *)

Quiet == \A r \in Reqs : At(r, "idle")

\* What an event, and what the events of a user, came to.
Effect(e) == IF e.type = "DEPOSIT_BP" THEN credited[e.tx] * e.amount
             ELSE - (debited[e.tx] * e.amount)
Moved(u)  == SumFunctionOnSet([e \in Events |-> Effect(e)], {e \in Events : e.user = u})

\* A user's points are what was credited less what was debited and charged: every
\* handler that moves points writes what it read plus or minus its own amount.
LedgerBalances == \A u \in Users : points[u] = Moved(u) - charged[u]

\* A signed voucher is still covered by the user's points together with what has left
\* them since: a withdrawal overdraws the balance by no more than the user spent, or
\* was promised by other vouchers, while the voucher was out (convertBp2High reserves
\* nothing, and withdrawBreedingPoint only logs "Insufficient balance").
VoucherCovered ==
  \A e \in Events :
    voucher[e] # None =>
      points[e.user] + (charged[e.user] + withdrawn[e.user] - voucher[e]) >= e.amount

\* A user has the free land of a game key once ("land is already created for given
\* game key"), also after logging in with other keys or losing the slots.
FreeLandOnce ==
  \A u \in Users, key \in Keys : Cardinality(FreeRows(u, key)) <= SlotsPerLand

\* A withdrawal is debited, and a burn is rewarded, at most once, and between
\* requests what was done to a tx is also logged (validateTransaction).
HandledOnce ==
  /\ \A t \in Txs : debited[t] <= 1 /\ gen1[t].issued <= 1 /\ gen1[t].signed <= gen1[t].issued
  /\ Quiet =>
       \A t \in Txs :
         /\ debited[t] = 1 => [tx |-> t, type |-> "WITHDRAW_BP"] \in log
         /\ gen1[t].issued = 1 => gen1[t].signed = 1 /\ [tx |-> t, type |-> "BURN_GEN0"] \in log

\* A logged deposit of whole points is credited in the end: nothing can report it
\* again (addBreedingPoint writes the log before the balance).
DepositCredited ==
  \A e \in {d \in Events : d.type = "DEPOSIT_BP" /\ Whole(d.amount)} :
    Handled(e) ~> credited[e.tx] = 1

=============================================================================
