------------------------------ MODULE Breeding ------------------------------
(***************************************************************************)
(* The breeding endpoints of the backend (BreedController, BreedService    *)
(* and the two invalidation endpoints of AdminController) over the tables  *)
(* BreedPair, BreedLevel, BreedBud, BreedSlot, Gen1Bud and the column      *)
(* User.breedingPoint.                                                     *)
(*                                                                         *)
(* A request is a process.  No handler opens a transaction, so the code    *)
(* between two awaits of a database or chain call is one step, and the     *)
(* steps of different requests interleave.  Any await may also throw (or   *)
(* the process may die) and leave what the request has written so far:     *)
(* Abort.  A request that is refused before it has written anything has    *)
(* the effect of Refuse.                                                   *)
(*                                                                         *)
(* Abstracted: the rates (a bonus is one of Bonuses, the dice are a        *)
(* choice), the generated buds (a level row only knows whether its four    *)
(* buds were inserted), names, images and signatures.                      *)
(***************************************************************************)
EXTENDS Integers, FiniteSets

CONSTANTS
  Users, MaleBuds, FemaleBuds,
  Slots, SlotUser, SlotKey, SlotOpen,  \* the slot rows login and purchaseLand made
  Keys,                                \* game keys; 0 and null are None
  Items, FarmerPass, SuperweedSerum,   \* in-game items a pair may be created with
  Stock,                               \* Stock[u][i]: the items u holds at first
  Reqs,                                \* requests being handled at one time
  MaxPairs,                            \* bound: rows of BreedPair
  TargetLevel, LevelPrice,             \* breed.targetLevel, breed.breedingPointPerLevel
  InitialPoints,                       \* User.breedingPoint at first
  TimePeriod,                          \* breed.timePeriod
  MaxTime,                             \* bound: the clock
  Bonuses,                             \* values a level's bonusRate can get
  Endpoints,                           \* what clients and the environment may do
  MayFail,                             \* whether an await may throw
  None                                 \* SQL null

Pairs  == 1..MaxPairs
Levels == 1..TargetLevel
Buds   == MaleBuds \union FemaleBuds

ASSUME BudsAssumption    == MaleBuds \intersect FemaleBuds = {}
ASSUME NoneAssumption    == None \notin Users \union Slots \union Keys \union Items \union Buds
ASSUME SlotsAssumption   == /\ SlotUser \in [Slots -> Users]
                            /\ SlotKey \in [Slots -> Keys \union {None}]
                            /\ SlotOpen \in [Slots -> BOOLEAN]
ASSUME StockAssumption   == Stock \in [Users -> [Items -> Nat]]
ASSUME BoundsAssumption  == MaxPairs \in Nat /\ MaxTime \in Nat
ASSUME LevelAssumption   == TargetLevel \in Nat \ {0}
ASSUME PointsAssumption  == LevelPrice \in Nat /\ InitialPoints \in Nat
ASSUME TimeAssumption    == TimePeriod \in Nat
ASSUME BonusesAssumption == Bonuses \subseteq Int
ASSUME MayFailAssumption == MayFail \in BOOLEAN

VARIABLES
  owner,      \* on chain: the owner of each Gen0 bud
  balance,    \* on chain: balance[u][i], the in-game items of a user
  pair,       \* table BreedPair
  level,      \* table BreedLevel, level[p][k] the row with unique key (p, k)
  slot,       \* table BreedSlot
  points,     \* User.breedingPoint
  gen1,       \* table Gen1Bud: the rows with a given pairId
  now,        \* the clock of database and server
  req,        \* the local variables of the requests being handled
  paid        \* history: the levels of a pair its owner was charged for

tables == <<pair, level, slot, points, gen1, paid>>
chain  == <<owner, balance>>
vars   == <<owner, balance, pair, level, slot, points, gen1, now, req, paid>>

-----------------------------------------------------------------------------
(* Rows *)

NoPair  == [status |-> "NONE", user |-> None, male |-> None, female |-> None,
            item |-> None, slot |-> None, level |-> 0]
NoLevel == [exists |-> FALSE, buds |-> FALSE, evaluated |-> FALSE,
            bonus |-> 0, created |-> 0]
Idle    == [op |-> "none", pc |-> "idle", user |-> None, pair |-> 0, lvl |-> 0,
            slot |-> None, male |-> None, female |-> None, item |-> None,
            seen |-> 0, hits |-> {}, doomed |-> {}, won |-> FALSE]

PairStatus == {"NONE", "PAIRED", "COMPLETED", "FAILED", "CANCELED"}

PairRow == [status : PairStatus, user : Users \union {None},
            male : MaleBuds \union {None}, female : FemaleBuds \union {None},
            item : Items \union {None}, slot : Slots \union {None},
            level : 0..(TargetLevel + 1)]
LevelRow == [exists : BOOLEAN, buds : BOOLEAN, evaluated : BOOLEAN,
             bonus : Int, created : Nat]
SlotRow == [user : Users, key : Keys \union {None}, open : BOOLEAN,
            used : BOOLEAN, indoor : BOOLEAN, deleted : BOOLEAN]
Gen1Row == [issued : Nat, signed : Nat]

Ops == {"none", "createPair", "levelUp", "finalize", "cancel",
        "invalidate", "adminInvalidate", "invalidateSlots"}
Pcs == {"idle", "checkItem", "countPairs", "findSlot", "upgradeSlot",
        "insertPair", "markUsed", "countItems", "verifyBuds", "readPoints",
        "writePoints", "evaluate", "record", "mkLevel", "mkBuds", "bump",
        "dice", "freeSlot", "settle", "findClosed", "openSlot", "mint", "sign",
        "cancelPair", "findPairs", "findPrevPairs", "failPairs", "freeSlots",
        "deleteSlots", "failOnSlots"}
Local == [op : Ops, pc : Pcs, user : Users \union {None}, pair : 0..MaxPairs,
          lvl : 0..(TargetLevel + 1), slot : Slots \union {None},
          male : MaleBuds \union {None}, female : FemaleBuds \union {None},
          item : Items \union {None}, seen : Nat, hits : SUBSET Pairs,
          doomed : SUBSET Slots, won : BOOLEAN]

Init ==
  /\ owner \in [Buds -> Users]
  /\ balance = Stock
  /\ pair = [p \in Pairs |-> NoPair]
  /\ level = [p \in Pairs |-> [k \in Levels |-> NoLevel]]
  /\ slot = [s \in Slots |-> [user |-> SlotUser[s], key |-> SlotKey[s],
                              open |-> SlotOpen[s], used |-> FALSE,
                              indoor |-> FALSE, deleted |-> FALSE]]
  /\ points = [u \in Users |-> InitialPoints]
  /\ gen1 = [p \in Pairs |-> [issued |-> 0, signed |-> 0]]
  /\ now = 0
  /\ req = [r \in Reqs |-> Idle]
  /\ paid = [p \in Pairs |-> {}]

-----------------------------------------------------------------------------
(* Control of a request *)

Begin(r, name) == name \in Endpoints /\ req[r].pc = "idle"
At(r, pc)      == req[r].pc = pc
Goto(r, pc)    == req' = [req EXCEPT ![r].pc = pc]
Reply(r)       == req' = [req EXCEPT ![r] = Idle]

-----------------------------------------------------------------------------
(* Queries and checks, one operator per query of the code.  A definition   *)
(* that some mutant replaces is preceded by its faulty variant; no variant  *)
(* is used by the specification itself (see the README).                    *)

IsPaired(p) == pair[p].status = "PAIRED"

\* BudService.verifyBudPairs: both buds belong to the address.
OwnsBoth(u, m, f) == owner[m] = u /\ owner[f] = u

InBreedingBoth(m, f) ==
  {p \in Pairs : IsPaired(p) /\ pair[p].female = f /\ pair[p].male = m}

\* BreedService.findPairInBreeding
InBreeding(m, f) ==
  {p \in Pairs : IsPaired(p) /\ (pair[p].female = f \/ pair[p].male = m)}

OpenSlotsEvenUsed(u) ==
  {s \in Slots : slot[s].user = u /\ slot[s].open /\ ~slot[s].deleted}

\* LandService.findOpenBreedSlotById
OpenSlots(u) ==
  {s \in Slots : slot[s].user = u /\ slot[s].open /\ ~slot[s].used /\ ~slot[s].deleted}

\* The game key of the session must be that of the slot, when it has one.
KeyFits(s, key) == slot[s].key # None => slot[s].key = key

OwnPairsAnyStatus(u) == {p \in Pairs : pair[p].status # "NONE" /\ pair[p].user = u}

\* The pair a user may level up, finalize or cancel (findFirst by id, user, status).
OwnPairs(u) == {p \in Pairs : IsPaired(p) /\ pair[p].user = u}

\* verifyGameItemPossession: how many of the user's pairs use the item now.
ItemCount(u, i) ==
  Cardinality({p \in Pairs : IsPaired(p) /\ pair[p].user = u /\ pair[p].item = i})

\* utils/breed.ts
GetBreedTime(i) ==
  IF i = FarmerPass THEN TimePeriod \div 2
  ELSE IF i = SuperweedSerum THEN (4 * TimePeriod) \div 5
  ELSE TimePeriod

BreedTimeIgnored(created, i) == now >= created

BreedTimeElapsed(created, i) == now - created >= GetBreedTime(i)

\* BreedPair.id is a serial: the smallest number not given yet.
NextId(p) == pair[p].status = "NONE" /\ \A q \in 1..(p - 1) : pair[q].status # "NONE"

Creating == {r \in Reqs : req[r].op = "createPair" /\ req[r].pair = 0}
RoomForPair ==
  Cardinality({p \in Pairs : pair[p].status # "NONE"}) + Cardinality(Creating) < MaxPairs

-----------------------------------------------------------------------------
(* POST breed/pair *)

CreateLocals(u, m, f, i) ==
  [Idle EXCEPT !.op = "createPair", !.user = u, !.male = m, !.female = f, !.item = i,
               !.seen = 1, !.pc = IF i = None THEN "countPairs" ELSE "checkItem"]

CreateBegin(r) ==
  /\ Begin(r, "createPair") /\ RoomForPair
  /\ \E u \in Users, m \in MaleBuds, f \in FemaleBuds, i \in Items \union {None} :
       /\ OwnsBoth(u, m, f)
       /\ req' = [req EXCEPT ![r] = CreateLocals(u, m, f, i)]
  /\ UNCHANGED <<tables, chain, now>>

\* checkGameItemBalance asks for one item, whatever other pairs use it.
CheckItem(r) ==
  /\ At(r, "checkItem")
  /\ IF balance[req[r].user][req[r].item] >= req[r].seen
       THEN Goto(r, IF req[r].op = "createPair" THEN "countPairs" ELSE "verifyBuds")
       ELSE Reply(r)
  /\ UNCHANGED <<tables, chain, now>>

CountPairs(r) ==
  /\ At(r, "countPairs")
  /\ IF InBreeding(req[r].male, req[r].female) = {} THEN Goto(r, "findSlot") ELSE Reply(r)
  /\ UNCHANGED <<tables, chain, now>>

\* slotId, upgradeSlot and the session's game key are not used before this query.
FindSlot(r) ==
  /\ At(r, "findSlot")
  /\ \/ \E s \in OpenSlots(req[r].user), key \in Keys \union {None}, upgrade \in BOOLEAN :
          /\ KeyFits(s, key)
          /\ req' = [req EXCEPT ![r].slot = s,
                                ![r].pc = IF /\ upgrade
                                             /\ req[r].item = FarmerPass
                                             /\ ~slot[s].indoor
                                          THEN "upgradeSlot" ELSE "insertPair"]
     \/ Reply(r)
  /\ UNCHANGED <<tables, chain, now>>

UpgradeSlot(r) ==
  /\ At(r, "upgradeSlot")
  /\ slot' = [slot EXCEPT ![req[r].slot].indoor = TRUE]
  /\ Goto(r, "insertPair")
  /\ UNCHANGED <<pair, level, points, gen1, paid, chain, now>>

InsertPair(r) ==
  /\ At(r, "insertPair")
  /\ \E p \in Pairs :
       /\ NextId(p)
       /\ pair' = [pair EXCEPT ![p] =
                    [status |-> "PAIRED", user |-> req[r].user, male |-> req[r].male,
                     female |-> req[r].female, item |-> req[r].item,
                     slot |-> req[r].slot, level |-> 0]]
       /\ req' = [req EXCEPT ![r].pair = p, ![r].lvl = 0, ![r].pc = "markUsed"]
  /\ UNCHANGED <<level, slot, points, gen1, paid, chain, now>>

MarkUsed(r) ==
  /\ At(r, "markUsed")
  /\ slot' = [slot EXCEPT ![req[r].slot].used = TRUE]
  /\ Goto(r, "mkLevel")
  /\ UNCHANGED <<pair, level, points, gen1, paid, chain, now>>

-----------------------------------------------------------------------------
(* BreedService.startBreedLevel, called with the pair as the request read it *)

KeyIgnored(p, k) == FALSE

\* The unique key (pairId, level): the second insert throws.
KeyTaken(p, k) == level[p][k].exists

MkLevel(r) ==
  /\ At(r, "mkLevel")
  /\ LET p == req[r].pair
         k == req[r].lvl + 1
     IN  IF KeyTaken(p, k)
           THEN Reply(r) /\ UNCHANGED level
           ELSE /\ level' = [level EXCEPT ![p][k] =
                              [exists |-> TRUE, buds |-> FALSE, evaluated |-> FALSE,
                               bonus |-> 0, created |-> now]]
                /\ Goto(r, "mkBuds")
  /\ UNCHANGED <<pair, slot, points, gen1, paid, chain, now>>

MkBuds(r) ==
  /\ At(r, "mkBuds")
  /\ level' = [level EXCEPT ![req[r].pair][req[r].lvl + 1] = [@ EXCEPT !.buds = TRUE]]
  /\ Goto(r, "bump")
  /\ UNCHANGED <<pair, slot, points, gen1, paid, chain, now>>

\* currentLevel is set to the stale level plus one.
Bump(r) ==
  /\ At(r, "bump")
  /\ pair' = [pair EXCEPT ![req[r].pair].level = req[r].lvl + 1]
  /\ Reply(r)
  /\ UNCHANGED <<level, slot, points, gen1, paid, chain, now>>

-----------------------------------------------------------------------------
(* POST breed/levelUp and POST breed/finalize *)

TargetPassed(p) == pair[p].level > TargetLevel

LevelUpLocals(u, p) ==
  [Idle EXCEPT !.op = "levelUp", !.user = u, !.pair = p, !.lvl = pair[p].level,
               !.item = pair[p].item,
               !.pc = IF pair[p].item = None THEN "verifyBuds" ELSE "countItems"]

LevelUpBegin(r) ==
  /\ Begin(r, "levelUp")
  /\ \E u \in Users : \E p \in OwnPairs(u) :
       /\ ~TargetPassed(p)
       /\ req' = [req EXCEPT ![r] = LevelUpLocals(u, p)]
  /\ UNCHANGED <<tables, chain, now>>

CountItemsAsOne(r) ==
  /\ At(r, "countItems")
  /\ req' = [req EXCEPT ![r].seen = 1, ![r].pc = "checkItem"]
  /\ UNCHANGED <<tables, chain, now>>

\* verifyGameItemPossession; an unpaired count of 0 is refused.
CountItems(r) ==
  /\ At(r, "countItems")
  /\ LET n == ItemCount(req[r].user, req[r].item)
     IN  IF n = 0 THEN Reply(r)
                  ELSE req' = [req EXCEPT ![r].seen = n, ![r].pc = "checkItem"]
  /\ UNCHANGED <<tables, chain, now>>

VerifyBudsUnpaid(r) ==
  /\ At(r, "verifyBuds")
  /\ IF OwnsBoth(req[r].user, pair[req[r].pair].male, pair[req[r].pair].female)
       THEN Goto(r, "evaluate") ELSE Reply(r)
  /\ UNCHANGED <<tables, chain, now>>

VerifyBuds(r) ==
  /\ At(r, "verifyBuds")
  /\ IF OwnsBoth(req[r].user, pair[req[r].pair].male, pair[req[r].pair].female)
       THEN Goto(r, "readPoints") ELSE Reply(r)
  /\ UNCHANGED <<tables, chain, now>>

AnyPoints(n) == n >= 0

EnoughPoints(n) == n >= LevelPrice

\* UserService.consumeBreedingPoint: read, compare, write what was read less the price.
ReadPoints(r) ==
  /\ At(r, "readPoints")
  /\ IF EnoughPoints(points[req[r].user])
       THEN req' = [req EXCEPT ![r].seen = points[req[r].user], ![r].pc = "writePoints"]
       ELSE Reply(r)
  /\ UNCHANGED <<tables, chain, now>>

WritePoints(r) ==
  /\ At(r, "writePoints")
  /\ points' = [points EXCEPT ![req[r].user] = req[r].seen - LevelPrice]
  /\ paid' = [paid EXCEPT ![req[r].pair] = @ \union {req[r].lvl}]
  /\ Goto(r, "evaluate")
  /\ UNCHANGED <<pair, level, slot, gen1, chain, now>>

TargetNear(p) == pair[p].level + 1 >= TargetLevel

TargetReached(p) == pair[p].level >= TargetLevel

FinalizeLocals(u, p) ==
  [Idle EXCEPT !.op = "finalize", !.user = u, !.pair = p, !.lvl = pair[p].level,
               !.item = pair[p].item, !.slot = pair[p].slot, !.pc = "evaluate"]

FinalizeBegin(r) ==
  /\ Begin(r, "finalize")
  /\ \E u \in Users : \E p \in OwnPairs(u) :
       /\ TargetReached(p)
       /\ req' = [req EXCEPT ![r] = FinalizeLocals(u, p)]
  /\ UNCHANGED <<tables, chain, now>>

PositivelyEvaluated(row) == row.bonus > 0

\* A bonusRate other than 0 is taken for an evaluation.
AlreadyEvaluated(row) == row.bonus # 0

\* evaluateBreedLevel up to its queries: the row of the level the request knows.
CanEvaluate(p, k, i) ==
  /\ k \in Levels
  /\ level[p][k].exists
  /\ ~AlreadyEvaluated(level[p][k])
  /\ BreedTimeElapsed(level[p][k].created, i)

Evaluate(r) ==
  /\ At(r, "evaluate")
  /\ IF CanEvaluate(req[r].pair, req[r].lvl, req[r].item)
       THEN Goto(r, "record") ELSE Reply(r)
  /\ UNCHANGED <<tables, chain, now>>

AfterRecordOneShort(r) ==
  IF req[r].op = "finalize" THEN "dice"
  ELSE IF req[r].lvl + 1 >= TargetLevel THEN "bump" ELSE "mkLevel"

AfterRecord(r) ==
  IF req[r].op = "finalize" THEN "dice"
  ELSE IF req[r].lvl + 1 > TargetLevel THEN "bump" ELSE "mkLevel"

\* The chosen buds must be a male and a female of the level; then bonusRate and
\* the chosen buds are written, whatever another request wrote meanwhile.
Record(r) ==
  /\ At(r, "record")
  /\ LET p == req[r].pair
         k == req[r].lvl
     IN  \/ /\ level[p][k].buds
            /\ \E b \in Bonuses :
                 level' = [level EXCEPT ![p][k] = [@ EXCEPT !.evaluated = TRUE, !.bonus = b]]
            /\ Goto(r, AfterRecord(r))
         \/ Reply(r) /\ UNCHANGED level
  /\ UNCHANGED <<pair, slot, points, gen1, paid, chain, now>>

Dice(r) ==
  /\ At(r, "dice")
  /\ \E w \in BOOLEAN : req' = [req EXCEPT ![r].won = w, ![r].pc = "freeSlot"]
  /\ UNCHANGED <<tables, chain, now>>

\* Also the last write of cancel.
FreeSlot(r) ==
  /\ At(r, "freeSlot")
  /\ slot' = [slot EXCEPT ![req[r].slot].used = FALSE]
  /\ IF req[r].op = "finalize" THEN Goto(r, "settle") ELSE Reply(r)
  /\ UNCHANGED <<pair, level, points, gen1, paid, chain, now>>

\* The status is written whatever it is by now.
Settle(r) ==
  /\ At(r, "settle")
  /\ pair' = [pair EXCEPT ![req[r].pair].status =
                IF req[r].won THEN "COMPLETED" ELSE "FAILED"]
  /\ IF req[r].won THEN Goto(r, "findClosed") ELSE Reply(r)
  /\ UNCHANGED <<level, slot, points, gen1, paid, chain, now>>

ClosedSlots(u) == {s \in Slots : slot[s].user = u /\ ~slot[s].open /\ ~slot[s].deleted}

FindClosed(r) ==
  /\ At(r, "findClosed")
  /\ IF ClosedSlots(req[r].user) = {}
       THEN Goto(r, "mint")
       ELSE \E s \in ClosedSlots(req[r].user) :
              req' = [req EXCEPT ![r].slot = s, ![r].pc = "openSlot"]
  /\ UNCHANGED <<tables, chain, now>>

OpenSlot(r) ==
  /\ At(r, "openSlot")
  /\ slot' = [slot EXCEPT ![req[r].slot].open = TRUE]
  /\ Goto(r, "mint")
  /\ UNCHANGED <<pair, level, points, gen1, paid, chain, now>>

\* BudService.issueGen1BudMint: the row first, its signature after.
Mint(r) ==
  /\ At(r, "mint")
  /\ gen1' = [gen1 EXCEPT ![req[r].pair].issued = @ + 1]
  /\ Goto(r, "sign")
  /\ UNCHANGED <<pair, level, slot, points, paid, chain, now>>

Sign(r) ==
  /\ At(r, "sign")
  /\ gen1' = [gen1 EXCEPT ![req[r].pair].signed = @ + 1]
  /\ Reply(r)
  /\ UNCHANGED <<pair, level, slot, points, paid, chain, now>>

-----------------------------------------------------------------------------
(* POST breed/cancel *)

CancelLocals(p) ==
  [Idle EXCEPT !.op = "cancel", !.pair = p, !.slot = pair[p].slot, !.pc = "cancelPair"]

CancelBegin(r) ==
  /\ Begin(r, "cancel")
  /\ \E u \in Users : \E p \in OwnPairs(u) :
       req' = [req EXCEPT ![r] = CancelLocals(p)]
  /\ UNCHANGED <<tables, chain, now>>

CancelPairOnly(r) ==
  /\ At(r, "cancelPair")
  /\ pair' = [pair EXCEPT ![req[r].pair].status = "CANCELED"]
  /\ Reply(r)
  /\ UNCHANGED <<level, slot, points, gen1, paid, chain, now>>

CancelPair(r) ==
  /\ At(r, "cancelPair")
  /\ pair' = [pair EXCEPT ![req[r].pair].status = "CANCELED"]
  /\ Goto(r, "freeSlot")
  /\ UNCHANGED <<level, slot, points, gen1, paid, chain, now>>

-----------------------------------------------------------------------------
(* PUT breed/invalidate, by the new owner of both buds, and                *)
(* PUT admin/invalidate-breeding, by the service that saw a bud transferred *)

InvalidateLocals(u, m, f) ==
  [Idle EXCEPT !.op = "invalidate", !.user = u, !.male = m, !.female = f,
               !.pc = "findPairs"]

InvalidateBegin(r) ==
  /\ Begin(r, "invalidate")
  /\ \E u \in Users, m \in MaleBuds, f \in FemaleBuds :
       /\ OwnsBoth(u, m, f)
       /\ req' = [req EXCEPT ![r] = InvalidateLocals(u, m, f)]
  /\ UNCHANGED <<tables, chain, now>>

\* Pairs of anyone but the caller with either bud.
ForeignPairs(u, m, f) == {p \in InBreeding(m, f) : pair[p].user # u}

FindPairs(r) ==
  /\ At(r, "findPairs")
  /\ LET found == ForeignPairs(req[r].user, req[r].male, req[r].female)
     IN  IF found = {} THEN Reply(r)
         ELSE req' = [req EXCEPT ![r].hits = found, ![r].pc = "failPairs"]
  /\ UNCHANGED <<tables, chain, now>>

AnyPairsOfPrevOwner(u, b) ==
  {p \in Pairs : pair[p].user = u /\ (pair[p].female = b \/ pair[p].male = b)}

PairsOfPrevOwner(u, b) ==
  {p \in OwnPairs(u) : pair[p].female = b \/ pair[p].male = b}

AdminLocals(u, b) ==
  [Idle EXCEPT !.op = "adminInvalidate", !.user = u,
               !.male = IF b \in MaleBuds THEN b ELSE None,
               !.female = IF b \in FemaleBuds THEN b ELSE None,
               !.pc = "findPrevPairs"]

\* The owner check of the chain is an await before the query. It is about owner, the
\* new one; prevOwner is taken as it comes.
AdminInvalidateBegin(r) ==
  /\ Begin(r, "adminInvalidate")
  /\ \E prevOwner \in Users, b \in Buds : req' = [req EXCEPT ![r] = AdminLocals(prevOwner, b)]
  /\ UNCHANGED <<tables, chain, now>>

FindPrevPairs(r) ==
  /\ At(r, "findPrevPairs")
  /\ LET b == IF req[r].male # None THEN req[r].male ELSE req[r].female
         found == PairsOfPrevOwner(req[r].user, b)
     IN  IF found = {} THEN Reply(r)
         ELSE req' = [req EXCEPT ![r].hits = found, ![r].pc = "failPairs"]
  /\ UNCHANGED <<tables, chain, now>>

FailPairs(r) ==
  /\ At(r, "failPairs")
  /\ pair' = [p \in Pairs |->
               IF p \in req[r].hits THEN [pair[p] EXCEPT !.status = "FAILED"] ELSE pair[p]]
  /\ Goto(r, "freeSlots")
  /\ UNCHANGED <<level, slot, points, gen1, paid, chain, now>>

FreeSlotsOfPaired(r) ==
  /\ At(r, "freeSlots")
  /\ slot' = [s \in Slots |->
               IF s \in {pair[p].slot : p \in {q \in req[r].hits : IsPaired(q)}}
                 THEN [slot[s] EXCEPT !.used = FALSE] ELSE slot[s]]
  /\ Reply(r)
  /\ UNCHANGED <<pair, level, points, gen1, paid, chain, now>>

FreeSlots(r) ==
  /\ At(r, "freeSlots")
  /\ slot' = [s \in Slots |->
               IF s \in {pair[p].slot : p \in req[r].hits}
                 THEN [slot[s] EXCEPT !.used = FALSE] ELSE slot[s]]
  /\ Reply(r)
  /\ UNCHANGED <<pair, level, points, gen1, paid, chain, now>>

-----------------------------------------------------------------------------
(* PUT admin/invalidate-slots, by the service that saw a game key transferred *)

\* Slots already deleted are found again.
SlotsOfKey(u, key) == {s \in Slots : slot[s].user = u /\ slot[s].key = key}

SlotsLocals(u, key) ==
  [Idle EXCEPT !.op = "invalidateSlots", !.doomed = SlotsOfKey(u, key), !.pc = "deleteSlots"]

InvalidateSlotsBegin(r) ==
  /\ Begin(r, "invalidateSlots")
  /\ \E prevOwner \in Users, key \in Keys :
       /\ SlotsOfKey(prevOwner, key) # {}
       /\ req' = [req EXCEPT ![r] = SlotsLocals(prevOwner, key)]
  /\ UNCHANGED <<tables, chain, now>>

DeleteSlots(r) ==
  /\ At(r, "deleteSlots")
  /\ slot' = [s \in Slots |->
               IF s \in req[r].doomed THEN [slot[s] EXCEPT !.deleted = TRUE] ELSE slot[s]]
  /\ Goto(r, "failOnSlots")
  /\ UNCHANGED <<pair, level, points, gen1, paid, chain, now>>

\* Every pair that was ever on the slots, whatever its status.
PairsOnSlots(S) == {p \in Pairs : pair[p].status # "NONE" /\ pair[p].slot \in S}

FailOnSlots(r) ==
  /\ At(r, "failOnSlots")
  /\ LET dead == PairsOnSlots(req[r].doomed)
     IN  pair' = [p \in Pairs |->
                   IF p \in dead THEN [pair[p] EXCEPT !.status = "FAILED"] ELSE pair[p]]
  /\ Reply(r)
  /\ UNCHANGED <<level, slot, points, gen1, paid, chain, now>>

-----------------------------------------------------------------------------
(* Refusals, failures and the environment *)

\* A request refused by its first check, or one that only reads.
Refuse(r) == At(r, "idle") /\ UNCHANGED vars

Abort(r) ==
  /\ MayFail /\ ~At(r, "idle")
  /\ Reply(r)
  /\ UNCHANGED <<tables, chain, now>>

Tick ==
  /\ now < MaxTime
  /\ now' = now + 1
  /\ UNCHANGED <<tables, chain, req>>

TransferBud ==
  /\ "transferBud" \in Endpoints
  /\ \E b \in Buds, u \in Users :
       owner[b] # u /\ owner' = [owner EXCEPT ![b] = u]
  /\ UNCHANGED <<tables, balance, now, req>>

TransferItem ==
  /\ "transferItem" \in Endpoints
  /\ \E u, v \in Users, i \in Items :
       /\ u # v /\ balance[u][i] > 0
       /\ balance' = [balance EXCEPT ![u][i] = @ - 1, ![v][i] = @ + 1]
  /\ UNCHANGED <<tables, owner, now, req>>

Start(r) ==
  \/ CreateBegin(r) \/ LevelUpBegin(r) \/ FinalizeBegin(r) \/ CancelBegin(r)
  \/ InvalidateBegin(r) \/ AdminInvalidateBegin(r) \/ InvalidateSlotsBegin(r)

\* The handler goes on to its next await.
Continue(r) ==
  \/ CheckItem(r) \/ CountPairs(r) \/ FindSlot(r) \/ UpgradeSlot(r)
  \/ InsertPair(r) \/ MarkUsed(r) \/ MkLevel(r) \/ MkBuds(r) \/ Bump(r)
  \/ CountItems(r) \/ VerifyBuds(r) \/ ReadPoints(r) \/ WritePoints(r)
  \/ Evaluate(r) \/ Record(r) \/ Dice(r) \/ FreeSlot(r) \/ Settle(r)
  \/ FindClosed(r) \/ OpenSlot(r) \/ Mint(r) \/ Sign(r)
  \/ CancelPair(r) \/ FindPairs(r) \/ FindPrevPairs(r) \/ FailPairs(r)
  \/ FreeSlots(r) \/ DeleteSlots(r) \/ FailOnSlots(r)

Next ==
  \/ \E r \in Reqs : Start(r) \/ Continue(r) \/ Abort(r) \/ Refuse(r)
  \/ Tick \/ TransferBud \/ TransferItem

Spec == Init /\ [][Next]_vars

\* Node's event loop resumes every await that has settled, and every query and
\* call settles; nothing makes a client send a request.
FairSpec == Spec /\ \A r \in Reqs : WF_vars(Continue(r))

-----------------------------------------------------------------------------
(* Properties that no interleaving and no failure may break *)

\* Every variable keeps to the columns and ranges of the schema, and a user's
\* breeding points never go below zero (consumeBreedingPoint).
TypeOK ==
  /\ owner \in [Buds -> Users]
  /\ balance \in [Users -> [Items -> Nat]]
  /\ pair \in [Pairs -> PairRow]
  /\ level \in [Pairs -> [Levels -> LevelRow]]
  /\ slot \in [Slots -> SlotRow]
  /\ points \in [Users -> Nat]
  /\ gen1 \in [Pairs -> Gen1Row]
  /\ now \in Nat
  /\ req \in [Reqs -> Local]
  /\ paid \in [Pairs -> SUBSET (0..TargetLevel)]

\* Level k+1 of pair p was started from an evaluated and paid level k, not
\* before the breeding time of level k was over.
Climbed(p, k) ==
  /\ level[p][k].evaluated
  /\ k \in paid[p]
  /\ level[p][k + 1].created - level[p][k].created >= GetBreedTime(pair[p].item)

\* A pair has the rows of all the levels up to its currentLevel, with their buds
\* (startBreedLevel writes them before currentLevel), at most one more, and each
\* row above the first was climbed to: no race of two levelUp requests and no
\* failure between their writes skips a level, its price or its time.
Ladder ==
  \A p \in Pairs : \A k \in Levels :
    /\ k <= pair[p].level => level[p][k].exists /\ level[p][k].buds
    /\ level[p][k].exists => k <= pair[p].level + 1
    /\ k > 1 /\ level[p][k].exists => Climbed(p, k - 1)

\* A Gen1 bud is issued for a pair, and a pair is COMPLETED, only after every
\* level was evaluated and every level but the last paid, each after its
\* breeding time (finalizeBreeding), however requests overlap or fail.
RewardEarned ==
  \A p \in Pairs :
    gen1[p].issued > 0 \/ pair[p].status = "COMPLETED" =>
      /\ level[p][TargetLevel].evaluated
      /\ BreedTimeElapsed(level[p][TargetLevel].created, pair[p].item)
      /\ \A k \in 1..(TargetLevel - 1) : Climbed(p, k)

\* currentLevel only climbs, one level at a time, although startBreedLevel
\* writes it from a copy of the pair the request read before other requests wrote.
LevelNeverFalls ==
  [][\A p \in Pairs : pair'[p].level \in {pair[p].level, pair[p].level + 1}]_vars

-----------------------------------------------------------------------------
(* The inductive invariant behind them *)

\* Requests between the insert of a level row and the update of currentLevel.
Building(r) == req[r].pc \in {"mkBuds", "bump"} /\ req[r].lvl < TargetLevel

\* After evaluateBreedLevel of this request.
PastRecord ==
  {"dice", "freeSlot", "settle", "findClosed", "openSlot", "mint", "sign"}

\* A row no request has inserted is empty.
Unborn(p) ==
  pair[p].status = "NONE" =>
    /\ pair[p].level = 0
    /\ \A k \in Levels : ~level[p][k].exists

\* Only an existing level is evaluated, and only after its breeding time.
EvaluatedInTime(p) ==
  \A k \in Levels :
    level[p][k].evaluated =>
      level[p][k].exists /\ BreedTimeElapsed(level[p][k].created, pair[p].item)

\* Which operation can be at which await.
OpMatchesPc(r) ==
  LET pc == req[r].pc IN
  /\ pc \in {"countPairs", "findSlot", "upgradeSlot", "insertPair", "markUsed"}
       => req[r].op = "createPair"
  /\ pc = "checkItem" => req[r].op \in {"createPair", "levelUp"}
  /\ pc \in {"countItems", "verifyBuds", "readPoints", "writePoints"} => req[r].op = "levelUp"
  /\ pc \in {"evaluate", "record"} => req[r].op \in {"levelUp", "finalize"}
  /\ pc \in {"mkLevel", "mkBuds", "bump"} => req[r].op \in {"createPair", "levelUp"}
  /\ pc \in PastRecord \ {"freeSlot"} => req[r].op = "finalize"
  /\ pc = "freeSlot" => req[r].op \in {"finalize", "cancel"}
  /\ pc = "cancelPair" => req[r].op = "cancel"
  /\ pc \in {"findPairs", "findPrevPairs", "failPairs", "freeSlots"}
       => req[r].op \in {"invalidate", "adminInvalidate"}
  /\ pc \in {"deleteSlots", "failOnSlots"} => req[r].op = "invalidateSlots"

\* The pair of the request exists and has not fallen behind the request's copy.
KnowsPair(r) ==
  \/ req[r].op \in {"levelUp", "finalize", "cancel"}
  \/ req[r].pc \in {"markUsed", "mkLevel", "mkBuds", "bump"}
  =>
  /\ req[r].pair \in Pairs
  /\ pair[req[r].pair].status # "NONE"
  /\ req[r].lvl <= pair[req[r].pair].level

\* The level the request works on is one its operation admits.
RightLevel(r) ==
  /\ req[r].op = "createPair" => req[r].lvl = 0
  /\ req[r].op = "levelUp" => req[r].lvl <= TargetLevel
  /\ req[r].op = "finalize" => req[r].lvl >= TargetLevel
  /\ req[r].op \in {"levelUp", "finalize"} => req[r].item = pair[req[r].pair].item
  /\ req[r].pc \in {"mkLevel", "mkBuds"} => req[r].lvl < TargetLevel

\* The points were read and are enough; then the level is paid.
Charged(r) ==
  /\ req[r].op = "levelUp" => req[r].user \in Users
  /\ req[r].pc = "writePoints" => EnoughPoints(req[r].seen)
  /\ req[r].op = "levelUp" /\ req[r].pc \in {"evaluate", "record", "mkLevel", "mkBuds", "bump"}
       => req[r].lvl \in paid[req[r].pair]

\* The level was found in time; then it is evaluated.
Evaluated(r) ==
  LET p == req[r].pair
      k == req[r].lvl
  IN /\ req[r].pc = "record" =>
          /\ k \in Levels /\ level[p][k].exists
          /\ BreedTimeElapsed(level[p][k].created, pair[p].item)
     /\ \/ req[r].op = "finalize" /\ req[r].pc \in PastRecord
        \/ req[r].op = "levelUp" /\ req[r].pc \in {"mkLevel", "mkBuds", "bump"}
        => k \in Levels /\ level[p][k].evaluated

\* Between insert and update the row is there and currentLevel waits for it.
BuildsNext(r) ==
  LET p == req[r].pair
      k == req[r].lvl
  IN Building(r) =>
       /\ level[p][k + 1].exists
       /\ pair[p].level = k
       /\ req[r].pc = "bump" => level[p][k + 1].buds

RequestInv(r) ==
  /\ OpMatchesPc(r) /\ KnowsPair(r) /\ RightLevel(r)
  /\ Charged(r) /\ Evaluated(r) /\ BuildsNext(r)

\* The unique key (pairId, level) lets one request at a time build a pair.
OneBuilder ==
  \A r, q \in Reqs :
    r # q /\ Building(r) /\ Building(q) => req[r].pair # req[q].pair

\* A reward needs the last level evaluated; the rest follows from Ladder.
RewardBase ==
  \A p \in Pairs :
    gen1[p].issued > 0 \/ pair[p].status = "COMPLETED" => level[p][TargetLevel].evaluated

\* The inductive invariant: what every request knows, together with the ladder,
\* holds at every await of every handler.
BreedingInv ==
  /\ TypeOK
  /\ Ladder
  /\ \A p \in Pairs : Unborn(p) /\ EvaluatedInTime(p)
  /\ \A r \in Reqs : RequestInv(r)
  /\ OneBuilder
  /\ RewardBase

-----------------------------------------------------------------------------
(* Properties of requests that do not overlap, or do not fail *)

Quiet       == \A r \in Reqs : At(r, "idle")
WorkedOn(p) == \E r \in Reqs : ~At(r, "idle") /\ req[r].pair = p
IsSettled(p) == pair[p].status \in {"COMPLETED", "FAILED", "CANCELED"}

\* Without failures, a PAIRED pair no request works on can go on: the row of its
\* currentLevel is there with its buds and not evaluated, and the next one is
\* not there yet. Overlapping levelUp requests, of which one is thrown out by
\* the unique key, leave nothing half done (evaluateBreedLevel, startBreedLevel).
LadderNeverStuck ==
  \A p \in Pairs :
    IsPaired(p) /\ ~WorkedOn(p) =>
      /\ pair[p].level > 0
      /\ \A k \in Levels :
           /\ k = pair[p].level =>
                level[p][k].exists /\ level[p][k].buds /\ ~level[p][k].evaluated
           /\ k > pair[p].level => ~level[p][k].exists

\* A bud is in at most one PAIRED pair (createPair, findPairInBreeding).
BudBredOnce ==
  \A p, q \in Pairs :
    p # q /\ IsPaired(p) /\ IsPaired(q) =>
      pair[p].male # pair[q].male /\ pair[p].female # pair[q].female

\* A slot holds at most one PAIRED pair (createPair, findOpenBreedSlotById).
SlotBredOnce ==
  \A p, q \in Pairs :
    p # q /\ IsPaired(p) /\ IsPaired(q) => pair[p].slot # pair[q].slot

\* Between requests, BreedSlot.isUsed says whether a PAIRED pair is on the slot:
\* createPair, finalize, cancel and both invalidations keep the two tables in step.
SlotUsedIffBred ==
  Quiet =>
    \A s \in Slots :
      ~slot[s].deleted =>
        (slot[s].used <=> \E p \in Pairs : IsPaired(p) /\ pair[p].slot = s)

\* Between requests a pair has at most one Gen1 bud, signed, and a COMPLETED pair
\* has exactly one (finalizeBreeding, issueGen1BudMint).
RewardOnce ==
  Quiet =>
    \A p \in Pairs :
      /\ gen1[p].issued <= 1
      /\ gen1[p].signed = gen1[p].issued
      /\ pair[p].status = "COMPLETED" => gen1[p].issued = 1

\* A pair that was completed, failed or canceled keeps that status, whoever else
\* works on it or its buds; only invalidate-slots fails the pairs of the slots it
\* deletes over any outcome.
SettledIsFinal ==
  [][\A p \in Pairs :
       IsSettled(p) /\ pair'[p].status # pair[p].status =>
         \E r \in Reqs : At(r, "failOnSlots") /\ pair[p].slot \in req[r].doomed]_vars

\* The bonus of an evaluated level is never drawn again, also when the request
\* that evaluated it failed later ("Breed rate already evaluated").
BonusFixed ==
  [][\A p \in Pairs : \A k \in Levels :
       level[p][k].bonus # 0 => level'[p][k].bonus = level[p][k].bonus]_vars

\* A levelUp of a pair created with an in-game item goes on only while its user holds
\* as many of the item as they have pairs using it (verifyGameItemPossession): an item
\* that served two pairs, or was given away since, holds both of them up.
ItemsCoverPairs ==
  [][\A r \in Reqs :
       At(r, "checkItem") /\ req[r].op = "levelUp" /\ req'[r].pc = "verifyBuds" =>
         balance[req[r].user][req[r].item] >= ItemCount(req[r].user, req[r].item)]_vars

\* No slot stays in use for nobody: again and again every slot marked used and not
\* deleted has its PAIRED pair, although each handler writes the pair and its slot in
\* two awaits, some the slot first ("Mark slot unused").
SlotReleased ==
  []<>(\A s \in Slots :
         slot[s].used /\ ~slot[s].deleted => \E p \in Pairs : IsPaired(p) /\ pair[p].slot = s)

-----------------------------------------------------------------------------
(* What the endpoints implement.  Of the tables a pair's owner sees the     *)
(* level the pair stands on and when its row was created, and which levels  *)
(* were evaluated and paid; rows ahead of currentLevel, the buds, and what  *)
(* requests remember are hidden.                                            *)

LevelSince(p) == IF pair[p].level \in Levels THEN level[p][pair[p].level].created ELSE 0

SeenStatus  == [p \in Pairs |-> pair[p].status]
SeenLevel   == [p \in Pairs |-> pair[p].level]
SeenSince   == [p \in Pairs |-> LevelSince(p)]
SeenTerm    == [p \in Pairs |-> GetBreedTime(pair[p].item)]
SeenProved  == [p \in Pairs |-> {k \in Levels : level[p][k].evaluated}]
SeenPaid    == [p \in Pairs |-> paid[p] \intersect Levels]
SeenRewards == [p \in Pairs |-> gen1[p].issued]

Promise == INSTANCE PairLadder WITH
  status <- SeenStatus, level <- SeenLevel, since <- SeenSince, term <- SeenTerm,
  proved <- SeenProved, paid <- SeenPaid, rewards <- SeenRewards

\* Overlapping and failing requests, each a chain of awaits, only ever do to a pair
\* what one atomic step of the ladder does at a time: pay, prove or climb the level it
\* stands on, settle it, reward it (startBreedLevel, evaluateBreedLevel, finalize).
KeepsPromise == Promise!Spec

-----------------------------------------------------------------------------
(* What a message or a document of the repository says and the code does not *)

\* "Target level reached. Do finalize!" (levelUp): a pair so refused still has a
\* level to finalize.
FinalizeWhenTold ==
  \A p \in Pairs :
    IsPaired(p) /\ TargetPassed(p) =>
      \E k \in Levels :
        k = pair[p].level /\ level[p][k].exists /\ ~AlreadyEvaluated(level[p][k])

=============================================================================
