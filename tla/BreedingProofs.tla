--------------------------- MODULE BreedingProofs ---------------------------
(***************************************************************************)
(* Proofs about Breeding, for any number of users, slots, pairs, requests  *)
(* and levels.  BreedingInv is inductive; the type invariant, Ladder,      *)
(* RewardEarned and LevelNeverFalls follow from it.                        *)
(***************************************************************************)
EXTENDS Breeding, FiniteSetTheorems, TLAPS

\* The breeding time is a natural number whatever the item.
LEMMA BreedTimeType == ASSUME NEW i PROVE GetBreedTime(i) \in Nat
  BY TimeAssumption DEF GetBreedTime

-----------------------------------------------------------------------------
(* Types *)

LEMMA InitType == Init => TypeOK
  BY SlotsAssumption, StockAssumption, PointsAssumption, LevelAssumption, BoundsAssumption
  DEF Init, TypeOK, NoPair, PairRow, PairStatus, NoLevel, LevelRow, SlotRow, Gen1Row,
      Idle, Local, Ops, Pcs

LEMMA IdleType == Idle \in Local
  BY LevelAssumption, BoundsAssumption DEF Pairs, Idle, Local, Ops, Pcs

\* Replacing the locals of one request, going on to another await and replying
\* keep the locals typed.
LEMMA LocalsType ==
  ASSUME TypeOK, NEW r \in Reqs, NEW x \in Local, req' = [req EXCEPT ![r] = x]
  PROVE  (req \in [Reqs -> Local])'
  BY DEF TypeOK

LEMMA GotoType ==
  ASSUME TypeOK, NEW r \in Reqs, NEW pc \in Pcs, Goto(r, pc) PROVE (req \in [Reqs -> Local])'
<1>1. [req[r] EXCEPT !.pc = pc] \in Local
  BY DEF TypeOK, Local
<1> QED BY <1>1, LocalsType DEF Goto

LEMMA ReplyType ==
  ASSUME TypeOK, NEW r \in Reqs, Reply(r) PROVE (req \in [Reqs -> Local])'
  BY IdleType, LocalsType DEF Reply

\* The first step of every handler only sets the locals.
LEMMA StartFrame ==
  ASSUME NEW r \in Reqs, Start(r) PROVE UNCHANGED <<tables, chain, now>>
  BY DEF Start, CreateBegin, LevelUpBegin, FinalizeBegin, CancelBegin,
         InvalidateBegin, AdminInvalidateBegin, InvalidateSlotsBegin

LEMMA StartType ==
  ASSUME TypeOK, NEW r \in Reqs, Start(r) PROVE TypeOK'
<1> USE IdleType
<1>1. \E x \in Local : req' = [req EXCEPT ![r] = x]
  <2>1. CASE CreateBegin(r)
    <3>1. ASSUME NEW u \in Users, NEW m \in MaleBuds, NEW f \in FemaleBuds,
                 NEW i \in Items \union {None}
          PROVE  CreateLocals(u, m, f, i) \in Local
      BY DEF CreateLocals, Local, Ops, Pcs
    <3> QED BY <2>1, <3>1, Zenon DEF CreateBegin
  <2>2. ASSUME NEW u \in Users, NEW p \in OwnPairs(u)
        PROVE  /\ LevelUpLocals(u, p) \in Local
               /\ FinalizeLocals(u, p) \in Local
               /\ CancelLocals(p) \in Local
    <3>1. p \in 0..MaxPairs /\ pair[p] \in PairRow
      BY BoundsAssumption DEF OwnPairs, TypeOK, Pairs
    <3>2. /\ pair[p].level \in 0..(TargetLevel + 1)
          /\ pair[p].item \in Items \union {None}
          /\ pair[p].slot \in Slots \union {None}
      BY <3>1 DEF PairRow
    <3>3. LevelUpLocals(u, p) \in Local
      <4>1. (IF pair[p].item = None THEN "verifyBuds" ELSE "countItems") \in Pcs
        BY DEF Pcs
      <4>2. "levelUp" \in Ops
        BY DEF Ops
      <4> QED BY <3>1, <3>2, <4>1, <4>2 DEF LevelUpLocals, Local
    <3>4. FinalizeLocals(u, p) \in Local
      BY <3>1, <3>2 DEF FinalizeLocals, Local, Ops, Pcs
    <3>5. CancelLocals(p) \in Local
      BY <3>1, <3>2 DEF CancelLocals, Local, Ops, Pcs
    <3> QED BY <3>3, <3>4, <3>5
  <2>3. CASE LevelUpBegin(r)
    BY <2>2, <2>3, Zenon DEF LevelUpBegin
  <2>4. CASE FinalizeBegin(r)
    BY <2>2, <2>4, Zenon DEF FinalizeBegin
  <2>5. CASE CancelBegin(r)
    BY <2>2, <2>5, Zenon DEF CancelBegin
  <2>6. CASE InvalidateBegin(r)
    <3>1. ASSUME NEW u \in Users, NEW m \in MaleBuds, NEW f \in FemaleBuds
          PROVE  InvalidateLocals(u, m, f) \in Local
      BY DEF InvalidateLocals, Local, Ops, Pcs
    <3> QED BY <2>6, <3>1, Zenon DEF InvalidateBegin
  <2>7. CASE AdminInvalidateBegin(r)
    <3>1. ASSUME NEW u \in Users, NEW b \in Buds PROVE AdminLocals(u, b) \in Local
      <4>1. "findPrevPairs" \in Pcs /\ "adminInvalidate" \in Ops
        BY DEF Pcs, Ops
      <4>2. /\ (IF b \in MaleBuds THEN b ELSE None) \in MaleBuds \union {None}
            /\ (IF b \in FemaleBuds THEN b ELSE None) \in FemaleBuds \union {None}
        OBVIOUS
      <4> QED BY <4>1, <4>2 DEF AdminLocals, Local
    <3> QED BY <2>7, <3>1, Zenon DEF AdminInvalidateBegin
  <2>8. CASE InvalidateSlotsBegin(r)
    <3>1. ASSUME NEW u \in Users, NEW key \in Keys PROVE SlotsLocals(u, key) \in Local
      BY DEF SlotsLocals, SlotsOfKey, Local, Ops, Pcs
    <3> QED BY <2>8, <3>1, Zenon DEF InvalidateSlotsBegin
  <2> QED BY <2>1, <2>3, <2>4, <2>5, <2>6, <2>7, <2>8 DEF Start
<1>2. (req \in [Reqs -> Local])'
  BY <1>1, LocalsType
<1> QED BY <1>2, StartFrame DEF TypeOK, tables, chain

LEMMA PcNames ==
  /\ "countPairs" \in Pcs /\ "findSlot" \in Pcs /\ "upgradeSlot" \in Pcs
  /\ "insertPair" \in Pcs /\ "markUsed" \in Pcs /\ "verifyBuds" \in Pcs
  /\ "checkItem" \in Pcs /\ "readPoints" \in Pcs /\ "writePoints" \in Pcs
  /\ "evaluate" \in Pcs /\ "record" \in Pcs /\ "mkLevel" \in Pcs /\ "mkBuds" \in Pcs
  /\ "bump" \in Pcs /\ "dice" \in Pcs /\ "freeSlot" \in Pcs /\ "settle" \in Pcs
  /\ "findClosed" \in Pcs /\ "openSlot" \in Pcs /\ "mint" \in Pcs /\ "sign" \in Pcs
  /\ "failPairs" \in Pcs /\ "freeSlots" \in Pcs /\ "failOnSlots" \in Pcs
  BY DEF Pcs

\* Steps that only read leave the tables alone and keep the locals typed.
LEMMA ReadType ==
  ASSUME TypeOK, NEW r \in Reqs, RequestInv(r),
         \/ CheckItem(r) \/ CountPairs(r) \/ FindSlot(r) \/ CountItems(r)
         \/ VerifyBuds(r) \/ ReadPoints(r) \/ Evaluate(r) \/ Dice(r)
         \/ FindClosed(r) \/ FindPairs(r) \/ FindPrevPairs(r)
  PROVE  TypeOK'
<1>1. req[r] \in Local
  BY DEF TypeOK
<1>2. (req \in [Reqs -> Local])'
  <2>1. CASE CheckItem(r) \/ CountPairs(r) \/ VerifyBuds(r) \/ Evaluate(r)
    BY <2>1, GotoType, ReplyType, PcNames DEF CheckItem, CountPairs, VerifyBuds, Evaluate
  <2>2. CASE FindSlot(r)
    <3>1. ASSUME NEW s \in Slots, NEW pc \in Pcs
          PROVE  [req[r] EXCEPT !.slot = s, !.pc = pc] \in Local
      BY <1>1 DEF Local
    <3>2. CASE Reply(r)
      BY <3>2, ReplyType
    <3>3. CASE ~Reply(r)
      <4>1. PICK s \in Slots, pc \in {"upgradeSlot", "insertPair"} :
              req' = [req EXCEPT ![r].slot = s, ![r].pc = pc]
        BY <2>2, <3>3 DEF FindSlot, OpenSlots
      <4>2. req' = [req EXCEPT ![r] = [req[r] EXCEPT !.slot = s, !.pc = pc]]
        BY <4>1, <1>1 DEF TypeOK, Local
      <4> QED BY <4>1, <4>2, <3>1, PcNames, LocalsType
    <3> QED BY <3>2, <3>3
  <2>3. CASE CountItems(r) \/ ReadPoints(r)
    <3>1. ASSUME NEW n \in Nat, NEW pc \in Pcs
          PROVE  [req[r] EXCEPT !.seen = n, !.pc = pc] \in Local
      BY <1>1 DEF Local
    <3>2. CASE Reply(r)
      BY <3>2, ReplyType
    <3>3. CASE ~Reply(r) /\ ReadPoints(r)
      <4>1. req[r].user \in Users
        BY <3>3 DEF ReadPoints, At, RequestInv, OpMatchesPc, Charged
      <4>2. points[req[r].user] \in Nat
        BY <4>1 DEF TypeOK
      <4>3. req' = [req EXCEPT ![r] =
                     [req[r] EXCEPT !.seen = points[req[r].user], !.pc = "writePoints"]]
        BY <3>3, <1>1 DEF ReadPoints, TypeOK, Local
      <4> QED BY <4>2, <4>3, <3>1, PcNames, LocalsType
    <3>4. CASE ~Reply(r) /\ CountItems(r)
      <4> DEFINE n == ItemCount(req[r].user, req[r].item)
      <4>1. n \in Nat
        <5>1. IsFiniteSet(Pairs)
          BY BoundsAssumption, FS_Interval DEF Pairs
        <5>2. \A S \in SUBSET Pairs : Cardinality(S) \in Nat
          BY <5>1, FS_Subset, FS_CardinalityType
        <5> QED BY <5>2, Zenon DEF ItemCount
      <4>2. req' = [req EXCEPT ![r] = [req[r] EXCEPT !.seen = n, !.pc = "checkItem"]]
        BY <3>4, <1>1 DEF CountItems, TypeOK, Local
      <4> QED BY <4>1, <4>2, <3>1, PcNames, LocalsType
    <3> QED BY <2>3, <3>2, <3>3, <3>4
  <2>4. CASE Dice(r)
    <3>1. ASSUME NEW w \in BOOLEAN PROVE [req[r] EXCEPT !.won = w, !.pc = "freeSlot"] \in Local
      BY <1>1, PcNames DEF Local
    <3>2. PICK w \in BOOLEAN : req' = [req EXCEPT ![r].won = w, ![r].pc = "freeSlot"]
      BY <2>4 DEF Dice
    <3>3. req' = [req EXCEPT ![r] = [req[r] EXCEPT !.won = w, !.pc = "freeSlot"]]
      BY <3>2, <1>1 DEF TypeOK, Local
    <3> QED BY <3>1, <3>3, LocalsType
  <2>5. CASE FindClosed(r)
    <3>1. ASSUME NEW s \in Slots
          PROVE  [req[r] EXCEPT !.slot = s, !.pc = "openSlot"] \in Local
      BY <1>1, PcNames DEF Local
    <3>2. CASE Goto(r, "mint")
      BY <3>2, GotoType, PcNames
    <3>3. CASE ~Goto(r, "mint")
      <4>1. PICK s \in Slots : req' = [req EXCEPT ![r].slot = s, ![r].pc = "openSlot"]
        BY <2>5, <3>3 DEF FindClosed, ClosedSlots
      <4>2. req' = [req EXCEPT ![r] = [req[r] EXCEPT !.slot = s, !.pc = "openSlot"]]
        BY <4>1, <1>1 DEF TypeOK, Local
      <4> QED BY <4>2, <3>1, LocalsType
    <3> QED BY <3>2, <3>3
  <2>6. CASE FindPairs(r) \/ FindPrevPairs(r)
    <3>1. ASSUME NEW H \in SUBSET Pairs
          PROVE  [req[r] EXCEPT !.hits = H, !.pc = "failPairs"] \in Local
      BY <1>1, PcNames DEF Local
    <3>2. CASE Reply(r)
      BY <3>2, ReplyType
    <3>3. CASE ~Reply(r)
      <4>1. PICK H \in SUBSET Pairs : req' = [req EXCEPT ![r].hits = H, ![r].pc = "failPairs"]
        BY <2>6, <3>3
        DEF FindPairs, FindPrevPairs, ForeignPairs, InBreeding, PairsOfPrevOwner, OwnPairs
      <4>2. req' = [req EXCEPT ![r] = [req[r] EXCEPT !.hits = H, !.pc = "failPairs"]]
        BY <4>1, <1>1 DEF TypeOK, Local
      <4> QED BY <4>2, <3>1, LocalsType
    <3> QED BY <3>2, <3>3
  <2> QED BY <2>1, <2>2, <2>3, <2>4, <2>5, <2>6
<1>3. UNCHANGED <<tables, chain, now>>
  BY DEF CheckItem, CountPairs, FindSlot, CountItems, VerifyBuds, ReadPoints, Evaluate,
         Dice, FindClosed, FindPairs, FindPrevPairs
<1> QED BY <1>2, <1>3 DEF TypeOK, tables, chain

\* The updates of a row keep it typed.
LEMMA SlotRows ==
  ASSUME NEW x \in SlotRow, NEW b \in BOOLEAN
  PROVE  /\ [x EXCEPT !.used = b] \in SlotRow
         /\ [x EXCEPT !.open = b] \in SlotRow
         /\ [x EXCEPT !.indoor = b] \in SlotRow
         /\ [x EXCEPT !.deleted = b] \in SlotRow
  BY DEF SlotRow

LEMMA PairStatusRows ==
  ASSUME NEW x \in PairRow, NEW st \in PairStatus
  PROVE  [x EXCEPT !.status = st] \in PairRow
  BY DEF PairRow

LEMMA PairLevelRows ==
  ASSUME NEW x \in PairRow, NEW n \in 0..(TargetLevel + 1)
  PROVE  [x EXCEPT !.level = n] \in PairRow
  BY DEF PairRow

LEMMA LevelUpdate ==
  ASSUME level \in [Pairs -> [Levels -> LevelRow]], NEW p \in Pairs, NEW k \in Levels,
         NEW x \in LevelRow, level' = [level EXCEPT ![p][k] = x]
  PROVE  level' \in [Pairs -> [Levels -> LevelRow]]
  OBVIOUS

LEMMA LevelBudsRow ==
  ASSUME NEW x \in LevelRow PROVE [x EXCEPT !.buds = TRUE] \in LevelRow
  BY DEF LevelRow

LEMMA LevelBudsFields ==
  ASSUME NEW x \in LevelRow, NEW y, y = [x EXCEPT !.buds = TRUE]
  PROVE  /\ y.exists = x.exists /\ y.created = x.created
         /\ y.buds /\ y.evaluated = x.evaluated
  BY DEF LevelRow

LEMMA LevelRateRow ==
  ASSUME NEW x \in LevelRow, NEW b \in Int
  PROVE  [x EXCEPT !.evaluated = TRUE, !.bonus = b] \in LevelRow
  BY DEF LevelRow

LEMMA LevelRateFields ==
  ASSUME NEW x \in LevelRow, NEW b, NEW y, y = [x EXCEPT !.evaluated = TRUE, !.bonus = b]
  PROVE  /\ y.exists = x.exists /\ y.created = x.created
         /\ y.buds = x.buds /\ y.evaluated
  BY DEF LevelRow

LEMMA Gen1Rows ==
  ASSUME NEW x \in Gen1Row
  PROVE  [x EXCEPT !.issued = @ + 1] \in Gen1Row /\ [x EXCEPT !.signed = @ + 1] \in Gen1Row
<1>1. x.issued + 1 \in Nat /\ x.signed + 1 \in Nat
  BY DEF Gen1Row
<1>2. ASSUME NEW n \in Nat
      PROVE  [x EXCEPT !.issued = n] \in Gen1Row /\ [x EXCEPT !.signed = n] \in Gen1Row
  BY DEF Gen1Row
<1> QED BY <1>1, <1>2

\* Steps that write one table and go on, or reply.
LEMMA WriteType ==
  ASSUME TypeOK, NEW r \in Reqs, RequestInv(r),
         \/ UpgradeSlot(r) \/ InsertPair(r) \/ MarkUsed(r) \/ MkLevel(r) \/ MkBuds(r)
         \/ Bump(r) \/ WritePoints(r) \/ Record(r) \/ FreeSlot(r) \/ Settle(r)
         \/ OpenSlot(r) \/ Mint(r) \/ Sign(r) \/ CancelPair(r) \/ FailPairs(r)
         \/ FreeSlots(r) \/ DeleteSlots(r) \/ FailOnSlots(r)
  PROVE  TypeOK'
<1>1. req[r] \in Local
  BY DEF TypeOK
<1>2. CASE UpgradeSlot(r) \/ MarkUsed(r) \/ FreeSlot(r) \/ OpenSlot(r)
           \/ FreeSlots(r) \/ DeleteSlots(r)
  <2>1. (slot \in [Slots -> SlotRow])'
    <3>1. CASE UpgradeSlot(r)
      BY <3>1, SlotRows DEF UpgradeSlot, TypeOK
    <3>2. CASE MarkUsed(r)
      BY <3>2, SlotRows DEF MarkUsed, TypeOK
    <3>3. CASE FreeSlot(r)
      BY <3>3, SlotRows DEF FreeSlot, TypeOK
    <3>4. CASE OpenSlot(r)
      BY <3>4, SlotRows DEF OpenSlot, TypeOK
    <3>5. CASE FreeSlots(r)
      BY <3>5, SlotRows DEF FreeSlots, TypeOK
    <3>6. CASE DeleteSlots(r)
      BY <3>6, SlotRows DEF DeleteSlots, TypeOK
    <3> QED BY <1>2, <3>1, <3>2, <3>3, <3>4, <3>5, <3>6
  <2>2. (req \in [Reqs -> Local])'
    BY <1>2, GotoType, ReplyType, PcNames
    DEF UpgradeSlot, MarkUsed, FreeSlot, OpenSlot, FreeSlots, DeleteSlots
  <2>3. UNCHANGED <<pair, level, points, gen1, paid, chain, now>>
    BY <1>2 DEF UpgradeSlot, MarkUsed, FreeSlot, OpenSlot, FreeSlots, DeleteSlots
  <2> QED BY <2>1, <2>2, <2>3 DEF TypeOK, chain
<1>3. CASE InsertPair(r)
  <2>1. PICK p \in Pairs :
          /\ pair' = [pair EXCEPT ![p] =
                       [status |-> "PAIRED", user |-> req[r].user, male |-> req[r].male,
                        female |-> req[r].female, item |-> req[r].item,
                        slot |-> req[r].slot, level |-> 0]]
          /\ req' = [req EXCEPT ![r].pair = p, ![r].lvl = 0, ![r].pc = "markUsed"]
    BY <1>3 DEF InsertPair
  <2>2. (pair \in [Pairs -> PairRow])'
    BY <1>1, <2>1, LevelAssumption DEF TypeOK, PairRow, PairStatus, Local
  <2>3. [req[r] EXCEPT !.pair = p, !.lvl = 0, !.pc = "markUsed"] \in Local
    <3>1. p \in 0..MaxPairs /\ 0 \in 0..(TargetLevel + 1)
      BY LevelAssumption, BoundsAssumption DEF Pairs
    <3> QED BY <1>1, <3>1, PcNames DEF Local
  <2>4. req' = [req EXCEPT ![r] = [req[r] EXCEPT !.pair = p, !.lvl = 0, !.pc = "markUsed"]]
    BY <1>1, <2>1 DEF TypeOK, Local
  <2>5. (req \in [Reqs -> Local])'
    BY <2>3, <2>4, LocalsType
  <2> QED BY <1>3, <2>2, <2>5 DEF InsertPair, TypeOK, chain
<1>4. CASE Bump(r) \/ Settle(r) \/ CancelPair(r) \/ FailPairs(r) \/ FailOnSlots(r)
  <2>1. (pair \in [Pairs -> PairRow])'
    <3>1. CASE Bump(r)
      <4>1. req[r].lvl + 1 \in 0..(TargetLevel + 1)
        BY <1>1, <3>1, LevelAssumption
        DEF Bump, At, RequestInv, OpMatchesPc, RightLevel, Local
      <4>2. \A p \in Pairs : [pair[p] EXCEPT !.level = req[r].lvl + 1] \in PairRow
        BY <4>1, PairLevelRows DEF TypeOK
      <4> QED BY <3>1, <4>2 DEF Bump, TypeOK
    <3>2. \A p \in Pairs, st \in PairStatus : [pair[p] EXCEPT !.status = st] \in PairRow
      BY PairStatusRows DEF TypeOK
    <3>3. "FAILED" \in PairStatus /\ "CANCELED" \in PairStatus /\ "COMPLETED" \in PairStatus
      BY DEF PairStatus
    <3>4. CASE Settle(r)
      BY <3>2, <3>3, <3>4 DEF Settle, TypeOK
    <3>5. CASE CancelPair(r)
      BY <3>2, <3>3, <3>5 DEF CancelPair, TypeOK
    <3>6. CASE FailPairs(r)
      BY <3>2, <3>3, <3>6 DEF FailPairs, TypeOK
    <3>7. CASE FailOnSlots(r)
      BY <3>2, <3>3, <3>7 DEF FailOnSlots, TypeOK
    <3> QED BY <1>4, <3>1, <3>4, <3>5, <3>6, <3>7
  <2>2. (req \in [Reqs -> Local])'
    BY <1>4, GotoType, ReplyType, PcNames DEF Bump, Settle, CancelPair, FailPairs, FailOnSlots
  <2>3. UNCHANGED <<level, slot, points, gen1, paid, chain, now>>
    BY <1>4 DEF Bump, Settle, CancelPair, FailPairs, FailOnSlots
  <2> QED BY <2>1, <2>2, <2>3 DEF TypeOK, chain
<1>5. CASE MkLevel(r) \/ MkBuds(r) \/ Record(r)
  <2>1. (level \in [Pairs -> [Levels -> LevelRow]])'
    <3> DEFINE p == req[r].pair
               k == req[r].lvl
    <3>1. CASE MkLevel(r)
      <4>1. p \in Pairs /\ k + 1 \in Levels
        BY <1>1, <3>1, LevelAssumption DEF MkLevel, At, RequestInv, KnowsPair, RightLevel, Local, Levels
      <4> DEFINE row == [exists |-> TRUE, buds |-> FALSE, evaluated |-> FALSE,
                         bonus |-> 0, created |-> now]
      <4>2. row \in LevelRow
        BY DEF LevelRow, TypeOK
      <4>3. level' = level \/ level' = [level EXCEPT ![p][k + 1] = row]
        BY <3>1 DEF MkLevel
      <4> HIDE DEF p, k, row
      <4> QED BY <4>1, <4>2, <4>3, LevelUpdate DEF TypeOK
    <3>2. CASE MkBuds(r)
      <4>1. p \in Pairs /\ k + 1 \in Levels
        BY <1>1, <3>2, LevelAssumption DEF MkBuds, At, RequestInv, KnowsPair, RightLevel, Local, Levels
      <4>2. level' = [level EXCEPT ![p][k + 1] = [level[p][k + 1] EXCEPT !.buds = TRUE]]
        BY <3>2 DEF MkBuds
      <4>3. [level[p][k + 1] EXCEPT !.buds = TRUE] \in LevelRow
        BY <4>1, LevelBudsRow DEF TypeOK
      <4> HIDE DEF p, k
      <4> QED BY <4>1, <4>2, <4>3, LevelUpdate DEF TypeOK
    <3>3. CASE Record(r)
      <4>1. p \in Pairs /\ k \in Levels
        BY <1>1, <3>3
        DEF Record, At, RequestInv, OpMatchesPc, KnowsPair, Evaluated
      <4>2. \A b \in Bonuses : [level[p][k] EXCEPT !.evaluated = TRUE, !.bonus = b] \in LevelRow
        BY <4>1, BonusesAssumption, LevelRateRow DEF TypeOK
      <4>3. level' = level
            \/ \E b \in Bonuses :
                 level' = [level EXCEPT ![p][k] =
                            [level[p][k] EXCEPT !.evaluated = TRUE, !.bonus = b]]
        BY <3>3 DEF Record
      <4> HIDE DEF p, k
      <4> QED BY <4>1, <4>2, <4>3, LevelUpdate DEF TypeOK
    <3> QED BY <1>5, <3>1, <3>2, <3>3
  <2>2. AfterRecord(r) \in Pcs
    BY PcNames DEF AfterRecord
  <2>3. (req \in [Reqs -> Local])'
    BY <1>5, <2>2, GotoType, ReplyType, PcNames DEF MkLevel, MkBuds, Record
  <2>4. UNCHANGED <<pair, slot, points, gen1, paid, chain, now>>
    BY <1>5 DEF MkLevel, MkBuds, Record
  <2> QED BY <2>1, <2>3, <2>4 DEF TypeOK, chain
<1>6. CASE WritePoints(r)
  <2>1. /\ req[r].seen - LevelPrice \in Nat
        /\ req[r].lvl \in 0..TargetLevel
    BY <1>1, <1>6, LevelAssumption, PointsAssumption
    DEF WritePoints, At, RequestInv, OpMatchesPc, RightLevel, Charged, EnoughPoints, Local
  <2>2. (points \in [Users -> Nat])' /\ (paid \in [Pairs -> SUBSET (0..TargetLevel)])'
    BY <1>6, <2>1 DEF WritePoints, TypeOK
  <2>3. (req \in [Reqs -> Local])'
    BY <1>6, GotoType, PcNames DEF WritePoints
  <2> QED BY <1>6, <2>2, <2>3 DEF WritePoints, TypeOK, chain
<1>7. CASE Mint(r) \/ Sign(r)
  <2>1. (gen1 \in [Pairs -> Gen1Row])'
    <3>1. CASE Mint(r)
      BY <3>1, Gen1Rows DEF Mint, TypeOK
    <3>2. CASE Sign(r)
      BY <3>2, Gen1Rows DEF Sign, TypeOK
    <3> QED BY <1>7, <3>1, <3>2
  <2>2. (req \in [Reqs -> Local])'
    BY <1>7, GotoType, ReplyType, PcNames DEF Mint, Sign
  <2> QED BY <1>7, <2>1, <2>2 DEF Mint, Sign, TypeOK, chain
<1> QED BY <1>2, <1>3, <1>4, <1>5, <1>6, <1>7

\* What only the environment or a failure does.
Outside ==
  Tick \/ TransferBud \/ TransferItem \/ UNCHANGED vars

LEMMA OutsideType == ASSUME TypeOK, Outside PROVE TypeOK'
<1>1. CASE Tick
  BY <1>1 DEF Tick, TypeOK, tables, chain
<1>2. CASE TransferBud
  BY <1>2 DEF TransferBud, TypeOK, tables
<1>3. CASE TransferItem
  <2>1. (balance \in [Users -> [Items -> Nat]])'
    <3>1. PICK u \in Users, v \in Users, i \in Items :
            /\ u # v /\ balance[u][i] > 0
            /\ balance' = [balance EXCEPT ![u][i] = @ - 1, ![v][i] = @ + 1]
      BY <1>3 DEF TransferItem
    <3>2. /\ balance \in [Users -> [Items -> Nat]]
          /\ balance[u][i] - 1 \in Nat /\ balance[v][i] + 1 \in Nat
      BY <3>1 DEF TypeOK
    <3>3. [balance EXCEPT ![u] = [@ EXCEPT ![i] = @ - 1]][v] = balance[v]
      BY <3>1, <3>2
    <3> QED BY <3>1, <3>2, <3>3
  <2> QED BY <1>3, <2>1 DEF TransferItem, TypeOK, tables
<1>4. CASE UNCHANGED vars
  BY <1>4 DEF vars, TypeOK
<1> QED BY <1>1, <1>2, <1>3, <1>4 DEF Outside

\* A step is one of a request, or of the environment.
LEMMA NextCases ==
  ASSUME [Next]_vars
  PROVE  Outside \/ \E r \in Reqs : Start(r) \/ Continue(r) \/ Abort(r)
  BY DEF Next, Outside, Refuse

LEMMA TypeStep ==
  ASSUME TypeOK, \A r \in Reqs : RequestInv(r), [Next]_vars PROVE TypeOK'
<1>1. CASE Outside
  BY <1>1, OutsideType
<1>2. ASSUME NEW r \in Reqs, Start(r) PROVE TypeOK'
  BY <1>2, StartType
<1>3. ASSUME NEW r \in Reqs, Continue(r) PROVE TypeOK'
  BY <1>3, ReadType, WriteType DEF Continue
<1>4. ASSUME NEW r \in Reqs, Abort(r) PROVE TypeOK'
  BY <1>4, ReplyType DEF Abort, TypeOK, tables, chain
<1> QED BY <1>1, <1>2, <1>3, <1>4, NextCases

-----------------------------------------------------------------------------
(* How a step changes pairs and levels *)

\* Nothing a request may have seen of a pair is taken back: rows stay, their
\* creation time stands, evaluations and payments stay, currentLevel climbs.
Grows ==
  /\ \A p \in Pairs :
       /\ pair'[p].level \in {pair[p].level, pair[p].level + 1}
       /\ paid[p] \subseteq paid'[p]
       /\ pair[p].status # "NONE" =>
            pair'[p].status # "NONE" /\ pair'[p].item = pair[p].item
       /\ \A k \in Levels :
            level[p][k].exists =>
              /\ level'[p][k].exists
              /\ level'[p][k].created = level[p][k].created
              /\ level[p][k].buds => level'[p][k].buds
              /\ level[p][k].evaluated => level'[p][k].evaluated
  /\ now <= now'

\* A step that touches neither table nor the clock.
LEMMA GrowsSame ==
  ASSUME TypeOK, UNCHANGED <<pair, level, paid, now>> PROVE Grows
  BY DEF Grows, TypeOK

\* A step that only writes pairs, or only writes levels.
LEMMA GrowsPair ==
  ASSUME TypeOK, UNCHANGED <<level, paid, now>>,
         \A p \in Pairs :
           /\ pair'[p].level \in {pair[p].level, pair[p].level + 1}
           /\ pair[p].status # "NONE" =>
                pair'[p].status # "NONE" /\ pair'[p].item = pair[p].item
  PROVE  Grows
  BY DEF Grows, TypeOK

LEMMA GrowsLevel ==
  ASSUME TypeOK, UNCHANGED <<pair, paid, now>>,
         \A p \in Pairs : \A k \in Levels :
           level[p][k].exists =>
             /\ level'[p][k].exists
             /\ level'[p][k].created = level[p][k].created
             /\ level[p][k].buds => level'[p][k].buds
             /\ level[p][k].evaluated => level'[p][k].evaluated
  PROVE  Grows
  BY DEF Grows, TypeOK

\* A new pair takes a row that was empty; a new status leaves the rest of a row.
LEMMA InsertWrites ==
  ASSUME TypeOK, \A p \in Pairs : Unborn(p), NEW r \in Reqs, InsertPair(r)
  PROVE  /\ \A p \in Pairs :
              /\ pair'[p].level = pair[p].level
              /\ pair[p].status # "NONE" => pair'[p] = pair[p]
         /\ UNCHANGED <<level, paid, now>>
<1>1. PICK p \in Pairs : NextId(p)
        /\ pair' = [pair EXCEPT ![p] =
                     [status |-> "PAIRED", user |-> req[r].user, male |-> req[r].male,
                      female |-> req[r].female, item |-> req[r].item,
                      slot |-> req[r].slot, level |-> 0]]
  BY DEF InsertPair
<1>2. pair[p].status = "NONE" /\ pair[p].level = 0
  BY <1>1 DEF NextId, Unborn
<1>3. pair'[p].level = 0
  BY <1>1 DEF TypeOK
<1>4. \A q \in Pairs : q # p => pair'[q] = pair[q]
  BY <1>1 DEF TypeOK
<1>5. UNCHANGED <<level, paid, now>>
  BY DEF InsertPair
<1> QED BY <1>2, <1>3, <1>4, <1>5

LEMMA StatusWrites ==
  ASSUME TypeOK, NEW r \in Reqs,
         Settle(r) \/ CancelPair(r) \/ FailPairs(r) \/ FailOnSlots(r)
  PROVE  /\ \A p \in Pairs :
              /\ pair'[p].level = pair[p].level /\ pair'[p].item = pair[p].item
              /\ pair[p].status # "NONE" => pair'[p].status # "NONE"
         /\ UNCHANGED <<level, paid, now>>
<1>1. ASSUME NEW p \in Pairs
      PROVE  pair'[p] = pair[p]
             \/ \E st \in PairStatus \ {"NONE"} : pair'[p] = [pair[p] EXCEPT !.status = st]
  <2>1. {"COMPLETED", "FAILED", "CANCELED"} \subseteq PairStatus \ {"NONE"}
    BY DEF PairStatus
  <2>2. CASE Settle(r)
    BY <2>1, <2>2 DEF Settle, TypeOK
  <2>3. CASE CancelPair(r)
    BY <2>1, <2>3 DEF CancelPair, TypeOK
  <2>4. CASE FailPairs(r)
    BY <2>1, <2>4 DEF FailPairs, TypeOK
  <2>5. CASE FailOnSlots(r)
    BY <2>1, <2>5 DEF FailOnSlots, TypeOK
  <2> QED BY <2>2, <2>3, <2>4, <2>5
<1>2. \A p \in Pairs : pair'[p].level = pair[p].level /\ pair'[p].item = pair[p].item
  BY <1>1 DEF TypeOK, PairRow
<1>3. \A p \in Pairs : pair[p].status # "NONE" => pair'[p].status # "NONE"
  BY <1>1 DEF TypeOK, PairRow
<1>4. UNCHANGED <<level, paid, now>>
  BY DEF Settle, CancelPair, FailPairs, FailOnSlots
<1> QED BY <1>2, <1>3, <1>4

\* currentLevel is set to what it is, or to one more.
LEMMA BumpLevel ==
  ASSUME BreedingInv, NEW r \in Reqs, Bump(r)
  PROVE  /\ req[r].pair \in Pairs
         /\ req[r].lvl + 1 \in {pair[req[r].pair].level, pair[req[r].pair].level + 1}
<1>1. req[r] \in Local /\ RequestInv(r) /\ req[r].pc = "bump"
  BY DEF BreedingInv, TypeOK, Bump, At
<1>2. /\ req[r].pair \in Pairs
      /\ req[r].lvl <= pair[req[r].pair].level
      /\ req[r].lvl \in 0..TargetLevel
  BY <1>1, LevelAssumption DEF RequestInv, KnowsPair, RightLevel, OpMatchesPc, Local
<1>3. pair[req[r].pair].level \in 0..(TargetLevel + 1)
  BY <1>2 DEF BreedingInv, TypeOK, PairRow
<1>4. CASE req[r].lvl < TargetLevel
  BY <1>1, <1>2, <1>3, <1>4 DEF RequestInv, BuildsNext, Building
<1>5. CASE req[r].lvl = TargetLevel
  BY <1>2, <1>3, <1>5, LevelAssumption
<1> QED BY <1>2, <1>4, <1>5, LevelAssumption

LEMMA GrowsStep ==
  ASSUME BreedingInv, [Next]_vars PROVE Grows
<1> TypeOK /\ (\A p \in Pairs : Unborn(p))
  BY DEF BreedingInv
<1>1. CASE Outside
  BY <1>1, GrowsSame DEF Outside, Tick, TransferBud, TransferItem, tables, vars, Grows, TypeOK
<1>2. ASSUME NEW r \in Reqs, Start(r) \/ Abort(r) PROVE Grows
  BY <1>2, StartFrame, GrowsSame DEF Abort, tables
<1>3. ASSUME NEW r \in Reqs, Continue(r) PROVE Grows
  <2>1. CASE \/ CheckItem(r) \/ CountPairs(r) \/ FindSlot(r) \/ CountItems(r)
             \/ VerifyBuds(r) \/ ReadPoints(r) \/ Evaluate(r) \/ Dice(r)
             \/ FindClosed(r) \/ FindPairs(r) \/ FindPrevPairs(r)
    BY <2>1, GrowsSame
    DEF CheckItem, CountPairs, FindSlot, CountItems, VerifyBuds, ReadPoints, Evaluate,
        Dice, FindClosed, FindPairs, FindPrevPairs, tables
  <2>2. CASE \/ UpgradeSlot(r) \/ MarkUsed(r) \/ FreeSlot(r) \/ OpenSlot(r)
             \/ FreeSlots(r) \/ DeleteSlots(r) \/ Mint(r) \/ Sign(r)
    BY <2>2, GrowsSame
    DEF UpgradeSlot, MarkUsed, FreeSlot, OpenSlot, FreeSlots, DeleteSlots, Mint, Sign
  <2>3. CASE InsertPair(r)
    BY <2>3, InsertWrites, GrowsPair DEF InsertPair
  <2>4. CASE Settle(r) \/ CancelPair(r) \/ FailPairs(r) \/ FailOnSlots(r)
    BY <2>4, StatusWrites, GrowsPair
  <2>5. CASE Bump(r)
    <3> DEFINE n == req[r].lvl + 1
    <3>1. pair' = [pair EXCEPT ![req[r].pair] = [pair[req[r].pair] EXCEPT !.level = n]]
      BY <2>5 DEF Bump
    <3>2. n \in {pair[req[r].pair].level, pair[req[r].pair].level + 1}
      BY <2>5, BumpLevel
    <3> HIDE DEF n
    <3>3. \A p \in Pairs :
            \/ pair'[p] = pair[p]
            \/ p = req[r].pair /\ pair'[p] = [pair[p] EXCEPT !.level = n]
      BY <3>1 DEF TypeOK
    <3>4. \A p \in Pairs : pair[p] \in PairRow
      BY DEF TypeOK
    <3>5. \A p \in Pairs :
            /\ pair'[p].level \in {pair[p].level, pair[p].level + 1}
            /\ pair'[p].status = pair[p].status
            /\ pair'[p].item = pair[p].item
      BY <3>2, <3>3, <3>4 DEF PairRow
    <3> QED BY <2>5, <3>5, GrowsPair DEF Bump
  <2>6. CASE MkLevel(r)
    <3>1. CASE UNCHANGED level
      BY <2>6, <3>1, GrowsSame DEF MkLevel
    <3>2. CASE ~UNCHANGED level
      <4> DEFINE p == req[r].pair
                 k == req[r].lvl + 1
      <4>1. /\ ~level[p][k].exists
            /\ level' = [level EXCEPT ![p][k] =
                          [exists |-> TRUE, buds |-> FALSE, evaluated |-> FALSE,
                           bonus |-> 0, created |-> now]]
        BY <2>6, <3>2 DEF MkLevel, KeyTaken
      <4>2. \A q \in Pairs : \A j \in Levels :
              q # p \/ j # k => level'[q][j] = level[q][j]
        BY <4>1 DEF TypeOK
      <4> HIDE DEF p, k
      <4> QED BY <2>6, <4>1, <4>2, GrowsLevel DEF MkLevel
    <3> QED BY <3>1, <3>2
  <2>7. CASE MkBuds(r)
    <3> DEFINE p == req[r].pair
               k == req[r].lvl + 1
    <3>1. level' = [level EXCEPT ![p][k] = [level[p][k] EXCEPT !.buds = TRUE]]
      BY <2>7 DEF MkBuds
    <3> HIDE DEF p, k
    <3>2. \A q \in Pairs : \A j \in Levels :
            level'[q][j] = level[q][j] \/ level'[q][j] = [level[q][j] EXCEPT !.buds = TRUE]
      BY <3>1 DEF TypeOK
    <3>3. \A q \in Pairs : \A j \in Levels : level[q][j] \in LevelRow
      BY DEF TypeOK
    <3>4. ASSUME NEW q \in Pairs, NEW j \in Levels
          PROVE  /\ level'[q][j].exists = level[q][j].exists
                 /\ level'[q][j].created = level[q][j].created
                 /\ level[q][j].buds => level'[q][j].buds
                 /\ level'[q][j].evaluated = level[q][j].evaluated
      BY <3>2, <3>3, LevelBudsFields
    <3>5. UNCHANGED <<pair, paid, now>>
      BY <2>7 DEF MkBuds
    <3> QED BY <3>4, <3>5, GrowsLevel
  <2>8. CASE Record(r)
    <3> DEFINE p == req[r].pair
               k == req[r].lvl
    <3>1. CASE UNCHANGED level
      BY <2>8, <3>1, GrowsSame DEF Record
    <3>2. CASE ~UNCHANGED level
      <4>1. PICK b \in Bonuses :
              level' = [level EXCEPT ![p][k] =
                         [level[p][k] EXCEPT !.evaluated = TRUE, !.bonus = b]]
        BY <2>8, <3>2 DEF Record
      <4> HIDE DEF p, k
      <4>2. \A q \in Pairs : \A j \in Levels :
              \/ level'[q][j] = level[q][j]
              \/ level'[q][j] = [level[q][j] EXCEPT !.evaluated = TRUE, !.bonus = b]
        BY <4>1 DEF TypeOK
      <4>3. \A q \in Pairs : \A j \in Levels : level[q][j] \in LevelRow
        BY DEF TypeOK
      <4>4. ASSUME NEW q \in Pairs, NEW j \in Levels
            PROVE  /\ level'[q][j].exists = level[q][j].exists
                   /\ level'[q][j].created = level[q][j].created
                   /\ level'[q][j].buds = level[q][j].buds
                   /\ level[q][j].evaluated => level'[q][j].evaluated
        <5>1. CASE level'[q][j] = level[q][j]
          BY <5>1
        <5>2. CASE level'[q][j] = [level[q][j] EXCEPT !.evaluated = TRUE, !.bonus = b]
          <6> DEFINE x == level[q][j]
                     y == level'[q][j]
          <6>1. x \in LevelRow /\ y = [x EXCEPT !.evaluated = TRUE, !.bonus = b]
            BY <4>3, <5>2
          <6> HIDE DEF x, y
          <6>2. /\ y.exists = x.exists /\ y.created = x.created
                /\ y.buds = x.buds /\ y.evaluated
            BY <6>1, LevelRateFields
          <6> QED BY <6>2 DEF x, y
        <5> QED BY <4>2, <5>1, <5>2
      <4>5. UNCHANGED <<pair, paid, now>>
        BY <2>8 DEF Record
      <4> QED BY <4>4, <4>5, GrowsLevel
    <3> QED BY <3>1, <3>2
  <2>9. CASE WritePoints(r)
    BY <2>9 DEF WritePoints, Grows, TypeOK
  <2> QED BY <1>3, <2>1, <2>2, <2>3, <2>4, <2>5, <2>6, <2>7, <2>8, <2>9 DEF Continue
<1> QED BY <1>1, <1>2, <1>3, NextCases

-----------------------------------------------------------------------------
(* What a request knows stays true *)

\* What RequestInv says of the tables, of the tables after the step.
StillTrue(r) ==
  LET p  == req[r].pair
      k  == req[r].lvl
      op == req[r].op
      pc == req[r].pc
  IN
  /\ op \in {"levelUp", "finalize", "cancel"} \/ pc \in {"markUsed", "mkLevel", "mkBuds", "bump"}
       => p \in Pairs /\ pair'[p].status # "NONE" /\ k <= pair'[p].level
  /\ op \in {"levelUp", "finalize"} => req[r].item = pair'[p].item
  /\ op = "levelUp" /\ pc \in {"evaluate", "record", "mkLevel", "mkBuds", "bump"}
       => k \in paid'[p]
  /\ pc = "record" =>
       /\ k \in Levels /\ level'[p][k].exists
       /\ now' - level'[p][k].created >= GetBreedTime(pair'[p].item)
  /\ (op = "finalize" /\ pc \in PastRecord)
     \/ (op = "levelUp" /\ pc \in {"mkLevel", "mkBuds", "bump"})
       => k \in Levels /\ level'[p][k].evaluated

\* An evaluated level exists: evaluations are of rows that are there.
LEMMA EvaluatedExists ==
  ASSUME BreedingInv, NEW p \in Pairs, NEW k \in Levels, level[p][k].evaluated
  PROVE  level[p][k].exists /\ pair[p].status # "NONE"
  BY DEF BreedingInv, EvaluatedInTime, Unborn

LEMMA StillTrueStep ==
  ASSUME BreedingInv, TypeOK', Grows, NEW r \in Reqs PROVE StillTrue(r)
<1> DEFINE p  == req[r].pair
           k  == req[r].lvl
           op == req[r].op
           pc == req[r].pc
<1>0. TypeOK /\ RequestInv(r) /\ req[r] \in Local
  BY DEF BreedingInv, TypeOK
<1>1. op \in {"levelUp", "finalize", "cancel"} \/ pc \in {"markUsed", "mkLevel", "mkBuds", "bump"}
        => /\ p \in Pairs /\ pair[p].status # "NONE"
           /\ pair'[p].status # "NONE" /\ pair'[p].item = pair[p].item
           /\ k <= pair'[p].level
  <2>1. SUFFICES ASSUME op \in {"levelUp", "finalize", "cancel"}
                        \/ pc \in {"markUsed", "mkLevel", "mkBuds", "bump"}
                 PROVE  /\ p \in Pairs /\ pair[p].status # "NONE"
                        /\ pair'[p].status # "NONE" /\ pair'[p].item = pair[p].item
                        /\ k <= pair'[p].level
    OBVIOUS
  <2>2. p \in Pairs /\ pair[p].status # "NONE" /\ k <= pair[p].level
    BY <1>0, <2>1 DEF RequestInv, KnowsPair
  <2>3. k \in Nat /\ pair[p].level \in Nat
    BY <1>0, <2>2, LevelAssumption DEF Local, TypeOK, PairRow
  <2> HIDE DEF p, k
  <2> QED BY <2>2, <2>3 DEF Grows
<1>2. op \in {"levelUp", "finalize"} => req[r].item = pair'[p].item
  BY <1>0, <1>1 DEF RequestInv, RightLevel
<1>3. op = "levelUp" /\ pc \in {"evaluate", "record", "mkLevel", "mkBuds", "bump"}
        => k \in paid'[p]
  BY <1>0, <1>1 DEF RequestInv, Charged, Grows
<1>4. pc = "record" =>
        /\ k \in Levels /\ level'[p][k].exists
        /\ now' - level'[p][k].created >= GetBreedTime(pair'[p].item)
  <2>1. SUFFICES ASSUME pc = "record"
                 PROVE  /\ k \in Levels /\ level'[p][k].exists
                        /\ now' - level'[p][k].created >= GetBreedTime(pair'[p].item)
    OBVIOUS
  <2>2. /\ k \in Levels /\ level[p][k].exists
        /\ now - level[p][k].created >= GetBreedTime(pair[p].item)
    BY <1>0, <2>1 DEF RequestInv, Evaluated, BreedTimeElapsed
  <2>3. p \in Pairs /\ pair'[p].item = pair[p].item
    BY <1>0, <1>1, <2>1 DEF RequestInv, OpMatchesPc
  <2>4. level'[p][k].exists /\ level'[p][k].created = level[p][k].created /\ now <= now'
    BY <2>2, <2>3 DEF Grows
  <2>5. now \in Nat /\ now' \in Nat /\ level[p][k].created \in Nat
    BY <1>0, <2>2, <2>3 DEF TypeOK, LevelRow
  <2>6. GetBreedTime(pair[p].item) \in Nat
    BY BreedTimeType
  <2> HIDE DEF p, k
  <2> QED BY <2>2, <2>3, <2>4, <2>5, <2>6
<1>5. (op = "finalize" /\ pc \in PastRecord)
      \/ (op = "levelUp" /\ pc \in {"mkLevel", "mkBuds", "bump"})
        => k \in Levels /\ level'[p][k].evaluated
  <2>1. SUFFICES ASSUME \/ op = "finalize" /\ pc \in PastRecord
                        \/ op = "levelUp" /\ pc \in {"mkLevel", "mkBuds", "bump"}
                 PROVE  k \in Levels /\ level'[p][k].evaluated
    OBVIOUS
  <2>2. k \in Levels /\ level[p][k].evaluated
    BY <1>0, <2>1 DEF RequestInv, Evaluated
  <2>3. p \in Pairs
    BY <1>1, <2>1
  <2>4. level[p][k].exists
    BY <2>2, <2>3, EvaluatedExists
  <2> QED BY <2>2, <2>3, <2>4 DEF Grows
<1> QED BY <1>1, <1>2, <1>3, <1>4, <1>5 DEF StillTrue

\* A request whose locals a step leaves alone.
LEMMA OtherInv ==
  ASSUME NEW r \in Reqs, RequestInv(r), StillTrue(r), BuildsNext(r)', req'[r] = req[r]
  PROVE  RequestInv(r)'
<1>1. OpMatchesPc(r)'
  BY DEF RequestInv, OpMatchesPc
<1>2. KnowsPair(r)'
  BY DEF StillTrue, KnowsPair
<1>3. RightLevel(r)'
  BY DEF RequestInv, StillTrue, RightLevel
<1>4. Charged(r)'
  BY DEF RequestInv, StillTrue, Charged, EnoughPoints
<1>5. Evaluated(r)'
  BY DEF StillTrue, Evaluated, BreedTimeElapsed, GetBreedTime
<1> QED BY <1>1, <1>2, <1>3, <1>4, <1>5 DEF RequestInv

\* Only the update in startBreedLevel moves currentLevel, and from the level the
\* request knows.
LEMMA LevelMoves ==
  ASSUME BreedingInv, [Next]_vars, NEW p \in Pairs, pair'[p].level # pair[p].level
  PROVE  \E r \in Reqs : Bump(r) /\ req[r].pair = p /\ req[r].lvl = pair[p].level
<1> TypeOK /\ (\A q \in Pairs : Unborn(q))
  BY DEF BreedingInv
<1>1. CASE Outside
  BY <1>1 DEF Outside, Tick, TransferBud, TransferItem, tables, vars
<1>2. ASSUME NEW r \in Reqs, Start(r) \/ Abort(r) PROVE FALSE
  BY <1>2, StartFrame DEF Abort, tables
<1>3. ASSUME NEW r \in Reqs, Continue(r)
      PROVE  Bump(r) /\ req[r].pair = p /\ req[r].lvl = pair[p].level
  <2>1. CASE InsertPair(r)
    BY <2>1, InsertWrites
  <2>2. CASE Settle(r) \/ CancelPair(r) \/ FailPairs(r) \/ FailOnSlots(r)
    BY <2>2, StatusWrites
  <2>3. CASE Bump(r)
    <3>1. req[r].pair \in Pairs /\ req[r].lvl \in Nat
      BY <2>3, BumpLevel, LevelAssumption DEF TypeOK, Local
    <3>2. /\ req[r].lvl + 1 \in {pair[req[r].pair].level, pair[req[r].pair].level + 1}
          /\ pair[req[r].pair].level \in Nat
      <4>1. pair[req[r].pair] \in PairRow
        BY <3>1 DEF TypeOK
      <4>2. pair[req[r].pair].level \in Nat
        BY <4>1, LevelAssumption DEF PairRow
      <4> QED BY <2>3, <4>2, BumpLevel
    <3> DEFINE n == req[r].lvl + 1
               b == req[r].pair
    <3>3. b \in Pairs /\ pair' = [pair EXCEPT ![b] = [pair[b] EXCEPT !.level = n]]
      BY <2>3, <3>1 DEF Bump
    <3> HIDE DEF n, b
    <3>4. p = b
      BY <3>3 DEF TypeOK
    <3>5. pair'[p].level = n
      <4>1. pair'[p] = [pair[p] EXCEPT !.level = n]
        BY <3>3, <3>4 DEF TypeOK
      <4>2. pair[p] \in PairRow
        BY DEF TypeOK
      <4> QED BY <4>1, <4>2 DEF PairRow
    <3>6. p = req[r].pair /\ pair'[p].level = req[r].lvl + 1
      BY <3>4, <3>5 DEF n, b
    <3> QED BY <2>3, <3>1, <3>2, <3>6
  <2>4. CASE \/ CheckItem(r) \/ CountPairs(r) \/ FindSlot(r) \/ CountItems(r)
             \/ VerifyBuds(r) \/ ReadPoints(r) \/ Evaluate(r) \/ Dice(r)
             \/ FindClosed(r) \/ FindPairs(r) \/ FindPrevPairs(r)
    BY <2>4
    DEF CheckItem, CountPairs, FindSlot, CountItems, VerifyBuds, ReadPoints, Evaluate,
        Dice, FindClosed, FindPairs, FindPrevPairs, tables
  <2>5. CASE \/ UpgradeSlot(r) \/ MarkUsed(r) \/ FreeSlot(r) \/ OpenSlot(r)
             \/ FreeSlots(r) \/ DeleteSlots(r) \/ Mint(r) \/ Sign(r)
             \/ MkLevel(r) \/ MkBuds(r) \/ Record(r) \/ WritePoints(r)
    BY <2>5
    DEF UpgradeSlot, MarkUsed, FreeSlot, OpenSlot, FreeSlots, DeleteSlots, Mint, Sign,
        MkLevel, MkBuds, Record, WritePoints
  <2> QED BY <1>3, <2>1, <2>2, <2>3, <2>4, <2>5 DEF Continue
<1> QED BY <1>1, <1>2, <1>3, NextCases

\* While a request builds the next level, no other request moves currentLevel.
LEMMA OtherBuilds ==
  ASSUME BreedingInv, TypeOK', [Next]_vars, NEW q \in Reqs, req'[q] = req[q]
  PROVE  BuildsNext(q)'
<1> DEFINE p == req[q].pair
           k == req[q].lvl
<1>1. TypeOK /\ RequestInv(q) /\ OneBuilder /\ Grows
  BY GrowsStep DEF BreedingInv
<1>2. SUFFICES ASSUME Building(q)
               PROVE  /\ level'[p][k + 1].exists
                      /\ pair'[p].level = k
                      /\ req[q].pc = "bump" => level'[p][k + 1].buds
  BY DEF BuildsNext, Building
<1>3. /\ p \in Pairs
      /\ level[p][k + 1].exists /\ pair[p].level = k
      /\ req[q].pc = "bump" => level[p][k + 1].buds
  BY <1>1, <1>2 DEF RequestInv, KnowsPair, BuildsNext, Building
<1>4. k + 1 \in Levels
  BY <1>1, <1>2, LevelAssumption DEF Building, TypeOK, Local, Levels
<1>5. pair'[p].level = k
  <2>1. SUFFICES ASSUME pair'[p].level # pair[p].level PROVE FALSE
    BY <1>3
  <2>2. PICK r \in Reqs : Bump(r) /\ req[r].pair = p /\ req[r].lvl = k
    BY <1>3, <2>1, LevelMoves
  <2>3. req[r].pc = "bump" /\ req'[r].pc = "idle"
    BY <1>1, <2>2 DEF Bump, At, Reply, TypeOK, Idle
  <2>4. r # q
    BY <2>3
  <2>5. Building(r)
    BY <1>2, <2>2, <2>3 DEF Building
  <2> QED BY <1>1, <1>2, <2>2, <2>4, <2>5 DEF OneBuilder
<1>6. level'[p][k + 1].exists /\ (level[p][k + 1].buds => level'[p][k + 1].buds)
  BY <1>1, <1>3, <1>4 DEF Grows
<1> QED BY <1>3, <1>5, <1>6

-----------------------------------------------------------------------------
(* What the acting request knows after its step *)

\* A request that has been answered knows nothing.
LEMMA IdleInv ==
  ASSUME NEW r \in Reqs, req'[r] = Idle PROVE RequestInv(r)'
<1>1. req'[r].op = "none" /\ req'[r].pc = "idle"
  BY DEF Idle
<1> QED BY <1>1
  DEF RequestInv, OpMatchesPc, KnowsPair, RightLevel, Charged, Evaluated, BuildsNext,
      Building, PastRecord

LEMMA ReplyFields == ASSUME TypeOK, NEW r \in Reqs, Reply(r) PROVE req'[r] = Idle
  BY DEF TypeOK, Reply

\* Going on to another await keeps the locals.
SameWork(r) ==
  /\ req'[r].op = req[r].op /\ req'[r].pair = req[r].pair /\ req'[r].lvl = req[r].lvl
  /\ req'[r].user = req[r].user /\ req'[r].item = req[r].item

LEMMA GotoFields ==
  ASSUME TypeOK, NEW r \in Reqs, NEW pc, Goto(r, pc)
  PROVE  SameWork(r) /\ req'[r].pc = pc /\ req'[r].seen = req[r].seen
<1>1. req'[r] = [req[r] EXCEPT !.pc = pc] /\ req[r] \in Local
  BY DEF Goto, TypeOK
<1> QED BY <1>1 DEF SameWork, Local

\* createPair before its insert has only inputs.
LEMMA CreateEarly ==
  ASSUME NEW r \in Reqs, req'[r].op = "createPair", req'[r].lvl = 0,
         req'[r].pc \in {"checkItem", "countPairs", "findSlot", "upgradeSlot", "insertPair"}
  PROVE  RequestInv(r)'
  BY DEF RequestInv, OpMatchesPc, KnowsPair, RightLevel, Charged, Evaluated, BuildsNext,
         Building, PastRecord

\* createPair after its insert knows its pair.
LEMMA CreateLate ==
  ASSUME NEW r \in Reqs, req'[r].op = "createPair", req'[r].lvl = 0,
         req'[r].pc \in {"markUsed", "mkLevel"},
         req'[r].pair \in Pairs, pair'[req'[r].pair].status # "NONE",
         pair'[req'[r].pair].level \in Nat
  PROVE  RequestInv(r)'
  BY LevelAssumption
  DEF RequestInv, OpMatchesPc, KnowsPair, RightLevel, Charged, Evaluated, BuildsNext,
      Building, PastRecord

\* levelUp before it pays.
LEMMA LevelUpEarly ==
  ASSUME NEW r \in Reqs, req'[r].op = "levelUp",
         req'[r].pc \in {"checkItem", "countItems", "verifyBuds", "readPoints", "writePoints"},
         req'[r].user \in Users, req'[r].pair \in Pairs,
         pair'[req'[r].pair].status # "NONE",
         req'[r].lvl <= pair'[req'[r].pair].level, req'[r].lvl <= TargetLevel,
         req'[r].item = pair'[req'[r].pair].item,
         req'[r].pc = "writePoints" => EnoughPoints(req'[r].seen)
  PROVE  RequestInv(r)'
  BY DEF RequestInv, OpMatchesPc, KnowsPair, RightLevel, Charged, Evaluated, BuildsNext,
         Building, PastRecord, EnoughPoints

\* levelUp and finalize when they come to evaluateBreedLevel.
LEMMA EvaluateInv ==
  ASSUME NEW r \in Reqs, req'[r].op \in {"levelUp", "finalize"}, req'[r].pc = "evaluate",
         req'[r].op = "levelUp" =>
           /\ req'[r].user \in Users /\ req'[r].lvl <= TargetLevel
           /\ req'[r].lvl \in paid'[req'[r].pair],
         req'[r].op = "finalize" => req'[r].lvl >= TargetLevel,
         req'[r].pair \in Pairs,
         pair'[req'[r].pair].status # "NONE",
         req'[r].lvl <= pair'[req'[r].pair].level,
         req'[r].item = pair'[req'[r].pair].item
  PROVE  RequestInv(r)'
  BY DEF RequestInv, OpMatchesPc, KnowsPair, RightLevel, Charged, Evaluated, BuildsNext,
         Building, PastRecord

\* A request on its way in the same operation keeps what StillTrue keeps.
LEMMA SameOp ==
  ASSUME NEW r \in Reqs, RequestInv(r), StillTrue(r), SameWork(r),
         req[r].op \in {"levelUp", "finalize", "cancel"}
  PROVE  /\ req'[r].pair \in Pairs
         /\ pair'[req'[r].pair].status # "NONE"
         /\ req'[r].lvl <= pair'[req'[r].pair].level
         /\ req[r].op # "cancel" => req'[r].item = pair'[req'[r].pair].item
         /\ req[r].op = "levelUp" => req'[r].lvl <= TargetLevel /\ req'[r].user \in Users
         /\ req[r].op = "finalize" => req'[r].lvl >= TargetLevel
  BY DEF RequestInv, StillTrue, SameWork, RightLevel, Charged

\* finalize after its evaluation.
LEMMA FinalizeLate ==
  ASSUME NEW r \in Reqs, RequestInv(r), StillTrue(r), SameWork(r),
         req[r].op = "finalize", req'[r].pc \in PastRecord,
         req'[r].lvl \in Levels, level'[req'[r].pair][req'[r].lvl].evaluated
  PROVE  RequestInv(r)'
<1>1. req'[r].op = "finalize"
  BY DEF SameWork
<1>2. /\ req'[r].pair \in Pairs
      /\ pair'[req'[r].pair].status # "NONE"
      /\ req'[r].lvl <= pair'[req'[r].pair].level
      /\ req'[r].item = pair'[req'[r].pair].item
      /\ req'[r].lvl >= TargetLevel
  BY SameOp
<1> QED BY <1>1, <1>2
  DEF RequestInv, OpMatchesPc, KnowsPair, RightLevel, Charged, Evaluated, BuildsNext,
      Building, PastRecord

\* The operations that know no level.
LEMMA OtherOps ==
  ASSUME NEW r \in Reqs,
         \/ /\ req'[r].op \in {"invalidate", "adminInvalidate"}
            /\ req'[r].pc \in {"findPairs", "findPrevPairs", "failPairs", "freeSlots"}
         \/ /\ req'[r].op = "invalidateSlots" /\ req'[r].pc \in {"deleteSlots", "failOnSlots"}
         \/ /\ req'[r].op = "cancel" /\ req'[r].pc \in {"cancelPair", "freeSlot"}
            /\ req'[r].pair \in Pairs
            /\ pair'[req'[r].pair].status # "NONE"
            /\ req'[r].lvl <= pair'[req'[r].pair].level
  PROVE  RequestInv(r)'
  BY DEF RequestInv, OpMatchesPc, KnowsPair, RightLevel, Charged, Evaluated, BuildsNext,
         Building, PastRecord

\* The handler's first step starts with what its queries found.
LEMMA StartInv ==
  ASSUME BreedingInv, NEW r \in Reqs, Start(r) PROVE RequestInv(r)'
<1>0. TypeOK /\ UNCHANGED pair
  BY StartFrame DEF BreedingInv, tables
<1>1. CASE CreateBegin(r)
  <2>1. PICK u \in Users, m \in MaleBuds, f \in FemaleBuds, i \in Items \union {None} :
          req' = [req EXCEPT ![r] = CreateLocals(u, m, f, i)]
    BY <1>1 DEF CreateBegin
  <2>2. req'[r] = CreateLocals(u, m, f, i)
    BY <1>0, <2>1 DEF TypeOK
  <2>3. /\ req'[r].op = "createPair" /\ req'[r].lvl = 0
        /\ req'[r].pc \in {"checkItem", "countPairs"}
    BY <2>2 DEF CreateLocals, Idle
  <2> QED BY <2>3, CreateEarly
<1>2. ASSUME NEW u \in Users, NEW p \in OwnPairs(u)
      PROVE  /\ p \in Pairs /\ pair'[p].status # "NONE"
             /\ pair'[p].level = pair[p].level /\ pair'[p].item = pair[p].item
             /\ pair[p].level \in Nat
  <2>1. p \in Pairs /\ pair[p].status = "PAIRED"
    BY DEF OwnPairs, IsPaired
  <2>2. pair[p] \in PairRow
    BY <1>0, <2>1 DEF TypeOK
  <2>3. pair[p].level \in Nat
    BY <2>2, LevelAssumption DEF PairRow
  <2> QED BY <1>0, <2>1, <2>3
<1>3. CASE LevelUpBegin(r)
  <2>0. PICK u \in Users : \E p \in OwnPairs(u) : ~TargetPassed(p) /\ req' = [req EXCEPT ![r] = LevelUpLocals(u, p)]
    BY <1>3 DEF LevelUpBegin
  <2>1. PICK p \in OwnPairs(u) : ~TargetPassed(p) /\ req' = [req EXCEPT ![r] = LevelUpLocals(u, p)]
    BY <2>0
  <2>2. req'[r] = LevelUpLocals(u, p)
    BY <1>0, <2>1 DEF TypeOK
  <2>3. /\ req'[r].op = "levelUp" /\ req'[r].lvl = pair[p].level /\ req'[r].pair = p
        /\ req'[r].user = u /\ req'[r].item = pair[p].item
        /\ req'[r].pc \in {"verifyBuds", "countItems"}
    BY <2>2 DEF LevelUpLocals, Idle
  <2>4. pair[p].level <= TargetLevel
    BY <1>2, <2>1, LevelAssumption DEF TargetPassed
  <2> QED BY <1>2, <2>3, <2>4, LevelUpEarly
<1>4. CASE FinalizeBegin(r)
  <2>0. PICK u \in Users : \E p \in OwnPairs(u) : TargetReached(p) /\ req' = [req EXCEPT ![r] = FinalizeLocals(u, p)]
    BY <1>4 DEF FinalizeBegin
  <2>1. PICK p \in OwnPairs(u) : TargetReached(p) /\ req' = [req EXCEPT ![r] = FinalizeLocals(u, p)]
    BY <2>0
  <2>2. req'[r] = FinalizeLocals(u, p)
    BY <1>0, <2>1 DEF TypeOK
  <2>3. /\ req'[r].op = "finalize" /\ req'[r].lvl = pair[p].level /\ req'[r].pair = p
        /\ req'[r].item = pair[p].item /\ req'[r].pc = "evaluate"
    BY <2>2 DEF FinalizeLocals, Idle
  <2> QED BY <1>2, <2>1, <2>3, EvaluateInv DEF TargetReached
<1>5. CASE CancelBegin(r)
  <2>0. PICK u \in Users : \E p \in OwnPairs(u) : req' = [req EXCEPT ![r] = CancelLocals(p)]
    BY <1>5 DEF CancelBegin
  <2>1. PICK p \in OwnPairs(u) : req' = [req EXCEPT ![r] = CancelLocals(p)]
    BY <2>0
  <2>2. req'[r] = CancelLocals(p)
    BY <1>0, <2>1 DEF TypeOK
  <2>3. /\ req'[r].op = "cancel" /\ req'[r].pair = p /\ req'[r].lvl = 0
        /\ req'[r].pc = "cancelPair"
    BY <2>2 DEF CancelLocals, Idle
  <2>4. 0 <= pair'[p].level
    BY <1>2, <2>1
  <2> QED BY <1>2, <2>3, <2>4, OtherOps
<1>6. CASE InvalidateBegin(r)
  <2>1. PICK u \in Users, m \in MaleBuds, f \in FemaleBuds :
          req' = [req EXCEPT ![r] = InvalidateLocals(u, m, f)]
    BY <1>6 DEF InvalidateBegin
  <2>2. req'[r].op = "invalidate" /\ req'[r].pc = "findPairs"
    BY <1>0, <2>1 DEF TypeOK, InvalidateLocals, Idle
  <2> QED BY <2>2, OtherOps
<1>7. CASE AdminInvalidateBegin(r)
  <2>1. PICK u \in Users, b \in Buds : req' = [req EXCEPT ![r] = AdminLocals(u, b)]
    BY <1>7 DEF AdminInvalidateBegin
  <2>2. req'[r] = AdminLocals(u, b)
    BY <1>0, <2>1 DEF TypeOK
  <2>3. req'[r].op = "adminInvalidate" /\ req'[r].pc = "findPrevPairs"
    BY <2>2 DEF AdminLocals, Idle
  <2> QED BY <2>3, OtherOps
<1>8. CASE InvalidateSlotsBegin(r)
  <2>1. PICK u \in Users, key \in Keys : req' = [req EXCEPT ![r] = SlotsLocals(u, key)]
    BY <1>8 DEF InvalidateSlotsBegin
  <2>2. req'[r].op = "invalidateSlots" /\ req'[r].pc = "deleteSlots"
    BY <1>0, <2>1 DEF TypeOK, SlotsLocals, Idle
  <2> QED BY <2>2, OtherOps
<1> QED BY <1>1, <1>3, <1>4, <1>5, <1>6, <1>7, <1>8 DEF Start

\* createPair up to startBreedLevel.
LEMMA CreateContinues ==
  ASSUME BreedingInv, TypeOK', NEW r \in Reqs, StillTrue(r),
         \/ CountPairs(r) \/ FindSlot(r) \/ UpgradeSlot(r) \/ InsertPair(r) \/ MarkUsed(r)
  PROVE  RequestInv(r)'
<1>0. TypeOK /\ RequestInv(r)
  BY DEF BreedingInv
<1>1. req[r].op = "createPair" /\ req[r].lvl = 0
  BY <1>0
  DEF RequestInv, OpMatchesPc, RightLevel, CountPairs, FindSlot, UpgradeSlot, InsertPair,
      MarkUsed, At
<1>2. CASE Reply(r)
  BY <1>0, <1>2, ReplyFields, IdleInv
<1>3. CASE CountPairs(r) /\ ~Reply(r)
  <2>1. SameWork(r) /\ req'[r].pc = "findSlot"
    BY <1>0, <1>3, GotoFields DEF CountPairs
  <2> QED BY <1>1, <2>1, CreateEarly DEF SameWork
<1>4. CASE FindSlot(r) /\ ~Reply(r)
  <2>1. PICK s \in Slots, pc \in {"upgradeSlot", "insertPair"} :
          req' = [req EXCEPT ![r].slot = s, ![r].pc = pc]
    BY <1>4 DEF FindSlot, OpenSlots
  <2>2. req'[r] = [req[r] EXCEPT !.slot = s, !.pc = pc] /\ req[r] \in Local
    BY <1>0, <2>1 DEF TypeOK, Local
  <2>3. req'[r].op = req[r].op /\ req'[r].lvl = req[r].lvl /\ req'[r].pc = pc
    BY <2>2 DEF Local
  <2> QED BY <1>1, <2>1, <2>3, CreateEarly
<1>5. CASE UpgradeSlot(r)
  <2>1. SameWork(r) /\ req'[r].pc = "insertPair"
    BY <1>0, <1>5, GotoFields DEF UpgradeSlot
  <2> QED BY <1>1, <2>1, CreateEarly DEF SameWork
<1>6. CASE InsertPair(r)
  <2>1. PICK p \in Pairs :
          /\ pair' = [pair EXCEPT ![p] =
                       [status |-> "PAIRED", user |-> req[r].user, male |-> req[r].male,
                        female |-> req[r].female, item |-> req[r].item,
                        slot |-> req[r].slot, level |-> 0]]
          /\ req' = [req EXCEPT ![r].pair = p, ![r].lvl = 0, ![r].pc = "markUsed"]
    BY <1>6 DEF InsertPair
  <2>2. pair'[p].status = "PAIRED" /\ pair'[p].level = 0
    BY <1>0, <2>1 DEF TypeOK
  <2>3. req'[r] = [req[r] EXCEPT !.pair = p, !.lvl = 0, !.pc = "markUsed"] /\ req[r] \in Local
    BY <1>0, <2>1 DEF TypeOK, Local
  <2>4. /\ req'[r].op = req[r].op /\ req'[r].pair = p /\ req'[r].lvl = 0
        /\ req'[r].pc = "markUsed"
    BY <2>3 DEF Local
  <2>5. /\ req'[r].pair \in Pairs /\ pair'[req'[r].pair].status # "NONE"
        /\ pair'[req'[r].pair].level \in Nat
    BY <2>2, <2>4
  <2> QED BY <1>1, <2>4, <2>5, CreateLate
<1>7. CASE MarkUsed(r)
  <2>1. SameWork(r) /\ req'[r].pc = "mkLevel"
    BY <1>0, <1>7, GotoFields DEF MarkUsed
  <2>2. req[r].pair \in Pairs /\ pair'[req[r].pair].status # "NONE"
    BY <1>7 DEF StillTrue, MarkUsed, At
  <2>3. pair'[req[r].pair].level \in Nat
    <3>1. pair'[req[r].pair] \in PairRow
      BY <2>2 DEF TypeOK
    <3> QED BY <3>1, LevelAssumption DEF PairRow
  <2> QED BY <1>1, <2>1, <2>2, <2>3, CreateLate DEF SameWork
<1> QED BY <1>2, <1>3, <1>4, <1>5, <1>6, <1>7

\* levelUp up to its payment.
LEMMA LevelUpContinues ==
  ASSUME BreedingInv, TypeOK', NEW r \in Reqs, StillTrue(r),
         CheckItem(r) \/ CountItems(r) \/ VerifyBuds(r) \/ ReadPoints(r) \/ WritePoints(r)
  PROVE  RequestInv(r)'
<1>0. TypeOK /\ RequestInv(r) /\ req[r] \in Local
  BY DEF BreedingInv, TypeOK
<1>1. CASE Reply(r)
  BY <1>0, <1>1, ReplyFields, IdleInv
<1>2. CASE CheckItem(r) /\ req[r].op = "createPair" /\ ~Reply(r)
  <2>1. SameWork(r) /\ req'[r].pc = "countPairs"
    BY <1>0, <1>2, GotoFields DEF CheckItem
  <2>2. req[r].lvl = 0
    BY <1>0, <1>2 DEF RequestInv, RightLevel
  <2> QED BY <1>2, <2>1, <2>2, CreateEarly DEF SameWork
<1>3. CASE ~(CheckItem(r) /\ req[r].op = "createPair") /\ ~Reply(r)
  <2>1. req[r].op = "levelUp"
    BY <1>0, <1>3
    DEF RequestInv, OpMatchesPc, CheckItem, CountItems, VerifyBuds, ReadPoints,
        WritePoints, At
  <2>2. CASE CheckItem(r) \/ VerifyBuds(r)
    <3>1. SameWork(r) /\ req'[r].pc \in {"verifyBuds", "readPoints"}
      BY <1>0, <1>3, <2>1, <2>2, GotoFields DEF CheckItem, VerifyBuds
    <3> QED BY <1>0, <2>1, <3>1, SameOp, LevelUpEarly DEF SameWork
  <2>3. CASE CountItems(r)
    <3>1. PICK n : req' = [req EXCEPT ![r].seen = n, ![r].pc = "checkItem"]
      BY <1>3, <2>3 DEF CountItems
    <3>2. req'[r] = [req[r] EXCEPT !.seen = n, !.pc = "checkItem"]
      BY <1>0, <3>1 DEF TypeOK, Local
    <3>3. SameWork(r) /\ req'[r].pc = "checkItem"
      BY <1>0, <3>2 DEF SameWork, Local
    <3> QED BY <1>0, <2>1, <3>3, SameOp, LevelUpEarly DEF SameWork
  <2>4. CASE ReadPoints(r)
    <3>1. PICK n : EnoughPoints(n) /\ req' = [req EXCEPT ![r].seen = n, ![r].pc = "writePoints"]
      BY <1>3, <2>4 DEF ReadPoints
    <3>2. req'[r] = [req[r] EXCEPT !.seen = n, !.pc = "writePoints"]
      BY <1>0, <3>1 DEF TypeOK, Local
    <3>3. SameWork(r) /\ req'[r].pc = "writePoints" /\ req'[r].seen = n
      BY <1>0, <3>2 DEF SameWork, Local
    <3> QED BY <1>0, <2>1, <3>1, <3>3, SameOp, LevelUpEarly DEF SameWork
  <2>5. CASE WritePoints(r)
    <3>1. SameWork(r) /\ req'[r].pc = "evaluate"
      BY <1>0, <2>5, GotoFields DEF WritePoints
    <3>2. req[r].pair \in Pairs
      BY <2>1 DEF StillTrue
    <3>3. req[r].lvl \in paid'[req[r].pair]
      BY <1>0, <2>5, <3>2 DEF WritePoints, TypeOK
    <3>4. /\ req'[r].pair \in Pairs
          /\ pair'[req'[r].pair].status # "NONE"
          /\ req'[r].lvl <= pair'[req'[r].pair].level
          /\ req'[r].item = pair'[req'[r].pair].item
          /\ req'[r].lvl <= TargetLevel /\ req'[r].user \in Users
      BY <1>0, <2>1, <3>1, SameOp
    <3>5. req'[r].op = "levelUp" /\ req'[r].lvl \in paid'[req'[r].pair]
      BY <2>1, <3>1, <3>3 DEF SameWork
    <3> QED BY <3>1, <3>4, <3>5, EvaluateInv
  <2> QED BY <1>3, <2>2, <2>3, <2>4, <2>5
<1> QED BY <1>1, <1>2, <1>3

\* startBreedLevel: between the insert of the row and the update of currentLevel
\* the pair waits for this request.
LEMMA StartLevelContinues ==
  ASSUME BreedingInv, TypeOK', NEW r \in Reqs, StillTrue(r),
         MkLevel(r) \/ MkBuds(r) \/ Bump(r)
  PROVE  RequestInv(r)'
<1> DEFINE p == req[r].pair
           k == req[r].lvl
<1>0. TypeOK /\ RequestInv(r) /\ req[r] \in Local /\ Ladder
  BY DEF BreedingInv, TypeOK
<1>1. CASE Reply(r)
  BY <1>0, <1>1, ReplyFields, IdleInv
<1>2. CASE ~Reply(r) /\ (MkLevel(r) \/ MkBuds(r))
  <2>1. /\ p \in Pairs /\ k < TargetLevel /\ k \in Nat /\ k + 1 \in Levels
        /\ req[r].op \in {"createPair", "levelUp"}
        /\ pair[p].level \in Nat /\ k <= pair[p].level
    <3>1. /\ p \in Pairs /\ k < TargetLevel /\ k <= pair[p].level
          /\ req[r].op \in {"createPair", "levelUp"}
      BY <1>0, <1>2
      DEF MkLevel, MkBuds, At, RequestInv, OpMatchesPc, KnowsPair, RightLevel
    <3>2. k \in Nat /\ k + 1 \in Levels
      BY <1>0, <3>1, LevelAssumption DEF Local, Levels
    <3>3. pair[p] \in PairRow
      BY <1>0, <3>1 DEF TypeOK
    <3>4. pair[p].level \in Nat
      BY <3>3, LevelAssumption DEF PairRow
    <3> QED BY <3>1, <3>2, <3>4
  <2>2. SameWork(r) /\ req'[r].pc \in {"mkBuds", "bump"}
    BY <1>0, <1>2, GotoFields DEF MkLevel, MkBuds
  <2>3. UNCHANGED pair
    BY <1>2 DEF MkLevel, MkBuds
  <2>4. /\ level'[p][k + 1].exists
        /\ pair'[p].level = k
        /\ req'[r].pc = "mkBuds" \/ level'[p][k + 1].buds
    <3>1. CASE MkLevel(r)
      <4>1. /\ ~level[p][k + 1].exists
            /\ level' = [level EXCEPT ![p][k + 1] =
                          [exists |-> TRUE, buds |-> FALSE, evaluated |-> FALSE,
                           bonus |-> 0, created |-> now]]
            /\ req'[r].pc = "mkBuds"
        BY <1>0, <1>2, <3>1, GotoFields DEF MkLevel, KeyTaken
      <4> HIDE DEF p, k
      <4>2. ~(k + 1 <= pair[p].level)
        BY <1>0, <2>1, <4>1 DEF Ladder
      <4>3. pair'[p].level = k
        BY <2>1, <2>3, <4>2
      <4>4. level'[p][k + 1].exists
        BY <1>0, <2>1, <4>1 DEF TypeOK
      <4> QED BY <4>1, <4>3, <4>4
    <3>2. CASE MkBuds(r)
      <4>1. level[p][k + 1].exists /\ pair[p].level = k
        BY <1>0, <2>1, <3>2 DEF MkBuds, At, RequestInv, BuildsNext, Building
      <4>2. level' = [level EXCEPT ![p][k + 1] = [level[p][k + 1] EXCEPT !.buds = TRUE]]
        BY <3>2 DEF MkBuds
      <4>3. level[p][k + 1] \in LevelRow
        BY <1>0, <2>1 DEF TypeOK
      <4> HIDE DEF p, k
      <4>4. level'[p][k + 1] = [level[p][k + 1] EXCEPT !.buds = TRUE]
        BY <1>0, <2>1, <4>2 DEF TypeOK
      <4>5. level'[p][k + 1].exists /\ level'[p][k + 1].buds
        BY <4>1, <4>3, <4>4 DEF LevelRow
      <4> QED BY <2>3, <4>1, <4>5
    <3> QED BY <1>2, <3>1, <3>2
  <2>5. /\ pair'[p].status # "NONE"
        /\ req[r].op = "levelUp" =>
             /\ req[r].item = pair'[p].item /\ k \in paid'[p] /\ req[r].user \in Users
             /\ k \in Levels /\ level'[p][k].evaluated
        /\ req[r].op = "createPair" => k = 0
    BY <1>0, <1>2 DEF StillTrue, MkLevel, MkBuds, At, RequestInv, RightLevel, Charged
  <2>6. /\ req'[r].op = req[r].op /\ req'[r].pair = p /\ req'[r].lvl = k
        /\ req'[r].item = req[r].item /\ req'[r].user = req[r].user
    BY <2>2 DEF SameWork
  <2> HIDE DEF p, k
  <2>7. k <= pair'[p].level /\ k <= TargetLevel
    BY <2>1, <2>4, LevelAssumption
  <2>8. OpMatchesPc(r)' /\ KnowsPair(r)' /\ RightLevel(r)'
    BY <2>1, <2>2, <2>5, <2>6, <2>7 DEF OpMatchesPc, KnowsPair, RightLevel, PastRecord
  <2>9. Charged(r)' /\ Evaluated(r)'
    BY <2>1, <2>2, <2>5, <2>6 DEF Charged, Evaluated, PastRecord
  <2>10. BuildsNext(r)'
    BY <2>2, <2>4, <2>6 DEF BuildsNext
  <2> QED BY <2>8, <2>9, <2>10 DEF RequestInv
<1> QED BY <1>1, <1>2 DEF Bump

\* evaluateBreedLevel: the level was found in time, and is then evaluated.
LEMMA EvaluateContinues ==
  ASSUME BreedingInv, TypeOK', NEW r \in Reqs, StillTrue(r), Evaluate(r) \/ Record(r)
  PROVE  RequestInv(r)'
<1> DEFINE p == req[r].pair
           k == req[r].lvl
<1>0. TypeOK /\ RequestInv(r) /\ req[r] \in Local
  BY DEF BreedingInv, TypeOK
<1>1. CASE Reply(r)
  BY <1>0, <1>1, ReplyFields, IdleInv
<1>2. CASE ~Reply(r)
  <2>1. req[r].op \in {"levelUp", "finalize"}
    BY <1>0 DEF RequestInv, OpMatchesPc, Evaluate, Record, At
  <2>2. /\ SameWork(r)
        /\ req'[r].pc = IF Evaluate(r) THEN "record" ELSE AfterRecord(r)
    BY <1>0, <1>2, GotoFields DEF Evaluate, Record
  <2>3. /\ req'[r].op = req[r].op /\ req'[r].pair = p /\ req'[r].lvl = k
        /\ req'[r].item = req[r].item /\ req'[r].user = req[r].user
    BY <2>2 DEF SameWork
  <2>4. /\ p \in Pairs
        /\ pair'[p].status # "NONE"
        /\ k <= pair'[p].level
        /\ req[r].item = pair'[p].item
        /\ req[r].op = "levelUp" =>
             k <= TargetLevel /\ req[r].user \in Users /\ k \in paid'[p]
        /\ req[r].op = "finalize" => k >= TargetLevel
    BY <1>0, <2>1 DEF StillTrue, RequestInv, RightLevel, Charged, Evaluate, Record, At
  <2>5. CASE Evaluate(r)
    <3>1. /\ k \in Levels /\ level'[p][k].exists
          /\ now' - level'[p][k].created >= GetBreedTime(req[r].item)
      BY <1>2, <2>5 DEF Evaluate, CanEvaluate, BreedTimeElapsed, tables
    <3>2. req'[r].pc = "record"
      BY <2>2, <2>5
    <3> HIDE DEF p, k
    <3>3. OpMatchesPc(r)' /\ KnowsPair(r)' /\ RightLevel(r)' /\ Charged(r)'
      BY <2>1, <2>3, <2>4, <3>2 DEF OpMatchesPc, KnowsPair, RightLevel, Charged, PastRecord
    <3>4. Evaluated(r)' /\ BuildsNext(r)'
      BY <2>3, <2>4, <3>1, <3>2
      DEF Evaluated, BuildsNext, Building, PastRecord, BreedTimeElapsed
    <3> QED BY <3>3, <3>4 DEF RequestInv
  <2>6. CASE Record(r)
    <3>1. k \in Levels
      BY <1>0, <2>6 DEF Record, At, RequestInv, Evaluated
    <3>2. level'[p][k].evaluated
      <4>1. PICK b : level' = [level EXCEPT ![p][k] =
                                [level[p][k] EXCEPT !.evaluated = TRUE, !.bonus = b]]
        BY <1>2, <2>6 DEF Record
      <4>2. level[p][k] \in LevelRow
        BY <1>0, <2>4, <3>1 DEF TypeOK
      <4> HIDE DEF p, k
      <4>3. level'[p][k] = [level[p][k] EXCEPT !.evaluated = TRUE, !.bonus = b]
        BY <1>0, <2>4, <3>1, <4>1 DEF TypeOK
      <4> QED BY <4>2, <4>3 DEF LevelRow
    <3>3. CASE req[r].op = "finalize"
      <4>1. req'[r].pc \in PastRecord
        BY <2>2, <2>6, <3>3 DEF AfterRecord, PastRecord, Evaluate, Record, At
      <4> QED BY <1>0, <2>2, <2>3, <3>1, <3>2, <3>3, <4>1, FinalizeLate
    <3>4. CASE req[r].op = "levelUp"
      <4>1. req'[r].pc = IF k + 1 > TargetLevel THEN "bump" ELSE "mkLevel"
        BY <2>2, <2>6, <3>4 DEF AfterRecord, Evaluate, Record, At
      <4>2. k \in Nat /\ TargetLevel \in Nat
        BY <3>1, LevelAssumption DEF Levels
      <4> HIDE DEF p, k
      <4>3. OpMatchesPc(r)' /\ KnowsPair(r)' /\ RightLevel(r)' /\ Charged(r)'
        BY <2>3, <2>4, <3>4, <4>1, <4>2
        DEF OpMatchesPc, KnowsPair, RightLevel, Charged, PastRecord
      <4>4. Evaluated(r)' /\ BuildsNext(r)'
        BY <2>3, <3>1, <3>2, <3>4, <4>1, <4>2
        DEF Evaluated, BuildsNext, Building, PastRecord
      <4> QED BY <4>3, <4>4 DEF RequestInv
    <3> QED BY <2>1, <3>3, <3>4
  <2> QED BY <2>5, <2>6
<1> QED BY <1>1, <1>2

\* finalize after its evaluation, and cancel.
LEMMA FinalizeContinues ==
  ASSUME BreedingInv, TypeOK', NEW r \in Reqs, StillTrue(r),
         \/ Dice(r) \/ FreeSlot(r) \/ Settle(r) \/ FindClosed(r) \/ OpenSlot(r)
         \/ Mint(r) \/ Sign(r) \/ CancelPair(r)
  PROVE  RequestInv(r)'
<1>0. TypeOK /\ RequestInv(r) /\ req[r] \in Local
  BY DEF BreedingInv, TypeOK
<1>1. CASE Reply(r)
  BY <1>0, <1>1, ReplyFields, IdleInv
<1>2. CASE ~Reply(r) /\ req[r].op = "finalize"
  <2>1. req[r].pc \in PastRecord
    BY <1>0, <1>2
    DEF Dice, FreeSlot, Settle, FindClosed, OpenSlot, Mint, Sign, CancelPair, At,
        PastRecord, RequestInv, OpMatchesPc
  <2>2. SameWork(r) /\ req'[r].pc \in PastRecord
    <3>1. CASE FreeSlot(r) \/ Settle(r) \/ OpenSlot(r) \/ Mint(r)
      BY <1>0, <1>2, <3>1, GotoFields DEF FreeSlot, Settle, OpenSlot, Mint, PastRecord
    <3>2. CASE Dice(r)
      <4>1. PICK w \in BOOLEAN : req' = [req EXCEPT ![r].won = w, ![r].pc = "freeSlot"]
        BY <3>2 DEF Dice
      <4>2. req'[r] = [req[r] EXCEPT !.won = w, !.pc = "freeSlot"]
        BY <1>0, <4>1 DEF TypeOK, Local
      <4> QED BY <1>0, <4>2 DEF SameWork, Local, PastRecord
    <3>3. CASE FindClosed(r) /\ Goto(r, "mint")
      BY <1>0, <3>3, GotoFields DEF PastRecord
    <3>4. CASE FindClosed(r) /\ ~Goto(r, "mint")
      <4>1. PICK s : req' = [req EXCEPT ![r].slot = s, ![r].pc = "openSlot"]
        BY <3>4 DEF FindClosed
      <4>2. req'[r] = [req[r] EXCEPT !.slot = s, !.pc = "openSlot"]
        BY <1>0, <4>1 DEF TypeOK, Local
      <4> QED BY <1>0, <4>2 DEF SameWork, Local, PastRecord
    <3>5. ~CancelPair(r) /\ ~Sign(r)
      BY <1>0, <1>2 DEF CancelPair, Sign, At, RequestInv, OpMatchesPc
    <3> QED BY <3>1, <3>2, <3>3, <3>4, <3>5
  <2>3. req'[r].lvl \in Levels /\ level'[req'[r].pair][req'[r].lvl].evaluated
    BY <1>2, <2>1, <2>2 DEF StillTrue, SameWork
  <2> QED BY <1>0, <1>2, <2>2, <2>3, FinalizeLate
<1>3. CASE ~Reply(r) /\ req[r].op # "finalize"
  <2>1. CancelPair(r) /\ req[r].op = "cancel"
    BY <1>0, <1>3
    DEF Dice, FreeSlot, Settle, FindClosed, OpenSlot, Mint, Sign, CancelPair, At,
        PastRecord, RequestInv, OpMatchesPc
  <2>2. SameWork(r) /\ req'[r].pc = "freeSlot"
    BY <1>0, <2>1, GotoFields DEF CancelPair
  <2>3. /\ req'[r].pair \in Pairs
        /\ pair'[req'[r].pair].status # "NONE"
        /\ req'[r].lvl <= pair'[req'[r].pair].level
    BY <1>0, <2>1, <2>2, SameOp
  <2> QED BY <2>1, <2>2, <2>3, OtherOps DEF SameWork
<1> QED BY <1>1, <1>2, <1>3

\* The invalidations.
LEMMA InvalidateContinues ==
  ASSUME BreedingInv, NEW r \in Reqs,
         FindPairs(r) \/ FindPrevPairs(r) \/ FailPairs(r) \/ FreeSlots(r)
         \/ DeleteSlots(r) \/ FailOnSlots(r)
  PROVE  RequestInv(r)'
<1>0. TypeOK /\ RequestInv(r) /\ req[r] \in Local
  BY DEF BreedingInv, TypeOK
<1>1. CASE Reply(r)
  BY <1>0, <1>1, ReplyFields, IdleInv
<1>2. CASE FailPairs(r)
  <2>1. req[r].op \in {"invalidate", "adminInvalidate"}
    BY <1>0, <1>2 DEF FailPairs, At, RequestInv, OpMatchesPc
  <2>2. SameWork(r) /\ req'[r].pc = "freeSlots"
    BY <1>0, <1>2, GotoFields DEF FailPairs
  <2> QED BY <2>1, <2>2, OtherOps DEF SameWork
<1>3. CASE DeleteSlots(r)
  <2>1. req[r].op = "invalidateSlots"
    BY <1>0, <1>3 DEF DeleteSlots, At, RequestInv, OpMatchesPc
  <2>2. SameWork(r) /\ req'[r].pc = "failOnSlots"
    BY <1>0, <1>3, GotoFields DEF DeleteSlots
  <2> QED BY <2>1, <2>2, OtherOps DEF SameWork
<1>4. CASE ~Reply(r) /\ (FindPairs(r) \/ FindPrevPairs(r))
  <2>1. req[r].op \in {"invalidate", "adminInvalidate"}
    BY <1>0, <1>4 DEF FindPairs, FindPrevPairs, At, RequestInv, OpMatchesPc
  <2>2. PICK H : req' = [req EXCEPT ![r].hits = H, ![r].pc = "failPairs"]
    BY <1>4 DEF FindPairs, FindPrevPairs
  <2>3. req'[r] = [req[r] EXCEPT !.hits = H, !.pc = "failPairs"]
    BY <1>0, <2>2 DEF TypeOK, Local
  <2>4. req'[r].op = req[r].op /\ req'[r].pc = "failPairs"
    BY <1>0, <2>3 DEF Local
  <2> QED BY <2>1, <2>4, OtherOps
<1> QED BY <1>1, <1>2, <1>3, <1>4 DEF FreeSlots, FailOnSlots

\* A step of a request changes the locals of no other.
LEMMA OthersKept ==
  ASSUME TypeOK, NEW r \in Reqs, Start(r) \/ Continue(r) \/ Abort(r),
         NEW q \in Reqs, q # r
  PROVE  req'[q] = req[q]
<1>1. ASSUME Reply(r) \/ (\E pc : Goto(r, pc)) \/ (\E x : req' = [req EXCEPT ![r] = x])
      PROVE  req'[q] = req[q]
  BY <1>1 DEF Reply, Goto, TypeOK
<1>2. CASE Start(r)
  BY <1>1, <1>2, Zenon
  DEF Start, CreateBegin, LevelUpBegin, FinalizeBegin, CancelBegin, InvalidateBegin,
      AdminInvalidateBegin, InvalidateSlotsBegin
<1>3. CASE Abort(r)
  BY <1>1, <1>3 DEF Abort
<1>4. CASE Continue(r)
  <2>1. CASE CheckItem(r) \/ CountPairs(r) \/ UpgradeSlot(r) \/ MarkUsed(r) \/ VerifyBuds(r)
             \/ MkBuds(r) \/ Bump(r) \/ WritePoints(r) \/ Evaluate(r)
    BY <1>1, <2>1
    DEF CheckItem, CountPairs, UpgradeSlot, MarkUsed, VerifyBuds, MkBuds, Bump,
        WritePoints, Evaluate
  <2>2. CASE FreeSlot(r) \/ Settle(r) \/ OpenSlot(r) \/ Mint(r) \/ Sign(r) \/ CancelPair(r)
             \/ FailPairs(r) \/ FreeSlots(r) \/ DeleteSlots(r) \/ FailOnSlots(r)
    BY <1>1, <2>2
    DEF FreeSlot, Settle, OpenSlot, Mint, Sign, CancelPair, FailPairs, FreeSlots,
        DeleteSlots, FailOnSlots
  <2>3. CASE MkLevel(r) \/ Record(r)
    BY <1>1, <2>3 DEF MkLevel, Record
  <2>4. CASE FindSlot(r)
    BY <1>1, <2>4 DEF FindSlot, TypeOK
  <2>5. CASE InsertPair(r)
    BY <2>5 DEF InsertPair, TypeOK
  <2>6. CASE CountItems(r)
    BY <1>1, <2>6 DEF CountItems, TypeOK
  <2>7. CASE ReadPoints(r)
    BY <1>1, <2>7 DEF ReadPoints, TypeOK
  <2>8. CASE Dice(r) \/ FindClosed(r)
    BY <1>1, <2>8 DEF Dice, FindClosed, TypeOK
  <2>9. CASE FindPairs(r) \/ FindPrevPairs(r)
    BY <1>1, <2>9 DEF FindPairs, FindPrevPairs, TypeOK
  <2> QED BY <1>4, <2>1, <2>2, <2>3, <2>4, <2>5, <2>6, <2>7, <2>8, <2>9 DEF Continue
<1> QED BY <1>2, <1>3, <1>4

\* Every request knows what it should after every step.
LEMMA RequestStep ==
  ASSUME BreedingInv, [Next]_vars, NEW q \in Reqs PROVE RequestInv(q)'
<1>1. TypeOK /\ TypeOK' /\ Grows /\ RequestInv(q) /\ StillTrue(q)
  <2>1. TypeOK /\ \A r \in Reqs : RequestInv(r)
    BY DEF BreedingInv
  <2>2. TypeOK' /\ Grows
    BY <2>1, TypeStep, GrowsStep
  <2> QED BY <2>1, <2>2, StillTrueStep
<1>2. ASSUME req'[q] = req[q] PROVE RequestInv(q)'
  BY <1>1, <1>2, OtherBuilds, OtherInv
<1>3. CASE Outside
  BY <1>2, <1>3 DEF Outside, Tick, TransferBud, TransferItem, vars
<1>4. ASSUME NEW r \in Reqs, Start(r) \/ Continue(r) \/ Abort(r), r # q
      PROVE  RequestInv(q)'
  BY <1>1, <1>2, <1>4, OthersKept
<1>5. CASE Start(q)
  BY <1>5, StartInv
<1>6. CASE Abort(q)
  BY <1>1, <1>6, ReplyFields, IdleInv DEF Abort
<1>7. CASE Continue(q)
  BY <1>1, <1>7, CreateContinues, LevelUpContinues, StartLevelContinues,
     EvaluateContinues, FinalizeContinues, InvalidateContinues DEF Continue
<1> QED BY <1>3, <1>4, <1>5, <1>6, <1>7, NextCases

-----------------------------------------------------------------------------
(* The ladder and the reward *)

\* The only writes of a level row: its insert, its buds and its evaluation.
LEMMA LevelWrites ==
  ASSUME BreedingInv, [Next]_vars, NEW p \in Pairs, NEW k \in Levels,
         level'[p][k] # level[p][k]
  PROVE  \E r \in Reqs :
           /\ req[r].pair = p
           /\ \/ /\ MkLevel(r) /\ req[r].lvl + 1 = k /\ ~level[p][k].exists
                 /\ level'[p][k].created = now /\ ~level'[p][k].evaluated
                 /\ level'[p][k].bonus = 0
              \/ /\ MkBuds(r)
                 /\ level'[p][k].exists = level[p][k].exists
                 /\ level'[p][k].evaluated = level[p][k].evaluated
                 /\ level'[p][k].bonus = level[p][k].bonus
              \/ /\ Record(r) /\ req[r].lvl = k
                 /\ level'[p][k].exists = level[p][k].exists
<1>0. TypeOK /\ level[p][k] \in LevelRow
  BY DEF BreedingInv, TypeOK
<1>1. ~Outside
  BY DEF Outside, Tick, TransferBud, TransferItem, tables, vars
<1>2. ASSUME NEW r \in Reqs PROVE ~Start(r) /\ ~Abort(r)
  BY StartFrame DEF Abort, tables
<1>3. PICK r \in Reqs : Continue(r)
  BY <1>1, <1>2, NextCases
<1>4. MkLevel(r) \/ MkBuds(r) \/ Record(r)
  <2>1. ~(CheckItem(r) \/ CountPairs(r) \/ FindSlot(r) \/ CountItems(r)
          \/ VerifyBuds(r) \/ ReadPoints(r) \/ Evaluate(r) \/ Dice(r)
          \/ FindClosed(r) \/ FindPairs(r) \/ FindPrevPairs(r))
    BY DEF CheckItem, CountPairs, FindSlot, CountItems, VerifyBuds, ReadPoints, Evaluate,
           Dice, FindClosed, FindPairs, FindPrevPairs, tables
  <2>2. ~(UpgradeSlot(r) \/ MarkUsed(r) \/ FreeSlot(r) \/ OpenSlot(r) \/ FreeSlots(r)
          \/ DeleteSlots(r) \/ Mint(r) \/ Sign(r) \/ WritePoints(r) \/ InsertPair(r)
          \/ Bump(r) \/ Settle(r) \/ CancelPair(r) \/ FailPairs(r) \/ FailOnSlots(r))
    BY DEF UpgradeSlot, MarkUsed, FreeSlot, OpenSlot, FreeSlots, DeleteSlots, Mint, Sign,
           WritePoints, InsertPair, Bump, Settle, CancelPair, FailPairs, FailOnSlots
  <2> QED BY <1>3, <2>1, <2>2 DEF Continue
<1> DEFINE b == req[r].pair
           j == req[r].lvl
<1>5. CASE MkLevel(r)
  <2>1. /\ ~level[b][j + 1].exists
        /\ level' = [level EXCEPT ![b][j + 1] =
                      [exists |-> TRUE, buds |-> FALSE, evaluated |-> FALSE,
                       bonus |-> 0, created |-> now]]
    BY <1>5 DEF MkLevel, KeyTaken
  <2> HIDE DEF b, j
  <2>2. b = p /\ j + 1 = k
    BY <1>0, <2>1 DEF TypeOK
  <2>3. level'[p][k].created = now /\ ~level'[p][k].evaluated /\ level'[p][k].bonus = 0
    BY <1>0, <2>1, <2>2 DEF TypeOK
  <2> QED BY <1>5, <2>1, <2>2, <2>3 DEF b, j
<1>6. CASE MkBuds(r)
  <2>1. level' = [level EXCEPT ![b][j + 1] = [level[b][j + 1] EXCEPT !.buds = TRUE]]
    BY <1>6 DEF MkBuds
  <2> HIDE DEF b, j
  <2>2. b = p /\ j + 1 = k
    BY <1>0, <2>1 DEF TypeOK
  <2>3. level'[p][k] = [level[p][k] EXCEPT !.buds = TRUE]
    BY <1>0, <2>1, <2>2 DEF TypeOK
  <2>4. /\ level'[p][k].exists = level[p][k].exists
        /\ level'[p][k].evaluated = level[p][k].evaluated
        /\ level'[p][k].bonus = level[p][k].bonus
    BY <1>0, <2>3 DEF LevelRow
  <2> QED BY <1>6, <2>2, <2>4 DEF b, j
<1>7. CASE Record(r)
  <2>1. PICK c : level' = [level EXCEPT ![b][j] =
                            [level[b][j] EXCEPT !.evaluated = TRUE, !.bonus = c]]
    BY <1>7 DEF Record
  <2> HIDE DEF b, j
  <2>2. b = p /\ j = k
    BY <1>0, <2>1 DEF TypeOK
  <2>3. level'[p][k] = [level[p][k] EXCEPT !.evaluated = TRUE, !.bonus = c]
    BY <1>0, <2>1, <2>2 DEF TypeOK
  <2>4. level'[p][k].exists = level[p][k].exists
    BY <1>0, <2>3 DEF LevelRow
  <2> QED BY <1>7, <2>2, <2>4 DEF b, j
<1> QED BY <1>4, <1>5, <1>6, <1>7

\* A row is inserted above the level its pair has, which is evaluated and, unless
\* it is the first row, paid.
LEMMA RowInserted ==
  ASSUME BreedingInv, [Next]_vars, NEW p \in Pairs, NEW k \in Levels,
         ~level[p][k].exists, level'[p][k].exists
  PROVE  /\ pair[p].status # "NONE"
         /\ k - 1 <= pair[p].level
         /\ level'[p][k].created = now
         /\ k > 1 => level[p][k - 1].evaluated /\ k - 1 \in paid[p]
<1>1. PICK r \in Reqs :
        /\ req[r].pair = p /\ MkLevel(r) /\ req[r].lvl + 1 = k
        /\ level'[p][k].created = now
  <2>1. level'[p][k] # level[p][k]
    OBVIOUS
  <2> QED BY <2>1, LevelWrites
<1>2. RequestInv(r) /\ req[r] \in Local /\ req[r].pc = "mkLevel"
  BY <1>1 DEF BreedingInv, TypeOK, MkLevel, At
<1>3. req[r].lvl \in Nat /\ req[r].lvl = k - 1
  BY <1>1, <1>2, LevelAssumption DEF Local
<1>4. pair[p].status # "NONE" /\ k - 1 <= pair[p].level
  BY <1>1, <1>2, <1>3 DEF RequestInv, KnowsPair
<1>5. k > 1 => req[r].op = "levelUp"
  BY <1>2, <1>3 DEF RequestInv, OpMatchesPc, RightLevel
<1>6. k > 1 => level[p][k - 1].evaluated /\ k - 1 \in paid[p]
  BY <1>1, <1>2, <1>3, <1>5 DEF RequestInv, Charged, Evaluated
<1> QED BY <1>1, <1>4, <1>6

\* A level is evaluated by a request that found it in time.
LEMMA RowEvaluated ==
  ASSUME BreedingInv, [Next]_vars, NEW p \in Pairs, NEW k \in Levels,
         ~level[p][k].evaluated, level'[p][k].evaluated
  PROVE  /\ pair[p].status # "NONE" /\ level[p][k].exists
         /\ BreedTimeElapsed(level[p][k].created, pair[p].item)
<1>1. PICK r \in Reqs : req[r].pair = p /\ Record(r) /\ req[r].lvl = k
  BY LevelWrites
<1>2. RequestInv(r) /\ req[r].pc = "record"
  BY <1>1 DEF BreedingInv, Record, At
<1> QED BY <1>1, <1>2 DEF RequestInv, OpMatchesPc, KnowsPair, Evaluated

LEMMA UnbornStep ==
  ASSUME BreedingInv, [Next]_vars, TypeOK', Grows, NEW p \in Pairs PROVE Unborn(p)'
<1>1. SUFFICES ASSUME pair'[p].status = "NONE"
               PROVE  pair'[p].level = 0 /\ \A k \in Levels : ~level'[p][k].exists
  BY DEF Unborn
<1>2. pair[p].status = "NONE"
  BY <1>1 DEF Grows
<1>3. pair[p].level = 0 /\ \A k \in Levels : ~level[p][k].exists
  BY <1>2 DEF BreedingInv, Unborn
<1>4. ASSUME pair'[p].level # pair[p].level PROVE FALSE
  <2>1. PICK r \in Reqs : Bump(r) /\ req[r].pair = p
    BY <1>4, LevelMoves
  <2> QED BY <1>2, <2>1 DEF BreedingInv, Bump, At, RequestInv, KnowsPair
<1>5. ASSUME NEW k \in Levels PROVE ~level'[p][k].exists
  BY <1>2, <1>3, RowInserted
<1> QED BY <1>3, <1>4, <1>5

LEMMA EvaluatedInTimeStep ==
  ASSUME BreedingInv, [Next]_vars, TypeOK', Grows, NEW p \in Pairs
  PROVE  EvaluatedInTime(p)'
<1>1. SUFFICES ASSUME NEW k \in Levels, level'[p][k].evaluated
               PROVE  /\ level'[p][k].exists
                      /\ now' - level'[p][k].created >= GetBreedTime(pair'[p].item)
  BY DEF EvaluatedInTime, BreedTimeElapsed, GetBreedTime
<1>2. /\ level[p][k].exists /\ pair[p].status # "NONE"
      /\ now - level[p][k].created >= GetBreedTime(pair[p].item)
  <2>1. CASE level[p][k].evaluated
    BY <2>1, EvaluatedExists DEF BreedingInv, EvaluatedInTime, BreedTimeElapsed
  <2>2. CASE ~level[p][k].evaluated
    BY <1>1, <2>2, RowEvaluated DEF BreedTimeElapsed
  <2> QED BY <2>1, <2>2
<1>3. /\ level'[p][k].exists /\ level'[p][k].created = level[p][k].created
      /\ pair'[p].item = pair[p].item /\ now <= now'
  BY <1>2 DEF Grows
<1>4. level[p][k] \in LevelRow /\ now \in Nat /\ now' \in Nat
  BY DEF BreedingInv, TypeOK
<1>5. level[p][k].created \in Nat
  BY <1>4 DEF LevelRow
<1>6. GetBreedTime(pair[p].item) \in Nat
  BY BreedTimeType
<1> QED BY <1>2, <1>3, <1>4, <1>5, <1>6

LEMMA LadderStep ==
  ASSUME BreedingInv, [Next]_vars, TypeOK', Grows PROVE Ladder'
<1> SUFFICES ASSUME NEW p \in Pairs, NEW k \in Levels
             PROVE  /\ k <= pair'[p].level => level'[p][k].exists /\ level'[p][k].buds
                    /\ level'[p][k].exists => k <= pair'[p].level + 1
                    /\ k > 1 /\ level'[p][k].exists => Climbed(p, k - 1)'
  BY DEF Ladder
<1>0. TypeOK /\ Ladder /\ pair[p] \in PairRow /\ pair'[p] \in PairRow
  BY DEF BreedingInv, TypeOK
<1>1. /\ pair[p].level \in Nat /\ pair'[p].level \in Nat /\ k \in Nat
      /\ pair'[p].level \in {pair[p].level, pair[p].level + 1}
  BY <1>0, LevelAssumption DEF PairRow, Grows, Levels
<1>2. ASSUME k <= pair'[p].level PROVE level'[p][k].exists /\ level'[p][k].buds
  <2>1. level[p][k].exists /\ level[p][k].buds
    <3>1. CASE k <= pair[p].level
      BY <1>0, <3>1 DEF Ladder
    <3>2. CASE ~(k <= pair[p].level)
      <4>1. k = pair[p].level + 1 /\ pair'[p].level # pair[p].level
        BY <1>1, <1>2, <3>2
      <4>2. PICK r \in Reqs : Bump(r) /\ req[r].pair = p /\ req[r].lvl = pair[p].level
        BY <4>1, LevelMoves
      <4>3. Building(r) /\ req[r].pc = "bump" /\ RequestInv(r)
        BY <1>1, <4>1, <4>2, LevelAssumption DEF Building, Bump, At, Levels, BreedingInv
      <4> QED BY <4>1, <4>2, <4>3 DEF RequestInv, BuildsNext
    <3> QED BY <3>1, <3>2
  <2> QED BY <2>1 DEF Grows
<1>3. ASSUME level'[p][k].exists PROVE k <= pair'[p].level + 1
  <2>1. k <= pair[p].level + 1
    <3>1. CASE level[p][k].exists
      BY <1>0, <3>1 DEF Ladder
    <3>2. CASE ~level[p][k].exists
      <4>1. k - 1 <= pair[p].level
        BY <1>3, <3>2, RowInserted
      <4> QED BY <1>1, <4>1
    <3> QED BY <3>1, <3>2
  <2> QED BY <1>1, <2>1
<1>4. ASSUME k > 1, level'[p][k].exists PROVE Climbed(p, k - 1)'
  <2>0. k - 1 \in Levels /\ k - 1 + 1 = k
    BY <1>1, <1>4, LevelAssumption DEF Levels
  <2>1. /\ pair[p].status # "NONE"
        /\ level[p][k - 1].evaluated /\ k - 1 \in paid[p]
        /\ level'[p][k].created - level[p][k - 1].created >= GetBreedTime(pair[p].item)
    <3>1. CASE level[p][k].exists
      <4>1. pair[p].status # "NONE"
        BY <3>1 DEF BreedingInv, Unborn
      <4>2. level'[p][k].created = level[p][k].created
        BY <3>1 DEF Grows
      <4>3. Climbed(p, k - 1)
        BY <1>0, <1>4, <3>1 DEF Ladder
      <4> QED BY <2>0, <4>1, <4>2, <4>3 DEF Climbed
    <3>2. CASE ~level[p][k].exists
      <4>1. /\ pair[p].status # "NONE" /\ level'[p][k].created = now
            /\ level[p][k - 1].evaluated /\ k - 1 \in paid[p]
        BY <1>4, <3>2, RowInserted
      <4>2. BreedTimeElapsed(level[p][k - 1].created, pair[p].item)
        BY <2>0, <4>1 DEF BreedingInv, EvaluatedInTime
      <4> QED BY <4>1, <4>2 DEF BreedTimeElapsed
    <3> QED BY <3>1, <3>2
  <2>2. level[p][k - 1].exists
    BY <2>0, <2>1, EvaluatedExists
  <2>3. /\ level'[p][k - 1].evaluated /\ k - 1 \in paid'[p]
        /\ level'[p][k - 1].created = level[p][k - 1].created
        /\ pair'[p].item = pair[p].item
    BY <2>0, <2>1, <2>2 DEF Grows
  <2> QED BY <2>0, <2>1, <2>3 DEF Climbed, GetBreedTime
<1> QED BY <1>2, <1>3, <1>4

\* A Gen1 bud is issued and a pair completed only by a finalize request that has
\* evaluated the last level.
LEMMA Rewarded ==
  ASSUME BreedingInv, NEW r \in Reqs, Mint(r) \/ Settle(r)
  PROVE  /\ req[r].pair \in Pairs
         /\ level[req[r].pair][TargetLevel].evaluated
<1>1. RequestInv(r) /\ req[r].op = "finalize" /\ req[r].pc \in PastRecord
  BY DEF BreedingInv, Mint, Settle, At, RequestInv, OpMatchesPc, PastRecord
<1>2. /\ req[r].pair \in Pairs /\ req[r].lvl >= TargetLevel /\ req[r].lvl \in Levels
      /\ level[req[r].pair][req[r].lvl].evaluated
  BY <1>1 DEF RequestInv, KnowsPair, RightLevel, Evaluated
<1>3. req[r].lvl = TargetLevel
  BY <1>2, LevelAssumption DEF Levels
<1> QED BY <1>2, <1>3

LEMMA RewardBaseStep ==
  ASSUME BreedingInv, [Next]_vars, Grows PROVE RewardBase'
<1> SUFFICES ASSUME NEW p \in Pairs, gen1'[p].issued > 0 \/ pair'[p].status = "COMPLETED"
             PROVE  level'[p][TargetLevel].evaluated
  BY DEF RewardBase
<1>0. TypeOK /\ pair[p] \in PairRow /\ gen1[p] \in Gen1Row
  BY DEF BreedingInv, TypeOK
<1>1. level[p][TargetLevel].evaluated
  <2>1. CASE gen1[p].issued > 0 \/ pair[p].status = "COMPLETED"
    BY <2>1 DEF BreedingInv, RewardBase
  <2>2. CASE ~(gen1[p].issued > 0 \/ pair[p].status = "COMPLETED")
    <3>1. \/ gen1'[p].issued # gen1[p].issued
          \/ pair'[p].status = "COMPLETED" /\ pair'[p].status # pair[p].status
      BY <2>2
    <3>2. ~Outside
      BY <3>1 DEF Outside, Tick, TransferBud, TransferItem, tables, vars
    <3>3. ASSUME NEW r \in Reqs PROVE ~Start(r) /\ ~Abort(r)
      BY <3>1, StartFrame DEF Abort, tables
    <3>4. PICK r \in Reqs : Continue(r)
      BY <3>2, <3>3, NextCases
    <3>5. ~(CheckItem(r) \/ CountPairs(r) \/ FindSlot(r) \/ CountItems(r)
            \/ VerifyBuds(r) \/ ReadPoints(r) \/ Evaluate(r) \/ Dice(r)
            \/ FindClosed(r) \/ FindPairs(r) \/ FindPrevPairs(r))
      BY <3>1
      DEF CheckItem, CountPairs, FindSlot, CountItems, VerifyBuds, ReadPoints, Evaluate,
          Dice, FindClosed, FindPairs, FindPrevPairs, tables
    <3>6. ~(UpgradeSlot(r) \/ MarkUsed(r) \/ FreeSlot(r) \/ OpenSlot(r) \/ FreeSlots(r)
            \/ DeleteSlots(r) \/ WritePoints(r) \/ MkLevel(r) \/ MkBuds(r) \/ Record(r))
      BY <3>1
      DEF UpgradeSlot, MarkUsed, FreeSlot, OpenSlot, FreeSlots, DeleteSlots, WritePoints,
          MkLevel, MkBuds, Record
    <3>7. ~Sign(r)
      <4>1. SUFFICES ASSUME Sign(r) PROVE FALSE
        OBVIOUS
      <4> DEFINE b == req[r].pair
      <4>2. UNCHANGED pair /\ gen1' = [gen1 EXCEPT ![b] = [gen1[b] EXCEPT !.signed = @ + 1]]
        BY <4>1 DEF Sign
      <4> HIDE DEF b
      <4>3. gen1'[p] = gen1[p] \/ gen1'[p] = [gen1[p] EXCEPT !.signed = @ + 1]
        BY <1>0, <4>2 DEF TypeOK
      <4>4. gen1'[p].issued = gen1[p].issued
        BY <1>0, <4>3 DEF Gen1Row
      <4> QED BY <3>1, <4>2, <4>4
    <3>8. ~InsertPair(r)
      <4>1. SUFFICES ASSUME InsertPair(r) PROVE FALSE
        OBVIOUS
      <4>2. PICK q \in Pairs :
              pair' = [pair EXCEPT ![q] =
                        [status |-> "PAIRED", user |-> req[r].user, male |-> req[r].male,
                         female |-> req[r].female, item |-> req[r].item,
                         slot |-> req[r].slot, level |-> 0]]
        BY <4>1 DEF InsertPair
      <4>3. pair'[p].status = "PAIRED" \/ pair'[p] = pair[p]
        BY <1>0, <4>2 DEF TypeOK
      <4> QED BY <3>1, <4>1, <4>3 DEF InsertPair
    <3>9. ~Bump(r)
      <4>1. SUFFICES ASSUME Bump(r) PROVE FALSE
        OBVIOUS
      <4> DEFINE b == req[r].pair
                 n == req[r].lvl + 1
      <4>2. UNCHANGED gen1 /\ pair' = [pair EXCEPT ![b] = [pair[b] EXCEPT !.level = n]]
        BY <4>1 DEF Bump
      <4> HIDE DEF b, n
      <4>3. pair'[p] = pair[p] \/ pair'[p] = [pair[p] EXCEPT !.level = n]
        BY <1>0, <4>2 DEF TypeOK
      <4>4. pair'[p].status = pair[p].status
        BY <1>0, <4>3 DEF PairRow
      <4> QED BY <3>1, <4>2, <4>4
    <3>10. ~(CancelPair(r) \/ FailPairs(r) \/ FailOnSlots(r))
      <4>1. SUFFICES ASSUME CancelPair(r) \/ FailPairs(r) \/ FailOnSlots(r) PROVE FALSE
        OBVIOUS
      <4>2. \/ pair'[p] = pair[p]
            \/ pair'[p] = [pair[p] EXCEPT !.status = "CANCELED"]
            \/ pair'[p] = [pair[p] EXCEPT !.status = "FAILED"]
        BY <1>0, <4>1 DEF CancelPair, FailPairs, FailOnSlots, TypeOK
      <4>3. pair'[p].status \in {pair[p].status, "CANCELED", "FAILED"}
        BY <1>0, <4>2 DEF PairRow
      <4>4. UNCHANGED gen1
        BY <4>1 DEF CancelPair, FailPairs, FailOnSlots
      <4> QED BY <3>1, <4>3, <4>4
    <3>11. Mint(r) \/ Settle(r)
      BY <3>4, <3>5, <3>6, <3>7, <3>8, <3>9, <3>10 DEF Continue
    <3>12. req[r].pair = p
      <4> DEFINE b == req[r].pair
      <4>1. \/ UNCHANGED pair /\ gen1' = [gen1 EXCEPT ![b] = [gen1[b] EXCEPT !.issued = @ + 1]]
            \/ /\ UNCHANGED gen1
               /\ \E st : pair' = [pair EXCEPT ![b] = [pair[b] EXCEPT !.status = st]]
        BY <3>11 DEF Mint, Settle
      <4> HIDE DEF b
      <4>2. b = p
        BY <1>0, <3>1, <4>1 DEF TypeOK
      <4> QED BY <4>2 DEF b
    <3> QED BY <3>11, <3>12, Rewarded
  <2> QED BY <2>1, <2>2
<1>2. TargetLevel \in Levels
  BY LevelAssumption DEF Levels
<1>3. level[p][TargetLevel].exists
  BY <1>1, <1>2, EvaluatedExists
<1> QED BY <1>1, <1>2, <1>3 DEF Grows

\* A request begins to build with the insert of a row that is not there.
LEMMA BuildingStarts ==
  ASSUME BreedingInv, NEW r \in Reqs, Start(r) \/ Continue(r) \/ Abort(r), Building(r)'
  PROVE  /\ req'[r].pair = req[r].pair /\ req'[r].lvl = req[r].lvl
         /\ Building(r) \/ (MkLevel(r) /\ ~level[req[r].pair][req[r].lvl + 1].exists)
<1>0. TypeOK /\ RequestInv(r) /\ req[r] \in Local
  BY DEF BreedingInv, TypeOK
<1>1. req'[r].pc \in {"mkBuds", "bump"} /\ req'[r].lvl < TargetLevel
  BY DEF Building
<1>2. ~Reply(r)
  BY <1>0, <1>1, ReplyFields DEF Idle
<1>3. ASSUME NEW pc, Goto(r, pc) PROVE SameWork(r) /\ pc \in {"mkBuds", "bump"}
  BY <1>0, <1>1, <1>3, GotoFields
<1>4. ASSUME NEW x, req' = [req EXCEPT ![r] = x] PROVE x.pc \in {"mkBuds", "bump"}
  BY <1>0, <1>1, <1>4 DEF TypeOK
<1>5. ~Start(r)
  <2>1. ~CreateBegin(r)
    <3>1. SUFFICES ASSUME CreateBegin(r) PROVE FALSE
      OBVIOUS
    <3>2. PICK u \in Users, m \in MaleBuds, f \in FemaleBuds, i \in Items \union {None} :
            req' = [req EXCEPT ![r] = CreateLocals(u, m, f, i)]
      BY <3>1 DEF CreateBegin
    <3>3. CreateLocals(u, m, f, i).pc \in {"countPairs", "checkItem"}
      BY DEF CreateLocals, Idle
    <3> QED BY <1>4, <3>2, <3>3
  <2>2. ~LevelUpBegin(r)
    <3>1. \A u, p : LevelUpLocals(u, p).pc \in {"verifyBuds", "countItems"}
      BY DEF LevelUpLocals, Idle
    <3> QED BY <1>4, <3>1, Zenon DEF LevelUpBegin
  <2>3. ~FinalizeBegin(r)
    <3>1. \A u, p : FinalizeLocals(u, p).pc = "evaluate"
      BY DEF FinalizeLocals, Idle
    <3> QED BY <1>4, <3>1 DEF FinalizeBegin
  <2>4. ~CancelBegin(r)
    <3>1. \A p : CancelLocals(p).pc = "cancelPair"
      BY DEF CancelLocals, Idle
    <3> QED BY <1>4, <3>1 DEF CancelBegin
  <2>5. ~InvalidateBegin(r)
    <3>1. \A u, m, f : InvalidateLocals(u, m, f).pc = "findPairs"
      BY DEF InvalidateLocals, Idle
    <3> QED BY <1>4, <3>1 DEF InvalidateBegin
  <2>6. ~AdminInvalidateBegin(r)
    <3>1. \A u, b : AdminLocals(u, b).pc = "findPrevPairs"
      BY DEF AdminLocals, Idle
    <3> QED BY <1>4, <3>1 DEF AdminInvalidateBegin
  <2>7. ~InvalidateSlotsBegin(r)
    <3>1. \A u, key : SlotsLocals(u, key).pc = "deleteSlots"
      BY DEF SlotsLocals, Idle
    <3> QED BY <1>4, <3>1 DEF InvalidateSlotsBegin
  <2> QED BY <2>1, <2>2, <2>3, <2>4, <2>5, <2>6, <2>7 DEF Start
<1>6. Continue(r)
  BY <1>2, <1>5 DEF Abort
<1>7. ~(CheckItem(r) \/ CountPairs(r) \/ UpgradeSlot(r) \/ MarkUsed(r) \/ VerifyBuds(r)
        \/ Bump(r) \/ WritePoints(r) \/ Evaluate(r) \/ FreeSlot(r) \/ Settle(r)
        \/ OpenSlot(r) \/ Mint(r) \/ Sign(r) \/ CancelPair(r) \/ FailPairs(r)
        \/ FreeSlots(r) \/ DeleteSlots(r) \/ FailOnSlots(r))
  BY <1>2, <1>3
  DEF CheckItem, CountPairs, UpgradeSlot, MarkUsed, VerifyBuds, Bump, WritePoints,
      Evaluate, FreeSlot, Settle, OpenSlot, Mint, Sign, CancelPair, FailPairs, FreeSlots,
      DeleteSlots, FailOnSlots
<1>8. ~(FindSlot(r) \/ InsertPair(r) \/ CountItems(r) \/ ReadPoints(r) \/ Dice(r)
        \/ FindClosed(r) \/ FindPairs(r) \/ FindPrevPairs(r))
  <2>1. ~FindSlot(r)
    <3>1. SUFFICES ASSUME FindSlot(r) PROVE FALSE
      OBVIOUS
    <3>2. PICK s \in Slots, pc \in {"upgradeSlot", "insertPair"} :
            req' = [req EXCEPT ![r].slot = s, ![r].pc = pc]
      BY <1>2, <3>1 DEF FindSlot, OpenSlots
    <3>3. req'[r].pc = pc
      BY <1>0, <3>2 DEF TypeOK, Local
    <3> QED BY <1>1, <3>2, <3>3
  <2>2. ~InsertPair(r)
    <3>1. SUFFICES ASSUME InsertPair(r) PROVE FALSE
      OBVIOUS
    <3>2. PICK p : req' = [req EXCEPT ![r].pair = p, ![r].lvl = 0, ![r].pc = "markUsed"]
      BY <3>1 DEF InsertPair
    <3>3. req'[r].pc = "markUsed"
      BY <1>0, <3>2 DEF TypeOK, Local
    <3> QED BY <1>1, <3>3
  <2>3. ~CountItems(r) /\ ~ReadPoints(r)
    <3>1. ASSUME NEW n, NEW pc, req' = [req EXCEPT ![r].seen = n, ![r].pc = pc]
          PROVE  pc \in {"mkBuds", "bump"}
      <4>1. req'[r] = [req[r] EXCEPT !.seen = n, !.pc = pc]
        BY <1>0, <3>1 DEF TypeOK, Local
      <4>2. req'[r].pc = pc
        BY <1>0, <4>1 DEF Local
      <4> QED BY <1>1, <4>2
    <3>2. ~CountItems(r)
      BY <1>2, <3>1 DEF CountItems
    <3>3. ~ReadPoints(r)
      BY <1>2, <3>1 DEF ReadPoints
    <3> QED BY <3>2, <3>3
  <2>4. ~Dice(r) /\ ~FindClosed(r)
    <3>1. ASSUME NEW w, req' = [req EXCEPT ![r].won = w, ![r].pc = "freeSlot"] PROVE FALSE
      <4>1. req'[r] = [req[r] EXCEPT !.won = w, !.pc = "freeSlot"]
        BY <1>0, <3>1 DEF TypeOK, Local
      <4>2. req'[r].pc = "freeSlot"
        BY <1>0, <4>1 DEF Local
      <4> QED BY <1>1, <4>2
    <3>2. ASSUME NEW s, req' = [req EXCEPT ![r].slot = s, ![r].pc = "openSlot"] PROVE FALSE
      <4>1. req'[r] = [req[r] EXCEPT !.slot = s, !.pc = "openSlot"]
        BY <1>0, <3>2 DEF TypeOK, Local
      <4>2. req'[r].pc = "openSlot"
        BY <1>0, <4>1 DEF Local
      <4> QED BY <1>1, <4>2
    <3>3. ~Dice(r)
      BY <3>1 DEF Dice
    <3>4. ~FindClosed(r)
      <4>1. ~Goto(r, "mint")
        BY <1>3
      <4> QED BY <3>2, <4>1 DEF FindClosed
    <3> QED BY <3>3, <3>4
  <2>5. ~FindPairs(r) /\ ~FindPrevPairs(r)
    <3>1. ASSUME NEW H, req' = [req EXCEPT ![r].hits = H, ![r].pc = "failPairs"] PROVE FALSE
      <4>1. req'[r] = [req[r] EXCEPT !.hits = H, !.pc = "failPairs"]
        BY <1>0, <3>1 DEF TypeOK, Local
      <4>2. req'[r].pc = "failPairs"
        BY <1>0, <4>1 DEF Local
      <4> QED BY <1>1, <4>2
    <3>2. ~FindPairs(r)
      BY <1>2, <3>1 DEF FindPairs
    <3>3. ~FindPrevPairs(r)
      BY <1>2, <3>1 DEF FindPrevPairs
    <3> QED BY <3>2, <3>3
  <2> QED BY <2>1, <2>2, <2>3, <2>4, <2>5
<1>9. MkLevel(r) \/ MkBuds(r) \/ Record(r)
  BY <1>6, <1>7, <1>8 DEF Continue
<1>10. CASE Record(r)
  <2>1. SameWork(r) /\ AfterRecord(r) \in {"mkBuds", "bump"}
    BY <1>2, <1>3, <1>10 DEF Record
  <2>2. req[r].lvl + 1 > TargetLevel
    BY <2>1 DEF AfterRecord
  <2>3. req[r].lvl \in Nat /\ req'[r].lvl = req[r].lvl
    BY <1>0, <2>1, LevelAssumption DEF Local, SameWork
  <2> QED BY <1>1, <2>2, <2>3, LevelAssumption
<1>11. CASE MkLevel(r)
  <2>1. SameWork(r) /\ ~level[req[r].pair][req[r].lvl + 1].exists
    BY <1>2, <1>3, <1>11 DEF MkLevel, KeyTaken
  <2> QED BY <1>11, <2>1 DEF SameWork
<1>12. CASE MkBuds(r)
  <2>1. SameWork(r)
    BY <1>3, <1>12 DEF MkBuds
  <2> QED BY <1>1, <1>12, <2>1 DEF SameWork, Building, MkBuds, At
<1> QED BY <1>9, <1>10, <1>11, <1>12

\* The unique key admits one builder of a pair at a time.
LEMMA OneBuilderStep ==
  ASSUME BreedingInv, [Next]_vars, \A r \in Reqs : RequestInv(r)' PROVE OneBuilder'
<1> SUFFICES ASSUME NEW a \in Reqs, NEW b \in Reqs, a # b, Building(a)', Building(b)',
                    req'[a].pair = req'[b].pair
             PROVE  FALSE
  BY DEF OneBuilder
<1>0. TypeOK /\ OneBuilder /\ RequestInv(a) /\ RequestInv(b)
  BY DEF BreedingInv
<1>1. req'[a].lvl = req'[b].lvl
  BY DEF RequestInv, BuildsNext
<1>2. ASSUME NEW r \in {a, b}, NEW o \in {a, b}, r # o,
             Start(r) \/ Continue(r) \/ Abort(r)
      PROVE  FALSE
  <2>1. req'[o] = req[o] /\ Building(o)
    BY <1>0, <1>2, OthersKept DEF Building
  <2>2. /\ req'[r].pair = req[r].pair /\ req'[r].lvl = req[r].lvl
        /\ Building(r) \/ (MkLevel(r) /\ ~level[req[r].pair][req[r].lvl + 1].exists)
    BY <1>2, BuildingStarts
  <2>3. req[r].pair = req[o].pair /\ req[r].lvl = req[o].lvl
    BY <1>1, <1>2, <2>1, <2>2
  <2>4. level[req[o].pair][req[o].lvl + 1].exists
    BY <1>0, <1>2, <2>1 DEF RequestInv, BuildsNext
  <2> QED BY <1>0, <1>2, <2>1, <2>2, <2>3, <2>4 DEF OneBuilder
<1>3. ASSUME req'[a] = req[a], req'[b] = req[b] PROVE FALSE
  BY <1>0, <1>3 DEF OneBuilder, Building
<1>4. CASE Outside
  BY <1>3, <1>4 DEF Outside, Tick, TransferBud, TransferItem, vars
<1>5. ASSUME NEW r \in Reqs, Start(r) \/ Continue(r) \/ Abort(r) PROVE FALSE
  BY <1>0, <1>2, <1>3, <1>5, OthersKept
<1> QED BY <1>4, <1>5, NextCases

-----------------------------------------------------------------------------
(* The theorems *)

LEMMA InvInit == Init => BreedingInv
<1> SUFFICES ASSUME Init PROVE BreedingInv
  OBVIOUS
<1>1. TypeOK
  BY InitType
<1>2. ASSUME NEW p \in Pairs
      PROVE  /\ pair[p].status = "NONE" /\ pair[p].level = 0 /\ gen1[p].issued = 0
             /\ \A k \in Levels : ~level[p][k].exists /\ ~level[p][k].evaluated
  BY DEF Init, NoPair, NoLevel
<1>3. Ladder
  BY <1>2, LevelAssumption DEF Ladder, Levels
<1>4. \A p \in Pairs : Unborn(p) /\ EvaluatedInTime(p)
  BY <1>2 DEF Unborn, EvaluatedInTime
<1>5. \A r \in Reqs : req[r].op = "none" /\ req[r].pc = "idle"
  BY DEF Init, Idle
<1>6. ASSUME NEW r \in Reqs PROVE RequestInv(r)
  BY <1>5
  DEF RequestInv, OpMatchesPc, KnowsPair, RightLevel, Charged, Evaluated, BuildsNext,
      Building, PastRecord
<1>7. OneBuilder
  BY <1>5 DEF OneBuilder, Building
<1>8. RewardBase
  BY <1>2 DEF RewardBase
<1> QED BY <1>1, <1>3, <1>4, <1>6, <1>7, <1>8 DEF BreedingInv

LEMMA InvStep == BreedingInv /\ [Next]_vars => BreedingInv'
<1> SUFFICES ASSUME BreedingInv, [Next]_vars PROVE BreedingInv'
  OBVIOUS
<1>1. TypeOK'
  BY TypeStep DEF BreedingInv
<1>2. Grows
  BY GrowsStep
<1>3. Ladder'
  BY <1>1, <1>2, LadderStep
<1>4. \A p \in Pairs : Unborn(p)' /\ EvaluatedInTime(p)'
  BY <1>1, <1>2, UnbornStep, EvaluatedInTimeStep
<1>5. \A r \in Reqs : RequestInv(r)'
  BY RequestStep
<1>6. OneBuilder'
  BY <1>5, OneBuilderStep
<1>7. RewardBase'
  BY <1>2, RewardBaseStep
<1> QED BY <1>1, <1>3, <1>4, <1>5, <1>6, <1>7 DEF BreedingInv, Pairs

\* What the requests know, the ladder, the unique builder and the base of the
\* reward hold in every reachable state, whatever requests overlap, fail or are
\* interrupted (all the handlers of BreedController and AdminController here).
THEOREM Invariance == Spec => []BreedingInv
  BY InvInit, InvStep, PTL DEF Spec

\* The tables keep to the schema and breeding points never go below zero.
THEOREM TypeCorrect == Spec => []TypeOK
<1>1. BreedingInv => TypeOK
  BY DEF BreedingInv
<1> QED BY <1>1, Invariance, PTL

\* No overlap or failure of levelUp requests skips a level, its price or its time.
THEOREM LadderHolds == Spec => []Ladder
<1>1. BreedingInv => Ladder
  BY DEF BreedingInv
<1> QED BY <1>1, Invariance, PTL

LEMMA EarnedFromInv == BreedingInv => RewardEarned
<1> SUFFICES ASSUME BreedingInv, NEW p \in Pairs,
                    gen1[p].issued > 0 \/ pair[p].status = "COMPLETED"
             PROVE  /\ level[p][TargetLevel].evaluated
                    /\ BreedTimeElapsed(level[p][TargetLevel].created, pair[p].item)
                    /\ \A k \in 1..(TargetLevel - 1) : Climbed(p, k)
  BY DEF RewardEarned
<1>1. TargetLevel \in Levels /\ Ladder
  BY LevelAssumption DEF Levels, BreedingInv
<1>2. /\ level[p][TargetLevel].evaluated /\ level[p][TargetLevel].exists
      /\ BreedTimeElapsed(level[p][TargetLevel].created, pair[p].item)
  BY <1>1 DEF BreedingInv, RewardBase, EvaluatedInTime
<1>3. pair[p].level \in Nat
  <2>1. pair[p] \in PairRow
    BY DEF BreedingInv, TypeOK
  <2> QED BY <2>1, LevelAssumption DEF PairRow
<1>4. TargetLevel <= pair[p].level + 1
  BY <1>1, <1>2 DEF Ladder
<1>5. ASSUME NEW k \in 1..(TargetLevel - 1) PROVE Climbed(p, k)
  <2>1. k + 1 \in Levels /\ k + 1 > 1 /\ k + 1 - 1 = k
    BY LevelAssumption DEF Levels
  <2>2. level[p][k + 1].exists
    <3>1. CASE k + 1 = TargetLevel
      BY <1>2, <3>1
    <3>2. CASE k + 1 # TargetLevel
      <4>1. k + 1 <= pair[p].level
        BY <1>3, <1>4, <3>2, LevelAssumption
      <4> QED BY <1>1, <2>1, <4>1 DEF Ladder
    <3> QED BY <3>1, <3>2
  <2>3. Climbed(p, k + 1 - 1)
    BY <1>1, <2>1, <2>2 DEF Ladder
  <2> QED BY <2>1, <2>3
<1> QED BY <1>2, <1>5

\* A Gen1 bud is only ever earned by evaluating every level in time and paying for
\* every level but the last.
THEOREM RewardIsEarned == Spec => []RewardEarned
  BY Invariance, EarnedFromInv, PTL

\* currentLevel never falls and never skips, though it is written from stale copies.
THEOREM LevelClimbs == Spec => LevelNeverFalls
<1>1. BreedingInv /\ [Next]_vars
        => [\A p \in Pairs : pair'[p].level \in {pair[p].level, pair[p].level + 1}]_vars
  BY GrowsStep DEF Grows
<1> QED BY <1>1, Invariance, PTL DEF Spec, LevelNeverFalls

=============================================================================
