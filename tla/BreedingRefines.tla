-------------------------- MODULE BreedingRefines --------------------------
(***************************************************************************)
(* Breeding implements PairLadder: a proof that every step of every        *)
(* request, overlapping and failing as they may, is a step of the ladder   *)
(* of one pair (of several, when they are settled together) or none.       *)
(***************************************************************************)
EXTENDS BreedingProofs

\* A pair that climbed beyond the last level has proved and paid it.
Topped(p) ==
  pair[p].level > TargetLevel => level[p][TargetLevel].evaluated /\ TargetLevel \in paid[p]

\* A level row is not of the future.
Begun(p) == \A k \in Levels : level[p][k].exists => level[p][k].created <= now

\* The pairs a request is about to fail were there when it found them.
HitsExist(r) == \A p \in req[r].hits : pair[p].status # "NONE"

\* What the step simulation needs of the requests and the tables.
PromiseInv ==
  /\ BreedingInv
  /\ \A p \in Pairs : Topped(p) /\ Begun(p)
  /\ \A r \in Reqs : HitsExist(r)

-----------------------------------------------------------------------------
(* PromiseInv is an invariant *)

LEMMA PromiseInit == Init => PromiseInv
<1> SUFFICES ASSUME Init PROVE PromiseInv
  OBVIOUS
<1>1. \A p \in Pairs : pair[p].level = 0 /\ \A k \in Levels : ~level[p][k].exists
  BY DEF Init, NoPair, NoLevel
<1>2. \A p \in Pairs : Topped(p) /\ Begun(p)
  BY <1>1, LevelAssumption DEF Topped, Begun
<1>3. \A r \in Reqs : HitsExist(r)
  BY DEF Init, Idle, HitsExist
<1> QED BY <1>2, <1>3, InvInit DEF PromiseInv

LEMMA ToppedStep ==
  ASSUME PromiseInv, [Next]_vars, NEW p \in Pairs PROVE Topped(p)'
<1>1. BreedingInv /\ Grows /\ TypeOK
  BY GrowsStep DEF PromiseInv, BreedingInv
<1>2. TargetLevel \in Levels
  BY LevelAssumption DEF Levels
<1>3. ASSUME level[p][TargetLevel].evaluated, TargetLevel \in paid[p]
      PROVE  Topped(p)'
  BY <1>1, <1>2, <1>3, EvaluatedExists DEF Grows, Topped
<1>4. CASE pair'[p].level = pair[p].level
  BY <1>3, <1>4 DEF PromiseInv, Topped
<1>5. CASE pair'[p].level # pair[p].level /\ pair'[p].level > TargetLevel
  <2>1. PICK r \in Reqs : Bump(r) /\ req[r].pair = p /\ req[r].lvl = pair[p].level
    BY <1>1, <1>5, LevelMoves
  <2>2. RequestInv(r) /\ req[r].pc = "bump"
    BY <1>1, <2>1 DEF BreedingInv, Bump, At
  <2>3. pair'[p].level = pair[p].level + 1 /\ pair[p].level \in Nat
    <3>1. pair[p] \in PairRow
      BY <1>1 DEF TypeOK
    <3> QED BY <1>1, <1>5, <3>1, LevelAssumption DEF Grows, PairRow
  <2>4. req[r].lvl # 0
    BY <1>5, <2>1, <2>3, LevelAssumption
  <2>5. req[r].op = "levelUp"
    BY <2>2, <2>4 DEF RequestInv, OpMatchesPc, RightLevel
  <2>6. req[r].lvl <= TargetLevel /\ req[r].lvl = pair[p].level
    BY <2>1, <2>2, <2>5 DEF RequestInv, RightLevel
  <2>7. req[r].lvl = TargetLevel
    BY <1>5, <2>3, <2>6, LevelAssumption
  <2>8. level[p][TargetLevel].evaluated /\ TargetLevel \in paid[p]
    BY <2>1, <2>2, <2>5, <2>7 DEF RequestInv, Charged, Evaluated
  <2> QED BY <1>3, <2>8
<1> QED BY <1>4, <1>5 DEF Topped

LEMMA BegunStep ==
  ASSUME PromiseInv, [Next]_vars, NEW p \in Pairs PROVE Begun(p)'
<1>1. BreedingInv /\ Grows /\ TypeOK /\ TypeOK'
  BY GrowsStep, InvStep DEF PromiseInv, BreedingInv
<1>2. SUFFICES ASSUME NEW k \in Levels, level'[p][k].exists PROVE level'[p][k].created <= now'
  BY DEF Begun
<1>3. now \in Nat /\ now' \in Nat /\ now <= now' /\ level[p][k].created \in Nat
  <2>1. level[p][k] \in LevelRow
    BY <1>1 DEF TypeOK
  <2> QED BY <1>1, <2>1 DEF TypeOK, Grows, LevelRow
<1>4. CASE level[p][k].exists
  <2>1. level'[p][k].created = level[p][k].created /\ level[p][k].created <= now
    BY <1>1, <1>4 DEF Grows, PromiseInv, Begun
  <2> QED BY <1>3, <2>1
<1>5. CASE ~level[p][k].exists
  <2>1. level'[p][k].created = now
    BY <1>1, <1>2, <1>5, RowInserted
  <2> QED BY <1>3, <2>1
<1> QED BY <1>4, <1>5

\* A request takes hits from its query of pairs only.
LEMMA HitsMove ==
  ASSUME TypeOK, NEW r \in Reqs, Start(r) \/ Continue(r) \/ Abort(r),
         ~FindPairs(r), ~FindPrevPairs(r)
  PROVE  req'[r].hits \subseteq req[r].hits
<1>1. req[r] \in Local /\ req \in [Reqs -> Local]
  BY DEF TypeOK
<1>2. ASSUME Reply(r) PROVE req'[r].hits = {}
  BY <1>2, ReplyFields DEF Idle
<1>3. ASSUME NEW pc, Goto(r, pc) PROVE req'[r].hits = req[r].hits
  <2>1. req'[r] = [req[r] EXCEPT !.pc = pc]
    BY <1>1, <1>3 DEF Goto
  <2> QED BY <1>1, <2>1 DEF Local
<1>4. CASE Start(r)
  <2>1. ASSUME NEW x, req' = [req EXCEPT ![r] = x] PROVE req'[r] = x
    BY <1>1, <2>1
  <2>2. /\ \A u, m, f, i : CreateLocals(u, m, f, i).hits = {}
        /\ \A u, p : LevelUpLocals(u, p).hits = {} /\ FinalizeLocals(u, p).hits = {}
        /\ \A p : CancelLocals(p).hits = {}
        /\ \A u, m, f : InvalidateLocals(u, m, f).hits = {}
        /\ \A u, b : AdminLocals(u, b).hits = {}
        /\ \A u, key : SlotsLocals(u, key).hits = {}
    BY DEF CreateLocals, LevelUpLocals, FinalizeLocals, CancelLocals, InvalidateLocals,
           AdminLocals, SlotsLocals, Idle
  <2>3. ASSUME CreateBegin(r) PROVE req'[r].hits = {}
    <3>1. PICK u \in Users, m \in MaleBuds, f \in FemaleBuds, i \in Items \union {None} :
            req' = [req EXCEPT ![r] = CreateLocals(u, m, f, i)]
      BY <2>3 DEF CreateBegin
    <3> QED BY <2>1, <2>2, <3>1
  <2>4. LevelUpBegin(r) => req'[r].hits = {}
    BY <2>1, <2>2, Zenon DEF LevelUpBegin
  <2>5. FinalizeBegin(r) => req'[r].hits = {}
    BY <2>1, <2>2, Zenon DEF FinalizeBegin
  <2>6. CancelBegin(r) => req'[r].hits = {}
    BY <2>1, <2>2, Zenon DEF CancelBegin
  <2>7. ASSUME InvalidateBegin(r) PROVE req'[r].hits = {}
    <3>1. PICK u \in Users, m \in MaleBuds, f \in FemaleBuds :
            req' = [req EXCEPT ![r] = InvalidateLocals(u, m, f)]
      BY <2>7 DEF InvalidateBegin
    <3> QED BY <2>1, <2>2, <3>1
  <2>8. AdminInvalidateBegin(r) => req'[r].hits = {}
    BY <2>1, <2>2, Zenon DEF AdminInvalidateBegin
  <2>9. InvalidateSlotsBegin(r) => req'[r].hits = {}
    BY <2>1, <2>2, Zenon DEF InvalidateSlotsBegin
  <2> QED BY <1>4, <2>3, <2>4, <2>5, <2>6, <2>7, <2>8, <2>9 DEF Start
<1>5. CASE Abort(r)
  BY <1>2, <1>5 DEF Abort
<1>6. CASE Continue(r)
  <2>1. CASE CheckItem(r) \/ CountPairs(r) \/ UpgradeSlot(r) \/ MarkUsed(r) \/ VerifyBuds(r)
             \/ MkBuds(r) \/ Bump(r) \/ WritePoints(r) \/ Evaluate(r)
    BY <1>2, <1>3, <2>1
    DEF CheckItem, CountPairs, UpgradeSlot, MarkUsed, VerifyBuds, MkBuds, Bump,
        WritePoints, Evaluate
  <2>2. CASE FreeSlot(r) \/ Settle(r) \/ OpenSlot(r) \/ Mint(r) \/ Sign(r) \/ CancelPair(r)
             \/ FailPairs(r) \/ FreeSlots(r) \/ DeleteSlots(r) \/ FailOnSlots(r)
    BY <1>2, <1>3, <2>2
    DEF FreeSlot, Settle, OpenSlot, Mint, Sign, CancelPair, FailPairs, FreeSlots,
        DeleteSlots, FailOnSlots
  <2>3. CASE MkLevel(r) \/ Record(r)
    BY <1>2, <1>3, <2>3 DEF MkLevel, Record
  <2>4. CASE FindSlot(r)
    <3>1. ASSUME NEW s, NEW pc, req' = [req EXCEPT ![r].slot = s, ![r].pc = pc]
          PROVE  req'[r].hits = req[r].hits
      <4>1. req'[r] = [req[r] EXCEPT !.slot = s, !.pc = pc]
        BY <1>1, <3>1 DEF Local
      <4> QED BY <1>1, <4>1 DEF Local
    <3> QED BY <1>2, <2>4, <3>1, Zenon DEF FindSlot
  <2>5. CASE InsertPair(r)
    <3>1. PICK p : req' = [req EXCEPT ![r].pair = p, ![r].lvl = 0, ![r].pc = "markUsed"]
      BY <2>5 DEF InsertPair
    <3>2. req'[r] = [req[r] EXCEPT !.pair = p, !.lvl = 0, !.pc = "markUsed"]
      BY <1>1, <3>1 DEF Local
    <3> QED BY <1>1, <3>2 DEF Local
  <2>6. CASE CountItems(r) \/ ReadPoints(r)
    <3>1. Reply(r) \/ \E n, pc : req' = [req EXCEPT ![r].seen = n, ![r].pc = pc]
      BY <2>6, Zenon DEF CountItems, ReadPoints
    <3>2. ASSUME NEW n, NEW pc, req' = [req EXCEPT ![r].seen = n, ![r].pc = pc]
          PROVE  req'[r].hits = req[r].hits
      <4>1. req'[r] = [req[r] EXCEPT !.seen = n, !.pc = pc]
        BY <1>1, <3>2 DEF Local
      <4> QED BY <1>1, <4>1 DEF Local
    <3> QED BY <1>2, <3>1, <3>2
  <2>7. CASE Dice(r)
    <3>1. PICK w : req' = [req EXCEPT ![r].won = w, ![r].pc = "freeSlot"]
      BY <2>7 DEF Dice
    <3>2. req'[r] = [req[r] EXCEPT !.won = w, !.pc = "freeSlot"]
      BY <1>1, <3>1 DEF Local
    <3> QED BY <1>1, <3>2 DEF Local
  <2>8. CASE FindClosed(r)
    <3>1. (\E pc : Goto(r, pc)) \/ \E s : req' = [req EXCEPT ![r].slot = s, ![r].pc = "openSlot"]
      BY <2>8 DEF FindClosed
    <3>2. ASSUME NEW s, req' = [req EXCEPT ![r].slot = s, ![r].pc = "openSlot"]
          PROVE  req'[r].hits = req[r].hits
      <4>1. req'[r] = [req[r] EXCEPT !.slot = s, !.pc = "openSlot"]
        BY <1>1, <3>2 DEF Local
      <4> QED BY <1>1, <4>1 DEF Local
    <3> QED BY <1>3, <3>1, <3>2
  <2> QED BY <1>6, <2>1, <2>2, <2>3, <2>4, <2>5, <2>6, <2>7, <2>8 DEF Continue
<1> QED BY <1>4, <1>5, <1>6

LEMMA HitsExistStep ==
  ASSUME PromiseInv, [Next]_vars, NEW q \in Reqs PROVE HitsExist(q)'
<1>1. BreedingInv /\ TypeOK /\ Grows /\ HitsExist(q) /\ req[q] \in Local
  BY GrowsStep DEF PromiseInv, BreedingInv, TypeOK
<1>2. ASSUME req'[q].hits \subseteq req[q].hits PROVE HitsExist(q)'
  BY <1>1, <1>2 DEF HitsExist, Grows, Local
<1>3. CASE Outside
  BY <1>2, <1>3 DEF Outside, Tick, TransferBud, TransferItem, vars
<1>4. ASSUME NEW r \in Reqs, Start(r) \/ Continue(r) \/ Abort(r), r # q PROVE HitsExist(q)'
  <2>1. req'[q] = req[q]
    BY <1>1, <1>4, OthersKept
  <2> QED BY <1>2, <2>1
<1>5. CASE Start(q) \/ Continue(q) \/ Abort(q)
  <2>1. CASE FindPairs(q) \/ FindPrevPairs(q)
    <3>1. CASE Reply(q)
      BY <1>1, <1>2, <3>1, ReplyFields DEF Idle
    <3>2. CASE ~Reply(q)
      <4>1. PICK H : /\ req' = [req EXCEPT ![q].hits = H, ![q].pc = "failPairs"]
                     /\ \A p \in H : p \in Pairs /\ IsPaired(p)
        BY <2>1, <3>2
        DEF FindPairs, FindPrevPairs, ForeignPairs, InBreeding, PairsOfPrevOwner, OwnPairs
      <4>2. req'[q] = [req[q] EXCEPT !.hits = H, !.pc = "failPairs"]
        BY <1>1, <4>1 DEF TypeOK, Local
      <4>3. req'[q].hits = H
        BY <1>1, <4>2 DEF Local
      <4> QED BY <1>1, <4>1, <4>3 DEF HitsExist, Grows, IsPaired
    <3> QED BY <3>1, <3>2
  <2>2. CASE ~FindPairs(q) /\ ~FindPrevPairs(q)
    BY <1>1, <1>2, <1>5, <2>2, HitsMove
  <2> QED BY <2>1, <2>2
<1> QED BY <1>3, <1>4, <1>5, NextCases

LEMMA PromiseInvStep == PromiseInv /\ [Next]_vars => PromiseInv'
<1> SUFFICES ASSUME PromiseInv, [Next]_vars PROVE PromiseInv'
  OBVIOUS
<1>1. BreedingInv'
  BY InvStep DEF PromiseInv
<1> QED BY <1>1, ToppedStep, BegunStep, HitsExistStep DEF PromiseInv, Pairs

-----------------------------------------------------------------------------
(* What a step leaves of a pair as it is seen *)

LEMMA PairSame == UNCHANGED pair => UNCHANGED <<SeenStatus, SeenLevel, SeenTerm>>
  BY DEF SeenStatus, SeenLevel, SeenTerm

LEMMA LevelSame == UNCHANGED <<pair, level>> => UNCHANGED <<SeenSince, SeenProved>>
  BY DEF SeenSince, SeenProved, LevelSince

LEMMA PaidSame == UNCHANGED paid => UNCHANGED SeenPaid
  BY DEF SeenPaid

LEMMA RewardsSame == UNCHANGED gen1 => UNCHANGED SeenRewards
  BY DEF SeenRewards

LEMMA NothingSeen ==
  ASSUME UNCHANGED <<SeenStatus, SeenLevel, SeenSince, SeenTerm, SeenProved, SeenPaid,
                     SeenRewards, now>>
  PROVE  UNCHANGED Promise!ladder
  BY DEF Promise!ladder

LEMMA AllSame ==
  ASSUME UNCHANGED <<pair, level, paid, gen1, now>> PROVE UNCHANGED Promise!ladder
  BY PairSame, LevelSame, PaidSame, RewardsSame, NothingSeen

\* A level below the one a pair stands on was proved and paid.
LEMMA Below ==
  ASSUME PromiseInv, NEW p \in Pairs, NEW k \in Levels, k < pair[p].level
  PROVE  level[p][k].evaluated /\ k \in paid[p]
<1>0. Ladder
  BY DEF PromiseInv, BreedingInv
<1>1. pair[p].level \in 0..(TargetLevel + 1) /\ Topped(p)
  BY DEF PromiseInv, BreedingInv, TypeOK, PairRow
<1>2. CASE k = TargetLevel
  BY <1>1, <1>2, LevelAssumption DEF Topped
<1>3. CASE k # TargetLevel
  <2>1. PICK j \in Levels : j = k + 1
    BY <1>3, LevelAssumption DEF Levels
  <2>2. j <= pair[p].level /\ j > 1 /\ j - 1 = k
    BY <1>1, <2>1 DEF Levels
  <2>3. level[p][j].exists
    BY <1>0, <2>2 DEF Ladder
  <2>4. Climbed(p, j - 1)
    BY <1>0, <2>2, <2>3 DEF Ladder
  <2> QED BY <2>2, <2>4 DEF Climbed
<1> QED BY <1>2, <1>3

-----------------------------------------------------------------------------
(* The steps the ladder does not see, or sees as its own *)

LEMMA TickSeen == ASSUME Tick PROVE Promise!Tick
<1>1. UNCHANGED <<pair, level, paid, gen1>> /\ now' = now + 1
  BY DEF Tick, tables
<1> QED BY <1>1, PairSame, LevelSame, PaidSame, RewardsSame DEF Promise!Tick

LEMMA CreateSeen ==
  ASSUME PromiseInv, NEW r \in Reqs, InsertPair(r) PROVE \E p \in Pairs : Promise!Create(p)
<1>1. TypeOK /\ \A p \in Pairs : Unborn(p)
  BY DEF PromiseInv, BreedingInv
<1>2. PICK p \in Pairs : /\ NextId(p)
                         /\ pair' = [pair EXCEPT ![p] =
                              [status |-> "PAIRED", user |-> req[r].user, male |-> req[r].male,
                               female |-> req[r].female, item |-> req[r].item,
                               slot |-> req[r].slot, level |-> 0]]
  BY DEF InsertPair
<1>3. pair[p].status = "NONE" /\ pair[p].level = 0
  BY <1>1, <1>2 DEF NextId, Unborn
<1>4. /\ pair'[p].status = "PAIRED" /\ pair'[p].level = 0
      /\ \A q \in Pairs : q # p => pair'[q] = pair[q]
  BY <1>1, <1>2 DEF TypeOK
<1>5. SeenStatus[p] = "NONE" /\ SeenStatus' = [SeenStatus EXCEPT ![p] = "PAIRED"]
  BY <1>3, <1>4 DEF SeenStatus
<1>6. SeenTerm' = [SeenTerm EXCEPT ![p] = SeenTerm'[p]] /\ SeenTerm'[p] \in Nat
  BY <1>4, BreedTimeType DEF SeenTerm
<1>7. UNCHANGED SeenLevel
  BY <1>3, <1>4 DEF SeenLevel
<1>8. UNCHANGED <<level, paid, gen1, now>>
  BY DEF InsertPair
<1>9. UNCHANGED <<SeenSince, SeenProved>>
  BY <1>3, <1>4, <1>8 DEF SeenSince, SeenProved, LevelSince
<1> QED BY <1>5, <1>6, <1>7, <1>8, <1>9, PaidSame, RewardsSame DEF Promise!Create

LEMMA PaySeen ==
  ASSUME PromiseInv, NEW r \in Reqs, WritePoints(r)
  PROVE  UNCHANGED Promise!ladder \/ \E p \in Pairs : Promise!Pay(p)
<1> DEFINE p == req[r].pair
           k == req[r].lvl
<1>1. TypeOK /\ RequestInv(r) /\ req[r] \in Local /\ req[r].pc = "writePoints"
  BY DEF PromiseInv, BreedingInv, TypeOK, WritePoints, At
<1>2. p \in Pairs /\ k <= pair[p].level /\ k \in Nat /\ pair[p].level \in Nat
  BY <1>1, LevelAssumption DEF RequestInv, OpMatchesPc, KnowsPair, Local, TypeOK, PairRow
<1>3. /\ paid' = [paid EXCEPT ![p] = paid[p] \union {k}]
      /\ UNCHANGED <<pair, level, gen1, now>> /\ paid \in [Pairs -> SUBSET (0..TargetLevel)]
  BY <1>1 DEF WritePoints, TypeOK
<1> HIDE DEF p, k
<1>4. CASE k \in Levels /\ k = pair[p].level
  <2>1. SeenLevel[p] = k /\ SeenLevel[p] \in Levels
    BY <1>2, <1>4 DEF SeenLevel
  <2>2. SeenPaid' = [SeenPaid EXCEPT ![p] = SeenPaid[p] \union {SeenLevel[p]}]
    BY <1>2, <1>3, <1>4, <2>1 DEF SeenPaid
  <2>3. Promise!Pay(p)
    BY <1>3, <2>1, <2>2, PairSame, LevelSame, RewardsSame
    DEF Promise!Pay, Promise!Levels, Levels
  <2> QED BY <1>2, <2>3
<1>5. CASE k \notin Levels \/ k # pair[p].level
  <2>1. k \in Levels => k \in paid[p]
    BY <1>2, <1>5, Below
  <2>2. UNCHANGED SeenPaid
    BY <1>2, <1>3, <2>1 DEF SeenPaid
  <2> QED BY <1>3, <2>2, PairSame, LevelSame, RewardsSame, NothingSeen
<1> QED BY <1>4, <1>5

LEMMA ProveSeen ==
  ASSUME PromiseInv, NEW r \in Reqs, Record(r)
  PROVE  UNCHANGED Promise!ladder \/ \E p \in Pairs : Promise!Prove(p)
<1> DEFINE p == req[r].pair
           k == req[r].lvl
<1>1. TypeOK /\ RequestInv(r) /\ req[r] \in Local /\ req[r].pc = "record"
  BY DEF PromiseInv, BreedingInv, TypeOK, Record, At
<1>2. /\ p \in Pairs /\ k \in Levels /\ k <= pair[p].level
      /\ BreedTimeElapsed(level[p][k].created, pair[p].item)
  BY <1>1 DEF RequestInv, OpMatchesPc, KnowsPair, Evaluated
<1>3. UNCHANGED <<pair, paid, gen1, now>>
  BY DEF Record, chain
<1>4. CASE UNCHANGED level
  BY <1>3, <1>4, AllSame
<1>5. ASSUME NEW c, level' = [level EXCEPT ![p][k] =
                               [level[p][k] EXCEPT !.evaluated = TRUE, !.bonus = c]]
      PROVE  UNCHANGED Promise!ladder \/ \E q \in Pairs : Promise!Prove(q)
  <2> HIDE DEF p, k
  <2>1. level'[p][k] = [level[p][k] EXCEPT !.evaluated = TRUE, !.bonus = c]
    BY <1>1, <1>2, <1>5 DEF TypeOK
  <2>2. level'[p][k].evaluated /\ level'[p][k].created = level[p][k].created
    <3>1. level[p][k] \in LevelRow
      BY <1>1, <1>2 DEF TypeOK
    <3> QED BY <2>1, <3>1 DEF LevelRow
  <2>3. \A q \in Pairs, j \in Levels : q # p \/ j # k => level'[q][j] = level[q][j]
    BY <1>1, <1>2, <1>5 DEF TypeOK
  <2>4. UNCHANGED SeenSince
    BY <1>3, <2>2, <2>3 DEF SeenSince, LevelSince
  <2>5. CASE k = pair[p].level
    <3>1. SeenLevel[p] = k /\ SeenSince[p] = level[p][k].created
          /\ SeenTerm[p] = GetBreedTime(pair[p].item)
      BY <1>2, <2>5 DEF SeenLevel, SeenSince, SeenTerm, LevelSince
    <3>2. now - SeenSince[p] >= SeenTerm[p]
      BY <1>2, <3>1 DEF BreedTimeElapsed
    <3>3. SeenProved' = [SeenProved EXCEPT ![p] = SeenProved[p] \union {SeenLevel[p]}]
      <4>1. {j \in Levels : level'[p][j].evaluated}
              = {j \in Levels : level[p][j].evaluated} \union {k}
        BY <1>2, <2>2, <2>3
      <4>2. \A q \in Pairs : q # p => {j \in Levels : level'[q][j].evaluated}
                                      = {j \in Levels : level[q][j].evaluated}
        BY <1>2, <2>3
      <4> QED BY <1>2, <3>1, <4>1, <4>2 DEF SeenProved
    <3>4. SeenLevel[p] \in Levels
      BY <1>2, <3>1
    <3>5. Promise!Prove(p)
      BY <1>3, <2>4, <3>2, <3>3, <3>4, PairSame, PaidSame, RewardsSame
      DEF Promise!Prove, Promise!Levels, Levels
    <3> QED BY <1>2, <3>5
  <2>6. CASE k # pair[p].level
    <3>1. level[p][k].evaluated
      <4>1. k \in Nat /\ pair[p].level \in Nat
        BY <1>1, <1>2, LevelAssumption DEF Levels, TypeOK, PairRow
      <4> QED BY <1>2, <2>6, <4>1, Below
    <3>2. UNCHANGED SeenProved
      BY <2>2, <2>3, <3>1 DEF SeenProved
    <3> QED BY <1>3, <2>4, <3>2, PairSame, PaidSame, RewardsSame, NothingSeen
  <2> QED BY <2>5, <2>6
<1> QED BY <1>4, <1>5 DEF Record

\* Rows above the one a pair stands on, and their buds, are not seen.
LEMMA BuildSeen ==
  ASSUME PromiseInv, NEW r \in Reqs, MkLevel(r) \/ MkBuds(r) PROVE UNCHANGED Promise!ladder
<1> DEFINE p == req[r].pair
           k == req[r].lvl + 1
<1>1. TypeOK /\ RequestInv(r) /\ req[r] \in Local /\ Ladder
  BY DEF PromiseInv, BreedingInv, TypeOK
<1>2. UNCHANGED <<pair, paid, gen1, now>>
  BY DEF MkLevel, MkBuds, chain
<1>3. p \in Pairs /\ k \in Levels
  <2>1. req[r].pc \in {"mkLevel", "mkBuds"}
    BY DEF MkLevel, MkBuds, At
  <2>2. p \in Pairs /\ req[r].lvl < TargetLevel /\ req[r].lvl \in Nat
    BY <1>1, <2>1, LevelAssumption DEF RequestInv, KnowsPair, RightLevel, Local
  <2> QED BY <2>2, LevelAssumption DEF Levels
<1>4. level[p][k] \in LevelRow
  BY <1>1, <1>3 DEF TypeOK
<1>5. \/ UNCHANGED level
      \/ /\ \A q \in Pairs, j \in Levels : q # p \/ j # k => level'[q][j] = level[q][j]
         /\ level'[p][k].evaluated = level[p][k].evaluated
         /\ level'[p][k].created = level[p][k].created \/ k # pair[p].level
  <2>1. CASE MkLevel(r)
    <3>1. CASE KeyTaken(p, k)
      BY <2>1, <3>1 DEF MkLevel
    <3>2. CASE ~KeyTaken(p, k)
      <4>1. /\ ~level[p][k].exists
            /\ level' = [level EXCEPT ![p][k] =
                          [exists |-> TRUE, buds |-> FALSE, evaluated |-> FALSE,
                           bonus |-> 0, created |-> now]]
        BY <2>1, <3>2 DEF MkLevel, KeyTaken
      <4>2. ~level[p][k].evaluated
        BY <1>3, <4>1, EvaluatedExists DEF PromiseInv
      <4>3. k # pair[p].level
        <5>1. k \in Nat
          BY <1>3 DEF Levels
        <5> QED BY <1>1, <1>3, <4>1, <5>1 DEF Ladder
      <4> HIDE DEF p, k
      <4>4. /\ \A q \in Pairs, j \in Levels : q # p \/ j # k => level'[q][j] = level[q][j]
            /\ level'[p][k].evaluated = FALSE
        BY <1>1, <1>3, <4>1 DEF TypeOK
      <4>5. level'[p][k].evaluated = level[p][k].evaluated
        BY <1>4, <4>2, <4>4 DEF LevelRow
      <4> QED BY <4>3, <4>4, <4>5
    <3> QED BY <3>1, <3>2
  <2>2. CASE MkBuds(r)
    <3>1. level' = [level EXCEPT ![p][k] = [level[p][k] EXCEPT !.buds = TRUE]]
      BY <2>2 DEF MkBuds
    <3> HIDE DEF p, k
    <3>2. /\ \A q \in Pairs, j \in Levels : q # p \/ j # k => level'[q][j] = level[q][j]
          /\ level'[p][k] = [level[p][k] EXCEPT !.buds = TRUE]
      BY <1>1, <1>3, <3>1 DEF TypeOK
    <3>3. /\ level'[p][k].evaluated = level[p][k].evaluated
          /\ level'[p][k].created = level[p][k].created
      BY <1>4, <3>2, LevelBudsFields
    <3> QED BY <3>2, <3>3
  <2> QED BY <2>1, <2>2
<1> HIDE DEF p, k
<1>6. UNCHANGED <<SeenSince, SeenProved>>
  BY <1>2, <1>3, <1>5, LevelSame DEF SeenSince, SeenProved, LevelSince
<1> QED BY <1>2, <1>6, PairSame, PaidSame, RewardsSame, NothingSeen

LEMMA ClimbSeen ==
  ASSUME PromiseInv, NEW r \in Reqs, Bump(r)
  PROVE  UNCHANGED Promise!ladder \/ \E p \in Pairs : Promise!Climb(p)
<1> DEFINE p == req[r].pair
           k == req[r].lvl
<1>1. /\ TypeOK /\ RequestInv(r) /\ req[r] \in Local /\ req[r].pc = "bump" /\ Ladder
      /\ \A q \in Pairs : Begun(q)
  BY DEF PromiseInv, BreedingInv, TypeOK, Bump, At
<1>2. /\ p \in Pairs /\ k \in 0..TargetLevel /\ pair[p].status # "NONE"
      /\ pair[p].level \in 0..(TargetLevel + 1) /\ now \in Nat
      /\ k + 1 \in {pair[p].level, pair[p].level + 1}
  <2>1. p \in Pairs /\ pair[p].status # "NONE" /\ k \in 0..TargetLevel
    BY <1>1, LevelAssumption DEF RequestInv, KnowsPair, RightLevel, OpMatchesPc, Local
  <2>2. pair[p].level \in 0..(TargetLevel + 1) /\ now \in Nat
    BY <1>1, <2>1 DEF TypeOK, PairRow
  <2>3. BreedingInv
    BY DEF PromiseInv
  <2> QED BY <2>1, <2>2, <2>3, BumpLevel
<1>3. /\ pair' = [pair EXCEPT ![p] = [pair[p] EXCEPT !.level = k + 1]]
      /\ UNCHANGED <<level, paid, gen1, now>>
  BY DEF Bump
<1>4. k > 0 => /\ k \in Levels /\ level[p][k].evaluated /\ k \in paid[p]
  <2>1. k > 0 => req[r].op = "levelUp"
    BY <1>1, <1>2 DEF RequestInv, OpMatchesPc, RightLevel
  <2> QED BY <1>1, <2>1 DEF RequestInv, Charged, Evaluated
<1>5. k < TargetLevel => level[p][k + 1].exists /\ pair[p].level = k
  BY <1>1 DEF RequestInv, BuildsNext, Building
<1> HIDE DEF p, k
<1>6. /\ \A q \in Pairs : q # p => pair'[q] = pair[q]
      /\ pair'[p].level = k + 1 /\ pair'[p].status = pair[p].status
      /\ pair'[p].item = pair[p].item
  <2>1. pair[p] \in PairRow /\ pair'[p] = [pair[p] EXCEPT !.level = k + 1]
    BY <1>1, <1>2, <1>3 DEF TypeOK
  <2> QED BY <1>1, <1>3, <2>1 DEF PairRow, TypeOK
<1>7. UNCHANGED <<SeenStatus, SeenTerm, SeenProved, SeenPaid, SeenRewards>>
  BY <1>3, <1>6, PaidSame, RewardsSame DEF SeenStatus, SeenTerm, SeenProved
<1>8. \A q \in Pairs : q # p => LevelSince(q)' = LevelSince(q)
  BY <1>3, <1>6 DEF LevelSince
<1>9. CASE k + 1 = pair[p].level
  <2>1. UNCHANGED <<SeenLevel, SeenSince>>
    BY <1>3, <1>6, <1>9 DEF SeenLevel, SeenSince, LevelSince
  <2> QED BY <1>3, <1>7, <2>1, NothingSeen
<1>10. CASE k = pair[p].level
  <2>1. /\ SeenLevel[p] = k /\ SeenStatus[p] # "NONE" /\ k <= TargetLevel
        /\ SeenLevel' = [SeenLevel EXCEPT ![p] = SeenLevel[p] + 1]
    <3>1. SeenLevel[p] = k /\ SeenStatus[p] # "NONE" /\ k <= TargetLevel
      BY <1>2, <1>10 DEF SeenLevel, SeenStatus
    <3>2. \A q \in Pairs : pair'[q].level = IF q = p THEN k + 1 ELSE pair[q].level
      BY <1>6
    <3> QED BY <1>2, <3>1, <3>2 DEF SeenLevel
  <2>2. k > 0 => /\ k \in SeenProved[p] /\ k \in SeenPaid[p]
                 /\ SeenSince[p] = level[p][k].created
    BY <1>2, <1>4, <1>10 DEF SeenProved, SeenPaid, SeenSince, LevelSince
  <2>3. \E t \in 0..now :
          /\ SeenLevel[p] \in 1..(TargetLevel - 1) => t - SeenSince[p] >= SeenTerm[p]
          /\ SeenLevel[p] = TargetLevel => t = 0
          /\ SeenSince' = [SeenSince EXCEPT ![p] = t]
    <3>1. CASE k = TargetLevel
      <4>1. \A q \in Pairs : q = p => LevelSince(q)' = 0
        BY <1>2, <1>6, <3>1, LevelAssumption DEF LevelSince, Levels
      <4>2. SeenSince' = [SeenSince EXCEPT ![p] = 0]
        BY <1>2, <1>8, <4>1 DEF SeenSince
      <4>3. 0 \in 0..now /\ SeenLevel[p] \notin 1..(TargetLevel - 1)
        BY <1>2, <2>1, <3>1, LevelAssumption
      <4> QED BY <4>2, <4>3
    <3>2. CASE k < TargetLevel
      <4>1. PICK j \in Levels : j = k + 1
        BY <1>2, <3>2, LevelAssumption DEF Levels
      <4>2. level[p][j].exists
        BY <1>5, <3>2, <4>1
      <4>3. level[p][j].created \in 0..now
        <5>1. level[p][j].created \in Nat
          BY <1>1, <1>2 DEF TypeOK, LevelRow
        <5> QED BY <1>1, <1>2, <4>2, <5>1 DEF Begun
      <4>4. SeenSince' = [SeenSince EXCEPT ![p] = level[p][j].created]
        <5>1. \A q \in Pairs : q = p => LevelSince(q)' = level[p][j].created
          BY <1>3, <1>6, <4>1 DEF LevelSince
        <5> QED BY <1>2, <1>8, <5>1 DEF SeenSince
      <4>5. k > 0 => level[p][j].created - level[p][k].created >= GetBreedTime(pair[p].item)
        <5>1. SUFFICES ASSUME k > 0
                       PROVE level[p][j].created - level[p][k].created
                               >= GetBreedTime(pair[p].item)
          OBVIOUS
        <5>2. j > 1 /\ j - 1 = k /\ k + 1 = j
          BY <1>2, <4>1, <5>1
        <5>3. Climbed(p, j - 1)
          BY <1>1, <1>2, <4>2, <5>2 DEF Ladder
        <5> QED BY <5>2, <5>3 DEF Climbed
      <4>6. SeenTerm[p] = GetBreedTime(pair[p].item)
        BY <1>2 DEF SeenTerm
      <4>7. SeenLevel[p] \in 1..(TargetLevel - 1) =>
              level[p][j].created - SeenSince[p] >= SeenTerm[p]
        BY <1>2, <2>1, <2>2, <4>5, <4>6
      <4>8. SeenLevel[p] # TargetLevel
        BY <1>2, <2>1, <3>2
      <4> QED BY <4>3, <4>4, <4>7, <4>8
    <3> QED BY <1>2, <3>1, <3>2, LevelAssumption
  <2>4. Promise!Climb(p)
    BY <1>3, <1>7, <2>1, <2>2, <2>3 DEF Promise!Climb
  <2> QED BY <1>2, <2>4
<1> QED BY <1>2, <1>9, <1>10

LEMMA SettleSeen ==
  ASSUME PromiseInv, NEW r \in Reqs,
         Settle(r) \/ CancelPair(r) \/ FailPairs(r) \/ FailOnSlots(r)
  PROVE  \E some \in SUBSET Pairs, outcome \in Promise!Outcomes : Promise!Settle(some, outcome)
<1>1. TypeOK /\ RequestInv(r) /\ HitsExist(r) /\ req[r] \in Local
  BY DEF PromiseInv, BreedingInv, TypeOK
<1>2. PICK some \in SUBSET Pairs, outcome \in {"COMPLETED", "FAILED", "CANCELED"} :
        /\ \A p \in some :
             /\ pair[p].status # "NONE"
             /\ outcome = "COMPLETED" => level[p][TargetLevel].evaluated
        /\ \A p \in Pairs : pair'[p].status = IF p \in some THEN outcome ELSE pair[p].status
  <2>1. CASE Settle(r)
    <3> DEFINE q == req[r].pair
               won == IF req[r].won THEN "COMPLETED" ELSE "FAILED"
    <3>1. q \in Pairs /\ level[q][TargetLevel].evaluated
      BY <2>1, Rewarded DEF PromiseInv
    <3>2. pair[q].status # "NONE"
      BY <1>1, <2>1 DEF Settle, At, RequestInv, OpMatchesPc, PastRecord, KnowsPair
    <3>3. pair' = [pair EXCEPT ![q] = [pair[q] EXCEPT !.status = won]]
      BY <2>1 DEF Settle
    <3>4. won \in {"COMPLETED", "FAILED", "CANCELED"} /\ {q} \in SUBSET Pairs
      BY <3>1
    <3> HIDE DEF q, won
    <3>5. \A p \in Pairs : pair'[p].status = IF p \in {q} THEN won ELSE pair[p].status
      BY <1>1, <3>1, <3>3 DEF TypeOK, PairRow
    <3>6. \A p \in {q} : /\ pair[p].status # "NONE"
                         /\ won = "COMPLETED" => level[p][TargetLevel].evaluated
      BY <3>1, <3>2
    <3> QED BY <3>4, <3>5, <3>6
  <2>2. CASE CancelPair(r)
    <3> DEFINE q == req[r].pair
    <3>1. q \in Pairs /\ pair[q].status # "NONE"
      BY <1>1, <2>2 DEF CancelPair, At, RequestInv, OpMatchesPc, KnowsPair
    <3>2. pair' = [pair EXCEPT ![q] = [pair[q] EXCEPT !.status = "CANCELED"]]
      BY <2>2 DEF CancelPair
    <3> HIDE DEF q
    <3>3. \A p \in Pairs : pair'[p].status = IF p \in {q} THEN "CANCELED" ELSE pair[p].status
      BY <1>1, <3>1, <3>2 DEF TypeOK, PairRow
    <3> QED BY <3>1, <3>3
  <2>3. CASE FailPairs(r)
    <3>1. req[r].hits \in SUBSET Pairs
      BY <1>1 DEF Local
    <3>2. \A p \in Pairs : pair'[p].status = IF p \in req[r].hits THEN "FAILED" ELSE pair[p].status
      BY <1>1, <2>3 DEF FailPairs, TypeOK, PairRow
    <3> QED BY <1>1, <3>1, <3>2 DEF HitsExist
  <2>4. CASE FailOnSlots(r)
    <3> DEFINE dead == PairsOnSlots(req[r].doomed)
    <3>1. dead \in SUBSET Pairs /\ \A p \in dead : pair[p].status # "NONE"
      BY DEF PairsOnSlots
    <3>2. \A p \in Pairs : pair'[p].status = IF p \in dead THEN "FAILED" ELSE pair[p].status
      BY <1>1, <2>4 DEF FailOnSlots, TypeOK, PairRow
    <3> HIDE DEF dead
    <3> QED BY <3>1, <3>2
  <2> QED BY <2>1, <2>2, <2>3, <2>4
<1>3. UNCHANGED <<SeenLevel, SeenTerm, SeenSince, SeenProved, SeenPaid, SeenRewards, now>>
  <2>1. \A p \in Pairs : pair'[p].level = pair[p].level /\ pair'[p].item = pair[p].item
    BY <1>1, StatusWrites
  <2>2. UNCHANGED <<level, paid, gen1, now>>
    BY DEF Settle, CancelPair, FailPairs, FailOnSlots
  <2> QED BY <2>1, <2>2, PaidSame, RewardsSame
      DEF SeenLevel, SeenTerm, SeenSince, SeenProved, LevelSince
<1>4. \A p \in some : SeenStatus[p] # "NONE"
                      /\ (outcome = "COMPLETED" => TargetLevel \in SeenProved[p])
  BY <1>2, LevelAssumption DEF SeenStatus, SeenProved, Levels
<1>5. SeenStatus' = [p \in Pairs |-> IF p \in some THEN outcome ELSE SeenStatus[p]]
  BY <1>2 DEF SeenStatus
<1>6. Promise!Settle(some, outcome)
  BY <1>3, <1>4, <1>5 DEF Promise!Settle
<1> QED BY <1>6 DEF Promise!Outcomes

LEMMA RewardSeen ==
  ASSUME PromiseInv, NEW r \in Reqs, Mint(r) PROVE \E p \in Pairs : Promise!Reward(p)
<1> DEFINE q == req[r].pair
<1>1. q \in Pairs /\ level[q][TargetLevel].evaluated /\ TypeOK
  BY Rewarded DEF PromiseInv, BreedingInv
<1>2. /\ gen1' = [gen1 EXCEPT ![q] = [gen1[q] EXCEPT !.issued = gen1[q].issued + 1]]
      /\ UNCHANGED <<pair, level, paid, now>>
  BY DEF Mint
<1> HIDE DEF q
<1>3. /\ gen1'[q].issued = gen1[q].issued + 1
      /\ \A p \in Pairs : p # q => gen1'[p] = gen1[p]
  BY <1>1, <1>2 DEF TypeOK, Gen1Row
<1>4. SeenRewards' = [SeenRewards EXCEPT ![q] = SeenRewards[q] + 1]
  BY <1>1, <1>3 DEF SeenRewards
<1>5. TargetLevel \in SeenProved[q]
  BY <1>1, LevelAssumption DEF SeenProved, Levels
<1>6. Promise!Reward(q)
  BY <1>2, <1>4, <1>5, PairSame, LevelSame, PaidSame DEF Promise!Reward
<1> QED BY <1>1, <1>6

LEMMA SignSeen ==
  ASSUME PromiseInv, NEW r \in Reqs, Sign(r) PROVE UNCHANGED Promise!ladder
<1>1. TypeOK
  BY DEF PromiseInv, BreedingInv
<1>2. \A p \in Pairs : gen1'[p].issued = gen1[p].issued
  <2> DEFINE q == req[r].pair
  <2>1. gen1' = [gen1 EXCEPT ![q] = [gen1[q] EXCEPT !.signed = gen1[q].signed + 1]]
    BY DEF Sign
  <2> HIDE DEF q
  <2> QED BY <1>1, <2>1 DEF TypeOK, Gen1Row
<1>3. UNCHANGED <<pair, level, paid, now>> /\ UNCHANGED SeenRewards
  BY <1>2 DEF Sign, SeenRewards
<1> QED BY <1>3, PairSame, LevelSame, PaidSame, NothingSeen

-----------------------------------------------------------------------------
(* The refinement *)

LEMMA StartsOnLadder == Init => Promise!Init
<1> SUFFICES ASSUME Init PROVE Promise!Init
  OBVIOUS
<1>1. /\ \A p \in Pairs : /\ pair[p].status = "NONE" /\ pair[p].level = 0
                          /\ paid[p] = {} /\ gen1[p].issued = 0
                          /\ \A k \in Levels : ~level[p][k].evaluated
      /\ now = 0
  BY DEF Init, NoPair, NoLevel
<1>2. 0 \notin Levels
  BY DEF Levels
<1> QED BY <1>1, <1>2, BreedTimeType
    DEF Promise!Init, SeenStatus, SeenLevel, SeenSince, SeenTerm, SeenProved, SeenPaid,
        SeenRewards, LevelSince

LEMMA StepsOnLadder == PromiseInv /\ [Next]_vars => [Promise!Next]_(Promise!ladder)
<1> SUFFICES ASSUME PromiseInv, [Next]_vars PROVE Promise!Next \/ UNCHANGED Promise!ladder
  OBVIOUS
<1>1. CASE Outside
  <2>1. CASE Tick
    BY <2>1, TickSeen DEF Promise!Next
  <2>2. CASE ~Tick
    BY <1>1, <2>2, AllSame DEF Outside, TransferBud, TransferItem, tables, vars
  <2> QED BY <2>1, <2>2
<1>2. ASSUME NEW r \in Reqs, Start(r) \/ Abort(r) PROVE UNCHANGED Promise!ladder
  BY <1>2, StartFrame, AllSame DEF Abort, tables
<1>3. ASSUME NEW r \in Reqs, Continue(r) PROVE Promise!Next \/ UNCHANGED Promise!ladder
  <2>1. CASE \/ CheckItem(r) \/ CountPairs(r) \/ FindSlot(r) \/ CountItems(r)
             \/ VerifyBuds(r) \/ ReadPoints(r) \/ Evaluate(r) \/ Dice(r)
             \/ FindClosed(r) \/ FindPairs(r) \/ FindPrevPairs(r)
    BY <2>1, AllSame
    DEF CheckItem, CountPairs, FindSlot, CountItems, VerifyBuds, ReadPoints, Evaluate,
        Dice, FindClosed, FindPairs, FindPrevPairs, tables
  <2>2. CASE \/ UpgradeSlot(r) \/ MarkUsed(r) \/ FreeSlot(r) \/ OpenSlot(r)
             \/ FreeSlots(r) \/ DeleteSlots(r)
    BY <2>2, AllSame DEF UpgradeSlot, MarkUsed, FreeSlot, OpenSlot, FreeSlots, DeleteSlots
  <2>3. CASE InsertPair(r)
    BY <2>3, CreateSeen DEF Promise!Next
  <2>4. CASE WritePoints(r)
    BY <2>4, PaySeen DEF Promise!Next
  <2>5. CASE Record(r)
    BY <2>5, ProveSeen DEF Promise!Next
  <2>6. CASE MkLevel(r) \/ MkBuds(r)
    BY <2>6, BuildSeen
  <2>7. CASE Bump(r)
    BY <2>7, ClimbSeen DEF Promise!Next
  <2>8. CASE Settle(r) \/ CancelPair(r) \/ FailPairs(r) \/ FailOnSlots(r)
    BY <2>8, SettleSeen DEF Promise!Next
  <2>9. CASE Mint(r)
    BY <2>9, RewardSeen DEF Promise!Next
  <2>10. CASE Sign(r)
    BY <2>10, SignSeen
  <2> QED BY <1>3, <2>1, <2>2, <2>3, <2>4, <2>5, <2>6, <2>7, <2>8, <2>9, <2>10 DEF Continue
<1> QED BY <1>1, <1>2, <1>3, NextCases

\* Whatever requests overlap or fail, a pair only ever makes the atomic steps of
\* PairLadder: it is paid, proved, climbs, is settled and rewarded a step at a time
\* (startBreedLevel, evaluateBreedLevel, finalizeBreeding and the invalidations).
THEOREM Refinement == Spec => KeepsPromise
  BY StartsOnLadder, StepsOnLadder, PromiseInit, PromiseInvStep, PTL
  DEF Spec, KeepsPromise, Promise!Spec

=============================================================================
