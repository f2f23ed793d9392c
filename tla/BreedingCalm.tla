---------------------------- MODULE BreedingCalm ----------------------------
(***************************************************************************)
(* Proofs about Breeding when less goes wrong than may: requests that do   *)
(* not fail (~MayFail), requests that do not overlap (Serial at every      *)
(* state), or neither.  Each part strengthens BreedingInv by what its      *)
(* requests know: LadderInv, AloneInv, CalmInv.                            *)
(***************************************************************************)
EXTENDS BreedingProofs

-----------------------------------------------------------------------------
(* The ladder is never stuck, when no await fails *)

\* A request that will take the pair from the level it stands on: createPair or
\* levelUp in startBreedLevel, finalize before it settles the pair.
Carries(r, p) ==
  /\ req[r].pair = p /\ req[r].lvl = pair[p].level /\ req[r].op # "cancel"
  /\ req[r].pc \in {"markUsed", "mkLevel", "mkBuds", "bump", "dice", "freeSlot", "settle"}

\* A pair without a level, or whose level is evaluated, is being carried on.
Carried(p) ==
  IsPaired(p) /\ (pair[p].level \in Levels => level[p][pair[p].level].evaluated)
    /\ pair[p].level <= TargetLevel
    => \E r \in Reqs : Carries(r, p)

\* A row ahead of currentLevel has its builder.
BuilderLives(p) ==
  \A k \in Levels :
    k = pair[p].level + 1 /\ level[p][k].exists =>
      \E r \in Reqs : Building(r) /\ req[r].pair = p

\* No row ahead of currentLevel is evaluated.
NotAhead(p) == \A k \in Levels : level[p][k].evaluated => k <= pair[p].level

LadderInv ==
  /\ BreedingInv
  /\ \A p \in Pairs : Carried(p) /\ BuilderLives(p) /\ NotAhead(p)

LEMMA LadderInvInit == Init => LadderInv
<1> SUFFICES ASSUME Init PROVE LadderInv
  OBVIOUS
<1>1. ASSUME NEW p \in Pairs
      PROVE  ~IsPaired(p) /\ \A k \in Levels : ~level[p][k].exists /\ ~level[p][k].evaluated
  BY DEF Init, NoPair, NoLevel, IsPaired
<1> QED BY <1>1, InvInit DEF LadderInv, Carried, BuilderLives, NotAhead

\* A builder carries its pair.
LEMMA BuilderCarries ==
  ASSUME BreedingInv, NEW r \in Reqs, Building(r), NEW p, req[r].pair = p
  PROVE  Carries(r, p)
<1>1. RequestInv(r) /\ req[r].pc \in {"mkBuds", "bump"}
  BY DEF BreedingInv, Building
<1> QED BY <1>1 DEF RequestInv, OpMatchesPc, BuildsNext, Carries

\* A step that neither moves currentLevel nor the request leaves it carrying.
LEMMA CarriesKept ==
  ASSUME NEW r \in Reqs, NEW p, Carries(r, p), req'[r] = req[r], pair'[p].level = pair[p].level
  PROVE  Carries(r, p)'
  BY DEF Carries

\* The step of a carrying request leaves the pair carried, by it or, when the unique
\* key throws it out, by the builder; or it moves the level, or settles the pair.
LEMMA CarriesStep ==
  ASSUME LadderInv, BreedingInv', [Next]_vars, NEW p \in Pairs, NEW r \in Reqs,
         Carries(r, p), Continue(r), pair'[p].level = pair[p].level, IsPaired(p)'
  PROVE  \E q \in Reqs : Carries(q, p)'
<1>1. TypeOK /\ RequestInv(r) /\ BreedingInv
  BY DEF LadderInv, BreedingInv
<1>2. ASSUME NEW pc \in {"mkLevel", "mkBuds", "bump", "freeSlot", "settle"}, Goto(r, pc)
      PROVE  Carries(r, p)'
  BY <1>1, <1>2, GotoFields DEF SameWork, Carries
<1>3. CASE MarkUsed(r)
  BY <1>2, <1>3 DEF MarkUsed
<1>4. CASE MkLevel(r)
  <2>1. CASE Goto(r, "mkBuds")
    BY <1>2, <2>1
  <2>2. CASE ~Goto(r, "mkBuds")
    <3>1. level[p][req[r].lvl + 1].exists
      BY <1>4, <2>2 DEF MkLevel, KeyTaken, Carries
    <3>2. req[r].lvl \in 0..(TargetLevel + 1) /\ req[r].lvl < TargetLevel
      BY <1>1, <1>4 DEF TypeOK, Local, MkLevel, At, RequestInv, RightLevel
    <3>3. req[r].lvl + 1 \in Levels /\ req[r].lvl = pair[p].level
      BY <3>2, LevelAssumption DEF Levels, Carries
    <3>4. PICK q \in Reqs : Building(q) /\ req[q].pair = p
      BY <3>1, <3>3 DEF LadderInv, BuilderLives
    <3>5. q # r
      BY <1>4, <3>4 DEF MkLevel, At, Building
    <3>6. req'[q] = req[q]
      BY <1>1, <3>5, OthersKept
    <3> QED BY <1>1, <3>4, <3>6, BuilderCarries, CarriesKept
  <2> QED BY <2>1, <2>2
<1>5. CASE MkBuds(r)
  BY <1>2, <1>5 DEF MkBuds
<1>6. CASE Bump(r)
  <2>1. pair' = [pair EXCEPT ![p] = [pair[p] EXCEPT !.level = req[r].lvl + 1]]
    BY <1>6 DEF Bump, Carries
  <2>2. pair[p] \in PairRow
    BY <1>1 DEF TypeOK
  <2>3. pair'[p].level = pair[p].level + 1
    <3> DEFINE n == req[r].lvl + 1
    <3>1. n = pair[p].level + 1
      BY DEF Carries
    <3>2. pair' = [pair EXCEPT ![p] = [pair[p] EXCEPT !.level = n]]
      BY <2>1
    <3> HIDE DEF n
    <3>3. pair'[p] = [pair[p] EXCEPT !.level = n]
      BY <1>1, <3>2 DEF TypeOK
    <3>4. pair'[p].level = n
      BY <2>2, <3>3 DEF PairRow
    <3> QED BY <3>1, <3>4
  <2>4. pair[p].level \in 0..(TargetLevel + 1)
    BY <2>2 DEF PairRow
  <2> QED BY <2>3, <2>4, LevelAssumption
<1>7. CASE Dice(r)
  <2>1. PICK w \in BOOLEAN : req' = [req EXCEPT ![r].won = w, ![r].pc = "freeSlot"]
    BY <1>7 DEF Dice
  <2>2. req'[r] = [req[r] EXCEPT !.won = w, !.pc = "freeSlot"] /\ req[r] \in Local
    BY <1>1, <2>1 DEF TypeOK, Local
  <2>3. /\ req'[r].pair = req[r].pair /\ req'[r].lvl = req[r].lvl
        /\ req'[r].op = req[r].op /\ req'[r].pc = "freeSlot"
    BY <2>2 DEF Local
  <2> QED BY <2>3 DEF Carries
<1>8. CASE FreeSlot(r)
  <2>1. req[r].op = "finalize"
    BY <1>1, <1>8 DEF FreeSlot, At, Carries, RequestInv, OpMatchesPc
  <2> QED BY <1>2, <1>8, <2>1 DEF FreeSlot
<1>9. CASE Settle(r)
  <2>1. PICK st \in {"COMPLETED", "FAILED"} : pair' = [pair EXCEPT ![p].status = st]
    BY <1>9 DEF Settle, Carries
  <2>2. pair[p] \in PairRow
    BY <1>1 DEF TypeOK
  <2>3. pair'[p].status = st
    BY <1>1, <2>1, <2>2 DEF TypeOK, PairRow
  <2> QED BY <2>1, <2>3 DEF IsPaired
<1>10. MarkUsed(r) \/ MkLevel(r) \/ MkBuds(r) \/ Bump(r) \/ Dice(r) \/ FreeSlot(r) \/ Settle(r)
  BY DEF Carries, Continue, At, CheckItem, CountPairs, FindSlot, UpgradeSlot, InsertPair,
         CountItems, VerifyBuds, ReadPoints, WritePoints, Evaluate, Record, FindClosed,
         OpenSlot, Mint, Sign, CancelPair, FindPairs, FindPrevPairs, FailPairs, FreeSlots,
         DeleteSlots, FailOnSlots
<1> QED BY <1>3, <1>4, <1>5, <1>6, <1>7, <1>8, <1>9, <1>10

\* A pair becomes PAIRED by its insert only.
LEMMA PairedBefore ==
  ASSUME BreedingInv, [Next]_vars, NEW p \in Pairs, IsPaired(p)', ~IsPaired(p)
  PROVE  \E r \in Reqs :
           /\ InsertPair(r)
           /\ req'[r].pair = p /\ req'[r].lvl = 0 /\ req'[r].pc = "markUsed"
           /\ req'[r].op = "createPair"
           /\ pair[p].status = "NONE" /\ pair[p].level = 0
           /\ pair'[p].slot = req[r].slot
           /\ pair'[p].male = req[r].male /\ pair'[p].female = req[r].female
<1>0. TypeOK /\ pair[p] \in PairRow /\ pair'[p].status = "PAIRED" /\ pair[p].status # "PAIRED"
  BY DEF BreedingInv, TypeOK, IsPaired
<1>1. CASE Outside
  BY <1>0, <1>1 DEF Outside, Tick, TransferBud, TransferItem, tables, vars
<1>2. ASSUME NEW r \in Reqs PROVE ~Start(r) /\ ~Abort(r)
  BY <1>0, StartFrame DEF Abort, tables
<1>3. ASSUME NEW r \in Reqs, Continue(r) PROVE InsertPair(r)
  <2>1. ~(CheckItem(r) \/ CountPairs(r) \/ FindSlot(r) \/ CountItems(r)
          \/ VerifyBuds(r) \/ ReadPoints(r) \/ Evaluate(r) \/ Dice(r)
          \/ FindClosed(r) \/ FindPairs(r) \/ FindPrevPairs(r))
    BY <1>0
    DEF CheckItem, CountPairs, FindSlot, CountItems, VerifyBuds, ReadPoints, Evaluate,
        Dice, FindClosed, FindPairs, FindPrevPairs, tables
  <2>2. ~(UpgradeSlot(r) \/ MarkUsed(r) \/ FreeSlot(r) \/ OpenSlot(r) \/ FreeSlots(r)
          \/ DeleteSlots(r) \/ Mint(r) \/ Sign(r) \/ WritePoints(r)
          \/ MkLevel(r) \/ MkBuds(r) \/ Record(r))
    BY <1>0
    DEF UpgradeSlot, MarkUsed, FreeSlot, OpenSlot, FreeSlots, DeleteSlots, Mint, Sign,
        WritePoints, MkLevel, MkBuds, Record
  <2>3. ASSUME NEW st \in {"COMPLETED", "FAILED", "CANCELED"}
        PROVE  pair'[p] # [pair[p] EXCEPT !.status = st]
    <3>1. [pair[p] EXCEPT !.status = st].status = st
      BY <1>0 DEF PairRow
    <3> QED BY <1>0, <3>1
  <2>4. ~Settle(r) /\ ~CancelPair(r) /\ ~FailPairs(r) /\ ~FailOnSlots(r)
    BY <1>0, <2>3 DEF Settle, CancelPair, FailPairs, FailOnSlots, TypeOK
  <2>5. ~Bump(r)
    <3>1. ASSUME NEW n PROVE [pair[p] EXCEPT !.level = n].status = pair[p].status
      BY <1>0 DEF PairRow
    <3>2. ASSUME NEW n, NEW b, pair' = [pair EXCEPT ![b] = [pair[b] EXCEPT !.level = n]]
          PROVE  pair'[p].status = pair[p].status
      BY <1>0, <3>1, <3>2 DEF TypeOK
    <3>3. ASSUME NEW n, NEW b, pair' = [pair EXCEPT ![b].level = n]
          PROVE  pair'[p].status = pair[p].status
      BY <3>2, <3>3
    <3> QED BY <1>0, <3>3 DEF Bump
  <2> QED BY <1>3, <2>1, <2>2, <2>4, <2>5 DEF Continue
<1>4. PICK r \in Reqs : InsertPair(r)
  BY <1>1, <1>2, <1>3, NextCases
<1>5. PICK b \in Pairs :
        /\ NextId(b)
        /\ pair' = [pair EXCEPT ![b] =
                     [status |-> "PAIRED", user |-> req[r].user, male |-> req[r].male,
                      female |-> req[r].female, item |-> req[r].item,
                      slot |-> req[r].slot, level |-> 0]]
        /\ req' = [req EXCEPT ![r].pair = b, ![r].lvl = 0, ![r].pc = "markUsed"]
  BY <1>4 DEF InsertPair
<1>6. b = p
  BY <1>0, <1>5 DEF TypeOK
<1>7. pair[p].status = "NONE" /\ pair[p].level = 0
  BY <1>5, <1>6 DEF NextId, BreedingInv, Unborn
<1>8. req'[r] = [req[r] EXCEPT !.pair = p, !.lvl = 0, !.pc = "markUsed"] /\ req[r] \in Local
  BY <1>0, <1>5, <1>6 DEF TypeOK, Local
<1>9. req'[r].pair = p /\ req'[r].lvl = 0 /\ req'[r].pc = "markUsed" /\ req'[r].op = req[r].op
  BY <1>8 DEF Local
<1>10. req[r].op = "createPair"
  BY <1>4 DEF InsertPair, At, BreedingInv, RequestInv, OpMatchesPc
<1>11. /\ pair'[p].slot = req[r].slot
       /\ pair'[p].male = req[r].male /\ pair'[p].female = req[r].female
  BY <1>0, <1>5, <1>6 DEF TypeOK
<1> QED BY <1>4, <1>7, <1>9, <1>10, <1>11

LEMMA NotAheadStep ==
  ASSUME LadderInv, [Next]_vars, NEW p \in Pairs PROVE NotAhead(p)'
<1>1. BreedingInv /\ TypeOK /\ Grows /\ NotAhead(p)
  BY GrowsStep DEF LadderInv, BreedingInv
<1>2. pair[p].level \in Nat
  <2>1. pair[p] \in PairRow
    BY <1>1 DEF TypeOK
  <2> QED BY <2>1, LevelAssumption DEF PairRow
<1>3. SUFFICES ASSUME NEW k \in Levels, level'[p][k].evaluated PROVE k <= pair[p].level
  BY <1>1, <1>2 DEF NotAhead, Grows, Levels
<1>4. CASE level[p][k].evaluated
  BY <1>1, <1>4 DEF NotAhead
<1>5. CASE ~level[p][k].evaluated
  <2>1. PICK r \in Reqs : req[r].pair = p /\ Record(r) /\ req[r].lvl = k
    BY <1>1, <1>3, <1>5, LevelWrites
  <2> QED BY <1>1, <2>1 DEF BreedingInv, RequestInv, OpMatchesPc, KnowsPair, Record, At
<1> QED BY <1>4, <1>5

\* Without failures a request only leaves an await by going on.
LEMMA CalmCases ==
  ASSUME ~MayFail, BreedingInv, [Next]_vars, NEW q \in Reqs, ~At(q, "idle")
  PROVE  req'[q] = req[q] \/ Continue(q)
<1>1. CASE Outside
  BY <1>1 DEF Outside, Tick, TransferBud, TransferItem, vars
<1>2. ASSUME NEW r \in Reqs, Start(r) \/ Continue(r), r # q PROVE req'[q] = req[q]
  BY <1>2, OthersKept DEF BreedingInv
<1>3. ~Start(q)
  BY DEF At, Start, Begin, CreateBegin, LevelUpBegin, FinalizeBegin, CancelBegin,
         InvalidateBegin, AdminInvalidateBegin, InvalidateSlotsBegin
<1>4. \A r \in Reqs : ~Abort(r)
  BY DEF Abort
<1> QED BY <1>1, <1>2, <1>3, <1>4, NextCases

LEMMA CarriedStep ==
  ASSUME ~MayFail, LadderInv, BreedingInv', [Next]_vars, NEW p \in Pairs PROVE Carried(p)'
<1>1. BreedingInv /\ TypeOK /\ Grows /\ NotAhead(p) /\ Carried(p)
  BY GrowsStep DEF LadderInv, BreedingInv
<1>2. pair[p].level \in Nat
  <2>1. pair[p] \in PairRow
    BY <1>1 DEF TypeOK
  <2> QED BY <2>1, LevelAssumption DEF PairRow
<1>3. SUFFICES ASSUME IsPaired(p)', pair'[p].level <= TargetLevel,
                      pair'[p].level \in Levels => level'[p][pair'[p].level].evaluated
               PROVE  \E q \in Reqs : Carries(q, p)'
  BY DEF Carried
<1>4. CASE pair'[p].level # pair[p].level
  <2>1. PICK r \in Reqs : Bump(r)
    BY <1>1, <1>4, LevelMoves
  <2>2. pair'[p].level = pair[p].level + 1 /\ pair'[p].level \in Levels
    BY <1>1, <1>2, <1>3, <1>4, LevelAssumption DEF Grows, Levels
  <2>3. level[p][pair[p].level + 1].evaluated
    BY <1>3, <2>1, <2>2 DEF Bump
  <2> QED BY <1>1, <1>2, <2>2, <2>3 DEF NotAhead
<1>5. CASE pair'[p].level = pair[p].level /\ ~IsPaired(p)
  <2>1. PICK r \in Reqs : /\ req'[r].pair = p /\ req'[r].lvl = 0 /\ req'[r].pc = "markUsed"
                         /\ req'[r].op = "createPair" /\ pair[p].level = 0
    BY <1>1, <1>3, <1>5, PairedBefore
  <2> QED BY <1>5, <2>1 DEF Carries
<1>6. CASE /\ pair'[p].level = pair[p].level /\ IsPaired(p)
           /\ pair[p].level \in Levels => level[p][pair[p].level].evaluated
  <2>1. PICK r \in Reqs : Carries(r, p)
    BY <1>1, <1>3, <1>6 DEF Carried
  <2>2. ~At(r, "idle")
    BY <2>1 DEF Carries, At
  <2>3. CASE req'[r] = req[r]
    BY <1>6, <2>1, <2>3, CarriesKept
  <2>4. CASE Continue(r)
    BY <1>3, <1>6, <2>1, <2>4, CarriesStep
  <2> QED BY <1>1, <2>2, <2>3, <2>4, CalmCases
<1>7. CASE /\ pair'[p].level = pair[p].level /\ pair[p].level \in Levels
           /\ ~level[p][pair[p].level].evaluated
  <2> DEFINE k == pair[p].level
  <2>1. level'[p][k].evaluated /\ level[p][k].evaluated # level'[p][k].evaluated
    BY <1>3, <1>7
  <2>2. PICK r \in Reqs : req[r].pair = p /\ Record(r) /\ req[r].lvl = k
    <3>1. level'[p][k] # level[p][k] /\ k \in Levels
      BY <1>7, <2>1
    <3>2. PICK r \in Reqs :
            /\ req[r].pair = p
            /\ \/ /\ MkLevel(r) /\ ~level'[p][k].evaluated
               \/ /\ MkBuds(r) /\ level'[p][k].evaluated = level[p][k].evaluated
               \/ /\ Record(r) /\ req[r].lvl = k
      <4> HIDE DEF k
      <4> QED BY <1>1, <3>1, LevelWrites
    <3> QED BY <2>1, <3>2
  <2>3. Goto(r, AfterRecord(r))
    BY <2>1, <2>2 DEF Record
  <2>4. RequestInv(r) /\ req[r].pc = "record"
    BY <1>1, <2>2 DEF BreedingInv, Record, At
  <2>5. AfterRecord(r) \in {"dice", "bump", "mkLevel"} /\ req[r].op # "cancel"
    BY <2>4 DEF AfterRecord, RequestInv, OpMatchesPc
  <2>6. req'[r].pair = p /\ req'[r].lvl = k /\ req'[r].op # "cancel"
        /\ req'[r].pc \in {"dice", "bump", "mkLevel"}
    BY <1>1, <2>2, <2>3, <2>5, GotoFields DEF SameWork
  <2>7. Carries(r, p)'
    BY <1>7, <2>6 DEF Carries
  <2> QED BY <2>7
<1> QED BY <1>4, <1>5, <1>6, <1>7

LEMMA BuilderLivesStep ==
  ASSUME ~MayFail, LadderInv, BreedingInv', [Next]_vars, NEW p \in Pairs PROVE BuilderLives(p)'
<1>1. BreedingInv /\ TypeOK /\ Grows /\ BuilderLives(p)
  BY GrowsStep DEF LadderInv, BreedingInv
<1>2. pair[p].level \in Nat
  <2>1. pair[p] \in PairRow
    BY <1>1 DEF TypeOK
  <2> QED BY <2>1, LevelAssumption DEF PairRow
<1>3. SUFFICES ASSUME NEW k \in Levels, k = pair'[p].level + 1, level'[p][k].exists
               PROVE  \E r \in Reqs : Building(r)' /\ req'[r].pair = p
  BY DEF BuilderLives, Levels
<1>4. CASE pair'[p].level # pair[p].level
  <2>1. PICK r \in Reqs : Bump(r)
    BY <1>1, <1>4, LevelMoves
  <2>2. pair'[p].level = pair[p].level + 1
    BY <1>1, <1>4 DEF Grows
  <2>3. level[p][k].exists
    BY <1>3, <2>1 DEF Bump
  <2> QED BY <1>1, <1>2, <1>3, <2>2, <2>3 DEF BreedingInv, Ladder
<1>5. CASE pair'[p].level = pair[p].level /\ level[p][k].exists
  <2>1. PICK r \in Reqs : Building(r) /\ req[r].pair = p
    BY <1>1, <1>3, <1>5 DEF BuilderLives
  <2>2. CASE req'[r] = req[r]
    BY <2>1, <2>2 DEF Building
  <2>3. CASE MkBuds(r)
    <3>1. Goto(r, "bump")
      BY <2>3 DEF MkBuds
    <3> QED BY <1>1, <2>1, <3>1, GotoFields DEF SameWork, Building
  <2>4. CASE Bump(r)
    <3>1. Carries(r, p)
      BY <1>1, <2>1, BuilderCarries
    <3>2. req[r].lvl = pair[p].level /\ pair[p] \in PairRow
      BY <1>1, <3>1 DEF Carries, TypeOK
    <3>3. pair'[p].level = pair[p].level + 1
      <4>1. pair' = [pair EXCEPT ![p] = [pair[p] EXCEPT !.level = pair[p].level + 1]]
        BY <2>1, <2>4, <3>2 DEF Bump
      <4>2. pair'[p] = [pair[p] EXCEPT !.level = pair[p].level + 1]
        BY <1>1, <4>1 DEF TypeOK
      <4> QED BY <3>2, <4>2 DEF PairRow
    <3> QED BY <1>2, <1>5, <3>3
  <2>5. Continue(r) => MkBuds(r) \/ Bump(r)
    BY <2>1
    DEF Building, Continue, At, CheckItem, CountPairs, FindSlot, UpgradeSlot, InsertPair,
        MarkUsed, MkLevel, CountItems, VerifyBuds, ReadPoints, WritePoints, Evaluate, Record,
        Dice, FreeSlot, Settle, FindClosed, OpenSlot, Mint, Sign, CancelPair, FindPairs,
        FindPrevPairs, FailPairs, FreeSlots, DeleteSlots, FailOnSlots
  <2>6. ~At(r, "idle")
    BY <2>1 DEF Building, At
  <2> QED BY <1>1, <2>2, <2>3, <2>4, <2>5, <2>6, CalmCases
<1>6. CASE pair'[p].level = pair[p].level /\ ~level[p][k].exists
  <2>1. PICK r \in Reqs : MkLevel(r) /\ req[r].lvl + 1 = k /\ req[r].pair = p
    BY <1>1, <1>3, <1>6, LevelWrites
  <2>2. Goto(r, "mkBuds") /\ RequestInv(r) /\ req[r].pc = "mkLevel"
    <3>1. UNCHANGED level => FALSE
      BY <1>3, <1>6
    <3> QED BY <1>1, <2>1, <3>1 DEF MkLevel, BreedingInv, At
  <2>3. req[r].lvl < TargetLevel
    BY <2>2 DEF RequestInv, RightLevel
  <2> QED BY <1>1, <2>1, <2>2, <2>3, GotoFields DEF SameWork, Building
<1> QED BY <1>4, <1>5, <1>6

LEMMA LadderInvStep == ~MayFail /\ LadderInv /\ [Next]_vars => LadderInv'
<1> SUFFICES ASSUME ~MayFail, LadderInv, [Next]_vars PROVE LadderInv'
  OBVIOUS
<1>1. BreedingInv'
  BY InvStep DEF LadderInv
<1> QED BY <1>1, CarriedStep, BuilderLivesStep, NotAheadStep DEF LadderInv, Pairs

LEMMA GoesOn == LadderInv => LadderNeverStuck
<1> SUFFICES ASSUME LadderInv, NEW p \in Pairs, IsPaired(p), ~WorkedOn(p)
             PROVE  /\ pair[p].level > 0
                    /\ \A k \in Levels :
                         /\ k = pair[p].level =>
                              level[p][k].exists /\ level[p][k].buds /\ ~level[p][k].evaluated
                         /\ k > pair[p].level => ~level[p][k].exists
  BY DEF LadderNeverStuck
<1>1. TypeOK /\ Ladder /\ Carried(p) /\ BuilderLives(p)
  BY DEF LadderInv, BreedingInv
<1>2. pair[p].level \in Nat
  <2>1. pair[p] \in PairRow
    BY <1>1 DEF TypeOK
  <2> QED BY <2>1, LevelAssumption DEF PairRow
<1>3. \A r \in Reqs : ~Carries(r, p) /\ ~(Building(r) /\ req[r].pair = p)
  BY DEF WorkedOn, At, Carries, Building
<1>4. pair[p].level > 0
  BY <1>1, <1>2, <1>3, LevelAssumption DEF Carried, Levels
<1>5. ASSUME NEW k \in Levels, k = pair[p].level
      PROVE  level[p][k].exists /\ level[p][k].buds /\ ~level[p][k].evaluated
  BY <1>1, <1>3, <1>5 DEF Ladder, Carried, Levels
<1>6. ASSUME NEW k \in Levels, k > pair[p].level PROVE ~level[p][k].exists
  <2>1. level[p][k].exists => k = pair[p].level + 1
    BY <1>1, <1>2, <1>6 DEF Ladder, Levels
  <2> QED BY <1>1, <1>3, <2>1 DEF BuilderLives
<1> QED BY <1>4, <1>5, <1>6

\* While no await fails, every PAIRED pair that no request works on can go on, however
\* many levelUp, finalize and cancel requests overlapped on it (evaluateBreedLevel,
\* startBreedLevel): a request the unique key throws out leaves its work to the builder.
THEOREM LadderGoesOn == ASSUME ~MayFail PROVE Spec => []LadderNeverStuck
<1>1. LadderInv /\ [Next]_vars => LadderInv'
  BY LadderInvStep
<1> QED BY <1>1, LadderInvInit, GoesOn, PTL DEF Spec

-----------------------------------------------------------------------------
(* Requests that do not overlap *)

\* One request at a time is being handled.
Serial == \A r, q \in Reqs : r # q => At(r, "idle") \/ At(q, "idle")

\* The buds of a pair about to be inserted are in no PAIRED pair.
BudsFree(r) ==
  req[r].pc \in {"findSlot", "upgradeSlot", "insertPair"} =>
    InBreeding(req[r].male, req[r].female) = {}

\* The pairs a request works on are still PAIRED, as when it found them.
HoldsPair(r) ==
  /\ \/ req[r].op = "levelUp" /\ req[r].pc # "idle"
     \/ req[r].op = "finalize" /\ req[r].pc \in {"evaluate", "record", "dice", "freeSlot", "settle"}
     \/ req[r].op = "cancel" /\ req[r].pc = "cancelPair"
     => IsPaired(req[r].pair)
  /\ req[r].pc = "failPairs" => \A p \in req[r].hits : IsPaired(p)

\* The level about to be evaluated has no bonus yet.
NotDrawn(r) == req[r].pc = "record" => level[req[r].pair][req[r].lvl].bonus = 0

\* The pairs counted are those there are.
Counted(r) ==
  req[r].op = "levelUp" /\ req[r].pc = "checkItem" =>
    req[r].seen = ItemCount(req[r].user, req[r].item)

\* Only a row has a bonus.
Undrawn(p) == \A k \in Levels : ~level[p][k].exists => level[p][k].bonus = 0

AloneInv ==
  /\ BreedingInv
  /\ BudBredOnce
  /\ \A p \in Pairs : Undrawn(p)
  /\ \A r \in Reqs : BudsFree(r) /\ HoldsPair(r) /\ NotDrawn(r) /\ Counted(r)

-----------------------------------------------------------------------------
(* Without failures as well *)

Held(s) == \E p \in Pairs : IsPaired(p) /\ pair[p].slot = s

\* What a request knows of the slots it works on.
KnowsSlots(r) ==
  LET pc == req[r].pc
      s  == req[r].slot
      p  == req[r].pair
  IN  /\ pc \in {"upgradeSlot", "insertPair"} =>
           s \in Slots /\ ~slot[s].used /\ ~slot[s].deleted
      /\ pc = "markUsed" => IsPaired(p) /\ pair[p].slot = s
      /\ req[r].op = "finalize" /\ pc \in {"evaluate", "record", "dice", "freeSlot", "settle"}
           => pair[p].slot = s
      /\ req[r].op = "cancel" /\ pc = "cancelPair" => pair[p].slot = s
      /\ pc = "settle" => ~slot[s].used
      /\ req[r].op = "cancel" /\ pc = "freeSlot" => ~Held(s)
      /\ pc = "freeSlots" => \A q \in req[r].hits : ~Held(pair[q].slot)
      /\ pc = "failOnSlots" => \A t \in req[r].doomed : slot[t].deleted

\* A request between its write of a pair and that of the pair's slot.
Mends(r, s) ==
  \/ req[r].pc \in {"markUsed", "settle"} /\ req[r].slot = s
  \/ req[r].pc = "freeSlot" /\ req[r].op = "cancel" /\ req[r].slot = s
  \/ req[r].pc = "freeSlots" /\ \E p \in req[r].hits : pair[p].slot = s

\* A slot is in use exactly while a PAIRED pair is on it, but for the one step
\* between the two writes.
InStep(s) == slot[s].used <=> Held(s)
Tracked(s) == ~slot[s].deleted => InStep(s) \/ \E r \in Reqs : Mends(r, s)

OnRealSlot(p) == IsPaired(p) => pair[p].slot \in Slots

\* The rewarding steps of finalize.
Rewards(r) == req[r].pc \in {"findClosed", "openSlot", "mint", "sign"}

KnowsReward(r) ==
  Rewards(r) =>
    /\ pair[req[r].pair].status = "COMPLETED"
    /\ gen1[req[r].pair].signed = 0
    /\ gen1[req[r].pair].issued = IF req[r].pc = "sign" THEN 1 ELSE 0

Unrewarded(p) ==
  pair[p].status \in {"NONE", "PAIRED"} => gen1[p].issued = 0 /\ gen1[p].signed = 0

RightlyRewarded(p) ==
  \/ \E r \in Reqs : Rewards(r) /\ req[r].pair = p
  \/ /\ gen1[p].issued <= 1 /\ gen1[p].signed = gen1[p].issued
     /\ pair[p].status = "COMPLETED" => gen1[p].issued = 1

CalmInv ==
  /\ AloneInv
  /\ SlotBredOnce
  /\ \A p \in Pairs : OnRealSlot(p) /\ Unrewarded(p) /\ RightlyRewarded(p)
  /\ \A s \in Slots : Tracked(s)
  /\ \A r \in Reqs : KnowsSlots(r) /\ KnowsReward(r)

-----------------------------------------------------------------------------
(* Steps of a request *)

\* Where a handler goes on from each await.
Flow ==
  {<<"checkItem", "countPairs">>, <<"checkItem", "verifyBuds">>, <<"countPairs", "findSlot">>,
   <<"findSlot", "upgradeSlot">>, <<"findSlot", "insertPair">>, <<"upgradeSlot", "insertPair">>,
   <<"insertPair", "markUsed">>, <<"markUsed", "mkLevel">>, <<"mkLevel", "mkBuds">>,
   <<"mkBuds", "bump">>, <<"countItems", "checkItem">>, <<"verifyBuds", "readPoints">>,
   <<"readPoints", "writePoints">>, <<"writePoints", "evaluate">>, <<"evaluate", "record">>,
   <<"record", "dice">>, <<"record", "bump">>, <<"record", "mkLevel">>, <<"dice", "freeSlot">>,
   <<"freeSlot", "settle">>, <<"settle", "findClosed">>, <<"findClosed", "mint">>,
   <<"findClosed", "openSlot">>, <<"openSlot", "mint">>, <<"mint", "sign">>,
   <<"cancelPair", "freeSlot">>, <<"findPairs", "failPairs">>, <<"findPrevPairs", "failPairs">>,
   <<"failPairs", "freeSlots">>, <<"deleteSlots", "failOnSlots">>}

\* What a request keeps of its locals when it goes on.
GoesOnWith(r) ==
  LET pc == req[r].pc IN
  /\ <<pc, req'[r].pc>> \in Flow
  /\ req'[r].op = req[r].op /\ req'[r].user = req[r].user /\ req'[r].item = req[r].item
  /\ req'[r].male = req[r].male /\ req'[r].female = req[r].female
  /\ req'[r].doomed = req[r].doomed
  /\ pc # "insertPair" => req'[r].pair = req[r].pair /\ req'[r].lvl = req[r].lvl
  /\ pc \notin {"findSlot", "findClosed"} => req'[r].slot = req[r].slot
  /\ pc \notin {"findPairs", "findPrevPairs"} => req'[r].hits = req[r].hits
  /\ pc \notin {"countItems", "readPoints"} => req'[r].seen = req[r].seen

LEMMA LocalsStep ==
  ASSUME TypeOK, NEW r \in Reqs, Continue(r)
  PROVE  (Reply(r) /\ req'[r] = Idle) \/ GoesOnWith(r)
<1>1. req[r] \in Local /\ req \in [Reqs -> Local]
  BY DEF TypeOK
<1> DEFINE Same == /\ req'[r].op = req[r].op /\ req'[r].user = req[r].user
                   /\ req'[r].item = req[r].item /\ req'[r].male = req[r].male
                   /\ req'[r].female = req[r].female /\ req'[r].doomed = req[r].doomed
           SamePair == req'[r].pair = req[r].pair /\ req'[r].lvl = req[r].lvl
           SameSlot == req'[r].slot = req[r].slot
           SameHits == req'[r].hits = req[r].hits
           SameSeen == req'[r].seen = req[r].seen
<1>2. ASSUME Reply(r) PROVE req'[r] = Idle
  BY <1>2, ReplyFields
<1>3. ASSUME NEW pc, Goto(r, pc)
      PROVE  Same /\ SamePair /\ SameSlot /\ SameHits /\ SameSeen /\ req'[r].pc = pc
  <2>1. req'[r] = [req[r] EXCEPT !.pc = pc]
    BY <1>1, <1>3 DEF Goto
  <2> QED BY <1>1, <2>1 DEF Local
<1>4. ASSUME NEW s, NEW pc, req' = [req EXCEPT ![r].slot = s, ![r].pc = pc]
      PROVE  Same /\ SamePair /\ SameHits /\ SameSeen /\ req'[r].pc = pc
  <2>1. req'[r] = [req[r] EXCEPT !.slot = s, !.pc = pc]
    BY <1>1, <1>4 DEF Local
  <2> QED BY <1>1, <2>1 DEF Local
<1>5. ASSUME NEW n, NEW pc, req' = [req EXCEPT ![r].seen = n, ![r].pc = pc]
      PROVE  Same /\ SamePair /\ SameSlot /\ SameHits /\ req'[r].pc = pc
  <2>1. req'[r] = [req[r] EXCEPT !.seen = n, !.pc = pc]
    BY <1>1, <1>5 DEF Local
  <2> QED BY <1>1, <2>1 DEF Local
<1>6. ASSUME NEW H, NEW pc, req' = [req EXCEPT ![r].hits = H, ![r].pc = pc]
      PROVE  Same /\ SamePair /\ SameSlot /\ SameSeen /\ req'[r].pc = pc
  <2>1. req'[r] = [req[r] EXCEPT !.hits = H, !.pc = pc]
    BY <1>1, <1>6 DEF Local
  <2> QED BY <1>1, <2>1 DEF Local
<1> HIDE DEF Same, SamePair, SameSlot, SameHits, SameSeen
<1>7. ASSUME NEW pc, Goto(r, pc), <<req[r].pc, pc>> \in Flow PROVE GoesOnWith(r)
  BY <1>3, <1>7 DEF GoesOnWith, Same, SamePair, SameSlot, SameHits, SameSeen
<1>20. ASSUME NEW t, NEW pc, req' = [req EXCEPT ![r].slot = t, ![r].pc = pc],
              <<req[r].pc, pc>> \in Flow, req[r].pc \in {"findSlot", "findClosed"}
       PROVE  GoesOnWith(r)
  BY <1>4, <1>20 DEF GoesOnWith, Same, SamePair, SameHits, SameSeen
<1>21. ASSUME NEW n, NEW pc, req' = [req EXCEPT ![r].seen = n, ![r].pc = pc],
              <<req[r].pc, pc>> \in Flow, req[r].pc \in {"countItems", "readPoints"}
       PROVE  GoesOnWith(r)
  BY <1>5, <1>21 DEF GoesOnWith, Same, SamePair, SameSlot, SameHits
<1>22. ASSUME NEW H, NEW pc, req' = [req EXCEPT ![r].hits = H, ![r].pc = pc],
              <<req[r].pc, pc>> \in Flow, req[r].pc \in {"findPairs", "findPrevPairs"}
       PROVE  GoesOnWith(r)
  BY <1>6, <1>22 DEF GoesOnWith, Same, SamePair, SameSlot, SameSeen
<1>8. CASE CheckItem(r) \/ CountPairs(r) \/ VerifyBuds(r) \/ Evaluate(r)
  BY <1>2, <1>7, <1>8 DEF CheckItem, CountPairs, VerifyBuds, Evaluate, At, Flow
<1>9. CASE UpgradeSlot(r) \/ MarkUsed(r) \/ MkBuds(r) \/ Bump(r) \/ WritePoints(r)
  BY <1>2, <1>7, <1>9 DEF UpgradeSlot, MarkUsed, MkBuds, Bump, WritePoints, At, Flow
<1>10. CASE FreeSlot(r) \/ Settle(r) \/ OpenSlot(r) \/ Mint(r) \/ Sign(r)
  BY <1>2, <1>7, <1>10 DEF FreeSlot, Settle, OpenSlot, Mint, Sign, At, Flow
<1>11. CASE CancelPair(r) \/ FailPairs(r) \/ FreeSlots(r) \/ DeleteSlots(r) \/ FailOnSlots(r)
  BY <1>2, <1>7, <1>11 DEF CancelPair, FailPairs, FreeSlots, DeleteSlots, FailOnSlots, At, Flow
<1>12. CASE MkLevel(r)
  BY <1>2, <1>7, <1>12 DEF MkLevel, At, Flow
<1>13. CASE Record(r)
  BY <1>2, <1>7, <1>13 DEF Record, AfterRecord, At, Flow
<1>14. CASE FindSlot(r)
  <2>1. Reply(r) \/ \E s \in Slots, pc \in {"upgradeSlot", "insertPair"} :
                      req' = [req EXCEPT ![r].slot = s, ![r].pc = pc]
    BY <1>14 DEF FindSlot, OpenSlots
  <2>2. req[r].pc = "findSlot" /\ <<"findSlot", "upgradeSlot">> \in Flow
        /\ <<"findSlot", "insertPair">> \in Flow
    BY <1>14 DEF FindSlot, At, Flow
  <2> QED BY <1>2, <1>20, <2>1, <2>2
<1>15. CASE FindClosed(r)
  <2>1. Goto(r, "mint") \/ \E s \in Slots : req' = [req EXCEPT ![r].slot = s, ![r].pc = "openSlot"]
    BY <1>15 DEF FindClosed, ClosedSlots
  <2>2. req[r].pc = "findClosed" /\ <<"findClosed", "mint">> \in Flow
        /\ <<"findClosed", "openSlot">> \in Flow
    BY <1>15 DEF FindClosed, At, Flow
  <2> QED BY <1>7, <1>20, <2>1, <2>2
<1>16. CASE InsertPair(r)
  <2>1. PICK p : req' = [req EXCEPT ![r].pair = p, ![r].lvl = 0, ![r].pc = "markUsed"]
    BY <1>16 DEF InsertPair
  <2>2. req'[r] = [req[r] EXCEPT !.pair = p, !.lvl = 0, !.pc = "markUsed"]
    BY <1>1, <2>1 DEF Local
  <2>3. Same /\ SameSlot /\ SameHits /\ SameSeen /\ req'[r].pc = "markUsed"
    BY <1>1, <2>2 DEF Local, Same, SameSlot, SameHits, SameSeen
  <2> QED BY <1>16, <2>3 DEF InsertPair, At, Flow, GoesOnWith, Same, SameSlot, SameHits, SameSeen
<1>17. CASE CountItems(r) \/ ReadPoints(r)
  <2>1. \/ Reply(r)
        \/ /\ CountItems(r)
           /\ \E n : req' = [req EXCEPT ![r].seen = n, ![r].pc = "checkItem"]
        \/ /\ ReadPoints(r)
           /\ \E n : req' = [req EXCEPT ![r].seen = n, ![r].pc = "writePoints"]
    BY <1>17, Zenon DEF CountItems, ReadPoints
  <2>2. (CountItems(r) => req[r].pc = "countItems") /\ (ReadPoints(r) => req[r].pc = "readPoints")
    BY DEF CountItems, ReadPoints, At
  <2>3. <<"countItems", "checkItem">> \in Flow /\ <<"readPoints", "writePoints">> \in Flow
    BY DEF Flow
  <2> QED BY <1>2, <1>21, <2>1, <2>2, <2>3
<1>18. CASE Dice(r)
  <2>1. PICK w : req' = [req EXCEPT ![r].won = w, ![r].pc = "freeSlot"]
    BY <1>18 DEF Dice
  <2>2. req'[r] = [req[r] EXCEPT !.won = w, !.pc = "freeSlot"]
    BY <1>1, <2>1 DEF Local
  <2>3. Same /\ SamePair /\ SameSlot /\ SameHits /\ SameSeen /\ req'[r].pc = "freeSlot"
    BY <1>1, <2>2 DEF Local, Same, SamePair, SameSlot, SameHits, SameSeen
  <2> QED BY <1>18, <2>3
          DEF Dice, At, Flow, GoesOnWith, Same, SamePair, SameSlot, SameHits, SameSeen
<1>19. CASE FindPairs(r) \/ FindPrevPairs(r)
  <2>1. Reply(r) \/ \E H : req' = [req EXCEPT ![r].hits = H, ![r].pc = "failPairs"]
    BY <1>19, Zenon DEF FindPairs, FindPrevPairs
  <2>2. req[r].pc \in {"findPairs", "findPrevPairs"}
    BY <1>19 DEF FindPairs, FindPrevPairs, At
  <2>3. <<"findPairs", "failPairs">> \in Flow /\ <<"findPrevPairs", "failPairs">> \in Flow
    BY DEF Flow
  <2> QED BY <1>2, <1>22, <2>1, <2>2, <2>3
<1> QED BY <1>8, <1>9, <1>10, <1>11, <1>12, <1>13, <1>14, <1>15, <1>16, <1>17, <1>18, <1>19
        DEF Continue

\* Which handler code runs at which await.
LEMMA ActionAt ==
  ASSUME NEW r \in Reqs, Continue(r)
  PROVE  /\ req[r].pc # "idle"
         /\ req[r].pc = "checkItem" => CheckItem(r)
         /\ req[r].pc = "countPairs" => CountPairs(r)
         /\ req[r].pc = "findSlot" => FindSlot(r)
         /\ req[r].pc = "upgradeSlot" => UpgradeSlot(r)
         /\ req[r].pc = "insertPair" => InsertPair(r)
         /\ req[r].pc = "markUsed" => MarkUsed(r)
         /\ req[r].pc = "countItems" => CountItems(r)
         /\ req[r].pc = "evaluate" => Evaluate(r)
         /\ req[r].pc = "record" => Record(r)
         /\ req[r].pc = "freeSlot" => FreeSlot(r)
         /\ req[r].pc = "settle" => Settle(r)
         /\ req[r].pc = "findClosed" => FindClosed(r)
         /\ req[r].pc = "mint" => Mint(r)
         /\ req[r].pc = "sign" => Sign(r)
         /\ req[r].pc = "cancelPair" => CancelPair(r)
         /\ req[r].pc = "findPairs" => FindPairs(r)
         /\ req[r].pc = "findPrevPairs" => FindPrevPairs(r)
         /\ req[r].pc = "failPairs" => FailPairs(r)
         /\ req[r].pc = "freeSlots" => FreeSlots(r)
         /\ req[r].pc = "deleteSlots" => DeleteSlots(r)
         /\ req[r].pc = "failOnSlots" => FailOnSlots(r)
<1>1. /\ CheckItem(r) => req[r].pc = "checkItem"
      /\ CountPairs(r) => req[r].pc = "countPairs"
      /\ FindSlot(r) => req[r].pc = "findSlot"
      /\ UpgradeSlot(r) => req[r].pc = "upgradeSlot"
      /\ InsertPair(r) => req[r].pc = "insertPair"
      /\ MarkUsed(r) => req[r].pc = "markUsed"
      /\ MkLevel(r) => req[r].pc = "mkLevel"
      /\ MkBuds(r) => req[r].pc = "mkBuds"
      /\ Bump(r) => req[r].pc = "bump"
      /\ CountItems(r) => req[r].pc = "countItems"
    BY DEF At, CheckItem, CountPairs, FindSlot, UpgradeSlot, InsertPair, MarkUsed, MkLevel,
           MkBuds, Bump, CountItems
<1>2. /\ VerifyBuds(r) => req[r].pc = "verifyBuds"
      /\ ReadPoints(r) => req[r].pc = "readPoints"
      /\ WritePoints(r) => req[r].pc = "writePoints"
      /\ Evaluate(r) => req[r].pc = "evaluate"
      /\ Record(r) => req[r].pc = "record"
      /\ Dice(r) => req[r].pc = "dice"
      /\ FreeSlot(r) => req[r].pc = "freeSlot"
      /\ Settle(r) => req[r].pc = "settle"
      /\ FindClosed(r) => req[r].pc = "findClosed"
      /\ OpenSlot(r) => req[r].pc = "openSlot"
    BY DEF At, VerifyBuds, ReadPoints, WritePoints, Evaluate, Record, Dice, FreeSlot, Settle,
           FindClosed, OpenSlot
<1>3. /\ Mint(r) => req[r].pc = "mint"
      /\ Sign(r) => req[r].pc = "sign"
      /\ CancelPair(r) => req[r].pc = "cancelPair"
      /\ FindPairs(r) => req[r].pc = "findPairs"
      /\ FindPrevPairs(r) => req[r].pc = "findPrevPairs"
      /\ FailPairs(r) => req[r].pc = "failPairs"
      /\ FreeSlots(r) => req[r].pc = "freeSlots"
      /\ DeleteSlots(r) => req[r].pc = "deleteSlots"
      /\ FailOnSlots(r) => req[r].pc = "failOnSlots"
    BY DEF At, Mint, Sign, CancelPair, FindPairs, FindPrevPairs, FailPairs, FreeSlots,
           DeleteSlots, FailOnSlots
<1> QED BY <1>1, <1>2, <1>3 DEF Continue

\* The columns of a pair that decide about buds and slots.
SameRow(p) ==
  /\ pair'[p].user = pair[p].user /\ pair'[p].item = pair[p].item
  /\ pair'[p].male = pair[p].male /\ pair'[p].female = pair[p].female
  /\ pair'[p].slot = pair[p].slot
SameStatus(p) == pair'[p].status = pair[p].status

\* Which awaits write which table.
LEMMA PairFrame ==
  ASSUME TypeOK, NEW r \in Reqs, Start(r) \/ Continue(r) \/ Abort(r),
         ~InsertPair(r), ~Settle(r), ~CancelPair(r), ~FailPairs(r), ~FailOnSlots(r)
  PROVE  \A p \in Pairs : SameRow(p) /\ SameStatus(p)
<1>1. CASE pair' = pair
  BY <1>1 DEF SameRow, SameStatus
<1>2. CASE Bump(r)
  <2> DEFINE n == req[r].lvl + 1
             b == req[r].pair
  <2>1. pair' = [pair EXCEPT ![b] = [pair[b] EXCEPT !.level = n]]
    BY <1>2 DEF Bump
  <2> HIDE DEF n, b
  <2>2. ASSUME NEW p \in Pairs PROVE SameRow(p) /\ SameStatus(p)
    <3>1. pair[p] \in PairRow /\ pair \in [Pairs -> PairRow]
      BY DEF TypeOK
    <3>2. pair'[p] = pair[p] \/ pair'[p] = [pair[p] EXCEPT !.level = n]
      BY <2>1, <3>1
    <3> QED BY <3>1, <3>2 DEF PairRow, SameRow, SameStatus
  <2> QED BY <2>2
<1>3. Start(r) \/ Abort(r) => pair' = pair
  BY StartFrame DEF Abort, tables
<1>4. CASE Continue(r)
  <2>1. \/ CheckItem(r) \/ CountPairs(r) \/ FindSlot(r) \/ CountItems(r)
        \/ VerifyBuds(r) \/ ReadPoints(r) \/ Evaluate(r) \/ Dice(r)
        \/ FindClosed(r) \/ FindPairs(r) \/ FindPrevPairs(r)
        => pair' = pair
    BY DEF CheckItem, CountPairs, FindSlot, CountItems, VerifyBuds, ReadPoints, Evaluate,
        Dice, FindClosed, FindPairs, FindPrevPairs, tables
  <2>2. \/ UpgradeSlot(r) \/ MarkUsed(r) \/ FreeSlot(r) \/ OpenSlot(r)
        \/ FreeSlots(r) \/ DeleteSlots(r) \/ Mint(r) \/ Sign(r)
        \/ MkLevel(r) \/ MkBuds(r) \/ Record(r) \/ WritePoints(r)
        => pair' = pair
    BY DEF UpgradeSlot, MarkUsed, FreeSlot, OpenSlot, FreeSlots, DeleteSlots, Mint, Sign,
        MkLevel, MkBuds, Record, WritePoints
  <2> QED BY <1>1, <1>2, <1>4, <2>1, <2>2 DEF Continue
<1> QED BY <1>1, <1>3, <1>4

LEMMA StatusFrame ==
  ASSUME TypeOK, NEW r \in Reqs, Settle(r) \/ CancelPair(r) \/ FailPairs(r) \/ FailOnSlots(r)
  PROVE  \A p \in Pairs :
           /\ SameRow(p)
           /\ SameStatus(p) \/ pair'[p].status \in {"COMPLETED", "FAILED", "CANCELED"}
<1>0. ASSUME NEW p \in Pairs, NEW st, pair'[p] = [pair[p] EXCEPT !.status = st]
      PROVE  SameRow(p) /\ pair'[p].status = st
  <2>1. pair[p] \in PairRow
    BY DEF TypeOK
  <2> QED BY <1>0, <2>1 DEF PairRow, SameRow
<1> DEFINE Fate(p) == pair'[p] = pair[p] \/ \E st \in {"COMPLETED", "FAILED", "CANCELED"} :
                                                pair'[p] = [pair[p] EXCEPT !.status = st]
<1>1. SUFFICES \A p \in Pairs : Fate(p)
  <2>1. ASSUME NEW p \in Pairs, pair'[p] = pair[p] PROVE SameRow(p) /\ SameStatus(p)
    BY <2>1 DEF SameRow, SameStatus
  <2> QED BY <1>0, <2>1
<1>2. CASE Settle(r)
  BY <1>2 DEF Settle, TypeOK
<1>3. CASE CancelPair(r)
  BY <1>3 DEF CancelPair, TypeOK
<1>4. CASE FailPairs(r)
  BY <1>4 DEF FailPairs, TypeOK
<1>5. CASE FailOnSlots(r)
  BY <1>5 DEF FailOnSlots, TypeOK
<1> QED BY <1>1, <1>2, <1>3, <1>4, <1>5

\* A row that is there keeps these columns, and is never PAIRED again.
LEMMA RowsKept ==
  ASSUME BreedingInv, [Next]_vars, NEW p \in Pairs, pair[p].status # "NONE"
  PROVE  SameRow(p) /\ (IsPaired(p)' => IsPaired(p))
<1>1. TypeOK /\ \A q \in Pairs : Unborn(q)
  BY DEF BreedingInv
<1>2. CASE Outside
  BY <1>2 DEF Outside, Tick, TransferBud, TransferItem, tables, vars, SameRow, IsPaired
<1>3. ASSUME NEW r \in Reqs, Start(r) \/ Continue(r) \/ Abort(r)
      PROVE  SameRow(p) /\ (IsPaired(p)' => IsPaired(p))
  <2>1. CASE InsertPair(r)
    BY <1>1, <2>1, InsertWrites DEF SameRow, IsPaired
  <2>2. CASE Settle(r) \/ CancelPair(r) \/ FailPairs(r) \/ FailOnSlots(r)
    BY <1>1, <2>2, StatusFrame DEF SameStatus, IsPaired
  <2>3. CASE ~(InsertPair(r) \/ Settle(r) \/ CancelPair(r) \/ FailPairs(r) \/ FailOnSlots(r))
    BY <1>1, <1>3, <2>3, PairFrame DEF SameStatus, IsPaired
  <2> QED BY <2>1, <2>2, <2>3
<1> QED BY <1>2, <1>3, NextCases

\* What the first step of a handler leaves in the locals.
LEMMA Started ==
  ASSUME TypeOK, NEW r \in Reqs, Start(r)
  PROVE  /\ req[r].pc = "idle"
         /\ \/ req'[r].op = "createPair" /\ req'[r].pc \in {"countPairs", "checkItem"}
            \/ /\ req'[r].op = "levelUp" /\ req'[r].pc \in {"verifyBuds", "countItems"}
               /\ req'[r].pair \in Pairs /\ IsPaired(req'[r].pair)
            \/ /\ req'[r].op = "finalize" /\ req'[r].pc = "evaluate"
               /\ req'[r].pair \in Pairs /\ IsPaired(req'[r].pair)
               /\ req'[r].slot = pair[req'[r].pair].slot
            \/ /\ req'[r].op = "cancel" /\ req'[r].pc = "cancelPair"
               /\ req'[r].pair \in Pairs /\ IsPaired(req'[r].pair)
               /\ req'[r].slot = pair[req'[r].pair].slot
            \/ /\ req'[r].op \in {"invalidate", "adminInvalidate", "invalidateSlots"}
               /\ req'[r].pc \in {"findPairs", "findPrevPairs", "deleteSlots"}
<1>1. ASSUME NEW x, req' = [req EXCEPT ![r] = x] PROVE req'[r] = x
  BY <1>1 DEF TypeOK
<1>2. CASE CreateBegin(r)
  <2>1. PICK u \in Users, m \in MaleBuds, f \in FemaleBuds, i \in Items \union {None} :
               req'[r] = CreateLocals(u, m, f, i)
    BY <1>1, <1>2 DEF CreateBegin
  <2> QED BY <1>2, <2>1 DEF CreateBegin, Begin, CreateLocals, Idle
<1>3. CASE LevelUpBegin(r)
  <2>1. PICK u \in Users, p \in Pairs : IsPaired(p) /\ req'[r] = LevelUpLocals(u, p)
    BY <1>1, <1>3 DEF LevelUpBegin, OwnPairs
  <2>2. req[r].pc = "idle" /\ pair' = pair
    BY <1>3 DEF LevelUpBegin, Begin, tables
  <2>3. LevelUpLocals(u, p).op = "levelUp" /\ LevelUpLocals(u, p).pair = p
        /\ LevelUpLocals(u, p).pc \in {"verifyBuds", "countItems"}
    BY DEF LevelUpLocals, Idle
  <2> QED BY <2>1, <2>2, <2>3 DEF IsPaired
<1>4. CASE FinalizeBegin(r)
  <2>1. PICK u \in Users, p \in Pairs : IsPaired(p) /\ req'[r] = FinalizeLocals(u, p)
    BY <1>1, <1>4 DEF FinalizeBegin, OwnPairs
  <2>2. req[r].pc = "idle" /\ pair' = pair
    BY <1>4 DEF FinalizeBegin, Begin, tables
  <2>3. FinalizeLocals(u, p).slot = pair[p].slot /\ FinalizeLocals(u, p).pair = p
    BY DEF FinalizeLocals, Idle
  <2>4. FinalizeLocals(u, p).op = "finalize" /\ FinalizeLocals(u, p).pc = "evaluate"
    BY DEF FinalizeLocals, Idle
  <2> QED BY <2>1, <2>2, <2>3, <2>4 DEF IsPaired
<1>5. CASE CancelBegin(r)
  <2>1. PICK u \in Users, p \in Pairs : IsPaired(p) /\ req'[r] = CancelLocals(p)
    BY <1>1, <1>5 DEF CancelBegin, OwnPairs
  <2>2. req[r].pc = "idle" /\ pair' = pair
    BY <1>5 DEF CancelBegin, Begin, tables
  <2>3. CancelLocals(p).slot = pair[p].slot /\ CancelLocals(p).pair = p
    BY DEF CancelLocals, Idle
  <2>4. CancelLocals(p).op = "cancel" /\ CancelLocals(p).pc = "cancelPair"
    BY DEF CancelLocals, Idle
  <2> QED BY <2>1, <2>2, <2>3, <2>4 DEF IsPaired
<1>6. CASE InvalidateBegin(r)
  <2>1. PICK u \in Users, m \in MaleBuds, f \in FemaleBuds : req'[r] = InvalidateLocals(u, m, f)
    BY <1>1, <1>6 DEF InvalidateBegin
  <2> QED BY <1>6, <2>1 DEF InvalidateBegin, Begin, InvalidateLocals, Idle
<1>7. CASE AdminInvalidateBegin(r)
  <2>1. PICK u \in Users, b \in Buds : req'[r] = AdminLocals(u, b)
    BY <1>1, <1>7 DEF AdminInvalidateBegin
  <2> QED BY <1>7, <2>1 DEF AdminInvalidateBegin, Begin, AdminLocals, Idle
<1>8. CASE InvalidateSlotsBegin(r)
  <2>1. PICK u \in Users, key \in Keys : req'[r] = SlotsLocals(u, key)
    BY <1>1, <1>8 DEF InvalidateSlotsBegin
  <2> QED BY <1>8, <2>1 DEF InvalidateSlotsBegin, Begin, SlotsLocals, Idle
<1> QED BY <1>2, <1>3, <1>4, <1>5, <1>6, <1>7, <1>8 DEF Start

\* Of requests that do not overlap one acts, and the others are idle before and after.
LEMMA OneActs ==
  ASSUME BreedingInv, Serial, Serial', [Next]_vars
  PROVE  \/ Outside
         \/ \E r \in Reqs :
              /\ Start(r) \/ Continue(r) \/ Abort(r)
              /\ \A q \in Reqs \ {r} : req[q].pc = "idle" /\ req'[q].pc = "idle"
<1>1. SUFFICES ASSUME NEW r \in Reqs, Start(r) \/ Continue(r) \/ Abort(r),
                      NEW q \in Reqs \ {r}
               PROVE  req[q].pc = "idle" /\ req'[q].pc = "idle"
  BY NextCases
<1>2. TypeOK /\ req'[q] = req[q]
  BY <1>1, OthersKept DEF BreedingInv
<1>3. CASE Start(r)
  BY <1>2, <1>3, Started DEF Serial, At
<1>4. CASE Continue(r) \/ Abort(r)
  BY <1>2, <1>4, ActionAt DEF Serial, At, Abort
<1> QED BY <1>1, <1>3, <1>4

-----------------------------------------------------------------------------
(* AloneInv is an invariant of requests that do not overlap *)

LEMMA AloneInit == Init => AloneInv
<1> SUFFICES ASSUME Init PROVE AloneInv
  OBVIOUS
<1>1. ASSUME NEW p \in Pairs
      PROVE  ~IsPaired(p) /\ \A k \in Levels : level[p][k].bonus = 0
  BY DEF Init, NoPair, NoLevel, IsPaired
<1>2. \A r \in Reqs : req[r].pc = "idle"
  BY DEF Init, Idle
<1>3. BudBredOnce /\ \A p \in Pairs : Undrawn(p)
  BY <1>1 DEF BudBredOnce, Undrawn
<1>4. \A r \in Reqs : BudsFree(r) /\ HoldsPair(r) /\ NotDrawn(r) /\ Counted(r)
  BY <1>2 DEF BudsFree, HoldsPair, NotDrawn, Counted
<1> QED BY <1>3, <1>4, InvInit DEF AloneInv

\* A bonus is set to 0 with a new row, or drawn for the level a request evaluates.
LEMMA BonusWrites ==
  ASSUME BreedingInv, [Next]_vars, NEW p \in Pairs, NEW k \in Levels,
         level'[p][k].bonus # level[p][k].bonus
  PROVE  \/ ~level[p][k].exists /\ level'[p][k].bonus = 0
         \/ /\ level[p][k].exists /\ level'[p][k].exists
            /\ \E r \in Reqs : req[r].pc = "record" /\ req[r].pair = p /\ req[r].lvl = k
<1>1. PICK r \in Reqs :
        /\ req[r].pair = p
        /\ \/ ~level[p][k].exists /\ level'[p][k].bonus = 0
           \/ Record(r) /\ req[r].lvl = k /\ level'[p][k].exists = level[p][k].exists
  <2>1. level'[p][k] # level[p][k]
    OBVIOUS
  <2> QED BY <2>1, LevelWrites
<1>2. ASSUME Record(r), req[r].lvl = k PROVE req[r].pc = "record" /\ level[p][k].exists
  BY <1>1, <1>2 DEF Record, At, BreedingInv, RequestInv, Evaluated
<1> QED BY <1>1, <1>2

LEMMA UndrawnStep ==
  ASSUME AloneInv, [Next]_vars, NEW p \in Pairs PROVE Undrawn(p)'
<1>1. BreedingInv /\ Grows /\ Undrawn(p)
  BY GrowsStep DEF AloneInv
<1>2. SUFFICES ASSUME NEW k \in Levels, ~level'[p][k].exists PROVE level'[p][k].bonus = 0
  BY DEF Undrawn, Levels
<1>3. level[p][k].bonus = 0
  BY <1>1, <1>2 DEF Grows, Undrawn
<1>4. CASE level'[p][k].bonus # level[p][k].bonus
  BY <1>1, <1>2, <1>4, BonusWrites
<1> QED BY <1>3, <1>4

\* Where the acting request stands after its step.
LEMMA BudsFreeStep ==
  ASSUME AloneInv, NEW r \in Reqs, Start(r) \/ Continue(r) \/ Abort(r) PROVE BudsFree(r)'
<1>1. TypeOK /\ BudsFree(r)
  BY DEF AloneInv, BreedingInv
<1>2. SUFFICES ASSUME req'[r].pc \in {"findSlot", "upgradeSlot", "insertPair"}
               PROVE  InBreeding(req[r].male, req[r].female)' = {}
  BY DEF BudsFree
<1>3. ~Start(r) /\ ~Reply(r)
  BY <1>1, <1>2, Started, ReplyFields DEF Idle
<1>4. Continue(r) /\ GoesOnWith(r)
  BY <1>1, <1>3, LocalsStep DEF Abort
<1>5. req[r].pc \in {"countPairs", "findSlot", "upgradeSlot"}
  BY <1>2, <1>4 DEF GoesOnWith, Flow
<1>6. /\ req[r].pc = "countPairs" => InBreeding(req[r].male, req[r].female) = {}
      /\ pair' = pair
  BY <1>3, <1>4, <1>5, ActionAt DEF CountPairs, FindSlot, UpgradeSlot, tables
<1>7. InBreeding(req[r].male, req[r].female) = {}
  BY <1>1, <1>5, <1>6 DEF BudsFree
<1> QED BY <1>4, <1>6, <1>7 DEF GoesOnWith, InBreeding, IsPaired

LEMMA FoundPaired ==
  ASSUME TypeOK, NEW r \in Reqs, FindPairs(r) \/ FindPrevPairs(r), ~Reply(r)
  PROVE  /\ \A p \in req'[r].hits : p \in Pairs /\ IsPaired(p)
         /\ pair' = pair /\ slot' = slot
<1>1. PICK H : /\ req' = [req EXCEPT ![r].hits = H, ![r].pc = "failPairs"]
               /\ \A p \in H : p \in Pairs /\ IsPaired(p)
  BY DEF FindPairs, FindPrevPairs, ForeignPairs, InBreeding, PairsOfPrevOwner, OwnPairs
<1>2. req'[r] = [req[r] EXCEPT !.hits = H, !.pc = "failPairs"] /\ req[r] \in Local
  BY <1>1 DEF TypeOK, Local
<1>3. req'[r].hits = H
  BY <1>2 DEF Local
<1> QED BY <1>1, <1>3 DEF FindPairs, FindPrevPairs, tables

LEMMA HoldsPairStep ==
  ASSUME AloneInv, NEW r \in Reqs, Start(r) \/ Continue(r) \/ Abort(r) PROVE HoldsPair(r)'
<1>1. TypeOK /\ HoldsPair(r) /\ RequestInv(r)
  BY DEF AloneInv, BreedingInv
<1>2. CASE Start(r)
  <2>1. pair' = pair
    BY <1>2, StartFrame DEF tables
  <2> QED BY <1>1, <1>2, <2>1, Started DEF HoldsPair, IsPaired
<1>3. CASE req'[r] = Idle
  BY <1>3 DEF HoldsPair, Idle
<1>4. CASE Continue(r) /\ GoesOnWith(r)
  <2>1. /\ req'[r].pc = "failPairs" => req[r].pc \in {"findPairs", "findPrevPairs"}
        /\ req'[r].pc # "cancelPair" /\ req[r].pc # "idle"
        /\ req'[r].pc \in {"evaluate", "record", "dice", "settle"}
              => req[r].pc \in {"writePoints", "evaluate", "record", "freeSlot"}
        /\ req'[r].pc = "freeSlot" => req[r].pc \in {"dice", "cancelPair"}
    BY <1>4 DEF GoesOnWith, Flow
  <2>2. ASSUME req'[r].pc = "failPairs" PROVE \A p \in req'[r].hits : IsPaired(p)'
    <3>1. FindPairs(r) \/ FindPrevPairs(r)
      BY <1>4, <2>1, <2>2, ActionAt
    <3>2. ~Reply(r)
      BY <1>1, <2>2, ReplyFields DEF Idle
    <3> QED BY <1>1, <3>1, <3>2, FoundPaired DEF IsPaired
  <2>3. ASSUME \/ req'[r].op = "levelUp"
               \/ req'[r].op = "finalize"
                  /\ req'[r].pc \in {"evaluate", "record", "dice", "freeSlot", "settle"}
        PROVE  IsPaired(req[r].pair)' /\ req'[r].pair = req[r].pair
    <3>1. req[r].op = req'[r].op /\ req[r].op \in {"levelUp", "finalize"}
      BY <1>4, <2>3 DEF GoesOnWith
    <3>2. /\ req[r].pc \notin {"insertPair", "cancelPair", "failPairs", "failOnSlots"}
          /\ req[r].pc = "writePoints" => req[r].op = "levelUp"
      <4>1. OpMatchesPc(r)
        BY <1>1 DEF RequestInv
      <4>2. /\ req[r].pc \in {"insertPair", "cancelPair", "failPairs", "failOnSlots"}
                 => req[r].op \notin {"levelUp", "finalize"}
            /\ req[r].pc = "writePoints" => req[r].op = "levelUp"
        BY <4>1 DEF OpMatchesPc
      <4> QED BY <3>1, <4>2
    <3>3. req[r].pc # "settle"
      <4>1. req[r].pc = "settle" => req'[r].pc = "findClosed" /\ req[r].op = "finalize"
        BY <1>1, <1>4 DEF GoesOnWith, Flow, RequestInv, OpMatchesPc, PastRecord
      <4> QED BY <2>3, <3>1, <4>1
    <3>4. IsPaired(req[r].pair) /\ req[r].pair \in Pairs
      BY <1>1, <2>1, <2>3, <3>1, <3>2 DEF HoldsPair, RequestInv, KnowsPair
    <3>5. ~InsertPair(r) /\ ~Settle(r) /\ ~CancelPair(r) /\ ~FailPairs(r) /\ ~FailOnSlots(r)
      BY <3>2, <3>3 DEF InsertPair, Settle, CancelPair, FailPairs, FailOnSlots, At
    <3>6. SameStatus(req[r].pair)
      BY <1>1, <1>4, <3>4, <3>5, PairFrame
    <3>7. req'[r].pair = req[r].pair
      BY <1>4, <3>2 DEF GoesOnWith
    <3> QED BY <3>4, <3>6, <3>7 DEF SameStatus, IsPaired
  <2> QED BY <2>1, <2>2, <2>3 DEF HoldsPair, IsPaired
<1> QED BY <1>1, <1>2, <1>3, <1>4, LocalsStep, ReplyFields DEF Abort

LEMMA NotDrawnStep ==
  ASSUME AloneInv, NEW r \in Reqs, Start(r) \/ Continue(r) \/ Abort(r) PROVE NotDrawn(r)'
<1>1. TypeOK
  BY DEF AloneInv, BreedingInv
<1>2. SUFFICES ASSUME req'[r].pc = "record" PROVE level'[req'[r].pair][req'[r].lvl].bonus = 0
  BY DEF NotDrawn
<1>3. ~Start(r) /\ ~Reply(r)
  BY <1>1, <1>2, Started, ReplyFields DEF Idle
<1>4. Continue(r) /\ GoesOnWith(r)
  BY <1>1, <1>3, LocalsStep DEF Abort
<1>5. req[r].pc = "evaluate"
  BY <1>2, <1>4 DEF GoesOnWith, Flow
<1>6. Evaluate(r) /\ req'[r].pair = req[r].pair /\ req'[r].lvl = req[r].lvl
  BY <1>4, <1>5, ActionAt DEF GoesOnWith
<1> QED BY <1>3, <1>6 DEF Evaluate, CanEvaluate, AlreadyEvaluated, tables

LEMMA CountedStep ==
  ASSUME AloneInv, NEW r \in Reqs, Start(r) \/ Continue(r) \/ Abort(r) PROVE Counted(r)'
<1>1. TypeOK
  BY DEF AloneInv, BreedingInv
<1>2. SUFFICES ASSUME req'[r].op = "levelUp", req'[r].pc = "checkItem"
               PROVE  req'[r].seen = ItemCount(req[r].user, req[r].item)'
  BY DEF Counted
<1>3. ~Start(r) /\ ~Reply(r)
  BY <1>1, <1>2, Started, ReplyFields DEF Idle
<1>4. Continue(r) /\ GoesOnWith(r)
  BY <1>1, <1>3, LocalsStep DEF Abort
<1>5. req[r].pc = "countItems"
  BY <1>2, <1>4 DEF GoesOnWith, Flow
<1> DEFINE n == ItemCount(req[r].user, req[r].item)
<1>6. /\ req' = [req EXCEPT ![r].seen = n, ![r].pc = "checkItem"]
      /\ pair' = pair /\ req'[r].user = req[r].user /\ req'[r].item = req[r].item
  BY <1>3, <1>4, <1>5, ActionAt DEF CountItems, tables, GoesOnWith
<1>7. ItemCount(req[r].user, req[r].item)' = n
  BY <1>6 DEF ItemCount, IsPaired
<1> HIDE DEF n
<1>8. req'[r] = [req[r] EXCEPT !.seen = n, !.pc = "checkItem"] /\ req[r] \in Local
  BY <1>1, <1>6 DEF TypeOK, Local
<1> QED BY <1>7, <1>8 DEF Local

LEMMA BudBredOnceStep ==
  ASSUME AloneInv, Serial, [Next]_vars PROVE BudBredOnce'
<1>1. BreedingInv /\ TypeOK /\ BudBredOnce /\ \A r \in Reqs : BudsFree(r)
  BY DEF AloneInv, BreedingInv
<1>2. \A p \in Pairs : IsPaired(p) => SameRow(p) /\ pair[p].status # "NONE"
  BY <1>1, RowsKept DEF IsPaired
<1>3. ASSUME NEW p \in Pairs, NEW q \in Pairs, p # q, IsPaired(p)', IsPaired(q)', IsPaired(q)
      PROVE  pair'[p].male # pair'[q].male /\ pair'[p].female # pair'[q].female
  <2>1. CASE IsPaired(p)
    BY <1>1, <1>2, <1>3, <2>1 DEF BudBredOnce, SameRow
  <2>2. CASE ~IsPaired(p)
    <3>1. PICK r \in Reqs : InsertPair(r) /\ pair'[p].male = req[r].male
                                         /\ pair'[p].female = req[r].female
      BY <1>1, <1>3, <2>2, PairedBefore
    <3>2. InBreeding(req[r].male, req[r].female) = {}
      BY <1>1, <3>1 DEF InsertPair, At, BudsFree
    <3> QED BY <1>2, <1>3, <3>1, <3>2 DEF InBreeding, SameRow
  <2> QED BY <2>1, <2>2
<1>4. ASSUME NEW p \in Pairs, NEW q \in Pairs, p # q, IsPaired(p)', IsPaired(q)',
             ~IsPaired(p), ~IsPaired(q)
      PROVE  FALSE
  <2>1. PICK r \in Reqs : InsertPair(r) /\ req'[r].pair = p
    BY <1>1, <1>4, PairedBefore
  <2>2. PICK t \in Reqs : InsertPair(t) /\ req'[t].pair = q
    BY <1>1, <1>4, PairedBefore
  <2>3. r = t
    BY <2>1, <2>2 DEF Serial, At, InsertPair
  <2> QED BY <1>4, <2>1, <2>2, <2>3
<1> QED BY <1>3, <1>4 DEF BudBredOnce, Pairs

LEMMA AloneStep == AloneInv /\ Serial /\ Serial' /\ [Next]_vars => AloneInv'
<1> SUFFICES ASSUME AloneInv, Serial, Serial', [Next]_vars PROVE AloneInv'
  OBVIOUS
<1>1. BreedingInv /\ BreedingInv'
  BY InvStep DEF AloneInv
<1>2. BudBredOnce' /\ \A p \in Pairs : Undrawn(p)'
  BY BudBredOnceStep, UndrawnStep
<1>3. ASSUME NEW q \in Reqs PROVE BudsFree(q)' /\ HoldsPair(q)' /\ NotDrawn(q)' /\ Counted(q)'
  <2>1. CASE Outside
    <3>1. UNCHANGED <<pair, level, req>>
      BY <2>1 DEF Outside, Tick, TransferBud, TransferItem, tables, vars
    <3>2. BudsFree(q) /\ HoldsPair(q) /\ NotDrawn(q) /\ Counted(q)
      BY DEF AloneInv
    <3>3. BudsFree(q)' /\ NotDrawn(q)'
      BY <3>1, <3>2 DEF BudsFree, NotDrawn, InBreeding, IsPaired
    <3>4. HoldsPair(q)' /\ Counted(q)'
      BY <3>1, <3>2 DEF HoldsPair, Counted, ItemCount, IsPaired
    <3> QED BY <3>3, <3>4
  <2>2. CASE req'[q].pc = "idle"
    BY <2>2 DEF BudsFree, HoldsPair, NotDrawn, Counted
  <2>3. CASE Start(q) \/ Continue(q) \/ Abort(q)
    BY <2>3, BudsFreeStep, HoldsPairStep, NotDrawnStep, CountedStep
  <2> QED BY <1>1, <2>1, <2>2, <2>3, OneActs
<1> QED BY <1>1, <1>2, <1>3 DEF AloneInv, Pairs

\* Requests that do not overlap keep AloneInv, whatever fails.
LEMMA AloneInvariance == Spec /\ []Serial => []AloneInv
  BY AloneInit, AloneStep, PTL DEF Spec

-----------------------------------------------------------------------------
(* What it means: failures allowed, overlaps not *)

\* Requests that do not overlap leave no bud in two PAIRED pairs (createPair, findPairInBreeding).
THEOREM BudsBredOnce == Spec /\ []Serial => []BudBredOnce
<1>1. AloneInv => BudBredOnce
  BY DEF AloneInv
<1> QED BY <1>1, AloneInvariance, PTL

\* The action of SettledIsFinal.
StaysSettled ==
  \A p \in Pairs :
    IsSettled(p) /\ pair'[p].status # pair[p].status =>
      \E r \in Reqs : At(r, "failOnSlots") /\ pair[p].slot \in req[r].doomed

LEMMA SettledStep == ASSUME AloneInv, [Next]_vars PROVE StaysSettled
<1>1. TypeOK /\ \A q \in Pairs : Unborn(q)
  BY DEF AloneInv, BreedingInv
<1>2. SUFFICES ASSUME NEW p \in Pairs, IsSettled(p), pair'[p].status # pair[p].status
               PROVE  \E r \in Reqs : At(r, "failOnSlots") /\ pair[p].slot \in req[r].doomed
  BY DEF StaysSettled
<1>3. PICK r \in Reqs : Start(r) \/ Continue(r) \/ Abort(r)
  <2>1. Outside => pair' = pair
    BY DEF Outside, Tick, TransferBud, TransferItem, tables, vars
  <2> QED BY <1>2, <2>1, NextCases
<1>4. InsertPair(r) \/ Settle(r) \/ CancelPair(r) \/ FailPairs(r) \/ FailOnSlots(r)
  BY <1>1, <1>2, <1>3, PairFrame DEF SameStatus
<1>5. ~IsPaired(p) /\ pair[p].status # "NONE"
  BY <1>2 DEF IsSettled, IsPaired
<1>6. HoldsPair(r) /\ OpMatchesPc(r)
  BY DEF AloneInv, BreedingInv, RequestInv
<1>7. ~InsertPair(r)
  BY <1>1, <1>2, <1>5, InsertWrites
<1>8. ~Settle(r) /\ ~CancelPair(r)
  <2>1. ASSUME Settle(r) \/ CancelPair(r) PROVE IsPaired(req[r].pair)
    BY <1>6, <2>1 DEF Settle, CancelPair, At, HoldsPair, OpMatchesPc, PastRecord
  <2>2. ASSUME Settle(r) \/ CancelPair(r) PROVE req[r].pair = p
    BY <1>1, <1>2, <2>2 DEF Settle, CancelPair, TypeOK
  <2> QED BY <1>5, <2>1, <2>2
<1>9. ~FailPairs(r)
  BY <1>1, <1>2, <1>5, <1>6 DEF FailPairs, At, HoldsPair, TypeOK
<1>10. FailOnSlots(r) => p \in PairsOnSlots(req[r].doomed)
  BY <1>1, <1>2 DEF FailOnSlots, TypeOK
<1> QED BY <1>4, <1>7, <1>8, <1>9, <1>10 DEF FailOnSlots, PairsOnSlots

\* Of requests that do not overlap only invalidate-slots changes the status of a pair that
\* was completed, failed or canceled.
THEOREM SettledStays == Spec /\ []Serial => SettledIsFinal
<1>1. AloneInv /\ [Next]_vars
        => [\A p \in Pairs :
              IsSettled(p) /\ pair'[p].status # pair[p].status =>
                \E r \in Reqs : At(r, "failOnSlots") /\ pair[p].slot \in req[r].doomed]_vars
  BY SettledStep DEF StaysSettled
<1> QED BY <1>1, AloneInvariance, PTL DEF Spec, SettledIsFinal

LEMMA BonusStep ==
  ASSUME AloneInv, [Next]_vars, NEW p \in Pairs, NEW k \in Levels, level[p][k].bonus # 0
  PROVE  level'[p][k].bonus = level[p][k].bonus
<1> SUFFICES ASSUME level'[p][k].bonus # level[p][k].bonus PROVE FALSE
  OBVIOUS
<1>1. BreedingInv /\ Undrawn(p) /\ \A r \in Reqs : NotDrawn(r)
  BY DEF AloneInv
<1>2. level[p][k].exists
  BY <1>1 DEF Undrawn
<1>3. PICK r \in Reqs : req[r].pc = "record" /\ req[r].pair = p /\ req[r].lvl = k
  BY <1>1, <1>2, BonusWrites
<1> QED BY <1>1, <1>3 DEF NotDrawn

\* Of requests that do not overlap none draws the bonus of a level again, also when the one
\* that drew it failed.
THEOREM BonusStays == Spec /\ []Serial => BonusFixed
<1>1. AloneInv /\ [Next]_vars
        => [\A p \in Pairs : \A k \in Levels :
              level[p][k].bonus # 0 => level'[p][k].bonus = level[p][k].bonus]_vars
  BY BonusStep
<1> QED BY <1>1, AloneInvariance, PTL DEF Spec, BonusFixed

LEMMA CoverStep ==
  ASSUME AloneInv, [Next]_vars, NEW r \in Reqs,
         At(r, "checkItem"), req[r].op = "levelUp", req'[r].pc = "verifyBuds"
  PROVE  balance[req[r].user][req[r].item] >= ItemCount(req[r].user, req[r].item)
<1>1. TypeOK /\ Counted(r)
  BY DEF AloneInv, BreedingInv
<1>2. Start(r) \/ Continue(r) \/ Abort(r)
  <2>1. req'[r] # req[r]
    BY DEF At
  <2>2. Outside => req' = req
    BY DEF Outside, Tick, TransferBud, TransferItem, vars
  <2> QED BY <1>1, <2>1, <2>2, NextCases, OthersKept
<1>3. Continue(r) /\ ~Reply(r)
  <2>1. ~Start(r)
    BY <1>1, Started DEF At
  <2>2. ~Reply(r)
    BY <1>1, ReplyFields DEF Idle
  <2> QED BY <1>2, <2>1, <2>2 DEF Abort
<1>4. CheckItem(r)
  BY <1>3, ActionAt DEF At
<1>5. balance[req[r].user][req[r].item] >= req[r].seen
  BY <1>3, <1>4 DEF CheckItem
<1> QED BY <1>1, <1>5 DEF Counted, At

\* Of requests that do not overlap each levelUp goes on only while the user holds as many of
\* the item as they have pairs using it.
THEOREM ItemsCover == Spec /\ []Serial => ItemsCoverPairs
<1>1. AloneInv /\ [Next]_vars
        => [\A r \in Reqs :
              At(r, "checkItem") /\ req[r].op = "levelUp" /\ req'[r].pc = "verifyBuds" =>
                balance[req[r].user][req[r].item] >= ItemCount(req[r].user, req[r].item)]_vars
  BY CoverStep
<1> QED BY <1>1, AloneInvariance, PTL DEF Spec, ItemsCoverPairs

-----------------------------------------------------------------------------
(* CalmInv is an invariant of requests that neither overlap nor fail *)

SameUse(s) == slot'[s].used = slot[s].used /\ slot'[s].deleted = slot[s].deleted

\* Which awaits write whether a slot is used or deleted.
LEMMA UseFrame ==
  ASSUME TypeOK, NEW r \in Reqs, Start(r) \/ Continue(r) \/ Abort(r),
         ~MarkUsed(r), ~FreeSlot(r), ~FreeSlots(r), ~DeleteSlots(r)
  PROVE  \A s \in Slots : SameUse(s)
<1>1. slot' = slot => \A s \in Slots : SameUse(s)
  BY DEF SameUse
<1>2. CASE UpgradeSlot(r)
  <2> DEFINE t == req[r].slot
  <2>1. slot' = [slot EXCEPT ![t] = [slot[t] EXCEPT !.indoor = TRUE]]
    BY <1>2 DEF UpgradeSlot
  <2> HIDE DEF t
  <2>2. ASSUME NEW s \in Slots PROVE SameUse(s)
    <3>1. slot[s] \in SlotRow /\ slot \in [Slots -> SlotRow]
      BY DEF TypeOK
    <3>2. slot'[s] = slot[s] \/ slot'[s] = [slot[s] EXCEPT !.indoor = TRUE]
      BY <2>1, <3>1
    <3> QED BY <3>1, <3>2 DEF SlotRow, SameUse
  <2> QED BY <2>2
<1>3. CASE OpenSlot(r)
  <2> DEFINE t == req[r].slot
  <2>1. slot' = [slot EXCEPT ![t] = [slot[t] EXCEPT !.open = TRUE]]
    BY <1>3 DEF OpenSlot
  <2> HIDE DEF t
  <2>2. ASSUME NEW s \in Slots PROVE SameUse(s)
    <3>1. slot[s] \in SlotRow /\ slot \in [Slots -> SlotRow]
      BY DEF TypeOK
    <3>2. slot'[s] = slot[s] \/ slot'[s] = [slot[s] EXCEPT !.open = TRUE]
      BY <2>1, <3>1
    <3> QED BY <3>1, <3>2 DEF SlotRow, SameUse
  <2> QED BY <2>2
<1>4. Start(r) \/ Abort(r) => slot' = slot
  BY StartFrame DEF Abort, tables
<1>5. CASE Continue(r)
  <2>1. \/ CheckItem(r) \/ CountPairs(r) \/ FindSlot(r) \/ CountItems(r)
        \/ VerifyBuds(r) \/ ReadPoints(r) \/ Evaluate(r) \/ Dice(r)
        \/ FindClosed(r) \/ FindPairs(r) \/ FindPrevPairs(r)
        => slot' = slot
    BY DEF CheckItem, CountPairs, FindSlot, CountItems, VerifyBuds, ReadPoints, Evaluate,
        Dice, FindClosed, FindPairs, FindPrevPairs, tables
  <2>2. \/ InsertPair(r) \/ Settle(r) \/ CancelPair(r) \/ FailPairs(r)
        \/ FailOnSlots(r) \/ Bump(r) \/ Mint(r) \/ Sign(r)
        \/ MkLevel(r) \/ MkBuds(r) \/ Record(r) \/ WritePoints(r)
        => slot' = slot
    BY DEF InsertPair, Settle, CancelPair, FailPairs, FailOnSlots, Bump, Mint, Sign,
        MkLevel, MkBuds, Record, WritePoints
  <2> QED BY <1>1, <1>2, <1>3, <1>5, <2>1, <2>2 DEF Continue
<1> QED BY <1>1, <1>4, <1>5

LEMMA RewardFrame ==
  ASSUME NEW r \in Reqs, Start(r) \/ Continue(r) \/ Abort(r), ~Mint(r), ~Sign(r)
  PROVE  gen1' = gen1
<1>1. Start(r) \/ Abort(r) => gen1' = gen1
  BY StartFrame DEF Abort, tables
<1>2. \/ CheckItem(r) \/ CountPairs(r) \/ FindSlot(r) \/ CountItems(r)
      \/ VerifyBuds(r) \/ ReadPoints(r) \/ Evaluate(r) \/ Dice(r)
      \/ FindClosed(r) \/ FindPairs(r) \/ FindPrevPairs(r)
      => gen1' = gen1
  BY DEF CheckItem, CountPairs, FindSlot, CountItems, VerifyBuds, ReadPoints, Evaluate,
      Dice, FindClosed, FindPairs, FindPrevPairs, tables
<1>3. \/ InsertPair(r) \/ Settle(r) \/ CancelPair(r) \/ FailPairs(r)
      \/ FailOnSlots(r) \/ Bump(r) \/ MkLevel(r) \/ MkBuds(r) \/ Record(r) \/ WritePoints(r)
      => gen1' = gen1
  BY DEF InsertPair, Settle, CancelPair, FailPairs, FailOnSlots, Bump,
      MkLevel, MkBuds, Record, WritePoints
<1>4. \/ UpgradeSlot(r) \/ MarkUsed(r) \/ FreeSlot(r) \/ OpenSlot(r)
      \/ FreeSlots(r) \/ DeleteSlots(r)
      => gen1' = gen1
  BY DEF UpgradeSlot, MarkUsed, FreeSlot, OpenSlot, FreeSlots, DeleteSlots
<1> QED BY <1>1, <1>2, <1>3, <1>4 DEF Continue

\* A new row, as InsertPair writes it.
LEMMA NewRow ==
  ASSUME TypeOK, NEW r \in Reqs, InsertPair(r)
  PROVE  \E p \in Pairs :
           /\ pair[p].status = "NONE" /\ req'[r].pair = p /\ req'[r].pc = "markUsed"
           /\ pair'[p].status = "PAIRED" /\ pair'[p].slot = req[r].slot
           /\ \A q \in Pairs \ {p} : pair'[q] = pair[q]
           /\ slot' = slot
<1>1. PICK p \in Pairs : NextId(p)
        /\ pair' = [pair EXCEPT ![p] =
                     [status |-> "PAIRED", user |-> req[r].user, male |-> req[r].male,
                      female |-> req[r].female, item |-> req[r].item,
                      slot |-> req[r].slot, level |-> 0]]
        /\ req' = [req EXCEPT ![r].pair = p, ![r].lvl = 0, ![r].pc = "markUsed"]
  BY DEF InsertPair
<1>2. req'[r] = [req[r] EXCEPT !.pair = p, !.lvl = 0, !.pc = "markUsed"] /\ req[r] \in Local
  BY <1>1 DEF TypeOK, Local
<1>3. req'[r].pair = p /\ req'[r].pc = "markUsed"
  BY <1>2 DEF Local
<1>4. pair \in [Pairs -> PairRow]
  BY DEF TypeOK
<1> QED BY <1>1, <1>3, <1>4 DEF NextId, InsertPair

\* The one step of a request that is not disturbed and does not fail.
Turn(r) ==
  /\ Start(r) \/ Continue(r)
  /\ \A q \in Reqs \ {r} : req[q].pc = "idle" /\ req'[q].pc = "idle"

\* Before a turn only the slots the acting request mends are out of step.
LEMMA OutOfStep ==
  ASSUME CalmInv, NEW r \in Reqs, Turn(r), NEW s \in Slots, ~slot[s].deleted, ~Mends(r, s)
  PROVE  InStep(s)
<1>1. \A q \in Reqs : ~Mends(q, s)
  BY DEF Turn, Mends
<1> QED BY <1>1 DEF CalmInv, Tracked

LEMMA SlotBredOnceStep ==
  ASSUME CalmInv, [Next]_vars, NEW r \in Reqs, Turn(r) PROVE SlotBredOnce'
<1>1. BreedingInv /\ TypeOK /\ SlotBredOnce
  BY DEF CalmInv, AloneInv, BreedingInv
<1>2. \A p \in Pairs : IsPaired(p)' /\ pair[p].status # "NONE" => IsPaired(p) /\ SameRow(p)
  BY <1>1, RowsKept
<1>3. CASE InsertPair(r)
  <2>1. PICK n \in Pairs : /\ pair[n].status = "NONE" /\ pair'[n].slot = req[r].slot
                           /\ \A q \in Pairs \ {n} : pair'[q] = pair[q]
    BY <1>1, <1>3, NewRow
  <2>2. KnowsSlots(r) /\ req[r].pc = "insertPair"
    BY <1>3 DEF CalmInv, InsertPair, At
  <2>3. ~Mends(r, req[r].slot)
    BY <2>2 DEF Mends
  <2>4. ~Held(req[r].slot)
    BY <2>2, <2>3, OutOfStep DEF KnowsSlots, InStep
  <2>5. ASSUME NEW p \in Pairs, NEW q \in Pairs, p # q, IsPaired(p)', IsPaired(q)', p # n
        PROVE  pair'[p].slot # pair'[q].slot
    <3>1. IsPaired(p) /\ pair'[p] = pair[p]
      BY <2>1, <2>5 DEF IsPaired
    <3>2. CASE q = n
      BY <2>1, <2>4, <3>1, <3>2 DEF Held
    <3>3. CASE q # n
      BY <1>1, <2>1, <2>5, <3>1, <3>3 DEF SlotBredOnce, IsPaired
    <3> QED BY <3>2, <3>3
  <2> QED BY <2>5 DEF SlotBredOnce, Pairs
<1>4. CASE ~InsertPair(r)
  <2>1. \A p \in Pairs : IsPaired(p)' => IsPaired(p) /\ SameRow(p)
    <3>1. ASSUME NEW p \in Pairs, IsPaired(p)', ~IsPaired(p) PROVE FALSE
      <4>1. PICK q \in Reqs : InsertPair(q)
        BY <1>1, <3>1, PairedBefore
      <4> QED BY <1>4, <4>1 DEF Turn, InsertPair, At
    <3> QED BY <1>2, <3>1 DEF IsPaired
  <2> QED BY <1>1, <2>1 DEF SlotBredOnce, SameRow, Pairs
<1> QED BY <1>3, <1>4

LEMMA HeldFrame ==
  ASSUME \A p \in Pairs : SameRow(p) /\ SameStatus(p), NEW s PROVE Held(s)' <=> Held(s)
  BY DEF Held, IsPaired, SameRow, SameStatus, Pairs

\* Only one pair is on the slot of a PAIRED pair: when it leaves, the slot is free.
LEMMA LeavesFree ==
  ASSUME CalmInv, [Next]_vars, NEW p \in Pairs, IsPaired(p), pair'[p].status # "PAIRED",
         \A q \in Pairs : IsPaired(q)' => IsPaired(q) /\ SameRow(q)
  PROVE  \A q \in Pairs : IsPaired(q)' => pair'[q].slot # pair[p].slot
<1> SUFFICES ASSUME NEW q \in Pairs, IsPaired(q)', pair'[q].slot = pair[p].slot PROVE FALSE
  OBVIOUS
<1>1. p # q /\ IsPaired(q) /\ pair[q].slot = pair[p].slot
  BY DEF SameRow, IsPaired
<1> QED BY <1>1 DEF CalmInv, SlotBredOnce

\* The other slots keep their pairs.
LEMMA OthersHeld ==
  ASSUME NEW S, NEW s, s \notin S, \A q \in Pairs : SameRow(q),
         \A q \in Pairs : pair[q].slot \in S \/ SameStatus(q)
  PROVE  Held(s)' <=> Held(s)
  BY DEF Held, IsPaired, SameRow, SameStatus, Pairs

\* A request that settles, cancels or fails pairs makes no pair PAIRED.
LEMMA NonePaired ==
  ASSUME BreedingInv, [Next]_vars, NEW r \in Reqs, Turn(r), ~InsertPair(r)
  PROVE  \A q \in Pairs : IsPaired(q)' => IsPaired(q) /\ SameRow(q)
<1>1. ASSUME NEW q \in Pairs, IsPaired(q)', ~IsPaired(q) PROVE FALSE
  <2>1. PICK t \in Reqs : InsertPair(t)
    BY <1>1, PairedBefore
  <2> QED BY <2>1 DEF Turn, InsertPair, At
<1> QED BY <1>1, RowsKept DEF IsPaired

LEMMA TrackedStep ==
  ASSUME CalmInv, [Next]_vars, NEW r \in Reqs, Turn(r), NEW s \in Slots PROVE Tracked(s)'
<1>1. BreedingInv /\ TypeOK /\ KnowsSlots(r) /\ HoldsPair(r) /\ OpMatchesPc(r)
  BY DEF CalmInv, AloneInv, BreedingInv, RequestInv
<1>0. slot \in [Slots -> SlotRow] /\ slot[s] \in SlotRow /\ req[r].doomed \in SUBSET Slots
  BY <1>1 DEF TypeOK, Local
<1>2. SUFFICES ASSUME ~slot'[s].deleted, ~Mends(r, s)' PROVE InStep(s)'
  BY DEF Tracked
<1>3. ~slot[s].deleted /\ ~Mends(r, s) => InStep(s)
  BY OutOfStep
<1> DEFINE WritesSlot == MarkUsed(r) \/ FreeSlot(r) \/ FreeSlots(r) \/ DeleteSlots(r)
           WritesPair == \/ InsertPair(r) \/ Settle(r) \/ CancelPair(r) \/ FailPairs(r)
                         \/ FailOnSlots(r)
<1>4. ASSUME ~WritesSlot PROVE SameUse(s)
  BY <1>1, <1>4, UseFrame DEF Turn
<1>5. ASSUME ~WritesPair PROVE Held(s)' <=> Held(s)
  <2>1. \A p \in Pairs : SameRow(p) /\ SameStatus(p)
    BY <1>1, <1>5, PairFrame DEF Turn
  <2> QED BY <2>1, HeldFrame
<1>6. ASSUME Settle(r) \/ CancelPair(r) \/ FailPairs(r) \/ FailOnSlots(r)
      PROVE  (\A p \in Pairs : SameRow(p)) /\ (\A q \in Pairs : IsPaired(q)' => IsPaired(q))
             /\ ~WritesSlot /\ ~Start(r)
  <2>1. \A p \in Pairs : SameRow(p)
    BY <1>1, <1>6, StatusFrame
  <2>2. ~InsertPair(r) /\ ~WritesSlot /\ req[r].pc # "idle"
    BY <1>6 DEF Settle, CancelPair, FailPairs, FailOnSlots, InsertPair, MarkUsed, FreeSlot,
                FreeSlots, DeleteSlots, At
  <2> QED BY <1>1, <2>1, <2>2, NonePaired, Started
<1>7. CASE ~WritesSlot /\ ~WritesPair
  <2>1. ~Mends(r, s)
    <3>1. Start(r) => req[r].pc = "idle"
      BY <1>1, Started
    <3>2. /\ Continue(r) => req[r].pc \notin {"markUsed", "settle", "freeSlot", "freeSlots"}
      BY <1>7, ActionAt
    <3> QED BY <3>1, <3>2 DEF Turn, Mends
  <2> QED BY <1>2, <1>3, <1>4, <1>5, <1>7, <2>1 DEF InStep, SameUse
<1>8. CASE InsertPair(r)
  <2>1. PICK n \in Pairs : /\ pair[n].status = "NONE" /\ pair'[n].slot = req[r].slot
                           /\ req'[r].pc = "markUsed" /\ slot' = slot
                           /\ \A q \in Pairs \ {n} : pair'[q] = pair[q]
    BY <1>1, <1>8, NewRow
  <2>2. ~Mends(r, s) /\ req[r].pc = "insertPair"
    BY <1>8 DEF InsertPair, At, Mends
  <2>3. s # req'[r].slot
    BY <1>2, <2>1 DEF Mends
  <2>4. req'[r].slot = req[r].slot
    <3>1. Continue(r)
      BY <1>8 DEF Continue
    <3>2. req'[r] # Idle
      BY <2>1 DEF Idle
    <3> QED BY <1>1, <2>2, <3>1, <3>2, LocalsStep DEF GoesOnWith
  <2>5. Held(s)' <=> Held(s)
    BY <2>1, <2>3, <2>4 DEF Held, IsPaired
  <2> QED BY <1>2, <1>3, <2>1, <2>2, <2>5 DEF InStep
<1>9. CASE MarkUsed(r)
  <2>1. req[r].pc = "markUsed" /\ slot' = [slot EXCEPT ![req[r].slot].used = TRUE] /\ pair' = pair
    BY <1>9 DEF MarkUsed, At
  <2>2. Held(s)' <=> Held(s)
    BY <2>1 DEF Held, IsPaired
  <2>3. CASE s = req[r].slot
    <3>1. slot'[s] = [slot[s] EXCEPT !.used = TRUE]
      BY <1>0, <2>1, <2>3
    <3>2. slot'[s].used
      BY <1>0, <3>1 DEF SlotRow
    <3>3. req[r].pair \in Pairs
      BY <1>1, <2>1 DEF BreedingInv, RequestInv, KnowsPair
    <3>4. Held(s)
      BY <1>1, <2>1, <2>3, <3>3 DEF KnowsSlots, Held
    <3> QED BY <2>2, <3>2, <3>4 DEF InStep
  <2>4. CASE s # req[r].slot
    <3>1. slot'[s] = slot[s] /\ ~Mends(r, s)
      BY <1>0, <2>1, <2>4 DEF Mends
    <3> QED BY <1>2, <1>3, <2>2, <3>1 DEF InStep
  <2> QED BY <2>3, <2>4
<1>10. CASE FreeSlot(r)
  <2>1. req[r].pc = "freeSlot" /\ slot' = [slot EXCEPT ![req[r].slot].used = FALSE] /\ pair' = pair
    BY <1>10 DEF FreeSlot, At
  <2>2. Held(s)' <=> Held(s)
    BY <2>1 DEF Held, IsPaired
  <2>3. CASE s = req[r].slot
    <3>1. slot'[s] = [slot[s] EXCEPT !.used = FALSE]
      BY <1>0, <2>1, <2>3
    <3>2. ~slot'[s].used
      BY <1>0, <3>1 DEF SlotRow
    <3>3. CASE req[r].op = "cancel"
      BY <1>1, <2>1, <2>2, <2>3, <3>2, <3>3 DEF KnowsSlots, InStep
    <3>4. CASE req[r].op = "finalize"
      <4>1. Goto(r, "settle") /\ req[r] \in Local /\ req \in [Reqs -> Local]
        BY <1>1, <1>10, <3>4 DEF FreeSlot, TypeOK
      <4>2. req'[r] = [req[r] EXCEPT !.pc = "settle"]
        BY <4>1 DEF Goto
      <4>3. req'[r].pc = "settle" /\ req'[r].slot = req[r].slot
        BY <4>1, <4>2 DEF Local
      <4> QED BY <1>2, <2>3, <4>3 DEF Mends
    <3> QED BY <1>1, <2>1, <3>3, <3>4 DEF OpMatchesPc
  <2>4. CASE s # req[r].slot
    <3>1. slot'[s] = slot[s] /\ ~Mends(r, s)
      BY <1>0, <2>1, <2>4 DEF Mends
    <3> QED BY <1>2, <1>3, <2>2, <3>1 DEF InStep
  <2> QED BY <2>3, <2>4
<1>11. CASE FreeSlots(r)
  <2> DEFINE S == {pair[p].slot : p \in req[r].hits}
  <2>1. /\ req[r].pc = "freeSlots" /\ pair' = pair
        /\ slot'[s] = IF s \in S THEN [slot[s] EXCEPT !.used = FALSE] ELSE slot[s]
    BY <1>11 DEF FreeSlots, At
  <2>2. Held(s)' <=> Held(s)
    BY <2>1 DEF Held, IsPaired
  <2>3. CASE s \in S
    <3>1. ~slot'[s].used
      BY <1>0, <2>1, <2>3 DEF SlotRow
    <3>2. ~Held(s)
      BY <1>1, <2>1, <2>3 DEF KnowsSlots
    <3> QED BY <2>2, <3>1, <3>2 DEF InStep
  <2>4. CASE s \notin S
    <3>1. slot'[s] = slot[s] /\ ~Mends(r, s)
      BY <2>1, <2>4 DEF Mends
    <3> QED BY <1>2, <1>3, <2>2, <3>1 DEF InStep
  <2> QED BY <2>3, <2>4
<1>12. CASE DeleteSlots(r)
  <2>1. /\ req[r].pc = "deleteSlots" /\ pair' = pair
        /\ slot'[s] = IF s \in req[r].doomed THEN [slot[s] EXCEPT !.deleted = TRUE] ELSE slot[s]
    BY <1>12 DEF DeleteSlots, At
  <2>2. Held(s)' <=> Held(s)
    BY <2>1 DEF Held, IsPaired
  <2>3. slot'[s] = slot[s]
    BY <1>0, <1>2, <2>1 DEF SlotRow
  <2>4. ~Mends(r, s)
    BY <2>1 DEF Mends
  <2> QED BY <1>2, <1>3, <2>2, <2>3, <2>4 DEF InStep
<1>13. CASE Settle(r) \/ CancelPair(r)
  <2>1. req[r].pc \in {"settle", "cancelPair"} /\ (\A q \in Pairs : q # req[r].pair => SameStatus(q))
        /\ pair'[req[r].pair].status # "PAIRED" /\ req[r].pair \in Pairs
    <3>1. req[r].pair \in Pairs
      BY <1>1, <1>13 DEF Settle, CancelPair, At, BreedingInv, RequestInv, KnowsPair, OpMatchesPc,
                         PastRecord
    <3>2. pair \in [Pairs -> PairRow] /\ pair[req[r].pair] \in PairRow
      BY <1>1, <3>1 DEF TypeOK
    <3>3. \E st \in {"COMPLETED", "FAILED", "CANCELED"} :
             pair' = [pair EXCEPT ![req[r].pair] = [pair[req[r].pair] EXCEPT !.status = st]]
      BY <1>13 DEF Settle, CancelPair
    <3> QED BY <1>13, <3>1, <3>2, <3>3 DEF Settle, CancelPair, At, SameStatus, PairRow
  <2>2. IsPaired(req[r].pair) /\ pair[req[r].pair].slot = req[r].slot
    BY <1>1, <2>1 DEF HoldsPair, KnowsSlots, OpMatchesPc, PastRecord
  <2>3. \A q \in Pairs : IsPaired(q)' => pair'[q].slot # req[r].slot
    <3>1. PICK b \in Pairs : b = req[r].pair
      BY <2>1
    <3>2. IsPaired(b) /\ pair'[b].status # "PAIRED" /\ pair[b].slot = req[r].slot
      BY <2>1, <2>2, <3>1
    <3>3. \A q \in Pairs : IsPaired(q)' => IsPaired(q) /\ SameRow(q)
      BY <1>6, <1>13
    <3>4. \A q \in Pairs : IsPaired(q)' => pair'[q].slot # pair[b].slot
      BY <3>2, <3>3, LeavesFree
    <3> QED BY <3>2, <3>4
  <2>4. CASE s = req[r].slot
    <3>1. CASE CancelPair(r)
      <4>1. Goto(r, "freeSlot") /\ req[r] \in Local /\ req \in [Reqs -> Local]
            /\ req[r].op = "cancel"
        BY <1>1, <3>1 DEF CancelPair, TypeOK, OpMatchesPc, At
      <4>2. req'[r] = [req[r] EXCEPT !.pc = "freeSlot"]
        BY <4>1 DEF Goto
      <4>3. req'[r].pc = "freeSlot" /\ req'[r].slot = req[r].slot /\ req'[r].op = "cancel"
        BY <4>1, <4>2 DEF Local
      <4> QED BY <1>2, <2>4, <4>3 DEF Mends
    <3>2. CASE Settle(r)
      <4>1. ~slot[s].used
        BY <1>1, <2>4, <3>2 DEF KnowsSlots, Settle, At
      <4>2. ~Held(s)'
        BY <2>3, <2>4 DEF Held
      <4> QED BY <1>4, <1>6, <1>13, <4>1, <4>2 DEF InStep, SameUse
    <3> QED BY <1>13, <3>1, <3>2
  <2>5. CASE s # req[r].slot
    <3>1. Held(s)' <=> Held(s)
      BY <1>6, <1>13, <2>1, <2>2, <2>5, OthersHeld, s \notin {req[r].slot}
    <3>2. ~Mends(r, s)
      BY <2>1, <2>5 DEF Mends
    <3> QED BY <1>2, <1>3, <1>4, <1>6, <1>13, <3>1, <3>2 DEF InStep, SameUse
  <2> QED BY <2>4, <2>5
<1>14. CASE FailPairs(r)
  <2> DEFINE S == {pair[p].slot : p \in req[r].hits}
  <2>1. req[r].pc = "failPairs" /\ \A q \in Pairs : q \notin req[r].hits => SameStatus(q)
    BY <1>14 DEF FailPairs, At, SameStatus
  <2>2. req'[r].pc = "freeSlots" /\ req'[r].hits = req[r].hits
    <3>1. Goto(r, "freeSlots") /\ req[r] \in Local /\ req \in [Reqs -> Local]
      BY <1>1, <1>14 DEF FailPairs, TypeOK
    <3>2. req'[r] = [req[r] EXCEPT !.pc = "freeSlots"]
      BY <3>1 DEF Goto
    <3> QED BY <3>1, <3>2 DEF Local
  <2>3. s \notin S
    <3>1. \A p \in req[r].hits : pair'[p].slot = pair[p].slot
      BY <1>1, <1>6, <1>14 DEF SameRow, TypeOK, Local
    <3> QED BY <1>2, <2>2, <3>1 DEF Mends
  <2>4. \A q \in Pairs : pair[q].slot \in S \/ SameStatus(q)
    BY <2>1
  <2> HIDE DEF S
  <2>5. Held(s)' <=> Held(s)
    BY <1>6, <1>14, <2>3, <2>4, OthersHeld
  <2>6. ~Mends(r, s)
    BY <2>1 DEF Mends
  <2> QED BY <1>2, <1>3, <1>4, <1>6, <1>14, <2>5, <2>6 DEF InStep, SameUse
<1>15. CASE FailOnSlots(r)
  <2>1. req[r].pc = "failOnSlots"
        /\ \A q \in Pairs : pair[q].slot \in req[r].doomed \/ SameStatus(q)
    BY <1>15 DEF FailOnSlots, At, SameStatus, PairsOnSlots
  <2>2. SameUse(s) /\ ~Mends(r, s)
    BY <1>4, <1>6, <1>15, <2>1 DEF Mends
  <2>3. s \notin req[r].doomed
    BY <1>1, <1>2, <2>1, <2>2 DEF KnowsSlots, SameUse
  <2>4. Held(s)' <=> Held(s)
    BY <1>6, <1>15, <2>1, <2>3, OthersHeld
  <2> QED BY <1>2, <1>3, <2>2, <2>4 DEF InStep, SameUse
<1> QED BY <1>7, <1>8, <1>9, <1>10, <1>11, <1>12, <1>13, <1>14, <1>15

LEMMA KnowsSlotsStep ==
  ASSUME CalmInv, [Next]_vars, NEW r \in Reqs, Turn(r) PROVE KnowsSlots(r)'
<1>1. BreedingInv /\ TypeOK /\ KnowsSlots(r) /\ HoldsPair(r) /\ OpMatchesPc(r) /\ KnowsPair(r)
  BY DEF CalmInv, AloneInv, BreedingInv, RequestInv
<1>2. CASE Start(r)
  <2>1. pair' = pair
    BY <1>2, StartFrame DEF tables
  <2> QED BY <1>1, <1>2, <2>1, Started DEF KnowsSlots
<1>3. CASE req'[r] = Idle
  BY <1>3 DEF KnowsSlots, Idle
<1>4. CASE Continue(r) /\ ~Reply(r) /\ GoesOnWith(r) /\ req'[r] # Idle
  <2> DEFINE t == req'[r].slot
             b == req'[r].pair
  <2>1. ASSUME req'[r].pc \in {"upgradeSlot", "insertPair"}
        PROVE  t \in Slots /\ ~slot'[t].used /\ ~slot'[t].deleted
    <3>1. req[r].pc \in {"findSlot", "upgradeSlot"}
      BY <1>4, <2>1 DEF GoesOnWith, Flow
    <3>2. CASE FindSlot(r)
      <4>1. PICK s \in OpenSlots(req[r].user), pc \in {"upgradeSlot", "insertPair"} :
                   req' = [req EXCEPT ![r].slot = s, ![r].pc = pc]
        BY <1>4, <3>2 DEF FindSlot
      <4>2. req[r] \in Local /\ req'[r] = [req[r] EXCEPT !.slot = s, !.pc = pc]
        BY <1>1, <4>1 DEF TypeOK, Local
      <4>3. req'[r].slot = s
        BY <4>2 DEF Local
      <4> QED BY <3>2, <4>1, <4>3 DEF FindSlot, OpenSlots, tables
    <3>3. CASE UpgradeSlot(r)
      <4>1. req[r].slot \in Slots /\ ~slot[req[r].slot].used /\ ~slot[req[r].slot].deleted
        BY <1>1, <3>3 DEF KnowsSlots, UpgradeSlot, At
      <4>2. t = req[r].slot
        BY <1>4, <3>3 DEF GoesOnWith, UpgradeSlot, At
      <4>3. \A s \in Slots : SameUse(s)
        BY <1>1, <1>4, <3>3, UseFrame
           DEF UpgradeSlot, MarkUsed, FreeSlot, FreeSlots, DeleteSlots, At
      <4> QED BY <4>1, <4>2, <4>3 DEF SameUse
    <3> QED BY <1>4, <3>1, <3>2, <3>3, ActionAt
  <2>2. ASSUME req'[r].pc = "markUsed" PROVE pair'[b].status = "PAIRED" /\ pair'[b].slot = t
    <3>1. req[r].pc = "insertPair"
      BY <1>4, <2>2 DEF GoesOnWith, Flow
    <3>2. InsertPair(r)
      BY <1>4, <3>1, ActionAt
    <3>3. t = req[r].slot
      BY <1>4, <3>1 DEF GoesOnWith
    <3> QED BY <1>1, <3>2, <3>3, NewRow
  <2>3. ASSUME req'[r].op = "finalize",
               req'[r].pc \in {"evaluate", "record", "dice", "freeSlot", "settle"}
        PROVE  pair'[b].slot = t
    <3>1. req[r].op = "finalize" /\ req[r].pc \in {"writePoints", "evaluate", "record", "dice",
                                                   "freeSlot", "cancelPair"}
      BY <1>4, <2>3 DEF GoesOnWith, Flow
    <3>2. req[r].pc \in {"evaluate", "record", "dice", "freeSlot"}
      BY <1>1, <3>1 DEF OpMatchesPc
    <3>3. b = req[r].pair /\ t = req[r].slot /\ pair[b].slot = t /\ b \in Pairs
      BY <1>1, <1>4, <3>1, <3>2 DEF GoesOnWith, KnowsSlots, KnowsPair
    <3>4. \A p \in Pairs : SameRow(p)
      BY <1>1, <1>4, <3>2, PairFrame
         DEF InsertPair, Settle, CancelPair, FailPairs, FailOnSlots, At
    <3> QED BY <3>3, <3>4 DEF SameRow
  <2>4. ~(req'[r].op = "cancel" /\ req'[r].pc = "cancelPair")
    BY <1>4 DEF GoesOnWith, Flow
  <2>5. ASSUME req'[r].pc = "settle" PROVE ~slot'[t].used
    <3>1. req[r].pc = "freeSlot"
      BY <1>4, <2>5 DEF GoesOnWith, Flow
    <3>2. FreeSlot(r) /\ req[r].op = "finalize" /\ t = req[r].slot
      BY <1>4, <3>1, ActionAt DEF FreeSlot, GoesOnWith
    <3>3. IsPaired(req[r].pair) /\ pair[req[r].pair].slot = t /\ req[r].pair \in Pairs
      BY <1>1, <3>1, <3>2 DEF HoldsPair, KnowsSlots, KnowsPair
    <3>4. t \in Slots
      BY <3>3 DEF CalmInv, OnRealSlot
    <3>5. slot \in [Slots -> SlotRow] /\ slot[t] \in SlotRow
      BY <1>1, <3>4 DEF TypeOK
    <3>6. slot' = [slot EXCEPT ![req[r].slot].used = FALSE]
      BY <3>2 DEF FreeSlot
    <3> HIDE DEF t
    <3>7. slot'[t] = [slot[t] EXCEPT !.used = FALSE]
      BY <3>2, <3>4, <3>5, <3>6
    <3> QED BY <3>5, <3>7 DEF SlotRow
  <2>6. ASSUME req'[r].op = "cancel", req'[r].pc = "freeSlot"
        PROVE  \A q \in Pairs : pair'[q].status = "PAIRED" => pair'[q].slot # t
    <3>1. req[r].op = "cancel" /\ req[r].pc \in {"dice", "cancelPair"}
      BY <1>4, <2>6 DEF GoesOnWith, Flow
    <3>2. req[r].pc = "cancelPair"
      BY <1>1, <3>1 DEF OpMatchesPc, PastRecord
    <3>3. PICK p \in Pairs : p = req[r].pair /\ IsPaired(p) /\ pair[p].slot = req[r].slot
      BY <1>1, <3>1, <3>2 DEF KnowsPair, HoldsPair, KnowsSlots
    <3>4. CancelPair(r) /\ t = req[r].slot
      BY <1>4, <3>2, ActionAt DEF GoesOnWith
    <3>5. pair'[p].status # "PAIRED"
      <4>1. pair \in [Pairs -> PairRow] /\ pair[p] \in PairRow
        BY <1>1 DEF TypeOK
      <4>2. pair'[p] = [pair[p] EXCEPT !.status = "CANCELED"]
        BY <3>3, <3>4, <4>1 DEF CancelPair
      <4> QED BY <4>1, <4>2 DEF PairRow
    <3>6. \A q \in Pairs : IsPaired(q)' => IsPaired(q) /\ SameRow(q)
      BY <1>1, <3>2, NonePaired DEF InsertPair, At
    <3>7. \A q \in Pairs : IsPaired(q)' => pair'[q].slot # pair[p].slot
      BY <3>3, <3>5, <3>6, LeavesFree
    <3> QED BY <3>3, <3>4, <3>7 DEF IsPaired
  <2>7. ASSUME req'[r].pc = "freeSlots", NEW h \in req'[r].hits
        PROVE  \A q \in Pairs : pair'[q].status = "PAIRED" => pair'[q].slot # pair'[h].slot
    <3>1. req[r].pc = "failPairs"
      BY <1>4, <2>7 DEF GoesOnWith, Flow
    <3>2. FailPairs(r) /\ h \in req[r].hits
      BY <1>4, <2>7, <3>1, ActionAt DEF GoesOnWith
    <3>3. h \in Pairs /\ IsPaired(h)
      BY <1>1, <3>1, <3>2 DEF HoldsPair, TypeOK, Local
    <3>4. pair'[h].status # "PAIRED" /\ SameRow(h)
      <4>1. pair'[h] = [pair[h] EXCEPT !.status = "FAILED"] /\ pair[h] \in PairRow
        BY <1>1, <3>2, <3>3 DEF FailPairs, TypeOK
      <4> QED BY <4>1 DEF PairRow, SameRow
    <3>5. \A q \in Pairs : IsPaired(q)' => IsPaired(q) /\ SameRow(q)
      BY <1>1, <3>1, NonePaired DEF InsertPair, At
    <3>6. \A q \in Pairs : IsPaired(q)' => pair'[q].slot # pair[h].slot
      BY <3>3, <3>4, <3>5, LeavesFree
    <3> QED BY <3>4, <3>6 DEF IsPaired, SameRow
  <2>8. ASSUME req'[r].pc = "failOnSlots", NEW s \in req'[r].doomed PROVE slot'[s].deleted
    <3>1. req[r].pc = "deleteSlots"
      BY <1>4, <2>8 DEF GoesOnWith, Flow
    <3>2. DeleteSlots(r) /\ s \in req[r].doomed /\ s \in Slots
      BY <1>1, <1>4, <2>8, <3>1, ActionAt DEF GoesOnWith, TypeOK, Local
    <3>3. slot'[s] = [slot[s] EXCEPT !.deleted = TRUE] /\ slot[s] \in SlotRow
      BY <1>1, <3>2 DEF DeleteSlots, TypeOK
    <3> QED BY <3>3 DEF SlotRow
  <2> QED BY <2>1, <2>2, <2>3, <2>4, <2>5, <2>6, <2>7, <2>8 DEF KnowsSlots, Held, IsPaired, Pairs
<1> QED BY <1>1, <1>2, <1>3, <1>4, LocalsStep, ReplyFields DEF Turn

LEMMA OnRealSlotStep ==
  ASSUME CalmInv, [Next]_vars, NEW r \in Reqs, Turn(r), NEW p \in Pairs PROVE OnRealSlot(p)'
<1>1. BreedingInv /\ TypeOK /\ KnowsSlots(r) /\ OnRealSlot(p)
  BY DEF CalmInv, AloneInv, BreedingInv
<1>2. CASE InsertPair(r)
  <2>1. PICK n \in Pairs : /\ pair'[n].slot = req[r].slot
                           /\ \A q \in Pairs \ {n} : pair'[q] = pair[q]
    BY <1>1, <1>2, NewRow
  <2>2. req[r].slot \in Slots
    BY <1>1, <1>2 DEF KnowsSlots, InsertPair, At
  <2> QED BY <1>1, <2>1, <2>2 DEF OnRealSlot, IsPaired
<1>3. CASE ~InsertPair(r)
  BY <1>1, <1>3, NonePaired DEF OnRealSlot, SameRow
<1> QED BY <1>2, <1>3

\* A turn settles p for good, or completes it and goes on to its reward.
Leaves(p) == pair'[p].status \in {"NONE", "PAIRED"} => pair[p].status \in {"NONE", "PAIRED"}
Completes(r, p) == Settle(r) /\ req[r].pair = p /\ IsPaired(p) /\ Goto(r, "findClosed")

LEMMA TurnStatus ==
  ASSUME CalmInv, NEW r \in Reqs, Turn(r), NEW p \in Pairs
  PROVE  /\ Leaves(p)
         /\ pair'[p].status = "COMPLETED" => pair[p].status = "COMPLETED" \/ Completes(r, p)
<1> USE DEF Leaves, Completes
<1>1. TypeOK /\ (\A q \in Pairs : Unborn(q)) /\ HoldsPair(r) /\ OpMatchesPc(r)
  BY DEF CalmInv, AloneInv, BreedingInv, RequestInv
<1>2. pair \in [Pairs -> PairRow] /\ pair[p] \in PairRow
  BY <1>1 DEF TypeOK
<1>3. CASE InsertPair(r)
  <2>1. PICK n \in Pairs : /\ pair[n].status = "NONE" /\ pair'[n].status = "PAIRED"
                           /\ \A q \in Pairs \ {n} : pair'[q] = pair[q]
    BY <1>1, <1>3, NewRow
  <2> QED BY <2>1
<1>4. CASE Settle(r)
  <2>1. CASE req[r].pair = p
    <3>1. req[r].pc = "settle" /\ IsPaired(p)
      BY <1>1, <1>4, <2>1 DEF Settle, At, HoldsPair, OpMatchesPc, PastRecord
    <3>2. pair'[p] = [pair[p] EXCEPT !.status = IF req[r].won THEN "COMPLETED" ELSE "FAILED"]
      BY <1>2, <1>4, <2>1 DEF Settle
    <3>3. pair'[p].status = IF req[r].won THEN "COMPLETED" ELSE "FAILED"
      BY <1>2, <3>2 DEF PairRow
    <3> QED BY <1>4, <2>1, <3>1, <3>3 DEF Settle, IsPaired
  <2>2. CASE req[r].pair # p
    BY <1>2, <1>4, <2>2 DEF Settle
  <2> QED BY <2>1, <2>2
<1>5. CASE CancelPair(r)
  <2>1. CASE req[r].pair = p
    <3>1. IsPaired(p)
      BY <1>1, <1>5, <2>1 DEF CancelPair, At, HoldsPair, OpMatchesPc
    <3>2. pair'[p] = [pair[p] EXCEPT !.status = "CANCELED"]
      BY <1>2, <1>5, <2>1 DEF CancelPair
    <3> QED BY <1>2, <3>1, <3>2 DEF IsPaired, PairRow
  <2>2. CASE req[r].pair # p
    BY <1>2, <1>5, <2>2 DEF CancelPair
  <2> QED BY <2>1, <2>2
<1>6. CASE FailPairs(r) \/ FailOnSlots(r)
  <2>1. pair'[p] = pair[p] \/ pair'[p] = [pair[p] EXCEPT !.status = "FAILED"]
    BY <1>6 DEF FailPairs, FailOnSlots
  <2> QED BY <1>2, <2>1 DEF PairRow
<1>7. CASE ~(InsertPair(r) \/ Settle(r) \/ CancelPair(r) \/ FailPairs(r) \/ FailOnSlots(r))
  BY <1>1, <1>7, PairFrame DEF Turn, SameStatus
<1> QED BY <1>3, <1>4, <1>5, <1>6, <1>7

\* The bud a request issues or signs is that of the pair it rewards.
LEMMA RewardWrites ==
  ASSUME CalmInv, NEW r \in Reqs, Turn(r), NEW p \in Pairs, gen1'[p] # gen1[p]
  PROVE  /\ Rewards(r) /\ req[r].pair = p
         /\ \/ Mint(r) /\ gen1'[p].issued = gen1[p].issued + 1 /\ gen1'[p].signed = gen1[p].signed
            \/ Sign(r) /\ gen1'[p].issued = gen1[p].issued /\ gen1'[p].signed = gen1[p].signed + 1
<1>1. gen1 \in [Pairs -> Gen1Row] /\ gen1[p] \in Gen1Row
  BY DEF CalmInv, AloneInv, BreedingInv, TypeOK
<1>2. Mint(r) \/ Sign(r)
  BY RewardFrame DEF Turn
<1>3. req[r].pair = p /\ Rewards(r)
  BY <1>1, <1>2 DEF Mint, Sign, At, Rewards
<1>4. CASE Mint(r)
  <2>1. gen1'[p] = [gen1[p] EXCEPT !.issued = @ + 1]
    BY <1>1, <1>3, <1>4 DEF Mint
  <2> QED BY <1>1, <1>3, <1>4, <2>1 DEF Gen1Row
<1>5. CASE Sign(r)
  <2>1. gen1'[p] = [gen1[p] EXCEPT !.signed = @ + 1]
    BY <1>1, <1>3, <1>5 DEF Sign
  <2> QED BY <1>1, <1>3, <1>5, <2>1 DEF Gen1Row
<1> QED BY <1>2, <1>4, <1>5

LEMMA UnrewardedStep ==
  ASSUME CalmInv, NEW r \in Reqs, Turn(r), NEW p \in Pairs PROVE Unrewarded(p)'
<1>1. SUFFICES ASSUME pair'[p].status \in {"NONE", "PAIRED"}
               PROVE  gen1'[p].issued = 0 /\ gen1'[p].signed = 0
  BY DEF Unrewarded
<1>2. pair[p].status \in {"NONE", "PAIRED"}
  BY <1>1, TurnStatus DEF Leaves
<1>3. KnowsReward(r) /\ Unrewarded(p)
  BY DEF CalmInv
<1>4. gen1'[p] = gen1[p]
  BY <1>2, <1>3, RewardWrites DEF KnowsReward
<1> QED BY <1>2, <1>3, <1>4 DEF Unrewarded

\* A rewarding request goes on with the reward of the same pair until it has signed it.
LEMMA RewardFlow ==
  ASSUME CalmInv, NEW r \in Reqs, Turn(r), Rewards(r)
  PROVE  \/ Rewards(r)' /\ req'[r].pair = req[r].pair
            /\ (req[r].pc = "mint" <=> req'[r].pc = "sign") /\ req[r].pc # "sign"
         \/ req[r].pc = "sign" /\ req'[r].pc = "idle"
<1>1. TypeOK
  BY DEF CalmInv, AloneInv, BreedingInv
<1>2. Continue(r)
  BY <1>1, Started DEF Turn, Rewards
<1>3. CASE Reply(r)
  <2>1. ~FindClosed(r) /\ ~OpenSlot(r) /\ ~Mint(r)
    <3>1. req'[r] = Idle
      BY <1>1, <1>3, ReplyFields
    <3>2. ASSUME NEW pc, Goto(r, pc) PROVE req'[r].pc = pc
      BY <1>1, <3>2 DEF Goto, TypeOK, Local
    <3>3. ~Mint(r) /\ ~OpenSlot(r)
      BY <3>1, <3>2 DEF Mint, OpenSlot, Idle
    <3>4. ASSUME FindClosed(r) PROVE FALSE
      <4>1. Goto(r, "mint") \/ \E s : req' = [req EXCEPT ![r].slot = s, ![r].pc = "openSlot"]
        BY <3>4, Zenon DEF FindClosed
      <4>2. ASSUME NEW s, req' = [req EXCEPT ![r].slot = s, ![r].pc = "openSlot"]
            PROVE  req'[r].pc = "openSlot"
        <5>1. req'[r] = [req[r] EXCEPT !.slot = s, !.pc = "openSlot"] /\ req[r] \in Local
          BY <1>1, <4>2 DEF TypeOK, Local
        <5> QED BY <5>1 DEF Local
      <4>3. req'[r].pc \in {"mint", "openSlot"}
        BY <3>2, <4>1, <4>2
      <4> QED BY <3>1, <4>3 DEF Idle
    <3> QED BY <3>3, <3>4
  <2>2. req[r].pc # "openSlot"
    <3>1. req[r].pc = "openSlot" => OpenSlot(r)
      BY <1>2 DEF Continue, At, CheckItem, CountPairs, FindSlot, UpgradeSlot, InsertPair,
                  MarkUsed, MkLevel, MkBuds, Bump, CountItems, VerifyBuds, ReadPoints,
                  WritePoints, Evaluate, Record, Dice, FreeSlot, Settle, FindClosed, Mint, Sign,
                  CancelPair, FindPairs, FindPrevPairs, FailPairs, FreeSlots, DeleteSlots,
                  FailOnSlots
    <3> QED BY <2>1, <3>1
  <2>3. req'[r].pc = "idle"
    BY <1>1, <1>3, ReplyFields DEF Idle
  <2> QED BY <1>2, <2>1, <2>2, <2>3, ActionAt DEF Rewards
<1>4. CASE GoesOnWith(r)
  BY <1>4 DEF GoesOnWith, Flow, Rewards
<1> QED BY <1>1, <1>2, <1>3, <1>4, LocalsStep

LEMMA KnowsRewardStep ==
  ASSUME CalmInv, NEW r \in Reqs, Turn(r) PROVE KnowsReward(r)'
<1>1. TypeOK /\ KnowsReward(r) /\ RequestInv(r) /\ HoldsPair(r)
  BY DEF CalmInv, AloneInv, BreedingInv
<1>2. SUFFICES ASSUME Rewards(r)' PROVE KnowsReward(r)'
  BY DEF KnowsReward
<1>3. Continue(r) /\ GoesOnWith(r)
  <2>1. ~Start(r) /\ req'[r] # Idle
    BY <1>1, <1>2, Started DEF Rewards, Idle
  <2> QED BY <1>1, <2>1, LocalsStep DEF Turn
<1>4. req'[r].pair = req[r].pair
  BY <1>2, <1>3 DEF GoesOnWith, Flow, Rewards
<1>5. req[r].pair \in Pairs
  <2>1. req[r].pc \in {"settle", "findClosed", "openSlot", "mint"}
    BY <1>2, <1>3 DEF GoesOnWith, Flow, Rewards
  <2> QED BY <1>1, <2>1 DEF RequestInv, KnowsPair, OpMatchesPc, PastRecord
<1>6. CASE Rewards(r)
  <2>1. pair'[req[r].pair].status = "COMPLETED"
    <3>1. ~InsertPair(r) /\ ~Settle(r) /\ ~CancelPair(r) /\ ~FailPairs(r) /\ ~FailOnSlots(r)
      BY <1>6 DEF Rewards, InsertPair, Settle, CancelPair, FailPairs, FailOnSlots, At
    <3> QED BY <1>1, <1>5, <1>6, <3>1, PairFrame DEF Turn, SameStatus, KnowsReward
  <2>2. (req[r].pc = "mint" <=> req'[r].pc = "sign") /\ req[r].pc # "sign"
    BY <1>2, <1>6, RewardFlow DEF Rewards
  <2>3. CASE gen1'[req[r].pair] = gen1[req[r].pair]
    <3>1. req[r].pc # "mint"
      <4>1. ASSUME Mint(r) PROVE gen1'[req[r].pair] # gen1[req[r].pair]
        <5>1. gen1 \in [Pairs -> Gen1Row] /\ gen1[req[r].pair] \in Gen1Row
          BY <1>1, <1>5 DEF TypeOK
        <5>2. gen1'[req[r].pair] = [gen1[req[r].pair] EXCEPT !.issued = @ + 1]
          BY <1>5, <4>1, <5>1 DEF Mint
        <5>3. gen1'[req[r].pair].issued = gen1[req[r].pair].issued + 1
              /\ gen1[req[r].pair].issued \in Nat
          BY <5>1, <5>2 DEF Gen1Row
        <5> QED BY <5>3
      <4> QED BY <1>3, <2>3, <4>1, ActionAt
    <3> QED BY <1>1, <1>4, <1>6, <2>1, <2>2, <2>3, <3>1 DEF KnowsReward
  <2>4. CASE gen1'[req[r].pair] # gen1[req[r].pair]
    <3>1. Mint(r) /\ gen1'[req[r].pair].issued = gen1[req[r].pair].issued + 1
          /\ gen1'[req[r].pair].signed = gen1[req[r].pair].signed
      <4>1. ~Sign(r)
        BY <2>2 DEF Sign, At
      <4> QED BY <1>5, <2>4, <4>1, RewardWrites
    <3>2. req[r].pc = "mint"
      BY <3>1 DEF Mint, At
    <3> QED BY <1>1, <1>4, <1>6, <2>1, <2>2, <3>1, <3>2 DEF KnowsReward
  <2> QED BY <2>3, <2>4
<1>7. CASE ~Rewards(r)
  <2>1. req[r].pc = "settle" /\ req'[r].pc = "findClosed"
    BY <1>2, <1>3, <1>7 DEF GoesOnWith, Flow, Rewards
  <2>2. Settle(r) /\ ~Reply(r)
    BY <1>1, <1>3, <2>1, ActionAt, ReplyFields DEF Idle
  <2>3. PICK p \in Pairs : p = req[r].pair
    BY <1>5
  <2>4. IsPaired(p) /\ pair'[p].status = "COMPLETED"
    <3>1. pair \in [Pairs -> PairRow] /\ pair[p] \in PairRow
      BY <1>1 DEF TypeOK
    <3>2. pair'[p] = [pair[p] EXCEPT !.status = "COMPLETED"]
      BY <2>2, <2>3, <3>1 DEF Settle
    <3>3. IsPaired(p)
      BY <1>1, <2>1, <2>3 DEF HoldsPair, RequestInv, OpMatchesPc, PastRecord
    <3> QED BY <3>1, <3>2, <3>3 DEF PairRow
  <2>5. gen1'[p] = gen1[p] /\ gen1[p].issued = 0 /\ gen1[p].signed = 0
    BY <1>7, <2>4, RewardWrites DEF CalmInv, Unrewarded, IsPaired
  <2> QED BY <1>4, <2>1, <2>3, <2>4, <2>5 DEF KnowsReward
<1> QED BY <1>6, <1>7

LEMMA RightlyRewardedStep ==
  ASSUME CalmInv, NEW r \in Reqs, Turn(r), NEW p \in Pairs PROVE RightlyRewarded(p)'
<1>1. TypeOK /\ KnowsReward(r) /\ RightlyRewarded(p) /\ Unrewarded(p)
  BY DEF CalmInv, AloneInv, BreedingInv
<1>0. gen1[p] \in Gen1Row /\ req[r] \in Local /\ req \in [Reqs -> Local]
  BY <1>1 DEF TypeOK
<1>2. CASE Rewards(r) /\ req[r].pair = p
  <2>1. CASE Rewards(r)' /\ req'[r].pair = p
    BY <2>1 DEF RightlyRewarded
  <2>2. CASE req[r].pc = "sign"
    <3>1. Sign(r)
      BY <1>1, <2>2, Started, ActionAt DEF Turn
    <3>2. gen1'[p].issued = gen1[p].issued /\ gen1'[p].signed = gen1[p].signed + 1
      BY <1>0, <1>1, <1>2, <3>1 DEF Sign, TypeOK, Gen1Row
    <3>3. gen1[p].issued = 1 /\ gen1[p].signed = 0
      BY <1>1, <1>2, <2>2 DEF KnowsReward
    <3> QED BY <3>2, <3>3 DEF RightlyRewarded
  <2> QED BY <1>2, <2>1, <2>2, RewardFlow
<1>3. CASE ~(Rewards(r) /\ req[r].pair = p)
  <2>1. /\ gen1[p].issued <= 1 /\ gen1[p].signed = gen1[p].issued
        /\ pair[p].status = "COMPLETED" => gen1[p].issued = 1
    <3>1. \A q \in Reqs : ~(Rewards(q) /\ req[q].pair = p)
      BY <1>3 DEF Turn, Rewards
    <3> QED BY <1>1, <3>1 DEF RightlyRewarded
  <2>2. gen1'[p] = gen1[p]
    BY <1>3, RewardWrites
  <2>3. CASE pair'[p].status = "COMPLETED" => pair[p].status = "COMPLETED"
    BY <2>1, <2>2, <2>3 DEF RightlyRewarded
  <2>4. CASE Goto(r, "findClosed") /\ req[r].pair = p
    <3>1. req'[r] = [req[r] EXCEPT !.pc = "findClosed"]
      BY <1>0, <2>4 DEF Goto
    <3>2. req'[r].pc = "findClosed" /\ req'[r].pair = p
      BY <1>0, <2>4, <3>1 DEF Local
    <3> QED BY <3>2 DEF RightlyRewarded, Rewards
  <2> QED BY <2>3, <2>4, TurnStatus DEF Completes
<1> QED BY <1>2, <1>3

LEMMA CalmInit == Init => CalmInv
<1> SUFFICES ASSUME Init PROVE CalmInv
  OBVIOUS
<1>1. ASSUME NEW p \in Pairs
      PROVE  ~IsPaired(p) /\ pair[p].status = "NONE" /\ gen1[p].issued = 0 /\ gen1[p].signed = 0
  BY DEF Init, NoPair, IsPaired
<1>2. \A r \in Reqs : req[r].pc = "idle"
  BY DEF Init, Idle
<1>3. \A s \in Slots : ~slot[s].used
  BY DEF Init
<1>4. SlotBredOnce /\ \A p \in Pairs : OnRealSlot(p) /\ Unrewarded(p) /\ RightlyRewarded(p)
  BY <1>1 DEF SlotBredOnce, OnRealSlot, Unrewarded, RightlyRewarded
<1>5. \A s \in Slots : Tracked(s)
  BY <1>1, <1>3 DEF Tracked, InStep, Held
<1>6. \A r \in Reqs : KnowsSlots(r) /\ KnowsReward(r)
  BY <1>2 DEF KnowsSlots, KnowsReward, Rewards
<1> QED BY <1>4, <1>5, <1>6, AloneInit DEF CalmInv

LEMMA CalmStep ==
  ASSUME ~MayFail, CalmInv, Serial, Serial', [Next]_vars PROVE CalmInv'
<1>1. AloneInv /\ AloneInv' /\ BreedingInv
  BY AloneStep DEF CalmInv, AloneInv
<1>2. CASE Outside
  <2>1. UNCHANGED <<pair, slot, gen1, req>>
    BY <1>2 DEF Outside, Tick, TransferBud, TransferItem, tables, vars
  <2>2. SlotBredOnce' /\ \A p \in Pairs : OnRealSlot(p)' /\ Unrewarded(p)' /\ RightlyRewarded(p)'
    BY <2>1 DEF CalmInv, SlotBredOnce, OnRealSlot, Unrewarded, RightlyRewarded, IsPaired, Rewards
  <2>3. \A s \in Slots : Tracked(s)'
    <3>1. ASSUME NEW s \in Slots PROVE Tracked(s)'
      <4>1. /\ Held(s)' <=> Held(s)
            /\ \A r \in Reqs : Mends(r, s)' <=> Mends(r, s)
        BY <2>1 DEF Held, IsPaired, Mends
      <4>2. Tracked(s)
        BY DEF CalmInv
      <4> QED BY <2>1, <4>1, <4>2 DEF Tracked, InStep
    <3> QED BY <3>1
  <2>4. \A r \in Reqs : KnowsSlots(r)' /\ KnowsReward(r)'
    <3>1. ASSUME NEW r \in Reqs PROVE KnowsSlots(r)'
      BY <2>1 DEF CalmInv, KnowsSlots, Held, IsPaired
    <3>2. ASSUME NEW r \in Reqs PROVE KnowsReward(r)'
      BY <2>1 DEF CalmInv, KnowsReward, Rewards
    <3> QED BY <3>1, <3>2
  <2> QED BY <1>1, <2>2, <2>3, <2>4 DEF CalmInv, Pairs
<1>3. CASE \E r \in Reqs : Turn(r)
  <2>1. PICK r \in Reqs : Turn(r)
    BY <1>3
  <2>2. SlotBredOnce' /\ \A p \in Pairs : OnRealSlot(p)' /\ Unrewarded(p)' /\ RightlyRewarded(p)'
    BY <2>1, SlotBredOnceStep, OnRealSlotStep, UnrewardedStep, RightlyRewardedStep
  <2>3. \A s \in Slots : Tracked(s)'
    BY <2>1, TrackedStep
  <2>4. ASSUME NEW q \in Reqs PROVE KnowsSlots(q)' /\ KnowsReward(q)'
    <3>1. CASE q = r
      BY <2>1, <3>1, KnowsSlotsStep, KnowsRewardStep
    <3>2. CASE q # r
      BY <2>1, <3>2 DEF Turn, KnowsSlots, KnowsReward, Rewards
    <3> QED BY <3>1, <3>2
  <2> QED BY <1>1, <2>2, <2>3, <2>4 DEF CalmInv, Pairs
<1>4. Outside \/ \E r \in Reqs : Turn(r)
  BY <1>1, OneActs DEF Turn, Abort
<1> QED BY <1>2, <1>3, <1>4

LEMMA CalmInvariance == ASSUME ~MayFail PROVE Spec /\ []Serial => []CalmInv
<1>1. CalmInv /\ Serial /\ Serial' /\ [Next]_vars => CalmInv'
  BY CalmStep
<1> QED BY <1>1, CalmInit, PTL DEF Spec

-----------------------------------------------------------------------------
(* What it means: neither failures nor overlaps *)

\* Requests that neither overlap nor fail put no two PAIRED pairs on a slot (createPair,
\* findOpenBreedSlotById).
THEOREM SlotsBredOnce == ASSUME ~MayFail PROVE Spec /\ []Serial => []SlotBredOnce
<1>1. CalmInv => SlotBredOnce
  BY DEF CalmInv
<1> QED BY <1>1, CalmInvariance, PTL

\* They leave isUsed of every slot in step with the pairs on it, although each handler
\* writes the two tables in two awaits.
THEOREM SlotsInStep == ASSUME ~MayFail PROVE Spec /\ []Serial => []SlotUsedIffBred
<1>1. CalmInv => SlotUsedIffBred
  BY DEF CalmInv, SlotUsedIffBred, Tracked, InStep, Held, Mends, Quiet, At
<1> QED BY <1>1, CalmInvariance, PTL

\* They leave a COMPLETED pair with exactly one Gen1 bud, signed, and no pair with more.
THEOREM RewardedOnce == ASSUME ~MayFail PROVE Spec /\ []Serial => []RewardOnce
<1>1. CalmInv => RewardOnce
  BY DEF CalmInv, RewardOnce, RightlyRewarded, Rewards, Quiet, At
<1> QED BY <1>1, CalmInvariance, PTL
=============================================================================
