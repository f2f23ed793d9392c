---------------------------- MODULE RatesProofs ----------------------------
(***************************************************************************)
(* Proofs about Rates, for any tables, bases and groups of traits.         *)
(* RatesInv is inductive, and all four properties of the module follow:    *)
(* how many outcomes win and that better rates never lose from its types,  *)
(* that the reward fits from what Dice sets, and that only the doctor's    *)
(* pass makes a breeding certain from the most a rate and a bonus can be   *)
(* at every level (PairShort and LevelShort, under ShortOfCertain).        *)
(***************************************************************************)
EXTENDS Rates, SumTheorems

-----------------------------------------------------------------------------
(* Random numbers, tables and keys *)

LEMMA RandomNumberBounds ==
  ASSUME NEW max \in Int, NEW min \in Int, NEW n \in RandomNumber(max, min)
  PROVE  n \in Int /\ min <= n /\ (max > min => n < max) /\ (max <= min => n = min)
  BY DEF RandomNumber

LEMMA LookUpInt ==
  ASSUME NEW bud
  PROVE  LookUp(BeginTable, bud) \in Int /\ LookUp(BreedTable, bud) \in Int
  BY TablesAssumption DEF LookUp

LEMMA LookUpBounded ==
  ASSUME NEW table, NEW best \in Nat, \A bud \in DOMAIN table : table[bud] <= best, NEW bud
  PROVE  LookUp(table, bud) <= best
  BY DEF LookUp

\* The bonus of two metadata is the sum of their entries, of none it is 0.
LEMMA MetadataBonusOfTwo ==
  ASSUME NEW m, NEW f
  PROVE  MetadataBonus(<<m, f>>) = LookUp(BeginTable, m) + LookUp(BeginTable, f)
<1> DEFINE t == <<m, f>>
           fun == [n \in 1..2 |-> LookUp(BeginTable, t[n])]
<1>1. DOMAIN t = 1..2 /\ t[1] = m /\ t[2] = f /\ 1..2 = {1, 2}
  OBVIOUS
<1>2. fun[1] = LookUp(BeginTable, m) /\ fun[2] = LookUp(BeginTable, f)
  BY <1>1
<1>3. fun[1] \in Int /\ fun[2] \in Int
  BY <1>2, LookUpInt
<1>4. MetadataBonus(t) = SumFunctionOnSet(fun, {1, 2})
  BY <1>1 DEF MetadataBonus
<1> HIDE DEF fun, t
<1>5. IsFiniteSet({1, 2}) /\ IsFiniteSet({2})
  <2>1. IsFiniteSet({2})
    BY FS_Singleton
  <2>2. IsFiniteSet({2} \cup {1})
    BY <2>1, FS_AddElement
  <2>3. {2} \cup {1} = {1, 2}
    OBVIOUS
  <2> QED BY <2>1, <2>2, <2>3
<1>6. \A x \in {1, 2} : fun[x] \in Int
  BY <1>3
<1>7. SumFunctionOnSet(fun, {1, 2}) = fun[1] + SumFunctionOnSet(fun, {1, 2} \ {1})
  BY <1>5, <1>6, SumRemove
<1>8. SumFunctionOnSet(fun, {2}) = fun[2] + SumFunctionOnSet(fun, {2} \ {2})
  BY <1>5, <1>6, SumRemove
<1>9. {1, 2} \ {1} = {2} /\ {2} \ {2} = {}
  OBVIOUS
<1>10. SumFunctionOnSet(fun, {1, 2}) = fun[1] + SumFunctionOnSet(fun, {2})
  BY <1>7, <1>9
<1>11. SumFunctionOnSet(fun, {2}) = fun[2] + 0
  BY <1>8, <1>9, SumEmpty
<1>12. MetadataBonus(t) = fun[1] + fun[2]
  BY <1>3, <1>4, <1>10, <1>11
<1> QED BY <1>2, <1>12 DEF t

LEMMA MetadataBonusOfNone == MetadataBonus(<<>>) = 0
<1>1. DOMAIN <<>> = {}
  OBVIOUS
<1> QED BY <1>1, SumEmpty DEF MetadataBonus

\* The key a rate falls into is one of the keys, no smaller key admits the rate,
\* and it admits the rate itself unless it is the last key.
LEMMA MatchingKeyFits ==
  ASSUME NEW r \in Int
  PROVE  /\ MatchingKey(r) \in Gen1Keys
         /\ \A k \in Gen1Keys : k < MatchingKey(r) => 10 * k < r
         /\ r <= 10 * MatchingKey(r) \/ \A k \in Gen1Keys : k <= MatchingKey(r)
<1> DEFINE K == {k \in Gen1Keys : r <= 10 * k}
<1>1. Gen1Keys \subseteq Int /\ Gen1Keys # {} /\ IsFiniteSet(Gen1Keys) /\ IsFiniteSet(K)
  BY TablesAssumption, FS_Subset
<1>2. CASE K # {}
  <2>1. \E x \in K : \A y \in K : x =< y
    <3>1. K \subseteq Int
      BY <1>1
    <3> HIDE DEF K
    <3> QED BY <1>1, <1>2, <3>1, Extremes
  <2>2. Min(K) \in K /\ \A y \in K : Min(K) =< y
    <3> HIDE DEF K
    <3> QED BY <2>1, Zenon DEF Min
  <2>3. MatchingKey(r) = Min(K)
    BY <1>2 DEF MatchingKey
  <2>4. ASSUME NEW k \in Gen1Keys, k < Min(K) PROVE 10 * k < r
    <3>1. k \notin K
      <4>1. k \in Int /\ Min(K) \in Int
        BY <1>1, <2>2
      <4> HIDE DEF K
      <4> QED BY <4>1, <2>2, <2>4
    <3> QED BY <1>1, <3>1
  <2>5. Min(K) \in Gen1Keys /\ r <= 10 * Min(K)
    BY <2>2
  <2> HIDE DEF K
  <2> QED BY <2>3, <2>4, <2>5
<1>3. CASE K = {}
  <2>1. \E x \in Gen1Keys : \A y \in Gen1Keys : x >= y
    BY <1>1, Extremes
  <2>2. Max(Gen1Keys) \in Gen1Keys /\ \A y \in Gen1Keys : Max(Gen1Keys) >= y
    BY <2>1, Zenon DEF Max
  <2>3. MatchingKey(r) = Max(Gen1Keys)
    BY <1>3 DEF MatchingKey
  <2>4. \A k \in Gen1Keys : 10 * k < r
    BY <1>1, <1>3
  <2> QED BY <1>1, <2>2, <2>3, <2>4
<1> QED BY <1>2, <1>3

-----------------------------------------------------------------------------
(* The invariant *)

TypeOK ==
  /\ item \in ItemNames /\ rate \in Int /\ bonus \in Int /\ level \in 0..TargetLevel
  /\ phase \in {"start", "breeding", "dice", "done"}

Fresh == phase = "start" => item = "NONE" /\ rate = 0 /\ bonus = 0

\* Nothing is won before the dice.
NotYet == phase # "done" => ~result.success

RatesInv == TypeOK /\ Fresh /\ NotYet /\ RewardFits

LEMMA BasesNat ==
  ASSUME NEW i \in ItemNames, NEW base \in Bases(i)
  PROVE  /\ base \in Nat
         /\ i # "WEED_DR_PASS" => base <= BaseRate \/ base <= SerumRate[2] - 1
<1>1. /\ BaseRate \in Nat /\ SerumRate[1] \in Nat /\ SerumRate[2] \in Nat
      /\ PassRate[1] \in Nat /\ PassRate[2] \in Nat
      /\ SerumRate[1] < SerumRate[2] /\ PassRate[1] < PassRate[2]
  BY RatesAssumption
<1>2. CASE i = "SUPERWEED_SERUM"
  BY <1>1, <1>2, RandomNumberBounds DEF Bases
<1>3. CASE i = "WEED_DR_PASS"
  BY <1>1, <1>3, RandomNumberBounds DEF Bases
<1>4. CASE i # "SUPERWEED_SERUM" /\ i # "WEED_DR_PASS"
  BY <1>1, <1>4 DEF Bases
<1> QED BY <1>2, <1>3, <1>4

LEMMA MetadataBonusInt ==
  ASSUME NEW m, NEW f, NEW metadatas \in Metadatas(m, f)
  PROVE  MetadataBonus(metadatas) \in Int
  BY LookUpInt, MetadataBonusOfTwo, MetadataBonusOfNone DEF Metadatas

LEMMA InitInv == Init => RatesInv
  BY TablesAssumption DEF Init, RatesInv, TypeOK, Fresh, NotYet, RewardFits, Lost, ItemNames

LEMMA PairStep == ASSUME RatesInv, Pair PROVE RatesInv'
<1>1. PICK i \in ItemNames, indoor \in BOOLEAN :
        \E base \in Bases(i), m, f \in Gen0Buds : \E metadatas \in Metadatas(m, f) :
          item' = i /\ rate' = 10 * base + MetadataBonus(metadatas)
                               + (IF indoor THEN IndoorBonus ELSE 0)
  BY DEF Pair
<1>2. PICK base \in Bases(i), m, f \in Gen0Buds :
        \E metadatas \in Metadatas(m, f) :
          rate' = 10 * base + MetadataBonus(metadatas) + (IF indoor THEN IndoorBonus ELSE 0)
  BY <1>1
<1>3. PICK metadatas \in Metadatas(m, f) :
        rate' = 10 * base + MetadataBonus(metadatas) + (IF indoor THEN IndoorBonus ELSE 0)
  BY <1>2
<1>4. rate' \in Int
  BY <1>3, BasesNat, MetadataBonusInt, RatesAssumption
<1>5. TypeOK'
  BY <1>1, <1>4, TablesAssumption DEF RatesInv, TypeOK, Pair
<1> QED BY <1>5 DEF RatesInv, Fresh, NotYet, RewardFits, Pair

LEMMA EvaluateStep == ASSUME RatesInv, Evaluate PROVE RatesInv'
<1>1. PICK m, f \in RandomBuds :
        bonus' = bonus + LookUp(BreedTable, m) + LookUp(BreedTable, f)
  BY DEF Evaluate
<1>2. bonus' \in Int
  BY <1>1, LookUpInt DEF RatesInv, TypeOK
<1>3. TypeOK'
  BY <1>2, TablesAssumption DEF RatesInv, TypeOK, Evaluate
<1> QED BY <1>3 DEF RatesInv, Fresh, NotYet, RewardFits, Evaluate

LEMMA BurnStep == ASSUME RatesInv, Burn PROVE RatesInv'
<1>1. TypeOK'
  BY RatesAssumption DEF RatesInv, TypeOK, Burn
<1> QED BY <1>1 DEF RatesInv, Fresh, NotYet, RewardFits, Burn

LEMMA DiceStep == ASSUME RatesInv, Dice PROVE RatesInv'
<1> DEFINE k == MatchingKey(FinalRate)
<1>1. FinalRate \in Int /\ FinalRate' = FinalRate
  BY DEF RatesInv, TypeOK, FinalRate, Dice
<1>2. /\ k \in Gen1Keys
      /\ \A j \in Gen1Keys : j < k => 10 * j < FinalRate
      /\ FinalRate <= 10 * k \/ \A j \in Gen1Keys : j <= k
  BY <1>1, MatchingKeyFits
<1>3. TypeOK' /\ Fresh' /\ NotYet'
  BY DEF RatesInv, TypeOK, Fresh, NotYet, Dice
<1>4. \/ \E i \in RandomNumber(Gen1Size[k] - 1, 0) :
           result' = [success |-> TRUE, group |-> k, index |-> i]
      \/ result' = Lost
  BY DEF Dice
<1>5. ASSUME NEW i \in RandomNumber(Gen1Size[k] - 1, 0),
             result' = [success |-> TRUE, group |-> k, index |-> i]
      PROVE  RewardFits'
  <2>1. Gen1Size[k] \in Nat \ {0}
    BY <1>2, TablesAssumption
  <2>2. i < Gen1Size[k]
    <3> HIDE DEF k
    <3> QED BY <1>5, <2>1, RandomNumberBounds
  <2>3. result'.index = i /\ result'.group = k
    BY <1>5
  <2> HIDE DEF k
  <2> QED BY <1>1, <1>2, <2>2, <2>3 DEF RewardFits
<1>6. ASSUME result' = Lost PROVE RewardFits'
  <2>1. ~ result'.success
    BY <1>6 DEF Lost
  <2> QED BY <2>1 DEF RewardFits
<1> QED BY <1>3, <1>4, <1>5, <1>6 DEF RatesInv

\* What RatesInv says holds in every reachable state.
THEOREM RatesInvariance == Spec => []RatesInv
<1>1. ASSUME RatesInv, [Next]_vars PROVE RatesInv'
  <2>1. CASE Next
    BY <1>1, <2>1, PairStep, EvaluateStep, BurnStep, DiceStep DEF Next
  <2>2. CASE UNCHANGED vars
    BY <1>1, <2>2 DEF vars, RatesInv, TypeOK, Fresh, NotYet, RewardFits, FinalRate
  <2> QED BY <1>1, <2>1, <2>2
<1> QED BY <1>1, InitInv, PTL DEF Spec

-----------------------------------------------------------------------------
(* What holds of the dice *)

\* The traits of a won bud come from the group its rate falls into
\* (HashTableService.getMatchingGen1Rate and lookUpGen1Bud): whatever the tables
\* hold, no group of better traits admits the rate, and the index is one the group has.
THEOREM RewardComesFromItsGroup == Spec => []RewardFits
<1>1. RatesInv => RewardFits
  BY DEF RatesInv
<1> QED BY <1>1, RatesInvariance, PTL

\* winRandomChance: up to certainty, a rate that is a tenth better, the least step
\* of the tables, wins with every outcome the lower one wins with.
THEOREM BetterRatesWin == Spec => []BetterNeverLoses
<1>1. ASSUME RatesInv PROVE BetterNeverLoses
  <2>1. FinalRate \in Int
    BY <1>1 DEF RatesInv, TypeOK, FinalRate
  <2> SUFFICES ASSUME FinalRate + 1 <= Certain, NEW random \in Outcomes, Wins(FinalRate, random)
               PROVE  Wins(FinalRate + 1, random)
    BY DEF BetterNeverLoses
  <2>2. random \in Int
    BY RandomNumberBounds DEF Outcomes
  <2> HIDE DEF FinalRate
  <2> QED BY <2>1, <2>2 DEF Wins, Certain
<1> QED BY <1>1, RatesInvariance, PTL

\* winRandomChance: of the hundred outcomes one more wins than the whole percent of the
\* rate, because the outcome equal to the rate wins too; so a whole percentage is won
\* with once more in a hundred than the comment of winRandomChance says.
THEOREM OneOutcomeMore == Spec => []OddsOneMore
<1>1. ASSUME RatesInv PROVE OddsOneMore
  <2>1. FinalRate \in Int
    BY <1>1 DEF RatesInv, TypeOK, FinalRate
  <2> HIDE DEF FinalRate
  <2> SUFFICES ASSUME FinalRate > 0, FinalRate < Certain
               PROVE  Cardinality({random \in Outcomes : Wins(FinalRate, random)})
                        = FinalRate \div 10 + 1
    BY DEF OddsOneMore
  <2> DEFINE top == FinalRate \div 10
  <2>2. top \in Int /\ 0 <= top /\ top <= 99 /\ 10 * top <= FinalRate /\ FinalRate < 10 * top + 10
    BY <2>1 DEF Certain
  <2>3. Outcomes = 0..99
    BY DEF Outcomes, RandomNumber
  <2>4. \A random \in 0..99 : Wins(FinalRate, random) <=> random <= top
    <3> HIDE DEF top
    <3> QED BY <2>1, <2>2 DEF Wins, Certain
  <2> HIDE DEF top
  <2>5. {random \in Outcomes : Wins(FinalRate, random)} = 0..top
    BY <2>2, <2>3, <2>4
  <2>6. Cardinality(0..top) = top + 1
    BY <2>2, FS_Interval
  <2> QED BY <2>5, <2>6 DEF top
<1> QED BY <1>1, RatesInvariance, PTL

-----------------------------------------------------------------------------
(* What luck can do *)

\* begin and breed bound the entries of the tables, and the best of everything
\* falls short of certain.
Short(begin, breed) ==
  /\ begin \in Nat /\ breed \in Nat
  /\ \A bud \in DOMAIN BeginTable : BeginTable[bud] <= begin
  /\ \A bud \in DOMAIN BreedTable : BreedTable[bud] <= breed
  /\ \A base \in {BaseRate, SerumRate[2] - 1} :
       10 * base + 2 * begin + IndoorBonus + TargetLevel * (2 * breed) < Certain
  /\ BurnRate < Certain

\* The start rate leaves room for the best of all levels.
PairShort(breed) ==
  item # "WEED_DR_PASS" /\ level > 0 => rate + TargetLevel * (2 * breed) < Certain

\* A level adds at most twice the best entry.
LevelShort(breed) ==
  /\ phase = "start" => level = 0
  /\ phase = "breeding" => level > 0 /\ bonus <= (level - 1) * (2 * breed)
  /\ phase \in {"dice", "done"} /\ level > 0 => bonus <= TargetLevel * (2 * breed)
  /\ level = 0 => bonus = 0 /\ rate < Certain

ShortInv(breed) == PairShort(breed) /\ LevelShort(breed)

LEMMA ShortHere == ASSUME ShortOfCertain PROVE \E begin, breed \in Nat : Short(begin, breed)
<1>1. PICK begin \in 0..Certain, breed \in 0..Certain :
        /\ \A bud \in DOMAIN BeginTable : BeginTable[bud] <= begin
        /\ \A bud \in DOMAIN BreedTable : BreedTable[bud] <= breed
        /\ \A base \in {BaseRate, SerumRate[2] - 1} :
             10 * base + 2 * begin + IndoorBonus + TargetLevel * (2 * breed) < Certain
        /\ BurnRate < Certain
  BY Zenon DEF ShortOfCertain
<1>2. begin \in Nat /\ breed \in Nat
  BY DEF Certain
<1>3. Short(begin, breed)
  BY <1>1, <1>2, Zenon DEF Short
<1> QED BY <1>2, <1>3

\* Products with the level, for provers that only do linear arithmetic.
LEMMA Times ==
  ASSUME NEW n \in Nat, NEW b \in Nat
  PROVE  /\ n * b \in Nat /\ (n + 1) * b = n * b + b /\ 0 * b = 0
         /\ n > 0 => (n - 1) * b + b = n * b
  OBVIOUS

LEMMA TimesMonotone ==
  ASSUME NEW l \in Nat, NEW n \in Nat, l <= n, l > 0, NEW b \in Nat
  PROVE  (l - 1) * b <= n * b
<1>1. n - (l - 1) \in Nat /\ l - 1 \in Nat
  OBVIOUS
<1>2. (n - (l - 1)) * b \in Nat
  BY <1>1
<1>3. n * b = (l - 1) * b + (n - (l - 1)) * b
  BY <1>1
<1>4. (l - 1) * b \in Nat
  BY <1>1
<1> QED BY <1>2, <1>3, <1>4

LEMMA ShortInit == ASSUME Init, NEW breed \in Nat PROVE ShortInv(breed)
  BY DEF Init, ShortInv, PairShort, LevelShort, Certain

LEMMA ShortPair ==
  ASSUME RatesInv, Pair, NEW begin, NEW breed, Short(begin, breed), ShortInv(breed)
  PROVE  ShortInv(breed)'
<1>1. PICK i \in ItemNames, indoor \in BOOLEAN :
        \E base \in Bases(i), m, f \in Gen0Buds : \E metadatas \in Metadatas(m, f) :
          item' = i /\ rate' = 10 * base + MetadataBonus(metadatas)
                               + (IF indoor THEN IndoorBonus ELSE 0)
  BY DEF Pair
<1>2. PICK base \in Bases(i), m, f \in Gen0Buds :
        \E metadatas \in Metadatas(m, f) :
          rate' = 10 * base + MetadataBonus(metadatas) + (IF indoor THEN IndoorBonus ELSE 0)
  BY <1>1
<1>3. PICK metadatas \in Metadatas(m, f) :
        rate' = 10 * base + MetadataBonus(metadatas) + (IF indoor THEN IndoorBonus ELSE 0)
  BY <1>2
<1> DEFINE got == MetadataBonus(metadatas)
<1>4. begin \in Nat /\ breed \in Nat /\ IndoorBonus \in Nat /\ got \in Int /\ base \in Nat
  BY RatesAssumption, BasesNat, MetadataBonusInt DEF Short
<1>5. got <= 2 * begin
  <2>1. LookUp(BeginTable, m) <= begin /\ LookUp(BeginTable, f) <= begin
    BY LookUpBounded DEF Short
  <2>2. LookUp(BeginTable, m) \in Int /\ LookUp(BeginTable, f) \in Int
    BY LookUpInt
  <2>3. CASE metadatas = <<m, f>>
    BY <1>4, <2>1, <2>2, <2>3, MetadataBonusOfTwo
  <2>4. CASE metadatas = <<>>
    BY <1>4, <2>4, MetadataBonusOfNone
  <2> QED BY <2>3, <2>4 DEF Metadatas
<1> DEFINE all == TargetLevel * (2 * breed)
<1>6. all \in Nat
  BY <1>4, TablesAssumption, Times
<1> HIDE DEF all, got
<1>7. ASSUME i # "WEED_DR_PASS" PROVE rate' + all < Certain
  <2>1. PICK top \in {BaseRate, SerumRate[2] - 1} : base <= top
    BY <1>7, BasesNat
  <2>2. top \in Int
    BY RatesAssumption
  <2>3. 10 * top + 2 * begin + IndoorBonus + all < Certain
    BY DEF Short, all
  <2> QED BY <1>3, <1>4, <1>5, <1>6, <2>1, <2>2, <2>3 DEF Certain, got
<1>8. PairShort(breed)'
  BY <1>1, <1>7 DEF PairShort, all
<1>9. LevelShort(breed)'
  <2>1. bonus = 0
    BY DEF ShortInv, LevelShort, Pair
  <2>2. 0 * (2 * breed) = 0
    BY <1>4
  <2> QED BY <2>1, <2>2 DEF LevelShort, Pair
<1> QED BY <1>8, <1>9 DEF ShortInv

LEMMA ShortEvaluate ==
  ASSUME RatesInv, Evaluate, NEW begin, NEW breed, Short(begin, breed), ShortInv(breed)
  PROVE  ShortInv(breed)'
<1>1. PICK m, f \in RandomBuds :
        bonus' = bonus + LookUp(BreedTable, m) + LookUp(BreedTable, f)
  BY DEF Evaluate
<1>2. /\ bonus \in Int /\ level \in Nat /\ level > 0 /\ level <= TargetLevel
      /\ TargetLevel \in Nat /\ breed \in Nat
      /\ bonus <= (level - 1) * (2 * breed)
  BY TablesAssumption DEF RatesInv, TypeOK, ShortInv, LevelShort, Evaluate, Short
<1>3. bonus' \in Int /\ bonus' <= bonus + 2 * breed
  <2>1. LookUp(BreedTable, m) <= breed /\ LookUp(BreedTable, f) <= breed
    BY LookUpBounded DEF Short
  <2>2. LookUp(BreedTable, m) \in Int /\ LookUp(BreedTable, f) \in Int
    BY LookUpInt
  <2> QED BY <1>1, <1>2, <2>1, <2>2
<1>4. bonus' <= level * (2 * breed)
  <2> DEFINE twice == 2 * breed
             before == (level - 1) * twice
             now == level * twice
  <2>1. twice \in Nat /\ before + twice = now /\ now \in Nat /\ before \in Int
    BY <1>2, Times
  <2>2. bonus <= before /\ bonus' <= bonus + twice
    BY <1>2, <1>3
  <2>3. bonus' <= now
    <3> HIDE DEF twice, before, now
    <3> QED BY <1>2, <1>3, <2>1, <2>2
  <2> QED BY <2>3
<1>5. PairShort(breed)'
  BY <1>2 DEF ShortInv, PairShort, Evaluate
<1>6. LevelShort(breed)'
  <2>1. CASE level = TargetLevel
    BY <1>2, <1>4, <2>1 DEF LevelShort, Evaluate
  <2>2. CASE level # TargetLevel
    <3>1. level' = level + 1 /\ phase' = "breeding"
      BY <2>2 DEF Evaluate
    <3>2. level' - 1 = level
      BY <1>2, <3>1
    <3>3. bonus' <= (level' - 1) * (2 * breed)
      BY <1>4, <3>2
    <3> QED BY <1>2, <3>1, <3>3 DEF LevelShort
  <2> QED BY <2>1, <2>2
<1> QED BY <1>5, <1>6 DEF ShortInv

LEMMA ShortBurn ==
  ASSUME RatesInv, Burn, NEW begin, NEW breed, Short(begin, breed), ShortInv(breed)
  PROVE  ShortInv(breed)'
<1>1. level = 0 /\ bonus = 0 /\ BurnRate < Certain
  BY DEF ShortInv, LevelShort, Burn, Short
<1> QED BY <1>1 DEF ShortInv, PairShort, LevelShort, Burn

LEMMA ShortDice ==
  ASSUME RatesInv, Dice, NEW breed, ShortInv(breed) PROVE ShortInv(breed)'
  BY DEF ShortInv, PairShort, LevelShort, Dice

LEMMA ShortIsEnough ==
  ASSUME RatesInv, NEW begin, NEW breed, Short(begin, breed), ShortInv(breed)
  PROVE  CertainOnlyWithPass
<1> DEFINE twice == 2 * breed
           all == TargetLevel * twice
<1>1. /\ rate \in Int /\ bonus \in Int /\ level \in Nat /\ level <= TargetLevel
      /\ TargetLevel \in Nat /\ twice \in Nat
  BY TablesAssumption DEF RatesInv, TypeOK, Short
<1>2. all \in Nat
  BY <1>1, Times
<1>3. CASE level = 0
  BY <1>1, <1>3 DEF ShortInv, LevelShort, CertainOnlyWithPass, FinalRate, Certain
<1>4. CASE level > 0
  <2>1. bonus <= all
    <3>1. CASE phase = "breeding"
      <4> DEFINE most == (level - 1) * twice
      <4>1. bonus <= most
        BY <3>1 DEF ShortInv, LevelShort
      <4>2. most <= all
        BY <1>1, <1>4, TimesMonotone
      <4>3. most \in Int
        BY <1>1
      <4> HIDE DEF most, all
      <4> QED BY <1>1, <1>2, <4>1, <4>2, <4>3
    <3>2. CASE phase # "breeding"
      BY <1>1, <1>4, <3>2 DEF RatesInv, TypeOK, ShortInv, LevelShort
    <3> QED BY <3>1, <3>2
  <2>2. item # "WEED_DR_PASS" => rate + all < Certain
    BY <1>4 DEF ShortInv, PairShort
  <2> HIDE DEF all
  <2> QED BY <1>1, <1>2, <2>1, <2>2 DEF CertainOnlyWithPass, FinalRate, Certain
<1> QED BY <1>1, <1>3, <1>4

\* getStartSuccessRate, evaluateBreedLevel and finalizeBreeding: while the numbers the
\* service is configured with fall short of certain for every base but the pass's
\* (ShortOfCertain, as the shipped ones do), no pair without the doctor's pass
\* reaches a rate winRandomChance treats as certain or beyond.
THEOREM CertainNeedsPass == ASSUME ShortOfCertain PROVE Spec => []CertainOnlyWithPass
<1>1. PICK begin, breed \in Nat : Short(begin, breed)
  BY ShortHere
<1>2. Init => ShortInv(breed)
  BY ShortInit
<1>3. ASSUME RatesInv, ShortInv(breed), [Next]_vars PROVE ShortInv(breed)'
  <2>1. CASE Next
    BY <1>1, <1>3, <2>1, ShortPair, ShortEvaluate, ShortBurn, ShortDice DEF Next
  <2>2. CASE UNCHANGED vars
    BY <1>3, <2>2 DEF vars, ShortInv, PairShort, LevelShort
  <2> QED BY <1>3, <2>1, <2>2
<1>4. RatesInv /\ ShortInv(breed) => CertainOnlyWithPass
  BY <1>1, ShortIsEnough
<1> QED BY <1>2, <1>3, <1>4, RatesInvariance, PTL DEF Spec

=============================================================================
