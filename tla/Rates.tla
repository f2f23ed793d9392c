-------------------------------- MODULE Rates --------------------------------
(***************************************************************************)
(* The numbers Breeding leaves abstract: the success rate a pair starts    *)
(* with, what each level adds to it, the dice, and the group of traits a   *)
(* Gen1 bud is drawn from (BreedService, BudService, HashTableService,     *)
(* utils/number).  One pair, or one burn of Gen0 buds, from start to dice. *)
(*                                                                         *)
(* Rates are integers in tenths of a percent, the precision of the tables; *)
(* the rounding of floating point sums is left out.  Math.random() is a    *)
(* choice.  Of a bud only thc and budSize matter.                          *)
(***************************************************************************)
EXTENDS Integers, FiniteSets, FiniteSetsExt, Functions

CONSTANTS
  BaseRate, SerumRate, PassRate,  \* <<least, limit>> of the base in percent; BaseRate: 10
  IndoorBonus, BurnRate,          \* breed.indoorSlotBonusRate, breed.burnSuccessRate
  TargetLevel,                    \* breed.targetLevel
  MaxThc, MaxBudSize,             \* 22 and 20 in generateRandomBud
  Gen0Buds,                       \* [thc, budSize] in the metadata of Gen0 buds
  BeginTable, BreedTable,         \* hashTableBegin, hashTable: functions on some buds
  Gen1Keys, Gen1Size              \* hashTableGen1: its keys and the length of each group

Certain == 1000

ASSUME RatesAssumption ==
  /\ BaseRate \in Nat /\ IndoorBonus \in Nat /\ BurnRate \in Nat
  /\ SerumRate \in Nat \X Nat /\ SerumRate[1] < SerumRate[2]
  /\ PassRate \in Nat \X Nat /\ PassRate[1] < PassRate[2]
ASSUME TablesAssumption ==
  /\ MaxThc \in Nat /\ MaxBudSize \in Nat /\ TargetLevel \in Nat \ {0}
  /\ Gen1Keys \subseteq Nat /\ Gen1Keys # {} /\ IsFiniteSet(Gen1Keys)
  /\ Gen1Size \in [Gen1Keys -> Nat \ {0}]
  /\ \A bud \in DOMAIN BeginTable : BeginTable[bud] \in Int
  /\ \A bud \in DOMAIN BreedTable : BreedTable[bud] \in Int

VARIABLES
  item,     \* gameItemId the pair was created with
  rate,     \* BreedPair.rate
  level,    \* BreedPair.currentLevel, 0 before the pair
  bonus,    \* the sum of BreedLevel.bonusRate over the levels of the pair
  phase,    \* "start", "breeding", "dice" or "done"
  result    \* what diceGen1Bud returned

vars == <<item, rate, level, bonus, phase, result>>

Lost == [success |-> FALSE, group |-> 0, index |-> 0]

Init ==
  /\ item = "NONE" /\ rate = 0 /\ level = 0 /\ bonus = 0
  /\ phase = "start" /\ result = Lost

-----------------------------------------------------------------------------
(* Random numbers and tables.  The faulty variant of a definition some      *)
(* mutant replaces precedes it; no variant is used by the specification.    *)

RandomNumberToMax(max, min) == min..max

\* Math.floor(Math.random() * (max - min)) + min; max = min gives min.
RandomNumber(max, min) == IF max > min THEN min..(max - 1) ELSE {min}

\* A bud the table has no entry for gets 0 (with a warning, or silently).
LookUp(table, bud) == IF bud \in DOMAIN table THEN table[bud] ELSE 0

\* The traits generateRandomBud gives a bud of a level.
RandomBuds == [thc : RandomNumber(MaxThc, 1), budSize : RandomNumber(MaxBudSize, 1)]

\* The base the item replaces: the serum and the doctor's pass.
Bases(i) ==
  CASE i = "SUPERWEED_SERUM" -> RandomNumber(SerumRate[2], SerumRate[1])
    [] i = "WEED_DR_PASS"    -> RandomNumber(PassRate[2], PassRate[1])
    [] OTHER                 -> {BaseRate}

ItemNames == {"NONE", "FARMER_PASS", "SUPERWEED_SERUM", "WEED_DR_PASS"}

-----------------------------------------------------------------------------

\* The metadata of both buds, or of none when its API fails.
Metadatas(m, f) == {<<m, f>>, <<>>}

MetadataBonus(metadatas) ==
  SumFunctionOnSet([n \in DOMAIN metadatas |-> LookUp(BeginTable, metadatas[n])],
                   DOMAIN metadatas)

\* getStartSuccessRate
Pair ==
  /\ phase = "start"
  /\ \E i \in ItemNames, indoor \in BOOLEAN :
       \E base \in Bases(i), m, f \in Gen0Buds : \E metadatas \in Metadatas(m, f) :
         /\ item' = i
         /\ rate' = 10 * base
                    + MetadataBonus(metadatas)
                    + (IF indoor THEN IndoorBonus ELSE 0)
  /\ level' = 1 /\ phase' = "breeding"
  /\ UNCHANGED <<bonus, result>>

\* evaluateBreedLevel, as levelUp or finalize calls it.
Evaluate ==
  /\ phase = "breeding"
  /\ \E m, f \in RandomBuds :
       bonus' = bonus + LookUp(BreedTable, m) + LookUp(BreedTable, f)
  /\ IF level = TargetLevel
       THEN phase' = "dice" /\ UNCHANGED level
       ELSE level' = level + 1 /\ UNCHANGED phase
  /\ UNCHANGED <<item, rate, result>>

\* burnGen0Buds rolls at a rate of its own.
Burn ==
  /\ phase = "start"
  /\ rate' = BurnRate /\ phase' = "dice"
  /\ UNCHANGED <<item, level, bonus, result>>

FinalRate == rate + bonus

Outcomes == RandomNumber(100, 0)

WinsBelowCertain(chance, random) == chance > 0 /\ chance < Certain /\ 10 * random <= chance

WinsAbove(chance, random) ==
  \/ chance = Certain
  \/ chance > 0 /\ chance < Certain /\ 10 * random >= chance

\* winRandomChance
Wins(chance, random) ==
  \/ chance = Certain
  \/ chance > 0 /\ chance < Certain /\ 10 * random <= chance

MatchingKeyStrict(r) ==
  IF \E k \in Gen1Keys : r < 10 * k
    THEN Min({k \in Gen1Keys : r < 10 * k})
    ELSE Max(Gen1Keys)

\* getMatchingGen1Rate: the first of the sorted keys the rate does not exceed.
MatchingKey(r) ==
  IF \E k \in Gen1Keys : r <= 10 * k
    THEN Min({k \in Gen1Keys : r <= 10 * k})
    ELSE Max(Gen1Keys)

\* diceGen1Bud with lookUpGen1Bud
Dice ==
  /\ phase = "dice"
  /\ \E random \in Outcomes :
       IF Wins(FinalRate, random)
         THEN LET k == MatchingKey(FinalRate)
              IN  \E i \in RandomNumber(Gen1Size[k] - 1, 0) :
                    result' = [success |-> TRUE, group |-> k, index |-> i]
         ELSE result' = Lost
  /\ phase' = "done"
  /\ UNCHANGED <<item, rate, level, bonus>>

Next == Pair \/ Evaluate \/ Burn \/ Dice

Spec == Init /\ [][Next]_vars

-----------------------------------------------------------------------------

\* The best luck without the doctor's pass: the entries of the tables are at most
\* begin and breed, and all that can be added to a base falls short of certain.
\* Said of the shipped numbers, which MCRates holds.
ShortOfCertain ==
  \E begin, breed \in 0..Certain :
    /\ \A bud \in DOMAIN BeginTable : BeginTable[bud] <= begin
    /\ \A bud \in DOMAIN BreedTable : BreedTable[bud] <= breed
    /\ \A base \in {BaseRate, SerumRate[2] - 1} :
         10 * base + 2 * begin + IndoorBonus + TargetLevel * (2 * breed) < Certain
    /\ BurnRate < Certain

\* Without the doctor's pass no luck makes a breeding certain: the serum's base
\* ends just below what the best buds, tables and slot need (getStartSuccessRate).
\* At certainty the dice always win; beyond it they always lose.
CertainOnlyWithPass == FinalRate >= Certain => item = "WEED_DR_PASS"

\* Up to certainty a rate that is better by a tenth, the least step of the tables, wins
\* with every outcome the lower one wins with (winRandomChance). Beyond it the better
\* rate loses: only the doctor's pass leads there, see CertainOnlyWithPass.
BetterNeverLoses ==
  phase = "dice" /\ FinalRate + 1 <= Certain =>
    \A random \in Outcomes : Wins(FinalRate, random) => Wins(FinalRate + 1, random)

\* The outcomes from 0 up to the rate win, the rate itself included: of a hundred, one
\* more than the whole percent of the rate. A whole percentage therefore wins once more
\* in a hundred than "target chance percentage" says (utils/number).
OddsOneMore ==
  phase = "dice" /\ FinalRate > 0 /\ FinalRate < Certain =>
    Cardinality({random \in Outcomes : Wins(FinalRate, random)}) = FinalRate \div 10 + 1

\* The traits come from the group the rate falls into: no group of better traits
\* admits the rate, and only rates beyond the last key get the last group.
RewardFits ==
  result.success =>
    /\ result.index < Gen1Size[result.group]
    /\ \A k \in Gen1Keys : k < result.group => 10 * k < FinalRate
    /\ FinalRate <= 10 * result.group \/ \A k \in Gen1Keys : k <= result.group

=============================================================================
