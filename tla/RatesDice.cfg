\* One pair or one burn at the shipped rates.
SPECIFICATION Spec
CONSTANTS
  BaseRate = 10  SerumRate <- Serum  PassRate <- DrPass
  IndoorBonus = 50  BurnRate = 600
  TargetLevel = 5
  MaxThc = 4  MaxBudSize = 3
  Gen0Buds <- Gen0
  BeginTable <- Begin  BreedTable <- Breed
  Gen1Keys <- Keys  Gen1Size <- Sizes
\* A breeding or burn ends with its dice.
CHECK_DEADLOCK FALSE
INVARIANTS
  CertainOnlyWithPass
  BetterNeverLoses
  OddsOneMore
  RewardFits
