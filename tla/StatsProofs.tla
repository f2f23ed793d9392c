----------------------------- MODULE StatsProofs -----------------------------
(***************************************************************************)
(* Proofs about Stats and about Leaderboard, which extends it, for any     *)
(* number of users, pairs and rows to a page.                              *)
(*                                                                         *)
(* - While snapshots do not overlap (OneJob), what a statement finds in    *)
(*   the table is what the statements of the same job have left in it:     *)
(*   BpInv and SnapshotInv.                                                *)
(* - The pages of the leaderboard need no such assumption.  The ids tell   *)
(*   the rows apart whatever the snapshots do, and a reading none of them  *)
(*   disturbed lacks nothing above the last row it was shown: BoardInv.    *)
(***************************************************************************)
EXTENDS Leaderboard, SequenceTheorems, SumTheorems

\* Snapshots do not overlap.
OneJob == \A i, j \in Jobs : i = j

Columns == {"success", "failure", "cancels", "hours", "bp", "land", "burned"}

StatsRow == [exists : BOOLEAN, success : Nat, failure : Nat, cancels : Nat,
             hours : Nat, bp : Nat, land : Nat, burned : Nat]

Typed ==
  /\ pair \in [Pairs -> [user : Users \union {None},
                         status : {"NONE", "PAIRED", "COMPLETED", "FAILED", "CANCELED"},
                         level : Nat]]
  /\ indoor \in [Users -> Nat] /\ burns \in [Users -> Nat]
  /\ stats \in [Users -> StatsRow]
  /\ job \in [Jobs -> 0..8]
  /\ steady \subseteq Jobs

\* A row that was not inserted has no user.
Unborn(p) == pair[p].status = "NONE" => pair[p].user = None

\* Between TRUNCATE and the adding statement the column is empty.
Emptied(j) == job[j] \in 2..6 => \A u \in Users : stats[u].bp = 0

BpInv ==
  /\ Typed
  /\ \A p \in Pairs : Unborn(p)
  /\ \A j \in Jobs : Emptied(j)
  /\ BpNeverDoubled

\* What a job whose next statement is the k-th has filled so far: each column has its
\* value or, before its statement, nothing, and there is a row where a statement put one.
Filled(u, k) ==
  /\ stats[u].success = IF k > 2 THEN Success(u) ELSE 0
  /\ stats[u].failure = IF k > 3 THEN Failure(u) ELSE 0
  /\ stats[u].cancels = IF k > 4 THEN Cancels(u) ELSE 0
  /\ stats[u].hours   = IF k > 5 THEN Hours(u) ELSE 0
  /\ stats[u].bp      = IF k > 6 THEN BpSpent(u) ELSE 0
  /\ stats[u].land    = IF k > 7 THEN indoor[u] * IndoorPrice ELSE 0
  /\ stats[u].burned  = 0
  /\ stats[u].exists => PairsOf(u) # {} \/ (k > 7 /\ indoor[u] > 0)
  /\ k > 5 /\ PairsOf(u) # {} => stats[u].exists
  /\ k > 7 /\ indoor[u] > 0 => stats[u].exists

Steady(j) ==
  j \in steady =>
    \A u \in Users :
      /\ job[j] > 1 => Filled(u, job[j])
      /\ job[j] = 0 => Exact(u)

SnapshotInv == BpInv /\ \A j \in Jobs : Steady(j)

-----------------------------------------------------------------------------
(* What the statements select *)

LEMMA Products == ASSUME NEW a \in Nat, NEW b \in Nat PROVE a * b \in Nat /\ (a * b > 0 => a > 0)
  OBVIOUS

LEMMA PositiveProduct == ASSUME NEW a \in Nat, NEW b \in Nat \ {0}, a > 0 PROVE a * b > 0
  OBVIOUS

LEMMA OwnPairs == ASSUME NEW u PROVE PairsOf(u) \subseteq Pairs /\ IsFiniteSet(PairsOf(u))
<1>1. PairsOf(u) \subseteq Pairs
  BY DEF PairsOf
<1> QED BY <1>1, FiniteAssumption, FS_Subset

LEMMA Counts == ASSUME NEW u PROVE Success(u) \in Nat /\ Failure(u) \in Nat /\ Cancels(u) \in Nat
<1>1. \A S : S \subseteq Pairs => Cardinality(S) \in Nat
  BY FiniteAssumption, FS_Subset, FS_CardinalityType
<1>2. \A status : WithStatus(u, status) \subseteq Pairs
  BY DEF WithStatus, PairsOf
<1> QED BY <1>1, <1>2 DEF Success, Failure, Cancels

\* Without a pair the counts and sums of pairs are 0.
LEMMA NoPairs ==
  ASSUME NEW u, PairsOf(u) = {}
  PROVE  /\ Success(u) = 0 /\ Failure(u) = 0 /\ Cancels(u) = 0
         /\ Hours(u) = 0 /\ BpSpent(u) = 0
<1>1. WithStatus(u, "COMPLETED") = {} /\ WithStatus(u, "CANCELED") = {}
      /\ {p \in WithStatus(u, "FAILED") : pair[p].level = TargetLevel} = {}
  BY DEF WithStatus
<1>2. Success(u) = 0 /\ Failure(u) = 0 /\ Cancels(u) = 0
  BY <1>1, FS_EmptySet DEF Success, Failure, Cancels
<1>3. Tenths(u) = 0 /\ BpSpent(u) = 0
  BY SumEmpty DEF Tenths, BpSpent
<1> QED BY <1>2, <1>3 DEF Hours

LEMMA Sums == ASSUME Typed, NEW u PROVE BpSpent(u) \in Nat /\ Hours(u) \in Nat
<1> DEFINE f == [p \in PairsOf(u) |-> pair[p].level * LevelPrice]
           g == [p \in PairsOf(u) |-> pair[p].level * TenthsPerLevel[p]]
<1>1. ASSUME NEW p \in PairsOf(u) PROVE f[p] \in Nat /\ g[p] \in Nat
  <2>1. pair[p].level \in Nat /\ LevelPrice \in Nat /\ TenthsPerLevel[p] \in Nat
    BY OwnPairs, RatesAssumption DEF Typed
  <2> QED BY <2>1, Products
<1> HIDE DEF f, g
<1>2. SumFunctionOnSet(f, PairsOf(u)) \in Nat /\ SumFunctionOnSet(g, PairsOf(u)) \in Nat
  BY <1>1, OwnPairs, SumNat
<1>3. Tenths(u) \in Nat /\ BpSpent(u) \in Nat
  BY <1>2 DEF f, g, Tenths, BpSpent
<1> QED BY <1>3 DEF Hours

LEMMA SumsNext == Typed' => (\A u \in Users : BpSpent(u) \in Nat)'
<1>1. Typed => \A u \in Users : BpSpent(u) \in Nat
  BY Sums
<1> QED BY <1>1, PTL

LEMMA ValueNat ==
  ASSUME Typed, NEW u \in Users, NEW column \in Columns
  PROVE  Value(column, u) \in Nat
<1>1. /\ Success(u) \in Nat /\ Failure(u) \in Nat /\ Cancels(u) \in Nat
      /\ Hours(u) \in Nat /\ BpSpent(u) \in Nat
  BY Counts, Sums
<1>2. stats[u].bp \in Nat /\ indoor[u] \in Nat /\ burns[u] \in Nat
  BY DEF Typed, StatsRow
<1>3. indoor[u] * IndoorPrice \in Nat
  BY <1>2, RatesAssumption, Products
<1> QED BY <1>1, <1>2, <1>3 DEF Value, BpTotal, Columns

\* An address a statement does not select has nothing to be filled in.
LEMMA Unselected ==
  ASSUME Typed, NEW u \in Users, NEW column \in Columns, u \notin Sources(column)
  PROVE  IF column = "bp" THEN BpSpent(u) = 0 ELSE Value(column, u) = 0
<1>1. CASE column \in {"hours", "bp"}
  <2>1. PairsOf(u) = {}
    BY <1>1 DEF Sources
  <2> QED BY <1>1, <2>1, NoPairs DEF Value
<1>2. CASE column \notin {"hours", "bp"}
  BY <1>2, ValueNat DEF Sources
<1> QED BY <1>1, <1>2

\* A selected address has a pair, or what the last two statements count.
LEMMA Selected ==
  ASSUME Typed, NEW u \in Users, NEW column \in Columns
  PROVE  /\ column \in {"success", "failure", "cancels", "hours", "bp"}
              => (u \in Sources(column) => PairsOf(u) # {})
         /\ column \in {"hours", "bp"} => (PairsOf(u) # {} => u \in Sources(column))
         /\ column = "land" => (u \in Sources(column) <=> indoor[u] > 0)
         /\ column = "burned" => (u \in Sources(column) <=> burns[u] > 0)
<1>1. column \in {"hours", "bp"} => (u \in Sources(column) <=> PairsOf(u) # {})
  BY DEF Sources
<1>2. ASSUME column \in {"success", "failure", "cancels"}, u \in Sources(column)
      PROVE  PairsOf(u) # {}
  BY <1>2, NoPairs DEF Sources, Value
<1>3. indoor[u] \in Nat /\ burns[u] \in Nat
  BY DEF Typed
<1>4. column = "land" => (u \in Sources(column) <=> indoor[u] > 0)
  <2>1. indoor[u] * IndoorPrice > 0 <=> indoor[u] > 0
    BY <1>3, RatesAssumption, Products, PositiveProduct
  <2> QED BY <2>1 DEF Sources, Value
<1>5. column = "burned" => (u \in Sources(column) <=> burns[u] > 0)
  BY <1>3 DEF Sources, Value
<1> QED BY <1>1, <1>2, <1>4, <1>5

\* A statement writes its column of the addresses it selects.
LEMMA FillFields ==
  ASSUME Typed, NEW column \in Columns, Fill(column), NEW u \in Users
  PROVE  /\ stats'[u] \in StatsRow
         /\ \A c \in Columns :
              stats'[u][c] = IF c = column /\ u \in Sources(column) THEN Value(column, u)
                             ELSE stats[u][c]
         /\ stats'[u].exists <=> stats[u].exists \/ u \in Sources(column)
<1>1. stats[u] \in StatsRow
  BY DEF Typed
<1>2. CASE u \in Sources(column)
  <2>1. stats'[u] = [stats[u] EXCEPT !.exists = TRUE, ![column] = Value(column, u)]
    BY <1>2 DEF Fill, Upserted
  <2>2. Value(column, u) \in Nat
    BY ValueNat
  <2> QED BY <1>1, <1>2, <2>1, <2>2 DEF StatsRow, Columns
<1>3. CASE u \notin Sources(column)
  BY <1>1, <1>3 DEF Fill
<1> QED BY <1>2, <1>3

-----------------------------------------------------------------------------
(* The points of a user never get fewer *)

LEMMA LevelsGrow ==
  ASSUME Typed, Typed', NEW u, PairsOf(u) \subseteq PairsOf(u)',
         \A p \in PairsOf(u) : pair[p].level <= pair'[p].level
  PROVE  BpSpent(u) <= BpSpent(u)'
<1> DEFINE S == PairsOf(u)
           T == {p \in Pairs : pair'[p].user = u}
           f == [p \in S |-> pair[p].level * LevelPrice]
           g == [p \in T |-> pair'[p].level * LevelPrice]
<1>1. S \in SUBSET T /\ T \subseteq Pairs
  BY DEF PairsOf
<1>2. IsFiniteSet(T) /\ IsFiniteSet(S)
  BY <1>1, FiniteAssumption, FS_Subset
<1>3. ASSUME NEW p \in T PROVE g[p] \in Nat
  <2>1. pair'[p].level \in Nat /\ LevelPrice \in Nat
    BY <1>1, <1>3, RatesAssumption DEF Typed
  <2> QED BY <2>1, Products
<1>4. ASSUME NEW p \in S PROVE f[p] \in Nat /\ f[p] <= g[p]
  <2> DEFINE a == pair[p].level
             b == pair'[p].level
  <2>1. a \in Nat /\ b \in Nat /\ LevelPrice \in Nat /\ a <= b
    BY <1>1, <1>4, RatesAssumption DEF Typed
  <2>2. f[p] = a * LevelPrice /\ g[p] = b * LevelPrice
    BY <1>1, <1>4
  <2> HIDE DEF a, b
  <2>3. b = a + (b - a) /\ b - a \in Nat
    BY <2>1
  <2>4. b * LevelPrice = a * LevelPrice + (b - a) * LevelPrice
    BY <2>1
  <2>5. a * LevelPrice \in Nat /\ (b - a) * LevelPrice \in Nat
    BY <2>1, <2>3, Products
  <2> QED BY <2>2, <2>4, <2>5
<1>5. BpSpent(u) = SumFunctionOnSet(f, S) /\ BpSpent(u)' = SumFunctionOnSet(g, T)
  BY DEF BpSpent, PairsOf
<1> HIDE DEF S, T, f, g
<1>6. SumFunctionOnSet(f, S) <= SumFunctionOnSet(g, S)
  BY <1>1, <1>2, <1>3, <1>4, SumMonotone
<1>7. SumFunctionOnSet(g, S) <= SumFunctionOnSet(g, T)
  BY <1>1, <1>2, <1>3, SumSubset
<1>8. /\ SumFunctionOnSet(f, S) \in Nat /\ SumFunctionOnSet(g, S) \in Nat
      /\ SumFunctionOnSet(g, T) \in Nat
  BY <1>1, <1>2, <1>3, <1>4, SumNat
<1> QED BY <1>5, <1>6, <1>7, <1>8

LEMMA TypedStep == Typed /\ [Next]_vars => Typed'
<1> SUFFICES ASSUME Typed, [Next]_vars PROVE Typed'
  OBVIOUS
<1>1. CASE Handlers
  <2>1. UNCHANGED <<stats, job>> /\ steady' = {}
    BY <1>1 DEF Handlers, Changed
  <2>2. CASE Create \/ Climb \/ Settle
    BY <2>1, <2>2 DEF Create, Climb, Settle, Typed
  <2>3. CASE ConvertIndoor \/ Burn
    BY <2>1, <2>3 DEF ConvertIndoor, Burn, Typed
  <2> QED BY <1>1, <2>2, <2>3 DEF Handlers
<1>2. CASE \E j \in Jobs : Cron(j) \/ Fail(j)
  BY <1>2 DEF Cron, Fail, Typed, tables
<1>3. ASSUME NEW j \in Jobs, Continue(j) PROVE Typed'
  <2>1. job' \in [Jobs -> 0..8]
    BY <1>3 DEF Continue, Typed, Order
  <2>2. stats' \in [Users -> StatsRow]
    <3>1. job[j] \in 1..8
      BY <1>3 DEF Continue, Typed
    <3>2. Order[job[j]] \in Columns \union {"truncate"}
      BY <3>1 DEF Order, Columns
    <3>3. CASE Truncate
      BY <3>3 DEF Truncate, NoRow, StatsRow
    <3>4. ASSUME NEW column \in Columns, Fill(column) PROVE stats' \in [Users -> StatsRow]
      <4>1. \A u \in Users : stats'[u] \in StatsRow
        BY <3>4, FillFields
      <4> QED BY <3>4, <4>1 DEF Fill
    <3> QED BY <1>3, <3>2, <3>3, <3>4 DEF Continue, Execute
  <2> QED BY <1>3, <2>1, <2>2 DEF Continue, Typed, tables
<1>4. CASE UNCHANGED vars
  BY <1>4 DEF vars, Typed
<1> QED BY <1>1, <1>2, <1>3, <1>4 DEF Next

\* No handler takes a pair from its user, or a level from a pair.
LEMMA HandlersGrow ==
  ASSUME Typed, Typed', \A p \in Pairs : Unborn(p), Handlers, NEW u \in Users
  PROVE  BpSpent(u) <= BpSpent(u)'
<1>1. ASSUME NEW p \in PairsOf(u) PROVE p \in PairsOf(u)' /\ pair[p].level <= pair'[p].level
  <2>1. p \in Pairs /\ pair[p].user = u /\ pair[p].status # "NONE" /\ pair[p].level \in Nat
    BY <1>1, NoneAssumption DEF PairsOf, Unborn, Typed
  <2>2. pair'[p].user = u /\ pair[p].level <= pair'[p].level
    <3>1. CASE Create
      BY <2>1, <3>1 DEF Create, Typed
    <3>2. CASE Climb
      BY <2>1, <3>2 DEF Climb, Typed
    <3>3. CASE Settle
      BY <2>1, <3>3 DEF Settle, Typed
    <3>4. CASE ConvertIndoor \/ Burn
      BY <2>1, <3>4 DEF ConvertIndoor, Burn
    <3> QED BY <3>1, <3>2, <3>3, <3>4 DEF Handlers
  <2> QED BY <2>1, <2>2 DEF PairsOf
<1> QED BY <1>1, LevelsGrow

LEMMA BpInit == Init => BpInv
<1> SUFFICES ASSUME Init PROVE BpInv
  OBVIOUS
<1>1. Typed
  BY DEF Init, Typed, NoPair, NoRow, StatsRow
<1>2. \A u \in Users : stats[u].bp = 0 /\ BpSpent(u) \in Nat
  BY <1>1, Sums DEF Init, NoRow
<1>3. BpNeverDoubled
  BY <1>2 DEF BpNeverDoubled
<1> QED BY <1>1, <1>2, <1>3 DEF BpInv, Init, NoPair, Unborn, Emptied

LEMMA BpStep == ASSUME OneJob, BpInv, [Next]_vars PROVE BpInv'
<1>1. Typed /\ Typed' /\ (\A p \in Pairs : Unborn(p)) /\ BpNeverDoubled
  BY TypedStep DEF BpInv
<1>2. \A p \in Pairs : Unborn(p)'
  <2>1. CASE Handlers
    BY <1>1, <2>1 DEF Handlers, Create, Climb, Settle, ConvertIndoor, Burn, Unborn, Typed
  <2>2. CASE pair' = pair
    BY <1>1, <2>2 DEF Unborn
  <2> QED BY <2>1, <2>2 DEF Next, Cron, Continue, Fail, tables, vars
<1>3. ASSUME NEW u \in Users PROVE stats[u].bp \in Nat /\ BpSpent(u) \in Nat /\ BpSpent(u)' \in Nat
  <2>1. BpSpent(u) \in Nat /\ stats[u].bp \in Nat
    BY <1>1, Sums DEF Typed, StatsRow
  <2> QED BY <1>1, <2>1, SumsNext
<1>4. CASE Handlers
  <2>1. UNCHANGED <<stats, job>>
    BY <1>4 DEF Handlers
  <2>2. \A u \in Users : BpSpent(u) <= BpSpent(u)'
    BY <1>1, <1>4, HandlersGrow
  <2>3. BpNeverDoubled'
    BY <1>1, <1>3, <2>1, <2>2 DEF BpNeverDoubled
  <2> QED BY <1>1, <1>2, <2>1, <2>3 DEF BpInv, Emptied
<1>5. ASSUME NEW j \in Jobs, Cron(j) \/ Fail(j) PROVE BpInv'
  <2>1. UNCHANGED <<pair, stats>> /\ \A i \in Jobs : job'[i] \in 2..6 => job'[i] = job[i]
    BY <1>1, <1>5 DEF Cron, Fail, tables, Typed
  <2>2. BpNeverDoubled' /\ \A i \in Jobs : Emptied(i)'
    BY <1>1, <2>1 DEF BpInv, BpNeverDoubled, Emptied, BpSpent, PairsOf
  <2> QED BY <1>1, <1>2, <2>2 DEF BpInv
<1>6. ASSUME NEW j \in Jobs, Continue(j) PROVE BpInv'
  <2>1. pair' = pair /\ job[j] \in 1..8 /\ Execute(Order[job[j]])
        /\ job'[j] = IF job[j] = 8 THEN 0 ELSE job[j] + 1
    BY <1>1, <1>6 DEF Continue, tables, Typed, Order
  <2>2. \A u \in Users : BpSpent(u)' = BpSpent(u)
    BY <2>1 DEF BpSpent, PairsOf
  <2>3. CASE job[j] = 1
    <3>1. \A u \in Users : stats'[u].bp = 0
      BY <2>1, <2>3 DEF Order, Execute, Truncate, NoRow
    <3>2. BpNeverDoubled' /\ Emptied(j)'
      BY <1>3, <3>1 DEF BpNeverDoubled, Emptied
    <3> QED BY <1>1, <1>2, <3>2 DEF BpInv, OneJob
  <2>4. CASE job[j] = 6
    <3>1. \A u \in Users : stats[u].bp = 0
      BY <2>4 DEF BpInv, Emptied
    <3>2. Fill("bp")
      BY <2>1, <2>4 DEF Order, Execute
    <3>3. ASSUME NEW u \in Users PROVE stats'[u].bp <= BpSpent(u)'
      <4>1. stats'[u].bp = IF u \in Sources("bp") THEN BpTotal(u) ELSE stats[u].bp
        BY <1>1, <3>2, FillFields DEF Columns, Value
      <4> QED BY <1>3, <2>2, <3>1, <4>1 DEF BpTotal
    <3>4. Emptied(j)' /\ BpNeverDoubled'
      BY <2>1, <2>4, <3>3 DEF Emptied, BpNeverDoubled
    <3> QED BY <1>1, <1>2, <3>4 DEF BpInv, OneJob
  <2>5. CASE job[j] \notin {1, 6}
    <3>1. PICK column \in Columns \ {"bp"} : Fill(column)
      BY <2>1, <2>5 DEF Order, Execute, Columns
    <3>2. \A u \in Users : stats'[u].bp = stats[u].bp
      BY <1>1, <3>1, FillFields DEF Columns
    <3>3. job'[j] \in 2..6 => job[j] \in 2..6
      BY <2>1, <2>5
    <3>4. Emptied(j)' /\ BpNeverDoubled'
      BY <1>1, <2>2, <3>2, <3>3 DEF BpInv, Emptied, BpNeverDoubled
    <3> QED BY <1>1, <1>2, <3>4 DEF BpInv, OneJob
  <2> QED BY <2>3, <2>4, <2>5
<1>7. CASE UNCHANGED vars
  BY <1>7 DEF vars, BpInv, Typed, Unborn, Emptied, BpNeverDoubled, BpSpent, PairsOf
<1> QED BY <1>4, <1>5, <1>6, <1>7 DEF Next

\* While snapshots do not overlap, no user is ever shown more breeding points than their
\* pairs add up to, also after a job that failed half way.
THEOREM BpCounted == ASSUME OneJob PROVE Spec => []BpNeverDoubled
<1>1. BpInv /\ [Next]_vars => BpInv'
  BY BpStep
<1>2. BpInv => BpNeverDoubled
  BY DEF BpInv
<1> QED BY <1>1, <1>2, BpInit, PTL DEF Spec

-----------------------------------------------------------------------------
(* A snapshot of tables that stand still *)

\* What Filled says after the statement at k, when the tables do not change under it.
LEMMA FilledStep ==
  ASSUME Typed, NEW u \in Users, NEW k \in 1..7, Execute(Order[k]), UNCHANGED tables,
         k > 1 => Filled(u, k)
  PROVE  Filled(u, k + 1)'
<1>1. /\ Success(u)' = Success(u) /\ Failure(u)' = Failure(u) /\ Cancels(u)' = Cancels(u)
      /\ PairsOf(u)' = PairsOf(u) /\ indoor' = indoor /\ burns' = burns
  BY DEF tables, Success, Failure, Cancels, PairsOf, WithStatus
<1>2. BpSpent(u)' = BpSpent(u) /\ Hours(u)' = Hours(u)
  BY DEF tables, BpSpent, Hours, Tenths, PairsOf
<1>3. CASE k = 1
  <2>1. stats'[u] = NoRow
    BY <1>3 DEF Order, Execute, Truncate
  <2> QED BY <1>3, <2>1 DEF Filled, NoRow
<1>4. CASE k > 1
  <2>1. PICK column \in Columns : column = Order[k] /\ Fill(column)
    BY <1>4 DEF Order, Columns, Execute
  <2>2. /\ \A c \in Columns :
             stats'[u][c] = IF c = column /\ u \in Sources(column) THEN Value(column, u)
                            ELSE stats[u][c]
        /\ stats'[u].exists <=> stats[u].exists \/ u \in Sources(column)
    BY <2>1, FillFields
  <2>3. u \notin Sources(column)
          => IF column = "bp" THEN BpSpent(u) = 0 ELSE Value(column, u) = 0
    BY <2>1, Unselected
  <2>4. Filled(u, k)
    BY <1>4
  <2>5. stats'[u].burned = 0
    <3>1. column # "burned"
      BY <2>1 DEF Order
    <3> QED BY <2>2, <2>4, <3>1 DEF Columns, Filled
  <2>6. stats'[u].success = IF k + 1 > 2 THEN Success(u) ELSE 0
    BY <1>4, <2>1, <2>2, <2>3, <2>4 DEF Columns, Filled, Value, Order
  <2>7. stats'[u].failure = IF k + 1 > 3 THEN Failure(u) ELSE 0
    BY <1>4, <2>1, <2>2, <2>3, <2>4 DEF Columns, Filled, Value, Order
  <2>8. stats'[u].cancels = IF k + 1 > 4 THEN Cancels(u) ELSE 0
    BY <1>4, <2>1, <2>2, <2>3, <2>4 DEF Columns, Filled, Value, Order
  <2>9. stats'[u].hours = IF k + 1 > 5 THEN Hours(u) ELSE 0
    BY <1>4, <2>1, <2>2, <2>3, <2>4 DEF Columns, Filled, Value, Order
  <2>10. stats'[u].bp = IF k + 1 > 6 THEN BpSpent(u) ELSE 0
    <3>1. BpSpent(u) \in Nat /\ stats[u].bp = IF k > 6 THEN BpSpent(u) ELSE 0
      BY <2>4, Sums DEF Filled
    <3>2. CASE k = 6
      <4>1. column = "bp" /\ stats[u].bp = 0
        BY <2>1, <3>1, <3>2 DEF Order
      <4>2. Value(column, u) = BpSpent(u)
        BY <3>1, <4>1 DEF Value, BpTotal
      <4> QED BY <2>2, <2>3, <3>2, <4>1, <4>2 DEF Columns
    <3>3. CASE k # 6
      <4>1. column # "bp"
        BY <1>4, <2>1, <3>3 DEF Order
      <4> QED BY <1>4, <2>2, <3>1, <3>3, <4>1 DEF Columns
    <3> QED BY <3>2, <3>3
  <2>11. stats'[u].land = IF k + 1 > 7 THEN indoor[u] * IndoorPrice ELSE 0
    BY <1>4, <2>1, <2>2, <2>3, <2>4 DEF Columns, Filled, Value, Order
  <2>12. /\ stats'[u].exists => PairsOf(u) # {} \/ (k + 1 > 7 /\ indoor[u] > 0)
         /\ k + 1 > 5 /\ PairsOf(u) # {} => stats'[u].exists
         /\ k + 1 > 7 /\ indoor[u] > 0 => stats'[u].exists
    <3>1. CASE k \in 2..4
      <4>1. column \in {"success", "failure", "cancels"}
        BY <2>1, <3>1 DEF Order
      <4> QED BY <2>2, <2>4, <3>1, <4>1, Selected DEF Filled
    <3>2. CASE k = 5
      <4>1. column = "hours"
        BY <2>1, <3>2 DEF Order
      <4> QED BY <2>2, <2>4, <3>2, <4>1, Selected DEF Filled
    <3>3. CASE k = 6
      <4>1. column = "bp"
        BY <2>1, <3>3 DEF Order
      <4> QED BY <2>2, <2>4, <3>3, <4>1, Selected DEF Filled
    <3>4. CASE k = 7
      <4>1. column = "land"
        BY <2>1, <3>4 DEF Order
      <4> QED BY <2>2, <2>4, <3>4, <4>1, Selected DEF Filled
    <3> QED BY <1>4, <3>1, <3>2, <3>3, <3>4
  <2> QED BY <1>1, <1>2, <2>5, <2>6, <2>7, <2>8, <2>9, <2>10, <2>11, <2>12 DEF Filled
<1> QED BY <1>3, <1>4

\* The last statement completes it.
LEMMA LastStep ==
  ASSUME Typed, NEW u \in Users, Execute(Order[8]), UNCHANGED tables, Filled(u, 8)
  PROVE  Exact(u)'
<1>1. /\ Success(u)' = Success(u) /\ Failure(u)' = Failure(u) /\ Cancels(u)' = Cancels(u)
      /\ PairsOf(u)' = PairsOf(u) /\ indoor' = indoor /\ burns' = burns
  BY DEF tables, Success, Failure, Cancels, PairsOf, WithStatus
<1>2. BpSpent(u)' = BpSpent(u) /\ Hours(u)' = Hours(u)
  BY DEF tables, BpSpent, Hours, Tenths, PairsOf
<1>3. Fill("burned")
  BY DEF Order, Execute
<1>4. /\ \A c \in Columns :
           stats'[u][c] = IF c = "burned" /\ u \in Sources("burned") THEN Value("burned", u)
                          ELSE stats[u][c]
      /\ stats'[u].exists <=> stats[u].exists \/ u \in Sources("burned")
  BY <1>3, FillFields DEF Columns
<1>5. /\ u \in Sources("burned") <=> burns[u] > 0
      /\ u \notin Sources("burned") => Value("burned", u) = 0
  BY Selected, Unselected DEF Columns
<1>6. stats'[u].burned = 2 * burns[u]
  BY <1>4, <1>5 DEF Columns, Value, Filled
<1>7. /\ stats'[u].success = Success(u) /\ stats'[u].failure = Failure(u)
      /\ stats'[u].cancels = Cancels(u) /\ stats'[u].hours = Hours(u)
      /\ stats'[u].bp = BpSpent(u) /\ stats'[u].land = indoor[u] * IndoorPrice
  BY <1>4 DEF Columns, Filled
<1>8. stats'[u].exists <=> PairsOf(u) # {} \/ indoor[u] > 0 \/ burns[u] > 0
  BY <1>4, <1>5 DEF Filled
<1> QED BY <1>1, <1>2, <1>6, <1>7, <1>8 DEF Exact

LEMMA SnapshotInit == Init => SnapshotInv
  BY BpInit DEF Init, SnapshotInv, Steady

LEMMA SnapshotInvStep == ASSUME OneJob, SnapshotInv, [Next]_vars PROVE SnapshotInv'
<1>1. BpInv /\ BpInv' /\ Typed /\ Typed' /\ \A j \in Jobs : Steady(j)
  BY BpStep DEF SnapshotInv, BpInv
<1>2. CASE Handlers
  BY <1>1, <1>2 DEF Handlers, Changed, SnapshotInv, Steady
<1>3. ASSUME NEW j \in Jobs, Cron(j) \/ Fail(j) PROVE SnapshotInv'
  <2>1. j \in steady' => job'[j] = 1
    BY <1>1, <1>3 DEF Cron, Fail, Typed
  <2>2. Steady(j)'
    BY <2>1 DEF Steady
  <2> QED BY <1>1, <2>2 DEF SnapshotInv, OneJob
<1>4. ASSUME NEW j \in Jobs, Continue(j) PROVE SnapshotInv'
  <2>1. /\ UNCHANGED tables /\ steady' = steady /\ job[j] \in 1..8 /\ Execute(Order[job[j]])
        /\ job'[j] = IF job[j] = 8 THEN 0 ELSE job[j] + 1
    BY <1>1, <1>4 DEF Continue, Typed, Order
  <2>2. PICK n \in 0..8 : n = job'[j]
    BY <2>1
  <2>3. ASSUME j \in steady, NEW u \in Users
        PROVE  (n > 1 => Filled(u, n)') /\ (n = 0 => Exact(u)')
    <3>1. job[j] > 1 => Filled(u, job[j])
      BY <1>1, <2>3 DEF Steady
    <3>2. CASE job[j] = 8
      <4>1. Exact(u)'
        BY <1>1, <2>1, <3>1, <3>2, LastStep
      <4> QED BY <2>1, <2>2, <3>2, <4>1
    <3>3. ASSUME NEW k \in 1..7, job[j] = k PROVE n = k + 1 /\ Filled(u, k + 1)'
      BY <1>1, <2>1, <2>2, <3>1, <3>3, FilledStep
    <3> QED BY <2>1, <3>2, <3>3
  <2>4. Steady(j)'
    BY <2>1, <2>2, <2>3 DEF Steady
  <2> QED BY <1>1, <2>4 DEF SnapshotInv, OneJob
<1>5. CASE UNCHANGED vars
  <2>1. \A u : (Exact(u)' <=> Exact(u)) /\ \A k : (Filled(u, k)' <=> Filled(u, k))
    BY <1>5 DEF vars, Exact, Filled, Success, Failure, Cancels, WithStatus, PairsOf, Hours,
                Tenths, BpSpent
  <2>2. \A j \in Jobs : Steady(j)'
    BY <1>1, <1>5, <2>1 DEF Steady, vars
  <2> QED BY <1>1, <2>2 DEF SnapshotInv
<1> QED BY <1>2, <1>3, <1>4, <1>5 DEF Next

\* While snapshots do not overlap, one that ran through while no table changed shows every
\* address its own numbers, whatever failed jobs had left in the table.
THEOREM SnapshotsExact == ASSUME OneJob PROVE Spec => []SnapshotExact
<1>1. SnapshotInv /\ [Next]_vars => SnapshotInv'
  BY SnapshotInvStep
<1>2. SnapshotInv => SnapshotExact
  BY DEF SnapshotInv, Steady, SnapshotExact
<1> QED BY <1>1, <1>2, SnapshotInit, PTL DEF Spec

-----------------------------------------------------------------------------
(* The pages of the leaderboard                                            *)

\* u is shown once in t, and t never shows a greater score after a smaller one.
OnceIn(t, u) == \E i \in DOMAIN t : \A j \in DOMAIN t : t[j] = u <=> j = i
Falling(t)   == \A i, j \in DOMAIN t : i < j => Score(t[i]) >= Score(t[j])

LEMMA ScoreInt == ASSUME Typed, NEW u \in Users PROVE Score(u) \in Int
<1>1. stats[u] \in StatsRow
  BY DEF Typed
<1> QED BY <1>1 DEF Score, StatsRow

\* The rows S in an order of theirs.
Ordered(q, S) ==
  /\ q \in Seq(S) /\ DOMAIN q = 1..Len(q) /\ Len(q) \in Nat
  /\ \A i, j \in DOMAIN q : q[i] = q[j] => i = j
  /\ \A u \in S : \E i \in DOMAIN q : q[i] = u
  /\ Falling(q)

LEMMA SeqsOnto ==
  ASSUME NEW S, S \subseteq Users, NEW q \in SetToSeqs(S)
  PROVE  /\ Cardinality(S) \in Nat /\ q \in [1..Cardinality(S) -> S]
         /\ \A i, j \in 1..Cardinality(S) : q[i] = q[j] => i = j
         /\ \A u \in S : \E i \in 1..Cardinality(S) : q[i] = u
<1> DEFINE n == Cardinality(S)
<1>1. IsFiniteSet(S)
  BY AddressesAssumption, FS_Subset
<1>2. n \in Nat
  BY <1>1, FS_CardinalityType
<1>3. q \in [1..n -> S] /\ \A i, j \in 1..n : i # j => q[i] # q[j]
  BY DEF SetToSeqs
<1>4. q \in Injection(1..n, S)
  BY <1>3 DEF Injection, IsInjective
<1>5. IsFiniteSet(1..n) /\ Cardinality(1..n) = n
  <2>1. IsFiniteSet(1..n) /\ Cardinality(1..n) = IF 1 > n THEN 0 ELSE n - 1 + 1
    BY <1>2, FS_Interval
  <2> QED BY <1>2, <2>1
<1>6. q \in Surjection(1..n, S)
  BY <1>1, <1>4, <1>5, FS_Injection
<1>7. \A u \in S : \E i \in 1..n : q[i] = u
  BY <1>6 DEF Surjection
<1> QED BY <1>2, <1>3, <1>7

LEMMA OrderedRows ==
  ASSUME NEW S, S \subseteq Rows, NEW q \in Descending(S) PROVE Ordered(q, S)
<1>0. PICK n : n = Cardinality(S)
  OBVIOUS
<1>1. q \in SetToSeqs(S) /\ \A i, j \in DOMAIN q : i < j => Score(q[i]) >= Score(q[j])
  BY DEF Descending
<1>2. /\ n \in Nat /\ q \in [1..n -> S]
      /\ \A i, j \in 1..n : q[i] = q[j] => i = j
      /\ \A u \in S : \E i \in 1..n : q[i] = u
  <2>1. S \subseteq Users
    BY DEF Rows
  <2> QED BY <1>0, <1>1, <2>1, SeqsOnto
<1>3. q \in Seq(S) /\ Len(q) = n /\ DOMAIN q = 1..n
  BY <1>2, SeqDef, LenProperties
<1> QED BY <1>1, <1>2, <1>3 DEF Ordered, Falling

\* The page p holds m of the rows q from the offset on, and is empty only past them.
IsPage(p, q, S, offset, m) ==
  /\ p \in Seq(S) /\ Len(p) = m /\ DOMAIN p = 1..m
  /\ m \in Nat /\ m > 0 => offset + m <= Len(q)
  /\ \A i \in 1..m : p[i] = q[offset + i]
  /\ m = 0 => Len(q) <= offset

LEMMA PageRows ==
  ASSUME NEW S, NEW q, Ordered(q, S), NEW offset \in Nat, NEW take \in Nat \ {0}
  PROVE  \E m \in Nat : IsPage(Page(q, offset, take), q, S, offset, m)
<1>3. /\ q \in Seq(S) /\ DOMAIN q = 1..Len(q) /\ Len(q) \in Nat
      /\ \A i \in 1..Len(q) : q[i] \in S
  BY DEF Ordered
<1>1. PICK last : last = IF offset + take > Len(q) THEN Len(q) ELSE offset + take
  OBVIOUS
<1>2. PICK p : p = SubSeq(q, offset + 1, last) /\ p = Page(q, offset, take)
  BY <1>1 DEF Page
<1>4. last \in Nat /\ last <= Len(q) /\ (offset + 1 <= last <=> offset < Len(q))
  BY <1>1, <1>3
<1>5. \A i \in (offset + 1)..last : q[i] \in S
  BY <1>3, <1>4
<1>6. /\ p \in Seq(S)
      /\ Len(p) = IF offset + 1 <= last THEN last - (offset + 1) + 1 ELSE 0
      /\ \A i \in 1..(last - (offset + 1) + 1) : p[i] = q[(offset + 1) + i - 1]
  <2>1. offset + 1 \in Int /\ last \in Int
    BY <1>4
  <2> QED BY <1>2, <1>5, <2>1, SubSeqProperties
<1>7. DOMAIN p = 1..Len(p)
  BY <1>6
<1>8. CASE offset < Len(q)
  <2>1. PICK m \in Nat : m = last - offset
    BY <1>4, <1>8
  <2>2. Len(p) = m /\ m > 0 /\ offset + m <= Len(q)
    BY <1>4, <1>6, <1>8, <2>1
  <2>3. ASSUME NEW i \in 1..m PROVE p[i] = q[offset + i]
    <3>1. i \in 1..(last - (offset + 1) + 1) /\ (offset + 1) + i - 1 = offset + i
      BY <1>4, <2>1
    <3> QED BY <1>6, <3>1
  <2>4. IsPage(p, q, S, offset, m)
    BY <1>6, <1>7, <2>2, <2>3 DEF IsPage
  <2> QED BY <1>2, <2>4
<1>9. CASE offset >= Len(q)
  <2>1. Len(p) = 0
    BY <1>3, <1>4, <1>6, <1>9
  <2> QED BY <1>2, <1>6, <1>7, <1>9, <2>1 DEF IsPage
<1> QED BY <1>3, <1>8, <1>9

\* What a reader has been shown that can go on after t: nothing is missing above.
Complete(t) ==
  \A u \in Rows : Alone(u) /\ Score(u) >= Score(t[Len(t)]) => OnceIn(t, u)

LEMMA FirstShown ==
  ASSUME Typed, NEW q, Ordered(q, Rows), NEW m \in Nat, NEW p, IsPage(p, q, Rows, 0, m)
  PROVE  /\ Falling(p)
         /\ IF p = <<>> THEN Rows = {} ELSE Complete(p)
<1>1. /\ Len(q) \in Nat /\ DOMAIN q = 1..Len(q) /\ DOMAIN p = 1..m /\ Len(p) = m
      /\ m > 0 => m <= Len(q)
      /\ \A i \in 1..m : p[i] = q[i]
      /\ m = 0 => Len(q) <= 0
  BY DEF IsPage, Ordered
<1>2. /\ \A i, j \in DOMAIN q : q[i] = q[j] => i = j
      /\ \A u \in Rows : \E i \in DOMAIN q : q[i] = u
      /\ \A i, j \in DOMAIN q : i < j => Score(q[i]) >= Score(q[j])
  BY DEF Ordered, Falling
<1>3. Falling(p)
  BY <1>1, <1>2 DEF Falling
<1>4. CASE p = <<>>
  <2>1. m = 0
    BY <1>1, <1>4
  <2>2. DOMAIN q = {}
    BY <1>1, <2>1
  <2> QED BY <1>2, <1>3, <1>4, <2>2
<1>5. CASE p # <<>>
  <2>1. m > 0
    BY <1>1, <1>5, EmptySeq DEF IsPage
  <2> SUFFICES ASSUME NEW u \in Rows, Alone(u), Score(u) >= Score(p[Len(p)]) PROVE OnceIn(p, u)
    BY <1>3, <1>5 DEF Complete
  <2>2. PICK i \in DOMAIN q : q[i] = u
    BY <1>2
  <2>3. i \in 1..m
    <3> SUFFICES ASSUME i > m PROVE FALSE
      BY <1>1, <2>2
    <3>1. p[Len(p)] = q[m] /\ m \in DOMAIN q /\ q[m] # u
      BY <1>1, <1>2, <2>1, <2>2
    <3>2. Score(q[m]) >= Score(u) /\ q[m] \in Rows
      BY <1>1, <1>2, <2>1, <2>2, <3>1 DEF Ordered
    <3>3. Score(q[m]) # Score(u)
      BY <3>1, <3>2 DEF Alone
    <3>4. Score(q[m]) \in Int /\ Score(u) \in Int
      BY <3>2, ScoreInt DEF Rows
    <3> QED BY <3>1, <3>2, <3>3, <3>4
  <2>4. \A j \in DOMAIN p : p[j] = u <=> j = i
    BY <1>1, <1>2, <2>1, <2>2, <2>3
  <2> QED BY <1>1, <2>3, <2>4 DEF OnceIn
<1> QED BY <1>4, <1>5

\* A page after t, of the rows that are no better than the last of t.
LEMMA NextShown ==
  ASSUME Typed, NEW t, t \in Seq(Rows), t # <<>>, Falling(t), Complete(t),
         NEW S, S = {u \in Rows : Score(u) <= Score(t[Len(t)])},
         NEW q, Ordered(q, S), NEW m \in Nat, NEW p, IsPage(p, q, S, 1, m)
  PROVE  IF p = <<>> THEN \A u \in Rows : Alone(u) => OnceIn(t, u)
         ELSE t \o p \in Seq(Rows) /\ t \o p # <<>> /\ Falling(t \o p) /\ Complete(t \o p)
<1>0. PICK n, w : n = Len(t) /\ w = t[n]
  OBVIOUS
<1>1. /\ n \in Nat /\ n > 0 /\ DOMAIN t = 1..n /\ (\A i \in 1..n : t[i] \in Rows) /\ w \in Rows
      /\ \A i, j \in 1..n : i < j => Score(t[i]) >= Score(t[j])
  BY <1>0, EmptySeq DEF Falling
<1>2. /\ Len(q) \in Nat /\ DOMAIN q = 1..Len(q) /\ DOMAIN p = 1..m /\ Len(p) = m /\ p \in Seq(S)
      /\ m > 0 => 1 + m <= Len(q)
      /\ \A i \in 1..m : p[i] = q[1 + i]
      /\ m = 0 => Len(q) <= 1
  BY DEF IsPage, Ordered
<1>3. /\ \A i, j \in DOMAIN q : q[i] = q[j] => i = j
      /\ \A u \in S : \E i \in DOMAIN q : q[i] = u
      /\ \A i, j \in DOMAIN q : i < j => Score(q[i]) >= Score(q[j])
      /\ \A i \in DOMAIN q : q[i] \in S
  BY DEF Ordered, Falling
<1>4. \A u \in Rows : Score(u) \in Int
  BY ScoreInt DEF Rows
\* The dropped row has the score of the last of t: it is the first of those no better.
<1>5. w \in S /\ 1 \in DOMAIN q /\ Score(q[1]) = Score(w)
  <2>1. w \in S
    BY <1>0, <1>1, <1>4
  <2>2. PICK k \in DOMAIN q : q[k] = w
    BY <1>3, <2>1
  <2>3. 1 \in DOMAIN q /\ Score(q[1]) >= Score(w)
    BY <1>2, <1>3, <1>4, <1>1, <2>2
  <2>4. Score(q[1]) <= Score(w) /\ q[1] \in Rows
    BY <1>0, <1>3, <2>3
  <2> QED BY <1>1, <1>4, <2>1, <2>3, <2>4
<1>6. ASSUME NEW u \in Rows, Alone(u), Score(u) >= Score(w) PROVE OnceIn(t, u)
  BY <1>0, <1>6 DEF Complete
<1>7. CASE p = <<>>
  <2>1. m = 0 /\ DOMAIN q = {1}
    BY <1>2, <1>5, <1>7
  <2>2. ASSUME NEW u \in Rows PROVE Score(u) >= Score(w)
    <3> SUFFICES ASSUME ~(Score(u) >= Score(w)) PROVE FALSE
      OBVIOUS
    <3>1. u \in S /\ w # u
      BY <1>0, <1>1, <1>4
    <3> QED BY <1>3, <1>5, <2>1, <3>1
  <2> QED BY <1>6, <1>7, <2>2
<1>8. CASE p # <<>>
  <2>1. m > 0
    BY <1>2, <1>8, EmptySeq
  <2>2. PICK r : r = t \o p
    OBVIOUS
  <2>3. p \in Seq(Rows)
    <3>1. \A i \in 1..m : p[i] \in Rows
      BY <1>2
    <3> QED BY <1>2, <3>1
  <2>4. /\ r \in Seq(Rows) /\ Len(r) = n + m /\ DOMAIN r = 1..(n + m)
        /\ \A i \in 1..(n + m) : r[i] = IF i <= n THEN t[i] ELSE p[i - n]
    <3>1. /\ t \o p \in Seq(Rows) /\ Len(t \o p) = Len(t) + Len(p)
          /\ \A i \in 1..Len(t) + Len(p) : (t \o p)[i] = IF i <= Len(t) THEN t[i] ELSE p[i - Len(t)]
      BY <2>3, ConcatProperties
    <3>2. Len(t) = n /\ Len(p) = m
      BY <1>0, <1>2
    <3>3. r \in Seq(Rows) /\ Len(r) = n + m
      BY <2>2, <3>1, <3>2
    <3>4. DOMAIN r = 1..(n + m)
      BY <3>3
    <3> QED BY <2>2, <3>1, <3>2, <3>3, <3>4
  <2>5. /\ \A i \in 1..n : r[i] = t[i]
        /\ \A i \in (n + 1)..(n + m) : r[i] = q[1 + (i - n)] /\ 1 + (i - n) \in 2..(m + 1)
    BY <1>1, <1>2, <2>4
  <2>6. 1..(n + m) = (1..n) \union ((n + 1)..(n + m)) /\ 2..(m + 1) \subseteq DOMAIN q
    BY <1>1, <1>2, <2>1
  <2>7. Falling(r)
    <3> SUFFICES ASSUME NEW i \in 1..(n + m), NEW j \in 1..(n + m), i < j
                 PROVE  Score(r[i]) >= Score(r[j])
      BY <2>4 DEF Falling
    <3>1. CASE j \in 1..n
      BY <1>1, <2>5, <3>1
    <3>2. CASE i \in (n + 1)..(n + m)
      <4>1. /\ 1 + (i - n) \in DOMAIN q /\ 1 + (j - n) \in DOMAIN q
            /\ r[i] = q[1 + (i - n)] /\ r[j] = q[1 + (j - n)] /\ 1 + (i - n) < 1 + (j - n)
        <5>1. j \in (n + 1)..(n + m)
          BY <1>1, <3>2
        <5>2. r[i] = q[1 + (i - n)] /\ 1 + (i - n) \in 2..(m + 1)
          BY <2>5, <3>2
        <5>3. r[j] = q[1 + (j - n)] /\ 1 + (j - n) \in 2..(m + 1)
          BY <2>5, <5>1
        <5>4. 1 + (i - n) < 1 + (j - n)
          BY <1>1
        <5> QED BY <2>6, <5>2, <5>3, <5>4
      <4> QED BY <1>3, <4>1
    <3>3. CASE i \in 1..n /\ j \in (n + 1)..(n + m)
      <4>1. Score(t[i]) >= Score(w)
        BY <1>0, <1>1, <1>4, <3>3
      <4>2. Score(r[j]) <= Score(w) /\ r[j] \in Rows
        BY <1>0, <1>3, <2>5, <2>6, <3>3
      <4> QED BY <1>1, <1>4, <2>5, <3>3, <4>1, <4>2
    <3> QED BY <2>6, <3>1, <3>2, <3>3
  <2>8. ASSUME NEW u \in Rows, Alone(u), Score(u) >= Score(r[Len(r)]) PROVE OnceIn(r, u)
    <3>1. CASE Score(u) >= Score(w)
      <4>1. PICK i \in 1..n : \A j \in 1..n : t[j] = u <=> j = i
        <5>1. OnceIn(t, u)
          BY <1>6, <2>8, <3>1
        <5>2. DOMAIN t = 1..n
          BY <1>1
        <5>3. PICK i \in DOMAIN t : \A j \in DOMAIN t : t[j] = u <=> j = i
          BY <5>1 DEF OnceIn
        <5>4. i \in 1..n
          BY <5>2, <5>3
        <5>5. ASSUME NEW j \in 1..n PROVE t[j] = u <=> j = i
          BY <5>2, <5>3
        <5> QED BY <5>4, <5>5
      <4>2. ASSUME NEW j \in (n + 1)..(n + m), r[j] = u PROVE FALSE
        <5>1. 1 + (j - n) \in DOMAIN q /\ q[1 + (j - n)] = u /\ 1 + (j - n) # 1
          BY <2>5, <2>6, <4>2
        <5>2. Score(u) = Score(w)
          BY <1>0, <1>1, <1>3, <1>4, <3>1, <5>1
        <5>3. q[1] # u /\ q[1] \in Rows
          BY <1>3, <1>5, <5>1
        <5> QED BY <1>5, <2>8, <5>2, <5>3 DEF Alone
      <4>3. \A j \in 1..(n + m) : r[j] = u <=> j = i
        BY <2>5, <2>6, <4>1, <4>2
      <4>4. i \in 1..(n + m)
        BY <2>6
      <4>5. DOMAIN r = 1..(n + m)
        BY <2>4
      <4>6. ASSUME NEW j \in DOMAIN r PROVE r[j] = u <=> j = i
        BY <4>3, <4>5
      <4> QED BY <4>4, <4>5, <4>6 DEF OnceIn
    <3>2. CASE Score(u) < Score(w)
      <4>1. u \in S
        BY <1>0, <1>1, <1>4, <3>2
      <4>2. PICK k \in DOMAIN q : q[k] = u
        BY <1>3, <4>1
      <4>3. k # 1 /\ k \in Nat /\ k >= 1
        BY <1>1, <1>2, <1>4, <1>5, <3>2, <4>2
      <4>4. r[Len(r)] = q[m + 1] /\ m + 1 \in DOMAIN q /\ q[m + 1] \in Rows
        BY <1>1, <1>3, <2>1, <2>4, <2>5, <2>6
      <4>5. k <= m + 1
        <5> SUFFICES ASSUME k > m + 1 PROVE FALSE
          BY <1>2, <4>2
        <5>1. Score(q[m + 1]) >= Score(u) /\ q[m + 1] # u
          <6>1. m + 1 < k /\ m + 1 # k
            BY <4>3
          <6> QED BY <1>3, <4>2, <4>4, <6>1
        <5>2. Score(q[m + 1]) # Score(u)
          BY <2>8, <4>4, <5>1 DEF Alone
        <5> QED BY <1>4, <2>8, <4>4, <5>1, <5>2
      <4>6. PICK i \in (n + 1)..(n + m) : i = n + (k - 1)
        <5>1. n + (k - 1) \in (n + 1)..(n + m)
          BY <1>1, <4>3, <4>5
        <5> QED BY <5>1
      <4>7. \A j \in (n + 1)..(n + m) : r[j] = u <=> j = i
        <5>1. ASSUME NEW j \in (n + 1)..(n + m) PROVE r[j] = u <=> j = i
          <6>1. r[j] = q[1 + (j - n)] /\ 1 + (j - n) \in DOMAIN q
            BY <2>5, <2>6
          <6>2. r[j] = u <=> 1 + (j - n) = k
            BY <1>3, <4>2, <6>1
          <6>3. 1 + (j - n) = k <=> j = n + (k - 1)
            BY <1>1, <4>3
          <6> QED BY <4>6, <6>2, <6>3
        <5> QED BY <5>1
      <4>8. ASSUME NEW j \in 1..n PROVE r[j] # u
        <5>1. Score(t[j]) >= Score(w)
          BY <1>0, <1>1, <1>4
        <5> QED BY <1>1, <1>4, <2>5, <3>2, <5>1
      <4>9. i \in 1..(n + m) /\ \A j \in 1..(n + m) : r[j] = u <=> j = i
        BY <1>1, <2>6, <4>6, <4>7, <4>8
      <4>10. DOMAIN r = 1..(n + m)
        BY <2>4
      <4>11. ASSUME NEW j \in DOMAIN r PROVE r[j] = u <=> j = i
        BY <4>9, <4>10
      <4> QED BY <4>9, <4>10, <4>11 DEF OnceIn
    <3> QED BY <1>1, <1>4, <3>1, <3>2
  <2>9. Complete(r)
    BY <2>8 DEF Complete
  <2>10. r # <<>>
    BY <1>1, <2>1, <2>4
  <2> QED BY <1>8, <2>2, <2>4, <2>7, <2>9, <2>10
<1> QED BY <1>7, <1>8

-----------------------------------------------------------------------------
(* The ids, and the reader between its pages *)

\* The ids tell the rows apart, and the sequence is beyond all of them.
IdsTell ==
  /\ id \in [Users -> Nat] /\ nextId \in Nat \ {0}
  /\ \A u \in Rows : id[u] < nextId
  /\ \A u, v \in Rows : id[u] = id[v] => u = v

Reader == [pc : {"idle", "reading", "done"}, take : Nat, cursor : Nat,
           shown : Seq(Users), pages : Nat, undisturbed : BOOLEAN]

ReaderTyped ==
  /\ reader \in Reader
  /\ reader.pc = "reading" => reader.take > 0

\* What the reader x has been shown of a table nothing has changed.
Knows(x) ==
  x.undisturbed =>
    /\ x.shown \in Seq(Rows) /\ Falling(x.shown)
    /\ x.pc = "reading" =>
         x.shown # <<>> /\ x.cursor = id[x.shown[Len(x.shown)]] /\ Complete(x.shown)
    /\ x.pc = "done" => \A u \in Rows : Alone(u) => OnceIn(x.shown, u)

BoardInv == Typed /\ IdsTell /\ ReaderTyped /\ Knows(reader)

LEMMA IdsFilled ==
  ASSUME Typed, IdsTell, NEW column \in Columns, Fill(column), FillIds(column)
  PROVE  IdsTell'
<1>1. PICK S, n : S = Sources(column) /\ n = Cardinality(S)
  OBVIOUS
<1>2. PICK order \in SetToSeqs(S) :
        id' = [u \in Users |->
                IF u \in S \ Rows THEN nextId - 1 + CHOOSE i \in 1..n : order[i] = u ELSE id[u]]
  BY <1>1 DEF FillIds
<1>3. S \subseteq Users
  BY <1>1 DEF Sources
<1>4. n \in Nat /\ \A u \in S : \E i \in 1..n : order[i] = u
  BY <1>1, <1>3, SeqsOnto
<1> DEFINE place(u) == CHOOSE i \in 1..n : order[i] = u
<1>5. \A u \in S : place(u) \in 1..n /\ order[place(u)] = u
  BY <1>4
<1>6. /\ \A u \in Users : id'[u] = IF u \in S \ Rows THEN nextId - 1 + place(u) ELSE id[u]
      /\ DOMAIN id' = Users /\ id' = [u \in Users |-> id'[u]]
  BY <1>2
<1> HIDE DEF place
<1>7. nextId' = nextId + n /\ nextId' \in Nat \ {0}
  BY <1>1, <1>4 DEF FillIds, IdsTell
<1>8. Rows' = Rows \union S
  <2>1. \A u \in Users : stats'[u].exists <=> stats[u].exists \/ u \in S
    BY <1>1, FillFields
  <2> QED BY <1>3, <2>1 DEF Rows
<1>9. ASSUME NEW u \in Users
      PROVE  /\ id'[u] \in Nat
             /\ u \in S \ Rows => id'[u] >= nextId /\ id'[u] < nextId' /\ order[id'[u] - nextId + 1] = u
             /\ u \notin S \ Rows => id'[u] = id[u]
  <2>1. id[u] \in Nat /\ nextId \in Nat \ {0}
    BY DEF IdsTell
  <2>2. CASE u \in S \ Rows
    <3>1. place(u) \in 1..n /\ id'[u] = nextId - 1 + place(u) /\ order[place(u)] = u
      BY <1>5, <1>6, <2>2
    <3>2. id'[u] - nextId + 1 = place(u)
      BY <1>4, <2>1, <3>1
    <3> QED BY <1>4, <1>7, <2>1, <2>2, <3>1, <3>2
  <2>3. CASE u \notin S \ Rows
    BY <1>6, <2>1, <2>3
  <2> QED BY <2>2, <2>3
<1>10. ASSUME NEW u \in Rows PROVE u \in Users /\ id'[u] = id[u] /\ id[u] < nextId
  BY <1>9 DEF Rows, IdsTell
<1>11. \A u \in Rows' : id'[u] < nextId'
  BY <1>3, <1>4, <1>7, <1>8, <1>9, <1>10 DEF IdsTell
<1>12. ASSUME NEW u \in Rows', NEW v \in Rows', id'[u] = id'[v] PROVE u = v
  <2>1. CASE u \in Rows /\ v \in Rows
    BY <1>10, <1>12, <2>1 DEF IdsTell
  <2>2. CASE u \in S \ Rows /\ v \in S \ Rows
    BY <1>3, <1>9, <1>12, <2>2
  <2>3. CASE u \in Rows /\ v \in S \ Rows
    BY <1>3, <1>9, <1>10, <1>12, <2>3 DEF IdsTell
  <2>4. CASE v \in Rows /\ u \in S \ Rows
    BY <1>3, <1>9, <1>10, <1>12, <2>4 DEF IdsTell
  <2> QED BY <1>8, <2>1, <2>2, <2>3, <2>4
<1>13. id' \in [Users -> Nat]
  BY <1>6, <1>9
<1> QED BY <1>7, <1>11, <1>12, <1>13 DEF IdsTell

LEMMA StepOfTables == BoardNext => [Next]_vars
  BY DEF BoardNext, Next, SnapshotStep, Open, Turn, Close

LEMMA BoardSnapshot ==
  ASSUME BoardInv, Typed', NEW j \in Jobs, SnapshotStep(j) PROVE BoardInv'
<1>1. Order[job[j]] \in Columns \union {"truncate"} /\ Execute(Order[job[j]])
  <2>1. job[j] \in 1..8 /\ Execute(Order[job[j]])
    BY DEF SnapshotStep, Continue, BoardInv, Typed
  <2> QED BY <2>1 DEF Order, Columns
<1>2. IdsTell'
  <2>1. CASE Order[job[j]] = "truncate"
    <3>1. stats' = [u \in Users |-> NoRow] /\ id' = [u \in Users |-> 0] /\ nextId' = 1
      BY <1>1, <2>1 DEF Execute, Truncate, SnapshotStep, ExecuteWithIds
    <3>2. Rows' = {}
      BY <3>1 DEF Rows, NoRow
    <3> QED BY <3>1, <3>2 DEF IdsTell
  <2>2. ASSUME NEW column \in Columns, Order[job[j]] = column PROVE IdsTell'
    <3>1. column # "truncate"
      BY DEF Columns
    <3>2. Fill(column) /\ FillIds(column)
      BY <1>1, <2>2, <3>1 DEF Execute, SnapshotStep, ExecuteWithIds
    <3> QED BY <2>2, <3>2, IdsFilled DEF BoardInv
  <2> QED BY <1>1, <2>1, <2>2
<1>3. ReaderTyped' /\ reader'.undisturbed = FALSE
  BY DEF SnapshotStep, BoardInv, ReaderTyped, Reader
<1> QED BY <1>2, <1>3 DEF BoardInv, Knows

\* Nothing else changes the table, so what holds of the reader's locals keeps holding.
LEMMA TableStands ==
  ASSUME UNCHANGED <<stats, id, nextId>>
  PROVE  /\ IdsTell' <=> IdsTell
         /\ \A x : Knows(x)' <=> Knows(x)
<1>1. Rows' = Rows /\ \A u : Score(u)' = Score(u)
  BY DEF Rows, Score
<1>2. \A u : Alone(u)' <=> Alone(u)
  BY <1>1 DEF Alone
<1>3. \A t : (Falling(t)' <=> Falling(t)) /\ (Complete(t)' <=> Complete(t))
  BY <1>1, <1>2 DEF Falling, Complete, OnceIn
<1>4. IdsTell' <=> IdsTell
  BY <1>1 DEF IdsTell
<1>5. ASSUME NEW x PROVE Knows(x)' <=> Knows(x)
  BY <1>1, <1>2, <1>3 DEF Knows, OnceIn
<1> QED BY <1>4, <1>5

LEMMA BoardStands ==
  ASSUME BoardInv, Typed', UNCHANGED <<stats, id, nextId, reader>> PROVE BoardInv'
<1>1. IdsTell' /\ Knows(reader)'
  BY TableStands DEF BoardInv
<1> QED BY <1>1 DEF BoardInv, ReaderTyped

LEMMA SomeRows ==
  ASSUME NEW S, S \subseteq Rows, NEW q \in Descending(S), NEW offset \in Nat, NEW take \in Nat \ {0}
  PROVE  /\ Ordered(q, S) /\ Page(q, offset, take) \in Seq(Users) /\ Page(q, offset, take) \in Seq(S)
         /\ \E m \in Nat : IsPage(Page(q, offset, take), q, S, offset, m)
<1>1. Ordered(q, S)
  BY OrderedRows
<1>2. PICK m \in Nat : IsPage(Page(q, offset, take), q, S, offset, m)
  BY <1>1, PageRows
<1>3. Page(q, offset, take) \in Seq(S)
  BY <1>2 DEF IsPage
<1>4. S \subseteq Users
  BY DEF Rows
<1> QED BY <1>1, <1>2, <1>3, <1>4, SeqMonotonic

LEMMA TakePositive == ASSUME NEW limit \in Limits PROVE Take(limit) \in Nat \ {0}
  BY LimitsAssumption DEF Take

LEMMA LastIn == ASSUME NEW S, NEW p \in Seq(S), p # <<>> PROVE Last(p) \in S
  BY EmptySeq DEF Last

LEMMA ReaderOpens ==
  ASSUME NEW pc \in {"reading", "done"}, NEW take \in Nat, NEW c \in Nat, NEW page \in Seq(Users),
         NEW x, x = [pc |-> pc, take |-> take, cursor |-> c, shown |-> page, pages |-> 1,
                     undisturbed |-> TRUE]
  PROVE  x \in Reader /\ x.take = take
  BY Zenon DEF Reader

LEMMA ReaderStops ==
  ASSUME NEW y \in Reader, NEW x, x = [y EXCEPT !.pc = "done", !.cursor = 0]
  PROVE  /\ x \in Reader /\ x.take = y.take /\ x.pc = "done" /\ x.shown = y.shown
         /\ x.undisturbed <=> y.undisturbed
  BY DEF Reader

ShowsMore(x, y, c, s) ==
  \E n \in Nat : x = [y EXCEPT !.cursor = c, !.shown = s, !.pages = n]

LEMMA ReaderGoesOn ==
  ASSUME NEW y \in Reader, y.pc = "reading", NEW c \in Nat, NEW s \in Seq(Users),
         NEW x, ShowsMore(x, y, c, s)
  PROVE  /\ x \in Reader /\ x.take = y.take /\ x.pc = "reading" /\ x.cursor = c /\ x.shown = s
         /\ x.undisturbed <=> y.undisturbed
  BY DEF Reader, ShowsMore

LEMMA BoardOpen == ASSUME BoardInv, Typed', Open PROVE BoardInv'
<1>1. PICK take, page : /\ take \in Nat \ {0} /\ page \in FirstPages(take)
                        /\ reader' = [NotReading EXCEPT
                                        !.pc = IF page = <<>> THEN "done" ELSE "reading",
                                        !.take = take, !.shown = page, !.pages = 1,
                                        !.cursor = IF page = <<>> THEN 0 ELSE id[Last(page)],
                                        !.undisturbed = TRUE]
  BY TakePositive DEF Open
<1>0. PICK pc, c : /\ pc = IF page = <<>> THEN "done" ELSE "reading"
                   /\ c = IF page = <<>> THEN 0 ELSE id[Last(page)]
                   /\ reader' = [NotReading EXCEPT !.pc = pc, !.take = take, !.shown = page,
                                                   !.pages = 1, !.cursor = c, !.undisturbed = TRUE]
  BY <1>1, Zenon
<1>2. PICK x : /\ x = reader'
               /\ x = [pc |-> pc, take |-> take, cursor |-> c, shown |-> page, pages |-> 1,
                       undisturbed |-> TRUE]
  BY <1>0 DEF NotReading
<1>3. PICK q \in Descending(Rows) : page = Page(q, 0, take)
  BY <1>1 DEF FirstPages
<1>4. /\ Ordered(q, Rows) /\ page \in Seq(Users) /\ page \in Seq(Rows)
      /\ \E m \in Nat : IsPage(page, q, Rows, 0, m)
  BY <1>1, <1>3, SomeRows
<1>5. Falling(page) /\ IF page = <<>> THEN Rows = {} ELSE Complete(page)
  BY <1>4, FirstShown DEF BoardInv
<1>6. ReaderTyped'
  <2>1. c \in Nat /\ pc \in {"reading", "done"}
    <3>1. page # <<>> => Last(page) \in Users
      BY <1>4, LastIn
    <3> QED BY <1>0, <3>1 DEF BoardInv, IdsTell
  <2>2. x \in Reader /\ x.take > 0
    <3>1. take \in Nat /\ take > 0
      BY <1>1
    <3>2. x \in Reader /\ x.take = take
      BY <1>2, <1>4, <2>1, <3>1, ReaderOpens
    <3> QED BY <3>1, <3>2
  <2> QED BY <1>2, <2>2 DEF ReaderTyped
<1>7. Knows(x)
  BY <1>0, <1>2, <1>4, <1>5 DEF Knows, Last
<1>8. UNCHANGED <<stats, id, nextId>>
  BY DEF Open, vars
<1>9. IdsTell' /\ Knows(reader)'
  <2>1. IdsTell' /\ Knows(x)'
    BY <1>7, <1>8, TableStands DEF BoardInv
  <2> QED BY <1>2, <2>1 DEF Knows
<1> QED BY <1>6, <1>9 DEF BoardInv

LEMMA BoardTurn == ASSUME BoardInv, Typed', Turn PROVE BoardInv'
<1>1. PICK page : page \in PagesAfter(reader.cursor, reader.take) /\ Shown(page)
  BY DEF Turn
<1>2. PICK S, q : /\ S = From(reader.cursor) /\ q \in Descending(S)
                  /\ page = Page(q, 1, reader.take)
  BY <1>1 DEF PagesAfter
<1>3. /\ reader.pc = "reading" /\ reader.take \in Nat \ {0} /\ S \subseteq Rows
      /\ Typed /\ IdsTell /\ Knows(reader)
  BY <1>2 DEF Turn, BoardInv, ReaderTyped, Reader, From
<1>4. /\ Ordered(q, S) /\ page \in Seq(Users) /\ page \in Seq(S)
      /\ \E m \in Nat : IsPage(page, q, S, 1, m)
  BY <1>2, <1>3, SomeRows
<1>10. reader \in Reader /\ reader.pages + 1 \in Nat
  BY DEF BoardInv, ReaderTyped, Reader
<1>5. PICK x : /\ x = reader'
               /\ x = IF page = <<>> THEN [reader EXCEPT !.pc = "done", !.cursor = 0]
                      ELSE [reader EXCEPT !.cursor = id[Last(page)], !.shown = reader.shown \o page,
                                          !.pages = reader.pages + 1]
  BY <1>1 DEF Shown
<1>11. /\ x \in Reader /\ x.take = reader.take
       /\ x.undisturbed <=> reader.undisturbed
       /\ page = <<>> => x.pc = "done" /\ x.shown = reader.shown
       /\ page # <<>> => /\ x.pc = "reading" /\ x.cursor = id[Last(page)]
                         /\ x.shown = reader.shown \o page
  <2>1. CASE page = <<>>
    BY <1>5, <1>10, <2>1, ReaderStops
  <2>2. CASE page # <<>>
    <3>1. Last(page) \in Users
      BY <1>4, <2>2, LastIn
    <3>2. id[Last(page)] \in Nat /\ reader.shown \o page \in Seq(Users)
      <4>1. reader.shown \in Seq(Users)
        BY <1>10 DEF Reader
      <4> QED BY <1>3, <1>4, <3>1, <4>1, ConcatProperties DEF IdsTell
    <3>3. PICK c \in Nat, s \in Seq(Users) : c = id[Last(page)] /\ s = reader.shown \o page
      BY <3>2
    <3>4. ShowsMore(x, reader, c, s)
      BY <1>5, <1>10, <2>2, <3>3 DEF ShowsMore
    <3>5. /\ x \in Reader /\ x.take = reader.take /\ x.pc = "reading" /\ x.cursor = c /\ x.shown = s
          /\ x.undisturbed <=> reader.undisturbed
      BY <1>3, <1>10, <3>4, ReaderGoesOn
    <3> QED BY <2>2, <3>3, <3>5
  <2> QED BY <2>1, <2>2
<1>6. ReaderTyped'
  BY <1>3, <1>5, <1>11 DEF ReaderTyped
<1>7. Knows(x)
  <2> SUFFICES ASSUME reader.undisturbed PROVE Knows(x)
    BY <1>11 DEF Knows
  <2>1. PICK t : t = reader.shown
    OBVIOUS
  <2>2. /\ t \in Seq(Rows) /\ t # <<>> /\ Falling(t) /\ Complete(t)
        /\ reader.cursor = id[t[Len(t)]] /\ t[Len(t)] \in Rows
    <3>1. /\ t \in Seq(Rows) /\ t # <<>> /\ Falling(t) /\ Complete(t)
          /\ reader.cursor = id[t[Len(t)]]
      BY <1>3, <2>1 DEF Knows
    <3> QED BY <3>1, LastIn DEF Last
  <2>3. S = {u \in Rows : Score(u) <= Score(t[Len(t)])}
    BY <1>2, <1>3, <2>2 DEF From, IdsTell
  <2>4. IF page = <<>> THEN \A u \in Rows : Alone(u) => OnceIn(t, u)
        ELSE /\ t \o page \in Seq(Rows) /\ t \o page # <<>> /\ Falling(t \o page)
             /\ Complete(t \o page)
    BY <1>3, <1>4, <2>2, <2>3, NextShown
  <2>5. CASE page = <<>>
    BY <1>11, <2>1, <2>2, <2>4, <2>5 DEF Knows
  <2>6. CASE page # <<>>
    <3>1. Last(page) = (t \o page)[Len(t \o page)]
      <4>1. page \in Seq(Rows)
        BY <1>3, <1>4, SeqMonotonic
      <4>2. /\ Len(t \o page) = Len(t) + Len(page) /\ Len(t) \in Nat /\ Len(page) \in Nat /\ Len(page) > 0
            /\ \A i \in 1..Len(t) + Len(page) :
                 (t \o page)[i] = IF i <= Len(t) THEN t[i] ELSE page[i - Len(t)]
        BY <2>2, <2>6, <4>1, ConcatProperties, EmptySeq
      <4> QED BY <4>2 DEF Last
    <3> QED BY <1>11, <2>1, <2>4, <2>6, <3>1 DEF Knows
  <2> QED BY <2>5, <2>6
<1>8. UNCHANGED <<stats, id, nextId>>
  BY DEF Turn, vars
<1>9. IdsTell' /\ Knows(reader)'
  <2>1. IdsTell' /\ Knows(x)'
    BY <1>3, <1>7, <1>8, TableStands
  <2> QED BY <1>5, <2>1 DEF Knows
<1> QED BY <1>6, <1>9 DEF BoardInv

LEMMA BoardClose == ASSUME BoardInv, Typed', reader' = NotReading, UNCHANGED <<stats, id, nextId>> PROVE BoardInv'
<1>1. NotReading.undisturbed = FALSE /\ ReaderTyped'
  BY EmptySeq DEF NotReading, ReaderTyped, Reader
<1>2. IdsTell'
  BY TableStands DEF BoardInv
<1> QED BY <1>1, <1>2 DEF BoardInv, Knows

LEMMA BoardStep == BoardInv /\ [BoardNext]_<<vars, id, nextId, reader>> => BoardInv'
<1> SUFFICES ASSUME BoardInv, [BoardNext]_<<vars, id, nextId, reader>> PROVE BoardInv'
  OBVIOUS
<1>1. Typed'
  BY StepOfTables, TypedStep DEF BoardInv
<1>2. CASE Handlers /\ UNCHANGED <<id, nextId, reader>>
  BY <1>1, <1>2, BoardStands DEF Handlers
<1>3. ASSUME NEW j \in Jobs, SnapshotStep(j) PROVE BoardInv'
  BY <1>1, <1>3, BoardSnapshot
<1>4. ASSUME NEW j \in Jobs, (Cron(j) \/ Fail(j)) /\ UNCHANGED <<id, nextId, reader>> PROVE BoardInv'
  BY <1>1, <1>4, BoardStands DEF Cron, Fail
<1>5. CASE Close
  BY <1>1, <1>5, BoardClose DEF Close, vars
<1>6. CASE UNCHANGED <<vars, id, nextId, reader>>
  BY <1>1, <1>6, BoardStands DEF vars
<1> QED BY <1>1, <1>2, <1>3, <1>4, <1>5, <1>6, BoardOpen, BoardTurn DEF BoardNext

LEMMA BoardAtFirst == BoardInit => BoardInv
<1> SUFFICES ASSUME BoardInit PROVE BoardInv
  OBVIOUS
<1>1. Typed
  BY BpInit DEF BoardInit, BpInv
<1>2. Rows = {} /\ IdsTell
  BY DEF BoardInit, Init, NoRow, Rows, IdsTell
<1>3. ReaderTyped /\ reader.undisturbed = FALSE
  BY EmptySeq DEF BoardInit, NotReading, ReaderTyped, Reader
<1> QED BY <1>1, <1>2, <1>3 DEF BoardInv, Knows

LEMMA BoardAlways == BoardSpec => []BoardInv
  BY BoardAtFirst, BoardStep, PTL DEF BoardSpec

\* However many snapshots run, the pages of a reading none of them disturbed continue
\* one another downwards (StatsService.queryStats).
THEOREM PagesFall == BoardSpec => []PagesDescend
<1>1. BoardInv => PagesDescend
  BY DEF BoardInv, Knows, PagesDescend, Falling
<1> QED BY <1>1, BoardAlways, PTL

\* However many snapshots run, a reading none of them disturbed that came to the empty
\* page has shown every row with a score of its own exactly once: the row a page leaves
\* out (OFFSET 1) is, for such a row, the last the reader was shown.
THEOREM PagesShowAll == BoardSpec => []PagesComplete
<1>1. ASSUME NEW t \in Seq(Users), NEW u, OnceIn(t, u)
      PROVE  Cardinality({i \in DOMAIN t : t[i] = u}) = 1
  <2>1. PICK i \in DOMAIN t : \A j \in DOMAIN t : t[j] = u <=> j = i
    BY <1>1 DEF OnceIn
  <2>2. {j \in DOMAIN t : t[j] = u} = {i}
    BY <2>1
  <2> QED BY <2>2, FS_Singleton
<1>2. BoardInv => PagesComplete
  BY <1>1 DEF BoardInv, ReaderTyped, Reader, Knows, PagesComplete, TimesShown
<1> QED BY <1>2, BoardAlways, PTL

==============================================================================
