-------------------------------- MODULE Stats --------------------------------
(***************************************************************************)
(* The hourly snapshot behind the leaderboard (StatsService): a cron job   *)
(* empties the table Stats and fills it again by seven statements over     *)
(* BreedPair, BreedSlot and EventServiceLog, while the handlers of those   *)
(* tables go on.  Nothing locks the tables, no transaction holds the       *)
(* statements together, and a statement may throw and end the job.         *)
(*                                                                         *)
(* The tables are reduced to what the statements read: a pair's user,      *)
(* status and currentLevel, and how many indoor slots and logged burns an  *)
(* address has.  A null column is 0, as the score coalesces it to.         *)
(***************************************************************************)
EXTENDS Integers, Sequences, FiniteSets, Functions

CONSTANTS
  Users, Pairs,
  LevelPrice,      \* 15 in the statement
  IndoorPrice,     \* 69 in the statement
  TenthsPerLevel,  \* of an hour, by the date and the game item of the pair
  TargetLevel,     \* 5 in the statement
  Jobs,            \* snapshots that may run at one time
  MaxEvents,       \* bound: indoor slots and burns together
  MaxFailures,     \* bound: failing statements
  None

ASSUME NoneAssumption  == None \notin Users
ASSUME FiniteAssumption == IsFiniteSet(Pairs)
ASSUME RatesAssumption  == /\ LevelPrice \in Nat /\ IndoorPrice \in Nat \ {0}
                           /\ TenthsPerLevel \in [Pairs -> Nat]
ASSUME BoundsAssumption == /\ MaxEvents \in Nat /\ MaxFailures \in Nat
                           /\ TargetLevel \in Nat \ {0}

VARIABLES
  pair,      \* table BreedPair
  indoor,    \* table BreedSlot: rows of type INDOOR by userAddress
  burns,     \* table EventServiceLog: rows of type BURN_GEN0 by address
  stats,     \* table Stats by its unique address
  job,       \* the place in Order of the statement a job executes next, 0 between jobs
  failures,  \* how many statements have failed
  steady     \* history: the jobs in whose snapshot no table has changed

tables == <<pair, indoor, burns>>
vars   == <<pair, indoor, burns, stats, job, failures, steady>>

NoPair  == [user |-> None, status |-> "NONE", level |-> 0]
NoRow   == [exists |-> FALSE, success |-> 0, failure |-> 0, cancels |-> 0,
            hours |-> 0, bp |-> 0, land |-> 0, burned |-> 0]

Init ==
  /\ pair = [p \in Pairs |-> NoPair]
  /\ indoor = [u \in Users |-> 0]
  /\ burns = [u \in Users |-> 0]
  /\ stats = [u \in Users |-> NoRow]
  /\ job = [j \in Jobs |-> 0]
  /\ failures = 0
  /\ steady = {}

-----------------------------------------------------------------------------
(* What the handlers do to the tables meanwhile.  Overlapping handlers that *)
(* write over each other's status are left to Breeding.                      *)

\* A change ends the steadiness of every snapshot, running or complete.
Changed == steady' = {}

\* createPair inserts level 0; startBreedLevel writes 1 later, a Climb like the others.
Create ==
  \E p \in Pairs, u \in Users :
    /\ pair[p].status = "NONE"
    /\ pair' = [pair EXCEPT ![p] = [user |-> u, status |-> "PAIRED", level |-> 0]]
    /\ UNCHANGED <<indoor, burns>>

Climb ==
  \E p \in Pairs :
    /\ pair[p].status = "PAIRED" /\ pair[p].level <= TargetLevel
    /\ pair' = [pair EXCEPT ![p].level = @ + 1]
    /\ UNCHANGED <<indoor, burns>>

\* finalize, cancel and the invalidations; invalidate-slots fails any pair.
Settle ==
  \E p \in Pairs, status \in {"COMPLETED", "FAILED", "CANCELED"} :
    /\ \/ pair[p].status = "PAIRED" /\ (status = "COMPLETED" => pair[p].level = TargetLevel)
       \/ pair[p].status \in {"COMPLETED", "CANCELED"} /\ status = "FAILED"
    /\ pair' = [pair EXCEPT ![p].status = status]
    /\ UNCHANGED <<indoor, burns>>

RoomForEvent == SumFunctionOnSet([u \in Users |-> indoor[u] + burns[u]], Users) < MaxEvents

ConvertIndoor ==
  \E u \in Users :
    /\ RoomForEvent
    /\ indoor' = [indoor EXCEPT ![u] = @ + 1]
    /\ UNCHANGED <<pair, burns>>

Burn ==
  \E u \in Users :
    /\ RoomForEvent
    /\ burns' = [burns EXCEPT ![u] = @ + 1]
    /\ UNCHANGED <<pair, indoor>>

Handlers ==
  /\ Create \/ Climb \/ Settle \/ ConvertIndoor \/ Burn
  /\ Changed
  /\ UNCHANGED <<stats, job, failures>>

-----------------------------------------------------------------------------
(* The statements *)

PairsOf(u)           == {p \in Pairs : pair[p].user = u}
WithStatus(u, status) == {p \in PairsOf(u) : pair[p].status = status}

Success(u)  == Cardinality(WithStatus(u, "COMPLETED"))
\* Only a pair that failed at the target level counts as a failed breeding.
Failure(u)  ==
  Cardinality({p \in WithStatus(u, "FAILED") : pair[p].level = TargetLevel})
Cancels(u)  == Cardinality(WithStatus(u, "CANCELED"))
Tenths(u)   ==
  SumFunctionOnSet([p \in PairsOf(u) |-> pair[p].level * TenthsPerLevel[p]], PairsOf(u))
\* The sum is rounded to the integer of the column, once per address.
Hours(u)    == (Tenths(u) + 5) \div 10
BpSpent(u)  == SumFunctionOnSet([p \in PairsOf(u) |-> pair[p].level * LevelPrice], PairsOf(u))

\* The one statement that adds to what the column holds.
BpTotal(u) == stats[u].bp + BpSpent(u)

\* A statement is named by the column it fills.  What it selects for an address...
Value(column, u) ==
  CASE column = "success" -> Success(u)
    [] column = "failure" -> Failure(u)
    [] column = "cancels" -> Cancels(u)
    [] column = "hours"   -> Hours(u)
    [] column = "bp"      -> BpTotal(u)
    [] column = "land"    -> indoor[u] * IndoorPrice
    [] column = "burned"  -> 2 * burns[u]

\* ... and the addresses it selects: those with a row of its source (GROUP BY).
Sources(column) ==
  {u \in Users : IF column \in {"hours", "bp"} THEN PairsOf(u) # {} ELSE Value(column, u) > 0}

Overwritten(u, column) == [NoRow EXCEPT !.exists = TRUE, ![column] = Value(column, u)]

\* INSERT ... ON CONFLICT ("address") DO UPDATE: the other columns stay.
Upserted(u, column) == [stats[u] EXCEPT !.exists = TRUE, ![column] = Value(column, u)]

Fill(column) ==
  stats' = [u \in Users |-> IF u \in Sources(column) THEN Upserted(u, column) ELSE stats[u]]

TruncateNothing == stats' = stats

Truncate == stats' = [u \in Users |-> NoRow]

Execute(statement) == IF statement = "truncate" THEN Truncate ELSE Fill(statement)

OrderWithoutLand == <<"truncate", "success", "failure", "cancels", "hours", "bp", "burned">>

\* snapshotBreeding
Order == <<"truncate", "success", "failure", "cancels", "hours", "bp", "land", "burned">>

\* The schedule of the job; it does not ask whether the last one has ended.
Cron(j) ==
  /\ job[j] = 0
  /\ job' = [job EXCEPT ![j] = 1]
  /\ steady' = steady \union {j}
  /\ UNCHANGED <<tables, stats, failures>>

Continue(j) ==
  /\ job[j] # 0
  /\ Execute(Order[job[j]])
  /\ job' = [job EXCEPT ![j] = IF @ = Len(Order) THEN 0 ELSE @ + 1]
  /\ UNCHANGED <<tables, failures, steady>>

Fail(j) ==
  /\ job[j] # 0 /\ failures < MaxFailures
  /\ job' = [job EXCEPT ![j] = 0]
  /\ failures' = failures + 1
  /\ steady' = steady \ {j}
  /\ UNCHANGED <<tables, stats>>

Next == Handlers \/ \E j \in Jobs : Cron(j) \/ Continue(j) \/ Fail(j)

Spec == Init /\ [][Next]_vars

\* The scheduler fires every hour and the event loop resumes every statement.
FairSpec == Spec /\ \A j \in Jobs : WF_vars(Cron(j)) /\ WF_vars(Continue(j))

-----------------------------------------------------------------------------
(* Properties of one job at a time *)

\* A user's breeding points are never shown as more than their pairs add up to:
\* the adding statement only ever meets the table its own job has emptied, also
\* after a job that failed half way (snapshotBreeding, snapshotSpentBPsForBreeding).
BpNeverDoubled == \A u \in Users : stats[u].bp <= BpSpent(u)

Exact(u) ==
  /\ stats[u].success = Success(u) /\ stats[u].failure = Failure(u)
  /\ stats[u].cancels = Cancels(u) /\ stats[u].hours = Hours(u)
  /\ stats[u].bp = BpSpent(u)
  /\ stats[u].land = indoor[u] * IndoorPrice /\ stats[u].burned = 2 * burns[u]
  /\ stats[u].exists <=> PairsOf(u) # {} \/ indoor[u] > 0 \/ burns[u] > 0

\* A snapshot that ran through while no table changed shows every address its own
\* numbers, in all columns, whatever an earlier job had left in the table.
SnapshotExact ==
  \A j \in Jobs : j \in steady /\ job[j] = 0 => \A u \in Users : Exact(u)

\* The leaderboard catches up: however jobs failed and tables changed before, it is
\* exact again and again once they no longer do.
CatchesUp == []<>(\A u \in Users : Exact(u))

=============================================================================
