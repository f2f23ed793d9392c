------------------------------ MODULE PairLadder ------------------------------
(***************************************************************************)
(* What breeding a pair amounts to, seen from outside: a ladder of levels, *)
(* each of which takes its time, is proved by its buds and is paid, and a  *)
(* reward at the top.  A pair is touched by one atomic step at a time;     *)
(* there are no requests, no stale copies and nothing half written.        *)
(* Breeding is shown to implement this module.                             *)
(***************************************************************************)
EXTENDS Integers

CONSTANTS Pairs, TargetLevel

Levels   == 1..TargetLevel
Outcomes == {"COMPLETED", "FAILED", "CANCELED"}

VARIABLES
  status,   \* of the pair: "NONE" before it is made, "PAIRED", or an outcome
  level,    \* the level it stands on, 0 before the first
  since,    \* when it came to that level
  term,     \* the time a level takes it
  proved,   \* the levels whose buds were chosen, each after its time
  paid,     \* the levels it was paid for
  rewards,  \* the Gen1 buds made for it
  now

ladder == <<status, level, since, term, proved, paid, rewards, now>>

Init ==
  /\ status = [p \in Pairs |-> "NONE"]
  /\ level = [p \in Pairs |-> 0]
  /\ since = [p \in Pairs |-> 0]
  /\ term \in [Pairs -> Nat]
  /\ proved = [p \in Pairs |-> {}]
  /\ paid = [p \in Pairs |-> {}]
  /\ rewards = [p \in Pairs |-> 0]
  /\ now = 0

\* Before the pair is made its term is of no account.
Create(p) ==
  /\ status[p] = "NONE"
  /\ status' = [status EXCEPT ![p] = "PAIRED"]
  /\ term' = [term EXCEPT ![p] = term'[p]] /\ term'[p] \in Nat
  /\ UNCHANGED <<level, since, proved, paid, rewards, now>>

Pay(p) ==
  /\ level[p] \in Levels
  /\ paid' = [paid EXCEPT ![p] = @ \union {level[p]}]
  /\ UNCHANGED <<status, level, since, term, proved, rewards, now>>

\* Not before the time of the level is over.
Prove(p) ==
  /\ level[p] \in Levels
  /\ now - since[p] >= term[p]
  /\ proved' = [proved EXCEPT ![p] = @ \union {level[p]}]
  /\ UNCHANGED <<status, level, since, term, paid, rewards, now>>

\* One level up from a level proved and paid, the first one for nothing.  The new
\* level may have started a while ago, but not before the old one's time was over.
\* A pair that climbs beyond the last level has no time there.
Climb(p) ==
  /\ status[p] # "NONE" /\ level[p] <= TargetLevel
  /\ level[p] > 0 => level[p] \in proved[p] /\ level[p] \in paid[p]
  /\ level' = [level EXCEPT ![p] = @ + 1]
  /\ \E t \in 0..now :
       /\ level[p] \in 1..(TargetLevel - 1) => t - since[p] >= term[p]
       /\ level[p] = TargetLevel => t = 0
       /\ since' = [since EXCEPT ![p] = t]
  /\ UNCHANGED <<status, term, proved, paid, rewards, now>>

\* Several pairs may come to the same end at once; success takes the whole ladder.
Settle(some, outcome) ==
  /\ \A p \in some :
       /\ status[p] # "NONE"
       /\ outcome = "COMPLETED" => TargetLevel \in proved[p]
  /\ status' = [p \in Pairs |-> IF p \in some THEN outcome ELSE status[p]]
  /\ UNCHANGED <<level, since, term, proved, paid, rewards, now>>

Reward(p) ==
  /\ TargetLevel \in proved[p]
  /\ rewards' = [rewards EXCEPT ![p] = @ + 1]
  /\ UNCHANGED <<status, level, since, term, proved, paid, now>>

Tick ==
  /\ now' = now + 1
  /\ UNCHANGED <<status, level, since, term, proved, paid, rewards>>

Next ==
  \/ \E p \in Pairs : Create(p) \/ Pay(p) \/ Prove(p) \/ Climb(p) \/ Reward(p)
  \/ \E some \in SUBSET Pairs, outcome \in Outcomes : Settle(some, outcome)
  \/ Tick

Spec == Init /\ [][Next]_ladder

=============================================================================
