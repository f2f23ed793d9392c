----------------------------- MODULE MCBreeding -----------------------------
(* Small instances of Breeding for TLC. *)
EXTENDS Breeding, TLC, FiniteSetsExt

CONSTANTS u1, u2, s1, s2, key1, r1, r2, pass, serum

\* Every slot belongs to u1 unless the instance has two users.
OneOwner  == [s \in Slots |-> u1]
TwoOwners == [s \in Slots |-> IF s = s1 THEN u1 ELSE u2]

FreeKeys  == [s \in Slots |-> None]
Keyed     == [s \in Slots |-> IF s = s1 THEN key1 ELSE None]

AllOpen   == [s \in Slots |-> TRUE]
OneClosed == [s \in Slots |-> s # s2]

NoItems   == [u \in Users |-> [i \in Items |-> 0]]
OneEach   == [u \in Users |-> [i \in Items |-> IF u = u1 THEN 1 ELSE 0]]

\* Bonus rates may be negative; cfg files have no negative numbers.
WithLoss  == {-1, 0}

ReqSymmetry == Permutations(Reqs)
BudSymmetry == Permutations(MaleBuds) \union Permutations(FemaleBuds)

=============================================================================
