--------------------------- MODULE MCLeaderboard ---------------------------
(* A small instance of Leaderboard for TLC: the scores are those of indoor  *)
(* slots and burns, the addresses have no pairs.                            *)
EXTENDS Leaderboard, TLC

CONSTANTS u1, u2, u3, j1

NoPairs == [p \in Pairs |-> 0]

UserSymmetry == Permutations(Users)

=============================================================================
