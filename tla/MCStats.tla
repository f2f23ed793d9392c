------------------------------- MODULE MCStats -------------------------------
(* A small instance of Stats for TLC. *)
EXTENDS Stats, TLC

CONSTANTS u1, u2, p1, p2, j1

\* A level takes a pair 24 hours, one with a Superweed Serum 19.2 hours.
Rates == [p \in Pairs |-> IF p = p1 THEN 240 ELSE 192]

=============================================================================
