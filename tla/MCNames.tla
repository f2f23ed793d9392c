------------------------------ MODULE MCNames ------------------------------
(* A small instance of Names for TLC. *)
EXTENDS Names, TLC

CONSTANTS u1, n1, n2, n3, r1, r2

Symmetry == Permutations(Reqs) \union Permutations(Names \ Drawn)

=============================================================================
