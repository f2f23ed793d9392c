------------------------------ MODULE MCLedger ------------------------------
(* Small instances of Ledger for TLC.  The prices and amounts are those of  *)
(* config/app.config.ts: opening a slot 42 points, indoor 69, a land 140.    *)
EXTENDS Ledger, TLC

CONSTANTS u1, u2, k1, k2, t1, t2, t3, t4, t5, r1, r2

Event(t, type, u, amount) == [tx |-> t, type |-> type, user |-> u, amount |-> amount]

\* A deposit that buys a land or some slots.
Deposits == {Event(t1, "DEPOSIT_BP", u1, 14000)}

\* A part of it withdrawn.
InAndOut == Deposits \union {Event(t2, "WITHDRAW_BP", u1, 4200)}

\* The same with a withdrawal that the deposit does not cover as well, a deposit that
\* is no whole number of points, and a burn.
AllKinds == InAndOut \union {Event(t3, "WITHDRAW_BP", u1, 9900),
                             Event(t4, "DEPOSIT_BP", u1, 150), Event(t5, "BURN_GEN0", u1, 0)}

ReqSymmetry == Permutations(Reqs)

=============================================================================
