----------------------------- MODULE MCPayments -----------------------------
(* Instances of Payments for TLC: one invoice of two units.                 *)
EXTENDS Payments, TLC

CONSTANTS p1, p2, r1, r2

OnePayment == {p1}
TwoPayments == {p1, p2}
OneRequest == {r1}
TwoRequests == {r1, r2}
Symmetry == Permutations(Payments) \cup Permutations(Requests)
=============================================================================
