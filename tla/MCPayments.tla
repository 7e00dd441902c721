----------------------------- MODULE MCPayments -----------------------------
EXTENDS Payments, TLC

Symmetry == Permutations(Requests) \cup Permutations(PaymentIds)
=============================================================================
