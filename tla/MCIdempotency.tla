--------------------------- MODULE MCIdempotency ---------------------------
EXTENDS Idempotency, TLC

(* Requests and keys are interchangeable.                                  *)
Symmetry == Permutations(Requests) \cup Permutations(Keys)
=============================================================================
