------------------------- MODULE MCAnalyticsCache -------------------------
EXTENDS AnalyticsCache, TLC

(* Dashboard requests and mutations are interchangeable.                   *)
Symmetry == Permutations(Readers) \cup Permutations(Writers)
=============================================================================
