-------------------------- MODULE MCClientSession --------------------------
EXTENDS ClientSession, TLC

(* Tabs and calls are interchangeable.                                     *)
Symmetry == Permutations(Tabs) \cup Permutations(Calls)
=============================================================================
