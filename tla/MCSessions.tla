----------------------------- MODULE MCSessions -----------------------------
EXTENDS Sessions, TLC

(* Accounts are interchangeable, and so are request slots.                 *)
Symmetry == Permutations(Users) \cup Permutations(Requests)
=============================================================================
