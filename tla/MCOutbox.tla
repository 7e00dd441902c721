------------------------------ MODULE MCOutbox ------------------------------
EXTENDS Outbox, TLC

(* Events are interchangeable, and so are worker slots.                    *)
Symmetry == Permutations(Events) \cup Permutations(Workers)
=============================================================================
