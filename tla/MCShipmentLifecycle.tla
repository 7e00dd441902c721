------------------------ MODULE MCShipmentLifecycle ------------------------
EXTENDS ShipmentLifecycle, TLC

(* Request slots are interchangeable, and so are drivers.                  *)
Symmetry == Permutations(Requests) \cup Permutations(Drivers)

=============================================================================
