-------------------------- MODULE ShipmentContract --------------------------
(***************************************************************************)
(* What the platform promises about a shipment, with every operation one   *)
(* atomic step: it is created pending and without a driver, assigned once, *)
(* progressed one stage at a time, and cancelled for good.                 *)
(***************************************************************************)
CONSTANTS Shipments, Shippers, Drivers, NoUser

VARIABLES state, owner, carrier

contractVars == <<state, owner, carrier>>

Stages == {<<"assigned", "picked_up">>, <<"picked_up", "in_transit">>,
           <<"in_transit", "delivered">>}

Init ==
  /\ state = [s \in Shipments |-> "absent"]
  /\ owner = [s \in Shipments |-> NoUser]
  /\ carrier = [s \in Shipments |-> NoUser]

Creation(s) ==
  /\ state[s] = "absent"
  /\ state' = [state EXCEPT ![s] = "pending"]
  /\ \E u \in Shippers : owner' = [owner EXCEPT ![s] = u]
  /\ UNCHANGED carrier

Assignment(s) ==
  /\ state[s] = "pending" /\ carrier[s] = NoUser
  /\ state' = [state EXCEPT ![s] = "assigned"]
  /\ \E d \in Drivers : carrier' = [carrier EXCEPT ![s] = d]
  /\ UNCHANGED owner

Progress(s) ==
  /\ \E stage \in Stages : state[s] = stage[1] /\ state' = [state EXCEPT ![s] = stage[2]]
  /\ carrier[s] \in Drivers
  /\ UNCHANGED <<owner, carrier>>

Cancellation(s) ==
  /\ state[s] \notin {"absent", "cancelled"}
  /\ state' = [state EXCEPT ![s] = "cancelled"]
  /\ UNCHANGED <<owner, carrier>>

Next == \E s \in Shipments :
          Creation(s) \/ Assignment(s) \/ Progress(s) \/ Cancellation(s)

Spec == Init /\ [][Next]_contractVars
=============================================================================
