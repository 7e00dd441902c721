-------------------------- MODULE PaymentContract --------------------------
(***************************************************************************)
(* What the platform promises about the payment of a shipment: one account *)
(* per shipment, opened once and settled once, paid or failed for good.    *)
(***************************************************************************)
CONSTANT Shipments

VARIABLE account

Init == account = [s \in Shipments |-> "unpaid"]

Open(s) ==
  /\ account[s] = "unpaid"
  /\ account' = [account EXCEPT ![s] = "pending"]

Settle(s) ==
  /\ account[s] = "pending"
  /\ \E outcome \in {"paid", "failed"} : account' = [account EXCEPT ![s] = outcome]

Next == \E s \in Shipments : Open(s) \/ Settle(s)

Spec == Init /\ [][Next]_account
=============================================================================
