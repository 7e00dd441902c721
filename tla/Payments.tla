------------------------------ MODULE Payments ------------------------------
(***************************************************************************)
(* Initiating and confirming payments.  A payment document and the         *)
(* paymentStatus of its shipment are written in one MongoDB transaction,   *)
(* but the handlers' guards are read before it begins.  A transaction sees *)
(* the documents as they were at its first operation, and an operation on  *)
(* a document that somebody else has written since, or is writing in an    *)
(* open transaction, aborts it with a write conflict; withTransaction then *)
(* runs the callback again.                                                *)
(***************************************************************************)
EXTENDS Naturals, FiniteSets

CONSTANTS Shipments,   \* shipment ids, all owned by the shippers that pay
          PaymentIds,  \* ids that new payment documents may get
          Requests,    \* slots of concurrent requests
          None         \* a missing shipment or payment

ASSUME NoneAssumption == None \notin Shipments \cup PaymentIds

VARIABLES
  payment,        \* payment id -> its shipment and status
  paymentStatus,  \* shipment -> its paymentStatus field
  req,            \* slot -> the handler running in it
  audited         \* the payment.confirmed audit jobs

vars == <<payment, paymentStatus, req, audited>>

PaymentStatuses == {"pending", "paid", "failed"}
NoPayment == [shipment |-> None, status |-> "pending"]

(* "arrived": the guards are still to be read.  "checked": they hold, and  *)
(* the transaction is about to run its callback.  "written": its first     *)
(* write, on the payment, is made.  "synced": so is its second, on the     *)
(* shipment.  "committed": the transaction has ended.                      *)
Phases == {"idle", "arrived", "checked", "written", "synced", "committed"}
InTransaction == {"written", "synced"}

Outcomes == {"paid", "failed"}

Handlers ==
  [pc : Phases, op : {"initiate", "confirm"}, shipment : Shipments \cup {None},
   payment : PaymentIds \cup {None}, outcome : Outcomes, stale : BOOLEAN]

Idle == [pc |-> "idle", op |-> "initiate", shipment |-> None,
         payment |-> None, outcome |-> "paid", stale |-> FALSE]

TypeOK ==
  /\ payment \in [PaymentIds -> [shipment : Shipments \cup {None}, status : PaymentStatuses]]
  /\ paymentStatus \in [Shipments -> PaymentStatuses \cup {"unpaid"}]
  /\ req \in [Requests -> Handlers]
  /\ audited \in SUBSET [payment : PaymentIds, status : Outcomes]

Init ==
  /\ payment = [p \in PaymentIds |-> NoPayment]
  /\ paymentStatus = [s \in Shipments |-> "unpaid"]
  /\ req = [r \in Requests |-> Idle]
  /\ audited = {}

----------------------------------------------------------------------------
Exists(p) == payment[p].shipment # None
PaymentOf(s) == {p \in PaymentIds : payment[p].shipment = s}

Serving(r, op, pc) == req[r].op = op /\ req[r].pc = pc
Goes(r, pc) == req' = [req EXCEPT ![r].pc = pc]
Responds(r) == req' = [req EXCEPT ![r] = Idle]
Documents == <<payment, paymentStatus>>

(* What open transactions other than r's have written.                     *)
ShipmentHeld(s, r) ==
  \E q \in Requests \ {r} : req[q].pc = "synced" /\ req[q].shipment = s
PaymentHeld(p, r) ==
  \E q \in Requests \ {r} : req[q].pc \in InTransaction /\ req[q].payment = p
IndexKeyHeld(s, r) ==
  \E q \in Requests \ {r} : Serving(q, "initiate", req[q].pc)
                            /\ req[q].pc \in InTransaction /\ req[q].shipment = s

(* A write conflict: the callback runs again, on a new snapshot.           *)
Conflict(r) ==
  /\ req' = [req EXCEPT ![r] = [@ EXCEPT !.pc = "checked", !.stale = FALSE,
               !.payment = IF req[r].op = "initiate" THEN None ELSE req[r].payment]]
  /\ UNCHANGED <<Documents, audited>>

(* A committed change of shipment s makes the snapshots of the other open  *)
(* transactions on it stale.                                               *)
Ages(s, q) == req[q].pc = "written" /\ req[q].shipment = s

----------------------------------------------------------------------------
(* initiatePayment                                                         *)

ArriveInitiate(r, s) ==
  /\ req[r] = Idle
  /\ req' = [req EXCEPT ![r] = [Idle EXCEPT !.pc = "arrived", !.shipment = s]]
  /\ UNCHANGED <<Documents, audited>>

(* 409 when the shipment has a payment.  This read is not in the           *)
(* transaction.                                                            *)
CheckInitiate(r) ==
  /\ Serving(r, "initiate", "arrived")
  /\ IF PaymentOf(req[r].shipment) = {} THEN Goes(r, "checked") ELSE Responds(r)
  /\ UNCHANGED <<Documents, audited>>

(* MUTANT: Payment.shipment has no unique index.                           *)
InsertNotUnique(r) ==
  LET s == req[r].shipment IN
  /\ Serving(r, "initiate", "checked")
  /\ \E p \in PaymentIds :
       /\ ~ Exists(p) /\ ~ PaymentHeld(p, r)
       /\ req' = [req EXCEPT ![r] = [@ EXCEPT !.pc = "written", !.payment = p]]
  /\ UNCHANGED <<Documents, audited>>

(* Payment.create, in the transaction: a duplicate key ends it with 409, a *)
(* key that an open transaction is inserting is a conflict.                *)
Insert(r) ==
  LET s == req[r].shipment IN
  /\ Serving(r, "initiate", "checked")
  /\ \/ /\ PaymentOf(s) # {}
        /\ Responds(r)
     \/ /\ PaymentOf(s) = {} /\ ~ IndexKeyHeld(s, r)
        /\ \E p \in PaymentIds :
             /\ ~ Exists(p) /\ ~ PaymentHeld(p, r)
             /\ req' = [req EXCEPT ![r] = [@ EXCEPT !.pc = "written", !.payment = p]]
  /\ UNCHANGED <<Documents, audited>>

InsertConflict(r) ==
  /\ Serving(r, "initiate", "checked")
  /\ PaymentOf(req[r].shipment) = {} /\ IndexKeyHeld(req[r].shipment, r)
  /\ Conflict(r)

(* Shipment.findByIdAndUpdate, without a condition on paymentStatus.       *)
SyncInitiate(r) ==
  LET s == req[r].shipment IN
  /\ Serving(r, "initiate", "written")
  /\ IF req[r].stale \/ ShipmentHeld(s, r)
     THEN Conflict(r)
     ELSE Goes(r, "synced") /\ UNCHANGED <<Documents, audited>>

----------------------------------------------------------------------------
(* confirmPayment                                                          *)

ArriveConfirm(r, p, outcome) ==
  /\ req[r] = Idle
  /\ req' = [req EXCEPT ![r] = [Idle EXCEPT !.pc = "arrived", !.op = "confirm",
                                !.payment = p, !.outcome = outcome]]
  /\ UNCHANGED <<Documents, audited>>

(* 404 when there is no such payment, 400 when it is settled.  This read   *)
(* is not in the transaction.                                              *)
CheckConfirm(r) ==
  LET p == req[r].payment IN
  /\ Serving(r, "confirm", "arrived")
  /\ IF Exists(p) /\ payment[p].status = "pending"
     THEN req' = [req EXCEPT ![r] = [@ EXCEPT !.pc = "checked",
                                              !.shipment = payment[p].shipment]]
     ELSE Responds(r)
  /\ UNCHANGED <<Documents, audited>>

(* findOneAndUpdate of the pending payment, the transaction's first        *)
(* operation: no match throws, and the handler answers 500.                *)
Settle(r) ==
  LET p == req[r].payment IN
  /\ Serving(r, "confirm", "checked")
  /\ IF payment[p].status # "pending"
     THEN Responds(r) /\ UNCHANGED <<Documents, audited>>
     ELSE IF PaymentHeld(p, r)
     THEN Conflict(r)
     ELSE Goes(r, "written") /\ UNCHANGED <<Documents, audited>>

(* Shipment.updateOne where paymentStatus is pending: no match throws.     *)
SyncConfirm(r) ==
  LET s == req[r].shipment IN
  /\ Serving(r, "confirm", "written")
  /\ IF req[r].stale \/ ShipmentHeld(s, r)
     THEN Conflict(r)
     ELSE /\ IF paymentStatus[s] = "pending" THEN Goes(r, "synced") ELSE Responds(r)
          /\ UNCHANGED <<Documents, audited>>

----------------------------------------------------------------------------
(* What a request makes of the two documents.                              *)
NewStatus(r) == IF req[r].op = "initiate" THEN "pending" ELSE req[r].outcome

(* MUTANT: two updates without a transaction, and a crash may separate     *)
(* them.                                                                   *)
CommitHalf(r) ==
  /\ req[r].pc = "synced"
  /\ payment' = [payment EXCEPT ![req[r].payment] =
                   [shipment |-> req[r].shipment, status |-> NewStatus(r)]]
  /\ paymentStatus' \in {paymentStatus, [paymentStatus EXCEPT ![req[r].shipment] = NewStatus(r)]}
  /\ Goes(r, "committed")
  /\ UNCHANGED audited

(* Both writes become visible at once, and the snapshots of the open       *)
(* transactions on this shipment are now old.                              *)
Commit(r) ==
  LET s == req[r].shipment IN
  /\ req[r].pc = "synced"
  /\ payment' = [payment EXCEPT ![req[r].payment] =
                   [shipment |-> s, status |-> NewStatus(r)]]
  /\ paymentStatus' = [paymentStatus EXCEPT ![s] = NewStatus(r)]
  /\ req' = [q \in Requests |->
               IF q = r THEN [req[q] EXCEPT !.pc = "committed"]
               ELSE IF Ages(s, q) THEN [req[q] EXCEPT !.stale = TRUE] ELSE req[q]]
  /\ UNCHANGED audited

(* confirmPayment records the audit event and both respond.                *)
Respond(r) ==
  /\ req[r].pc = "committed"
  /\ audited' = IF req[r].op = "confirm"
                THEN audited \cup {[payment |-> req[r].payment, status |-> req[r].outcome]}
                ELSE audited
  /\ Responds(r)
  /\ UNCHANGED Documents

(* The process dies, or MongoDB refuses an operation: an open transaction  *)
(* leaves nothing, a committed one stays.                                  *)
Fail(r) ==
  /\ req[r].pc # "idle"
  /\ Responds(r)
  /\ UNCHANGED <<Documents, audited>>

(* A write of the shipment by another handler (assignment, progression,    *)
(* cancellation), outside any transaction.  It touches no payment field,   *)
(* and waits while a transaction holds the document.                       *)
OtherWrite(s) ==
  /\ ~ \E q \in Requests : req[q].pc = "synced" /\ req[q].shipment = s
  /\ \E q \in Requests : Ages(s, q)
  /\ req' = [q \in Requests |->
               IF Ages(s, q) THEN [req[q] EXCEPT !.stale = TRUE] ELSE req[q]]
  /\ UNCHANGED <<Documents, audited>>

Proceed(r) ==
  \/ CheckInitiate(r) \/ Insert(r) \/ InsertConflict(r) \/ SyncInitiate(r)
  \/ CheckConfirm(r) \/ Settle(r) \/ SyncConfirm(r)
  \/ Commit(r) \/ Respond(r)

Next ==
  \/ \E r \in Requests :
       \/ \E s \in Shipments : ArriveInitiate(r, s)
       \/ \E p \in PaymentIds, o \in Outcomes : ArriveConfirm(r, p, o)
       \/ Proceed(r) \/ Fail(r)
  \/ \E s \in Shipments : OtherWrite(s)

Spec == Init /\ [][Next]_vars

----------------------------------------------------------------------------
(* Properties                                                              *)

(* A shipment has at most one payment, although two requests may both have *)
(* read that there is none.                                                *)
OnePaymentPerShipment == \A s \in Shipments : Cardinality(PaymentOf(s)) <= 1

(* paymentStatus on the shipment always matches the status of its payment, *)
(* and is unpaid without one.                                              *)
StatusesMatch ==
  \A s \in Shipments :
    /\ PaymentOf(s) = {} => paymentStatus[s] = "unpaid"
    /\ \A p \in PaymentOf(s) : paymentStatus[s] = payment[p].status

(* A confirmation that reaches its commit still has a pending payment and  *)
(* a pending shipment under it, and nobody else is about to commit on it:  *)
(* two confirmations with different outcomes never both succeed.           *)
CommitsAreCurrent ==
  \A r \in Requests : req[r].pc = "synced" =>
    /\ req[r].op = "confirm" =>
         /\ payment[req[r].payment] = [shipment |-> req[r].shipment, status |-> "pending"]
         /\ paymentStatus[req[r].shipment] = "pending"
    /\ req[r].op = "initiate" => PaymentOf(req[r].shipment) = {}
    /\ ~ ShipmentHeld(req[r].shipment, r)

(* The audit log never tells two outcomes of one payment, nor one that the *)
(* payment does not have.                                                  *)
AuditTellsTheOutcome == \A a \in audited : payment[a.payment].status = a.status

(* Money once settled stays settled, and an open payment is never dropped. *)
SettledIsFinal ==
  [][\A p \in PaymentIds : Exists(p) =>
       /\ payment'[p].shipment = payment[p].shipment
       /\ payment[p].status # "pending" => payment'[p].status = payment[p].status]_vars

(* The contract, read off the shipment's field.                            *)
Contract == INSTANCE PaymentContract WITH account <- paymentStatus

ImplementsContract == Contract!Spec
=============================================================================
