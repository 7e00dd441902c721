--------------------------- MODULE PaymentsProofs ---------------------------
(***************************************************************************)
(* Theorems about Payments, for every number of shipments, payment ids and *)
(* concurrent requests.  The inductive invariant says what a request knows *)
(* at each of its steps, and that open transactions do not overlap on a    *)
(* shipment.                                                               *)
(***************************************************************************)
EXTENDS Payments, FiniteSetTheorems, TLAPS

(* What a request knows: a confirmation past its check serves an existing  *)
(* payment of its shipment, in a transaction a pending one; an initiation  *)
(* in a transaction inserts a free id for a shipment without payment.      *)
Knows(r) ==
  /\ req[r].op = "initiate" /\ req[r].pc # "idle" => req[r].shipment \in Shipments
  /\ req[r].op = "confirm" /\ req[r].pc # "idle" => req[r].payment \in PaymentIds
  /\ req[r].op = "confirm" /\ req[r].pc \in {"checked", "written", "synced", "committed"} =>
       /\ req[r].shipment \in Shipments
       /\ payment[req[r].payment].shipment = req[r].shipment
  /\ req[r].op = "confirm" /\ req[r].pc \in InTransaction =>
       payment[req[r].payment].status = "pending"
  /\ req[r].op = "confirm" /\ req[r].pc = "committed" =>
       payment[req[r].payment].status = req[r].outcome
  /\ req[r].op = "initiate" /\ req[r].pc \in InTransaction =>
       /\ req[r].payment \in PaymentIds /\ ~ Exists(req[r].payment)
       /\ PaymentOf(req[r].shipment) = {}

(* Two open transactions share neither a shipment nor a payment.           *)
Apart(q, r) ==
  req[q].pc \in InTransaction /\ req[r].pc \in InTransaction /\ q # r =>
    req[q].shipment # req[r].shipment /\ req[q].payment # req[r].payment

Unique ==
  \A p, q \in PaymentIds : Exists(p) /\ payment[q].shipment = payment[p].shipment => p = q

Blank == \A p \in PaymentIds : ~ Exists(p) => payment[p].status = "pending"

Inv ==
  /\ TypeOK
  /\ Blank
  /\ \A r \in Requests : Knows(r)
  /\ \A q, r \in Requests : Apart(q, r)
  /\ Unique
  /\ StatusesMatch
  /\ AuditTellsTheOutcome

(* The invariant holds before the first request.                           *)
LEMMA InitInv == Init => Inv
  BY NoneAssumption
     DEF Init, Inv, Blank, TypeOK, Knows, Apart, Unique, StatusesMatch, AuditTellsTheOutcome, Idle,
         Handlers, Phases, Outcomes, PaymentStatuses, NoPayment, Exists, PaymentOf, InTransaction

(* A step of one request that leaves the documents and the audit log alone *)
(* keeps the invariant if that request still knows what it should and, if  *)
(* it is now in a transaction, keeps apart from the others.                *)
LEMMA LocalStep ==
  ASSUME Inv, NEW r \in Requests, NEW h \in Handlers, req' = [req EXCEPT ![r] = h],
         UNCHANGED <<payment, paymentStatus, audited>>,
         Knows(r)',
         h.pc \in InTransaction =>
           \A q \in Requests \ {r} : req[q].pc \in InTransaction =>
             req[q].shipment # h.shipment /\ req[q].payment # h.payment
  PROVE  Inv'
<1>1. /\ req'[r] = h
      /\ \A q \in Requests \ {r} : req'[q] = req[q]
  BY DEF Inv, TypeOK
<1>2. TypeOK'
  BY DEF Inv, TypeOK
<1>3. ASSUME NEW q \in Requests PROVE Knows(q)'
  <2>1. CASE q = r
    BY <2>1
  <2>2. CASE q # r
    BY <2>2, <1>1 DEF Inv, Knows, Exists, PaymentOf
  <2>3. QED  BY <2>1, <2>2
<1>4. ASSUME NEW q \in Requests, NEW t \in Requests PROVE Apart(q, t)'
  BY <1>1 DEF Inv, Apart
<1>5. Blank' /\ Unique' /\ StatusesMatch' /\ AuditTellsTheOutcome'
  BY DEF Inv, Blank, Unique, StatusesMatch, AuditTellsTheOutcome, Exists, PaymentOf
<1>6. QED  BY <1>2, <1>3, <1>4, <1>5 DEF Inv

(* Responding and failing.                                                 *)
LEMMA IdleStep ==
  ASSUME Inv, NEW r \in Requests, Responds(r), UNCHANGED <<payment, paymentStatus, audited>>
  PROVE  Inv'
<1>1. Idle \in Handlers /\ Idle.pc = "idle" /\ Idle.op = "initiate" /\ Idle.pc \notin InTransaction
  BY DEF Idle, Handlers, Phases, Outcomes, InTransaction
<1>2. req' = [req EXCEPT ![r] = Idle] /\ req'[r] = Idle
  BY DEF Responds, Inv, TypeOK
<1>3. Knows(r)'
  BY <1>1, <1>2 DEF Knows
<1>4. QED  BY <1>1, <1>2, <1>3, LocalStep

(* A write conflict sends the callback back to its start.                  *)
LEMMA ConflictStep ==
  ASSUME Inv, NEW r \in Requests, req[r].pc \in {"checked", "written"}, Conflict(r)
  PROVE  Inv'
<1> DEFINE h == [req[r] EXCEPT !.pc = "checked", !.stale = FALSE,
                   !.payment = IF req[r].op = "initiate" THEN None ELSE req[r].payment]
<1>1. req[r] \in Handlers
  BY DEF Inv, TypeOK
<1>2. /\ h \in Handlers /\ h.pc = "checked" /\ h.op = req[r].op /\ h.shipment = req[r].shipment
      /\ h.op = "confirm" => h.payment = req[r].payment
  BY <1>1 DEF Handlers, Phases
<1>3. req' = [req EXCEPT ![r] = h] /\ UNCHANGED <<payment, paymentStatus, audited>>
  BY DEF Conflict, Documents
<1>4. req'[r] = h
  BY <1>3 DEF Inv, TypeOK
<1> HIDE DEF h
<1>5. Knows(r)'
  BY <1>2, <1>3, <1>4 DEF Inv, Knows, InTransaction, Exists, PaymentOf
<1>6. h.pc \notin InTransaction
  BY <1>2 DEF InTransaction
<1>7. QED  BY <1>2, <1>3, <1>5, <1>6, LocalStep

(* A move to another phase, with the same request.                         *)
LEMMA MoveStep ==
  ASSUME Inv, NEW r \in Requests, NEW pc \in Phases \ {"idle", "committed"}, Goes(r, pc),
         UNCHANGED <<payment, paymentStatus, audited>>,
         req[r].op = "initiate" =>
           \/ req[r].pc = "arrived" /\ pc = "checked"
           \/ req[r].pc = "written" /\ pc = "synced",
         req[r].op = "confirm" =>
           \/ req[r].pc = "written" /\ pc = "synced"
           \/ /\ req[r].pc = "checked" /\ pc = "written"
              /\ payment[req[r].payment].status = "pending"
              /\ \A q \in Requests \ {r} : req[q].pc \in InTransaction =>
                   req[q].shipment # req[r].shipment /\ req[q].payment # req[r].payment
  PROVE  Inv'
<1> DEFINE h == [req[r] EXCEPT !.pc = pc]
<1>1. req[r] \in Handlers /\ req[r].op \in {"initiate", "confirm"}
  BY DEF Inv, TypeOK, Handlers
<1>2. /\ h \in Handlers /\ h.pc = pc /\ h.op = req[r].op /\ h.shipment = req[r].shipment
      /\ h.payment = req[r].payment /\ h.outcome = req[r].outcome
  BY <1>1 DEF Handlers
<1>3. req' = [req EXCEPT ![r] = h] /\ req'[r] = h
  BY DEF Goes, Inv, TypeOK
<1> HIDE DEF h
<1>4. Knows(r)'
  BY <1>1, <1>2, <1>3 DEF Inv, Knows, InTransaction, Exists, PaymentOf
<1>5. h.pc \in InTransaction =>
        \A q \in Requests \ {r} : req[q].pc \in InTransaction =>
          req[q].shipment # h.shipment /\ req[q].payment # h.payment
  BY <1>1, <1>2 DEF Inv, Apart, InTransaction
<1>6. QED  BY <1>2, <1>3, <1>4, <1>5, LocalStep

(* The steps of initiatePayment keep it.                                   *)
LEMMA InitiateSteps ==
  ASSUME Inv, NEW r \in Requests,
         \/ \E s \in Shipments : ArriveInitiate(r, s)
         \/ CheckInitiate(r) \/ Insert(r) \/ InsertConflict(r) \/ SyncInitiate(r)
  PROVE  Inv'
<1>1. ASSUME NEW s \in Shipments, ArriveInitiate(r, s) PROVE Inv'
  <2> DEFINE h == [Idle EXCEPT !.pc = "arrived", !.shipment = s]
  <2>1. h \in Handlers /\ h.pc = "arrived" /\ h.op = "initiate" /\ h.shipment = s
    BY DEF Idle, Handlers, Phases, Outcomes
  <2>2. req' = [req EXCEPT ![r] = h] /\ req'[r] = h
    BY <1>1 DEF ArriveInitiate, Inv, TypeOK
  <2> HIDE DEF h
  <2>3. Knows(r)' /\ h.pc \notin InTransaction
    BY <2>1, <2>2 DEF Knows, InTransaction
  <2>4. QED  BY <1>1, <2>1, <2>2, <2>3, LocalStep DEF ArriveInitiate, Documents
<1>2. CASE CheckInitiate(r)
  <2>1. "checked" \in Phases \ {"idle", "committed"}
    BY DEF Phases
  <2>2. QED  BY <1>2, <2>1, IdleStep, MoveStep DEF CheckInitiate, Serving, Documents
<1>3. CASE Insert(r)
  <2> DEFINE s == req[r].shipment
  <2>1. /\ UNCHANGED <<payment, paymentStatus, audited>> /\ req[r].op = "initiate"
        /\ req[r].pc = "checked" /\ s \in Shipments /\ req[r] \in Handlers
    BY <1>3 DEF Insert, Serving, Documents, Inv, Knows, TypeOK
  <2>2. CASE Responds(r)
    BY <2>1, <2>2, IdleStep
  <2>3. ASSUME PaymentOf(s) = {}, ~ IndexKeyHeld(s, r),
               NEW p \in PaymentIds, ~ Exists(p), ~ PaymentHeld(p, r),
               req' = [req EXCEPT ![r] = [@ EXCEPT !.pc = "written", !.payment = p]]
        PROVE  Inv'
    <3> DEFINE h == [req[r] EXCEPT !.pc = "written", !.payment = p]
    <3>1. /\ h \in Handlers /\ h.pc = "written" /\ h.op = "initiate" /\ h.shipment = s
          /\ h.payment = p
      BY <2>1 DEF Handlers, Phases
    <3>2. req' = [req EXCEPT ![r] = h] /\ req'[r] = h
      BY <2>3 DEF Inv, TypeOK
    <3> HIDE DEF h
    <3>3. Knows(r)'
      BY <2>1, <2>3, <3>1, <3>2 DEF Knows, InTransaction, Exists, PaymentOf
    <3>4. ASSUME NEW q \in Requests \ {r}, req[q].pc \in InTransaction
          PROVE  req[q].shipment # s /\ req[q].payment # p
      <4>1. req[q].payment # p
        BY <2>3, <3>4 DEF PaymentHeld
      <4>2. CASE req[q].op = "initiate"
        BY <2>3, <3>4, <4>1, <4>2 DEF IndexKeyHeld, Serving
      <4>3. CASE req[q].op = "confirm"
        <5>1. payment[req[q].payment].shipment = req[q].shipment /\ req[q].payment \in PaymentIds
          BY <3>4, <4>3 DEF Inv, Knows, InTransaction
        <5>2. QED  BY <2>3, <4>1, <5>1 DEF PaymentOf
      <4>4. QED  BY <4>2, <4>3 DEF Inv, TypeOK, Handlers
    <3>5. QED  BY <2>1, <3>1, <3>2, <3>3, <3>4, LocalStep
  <2>4. QED  BY <1>3, <2>2, <2>3 DEF Insert
<1>4. CASE InsertConflict(r)
  BY <1>4, ConflictStep DEF InsertConflict, Serving
<1>5. CASE SyncInitiate(r)
  <2>1. "synced" \in Phases \ {"idle", "committed"}
    BY DEF Phases
  <2>2. QED
    BY <1>5, <2>1, ConflictStep, MoveStep DEF SyncInitiate, Serving, Documents
<1>6. QED  BY <1>1, <1>2, <1>3, <1>4, <1>5

(* The steps of confirmPayment keep it.                                    *)
LEMMA ConfirmSteps ==
  ASSUME Inv, NEW r \in Requests,
         \/ \E p \in PaymentIds, o \in Outcomes : ArriveConfirm(r, p, o)
         \/ CheckConfirm(r) \/ Settle(r) \/ SyncConfirm(r)
  PROVE  Inv'
<1>1. ASSUME NEW p \in PaymentIds, NEW o \in Outcomes, ArriveConfirm(r, p, o) PROVE Inv'
  <2> DEFINE h == [Idle EXCEPT !.pc = "arrived", !.op = "confirm", !.payment = p, !.outcome = o]
  <2>1. h \in Handlers /\ h.pc = "arrived" /\ h.op = "confirm" /\ h.payment = p
    BY DEF Idle, Handlers, Phases, Outcomes
  <2>2. req' = [req EXCEPT ![r] = h] /\ req'[r] = h
    BY <1>1 DEF ArriveConfirm, Inv, TypeOK
  <2> HIDE DEF h
  <2>3. Knows(r)' /\ h.pc \notin InTransaction
    BY <2>1, <2>2 DEF Knows, InTransaction
  <2>4. QED  BY <1>1, <2>1, <2>2, <2>3, LocalStep DEF ArriveConfirm, Documents
<1>2. CASE CheckConfirm(r)
  <2> DEFINE p == req[r].payment
             h == [req[r] EXCEPT !.pc = "checked", !.shipment = payment[p].shipment]
  <2>1. /\ UNCHANGED <<payment, paymentStatus, audited>> /\ req[r].op = "confirm"
        /\ req[r] \in Handlers /\ p \in PaymentIds
    BY <1>2 DEF CheckConfirm, Serving, Documents, Inv, Knows, TypeOK
  <2>2. CASE Exists(p) /\ payment[p].status = "pending"
    <3>1. payment[p].shipment \in Shipments
      BY <2>1, <2>2 DEF Exists, Inv, TypeOK
    <3>2. /\ h \in Handlers /\ h.pc = "checked" /\ h.op = "confirm" /\ h.payment = p
          /\ h.shipment = payment[p].shipment
      BY <2>1, <3>1 DEF Handlers, Phases
    <3>3. req' = [req EXCEPT ![r] = h] /\ req'[r] = h
      BY <1>2, <2>2 DEF CheckConfirm, Inv, TypeOK
    <3> HIDE DEF h
    <3>4. Knows(r)' /\ h.pc \notin InTransaction
      BY <2>1, <3>1, <3>2, <3>3 DEF Knows, InTransaction
    <3>5. QED  BY <2>1, <3>2, <3>3, <3>4, LocalStep
  <2>3. CASE ~ (Exists(p) /\ payment[p].status = "pending")
    BY <1>2, <2>1, <2>3, IdleStep DEF CheckConfirm
  <2>4. QED  BY <2>2, <2>3
<1>3. CASE Settle(r)
  <2> DEFINE p == req[r].payment
  <2>1. /\ req[r].op = "confirm" /\ req[r].pc = "checked" /\ p \in PaymentIds
        /\ payment[p].shipment = req[r].shipment /\ req[r].shipment \in Shipments
    BY <1>3 DEF Settle, Serving, Inv, Knows
  <2>2. CASE payment[p].status # "pending"
    BY <1>3, <2>2, IdleStep DEF Settle, Documents
  <2>3. CASE Conflict(r)
    BY <2>1, <2>3, ConflictStep
  <2>4. CASE payment[p].status = "pending" /\ ~ PaymentHeld(p, r)
    <3>1. Goes(r, "written") /\ UNCHANGED <<payment, paymentStatus, audited>>
      BY <1>3, <2>4 DEF Settle, Documents
    <3>2. ASSUME NEW q \in Requests \ {r}, req[q].pc \in InTransaction
          PROVE  req[q].shipment # req[r].shipment /\ req[q].payment # p
      <4>1. req[q].payment # p
        BY <2>4, <3>2 DEF PaymentHeld
      <4>2. CASE req[q].op = "initiate"
        BY <2>1, <3>2, <4>1, <4>2 DEF Inv, Knows, PaymentOf
      <4>3. CASE req[q].op = "confirm"
        <5>1. payment[req[q].payment].shipment = req[q].shipment /\ req[q].payment \in PaymentIds
          BY <3>2, <4>3 DEF Inv, Knows, InTransaction
        <5>2. Exists(p)
          BY <2>1, NoneAssumption DEF Exists
        <5>3. QED  BY <2>1, <4>1, <5>1, <5>2 DEF Inv, Unique
      <4>4. QED  BY <4>2, <4>3 DEF Inv, TypeOK, Handlers
    <3>3. "written" \in Phases \ {"idle", "committed"}
      BY DEF Phases
    <3>4. QED  BY <2>1, <2>4, <3>1, <3>2, <3>3, MoveStep
  <2>5. QED  BY <1>3, <2>2, <2>3, <2>4 DEF Settle
<1>4. CASE SyncConfirm(r)
  <2>1. "synced" \in Phases \ {"idle", "committed"}
    BY DEF Phases
  <2>2. QED
    BY <1>4, <2>1, ConflictStep, MoveStep, IdleStep DEF SyncConfirm, Serving, Documents
<1>5. QED  BY <1>1, <1>2, <1>3, <1>4

(* A write by another handler ages snapshots, and nothing else.            *)
LEMMA OtherWriteStep ==
  ASSUME Inv, NEW s \in Shipments, OtherWrite(s)
  PROVE  Inv'
<1>1. UNCHANGED <<payment, paymentStatus, audited>>
  BY DEF OtherWrite, Documents
<1>2. /\ req' \in [Requests -> Handlers]
      /\ \A q \in Requests :
           /\ req'[q].pc = req[q].pc /\ req'[q].op = req[q].op
           /\ req'[q].shipment = req[q].shipment /\ req'[q].payment = req[q].payment
           /\ req'[q].outcome = req[q].outcome
  BY DEF OtherWrite, Inv, TypeOK, Handlers
<1>3. TypeOK' /\ Blank' /\ Unique' /\ StatusesMatch' /\ AuditTellsTheOutcome'
  BY <1>1, <1>2
     DEF Inv, TypeOK, Blank, Unique, StatusesMatch, AuditTellsTheOutcome, Exists, PaymentOf
<1>4. ASSUME NEW q \in Requests PROVE Knows(q)'
  BY <1>1, <1>2 DEF Inv, Knows, Exists, PaymentOf
<1>5. ASSUME NEW q \in Requests, NEW t \in Requests PROVE Apart(q, t)'
  BY <1>2 DEF Inv, Apart
<1>6. QED  BY <1>3, <1>4, <1>5 DEF Inv

(* A commit writes its payment and its shipment; every other request that  *)
(* relies on either of them is not in a transaction.                       *)
LEMMA CommitStep ==
  ASSUME Inv, NEW r \in Requests, Commit(r)
  PROVE  Inv'
<1> DEFINE p == req[r].payment
           s == req[r].shipment
           new == NewStatus(r)
<1>1. /\ req[r].pc = "synced" /\ p \in PaymentIds /\ s \in Shipments
      /\ req[r].op \in {"initiate", "confirm"} /\ req[r].outcome \in Outcomes
      /\ req[r].op = "confirm" => payment[p].shipment = s /\ payment[p].status = "pending"
      /\ req[r].op = "initiate" => ~ Exists(p) /\ PaymentOf(s) = {}
  BY DEF Commit, Inv, TypeOK, Handlers, Knows, InTransaction
<1>2. /\ new \in PaymentStatuses
      /\ req[r].op = "initiate" => new = "pending"
      /\ req[r].op = "confirm" => new = req[r].outcome
  BY <1>1 DEF NewStatus, PaymentStatuses, Outcomes
<1>3. /\ payment' = [payment EXCEPT ![p] = [shipment |-> s, status |-> new]]
      /\ paymentStatus' = [paymentStatus EXCEPT ![s] = new]
      /\ audited' = audited
  BY DEF Commit
<1>4. /\ payment'[p].shipment = s /\ payment'[p].status = new
      /\ \A x \in PaymentIds \ {p} : payment'[x] = payment[x]
      /\ paymentStatus'[s] = new
      /\ \A t \in Shipments \ {s} : paymentStatus'[t] = paymentStatus[t]
  BY <1>1, <1>3 DEF Inv, TypeOK
<1>5. /\ req' \in [Requests -> Handlers]
      /\ \A q \in Requests :
           /\ req'[q].pc = IF q = r THEN "committed" ELSE req[q].pc
           /\ req'[q].op = req[q].op
           /\ req'[q].shipment = req[q].shipment /\ req'[q].payment = req[q].payment
           /\ req'[q].outcome = req[q].outcome
  BY DEF Commit, Inv, TypeOK, Handlers, Phases
<1>6. TypeOK'
  BY <1>1, <1>2, <1>3, <1>5 DEF Inv, TypeOK
<1> HIDE DEF new
<1>7. Blank'
  BY <1>1, <1>4, NoneAssumption DEF Inv, Blank, Exists
<1>8. Unique'
  <2>1. ASSUME NEW x \in PaymentIds \ {p}, payment[x].shipment = s PROVE FALSE
    <3>1. CASE req[r].op = "initiate"
      BY <1>1, <2>1, <3>1 DEF PaymentOf
    <3>2. CASE req[r].op = "confirm"
      BY <1>1, <2>1, <3>2, NoneAssumption DEF Inv, Unique, Exists
    <3>3. QED  BY <1>1, <3>1, <3>2
  <2>2. QED  BY <1>1, <1>4, <2>1 DEF Inv, Unique, Exists
<1>9. StatusesMatch'
  <2>1. ASSUME NEW t \in Shipments \ {s}
        PROVE  (PaymentOf(t) = {} => paymentStatus[t] = "unpaid")'
               /\ (\A x \in PaymentOf(t) : paymentStatus[t] = payment[x].status)'
    <3>1. p \notin PaymentOf(t)
      BY <1>1, NoneAssumption DEF PaymentOf, Exists
    <3>2. PaymentOf(t)' = PaymentOf(t)
      BY <1>4, <2>1, <3>1 DEF PaymentOf
    <3>3. QED  BY <1>4, <2>1, <3>1, <3>2 DEF Inv, StatusesMatch, PaymentOf
  <2>2. ASSUME NEW x \in PaymentIds, payment'[x].shipment = s PROVE x = p
    BY <1>1, <1>4, <1>8, <2>2, NoneAssumption DEF Unique, Exists
  <2>3. ASSUME NEW t \in Shipments, t = s
        PROVE  (PaymentOf(t) = {} => paymentStatus[t] = "unpaid")'
               /\ (\A x \in PaymentOf(t) : paymentStatus[t] = payment[x].status)'
    BY <1>1, <1>4, <2>2, <2>3 DEF PaymentOf
  <2>4. QED  BY <2>1, <2>3 DEF StatusesMatch
<1>10. AuditTellsTheOutcome'
  BY <1>1, <1>3, <1>4 DEF Inv, TypeOK, AuditTellsTheOutcome, Blank, Outcomes
<1>11. ASSUME NEW q \in Requests, NEW t \in Requests PROVE Apart(q, t)'
  BY <1>5 DEF Inv, Apart, InTransaction
<1>12. ASSUME NEW q \in Requests PROVE Knows(q)'
  <2>1. CASE q = r
    BY <1>1, <1>2, <1>4, <1>5, <2>1 DEF Knows, InTransaction
  <2>2. CASE q # r /\ req[q].pc \in InTransaction
    <3>1. req[q].shipment # s /\ req[q].payment # p
      BY <1>1, <2>2 DEF Inv, Apart, InTransaction
    <3>2. req[q].op = "initiate" => PaymentOf(req[q].shipment)' = PaymentOf(req[q].shipment)
      BY <1>1, <1>4, <1>5, <2>2, <3>1, NoneAssumption
         DEF Inv, Knows, PaymentOf, Exists, InTransaction
    <3>3. QED
      BY <1>4, <1>5, <2>2, <3>1, <3>2 DEF Inv, Knows, InTransaction, Exists
  <2>3. CASE q # r /\ req[q].pc \notin InTransaction
    <3>1. ASSUME req[q].op = "confirm", req[q].payment = p,
                 req[q].pc \in {"checked", "committed"}
          PROVE  /\ payment[p].shipment = s /\ req[q].shipment = s
                 /\ req[q].pc # "committed"
      BY <1>1, <3>1, NoneAssumption DEF Inv, TypeOK, Handlers, Knows, Exists, Outcomes
    <3>2. QED
      BY <1>4, <1>5, <2>3, <3>1 DEF Inv, Knows, InTransaction
  <2>4. QED  BY <2>1, <2>2, <2>3
<1>13. QED  BY <1>6, <1>7, <1>8, <1>9, <1>10, <1>11, <1>12 DEF Inv

(* The audit event is recorded after the commit, with what was committed.  *)
LEMMA RespondStep ==
  ASSUME Inv, NEW r \in Requests, Respond(r)
  PROVE  Inv'
<1>1. /\ req' = [req EXCEPT ![r] = Idle] /\ UNCHANGED <<payment, paymentStatus>>
      /\ \A a \in audited' : a \in audited \/
           (/\ req[r].op = "confirm" /\ a.payment = req[r].payment
            /\ a.status = req[r].outcome /\ req[r].payment \in PaymentIds
            /\ payment[a.payment].status = a.status)
  BY DEF Respond, Responds, Documents, Inv, Knows
<1>2. audited' \in SUBSET [payment : PaymentIds, status : Outcomes]
  BY DEF Respond, Inv, Knows, TypeOK, Handlers
<1>3. Idle \in Handlers /\ Idle.pc = "idle" /\ Idle.op = "initiate" /\ Idle.pc \notin InTransaction
  BY DEF Idle, Handlers, Phases, Outcomes, InTransaction
<1>4. /\ req'[r] = Idle /\ req' \in [Requests -> Handlers]
      /\ \A q \in Requests \ {r} : req'[q] = req[q]
  BY <1>1, <1>3 DEF Inv, TypeOK
<1>5. TypeOK' /\ Blank' /\ Unique' /\ StatusesMatch'
  BY <1>1, <1>2, <1>4 DEF Inv, TypeOK, Blank, Unique, StatusesMatch, Exists, PaymentOf
<1>6. AuditTellsTheOutcome'
  BY <1>1 DEF Inv, AuditTellsTheOutcome
<1>7. ASSUME NEW q \in Requests PROVE Knows(q)'
  <2>1. CASE q = r
    BY <1>3, <1>4, <2>1 DEF Knows
  <2>2. CASE q # r
    BY <1>1, <1>4, <2>2 DEF Inv, Knows, Exists, PaymentOf
  <2>3. QED  BY <2>1, <2>2
<1>8. ASSUME NEW q \in Requests, NEW t \in Requests PROVE Apart(q, t)'
  BY <1>3, <1>4 DEF Inv, Apart
<1>9. QED  BY <1>5, <1>6, <1>7, <1>8 DEF Inv

(* Every step keeps it.                                                    *)
LEMMA NextInv == Inv /\ [Next]_vars => Inv'
<1> SUFFICES ASSUME Inv, [Next]_vars PROVE Inv'
  OBVIOUS
<1>1. ASSUME NEW r \in Requests, Fail(r) PROVE Inv'
  BY <1>1, IdleStep DEF Fail, Documents
<1>2. CASE UNCHANGED vars
  BY <1>2 DEF vars, Inv, TypeOK, Blank, Knows, Apart, Unique, StatusesMatch,
              AuditTellsTheOutcome, Exists, PaymentOf
<1>3. QED
  BY <1>1, <1>2, InitiateSteps, ConfirmSteps, CommitStep, RespondStep, OtherWriteStep
     DEF Next, Proceed

(* The invariant holds throughout.                                         *)
LEMMA Invariance == Spec => []Inv
  BY InitInv, NextInv, PTL DEF Spec

----------------------------------------------------------------------------
(* Documents and handlers stay in the sets the schemas and handlers allow. *)
THEOREM TypeCorrect == Spec => []TypeOK
  BY Invariance, PTL DEF Inv

(* A shipment never gets a second payment, whatever the interleaving of    *)
(* initiatePayment's check and its transaction.                            *)
THEOREM OnePayment == Spec => []OnePaymentPerShipment
<1>1. Inv => OnePaymentPerShipment
  <2> SUFFICES ASSUME Inv, NEW s \in Shipments PROVE Cardinality(PaymentOf(s)) <= 1
    BY DEF OnePaymentPerShipment
  <2>1. CASE PaymentOf(s) = {}
    BY <2>1, FS_EmptySet
  <2>2. ASSUME NEW p \in PaymentOf(s) PROVE Cardinality(PaymentOf(s)) <= 1
    <3>1. PaymentOf(s) = {p}
      BY NoneAssumption DEF Inv, Unique, PaymentOf, Exists
    <3>2. Cardinality(PaymentOf(s)) = 1
      BY <3>1, FS_Singleton, Zenon
    <3>3. QED  BY <3>2
  <2>3. QED  BY <2>1, <2>2
<1>2. QED  BY <1>1, Invariance, PTL

(* paymentStatus of a shipment and the status of its payment never drift   *)
(* apart.                                                                  *)
THEOREM StatusesAgree == Spec => []StatusesMatch
  BY Invariance, PTL DEF Inv

(* The audit log tells what the payment says.                              *)
THEOREM AuditCorrect == Spec => []AuditTellsTheOutcome
  BY Invariance, PTL DEF Inv

(* Every transaction about to commit still rests on what it read.          *)
THEOREM CommitsCurrent == Spec => []CommitsAreCurrent
<1>1. Inv => CommitsAreCurrent
  <2> SUFFICES ASSUME Inv, NEW r \in Requests, req[r].pc = "synced"
      PROVE  /\ req[r].op = "confirm" =>
                  /\ payment[req[r].payment] =
                       [shipment |-> req[r].shipment, status |-> "pending"]
                  /\ paymentStatus[req[r].shipment] = "pending"
             /\ req[r].op = "initiate" => PaymentOf(req[r].shipment) = {}
             /\ ~ ShipmentHeld(req[r].shipment, r)
    BY DEF CommitsAreCurrent
  <2>1. ASSUME req[r].op = "confirm"
        PROVE  /\ payment[req[r].payment] =
                       [shipment |-> req[r].shipment, status |-> "pending"]
               /\ paymentStatus[req[r].shipment] = "pending"
    BY <2>1 DEF Inv, TypeOK, Knows, InTransaction, StatusesMatch, PaymentOf
  <2>2. req[r].op = "initiate" => PaymentOf(req[r].shipment) = {}
    BY DEF Inv, Knows, InTransaction
  <2>3. ~ ShipmentHeld(req[r].shipment, r)
    BY DEF Inv, Apart, ShipmentHeld, InTransaction
  <2>4. QED  BY <2>1, <2>2, <2>3
<1>2. QED  BY <1>1, Invariance, PTL

(* What a step does to the documents: nothing, or one commit.              *)
LEMMA OnlyCommitsWrite ==
  ASSUME [Next]_vars
  PROVE  UNCHANGED Documents \/ \E r \in Requests : Commit(r)
  BY DEF Next, Proceed, vars, Documents, ArriveInitiate, CheckInitiate, Insert, InsertConflict,
         SyncInitiate, ArriveConfirm, CheckConfirm, Settle, SyncConfirm, Respond, Fail,
         OtherWrite, Conflict

(* A settled payment keeps its status and every payment its shipment.      *)
THEOREM SettledForGood == Spec => SettledIsFinal
<1> DEFINE Kept == \A p \in PaymentIds : Exists(p) =>
       /\ payment'[p].shipment = payment[p].shipment
       /\ payment[p].status # "pending" => payment'[p].status = payment[p].status
<1>1. Inv /\ [Next]_vars => Kept
  <2> SUFFICES ASSUME Inv, [Next]_vars, NEW p \in PaymentIds, Exists(p)
      PROVE  /\ payment'[p].shipment = payment[p].shipment
             /\ payment[p].status # "pending" => payment'[p].status = payment[p].status
    OBVIOUS
  <2>1. CASE UNCHANGED Documents
    BY <2>1 DEF Documents
  <2>2. ASSUME NEW r \in Requests, Commit(r)
        PROVE  /\ payment'[p].shipment = payment[p].shipment
               /\ payment[p].status # "pending" => payment'[p].status = payment[p].status
    BY <2>2 DEF Commit, Inv, TypeOK, Handlers, Knows, InTransaction
  <2>3. QED  BY <2>1, <2>2, OnlyCommitsWrite
<1>2. QED  BY <1>1, Invariance, PTL DEF Spec, SettledIsFinal

(* The handlers implement the contract: a shipment's account opens once    *)
(* and settles once.                                                       *)
THEOREM Refinement == Spec => ImplementsContract
<1>1. Init => Contract!Init
  BY DEF Init, Contract!Init
<1>2. Inv /\ [Next]_vars => [Contract!Next]_paymentStatus
  <2> SUFFICES ASSUME Inv, [Next]_vars PROVE [Contract!Next]_paymentStatus
    OBVIOUS
  <2>1. CASE UNCHANGED Documents
    BY <2>1 DEF Documents
  <2>2. ASSUME NEW r \in Requests, Commit(r) PROVE Contract!Next
    <3> DEFINE s == req[r].shipment
    <3>1. /\ s \in Shipments /\ req[r].op \in {"initiate", "confirm"}
          /\ req[r].outcome \in {"paid", "failed"}
          /\ paymentStatus' = [paymentStatus EXCEPT ![s] = NewStatus(r)]
      BY <2>2 DEF Commit, Inv, TypeOK, Handlers, Outcomes, Knows, InTransaction
    <3>2. CASE req[r].op = "initiate"
      <4>1. paymentStatus[s] = "unpaid" /\ NewStatus(r) = "pending"
        BY <2>2, <3>1, <3>2
           DEF Commit, Inv, Knows, InTransaction, StatusesMatch, NewStatus
      <4>2. QED  BY <3>1, <4>1 DEF Contract!Next, Contract!Open
    <3>3. CASE req[r].op = "confirm"
      <4>1. req[r].payment \in PaymentOf(s) /\ payment[req[r].payment].status = "pending"
        BY <2>2, <3>1, <3>3 DEF Commit, Inv, Knows, InTransaction, PaymentOf
      <4>2. paymentStatus[s] = "pending" /\ NewStatus(r) \in {"paid", "failed"}
        BY <3>1, <3>3, <4>1 DEF Inv, StatusesMatch, NewStatus
      <4>3. QED  BY <3>1, <4>2 DEF Contract!Next, Contract!Settle
    <3>4. QED  BY <3>1, <3>2, <3>3
  <2>3. QED  BY <2>1, <2>2, OnlyCommitsWrite
<1>3. QED  BY <1>1, <1>2, Invariance, PTL DEF Spec, ImplementsContract, Contract!Spec
=============================================================================
