------------------------- MODULE ShipmentLifecycle -------------------------
(***************************************************************************)
(* The life of shipment documents under the handlers that write them:      *)
(* createShipment and cancelShipment (shipper), updateShipmentStatus       *)
(* (driver), assignDriver and cancelShipmentAsAdmin (admin).  A handler is *)
(* not atomic: the protect middleware, the read that checks the request,   *)
(* the conditional findOneAndUpdate, the OutboxEvent record and the audit  *)
(* job are separate awaits, and the handlers of other requests run in      *)
(* between.  A request slot is a handler in execution; it is reused after  *)
(* the response.                                                           *)
(***************************************************************************)
EXTENDS Naturals, Sequences, FiniteSets

CONSTANTS Shipments,    \* shipment ids
          Shippers,     \* users with role 'shipper'
          Drivers,      \* users with role 'driver'
          Admins,       \* users with role 'admin'
          Requests,     \* request slots: the handlers that can run at once
          NoUser,       \* the null of driver and shipper
          MaxFailures   \* bound on crashes and failed OutboxEvent writes

Users == Shippers \cup Drivers \cup Admins

ASSUME RolesAssumption ==
  /\ Shippers \cap Drivers = {}
  /\ Shippers \cap Admins = {}
  /\ Drivers \cap Admins = {}
  /\ NoUser \notin Users

ASSUME BoundAssumption == MaxFailures \in Nat
ASSUME SlotsAssumption == IsFiniteSet(Requests)

(* The enum of Shipment.status; an id not yet inserted is "absent".        *)
Statuses == {"pending", "assigned", "picked_up", "in_transit",
             "delivered", "cancelled"}
Absent == "absent"

(* STATUS_PROGRESSION: what a driver may ask for, by current status.       *)
STATUS_PROGRESSION == [assigned   |-> "picked_up",
                       picked_up  |-> "in_transit",
                       in_transit |-> "delivered"]

VARIABLES
  status,     \* shipment -> its status field
  shipper,    \* shipment -> its shipper field
  driver,     \* shipment -> its driver field
  history,    \* shipment -> its statusHistory: status and updatedBy
  active,     \* user -> its isActive field
  outbox,     \* the OutboxEvent records of shipments
  audit,      \* the audit jobs of shipments
  req,        \* slot -> the handler running in it
  failures    \* crashes and failed OutboxEvent writes so far

documents == <<status, shipper, driver, history>>
vars == <<documents, active, outbox, audit, req, failures>>

Ops == {"create", "cancel", "advance", "assign", "adminCancel"}

(* "arrived": past protect and authorizeRoles.  "checked": its read passed *)
(* the handler's guards.  "applied": its write matched.  "queued": its     *)
(* OutboxEvent is stored.                                                  *)
Phases == {"idle", "arrived", "checked", "applied", "queued"}

(* A handler's locals: req.user, req.params.id, the requested status or    *)
(* driver, the status its read returned, and the index of the statusHistory*)
(* entry its write pushed (which the program does not keep: it names the   *)
(* entry that the event and the audit job are about).                      *)
Handlers ==
  [pc : Phases, op : Ops, user : Users \cup {NoUser},
   ship : Shipments \cup {Absent}, wants : Statuses, target : Users \cup {NoUser},
   seen : Statuses \cup {Absent}, at : Nat]

Idle == [pc |-> "idle", op |-> "create", user |-> NoUser, ship |-> Absent,
         wants |-> "pending", target |-> NoUser, seen |-> Absent, at |-> 0]

Entries == [status : Statuses, updatedBy : Users]

Records == [op : Ops, ship : Shipments, at : Nat,
            previousStatus : Statuses \cup {Absent}, newStatus : Statuses]

TypeOK ==
  /\ status \in [Shipments -> Statuses \cup {Absent}]
  /\ shipper \in [Shipments -> Shippers \cup {NoUser}]
  /\ driver \in [Shipments -> Drivers \cup {NoUser}]
  /\ history \in [Shipments -> Seq(Entries)]
  /\ active \in [Users -> BOOLEAN]
  /\ outbox \in SUBSET Records
  /\ audit \in SUBSET Records
  /\ req \in [Requests -> Handlers]
  /\ failures \in 0..MaxFailures

Init ==
  /\ status = [s \in Shipments |-> Absent]
  /\ shipper = [s \in Shipments |-> NoUser]
  /\ driver = [s \in Shipments |-> NoUser]
  /\ history = [s \in Shipments |-> << >>]
  /\ active = [u \in Users |-> TRUE]
  /\ outbox = {}
  /\ audit = {}
  /\ req = [r \in Requests |-> Idle]
  /\ failures = 0

----------------------------------------------------------------------------
(* Admission: protect loads the user and refuses an inactive one, then     *)
(* authorizeRoles compares the role with the route's.                      *)

RoleOf(op) == CASE op \in {"create", "cancel"}      -> Shippers
                [] op = "advance"                   -> Drivers
                [] op \in {"assign", "adminCancel"} -> Admins

Admitted(op, u, s, w, d) ==
  [Idle EXCEPT !.pc = "arrived", !.op = op, !.user = u,
               !.ship = s, !.wants = w, !.target = d]

Arrive(r) ==
  /\ req[r].pc = "idle"
  /\ \E op \in Ops, u \in Users, s \in Shipments \cup {Absent},
        w \in Statuses, d \in Users :
       /\ active[u]
       /\ u \in RoleOf(op)
       /\ (op = "create") <=> (s = Absent)
       /\ op # "advance" => w = "pending"
       /\ op # "assign" => d = u
       /\ req' = [req EXCEPT ![r] = Admitted(op, u, s, w, d)]
  /\ UNCHANGED <<documents, active, outbox, audit, failures>>

----------------------------------------------------------------------------
(* The read and the guards on what it returned.                            *)

(* A handler that returns an error response leaves nothing behind.         *)
Goes(r, ok, seen) ==
  /\ req' = [req EXCEPT ![r] = IF ok THEN [@ EXCEPT !.pc = "checked", !.seen = seen]
                                     ELSE Idle]
  /\ UNCHANGED <<documents, active, outbox, audit, failures>>

Serving(r, op, pc) == req[r].op = op /\ req[r].pc = pc

(* 404 when there is no such shipment, 403 for another's, 400 when it is   *)
(* no longer pending.                                                      *)
CheckCancel(r) ==
  LET s == req[r].ship
  IN /\ Serving(r, "cancel", "arrived")
     /\ Goes(r, shipper[s] = req[r].user /\ status[s] = "pending", status[s])

(* MUTANT: any later status is accepted, not only the next one.            *)
CheckAdvanceAnyStatus(r) ==
  LET s == req[r].ship
  IN /\ Serving(r, "advance", "arrived")
     /\ Goes(r, driver[s] = req[r].user /\ status[s] \in DOMAIN STATUS_PROGRESSION,
             status[s])

(* 403 unless assigned to this driver, 400 outside STATUS_PROGRESSION or   *)
(* when the requested status is not the next one.                          *)
CheckAdvance(r) ==
  LET s == req[r].ship
  IN /\ Serving(r, "advance", "arrived")
     /\ Goes(r, /\ driver[s] = req[r].user
                /\ status[s] \in DOMAIN STATUS_PROGRESSION
                /\ STATUS_PROGRESSION[status[s]] = req[r].wants,
             status[s])

(* The driver is read, not the shipment: its role and its isActive.        *)
CheckAssign(r) ==
  /\ Serving(r, "assign", "arrived")
  /\ Goes(r, req[r].target \in Drivers /\ active[req[r].target], "pending")

CheckAdminCancel(r) ==
  LET s == req[r].ship
  IN /\ Serving(r, "adminCancel", "arrived")
     /\ Goes(r, status[s] \notin {Absent, "cancelled"}, status[s])

----------------------------------------------------------------------------
(* The conditional write: findOneAndUpdate matches the filter and sets the *)
(* fields and pushes the history entry as one step, or matches nothing and *)
(* the handler returns an error.                                           *)

Writes(r, match, new, newDriver) ==
  LET s == req[r].ship
      entry == [status |-> new, updatedBy |-> req[r].user]
  IN /\ IF match
        THEN /\ status' = [status EXCEPT ![s] = new]
             /\ driver' = [driver EXCEPT ![s] = newDriver]
             /\ history' = [history EXCEPT ![s] = Append(@, entry)]
             /\ req' = [req EXCEPT ![r] = [@ EXCEPT !.pc = "applied",
                                                    !.at = Len(history[s]) + 1]]
        ELSE /\ req' = [req EXCEPT ![r] = Idle]
             /\ UNCHANGED <<status, driver, history>>
     /\ UNCHANGED <<shipper, active, outbox, audit, failures>>

(* Shipment.create: a fresh id, pending, no driver; or the body fails      *)
(* validation.                                                             *)
Create(r) ==
  /\ Serving(r, "create", "arrived")
  /\ \/ \E s \in Shipments :
           /\ status[s] = Absent
           /\ status' = [status EXCEPT ![s] = "pending"]
           /\ shipper' = [shipper EXCEPT ![s] = req[r].user]
           /\ history' = [history EXCEPT ![s] =
                            <<[status |-> "pending", updatedBy |-> req[r].user]>>]
           /\ req' = [req EXCEPT ![r] =
                        [@ EXCEPT !.pc = "applied", !.ship = s, !.at = 1]]
     \/ /\ req' = [req EXCEPT ![r] = Idle]
        /\ UNCHANGED <<status, shipper, history>>
  /\ UNCHANGED <<driver, active, outbox, audit, failures>>

(* MUTANT: the filter has no status; only the earlier read checked it.     *)
ApplyCancelUnconditional(r) ==
  /\ Serving(r, "cancel", "checked")
  /\ Writes(r, shipper[req[r].ship] = req[r].user, "cancelled", driver[req[r].ship])

ApplyCancel(r) ==
  LET s == req[r].ship
  IN /\ Serving(r, "cancel", "checked")
     /\ Writes(r, shipper[s] = req[r].user /\ status[s] = "pending",
               "cancelled", driver[s])

(* MUTANT: the filter has no status; only the earlier read checked it.     *)
ApplyAdvanceUnconditional(r) ==
  /\ Serving(r, "advance", "checked")
  /\ Writes(r, driver[req[r].ship] = req[r].user, req[r].wants, driver[req[r].ship])

ApplyAdvance(r) ==
  LET s == req[r].ship
  IN /\ Serving(r, "advance", "checked")
     /\ Writes(r, driver[s] = req[r].user /\ status[s] = req[r].seen,
               req[r].wants, driver[s])

(* MUTANT: reassignment is allowed.                                        *)
ApplyAssignAgain(r) ==
  /\ Serving(r, "assign", "checked")
  /\ Writes(r, status[req[r].ship] \in {"pending", "assigned"}, "assigned", req[r].target)

ApplyAssign(r) ==
  /\ Serving(r, "assign", "checked")
  /\ Writes(r, status[req[r].ship] = "pending", "assigned", req[r].target)

ApplyAdminCancel(r) ==
  LET s == req[r].ship
  IN /\ Serving(r, "adminCancel", "checked")
     /\ Writes(r, status[s] \notin {Absent, "cancelled"}, "cancelled", driver[s])

----------------------------------------------------------------------------
(* What follows the write.  previousStatus is the status the handler read, *)
(* not the one its write replaced; shipment.created carries none.          *)

(* MUTANT: the new status is read back from the document.                  *)
RecordOfDocument(r) ==
  [op |-> req[r].op, ship |-> req[r].ship, at |-> req[r].at,
   previousStatus |-> req[r].seen, newStatus |-> status[req[r].ship]]

RecordOf(r) ==
  [op |-> req[r].op, ship |-> req[r].ship, at |-> req[r].at,
   previousStatus |-> req[r].seen,
   newStatus |-> CASE req[r].op = "create"  -> "pending"
                   [] req[r].op = "assign"  -> "assigned"
                   [] req[r].op = "advance" -> req[r].wants
                   [] req[r].op \in {"cancel", "adminCancel"} -> "cancelled"]

(* MUTANT: no event when a driver progresses an undelivered shipment.      *)
QueueEventOnDeliveryOnly(r) ==
  /\ req[r].pc = "applied"
  /\ outbox' = IF req[r].op = "advance" /\ req[r].wants # "delivered"
                THEN outbox ELSE outbox \cup {RecordOf(r)}
  /\ req' = [req EXCEPT ![r].pc = "queued"]
  /\ UNCHANGED <<documents, active, audit, failures>>

(* createOutboxEvent is awaited by the handler.                            *)
QueueEvent(r) ==
  /\ req[r].pc = "applied"
  /\ outbox' = outbox \cup {RecordOf(r)}
  /\ req' = [req EXCEPT ![r].pc = "queued"]
  /\ UNCHANGED <<documents, active, audit, failures>>

(* It rejects: next(error), a 500 response, and the write stays.           *)
QueueEventFails(r) ==
  /\ req[r].pc = "applied"
  /\ failures < MaxFailures
  /\ failures' = failures + 1
  /\ req' = [req EXCEPT ![r] = Idle]
  /\ UNCHANGED <<documents, active, outbox, audit>>

Audited == {"cancel", "assign", "adminCancel"}

(* recordAuditEvent, for the handlers that call it, and the response.      *)
Respond(r) ==
  /\ req[r].pc = "queued"
  /\ audit' = IF req[r].op \in Audited THEN audit \cup {RecordOf(r)} ELSE audit
  /\ req' = [req EXCEPT ![r] = Idle]
  /\ UNCHANGED <<documents, active, outbox, failures>>

----------------------------------------------------------------------------
(* The isActive write of updateUserStatus, by an admin and never on the    *)
(* admin's own account.  Its session half is in module Sessions.           *)
SetUserStatus(u) ==
  /\ \E a \in Admins : active[a] /\ a # u
  /\ active' = [active EXCEPT ![u] = ~ @]
  /\ UNCHANGED <<documents, outbox, audit, req, failures>>

(* The process dies: the handlers in flight are gone, the database stays.  *)
Crash ==
  /\ failures < MaxFailures
  /\ failures' = failures + 1
  /\ req' = [r \in Requests |-> Idle]
  /\ UNCHANGED <<documents, active, outbox, audit>>

Check(r) == CheckCancel(r) \/ CheckAdvance(r) \/ CheckAssign(r) \/ CheckAdminCancel(r)

Apply(r) == \/ Create(r) \/ ApplyCancel(r) \/ ApplyAdvance(r)
            \/ ApplyAssign(r) \/ ApplyAdminCancel(r)

(* The steps of a handler once it is running.                              *)
Proceed(r) == Check(r) \/ Apply(r) \/ QueueEvent(r) \/ Respond(r)

Next ==
  \/ \E r \in Requests : Arrive(r) \/ Proceed(r) \/ QueueEventFails(r)
  \/ \E u \in Users : SetUserStatus(u)
  \/ Crash

Spec == Init /\ [][Next]_vars

----------------------------------------------------------------------------
(* Properties                                                              *)

(* The transitions a shipment may make: assignment, the driver's           *)
(* progression, and cancellation from any status but cancelled.            *)
Transitions ==
  {<<"pending", "assigned">>}
    \cup {<<from, STATUS_PROGRESSION[from]>> : from \in DOMAIN STATUS_PROGRESSION}
    \cup {<<from, "cancelled">> : from \in Statuses \ {"cancelled"}}

(* However handlers interleave, statusHistory is a path from pending to    *)
(* the current status along legal transitions: no two handlers that read   *)
(* the same status both win, and no stale read moves a shipment backwards. *)
HistoryIsALifecycle ==
  \A s \in Shipments :
    LET h == history[s] IN
      /\ h = << >> <=> status[s] = Absent
      /\ h # << >> => h[1].status = "pending" /\ h[Len(h)].status = status[s]
      /\ \A i \in 1..(Len(h) - 1) : <<h[i].status, h[i+1].status>> \in Transitions

(* Each entry was written by whoever may make that transition: the shipper *)
(* who owns it creates it and cancels it only while pending, an admin      *)
(* assigns, the assigned driver progresses it, an admin cancels.  The      *)
(* driver field is null until an entry says assigned.                      *)
EntriesAreAuthorised ==
  \A s \in Shipments : \A i \in 1..Len(history[s]) :
    LET e == history[s][i] IN
      /\ e.status = "pending" => i = 1 /\ e.updatedBy = shipper[s]
      /\ e.status = "assigned" => i = 2 /\ e.updatedBy \in Admins
      /\ e.status \in {"picked_up", "in_transit", "delivered"} =>
            e.updatedBy = driver[s]
      /\ e.status = "cancelled" =>
            e.updatedBy \in Admins \/ (i = 2 /\ e.updatedBy = shipper[s])

(* driver is null exactly until an assignment is in the history: the        *)
(* second entry is the only one that can be it.                            *)
DriverSetByAssignment ==
  \A s \in Shipments :
    driver[s] # NoUser <=> (Len(history[s]) > 1 /\ history[s][2].status = "assigned")

(* What notifications and audit logs will say of a transition is what the  *)
(* history says: the new status always; the previous one for every handler *)
(* whose write is conditional on the status it read.  The admin's write is *)
(* conditional only on "not cancelled": its previousStatus is one that the *)
(* shipment had, but perhaps not the last.                                 *)
RecordsTellTheHistory ==
  \A e \in outbox \cup audit :
    LET h == history[e.ship] IN
      /\ e.at \in 1..Len(h)
      /\ e.newStatus = h[e.at].status
      /\ e.op = "create" <=> e.at = 1
      /\ e.op \in {"cancel", "advance", "assign"} =>
            e.previousStatus = h[e.at - 1].status
      /\ e.op = "adminCancel" =>
            \E j \in 1..(e.at - 1) : e.previousStatus = h[j].status

Announced(s, i) ==
  \/ \E e \in outbox : e.ship = s /\ e.at = i
  \/ \E r \in Requests : req[r].pc = "applied" /\ req[r].ship = s /\ req[r].at = i

Unannounced(s) == {i \in 1..Len(history[s]) : ~ Announced(s, i)}

(* Each transition has a stored event or a handler that is about to store  *)
(* it, for every handler and every interleaving, while no process crashes  *)
(* and no write of an event fails; and each such failure costs at most the *)
(* announcements of the handlers in flight.                                *)
AnnouncedUnlessFailed ==
  \A s \in Shipments : Cardinality(Unannounced(s)) <= failures * Cardinality(Requests)

(* The past is never rewritten: statusHistory only grows, a shipment keeps *)
(* its shipper and its driver, and nothing leaves cancelled.               *)
NothingRewritten ==
  [][\A s \in Shipments :
       /\ Len(history[s]) <= Len(history'[s])
       /\ \A i \in 1..Len(history[s]) : history'[s][i] = history[s][i]
       /\ shipper[s] # NoUser => shipper'[s] = shipper[s]
       /\ driver[s] # NoUser => driver'[s] = driver[s]
       /\ status[s] = "cancelled" => status'[s] = "cancelled"]_vars

(* The abstract contract, read off the documents.                          *)
Contract == INSTANCE ShipmentContract
              WITH state <- status, owner <- shipper, carrier <- driver

(* Every step of the interleaved handlers is one atomic step of the        *)
(* contract, or leaves the documents it speaks of alone.                   *)
ImplementsContract == Contract!Spec
=============================================================================
