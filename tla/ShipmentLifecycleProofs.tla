---------------------- MODULE ShipmentLifecycleProofs ----------------------
(***************************************************************************)
(* Theorems about ShipmentLifecycle for every set of shipments, users and  *)
(* request slots.  TypeInv is inductive and gives TypeOK; on top of it     *)
(* LifecycleInv adds what a handler's locals say about the history while   *)
(* it is running.                                                          *)
(***************************************************************************)
EXTENDS ShipmentLifecycle, FiniteSetTheorems, TLAPS

(* A running handler serves a user of the route's role, on a shipment that *)
(* exists as an id; an assignment that passed its check names a driver.    *)
HandlersTyped ==
  \A r \in Requests : req[r].pc # "idle" =>
    /\ req[r].user \in RoleOf(req[r].op)
    /\ req[r].ship \in Shipments \/ (req[r].op = "create" /\ req[r].pc = "arrived")
    /\ req[r].pc = "checked" => req[r].op # "create"
    /\ req[r].pc = "checked" /\ req[r].op = "assign" => req[r].target \in Drivers

TypeInv == TypeOK /\ HandlersTyped

(* Init establishes the type invariant.                                    *)
LEMMA InitTypeInv == Init => TypeInv
  BY BoundAssumption
     DEF Init, TypeInv, TypeOK, HandlersTyped, Idle, Handlers, Phases, Ops, Statuses, Entries

(* Idle and the updates of a slot stay in the set of handlers.             *)
LEMMA IdleTyped == Idle \in Handlers
  BY DEF Idle, Handlers, Phases, Ops, Statuses

(* The roles are sets of users.                                            *)
LEMMA RolesAreUsers == \A op \in Ops : RoleOf(op) \subseteq Users
  BY DEF Ops, RoleOf, Users

(* What an admitted request looks like.                                    *)
LEMMA ArriveTyped ==
  ASSUME TypeInv, NEW r \in Requests, Arrive(r)
  PROVE  TypeInv'
<1>1. PICK op \in Ops, u \in Users, s \in Shipments \cup {Absent},
           w \in Statuses, d \in Users :
        /\ active[u]
        /\ u \in RoleOf(op)
        /\ (op = "create") <=> (s = Absent)
        /\ op # "advance" => w = "pending"
        /\ op # "assign" => d = u
        /\ req' = [req EXCEPT ![r] = Admitted(op, u, s, w, d)]
  BY DEF Arrive
<1> DEFINE h == Admitted(op, u, s, w, d)
<1>2. /\ h \in Handlers
      /\ h.pc = "arrived" /\ h.op = op /\ h.user = u /\ h.ship = s
  BY DEF Admitted, Idle, Handlers, Phases, Ops, Statuses
<1>3. req' \in [Requests -> Handlers]
  BY <1>1, <1>2 DEF TypeInv, TypeOK
<1>4. TypeOK'
  BY <1>3 DEF Arrive, TypeInv, TypeOK, documents
<1>5. HandlersTyped'
  BY <1>1, <1>2 DEF TypeInv, TypeOK, HandlersTyped
<1>6. QED  BY <1>4, <1>5 DEF TypeInv

(* The checks change only the slot, to idle or to checked.                 *)
LEMMA GoesTyped ==
  ASSUME TypeInv, NEW r \in Requests, req[r].pc = "arrived", req[r].op # "create",
         NEW ok \in BOOLEAN, NEW seen \in Statuses \cup {Absent}, Goes(r, ok, seen),
         req[r].op = "assign" /\ ok => req[r].target \in Drivers
  PROVE  TypeInv'
<1> DEFINE h == IF ok THEN [req[r] EXCEPT !.pc = "checked", !.seen = seen] ELSE Idle
<1>1. req[r] \in Handlers
  BY DEF TypeInv, TypeOK
<1>2. /\ h \in Handlers
      /\ h.pc # "idle" => /\ ok /\ h.pc = "checked" /\ h.op = req[r].op /\ h.user = req[r].user
                          /\ h.ship = req[r].ship /\ h.target = req[r].target
  BY <1>1, IdleTyped DEF Handlers, Phases, Idle
<1>3. req' = [req EXCEPT ![r] = h]
  BY DEF Goes
<1>4. TypeOK'
  BY <1>2, <1>3 DEF Goes, TypeInv, TypeOK, documents
<1>5. HandlersTyped'
  BY <1>2, <1>3 DEF TypeInv, TypeOK, HandlersTyped
<1>6. QED  BY <1>4, <1>5 DEF TypeInv

(* A conditional write stores typed fields and an entry by a user.         *)
LEMMA WritesTyped ==
  ASSUME TypeInv, NEW r \in Requests, req[r].pc = "checked",
         NEW match \in BOOLEAN, NEW new \in Statuses, NEW newDriver \in Drivers \cup {NoUser},
         Writes(r, match, new, newDriver)
  PROVE  TypeInv'
<1> DEFINE h == [req[r] EXCEPT !.pc = "applied", !.at = Len(history[req[r].ship]) + 1]
           e == [status |-> new, updatedBy |-> req[r].user]
<1>1. /\ req[r] \in Handlers /\ req[r].ship \in Shipments
      /\ req[r].user \in Users /\ req[r].pc # "idle"
  BY RolesAreUsers DEF TypeInv, TypeOK, HandlersTyped, Handlers
<1>2. e \in Entries /\ history[req[r].ship] \in Seq(Entries)
  BY <1>1 DEF Entries, TypeInv, TypeOK
<1>3. CASE ~match
  <2>1. req' = [req EXCEPT ![r] = Idle] /\ UNCHANGED <<status, driver, history>>
    BY <1>3 DEF Writes
  <2>2. TypeOK'
    BY <2>1, IdleTyped DEF Writes, TypeInv, TypeOK
  <2>3. HandlersTyped'
    BY <2>1, <1>1 DEF TypeInv, TypeOK, HandlersTyped, Idle
  <2>4. QED  BY <2>2, <2>3 DEF TypeInv
<1>4. CASE match
  <2>1. /\ status' = [status EXCEPT ![req[r].ship] = new]
        /\ driver' = [driver EXCEPT ![req[r].ship] = newDriver]
        /\ history' = [history EXCEPT ![req[r].ship] = Append(@, e)]
        /\ req' = [req EXCEPT ![r] = h]
    BY <1>4 DEF Writes
  <2>0. Len(history[req[r].ship]) + 1 \in Nat
    BY <1>2
  <2>2. h \in Handlers /\ h.op = req[r].op /\ h.user = req[r].user /\ h.ship = req[r].ship
        /\ h.pc = "applied"
    BY <1>1, <2>0 DEF Handlers, Phases
  <2>3. Append(history[req[r].ship], e) \in Seq(Entries)
    BY <1>2
  <2>4. TypeOK'
    BY <2>1, <2>2, <2>3 DEF Writes, TypeInv, TypeOK
  <2>5. HandlersTyped'
    BY <1>1, <2>1, <2>2 DEF TypeInv, TypeOK, HandlersTyped
  <2>6. QED  BY <2>4, <2>5 DEF TypeInv
<1>5. QED  BY <1>3, <1>4

(* A created document is pending, owned by its shipper and without driver. *)
LEMMA CreateTyped ==
  ASSUME TypeInv, NEW r \in Requests, Create(r)
  PROVE  TypeInv'
<1>1. /\ req[r] \in Handlers /\ req[r].user \in Shippers
      /\ req[r].pc = "arrived" /\ req[r].op = "create"
  BY DEF Create, Serving, TypeInv, TypeOK, HandlersTyped, RoleOf
<1>2. CASE /\ req' = [req EXCEPT ![r] = Idle]
           /\ UNCHANGED <<status, shipper, history>>
  <2>1. TypeOK'
    BY <1>2, IdleTyped DEF Create, TypeInv, TypeOK
  <2>2. HandlersTyped'
    BY <1>1, <1>2 DEF TypeInv, TypeOK, HandlersTyped, Idle
  <2>3. QED  BY <2>1, <2>2 DEF TypeInv
<1>3. ASSUME NEW s \in Shipments,
             status' = [status EXCEPT ![s] = "pending"],
             shipper' = [shipper EXCEPT ![s] = req[r].user],
             history' = [history EXCEPT ![s] =
                          <<[status |-> "pending", updatedBy |-> req[r].user]>>],
             req' = [req EXCEPT ![r] =
                      [@ EXCEPT !.pc = "applied", !.ship = s, !.at = 1]]
      PROVE  TypeInv'
  <2> DEFINE h == [req[r] EXCEPT !.pc = "applied", !.ship = s, !.at = 1]
             e == [status |-> "pending", updatedBy |-> req[r].user]
  <2>1. /\ h \in Handlers /\ h.op = req[r].op /\ h.user = req[r].user
        /\ h.ship = s /\ h.pc = "applied"
    BY <1>1 DEF Handlers, Phases
  <2>2. <<e>> \in Seq(Entries)
    BY <1>1 DEF Entries, Users, Statuses
  <2>3. TypeOK'
    BY <1>1, <1>3, <2>1, <2>2 DEF Create, TypeInv, TypeOK, Statuses
  <2>4. HandlersTyped'
    BY <1>1, <1>3, <2>1 DEF TypeInv, TypeOK, HandlersTyped
  <2>5. QED  BY <2>3, <2>4 DEF TypeInv
<1>4. QED  BY <1>2, <1>3 DEF Create

(* A handler past its write knows its shipment, so its record is typed.    *)
LEMMA RecordTyped ==
  ASSUME TypeInv, NEW r \in Requests, req[r].pc \in {"applied", "queued"}
  PROVE  RecordOf(r) \in Records
<1>1. req[r] \in Handlers /\ req[r].ship \in Shipments
  BY DEF TypeInv, TypeOK, HandlersTyped
<1>2. CASE req[r].op = "create"
  BY <1>1, <1>2 DEF RecordOf, Records, Handlers, Statuses
<1>3. CASE req[r].op = "assign"
  BY <1>1, <1>3 DEF RecordOf, Records, Handlers, Statuses
<1>4. CASE req[r].op = "advance"
  BY <1>1, <1>4 DEF RecordOf, Records, Handlers, Statuses
<1>5. CASE req[r].op \in {"cancel", "adminCancel"}
  BY <1>1, <1>5 DEF RecordOf, Records, Handlers, Statuses
<1>6. QED  BY <1>1, <1>2, <1>3, <1>4, <1>5 DEF Handlers, Ops

(* The steps after the write touch the slot and the emitted records only.  *)
LEMMA EmissionTyped ==
  ASSUME TypeInv, NEW r \in Requests,
         QueueEvent(r) \/ QueueEventFails(r) \/ Respond(r)
  PROVE  TypeInv'
<1>1. req[r] \in Handlers
  BY DEF TypeInv, TypeOK
<1>2. CASE QueueEvent(r)
  <2> DEFINE h == [req[r] EXCEPT !.pc = "queued"]
  <2>1. /\ h \in Handlers /\ h.op = req[r].op /\ h.user = req[r].user
        /\ h.ship = req[r].ship /\ h.pc = "queued" /\ req[r].pc = "applied"
    BY <1>1, <1>2 DEF Handlers, Phases, QueueEvent
  <2>2. req' = [req EXCEPT ![r] = h] /\ RecordOf(r) \in Records
    BY <1>2, <2>1, RecordTyped DEF QueueEvent
  <2>3. TypeOK'
    BY <1>2, <2>1, <2>2 DEF QueueEvent, TypeInv, TypeOK, documents
  <2>4. HandlersTyped'
    BY <2>1, <2>2 DEF TypeInv, TypeOK, HandlersTyped
  <2>5. QED  BY <2>3, <2>4 DEF TypeInv
<1>3. CASE QueueEventFails(r)
  <2>1. TypeOK'
    BY <1>3, IdleTyped, BoundAssumption DEF QueueEventFails, TypeInv, TypeOK, documents
  <2>2. HandlersTyped'
    BY <1>3 DEF QueueEventFails, TypeInv, TypeOK, HandlersTyped, Idle
  <2>3. QED  BY <2>1, <2>2 DEF TypeInv
<1>4. CASE Respond(r)
  <2>1. RecordOf(r) \in Records
    BY <1>4, RecordTyped DEF Respond
  <2>2. TypeOK'
    BY <1>4, <2>1, IdleTyped DEF Respond, TypeInv, TypeOK, documents
  <2>3. HandlersTyped'
    BY <1>4 DEF Respond, TypeInv, TypeOK, HandlersTyped, Idle
  <2>4. QED  BY <2>2, <2>3 DEF TypeInv
<1>5. QED  BY <1>2, <1>3, <1>4

(* The four checks are instances of Goes.                                  *)
LEMMA CheckTyped ==
  ASSUME TypeInv, NEW r \in Requests, Check(r)
  PROVE  TypeInv'
<1> DEFINE s == req[r].ship
<1>1. /\ req[r].pc = "arrived" /\ req[r].op # "create"
      /\ s \in Shipments /\ status[s] \in Statuses \cup {Absent}
  BY DEF Check, CheckCancel, CheckAdvance, CheckAssign, CheckAdminCancel, Serving,
         TypeInv, TypeOK, HandlersTyped
<1>2. CASE CheckCancel(r)
  <2>1. Goes(r, shipper[s] = req[r].user /\ status[s] = "pending", status[s])
        /\ req[r].op # "assign"
    BY <1>2 DEF CheckCancel, Serving
  <2>2. QED  BY <1>1, <2>1, GoesTyped
<1>3. CASE CheckAdvance(r)
  <2> DEFINE ok == /\ driver[s] = req[r].user
                   /\ status[s] \in DOMAIN STATUS_PROGRESSION
                   /\ STATUS_PROGRESSION[status[s]] = req[r].wants
  <2>1. Goes(r, ok, status[s]) /\ req[r].op # "assign" /\ ok \in BOOLEAN
    BY <1>3 DEF CheckAdvance, Serving
  <2> HIDE DEF ok
  <2>2. QED  BY <1>1, <2>1, GoesTyped
<1>4. CASE CheckAssign(r)
  <2>1. Goes(r, req[r].target \in Drivers /\ active[req[r].target], "pending")
    BY <1>4 DEF CheckAssign
  <2>2. (req[r].target \in Drivers /\ active[req[r].target]) \in BOOLEAN
        /\ "pending" \in Statuses
    BY DEF Statuses
  <2>3. QED  BY <1>1, <2>1, <2>2, GoesTyped
<1>5. CASE CheckAdminCancel(r)
  <2>1. Goes(r, status[s] \notin {Absent, "cancelled"}, status[s]) /\ req[r].op # "assign"
    BY <1>5 DEF CheckAdminCancel, Serving
  <2>2. QED  BY <1>1, <2>1, GoesTyped
<1>6. QED  BY <1>2, <1>3, <1>4, <1>5 DEF Check

(* The five writes are Create and instances of Writes.                     *)
LEMMA ApplyTyped ==
  ASSUME TypeInv, NEW r \in Requests, Apply(r)
  PROVE  TypeInv'
<1> DEFINE s == req[r].ship
<1>1. /\ req[r] \in Handlers
      /\ {"pending", "assigned", "cancelled", req[r].wants} \subseteq Statuses
  BY DEF TypeInv, TypeOK, Handlers, Statuses
<1>2. ASSUME req[r].pc = "checked"
      PROVE  driver[s] \in Drivers \cup {NoUser}
  BY <1>2 DEF TypeInv, TypeOK, HandlersTyped
<1>3. CASE Create(r)
  BY <1>3, CreateTyped
<1>4. CASE ApplyCancel(r)
  BY <1>1, <1>2, <1>4, WritesTyped DEF ApplyCancel, Serving
<1>5. CASE ApplyAdvance(r)
  BY <1>1, <1>2, <1>5, WritesTyped DEF ApplyAdvance, Serving
<1>6. CASE ApplyAssign(r)
  <2>1. req[r].target \in Drivers /\ req[r].pc = "checked"
    BY <1>6 DEF ApplyAssign, Serving, TypeInv, HandlersTyped
  <2>2. QED  BY <1>1, <1>6, <2>1, WritesTyped DEF ApplyAssign
<1>7. CASE ApplyAdminCancel(r)
  BY <1>1, <1>2, <1>7, WritesTyped DEF ApplyAdminCancel, Serving
<1>8. QED  BY <1>3, <1>4, <1>5, <1>6, <1>7 DEF Apply

(* Every step keeps the type invariant.                                    *)
LEMMA NextTyped == TypeInv /\ [Next]_vars => TypeInv'
<1> SUFFICES ASSUME TypeInv, [Next]_vars PROVE TypeInv'
  OBVIOUS
<1>1. ASSUME NEW r \in Requests, Arrive(r) \/ Proceed(r) \/ QueueEventFails(r)
      PROVE  TypeInv'
  BY <1>1, ArriveTyped, CheckTyped, ApplyTyped, EmissionTyped DEF Proceed
<1>2. ASSUME NEW u \in Users, SetUserStatus(u)
      PROVE  TypeInv'
  <2>1. TypeOK'
    BY <1>2 DEF SetUserStatus, TypeInv, TypeOK, documents
  <2>2. QED  BY <1>2, <2>1 DEF SetUserStatus, TypeInv, HandlersTyped
<1>3. CASE Crash
  <2>1. TypeOK'
    BY <1>3, IdleTyped, BoundAssumption DEF Crash, TypeInv, TypeOK, documents
  <2>2. QED  BY <1>3, <2>1 DEF Crash, TypeInv, HandlersTyped, Idle
<1>4. CASE UNCHANGED vars
  BY <1>4 DEF vars, documents, TypeInv, TypeOK, HandlersTyped
<1>5. QED  BY <1>1, <1>2, <1>3, <1>4 DEF Next

(* The program's documents and locals always have their types, for any     *)
(* number of shipments, users, concurrent handlers and failures.           *)
THEOREM TypeCorrect == Spec => []TypeOK
<1>1. Spec => []TypeInv
  BY InitTypeInv, NextTyped, PTL DEF Spec
<1>2. QED  BY <1>1, PTL DEF TypeInv

----------------------------------------------------------------------------
(* The history of one shipment, as a fact about its four fields alone.     *)

Authorised(e, i, ow, dr) ==
  /\ e.status = "pending" => i = 1 /\ e.updatedBy = ow
  /\ e.status = "assigned" => i = 2 /\ e.updatedBy \in Admins
  /\ e.status \in {"picked_up", "in_transit", "delivered"} => e.updatedBy = dr
  /\ e.status = "cancelled" => e.updatedBy \in Admins \/ (i = 2 /\ e.updatedBy = ow)

Path(h) == \A i \in 1..(Len(h) - 1) : <<h[i].status, h[i+1].status>> \in Transitions

Sound(st, ow, dr, h) ==
  /\ h = << >> <=> st = Absent
  /\ h # << >> => h[1].status = "pending" /\ h[Len(h)].status = st
  /\ Path(h)
  /\ \A i \in 1..Len(h) : Authorised(h[i], i, ow, dr)
  /\ dr # NoUser <=> (Len(h) > 1 /\ h[2].status = "assigned")
  /\ st = Absent => ow = NoUser

SoundDocuments ==
  \A s \in Shipments : Sound(status[s], shipper[s], driver[s], history[s])

(* A checked progression asks for the status after the one it read.        *)
AdvancesChecked ==
  \A r \in Requests : req[r].pc = "checked" /\ req[r].op = "advance" =>
    /\ req[r].seen \in DOMAIN STATUS_PROGRESSION
    /\ req[r].wants = STATUS_PROGRESSION[req[r].seen]

LifecycleInv == TypeInv /\ SoundDocuments /\ AdvancesChecked

(* A positive length other than one is above one.                          *)
LEMMA AboveOne == \A n \in Nat : n > 0 /\ n # 1 => n > 1
  OBVIOUS

(* A pending entry says nothing of the driver.                             *)
LEMMA PendingAuthorised ==
  ASSUME NEW e, NEW i, NEW ow, NEW dr, NEW dr2,
         Authorised(e, i, ow, dr), e.status = "pending"
  PROVE  Authorised(e, i, ow, dr2)
  BY DEF Authorised

(* Pushing an entry onto a sound document leaves it sound, if the entry is *)
(* a legal transition by someone who may make it and the driver field      *)
(* changes with an assignment only.                                        *)
LEMMA PushSound ==
  ASSUME NEW st, NEW ow, NEW dr, NEW h \in Seq(Entries), NEW new, NEW by \in Users,
         NEW newdr, st # Absent, Sound(st, ow, dr, h), <<st, new>> \in Transitions,
         new = "assigned" => newdr \in Drivers /\ by \in Admins,
         new # "assigned" => newdr = dr,
         new \in {"picked_up", "in_transit", "delivered"} => by = dr,
         new = "cancelled" => by \in Admins \/ (st = "pending" /\ by = ow)
  PROVE  Sound(new, ow, newdr, Append(h, [status |-> new, updatedBy |-> by]))
<1> DEFINE e == [status |-> new, updatedBy |-> by]
           g == Append(h, e)
<1>1. new \in Statuses \ {"pending"} /\ new # Absent
  BY DEF Transitions, Statuses, STATUS_PROGRESSION, Absent
<1>2. /\ h # << >> /\ Len(h) \in Nat /\ Len(h) > 0
      /\ h[1].status = "pending" /\ h[Len(h)].status = st
  BY DEF Sound
<1>3. e \in Entries
  BY <1>1 DEF Entries
<1>4. /\ g \in Seq(Entries) /\ Len(g) = Len(h) + 1 /\ g[Len(g)] = e
      /\ \A i \in 1..Len(h) : g[i] = h[i]
  BY <1>3
<1> HIDE DEF g
<1>5. e.status = new /\ e.updatedBy = by
  OBVIOUS
<1> HIDE DEF e
<1>6. Path(g)
  <2> SUFFICES ASSUME NEW i \in 1..(Len(g) - 1)
               PROVE  <<g[i].status, g[i+1].status>> \in Transitions
    BY DEF Path
  <2>1. CASE i = Len(h)
    BY <2>1, <1>2, <1>4, <1>5
  <2>2. CASE i # Len(h)
    <3>1. i \in 1..(Len(h) - 1) /\ i + 1 \in 1..Len(h) /\ i \in 1..Len(h)
      BY <2>2, <1>2, <1>4
    <3>2. <<h[i].status, h[i+1].status>> \in Transitions
      BY <3>1 DEF Sound, Path
    <3>3. QED  BY <3>1, <3>2, <1>4
  <2>3. QED  BY <2>1, <2>2
<1>7. st = "pending" => Len(h) = 1
  <2>1. Authorised(h[Len(h)], Len(h), ow, dr)
    BY <1>2 DEF Sound
  <2>2. QED  BY <2>1, <1>2 DEF Authorised
<1>8. new = "assigned" => st = "pending"
  BY DEF Transitions, STATUS_PROGRESSION
<1>9. newdr # dr => new = "assigned" /\ Len(h) = 1
  BY <1>7, <1>8
<1>10. \A i \in 1..Len(g) : Authorised(g[i], i, ow, newdr)
  <2> SUFFICES ASSUME NEW i \in 1..Len(g)
               PROVE  Authorised(g[i], i, ow, newdr)
    OBVIOUS
  <2>1. CASE i \in 1..Len(h)
    <3>1. Authorised(h[i], i, ow, dr) /\ g[i] = h[i]
      BY <2>1, <1>4 DEF Sound
    <3>2. CASE newdr = dr
      BY <3>1, <3>2
    <3>3. CASE newdr # dr
      <4>1. Len(h) = 1
        BY <3>3, <1>9
      <4>2. i = 1
        BY <4>1, <2>1
      <4>3. h[i].status = "pending"
        BY <4>2, <1>2
      <4>4. Authorised(h[i], i, ow, newdr)
        BY <3>1, <4>3, PendingAuthorised
      <4>5. QED  BY <3>1, <4>4
    <3>4. QED  BY <3>2, <3>3
  <2>2. CASE i \notin 1..Len(h)
    <3>1. i = Len(h) + 1 /\ g[i] = e
      BY <2>2, <1>2, <1>4
    <3>2. st = "pending" => i = 2
      <4>1. \A n \in Nat : n = 1 => n + 1 = 2
        OBVIOUS
      <4>2. QED  BY <4>1, <3>1, <1>2, <1>7, Zenon
    <3>3. e.status = "assigned" => i = 2 /\ e.updatedBy \in Admins
      BY <3>2, <1>5, <1>8
    <3>4. e.status \in {"picked_up", "in_transit", "delivered"} => e.updatedBy = newdr
      BY <1>5
    <3>5. e.status = "cancelled" => e.updatedBy \in Admins \/ (i = 2 /\ e.updatedBy = ow)
      BY <3>2, <1>5
    <3>6. e.status # "pending"
      BY <1>1, <1>5
    <3>7. QED  BY <3>1, <3>3, <3>4, <3>5, <3>6 DEF Authorised
  <2>3. QED  BY <2>1, <2>2
<1>11. newdr # NoUser <=> (Len(g) > 1 /\ g[2].status = "assigned")
  <2>1. CASE new = "assigned"
    <3>0. Len(h) = 1
      BY <2>1, <1>7, <1>8
    <3>1. Len(g) = 2 /\ g[2].status = "assigned"
      <4>1. Len(g) = 2 /\ g[Len(g)] = e
        BY <3>0, <1>4
      <4>2. g[2] = e
        BY <4>1
      <4>3. QED  BY <2>1, <4>1, <4>2, <1>5
    <3>2. newdr # NoUser
      BY <2>1, RolesAssumption DEF Users
    <3>3. QED  BY <3>1, <3>2
  <2>2. CASE new # "assigned" /\ Len(h) = 1
    <3>1. Len(g) = 2 /\ g[2] = e /\ newdr = dr
      BY <2>2, <1>4
    <3>2. QED  BY <3>1, <2>2, <1>5 DEF Sound
  <2>3. CASE new # "assigned" /\ Len(h) # 1
    <3>0. Len(h) \in Nat /\ Len(h) > 1
      BY <2>3, <1>2, AboveOne
    <3>1. Len(h) > 1 /\ Len(g) > 1 /\ 2 \in 1..Len(h)
      <4>1. Len(g) = Len(h) + 1
        BY <1>4
      <4>2. QED  BY <3>0, <4>1
    <3>2. g[2] = h[2]
      BY <3>1, <1>4
    <3>3. newdr = dr
      BY <2>3
    <3>4. QED  BY <3>1, <3>2, <3>3 DEF Sound
  <2>4. QED  BY <2>1, <2>2, <2>3
<1>12. g # << >> /\ g[1].status = "pending" /\ g[Len(g)].status = new
  BY <1>2, <1>4, <1>5
<1>13. st # Absent => Sound(new, ow, newdr, g)
  BY <1>1, <1>6, <1>10, <1>11, <1>12 DEF Sound
<1>14. QED  BY <1>13 DEF g, e

(* A write that follows the rules of PushSound keeps every document sound. *)
LEMMA WritesSound ==
  ASSUME LifecycleInv, NEW r \in Requests, NEW match \in BOOLEAN, NEW new, NEW newDriver,
         req[r].ship \in Shipments, req[r].user \in Users,
         Writes(r, match, new, newDriver),
         match => LET s == req[r].ship IN
           /\ status[s] # Absent /\ <<status[s], new>> \in Transitions
           /\ new = "assigned" => newDriver \in Drivers /\ req[r].user \in Admins
           /\ new # "assigned" => newDriver = driver[s]
           /\ new \in {"picked_up", "in_transit", "delivered"} => req[r].user = driver[s]
           /\ new = "cancelled" =>
                 req[r].user \in Admins \/ (status[s] = "pending" /\ req[r].user = shipper[s])
  PROVE  SoundDocuments'
<1> DEFINE s == req[r].ship
           e == [status |-> new, updatedBy |-> req[r].user]
<1>1. CASE ~match
  BY <1>1 DEF Writes, LifecycleInv, SoundDocuments
<1>2. CASE match
  <2>1. /\ status' = [status EXCEPT ![s] = new]
        /\ driver' = [driver EXCEPT ![s] = newDriver]
        /\ history' = [history EXCEPT ![s] = Append(@, e)]
        /\ shipper' = shipper
    BY <1>2 DEF Writes
  <2>2. history[s] \in Seq(Entries) /\ Sound(status[s], shipper[s], driver[s], history[s])
    BY DEF LifecycleInv, TypeInv, TypeOK, SoundDocuments
  <2>3. Sound(new, shipper[s], newDriver, Append(history[s], e))
    BY <1>2, <2>2, PushSound
  <2>4. /\ status'[s] = new /\ driver'[s] = newDriver /\ history'[s] = Append(history[s], e)
        /\ \A q \in Shipments : q # s => /\ status'[q] = status[q] /\ driver'[q] = driver[q]
                                        /\ history'[q] = history[q]
    BY <2>1 DEF LifecycleInv, TypeInv, TypeOK
  <2>5. QED  BY <2>1, <2>3, <2>4 DEF LifecycleInv, SoundDocuments
<1>3. QED  BY <1>1, <1>2

(* The write of each handler follows those rules.                          *)
LEMMA ApplySound ==
  ASSUME LifecycleInv, NEW r \in Requests, Apply(r)
  PROVE  SoundDocuments'
<1> DEFINE s == req[r].ship
<1>1. /\ req[r] \in Handlers
      /\ \A u \in Shipments : status[u] \in Statuses \cup {Absent}
      /\ Sound(status[s], shipper[s], driver[s], history[s]) \/ s \notin Shipments
  BY DEF LifecycleInv, TypeInv, TypeOK, SoundDocuments
<1>2. ASSUME req[r].pc = "checked"
      PROVE  s \in Shipments /\ req[r].user \in RoleOf(req[r].op) /\ req[r].user \in Users
  BY <1>2, <1>1, RolesAreUsers DEF LifecycleInv, TypeInv, HandlersTyped, Handlers
<1>3. CASE Create(r)
  <2>1. CASE UNCHANGED <<status, shipper, history>>
    BY <1>3, <2>1 DEF Create, LifecycleInv, SoundDocuments
  <2>2. ASSUME NEW t \in Shipments, status[t] = Absent,
               status' = [status EXCEPT ![t] = "pending"],
               shipper' = [shipper EXCEPT ![t] = req[r].user],
               history' = [history EXCEPT ![t] =
                            <<[status |-> "pending", updatedBy |-> req[r].user]>>]
        PROVE  SoundDocuments'
    <3> DEFINE h == <<[status |-> "pending", updatedBy |-> req[r].user]>>
    <3>1. driver' = driver
      BY <1>3 DEF Create
    <3>2. Sound(status[t], shipper[t], driver[t], history[t])
      BY DEF LifecycleInv, SoundDocuments
    <3>3. driver[t] = NoUser
      BY <2>2, <3>2 DEF Sound
    <3>4. Len(h) = 1 /\ h[1].status = "pending" /\ h[1].updatedBy = req[r].user /\ h # << >>
      OBVIOUS
    <3> HIDE DEF h
    <3>5. Sound("pending", req[r].user, driver[t], h)
      <4>1. Path(h) /\ \A i \in 1..Len(h) : Authorised(h[i], i, req[r].user, driver[t])
        BY <3>4 DEF Path, Authorised
      <4>2. QED  BY <3>3, <3>4, <4>1 DEF Sound, Absent
    <3>6. /\ status'[t] = "pending" /\ shipper'[t] = req[r].user /\ history'[t] = h
          /\ \A q \in Shipments : q # t => /\ status'[q] = status[q] /\ shipper'[q] = shipper[q]
                                          /\ history'[q] = history[q]
      BY <2>2 DEF LifecycleInv, TypeInv, TypeOK, h
    <3>7. QED  BY <3>1, <3>5, <3>6 DEF LifecycleInv, SoundDocuments
  <2>3. QED  BY <1>3, <2>1, <2>2 DEF Create
<1>4. CASE ApplyCancel(r)
  <2>1. <<"pending", "cancelled">> \in Transitions
    BY DEF Transitions, Statuses
  <2>2. QED  BY <1>2, <1>4, <2>1, WritesSound DEF ApplyCancel, Serving, Absent
<1>5. CASE ApplyAdvance(r)
  <2> DEFINE m == driver[s] = req[r].user /\ status[s] = req[r].seen
  <2>1. /\ req[r].pc = "checked" /\ Writes(r, m, req[r].wants, driver[s])
        /\ req[r].seen \in DOMAIN STATUS_PROGRESSION
        /\ req[r].wants = STATUS_PROGRESSION[req[r].seen]
    BY <1>5 DEF ApplyAdvance, Serving, LifecycleInv, AdvancesChecked
  <2>2. m => /\ <<status[s], req[r].wants>> \in Transitions /\ status[s] # Absent
             /\ req[r].wants \notin {"assigned", "cancelled"}
    BY <2>1 DEF Transitions, STATUS_PROGRESSION, Absent
  <2>3. QED  BY <1>2, <2>1, <2>2, WritesSound
<1>6. CASE ApplyAssign(r)
  <2>1. /\ req[r].pc = "checked" /\ req[r].target \in Drivers /\ req[r].user \in Admins
        /\ Writes(r, status[s] = "pending", "assigned", req[r].target)
    BY <1>2, <1>6 DEF ApplyAssign, Serving, LifecycleInv, TypeInv, HandlersTyped, RoleOf
  <2>2. <<"pending", "assigned">> \in Transitions
    BY DEF Transitions
  <2>3. QED  BY <1>2, <2>1, <2>2, WritesSound DEF Absent
<1>7. CASE ApplyAdminCancel(r)
  <2> DEFINE m == status[s] \notin {Absent, "cancelled"}
  <2>1. /\ req[r].pc = "checked" /\ req[r].user \in Admins
        /\ Writes(r, m, "cancelled", driver[s])
    BY <1>2, <1>7 DEF ApplyAdminCancel, Serving, RoleOf
  <2>2. m => <<status[s], "cancelled">> \in Transitions /\ status[s] # Absent
    BY <1>1, <1>2, <2>1 DEF Transitions
  <2>3. QED  BY <1>2, <2>1, <2>2, WritesSound
<1>8. QED  BY <1>3, <1>4, <1>5, <1>6, <1>7 DEF Apply

(* A step that leaves the documents alone leaves them sound.               *)
LEMMA IdleDocumentsSound ==
  ASSUME SoundDocuments, UNCHANGED documents
  PROVE  SoundDocuments'
  BY DEF SoundDocuments, documents

(* A progression is checked against the read and not changed afterwards.   *)
LEMMA AdvancesStayChecked ==
  ASSUME LifecycleInv, [Next]_vars
  PROVE  AdvancesChecked'
<1> SUFFICES ASSUME NEW q \in Requests, req'[q].pc = "checked", req'[q].op = "advance",
                    req'[q] # req[q]
             PROVE  /\ req'[q].seen \in DOMAIN STATUS_PROGRESSION
                    /\ req'[q].wants = STATUS_PROGRESSION[req'[q].seen]
  BY DEF LifecycleInv, AdvancesChecked
<1> DEFINE AdvanceGoal == /\ req'[q].seen \in DOMAIN STATUS_PROGRESSION
                          /\ req'[q].wants = STATUS_PROGRESSION[req'[q].seen]
<1>1. req \in [Requests -> Handlers] /\ req[q] \in Handlers
  BY DEF LifecycleInv, TypeInv, TypeOK
<1>2. Idle.pc = "idle"
  BY DEF Idle
<1>3. ASSUME NEW r \in Requests, CheckAdvance(r) PROVE AdvanceGoal
  <2> DEFINE s == req[r].ship
             ok == /\ driver[s] = req[r].user
                   /\ status[s] \in DOMAIN STATUS_PROGRESSION
                   /\ STATUS_PROGRESSION[status[s]] = req[r].wants
  <2>1. req' = [req EXCEPT ![r] = IF ok THEN [@ EXCEPT !.pc = "checked", !.seen = status[s]]
                                        ELSE Idle]
    BY <1>3 DEF CheckAdvance, Goes
  <2>2. q = r
    BY <1>1, <2>1
  <2>3. req'[q] = IF ok THEN [req[q] EXCEPT !.pc = "checked", !.seen = status[s]] ELSE Idle
    BY <1>1, <2>1, <2>2
  <2>4. ok
    BY <1>2, <2>3
  <2>5. req'[q].seen = status[s] /\ req'[q].wants = req[q].wants
    BY <1>1, <2>3, <2>4 DEF Handlers
  <2>6. QED  BY <2>2, <2>4, <2>5
<1>4. ASSUME NEW r \in Requests, CheckCancel(r) \/ CheckAssign(r) \/ CheckAdminCancel(r) PROVE AdvanceGoal
  <2>1. req[r].op # "advance"
    BY <1>4 DEF CheckCancel, CheckAssign, CheckAdminCancel, Serving
  <2>2. \E ok, seen :
          req' = [req EXCEPT ![r] = IF ok THEN [@ EXCEPT !.pc = "checked", !.seen = seen] ELSE Idle]
    <3>1. CASE CheckCancel(r)
      BY <3>1 DEF CheckCancel, Goes
    <3>2. CASE CheckAssign(r)
      BY <3>2 DEF CheckAssign, Goes
    <3>3. CASE CheckAdminCancel(r)
      BY <3>3 DEF CheckAdminCancel, Goes
    <3>4. QED  BY <1>4, <3>1, <3>2, <3>3
  <2>3. PICK ok, seen :
          req' = [req EXCEPT ![r] = IF ok THEN [@ EXCEPT !.pc = "checked", !.seen = seen] ELSE Idle]
    BY <2>2
  <2>4. q = r
    BY <1>1, <2>3
  <2>5. req'[q].op = req[q].op
    BY <1>1, <1>2, <2>3, <2>4 DEF Handlers
  <2>6. QED  BY <2>1, <2>4, <2>5
<1>5. ASSUME NEW r \in Requests, Arrive(r) PROVE AdvanceGoal
  <2>1. PICK op \in Ops, u \in Users, s \in Shipments \cup {Absent},
             w \in Statuses, d \in Users :
          /\ active[u]
          /\ u \in RoleOf(op)
          /\ (op = "create") <=> (s = Absent)
          /\ op # "advance" => w = "pending"
          /\ op # "assign" => d = u
          /\ req' = [req EXCEPT ![r] = Admitted(op, u, s, w, d)]
    BY <1>5 DEF Arrive
  <2>2. Admitted(op, u, s, w, d).pc = "arrived"
    BY DEF Admitted, Idle
  <2>3. QED  BY <1>1, <2>1, <2>2
<1>6. ASSUME NEW r \in Requests, Create(r) PROVE AdvanceGoal
  <2>1. CASE req' = [req EXCEPT ![r] = Idle]
    BY <1>1, <1>2, <2>1
  <2>2. ASSUME NEW s \in Shipments,
               req' = [req EXCEPT ![r] = [@ EXCEPT !.pc = "applied", !.ship = s, !.at = 1]]
        PROVE AdvanceGoal
    BY <1>1, <2>2 DEF Handlers
  <2>3. QED  BY <1>6, <2>1, <2>2 DEF Create
<1>7. ASSUME NEW r \in Requests, NEW match, NEW new, NEW d, Writes(r, match, new, d) PROVE AdvanceGoal
  <2>1. CASE req' = [req EXCEPT ![r] = Idle]
    BY <1>1, <1>2, <2>1
  <2>2. CASE req' = [req EXCEPT ![r] = [@ EXCEPT !.pc = "applied",
                                                 !.at = Len(history[req[r].ship]) + 1]]
    BY <1>1, <2>2 DEF Handlers
  <2>3. QED  BY <1>7, <2>1, <2>2 DEF Writes
<1>8. ASSUME NEW r \in Requests, Apply(r) PROVE AdvanceGoal
  BY <1>6, <1>7, <1>8 DEF Apply, ApplyCancel, ApplyAdvance, ApplyAssign, ApplyAdminCancel
<1>9. ASSUME NEW r \in Requests, QueueEvent(r) \/ QueueEventFails(r) \/ Respond(r) PROVE AdvanceGoal
  <2>1. CASE req' = [req EXCEPT ![r] = Idle]
    BY <1>1, <1>2, <2>1
  <2>2. CASE req' = [req EXCEPT ![r].pc = "queued"]
    BY <1>1, <2>2 DEF Handlers
  <2>3. QED  BY <1>9, <2>1, <2>2 DEF QueueEvent, QueueEventFails, Respond
<1>10. CASE Crash
  BY <1>2, <1>10 DEF Crash
<1>11. CASE UNCHANGED vars
  BY <1>11 DEF vars
<1>12. ASSUME NEW u \in Users, SetUserStatus(u) PROVE AdvanceGoal
  BY <1>12 DEF SetUserStatus
<1>13. QED
  BY <1>3, <1>4, <1>5, <1>8, <1>9, <1>10, <1>11, <1>12 DEF Next, Proceed, Check

(* Every step keeps the documents sound: only Apply writes them.           *)
LEMMA NextLifecycle == LifecycleInv /\ [Next]_vars => LifecycleInv'
<1> SUFFICES ASSUME LifecycleInv, [Next]_vars PROVE SoundDocuments'
  BY NextTyped, AdvancesStayChecked DEF LifecycleInv
<1>1. ASSUME NEW r \in Requests, Apply(r) PROVE SoundDocuments'
  BY <1>1, ApplySound
<1>2. ASSUME NEW r \in Requests, Arrive(r) \/ Check(r) \/ QueueEvent(r) \/ Respond(r)
                                 \/ QueueEventFails(r)
      PROVE  UNCHANGED documents
  BY <1>2 DEF Arrive, Check, CheckCancel, CheckAdvance, CheckAssign, CheckAdminCancel, Goes,
              QueueEvent, Respond, QueueEventFails
<1>3. ASSUME NEW u \in Users, SetUserStatus(u) PROVE UNCHANGED documents
  BY <1>3 DEF SetUserStatus
<1>4. Crash => UNCHANGED documents
  BY DEF Crash
<1>5. UNCHANGED vars => UNCHANGED documents
  BY DEF vars
<1>6. QED
  BY <1>1, <1>2, <1>3, <1>4, <1>5, IdleDocumentsSound DEF Next, Proceed, LifecycleInv

(* The lifecycle invariant holds of the first states.                      *)
LEMMA InitLifecycle == Init => LifecycleInv
<1> SUFFICES ASSUME Init PROVE LifecycleInv
  OBVIOUS
<1>1. SoundDocuments
  <2>1. Sound(Absent, NoUser, NoUser, << >>)
    BY DEF Sound, Path, Absent
  <2>2. QED  BY <2>1 DEF Init, SoundDocuments
<1>2. AdvancesChecked
  BY DEF Init, AdvancesChecked, Idle
<1>3. QED  BY <1>1, <1>2, InitTypeInv DEF LifecycleInv

(* It holds throughout.                                                    *)
LEMMA LifecycleAlways == Spec => []LifecycleInv
  BY InitLifecycle, NextLifecycle, PTL DEF Spec

(* statusHistory is always a legal path from pending to the status.        *)
THEOREM HistoryCorrect == Spec => []HistoryIsALifecycle
<1>1. LifecycleInv => HistoryIsALifecycle
  BY DEF LifecycleInv, SoundDocuments, Sound, Path, HistoryIsALifecycle
<1>2. QED  BY <1>1, LifecycleAlways, PTL

(* Every transition was made by somebody entitled to make it.              *)
THEOREM EntriesCorrect == Spec => []EntriesAreAuthorised
<1>1. LifecycleInv => EntriesAreAuthorised
  BY DEF LifecycleInv, SoundDocuments, Sound, Authorised, EntriesAreAuthorised
<1>2. QED  BY <1>1, LifecycleAlways, PTL

(* The driver field is set by the assignment in the history, and only so.  *)
THEOREM DriverCorrect == Spec => []DriverSetByAssignment
<1>1. LifecycleInv => DriverSetByAssignment
  BY DEF LifecycleInv, SoundDocuments, Sound, DriverSetByAssignment
<1>2. QED  BY <1>1, LifecycleAlways, PTL

----------------------------------------------------------------------------
(* The refinement of the contract.                                         *)

(* A pending shipment has no driver yet.                                   *)
LEMMA PendingHasNoDriver ==
  ASSUME LifecycleInv, NEW s \in Shipments, status[s] = "pending"
  PROVE  driver[s] = NoUser
<1>1. Sound(status[s], shipper[s], driver[s], history[s]) /\ history[s] \in Seq(Entries)
  BY DEF LifecycleInv, SoundDocuments, TypeInv, TypeOK
<1>2. /\ history[s] # << >> /\ Len(history[s]) \in Nat /\ Len(history[s]) > 0
      /\ history[s][Len(history[s])].status = "pending"
  BY <1>1 DEF Sound, Absent
<1>3. Authorised(history[s][Len(history[s])], Len(history[s]), shipper[s], driver[s])
  BY <1>1, <1>2 DEF Sound
<1>4. Len(history[s]) = 1
  BY <1>2, <1>3 DEF Authorised
<1>5. QED  BY <1>1, <1>4 DEF Sound

(* Each write of a handler is the contract's step of that name; a write    *)
(* that matches nothing changes no document.                               *)
LEMMA ApplyRefines ==
  ASSUME LifecycleInv, NEW r \in Requests, Apply(r)
  PROVE  Contract!Next \/ UNCHANGED <<status, shipper, driver>>
<1> DEFINE s == req[r].ship
<1>1. /\ \A u \in Shipments : driver[u] \in Drivers \cup {NoUser}
      /\ status \in [Shipments -> Statuses \cup {Absent}]
      /\ driver = [driver EXCEPT ![s] = driver[s]]
  BY DEF LifecycleInv, TypeInv, TypeOK
<1>2. req[r].pc = "checked" => s \in Shipments /\ req[r].user \in RoleOf(req[r].op)
  BY DEF LifecycleInv, TypeInv, HandlersTyped
<1>3. ASSUME NEW match, NEW new, NEW d, Writes(r, match, new, d)
      PROVE  \/ /\ match /\ status' = [status EXCEPT ![s] = new]
                /\ driver' = [driver EXCEPT ![s] = d] /\ shipper' = shipper
             \/ UNCHANGED <<status, shipper, driver>>
  BY <1>3 DEF Writes
<1>4. CASE Create(r)
  <2>1. req[r].user \in Shippers
    BY <1>4 DEF Create, Serving, LifecycleInv, TypeInv, HandlersTyped, RoleOf
  <2>2. QED
    BY <1>4, <2>1 DEF Create, Contract!Next, Contract!Creation, Absent
<1>5. CASE ApplyCancel(r)
  <2>1. Writes(r, shipper[s] = req[r].user /\ status[s] = "pending", "cancelled", driver[s])
        /\ s \in Shipments
    BY <1>2, <1>5 DEF ApplyCancel, Serving
  <2>2. Contract!Cancellation(s) \/ UNCHANGED <<status, shipper, driver>>
    BY <1>1, <1>3, <2>1 DEF Contract!Cancellation
  <2>3. QED  BY <2>1, <2>2 DEF Contract!Next
<1>6. CASE ApplyAdvance(r)
  <2>1. /\ Writes(r, driver[s] = req[r].user /\ status[s] = req[r].seen,
                   req[r].wants, driver[s])
        /\ s \in Shipments /\ req[r].user \in Drivers
        /\ req[r].seen \in DOMAIN STATUS_PROGRESSION
        /\ req[r].wants = STATUS_PROGRESSION[req[r].seen]
    BY <1>2, <1>6 DEF ApplyAdvance, Serving, RoleOf, LifecycleInv, AdvancesChecked
  <2>2. <<req[r].seen, req[r].wants>> \in Contract!Stages
    BY <2>1 DEF Contract!Stages, STATUS_PROGRESSION
  <2>3. CASE UNCHANGED <<status, shipper, driver>>
    BY <2>3
  <2>4. CASE /\ driver[s] = req[r].user /\ status[s] = req[r].seen
             /\ status' = [status EXCEPT ![s] = req[r].wants]
             /\ driver' = [driver EXCEPT ![s] = driver[s]] /\ shipper' = shipper
    <3>1. Contract!Progress(s)
      BY <1>1, <2>1, <2>2, <2>4 DEF Contract!Progress
    <3>2. QED  BY <2>1, <3>1 DEF Contract!Next
  <2>5. QED  BY <1>3, <2>1, <2>3, <2>4
<1>7. CASE ApplyAssign(r)
  <2>1. /\ Writes(r, status[s] = "pending", "assigned", req[r].target)
        /\ s \in Shipments /\ req[r].target \in Drivers
    BY <1>2, <1>7 DEF ApplyAssign, Serving, LifecycleInv, TypeInv, HandlersTyped
  <2>2. Contract!Assignment(s) \/ UNCHANGED <<status, shipper, driver>>
    BY <1>3, <2>1, PendingHasNoDriver DEF Contract!Assignment
  <2>3. QED  BY <2>1, <2>2 DEF Contract!Next
<1>8. CASE ApplyAdminCancel(r)
  <2>1. Writes(r, status[s] \notin {Absent, "cancelled"}, "cancelled", driver[s])
        /\ s \in Shipments
    BY <1>2, <1>8 DEF ApplyAdminCancel, Serving
  <2>2. Contract!Cancellation(s) \/ UNCHANGED <<status, shipper, driver>>
    BY <1>1, <1>3, <2>1 DEF Contract!Cancellation, Absent
  <2>3. QED  BY <2>1, <2>2 DEF Contract!Next
<1>9. QED  BY <1>4, <1>5, <1>6, <1>7, <1>8 DEF Apply

(* The interleaved handlers implement the atomic contract: no race between *)
(* a read and a write makes a transition the contract does not allow.      *)
THEOREM Refinement == Spec => ImplementsContract
<1>1. Init => Contract!Init
  BY DEF Init, Contract!Init, Absent
<1>2. LifecycleInv /\ [Next]_vars => [Contract!Next]_(Contract!contractVars)
  <2> SUFFICES ASSUME LifecycleInv, [Next]_vars
               PROVE  Contract!Next \/ UNCHANGED <<status, shipper, driver>>
    BY DEF Contract!contractVars
  <2>1. ASSUME NEW r \in Requests, Arrive(r) \/ Check(r) \/ QueueEvent(r) \/ Respond(r)
                                   \/ QueueEventFails(r)
        PROVE  UNCHANGED documents
    BY <2>1 DEF Arrive, Check, CheckCancel, CheckAdvance, CheckAssign, CheckAdminCancel, Goes,
                QueueEvent, Respond, QueueEventFails
  <2>2. ASSUME NEW u \in Users, SetUserStatus(u) PROVE UNCHANGED documents
    BY <2>2 DEF SetUserStatus
  <2>3. Crash \/ UNCHANGED vars => UNCHANGED documents
    BY DEF Crash, vars
  <2>4. UNCHANGED documents => UNCHANGED <<status, shipper, driver>>
    BY DEF documents
  <2>5. QED  BY <2>1, <2>2, <2>3, <2>4, ApplyRefines DEF Next, Proceed
<1>3. QED  BY <1>1, <1>2, LifecycleAlways, PTL DEF Spec, ImplementsContract, Contract!Spec

----------------------------------------------------------------------------
(* The past of a document: what a step may and may not change.             *)

Extends(h, g) ==
  /\ Len(h) <= Len(g)
  /\ \A i \in 1..Len(h) : g[i] = h[i]

Kept(s) ==
  /\ Extends(history[s], history'[s])
  /\ shipper[s] # NoUser => shipper'[s] = shipper[s]
  /\ driver[s] # NoUser => driver'[s] = driver[s]
  /\ status[s] = "cancelled" => status'[s] = "cancelled"

(* A history extends itself, and a pushed entry extends it.                *)
LEMMA PushExtends ==
  ASSUME NEW h \in Seq(Entries), NEW e \in Entries
  PROVE  /\ Extends(h, h) /\ Extends(h, Append(h, e))
         /\ Len(Append(h, e)) = Len(h) + 1 /\ Append(h, e)[Len(h) + 1] = e
  BY DEF Extends

(* A write that leaves a cancelled document alone and sets the driver of a *)
(* document without one, or to what it is, keeps the past.                 *)
LEMMA WritesKeep ==
  ASSUME LifecycleInv, NEW r \in Requests, NEW match, NEW new \in Statuses, NEW newDriver,
         req[r].ship \in Shipments, req[r].user \in Users,
         Writes(r, match, new, newDriver),
         match => LET s == req[r].ship IN
           /\ status[s] = "cancelled" => new = "cancelled"
           /\ driver[s] # NoUser => newDriver = driver[s]
  PROVE  \A s \in Shipments : Kept(s)
<1> SUFFICES ASSUME NEW s \in Shipments PROVE Kept(s)
  OBVIOUS
<1> DEFINE t == req[r].ship
           e == [status |-> new, updatedBy |-> req[r].user]
<1>1. /\ history[s] \in Seq(Entries) /\ e \in Entries
      /\ status \in [Shipments -> Statuses \cup {Absent}]
      /\ driver \in [Shipments -> Drivers \cup {NoUser}]
      /\ history \in [Shipments -> Seq(Entries)]
  BY DEF LifecycleInv, TypeInv, TypeOK, Entries
<1>2. Extends(history[s], history[s]) /\ Extends(history[s], Append(history[s], e))
  BY <1>1, PushExtends
<1>3. shipper' = shipper
  BY DEF Writes
<1>4. CASE UNCHANGED <<status, driver, history>>
  BY <1>2, <1>3, <1>4 DEF Kept
<1>5. CASE /\ match /\ status' = [status EXCEPT ![t] = new]
           /\ driver' = [driver EXCEPT ![t] = newDriver]
           /\ history' = [history EXCEPT ![t] = Append(@, e)]
  <2>1. history'[s] \in {history[s], Append(history[s], e)}
    BY <1>1, <1>5
  <2>2. /\ driver[s] # NoUser => driver'[s] = driver[s]
        /\ status[s] = "cancelled" => status'[s] = "cancelled"
    BY <1>1, <1>5
  <2>3. QED  BY <1>2, <1>3, <2>1, <2>2 DEF Kept
<1>6. QED  BY <1>4, <1>5 DEF Writes

(* The writes of all five handlers keep the past.                          *)
LEMMA ApplyKeeps ==
  ASSUME LifecycleInv, NEW r \in Requests, Apply(r)
  PROVE  \A s \in Shipments : Kept(s)
<1> DEFINE t == req[r].ship
<1>1. /\ req[r] \in Handlers
      /\ {"assigned", "cancelled", req[r].wants} \subseteq Statuses
  BY DEF LifecycleInv, TypeInv, TypeOK, Handlers, Statuses
<1>2. ASSUME req[r].pc = "checked"
      PROVE  t \in Shipments /\ req[r].user \in Users
  BY <1>2, <1>1, RolesAreUsers DEF LifecycleInv, TypeInv, HandlersTyped, Handlers
<1>3. CASE Create(r)
  <2>1. /\ history \in [Shipments -> Seq(Entries)]
        /\ status \in [Shipments -> Statuses \cup {Absent}]
        /\ shipper \in [Shipments -> Shippers \cup {NoUser}]
        /\ \A s \in Shipments : Extends(history[s], history[s])
    BY DEF LifecycleInv, TypeInv, TypeOK, Extends
  <2>2. driver' = driver
    BY <1>3 DEF Create
  <2>3. CASE UNCHANGED <<status, shipper, history>>
    BY <2>1, <2>3, <2>2 DEF Kept
  <2>4. ASSUME NEW q \in Shipments, status[q] = Absent,
               status' = [status EXCEPT ![q] = "pending"],
               shipper' = [shipper EXCEPT ![q] = req[r].user],
               history' = [history EXCEPT ![q] =
                            <<[status |-> "pending", updatedBy |-> req[r].user]>>]
        PROVE  \A s \in Shipments : Kept(s)
    <3> SUFFICES ASSUME NEW s \in Shipments PROVE Kept(s)
      OBVIOUS
    <3>1. CASE q # s
      BY <2>1, <2>4, <2>2, <3>1 DEF Kept
    <3>2. CASE q = s
      <4>1. shipper[s] = NoUser /\ history[s] = << >> /\ status[s] # "cancelled"
        BY <2>4, <3>2 DEF LifecycleInv, SoundDocuments, Sound, Absent
      <4>2. Extends(history[s], history'[s])
        BY <2>1, <2>4, <3>2, <4>1 DEF Extends
      <4>3. QED  BY <2>2, <4>1, <4>2 DEF Kept
    <3>3. QED  BY <3>1, <3>2
  <2>5. QED  BY <1>3, <2>3, <2>4 DEF Create
<1>4. CASE ApplyCancel(r)
  BY <1>1, <1>2, <1>4, WritesKeep DEF ApplyCancel, Serving
<1>5. CASE ApplyAdvance(r)
  <2>1. /\ Writes(r, driver[t] = req[r].user /\ status[t] = req[r].seen, req[r].wants, driver[t])
        /\ req[r].pc = "checked" /\ req[r].seen # "cancelled"
    BY <1>5 DEF ApplyAdvance, Serving, LifecycleInv, AdvancesChecked, STATUS_PROGRESSION
  <2>2. QED  BY <1>1, <1>2, <2>1, WritesKeep
<1>6. CASE ApplyAssign(r)
  <2>1. /\ Writes(r, status[t] = "pending", "assigned", req[r].target)
        /\ req[r].pc = "checked"
    BY <1>6 DEF ApplyAssign, Serving
  <2>2. status[t] = "pending" => driver[t] = NoUser
    BY <1>2, <2>1, PendingHasNoDriver
  <2>3. QED  BY <1>1, <1>2, <2>1, <2>2, WritesKeep
<1>7. CASE ApplyAdminCancel(r)
  BY <1>1, <1>2, <1>7, WritesKeep DEF ApplyAdminCancel, Serving
<1>8. QED  BY <1>3, <1>4, <1>5, <1>6, <1>7 DEF Apply

(* So does every other step, which writes no document.                     *)
LEMMA NextKeeps ==
  ASSUME LifecycleInv, [Next]_vars
  PROVE  \A s \in Shipments : Kept(s)
<1>1. ASSUME UNCHANGED documents PROVE \A s \in Shipments : Kept(s)
  <2>1. \A s \in Shipments : Extends(history[s], history[s])
    BY DEF LifecycleInv, TypeInv, TypeOK, Extends
  <2>2. QED  BY <1>1, <2>1 DEF Kept, documents
<1>2. ASSUME NEW r \in Requests, Arrive(r) \/ Check(r) \/ QueueEvent(r) \/ Respond(r)
                                 \/ QueueEventFails(r)
      PROVE  UNCHANGED documents
  BY <1>2 DEF Arrive, Check, CheckCancel, CheckAdvance, CheckAssign, CheckAdminCancel, Goes,
              QueueEvent, Respond, QueueEventFails
<1>3. ASSUME NEW u \in Users, SetUserStatus(u) PROVE UNCHANGED documents
  BY <1>3 DEF SetUserStatus
<1>4. Crash \/ UNCHANGED vars => UNCHANGED documents
  BY DEF Crash, vars
<1>5. QED  BY <1>1, <1>2, <1>3, <1>4, ApplyKeeps DEF Next, Proceed

(* No interleaving rewrites the past: histories only grow, shipper and     *)
(* driver stay, and cancelled is final.                                    *)
THEOREM PastIsKept == Spec => NothingRewritten
<1>1. LifecycleInv /\ [Next]_vars =>
        [\A s \in Shipments :
           /\ Len(history[s]) <= Len(history'[s])
           /\ \A i \in 1..Len(history[s]) : history'[s][i] = history[s][i]
           /\ shipper[s] # NoUser => shipper'[s] = shipper[s]
           /\ driver[s] # NoUser => driver'[s] = driver[s]
           /\ status[s] = "cancelled" => status'[s] = "cancelled"]_vars
  BY NextKeeps DEF Kept, Extends
<1>2. QED  BY <1>1, LifecycleAlways, PTL DEF Spec, NothingRewritten

----------------------------------------------------------------------------
(* What events and audit jobs say.                                         *)

Told(h, e) ==
  /\ e.at \in 1..Len(h)
  /\ e.newStatus = h[e.at].status
  /\ e.op = "create" <=> e.at = 1
  /\ e.op \in {"cancel", "advance", "assign"} => e.previousStatus = h[e.at - 1].status
  /\ e.op = "adminCancel" => \E j \in 1..(e.at - 1) : e.previousStatus = h[j].status

(* A checked handler remembers a status that its shipment has had; one     *)
(* past its write would record the entry it pushed.                        *)
Remembers(r) ==
  LET h == history[req[r].ship] IN
    /\ req[r].pc \in {"applied", "queued"} => Told(h, RecordOf(r))
    /\ req[r].pc = "checked" /\ req[r].op \in {"cancel", "assign"} => req[r].seen = "pending"
    /\ req[r].pc = "checked" /\ req[r].op = "adminCancel" =>
          \E j \in 1..Len(h) : req[r].seen = h[j].status

RecordsInv ==
  /\ LifecycleInv
  /\ \A r \in Requests : Remembers(r)
  /\ \A e \in outbox \cup audit : Told(history[e.ship], e)

(* What was true of a history is true of one that extends it.              *)
LEMMA ToldStays ==
  ASSUME NEW h \in Seq(Entries), NEW g \in Seq(Entries), Extends(h, g),
         NEW e, e.at \in Nat, Told(h, e)
  PROVE  Told(g, e)
<1>1. /\ Len(h) \in Nat /\ Len(g) \in Nat /\ Len(h) <= Len(g)
      /\ e.at \in 1..Len(h) /\ e.at \in 1..Len(g) /\ g[e.at] = h[e.at]
  BY DEF Extends, Told
<1>2. e.at # 1 => e.at - 1 \in 1..Len(h) /\ g[e.at - 1] = h[e.at - 1]
  BY <1>1 DEF Extends
<1>3. \A j \in 1..(e.at - 1) : g[j] = h[j]
  BY <1>1 DEF Extends
<1>4. e.op \in {"cancel", "advance", "assign"} => e.at # 1
  BY DEF Told
<1>5. QED  BY <1>1, <1>2, <1>3, <1>4 DEF Told
(* Every history, before and after a step, is a sequence that grew.        *)
LEMMA HistoriesGrow ==
  ASSUME LifecycleInv, [Next]_vars
  PROVE  \A s \in Shipments : /\ history[s] \in Seq(Entries) /\ history'[s] \in Seq(Entries)
                             /\ Extends(history[s], history'[s])
<1>1. TypeOK /\ TypeOK'
  BY NextTyped DEF LifecycleInv, TypeInv
<1>2. QED  BY <1>1, NextKeeps DEF TypeOK, Kept

(* A slot that a step leaves alone still remembers.                        *)
LEMMA SlotStays ==
  ASSUME RecordsInv, [Next]_vars, NEW q \in Requests, req'[q] = req[q]
  PROVE  Remembers(q)'
<1> DEFINE h == history[req[q].ship]
           g == history'[req[q].ship]
<1>1. Remembers(q) /\ req[q] \in Handlers /\ RecordOf(q)' = RecordOf(q)
  BY DEF RecordsInv, LifecycleInv, TypeInv, TypeOK, RecordOf
<1>2. CASE req[q].pc \in {"idle", "arrived"}
  BY <1>2 DEF Remembers
<1>3. CASE req[q].pc \in {"checked", "applied", "queued"}
  <2>1. req[q].ship \in Shipments
    BY <1>3 DEF RecordsInv, LifecycleInv, TypeInv, HandlersTyped
  <2>2. h \in Seq(Entries) /\ g \in Seq(Entries) /\ Extends(h, g)
    BY <2>1, HistoriesGrow DEF RecordsInv
  <2> HIDE DEF h, g
  <2>3. req[q].pc \in {"applied", "queued"} => Told(g, RecordOf(q))
    <3>1. RecordOf(q).at \in Nat
      BY <1>1 DEF RecordOf, Handlers
    <3>2. QED  BY <1>1, <2>2, <3>1, ToldStays DEF Remembers, h
  <2>4. (\E j \in 1..Len(h) : req[q].seen = h[j].status)
           => \E j \in 1..Len(g) : req[q].seen = g[j].status
    BY <2>2 DEF Extends
  <2>5. QED  BY <1>1, <2>3, <2>4 DEF Remembers, h, g
<1>4. QED  BY <1>1, <1>2, <1>3 DEF Handlers, Phases

(* A check remembers the status it read.                                   *)
LEMMA CheckRemembers ==
  ASSUME RecordsInv, NEW r \in Requests, Check(r)
  PROVE  Remembers(r)'
<1> DEFINE s == req[r].ship
<1>1. /\ req \in [Requests -> Handlers] /\ req[r] \in Handlers
      /\ Idle.pc = "idle"
  BY DEF RecordsInv, LifecycleInv, TypeInv, TypeOK, Idle
<1>2. req[r].pc = "arrived" /\ req[r].op # "create"
  BY DEF Check, CheckCancel, CheckAdvance, CheckAssign, CheckAdminCancel, Serving
<1>3. s \in Shipments /\ history' = history
  BY <1>2 DEF RecordsInv, LifecycleInv, TypeInv, HandlersTyped, Check, CheckCancel,
              CheckAdvance, CheckAssign, CheckAdminCancel, Goes, documents
<1>4. ASSUME NEW ok, NEW seen, Goes(r, ok, seen),
             ok => /\ req[r].op \in {"cancel", "assign"} => seen = "pending"
                   /\ req[r].op = "adminCancel" =>
                        \E j \in 1..Len(history[s]) : seen = history[s][j].status
      PROVE  Remembers(r)'
  <2>1. req'[r] = IF ok THEN [req[r] EXCEPT !.pc = "checked", !.seen = seen] ELSE Idle
    BY <1>1, <1>4 DEF Goes
  <2>2. CASE ~ok
    BY <1>1, <2>1, <2>2 DEF Remembers
  <2>3. CASE ok
    <3>1. /\ req'[r].pc = "checked" /\ req'[r].seen = seen
          /\ req'[r].op = req[r].op /\ req'[r].ship = s
      BY <1>1, <2>1, <2>3 DEF Handlers
    <3>2. QED  BY <1>3, <1>4, <2>3, <3>1 DEF Remembers
  <2>4. QED  BY <2>2, <2>3
<1>5. CASE CheckCancel(r)
  BY <1>4, <1>5 DEF CheckCancel, Serving
<1>6. CASE CheckAdvance(r)
  BY <1>4, <1>6 DEF CheckAdvance, Serving
<1>7. CASE CheckAssign(r)
  BY <1>4, <1>7 DEF CheckAssign, Serving
<1>8. CASE CheckAdminCancel(r)
  <2>1. Goes(r, status[s] \notin {Absent, "cancelled"}, status[s])
        /\ req[r].op = "adminCancel"
    BY <1>8 DEF CheckAdminCancel, Serving
  <2>2. Sound(status[s], shipper[s], driver[s], history[s]) /\ history[s] \in Seq(Entries)
    BY <1>3 DEF RecordsInv, LifecycleInv, SoundDocuments, TypeInv, TypeOK
  <2>3. status[s] # Absent => Len(history[s]) \in 1..Len(history[s])
                              /\ status[s] = history[s][Len(history[s])].status
    BY <2>2 DEF Sound
  <2>4. QED  BY <1>4, <2>1, <2>3
<1>9. QED  BY <1>5, <1>6, <1>7, <1>8 DEF Check
(* A conditional write that matched would record the entry it pushed and   *)
(* the status its handler had read.                                        *)
LEMMA WritesRemember ==
  ASSUME RecordsInv, NEW r \in Requests, req[r].pc = "checked",
         NEW match, NEW new \in Statuses, NEW newDriver, Writes(r, match, new, newDriver),
         match => LET s == req[r].ship
                      h == history[s]
                  IN /\ status[s] # Absent
                     /\ req[r].op = "assign" => new = "assigned"
                     /\ req[r].op = "advance" => new = req[r].wants
                     /\ req[r].op \in {"cancel", "adminCancel"} => new = "cancelled"
                     /\ req[r].op \in {"cancel", "advance", "assign"} => req[r].seen = status[s]
  PROVE  Remembers(r)'
<1> DEFINE s == req[r].ship
           h == history[s]
           e == [status |-> new, updatedBy |-> req[r].user]
           g == Append(h, e)
           d == RecordOf(r)'
<1>1. /\ req \in [Requests -> Handlers] /\ req[r] \in Handlers /\ Idle.pc = "idle"
      /\ history \in [Shipments -> Seq(Entries)]
  BY DEF RecordsInv, LifecycleInv, TypeInv, TypeOK, Idle
<1>2. s \in Shipments /\ req[r].op # "create" /\ req[r].user \in Users
  BY <1>1, RolesAreUsers DEF RecordsInv, LifecycleInv, TypeInv, HandlersTyped, Handlers
<1>3. h \in Seq(Entries) /\ Sound(status[s], shipper[s], driver[s], h) /\ e \in Entries
  BY <1>1, <1>2 DEF RecordsInv, LifecycleInv, SoundDocuments, Entries
<1>4. CASE req' = [req EXCEPT ![r] = Idle]
  BY <1>1, <1>4 DEF Remembers
<1>5. CASE /\ match
           /\ history' = [history EXCEPT ![s] = g]
           /\ req' = [req EXCEPT ![r] = [@ EXCEPT !.pc = "applied", !.at = Len(h) + 1]]
  <2>1. /\ req'[r].pc = "applied" /\ req'[r].at = Len(h) + 1 /\ req'[r].ship = s
        /\ req'[r].op = req[r].op /\ req'[r].wants = req[r].wants /\ req'[r].seen = req[r].seen
    BY <1>1, <1>5 DEF Handlers
  <2>2. history'[s] = g
    BY <1>1, <1>2, <1>5
  <2>3. /\ Len(h) \in Nat \ {0} /\ h[Len(h)].status = status[s]
        /\ Len(g) = Len(h) + 1 /\ g[Len(h) + 1] = e
        /\ \A i \in 1..Len(h) : g[i] = h[i]
    BY <1>3, <1>5, PushExtends DEF Sound, Extends
  <2>4. d.op = req[r].op /\ d.at = Len(h) + 1 /\ d.previousStatus = req[r].seen
    BY <2>1 DEF RecordOf
  <2>5. d.newStatus = new
    <3>1. req[r].op \in {"cancel", "advance", "assign", "adminCancel"}
      BY <1>1, <1>2 DEF Handlers, Ops
    <3>2. CASE req[r].op = "assign"
      BY <1>5, <2>1, <3>2 DEF RecordOf
    <3>3. CASE req[r].op = "advance"
      BY <1>5, <2>1, <3>3 DEF RecordOf
    <3>4. CASE req[r].op \in {"cancel", "adminCancel"}
      BY <1>5, <2>1, <3>4 DEF RecordOf
    <3>5. QED  BY <3>1, <3>2, <3>3, <3>4
  <2> HIDE DEF d, g, h
  <2>6. d.at \in 1..Len(g) /\ d.at # 1 /\ d.at - 1 = Len(h) /\ Len(h) \in 1..Len(h)
    BY <2>3, <2>4
  <2>7. d.newStatus = g[d.at].status
    BY <2>3, <2>4, <2>5
  <2>8. d.op \in {"cancel", "advance", "assign"} => d.previousStatus = g[d.at - 1].status
    BY <1>5, <2>3, <2>4, <2>6 DEF h
  <2>9. d.op = "adminCancel" => \E j \in 1..(d.at - 1) : d.previousStatus = g[j].status
    <3>1. d.op = "adminCancel" => \E j \in 1..Len(h) : req[r].seen = h[j].status
      BY <2>4 DEF RecordsInv, Remembers, h
    <3>2. QED  BY <2>3, <2>4, <2>6, <3>1
  <2>10. Told(g, d)
    BY <1>2, <2>4, <2>6, <2>7, <2>8, <2>9 DEF Told
  <2>11. QED  BY <2>1, <2>2, <2>10 DEF Remembers, d
<1>6. QED  BY <1>4, <1>5 DEF Writes

(* A creation would record its pending entry; the other writes are         *)
(* instances of WritesRemember, since their filters name the status read.  *)
LEMMA ApplyRemembers ==
  ASSUME RecordsInv, NEW r \in Requests, Apply(r)
  PROVE  Remembers(r)'
<1> DEFINE s == req[r].ship
<1>1. /\ req \in [Requests -> Handlers] /\ req[r] \in Handlers /\ Idle.pc = "idle"
      /\ history \in [Shipments -> Seq(Entries)]
      /\ {"assigned", "cancelled", req[r].wants} \subseteq Statuses
  BY DEF RecordsInv, LifecycleInv, TypeInv, TypeOK, Idle, Handlers, Statuses
<1>2. Remembers(r)
  BY DEF RecordsInv
<1>3. CASE Create(r)
  <2>1. CASE req' = [req EXCEPT ![r] = Idle]
    BY <1>1, <2>1 DEF Remembers
  <2>2. req[r].op = "create"
    BY <1>3 DEF Create, Serving
  <2>3. ASSUME NEW t \in Shipments,
               history' = [history EXCEPT ![t] =
                            <<[status |-> "pending", updatedBy |-> req[r].user]>>],
               req' = [req EXCEPT ![r] =
                        [@ EXCEPT !.pc = "applied", !.ship = t, !.at = 1]]
        PROVE  Remembers(r)'
    <3> DEFINE g == <<[status |-> "pending", updatedBy |-> req[r].user]>>
               d == RecordOf(r)'
    <3>1. /\ req'[r].pc = "applied" /\ req'[r].at = 1 /\ req'[r].ship = t
          /\ req'[r].op = "create"
      BY <1>1, <2>2, <2>3 DEF Handlers
    <3>2. history'[t] = g /\ Len(g) = 1 /\ g[1].status = "pending"
      BY <1>1, <2>3
    <3>3. d.op = "create" /\ d.at = 1 /\ d.newStatus = "pending"
      BY <3>1 DEF RecordOf
    <3> HIDE DEF g, d
    <3>4. Told(g, d)
      BY <3>2, <3>3 DEF Told
    <3>5. QED  BY <3>1, <3>2, <3>4 DEF Remembers, d
  <2>4. QED  BY <1>3, <2>1, <2>3 DEF Create
<1>4. CASE ApplyCancel(r)
  <2>1. /\ Writes(r, shipper[s] = req[r].user /\ status[s] = "pending", "cancelled", driver[s])
        /\ req[r].pc = "checked" /\ req[r].op = "cancel"
    BY <1>4 DEF ApplyCancel, Serving
  <2>2. req[r].seen = "pending"
    BY <1>2, <2>1 DEF Remembers
  <2>3. QED  BY <1>1, <2>1, <2>2, WritesRemember DEF Absent
<1>5. CASE ApplyAdvance(r)
  <2>1. /\ Writes(r, driver[s] = req[r].user /\ status[s] = req[r].seen, req[r].wants, driver[s])
        /\ req[r].pc = "checked" /\ req[r].op = "advance"
        /\ req[r].seen # Absent
    BY <1>5 DEF ApplyAdvance, Serving, RecordsInv, LifecycleInv, AdvancesChecked,
                STATUS_PROGRESSION, Absent
  <2>2. QED  BY <1>1, <2>1, WritesRemember
<1>6. CASE ApplyAssign(r)
  <2>1. /\ Writes(r, status[s] = "pending", "assigned", req[r].target)
        /\ req[r].pc = "checked" /\ req[r].op = "assign"
    BY <1>6 DEF ApplyAssign, Serving
  <2>2. req[r].seen = "pending"
    BY <1>2, <2>1 DEF Remembers
  <2>3. QED  BY <1>1, <2>1, <2>2, WritesRemember DEF Absent
<1>7. CASE ApplyAdminCancel(r)
  <2>1. /\ Writes(r, status[s] \notin {Absent, "cancelled"}, "cancelled", driver[s])
        /\ req[r].pc = "checked" /\ req[r].op = "adminCancel"
    BY <1>7 DEF ApplyAdminCancel, Serving
  <2>2. QED  BY <1>1, <2>1, WritesRemember
<1>8. QED  BY <1>3, <1>4, <1>5, <1>6, <1>7 DEF Apply

(* Storing the event or responding changes no local but the phase.         *)
LEMMA EmissionRemembers ==
  ASSUME RecordsInv, NEW r \in Requests,
         QueueEvent(r) \/ QueueEventFails(r) \/ Respond(r)
  PROVE  Remembers(r)'
<1>1. /\ req \in [Requests -> Handlers] /\ req[r] \in Handlers /\ Idle.pc = "idle"
  BY DEF RecordsInv, LifecycleInv, TypeInv, TypeOK, Idle
<1>2. CASE QueueEventFails(r) \/ Respond(r)
  <2>1. req'[r].pc = "idle"
    BY <1>1, <1>2 DEF QueueEventFails, Respond
  <2>2. QED  BY <2>1 DEF Remembers
<1>3. CASE QueueEvent(r)
  <2>1. Told(history[req[r].ship], RecordOf(r)) /\ history' = history
    BY <1>3 DEF QueueEvent, RecordsInv, Remembers, documents
  <2>2. /\ req'[r].pc = "queued" /\ req'[r].ship = req[r].ship /\ req'[r].op = req[r].op
        /\ req'[r].at = req[r].at /\ req'[r].seen = req[r].seen /\ req'[r].wants = req[r].wants
    BY <1>1, <1>3 DEF QueueEvent, Handlers
  <2>3. RecordOf(r)' = RecordOf(r)
    BY <2>2 DEF RecordOf
  <2>4. QED  BY <2>1, <2>2, <2>3 DEF Remembers
<1>4. QED  BY <1>2, <1>3

(* A step of one slot leaves the other slots alone.                        *)
LEMMA OneSlotMoves ==
  ASSUME TypeInv, NEW r \in Requests, Arrive(r) \/ Proceed(r) \/ QueueEventFails(r),
         NEW q \in Requests, q # r
  PROVE  req'[q] = req[q]
<1>1. req \in [Requests -> Handlers]
  BY DEF TypeInv, TypeOK
<1>2. CASE Arrive(r)
  BY <1>1, <1>2 DEF Arrive
<1>3. CASE Check(r)
  BY <1>1, <1>3 DEF Check, CheckCancel, CheckAdvance, CheckAssign, CheckAdminCancel, Goes
<1>4. CASE Create(r)
  BY <1>1, <1>4 DEF Create
<1>5. ASSUME NEW match, NEW new, NEW d, Writes(r, match, new, d)
      PROVE  req'[q] = req[q]
  BY <1>1, <1>5 DEF Writes
<1>6. CASE Apply(r)
  BY <1>4, <1>5, <1>6 DEF Apply, ApplyCancel, ApplyAdvance, ApplyAssign, ApplyAdminCancel
<1>7. CASE QueueEvent(r) \/ QueueEventFails(r) \/ Respond(r)
  BY <1>1, <1>7 DEF QueueEvent, QueueEventFails, Respond
<1>8. QED  BY <1>2, <1>3, <1>6, <1>7 DEF Proceed

(* Only the two emissions add a record, the one their handler remembers.   *)
LEMMA RecordsStayTold ==
  ASSUME RecordsInv, [Next]_vars
  PROVE  (\A e \in outbox \cup audit : Told(history[e.ship], e))'
<1>1. ASSUME NEW e \in Records, Told(history[e.ship], e)
      PROVE  Told(history'[e.ship], e)
  <2>1. e.ship \in Shipments /\ e.at \in Nat
    BY DEF Records
  <2>2. QED  BY <1>1, <2>1, HistoriesGrow, ToldStays DEF RecordsInv
<1>2. outbox \cup audit \subseteq Records
  BY DEF RecordsInv, LifecycleInv, TypeInv, TypeOK
<1>3. CASE UNCHANGED <<outbox, audit>>
  BY <1>1, <1>2, <1>3 DEF RecordsInv
<1>4. ASSUME NEW r \in Requests, QueueEvent(r) \/ Respond(r)
      PROVE  \A e \in outbox' \cup audit' : Told(history'[e.ship], e)
  <2>1. /\ req[r].pc \in {"applied", "queued"}
        /\ outbox' \cup audit' \subseteq outbox \cup audit \cup {RecordOf(r)}
    BY <1>4 DEF QueueEvent, Respond
  <2>2. RecordOf(r) \in Records /\ RecordOf(r).ship = req[r].ship
    BY <2>1, RecordTyped DEF RecordsInv, LifecycleInv, RecordOf
  <2>3. Told(history[RecordOf(r).ship], RecordOf(r))
    BY <2>1, <2>2 DEF RecordsInv, Remembers
  <2>4. QED  BY <1>1, <1>2, <2>1, <2>2, <2>3 DEF RecordsInv
<1>5. ASSUME NEW r \in Requests, Arrive(r) \/ Check(r) \/ QueueEventFails(r)
      PROVE  UNCHANGED <<outbox, audit>>
  BY <1>5 DEF Arrive, Check, CheckCancel, CheckAdvance, CheckAssign, CheckAdminCancel, Goes,
              QueueEventFails
<1>6. ASSUME NEW r \in Requests, Apply(r)
      PROVE  UNCHANGED <<outbox, audit>>
  BY <1>6 DEF Apply, Create, ApplyCancel, ApplyAdvance, ApplyAssign, ApplyAdminCancel, Writes
<1>7. (\E u \in Users : SetUserStatus(u)) \/ Crash \/ UNCHANGED vars
        => UNCHANGED <<outbox, audit>>
  BY DEF SetUserStatus, Crash, vars
<1>8. QED  BY <1>3, <1>4, <1>5, <1>6, <1>7 DEF Next, Proceed

(* The invariant of the records is inductive.                              *)
LEMMA NextRecords == RecordsInv /\ [Next]_vars => RecordsInv'
<1> SUFFICES ASSUME RecordsInv, [Next]_vars
             PROVE  (\A q \in Requests : Remembers(q))'
  BY NextLifecycle, RecordsStayTold DEF RecordsInv
<1> SUFFICES ASSUME NEW q \in Requests, req'[q] # req[q] PROVE Remembers(q)'
  BY SlotStays
<1>0. req \in [Requests -> Handlers] /\ TypeInv
  BY DEF RecordsInv, LifecycleInv, TypeInv, TypeOK
<1>1. ASSUME NEW r \in Requests, Arrive(r) \/ Proceed(r) \/ QueueEventFails(r)
      PROVE  Remembers(q)'
  <2>1. q = r
    BY <1>0, <1>1, OneSlotMoves
  <2>2. CASE Arrive(r)
    <3>1. req'[r].pc = "arrived"
      BY <1>0, <2>2 DEF Arrive, Admitted, Idle
    <3>2. QED  BY <2>1, <3>1 DEF Remembers
  <2>3. QED
    BY <1>1, <2>1, <2>2, CheckRemembers, ApplyRemembers, EmissionRemembers DEF Proceed
<1>2. CASE Crash
  <2>1. req'[q].pc = "idle"
    BY <1>2 DEF Crash, Idle
  <2>2. QED  BY <2>1 DEF Remembers
<1>3. CASE (\E u \in Users : SetUserStatus(u)) \/ UNCHANGED vars
  BY <1>3 DEF SetUserStatus, vars
<1>4. QED  BY <1>1, <1>2, <1>3 DEF Next

(* Every event and audit job tells what happened: the entry it is about,   *)
(* and the status before it; for an admin's cancellation one of those      *)
(* before it.                                                              *)
THEOREM RecordsCorrect == Spec => []RecordsTellTheHistory
<1>1. Init => RecordsInv
  BY InitLifecycle DEF Init, RecordsInv, Remembers, Idle
<1>2. RecordsInv => RecordsTellTheHistory
  BY DEF RecordsInv, Told, RecordsTellTheHistory
<1>3. QED  BY <1>1, <1>2, NextRecords, PTL DEF Spec

----------------------------------------------------------------------------
(* Which transitions are announced.  A step loses announcements only by a  *)
(* failure, and then those of the slots: at most one for each.             *)

Places == {req[r].at : r \in Requests}

(* The slots name finitely many entries of a history.                      *)
LEMMA FewPlaces ==
  /\ IsFiniteSet(Places) /\ Cardinality(Places) <= Cardinality(Requests)
  /\ Cardinality(Places) \in Nat /\ Cardinality(Requests) \in Nat
<1> DEFINE f == [r \in Requests |-> req[r].at]
<1>1. f \in Surjection(Requests, Places)
  BY DEF Surjection, Places
<1> HIDE DEF f
<1>2. IsFiniteSet(Places) /\ Cardinality(Places) <= Cardinality(Requests)
  BY <1>1, SlotsAssumption, FS_Surjection
<1>3. QED  BY <1>2, SlotsAssumption, FS_CardinalityType

(* While nothing fails, what is announced stays so.                        *)
LEMMA StaysAnnounced ==
  ASSUME TypeInv, [Next]_vars, failures' = failures,
         NEW s \in Shipments, NEW i, Announced(s, i)
  PROVE  Announced(s, i)'
<1>1. outbox \subseteq outbox'
  BY DEF Next, Arrive, Proceed, Check, CheckCancel, CheckAdvance, CheckAssign,
         CheckAdminCancel, Goes, Apply, Create, ApplyCancel, ApplyAdvance, ApplyAssign,
         ApplyAdminCancel, Writes, QueueEvent, Respond, QueueEventFails, SetUserStatus,
         Crash, vars
<1>2. CASE \E e \in outbox : e.ship = s /\ e.at = i
  BY <1>1, <1>2 DEF Announced
<1>3. ASSUME NEW r \in Requests, req[r].pc = "applied", req[r].ship = s, req[r].at = i
      PROVE  Announced(s, i)'
  <2>1. CASE req'[r] = req[r]
    BY <1>3, <2>1 DEF Announced
  <2>2. CASE QueueEvent(r)
    <3>1. RecordOf(r) \in outbox'
      BY <2>2 DEF QueueEvent
    <3>2. RecordOf(r).ship = s /\ RecordOf(r).at = i
      BY <1>3 DEF RecordOf
    <3>3. QED  BY <3>1, <3>2 DEF Announced
  <2>3. ASSUME NEW q \in Requests, Arrive(q) \/ Proceed(q) \/ QueueEventFails(q)
        PROVE  req'[r] = req[r] \/ QueueEvent(r)
    <3>1. q # r => req'[r] = req[r]
      BY <2>3, OneSlotMoves
    <3>2. ~ QueueEventFails(q)
      BY BoundAssumption DEF TypeInv, TypeOK, QueueEventFails
    <3>3. Arrive(q) => req[q].pc = "idle"
      BY DEF Arrive
    <3>4. Check(q) \/ Apply(q) => req[q].pc \in {"arrived", "checked"}
      BY DEF Check, CheckCancel, CheckAdvance, CheckAssign, CheckAdminCancel,
             Apply, Create, ApplyCancel, ApplyAdvance, ApplyAssign, ApplyAdminCancel, Serving
    <3>5. Respond(q) => req[q].pc = "queued"
      BY DEF Respond
    <3>6. QED  BY <1>3, <2>3, <3>1, <3>2, <3>3, <3>4, <3>5 DEF Proceed
  <2>4. ~ Crash
    BY BoundAssumption DEF TypeInv, TypeOK, Crash
  <2>5. QED  BY <2>1, <2>2, <2>3, <2>4 DEF Next, SetUserStatus, vars
<1>4. QED  BY <1>2, <1>3 DEF Announced

(* A new entry is that of a handler that is about to announce it.          *)
LEMMA NewIsAnnounced ==
  ASSUME LifecycleInv, [Next]_vars, NEW s \in Shipments,
         NEW i \in 1..Len(history'[s]), i \notin 1..Len(history[s])
  PROVE  Announced(s, i)'
<1>1. /\ history \in [Shipments -> Seq(Entries)] /\ req \in [Requests -> Handlers]
      /\ history'[s] # history[s] /\ Len(history[s]) \in Nat
  BY DEF LifecycleInv, TypeInv, TypeOK
<1>2. ASSUME NEW r \in Requests, NEW n, req'[r].pc = "applied", req'[r].ship = s, req'[r].at = n,
             n = i
      PROVE  Announced(s, i)'
  BY <1>2 DEF Announced
<1>3. ASSUME NEW r \in Requests, req[r].pc = "checked", req[r].user \in Users,
             NEW match, NEW new \in Statuses, NEW d, Writes(r, match, new, d)
      PROVE  Announced(s, i)'
  <2> DEFINE t == req[r].ship
             e == [status |-> new, updatedBy |-> req[r].user]
  <2>1. /\ history' = [history EXCEPT ![t] = Append(@, e)]
        /\ req' = [req EXCEPT ![r] = [@ EXCEPT !.pc = "applied", !.at = Len(history[t]) + 1]]
    BY <1>1, <1>3 DEF Writes
  <2>2. t = s /\ history'[s] = Append(history[s], e)
    BY <1>1, <2>1
  <2>3. e \in Entries
    BY <1>3 DEF Entries
  <2>4. Len(history'[s]) = Len(history[s]) + 1
    BY <1>1, <2>2, <2>3, PushExtends
  <2>5. i = Len(history[s]) + 1
    BY <1>1, <2>4
  <2>6. req'[r].pc = "applied" /\ req'[r].ship = s /\ req'[r].at = Len(history[s]) + 1
    BY <1>1, <2>1, <2>2 DEF Handlers
  <2>7. QED  BY <1>2, <2>5, <2>6
<1>4. ASSUME NEW r \in Requests, Create(r) PROVE Announced(s, i)'
  <2>1. PICK t \in Shipments :
          /\ history' = [history EXCEPT ![t] =
                           <<[status |-> "pending", updatedBy |-> req[r].user]>>]
          /\ req' = [req EXCEPT ![r] = [@ EXCEPT !.pc = "applied", !.ship = t, !.at = 1]]
    BY <1>1, <1>4 DEF Create
  <2>2. t = s /\ Len(history'[s]) = 1
    BY <1>1, <2>1
  <2>3. i = 1
    BY <2>2
  <2>4. req'[r].pc = "applied" /\ req'[r].ship = s /\ req'[r].at = 1
    BY <1>1, <2>1, <2>2 DEF Handlers
  <2>5. QED  BY <1>2, <2>3, <2>4
<1>5. ASSUME NEW r \in Requests, Apply(r) PROVE Announced(s, i)'
  <2>1. req[r] \in Handlers /\ {"assigned", "cancelled", req[r].wants} \subseteq Statuses
    BY <1>1 DEF Handlers, Statuses
  <2>2. req[r].pc = "checked" => req[r].user \in Users
    BY <2>1, RolesAreUsers DEF LifecycleInv, TypeInv, HandlersTyped, Handlers
  <2>3. QED
    BY <1>3, <1>4, <1>5, <2>1, <2>2
       DEF Apply, ApplyCancel, ApplyAdvance, ApplyAssign, ApplyAdminCancel, Serving
<1>6. ASSUME NEW r \in Requests, Arrive(r) \/ Check(r) \/ QueueEvent(r) \/ Respond(r)
                                 \/ QueueEventFails(r)
      PROVE  UNCHANGED documents
  BY <1>6 DEF Arrive, Check, CheckCancel, CheckAdvance, CheckAssign, CheckAdminCancel, Goes,
              QueueEvent, Respond, QueueEventFails
<1>7. (\E u \in Users : SetUserStatus(u)) \/ Crash \/ UNCHANGED vars => UNCHANGED documents
  BY DEF SetUserStatus, Crash, vars
<1>8. ~ UNCHANGED documents
  BY <1>1 DEF documents
<1>9. QED  BY <1>5, <1>6, <1>7, <1>8 DEF Next, Proceed

(* A failure takes announcements away from the slots' entries only.        *)
LEMMA FailureForgets ==
  ASSUME TypeInv, [Next]_vars, failures' # failures, NEW s \in Shipments
  PROVE  /\ failures' = failures + 1 /\ history' = history
         /\ Unannounced(s)' \subseteq Unannounced(s) \cup Places
<1>1. Crash \/ \E r \in Requests : QueueEventFails(r)
  BY DEF Next, Arrive, Proceed, Check, CheckCancel, CheckAdvance, CheckAssign,
         CheckAdminCancel, Goes, Apply, Create, ApplyCancel, ApplyAdvance, ApplyAssign,
         ApplyAdminCancel, Writes, QueueEvent, Respond, SetUserStatus, vars
<1>2. failures' = failures + 1 /\ history' = history /\ outbox' = outbox
  BY <1>1 DEF Crash, QueueEventFails, documents
<1>3. \A i : Announced(s, i) => Announced(s, i)' \/ i \in Places
  BY <1>2 DEF Announced, Places
<1>4. QED  BY <1>2, <1>3 DEF Unannounced

(* Each failure costs at most the announcements of the handlers in flight. *)
LEMMA NextAnnounced ==
  ASSUME LifecycleInv, AnnouncedUnlessFailed, [Next]_vars
  PROVE  AnnouncedUnlessFailed'
<1> SUFFICES ASSUME NEW s \in Shipments
             PROVE  Cardinality(Unannounced(s))' <= failures' * Cardinality(Requests)
  BY DEF AnnouncedUnlessFailed
<1> DEFINE U == Unannounced(s)
           c == Cardinality(Requests)
<1>1. Len(history[s]) \in Nat /\ failures \in Nat /\ TypeInv
  BY BoundAssumption DEF LifecycleInv, TypeInv, TypeOK
<1>2. IsFiniteSet(U) /\ Cardinality(U) \in Nat
  <2>1. IsFiniteSet(1..Len(history[s]))
    BY <1>1, FS_Interval
  <2>2. U \subseteq 1..Len(history[s])
    BY DEF Unannounced
  <2>3. QED  BY <2>1, <2>2, FS_Subset, FS_CardinalityType
<1>3. Cardinality(U) <= failures * c /\ c \in Nat
  BY FewPlaces DEF AnnouncedUnlessFailed
<1>4. CASE failures' = failures
  <2>1. U' \subseteq U
    BY <1>1, <1>4, StaysAnnounced, NewIsAnnounced DEF Unannounced
  <2>2. Cardinality(U') <= Cardinality(U) /\ Cardinality(U') \in Nat
    BY <1>2, <2>1, FS_Subset, FS_CardinalityType
  <2> HIDE DEF U, c
  <2>3. Cardinality(U') <= failures * c
    <3>1. failures * c \in Nat
      BY <1>1, <1>3
    <3>2. QED  BY <1>2, <1>3, <2>2, <3>1
  <2>4. QED  BY <1>4, <2>3 DEF U, c
<1>5. CASE failures' # failures
  <2>1. failures' = failures + 1 /\ U' \subseteq U \cup Places
    BY <1>1, <1>5, FailureForgets
  <2>2. /\ IsFiniteSet(U \cup Places)
        /\ Cardinality(U \cup Places)
             = Cardinality(U) + Cardinality(Places) - Cardinality(U \cap Places)
    BY <1>2, FewPlaces, FS_Union
  <2>3. Cardinality(U \cap Places) \in Nat
    <3>1. U \cap Places \subseteq U
      OBVIOUS
    <3>2. QED  BY <1>2, <3>1, FS_Subset, FS_CardinalityType
  <2>4. Cardinality(U') <= Cardinality(U \cup Places) /\ Cardinality(U') \in Nat
        /\ Cardinality(U \cup Places) \in Nat
    BY <2>1, <2>2, FS_Subset, FS_CardinalityType
  <2> HIDE DEF U, c
  <2>5. Cardinality(Places) <= c /\ Cardinality(Places) \in Nat
    BY FewPlaces DEF c
  <2>6. (failures + 1) * c = failures * c + c /\ failures * c \in Nat
    BY <1>1, <1>3
  <2>7. Cardinality(U') <= (failures + 1) * c
    BY <1>2, <1>3, <2>2, <2>3, <2>4, <2>5, <2>6
  <2>8. QED  BY <2>1, <2>7 DEF U, c
<1>6. QED  BY <1>4, <1>5

(* Every transition is announced, but for those of the handlers in flight  *)
(* at each failure.                                                        *)
THEOREM Announcements == Spec => []AnnouncedUnlessFailed
<1>1. Init => AnnouncedUnlessFailed
  <2> SUFFICES ASSUME Init, NEW s \in Shipments
               PROVE  Cardinality(Unannounced(s)) <= failures * Cardinality(Requests)
    BY DEF AnnouncedUnlessFailed
  <2>1. Unannounced(s) = {} /\ failures = 0
    BY DEF Init, Unannounced
  <2>2. QED  BY <2>1, FewPlaces, FS_EmptySet
<1>2. QED  BY <1>1, LifecycleAlways, NextAnnounced, PTL DEF Spec
=============================================================================
