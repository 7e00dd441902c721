--------------------------- MODULE ShipmentRooms ---------------------------
(***************************************************************************)
(* Live updates of one shipment: the Socket.IO room that the server keeps, *)
(* the pages that join and leave it, and what those pages show.  A page    *)
(* reads the shipment over HTTP and then lives on the events of its room;  *)
(* the two channels are not ordered with each other.  The status itself is *)
(* abstracted to the number of transitions made, its version.              *)
(***************************************************************************)
EXTENDS Integers, Sequences

CONSTANTS Pages,       \* open pages, each with the socket of its browser tab
          Lists,       \* those that list shipments; the others show one
          Drivers,     \* those of the driver; of the others, lists are the
                       \* admin's and details the owner's
          None,        \* no version
          MaxVersion,  \* bound on the transitions of the shipment
          MaxAsks,     \* bound on the fetches of all pages
          MaxFaults    \* bound on lost connections, failed joins and
                       \* repeated emissions of the outbox

ASSUME PagesAssumption == Lists \subseteq Pages /\ Drivers \subseteq Pages
ASSUME BoundsAssumption == MaxVersion \in Nat /\ MaxAsks \in Nat /\ MaxFaults \in Nat
ASSUME NoneAssumption == None \notin Nat

VARIABLES
  version, assigned,  \* the document: transitions made, and has it a driver
  owed,               \* versions whose event the outbox has still to emit
  emitted,            \* the latest version emitted so far
  online,             \* page -> is its socket connected
  toServer,           \* page -> joins and leaves on their way, or buffered
  asked, granted,     \* page -> join handlers that have to read, to join
  member,             \* page -> is its socket in the room
  toClient,           \* page -> events on their way
  open,               \* page -> is it mounted
  asking, answer,     \* page -> is its request on the way, its response
  shown,              \* page -> the version it shows
  missed,             \* page -> did an event pass it, or reach it out of turn
  asks, faults

document == <<version, assigned>>
outbox == <<owed, emitted>>
joins == <<asked, granted>>
view == <<open, asking, answer, shown>>
budget == <<asks, faults>>
vars == <<document, outbox, online, toServer, joins, member, toClient, view, missed, budget>>

Versions == 0..MaxVersion
Requests == {"join", "leave"}

TypeOK ==
  /\ version \in Versions /\ assigned \in BOOLEAN
  /\ owed \subseteq Versions /\ emitted \in Versions
  /\ online \in [Pages -> BOOLEAN] /\ member \in [Pages -> BOOLEAN]
  /\ toServer \in [Pages -> Seq(Requests)] /\ toClient \in [Pages -> Seq(Versions)]
  /\ asked \in [Pages -> Nat] /\ granted \in [Pages -> Nat]
  /\ open \in [Pages -> BOOLEAN] /\ asking \in [Pages -> BOOLEAN]
  /\ answer \in [Pages -> Versions \cup {None}]
  /\ shown \in [Pages -> Versions \cup {None}]
  /\ missed \in [Pages -> BOOLEAN]
  /\ asks \in 0..MaxAsks /\ faults \in 0..MaxFaults

Init ==
  /\ version = 0 /\ assigned = FALSE /\ owed = {} /\ emitted = 0
  /\ online = [p \in Pages |-> FALSE] /\ member = [p \in Pages |-> FALSE]
  /\ toServer = [p \in Pages |-> << >>] /\ toClient = [p \in Pages |-> << >>]
  /\ asked = [p \in Pages |-> 0] /\ granted = [p \in Pages |-> 0]
  /\ open = [p \in Pages |-> FALSE] /\ asking = [p \in Pages |-> FALSE]
  /\ answer = [p \in Pages |-> None] /\ shown = [p \in Pages |-> None]
  /\ missed = [p \in Pages |-> FALSE]
  /\ asks = 0 /\ faults = 0

(* canJoinShipmentRoom, and the reads of the pages: the owner and an admin *)
(* may always, a driver when the shipment is his.                          *)
May(p) == p \in Drivers => assigned

(* The effect of the list pages: leave the rooms of the old rows, join     *)
(* those of the new.  A detail page joins when it opens.                   *)
Resubscribe(p, v) ==
  IF p \notin Lists THEN << >>
  ELSE (IF shown[p] = None THEN << >> ELSE <<"leave">>)
         \o (IF v = None THEN << >> ELSE <<"join">>)

(* setShipment or setShipments, and the effects that follow.               *)
Show(p, v) ==
  /\ shown' = [shown EXCEPT ![p] = v]
  /\ toServer' = [toServer EXCEPT ![p] = @ \o Resubscribe(p, v)]

----------------------------------------------------------------------------
(* The shipment moves.                                                     *)

(* Which status follows which is the matter of ShipmentLifecycle; here, a  *)
(* shipment that moved without being assigned is cancelled, and final.     *)
Movable == version < MaxVersion /\ (version = 0 \/ assigned)

Moves ==
  /\ Movable
  /\ version' = version + 1
  /\ owed' = owed \cup {version + 1}
  /\ UNCHANGED <<emitted, online, joins, member, toClient, missed, budget>>

(* MUTANT: the cancellation stores no event.                               *)
TransitionUnannounced ==
  /\ Movable
  /\ version' = version + 1
  /\ assigned' \in (IF version = 0 THEN BOOLEAN ELSE {assigned})
  /\ owed' = IF assigned' THEN owed \cup {version'} ELSE owed
  /\ UNCHANGED <<emitted, online, joins, member, toClient, missed, budget, toServer, view>>

(* Elsewhere: an assignment, a progression or a cancellation.              *)
Transition ==
  /\ Moves
  /\ assigned' \in (IF version = 0 THEN BOOLEAN ELSE {assigned})
  /\ UNCHANGED <<toServer, view>>

(* From a page: the driver's next status, the owner's or the admin's       *)
(* cancellation.  Only the admin's does not mind what the page shows; the  *)
(* owner cancels pending shipments only.  The response holds the document. *)
Act(p) ==
  /\ shown[p] # None /\ ~ asking[p] /\ answer[p] = None
  /\ p \in Lists \ Drivers \/ shown[p] = version
  /\ p \in Lists \cup Drivers \/ version = 0
  /\ Moves
  /\ answer' = [answer EXCEPT ![p] = version + 1]
  /\ UNCHANGED <<assigned, toServer, open, asking, shown>>

(* A worker emits an event to the room: to its members.  Two workers, or a *)
(* retry, may emit a later event first, or one event again.                *)
Broadcast(v) ==
  /\ toClient' = [p \in Pages |-> IF member[p] THEN Append(toClient[p], v) ELSE toClient[p]]
  /\ emitted' = IF v > emitted THEN v ELSE emitted
  /\ missed' = [p \in Pages |-> missed[p] \/ (open[p] /\ (~ member[p] \/ v < emitted))]
  /\ UNCHANGED <<document, online, toServer, joins, member, view, asks>>

Emit(v) ==
  /\ v \in owed
  /\ owed' = owed \ {v}
  /\ Broadcast(v)
  /\ UNCHANGED faults

EmitAgain(v) ==
  /\ v \in (1..version) \ owed /\ faults < MaxFaults
  /\ faults' = faults + 1
  /\ Broadcast(v)
  /\ UNCHANGED owed

----------------------------------------------------------------------------
(* The server's side of the socket.                                        *)

Connect(p) ==
  /\ ~ online[p]
  /\ online' = [online EXCEPT ![p] = TRUE]
  /\ UNCHANGED <<document, outbox, toServer, joins, member, toClient, view, missed, budget>>

(* What a connection had on the server and on the wire is gone with it.    *)
Disconnects(p) ==
  /\ online' = [online EXCEPT ![p] = FALSE]
  /\ member' = [member EXCEPT ![p] = FALSE]
  /\ toServer' = [toServer EXCEPT ![p] = << >>]
  /\ toClient' = [toClient EXCEPT ![p] = << >>]
  /\ asked' = [asked EXCEPT ![p] = 0]
  /\ granted' = [granted EXCEPT ![p] = 0]

Drop(p) ==
  /\ online[p] /\ faults < MaxFaults
  /\ faults' = faults + 1
  /\ Disconnects(p)
  /\ missed' = [missed EXCEPT ![p] = @ \/ toClient[p] # << >>]
  /\ UNCHANGED <<document, outbox, view, asks>>

(* MUTANT: the join is done before the check.                              *)
HearJoinAtOnce(p) ==
  /\ online[p] /\ toServer[p] # << >> /\ Head(toServer[p]) = "join"
  /\ toServer' = [toServer EXCEPT ![p] = Tail(@)]
  /\ member' = [member EXCEPT ![p] = TRUE]
  /\ asked' = [asked EXCEPT ![p] = @ + 1]
  /\ UNCHANGED <<document, outbox, online, granted, toClient, view, missed, budget>>

(* joinShipmentRoom: the handler starts, and waits for findById.           *)
HearJoin(p) ==
  /\ online[p] /\ toServer[p] # << >> /\ Head(toServer[p]) = "join"
  /\ toServer' = [toServer EXCEPT ![p] = Tail(@)]
  /\ asked' = [asked EXCEPT ![p] = @ + 1]
  /\ UNCHANGED <<document, outbox, online, granted, member, toClient, view, missed, budget>>

(* leaveShipmentRoom: done at once, whatever joins are under way.          *)
HearLeave(p) ==
  /\ online[p] /\ toServer[p] # << >> /\ Head(toServer[p]) = "leave"
  /\ toServer' = [toServer EXCEPT ![p] = Tail(@)]
  /\ member' = [member EXCEPT ![p] = FALSE]
  /\ UNCHANGED <<document, outbox, online, joins, toClient, view, missed, budget>>

(* The read decides; a refusal is an error event no page listens to.       *)
CheckJoin(p) ==
  /\ asked[p] > 0
  /\ asked' = [asked EXCEPT ![p] = @ - 1]
  /\ granted' = IF May(p) THEN [granted EXCEPT ![p] = @ + 1] ELSE granted
  /\ UNCHANGED <<document, outbox, online, toServer, member, toClient, view, missed, budget>>

JoinFails(p) ==
  /\ asked[p] > 0 /\ faults < MaxFaults
  /\ faults' = faults + 1
  /\ asked' = [asked EXCEPT ![p] = @ - 1]
  /\ UNCHANGED <<document, outbox, online, toServer, granted, member, toClient, view, missed, asks>>

Join(p) ==
  /\ granted[p] > 0
  /\ granted' = [granted EXCEPT ![p] = @ - 1]
  /\ member' = [member EXCEPT ![p] = TRUE]
  /\ UNCHANGED <<document, outbox, online, toServer, asked, toClient, view, missed, budget>>

----------------------------------------------------------------------------
(* The page.                                                               *)

(* Mounting: the fetch, and for a detail page the join, which is buffered  *)
(* while the socket is not connected.                                      *)
Open(p) ==
  /\ ~ open[p] /\ asks < MaxAsks
  /\ asks' = asks + 1
  /\ open' = [open EXCEPT ![p] = TRUE]
  /\ asking' = [asking EXCEPT ![p] = TRUE]
  /\ toServer' = IF p \in Lists THEN toServer ELSE [toServer EXCEPT ![p] = Append(@, "join")]
  /\ missed' = [missed EXCEPT ![p] = toClient[p] # << >>]
  /\ UNCHANGED <<document, outbox, online, joins, member, toClient, answer, shown, faults>>

(* Unmounting: the page leaves its room and its layout disconnects.  On a  *)
(* socket that is not connected the leave is kept for the next connection. *)
Close(p) ==
  /\ open[p]
  /\ open' = [open EXCEPT ![p] = FALSE]
  /\ asking' = [asking EXCEPT ![p] = FALSE]
  /\ answer' = [answer EXCEPT ![p] = None]
  /\ shown' = [shown EXCEPT ![p] = None]
  /\ \/ online[p] /\ Disconnects(p)
     \/ /\ ~ online[p]
        /\ toServer' = IF p \in Lists /\ shown[p] = None THEN toServer
                       ELSE [toServer EXCEPT ![p] = Append(@, "leave")]
        /\ UNCHANGED <<online, joins, member, toClient>>
  /\ UNCHANGED <<document, outbox, missed, budget>>

(* Another fetch of an open page: retry, refresh, another filter.          *)
Refetch(p) ==
  /\ open[p] /\ ~ asking[p] /\ answer[p] = None /\ asks < MaxAsks
  /\ asks' = asks + 1
  /\ asking' = [asking EXCEPT ![p] = TRUE]
  /\ UNCHANGED <<document, outbox, online, toServer, joins, member, toClient,
                 open, answer, shown, missed, faults>>

(* The server reads for it.  The response makes up for what the page did   *)
(* not hear, unless an older event is still on its way.                    *)
ServeFetch(p) ==
  /\ asking[p]
  /\ asking' = [asking EXCEPT ![p] = FALSE]
  /\ answer' = [answer EXCEPT ![p] = IF May(p) THEN version ELSE None]
  /\ missed' = [missed EXCEPT ![p] = @ /\ (toClient[p] # << >> \/ ~ May(p))]
  /\ UNCHANGED <<document, outbox, online, toServer, joins, member, toClient, open, shown, budget>>

FetchFails(p) ==
  /\ asking[p]
  /\ asking' = [asking EXCEPT ![p] = FALSE]
  /\ UNCHANGED <<document, outbox, online, toServer, joins, member, toClient,
                 open, answer, shown, missed, budget>>

(* MUTANT: the list leaves its rows but forgets to join them again.        *)
LoadLeaving(p) ==
  /\ answer[p] # None
  /\ shown' = [shown EXCEPT ![p] = answer[p]]
  /\ toServer' = IF p \in Lists /\ shown[p] # None
                 THEN [toServer EXCEPT ![p] = Append(@, "leave")]
                 ELSE [toServer EXCEPT ![p] = @ \o Resubscribe(p, answer[p])]
  /\ answer' = [answer EXCEPT ![p] = None]
  /\ UNCHANGED <<document, outbox, online, joins, member, toClient, open, asking, missed, budget>>

(* The response, of a fetch or of an action of the page, is shown whatever *)
(* the page has learnt since it was read.                                  *)
Load(p) ==
  /\ answer[p] # None
  /\ Show(p, answer[p])
  /\ answer' = [answer EXCEPT ![p] = None]
  /\ UNCHANGED <<document, outbox, online, joins, member, toClient, open, asking, missed, budget>>

(* The admin's filter or page of results leaves the shipment out.          *)
LoadWithout(p) ==
  /\ answer[p] # None /\ p \in Lists \ Drivers
  /\ Show(p, None)
  /\ answer' = [answer EXCEPT ![p] = None]
  /\ UNCHANGED <<document, outbox, online, joins, member, toClient, open, asking, missed, budget>>

(* statusUpdated, and driverAssigned (always version 1), which the pages   *)
(* of the driver do not listen to.                                         *)
Hears(p, v) == ~ (p \in Drivers /\ v = 1)

Receive(p) ==
  /\ toClient[p] # << >>
  /\ toClient' = [toClient EXCEPT ![p] = Tail(@)]
  /\ LET v == Head(toClient[p]) IN
       /\ IF shown[p] # None /\ Hears(p, v) THEN Show(p, v) ELSE UNCHANGED <<shown, toServer>>
       /\ missed' = [missed EXCEPT ![p] = @ \/ (answer[p] # None /\ answer[p] < v)]
  /\ UNCHANGED <<document, outbox, online, joins, member, open, asking, answer, budget>>

Next ==
  \/ Transition
  \/ \E v \in Versions : Emit(v) \/ EmitAgain(v)
  \/ \E p \in Pages :
       \/ Connect(p) \/ Drop(p)
       \/ HearJoin(p) \/ HearLeave(p) \/ CheckJoin(p) \/ JoinFails(p) \/ Join(p)
       \/ Open(p) \/ Close(p) \/ Refetch(p) \/ ServeFetch(p) \/ FetchFails(p)
       \/ Load(p) \/ LoadWithout(p) \/ Receive(p) \/ Act(p)

Spec == Init /\ [][Next]_vars

----------------------------------------------------------------------------
(* Properties                                                              *)

(* Whoever is in the room may be: the owner, an admin, or the driver of    *)
(* the shipment as the document has it now, although the handler joins     *)
(* later than it reads.                                                    *)
MembersMayJoin == \A p \in Pages : member[p] => May(p)

Quiet(p) == online[p] /\ toServer[p] = << >> /\ asked[p] = 0 /\ granted[p] = 0

(* As long as nothing fails, a page that shows a row, or a detail page that  *)
(* was open to its user from the start, is in the room once its joins and  *)
(* leaves have been worked off, however they raced.                        *)
SubscribedAtRest ==
  \A p \in Pages :
    /\ faults = 0 /\ open[p] /\ Quiet(p)
    /\ (p \in Lists => shown[p] # None) /\ (p \in Drivers => p \in Lists)
    => member[p]

Settled(p) ==
  open[p] /\ owed = {} /\ toClient[p] = << >> /\ ~ asking[p] /\ answer[p] = None

(* What a page shows at rest is the present status, unless since its last  *)
(* fetch an event passed while it was not in the room, was lost with the   *)
(* connection, came out of turn or was overtaken by a response.            *)
StaleOnlyByMissing ==
  \A p \in Pages : Settled(p) /\ shown[p] \notin {None, version} => missed[p]
=============================================================================
