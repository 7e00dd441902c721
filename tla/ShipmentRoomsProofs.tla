------------------------ MODULE ShipmentRoomsProofs ------------------------
(***************************************************************************)
(* Proofs about ShipmentRooms: its types, that members may be in the room, *)
(* that however joins and leaves race a page ends up subscribed, and that  *)
(* a page at rest shows the present status unless it missed an event.      *)
(***************************************************************************)
EXTENDS ShipmentRooms, SequenceTheorems, TLAPS

Steps(p) ==
  \/ Connect(p) \/ Drop(p)
  \/ HearJoin(p) \/ HearLeave(p) \/ CheckJoin(p) \/ JoinFails(p) \/ Join(p)
  \/ Open(p) \/ Close(p) \/ Refetch(p) \/ ServeFetch(p) \/ FetchFails(p)
  \/ Load(p) \/ LoadWithout(p) \/ Receive(p) \/ Act(p)

(* What a list sends to the server are joins and leaves, and if it has a   *)
(* row to show the last of them is a join.                                 *)
LEMMA ResubscribeType ==
  ASSUME NEW p, NEW v
  PROVE  /\ Resubscribe(p, v) \in Seq(Requests)
         /\ p \in Lists /\ v # None =>
              /\ Len(Resubscribe(p, v)) > 0
              /\ Resubscribe(p, v)[Len(Resubscribe(p, v))] = "join"
<1>1. << >> \in Seq(Requests) /\ <<"leave">> \in Seq(Requests) /\ <<"join">> \in Seq(Requests)
      BY DEF Requests
<1>2. CASE p \notin Lists
      BY <1>1, <1>2 DEF Resubscribe
<1>3. CASE p \in Lists /\ shown[p] = None /\ v = None
      BY <1>1, <1>3 DEF Resubscribe
<1>4. CASE p \in Lists /\ shown[p] = None /\ v # None
  <2>1. Resubscribe(p, v) = <<"join">>
        BY <1>4 DEF Resubscribe
  <2> QED BY <1>1, <2>1
<1>5. CASE p \in Lists /\ shown[p] # None /\ v = None
  <2>1. Resubscribe(p, v) = <<"leave">>
        BY <1>5 DEF Resubscribe
  <2> QED BY <1>1, <1>5, <2>1
<1>6. CASE p \in Lists /\ shown[p] # None /\ v # None
  <2>1. Resubscribe(p, v) = <<"leave">> \o <<"join">>
        BY <1>6 DEF Resubscribe
  <2>2. /\ <<"leave">> \o <<"join">> \in Seq(Requests)
        /\ Len(<<"leave">> \o <<"join">>) = 2
        /\ (<<"leave">> \o <<"join">>)[2] = "join"
        BY <1>1, ConcatProperties
  <2> QED BY <2>1, <2>2
<1> QED BY <1>2, <1>3, <1>4, <1>5, <1>6

(* The same of a channel to which they are appended.                       *)
LEMMA ShowType ==
  ASSUME TypeOK, NEW p \in Pages, NEW v \in Versions \cup {None}, Show(p, v)
  PROVE  /\ toServer' \in [Pages -> Seq(Requests)]
         /\ shown' \in [Pages -> Versions \cup {None}]
<1>1. toServer[p] \o Resubscribe(p, v) \in Seq(Requests)
      BY ResubscribeType, ConcatProperties DEF TypeOK
<1> QED BY <1>1 DEF TypeOK, Show

(* The type invariant is inductive.                                        *)
LEMMA TypeStep == TypeOK /\ [Next]_vars => TypeOK'
<1> USE PagesAssumption, BoundsAssumption, NoneAssumption
<1> SUFFICES ASSUME TypeOK, [Next]_vars PROVE TypeOK'
    OBVIOUS
<1>1. CASE UNCHANGED vars
      BY <1>1 DEF TypeOK, vars, document, outbox, joins, view, budget
<1>2. CASE Transition
      BY <1>2 DEF TypeOK, Transition, Moves, Movable, Versions, joins, view, budget
<1>3. ASSUME NEW v \in Versions, Emit(v) \/ EmitAgain(v) PROVE TypeOK'
  <2>1. toClient' \in [Pages -> Seq(Versions)]
    <3>1. \A q \in Pages : toClient[q] \in Seq(Versions) /\ Append(toClient[q], v) \in Seq(Versions)
          BY DEF TypeOK
    <3>2. toClient' = [q \in Pages |-> IF member[q] THEN Append(toClient[q], v) ELSE toClient[q]]
          BY <1>3 DEF Emit, EmitAgain, Broadcast
    <3> QED BY <3>1, <3>2
  <2>2. emitted' \in Versions /\ missed' \in [Pages -> BOOLEAN]
        BY <1>3 DEF TypeOK, Emit, EmitAgain, Broadcast
  <2>3. owed' \subseteq Versions /\ faults' \in 0..MaxFaults
        BY <1>3 DEF TypeOK, Emit, EmitAgain
  <2> QED BY <1>3, <2>1, <2>2, <2>3
          DEF TypeOK, Emit, EmitAgain, Broadcast, document, joins, view
<1>4. ASSUME NEW p \in Pages, Steps(p) PROVE TypeOK'
  <2>1. CASE Connect(p) \/ HearLeave(p) \/ HearJoin(p)
    <3>1. CASE Connect(p)
          BY <3>1 DEF TypeOK, Connect, document, outbox, joins, view, budget
    <3>2. CASE HearJoin(p)
      <4>1. toServer' \in [Pages -> Seq(Requests)] /\ asked' \in [Pages -> Nat]
            BY <3>2 DEF TypeOK, HearJoin
      <4> QED BY <3>2, <4>1 DEF TypeOK, HearJoin, document, outbox, view, budget
    <3>3. CASE HearLeave(p)
      <4>1. toServer' \in [Pages -> Seq(Requests)] /\ member' \in [Pages -> BOOLEAN]
            BY <3>3 DEF TypeOK, HearLeave
      <4> QED BY <3>3, <4>1 DEF TypeOK, HearLeave, document, outbox, joins, view, budget
    <3> QED BY <2>1, <3>1, <3>2, <3>3
  <2>2. CASE Drop(p)
        BY <2>2 DEF TypeOK, Drop, Disconnects, document, outbox, joins, view, budget
  <2>3. CASE CheckJoin(p) \/ JoinFails(p) \/ Join(p)
    <3>1. asked[p] \in Nat /\ granted[p] \in Nat
          BY DEF TypeOK
    <3>2. CASE CheckJoin(p)
      <4>1. asked' \in [Pages -> Nat] /\ granted' \in [Pages -> Nat]
            BY <3>1, <3>2 DEF TypeOK, CheckJoin
      <4> QED BY <3>2, <4>1 DEF TypeOK, CheckJoin, document, outbox, view, budget
    <3>3. CASE JoinFails(p)
      <4>1. asked' \in [Pages -> Nat] /\ faults' \in 0..MaxFaults
            BY <3>1, <3>3 DEF TypeOK, JoinFails
      <4> QED BY <3>3, <4>1 DEF TypeOK, JoinFails, document, outbox, view
    <3>4. CASE Join(p)
      <4>1. granted' \in [Pages -> Nat] /\ member' \in [Pages -> BOOLEAN]
            BY <3>1, <3>4 DEF TypeOK, Join
      <4> QED BY <3>4, <4>1 DEF TypeOK, Join, document, outbox, view, budget
    <3> QED BY <2>3, <3>2, <3>3, <3>4
  <2>4. CASE Open(p)
        BY <2>4 DEF TypeOK, Open, Requests, document, outbox, joins, view, budget
  <2>5. CASE Close(p)
    <3>1. open' \in [Pages -> BOOLEAN] /\ asking' \in [Pages -> BOOLEAN]
          BY <2>5 DEF TypeOK, Close
    <3>2. answer' \in [Pages -> Versions \cup {None}] /\ shown' \in [Pages -> Versions \cup {None}]
          BY <2>5 DEF TypeOK, Close
    <3>3. CASE online[p] /\ Disconnects(p)
          BY <2>5, <3>1, <3>2, <3>3 DEF TypeOK, Close, Disconnects, document, outbox, budget
    <3>4. CASE /\ toServer' = IF p \in Lists /\ shown[p] = None THEN toServer
                              ELSE [toServer EXCEPT ![p] = Append(@, "leave")]
               /\ UNCHANGED <<online, joins, member, toClient>>
      <4>1. toServer' \in [Pages -> Seq(Requests)]
            BY <3>4 DEF TypeOK, Requests
      <4>2. UNCHANGED <<document, outbox, missed, budget>>
            BY <2>5 DEF Close
      <4> QED BY <3>1, <3>2, <3>4, <4>1, <4>2 DEF TypeOK, document, outbox, joins, budget
    <3> QED BY <2>5, <3>3, <3>4 DEF Close
  <2>6. CASE Refetch(p) \/ ServeFetch(p) \/ FetchFails(p)
    <3>1. CASE Refetch(p)
          BY <3>1 DEF TypeOK, Refetch, document, outbox, joins
    <3>2. CASE ServeFetch(p)
      <4>1. /\ answer' \in [Pages -> Versions \cup {None}]
            /\ asking' \in [Pages -> BOOLEAN] /\ missed' \in [Pages -> BOOLEAN]
            BY <3>2 DEF TypeOK, ServeFetch
      <4> QED BY <3>2, <4>1 DEF TypeOK, ServeFetch, document, outbox, joins, budget
    <3>3. CASE FetchFails(p)
          BY <3>3 DEF TypeOK, FetchFails, document, outbox, joins, budget
    <3> QED BY <2>6, <3>1, <3>2, <3>3
  <2>7. CASE Load(p)
    <3>1. Show(p, answer[p]) /\ answer[p] \in Versions \cup {None}
          BY <2>7 DEF Load, TypeOK
    <3> QED BY <2>7, <3>1, ShowType DEF TypeOK, Load, document, outbox, joins, view, budget
  <2>8. CASE LoadWithout(p)
    <3>1. Show(p, None)
          BY <2>8 DEF LoadWithout
    <3> QED BY <2>8, <3>1, ShowType DEF TypeOK, LoadWithout, document, outbox, joins, view, budget
  <2>9. CASE Receive(p)
    <3>1. Head(toClient[p]) \in Versions /\ toClient' \in [Pages -> Seq(Versions)]
          BY <2>9 DEF TypeOK, Receive
    <3>2. /\ toServer' \in [Pages -> Seq(Requests)]
          /\ shown' \in [Pages -> Versions \cup {None}]
          BY <2>9, <3>1, ShowType DEF TypeOK, Receive
    <3>3. missed' \in [Pages -> BOOLEAN]
          BY <2>9 DEF TypeOK, Receive
    <3> QED BY <2>9, <3>1, <3>2, <3>3 DEF TypeOK, Receive, document, outbox, joins, budget
  <2>10. CASE Act(p)
         BY <2>10 DEF TypeOK, Act, Moves, Movable, Versions, joins, budget
  <2> QED BY <1>4, <2>1, <2>2, <2>3, <2>4, <2>5, <2>6, <2>7, <2>8, <2>9, <2>10 DEF Steps
<1> QED BY <1>1, <1>2, <1>3, <1>4 DEF Next, Steps

(* Every variable stays within its type, in every instance.                *)
THEOREM TypeCorrect == Spec => []TypeOK
<1>1. Init => TypeOK
  <2>1. 0 \in Versions /\ << >> \in Seq(Requests) /\ << >> \in Seq(Versions)
        BY BoundsAssumption DEF Versions
  <2>2. 0 \in 0..MaxAsks /\ 0 \in 0..MaxFaults
        BY BoundsAssumption
  <2>3. Init => /\ assigned \in BOOLEAN /\ owed \subseteq Versions
                /\ online \in [Pages -> BOOLEAN] /\ member \in [Pages -> BOOLEAN]
                /\ open \in [Pages -> BOOLEAN] /\ asking \in [Pages -> BOOLEAN]
                /\ missed \in [Pages -> BOOLEAN]
        BY Zenon DEF Init
  <2>4. Init => /\ toServer \in [Pages -> Seq(Requests)] /\ toClient \in [Pages -> Seq(Versions)]
                /\ asked \in [Pages -> Nat] /\ granted \in [Pages -> Nat]
                /\ answer \in [Pages -> Versions \cup {None}]
                /\ shown \in [Pages -> Versions \cup {None}]
        BY <2>1 DEF Init
  <2> QED BY <2>1, <2>2, <2>3, <2>4 DEF Init, TypeOK
<1> QED BY <1>1, TypeStep, PTL DEF Spec

----------------------------------------------------------------------------
(* The strengthening.  An assignment is never undone, so what a handler or *)
(* a page learnt of it stays true; and a page that wants the room has a    *)
(* join as the last of its messages, or a join handler at work, or is in.  *)

UnassignedAtFirst == version = 0 => ~ assigned

Informed ==
  \A p \in Pages :
    /\ granted[p] > 0 \/ member[p] => May(p)
    /\ shown[p] # None \/ answer[p] # None => May(p)

Wants(p) ==
  open[p] /\ (p \in Lists => shown[p] # None) /\ (p \in Drivers => p \in Lists)

Underway(p) ==
  IF Len(toServer[p]) > 0 THEN toServer[p][Len(toServer[p])] = "join"
  ELSE member[p] \/ asked[p] > 0 \/ granted[p] > 0

Subscribing == faults = 0 => \A p \in Pages : Wants(p) => Underway(p)

ClosedIsBlank ==
  \A p \in Pages : ~ open[p] => shown[p] = None /\ answer[p] = None /\ ~ asking[p]

RoomsInv == UnassignedAtFirst /\ Informed /\ ClosedIsBlank /\ Subscribing

(* No step but a transition touches the document, and none takes the       *)
(* driver away.                                                            *)
LEMMA AssignmentStays ==
  ASSUME TypeOK, UnassignedAtFirst, [Next]_vars
  PROVE  (assigned => assigned') /\ UnassignedAtFirst'
<1>1. CASE Transition
      BY <1>1 DEF Transition, Moves, TypeOK, Versions, UnassignedAtFirst
<1>2. CASE \E p \in Pages : Act(p)
      BY <1>2 DEF Act, Moves, TypeOK, Versions, UnassignedAtFirst
<1>3. CASE UNCHANGED document
      BY <1>3 DEF document, UnassignedAtFirst
<1>4. UNCHANGED vars => UNCHANGED document
      BY DEF vars
<1>5. ASSUME NEW v \in Versions, Emit(v) \/ EmitAgain(v) PROVE UNCHANGED document
      BY <1>5 DEF Emit, EmitAgain, Broadcast
<1>6. ASSUME NEW p \in Pages, Steps(p), ~ Act(p) PROVE UNCHANGED document
      BY <1>6 DEF Steps, Connect, Drop, HearJoin, HearLeave, CheckJoin, JoinFails, Join,
                  Open, Close, Refetch, ServeFetch, FetchFails, Load, LoadWithout, Receive
<1> QED BY <1>1, <1>2, <1>3, <1>4, <1>5, <1>6 DEF Next, Steps

(* Informed is kept: what is granted or served is what the document says.  *)
LEMMA InformedStep ==
  ASSUME TypeOK, UnassignedAtFirst, Informed, [Next]_vars
  PROVE  Informed'
<1> USE PagesAssumption
<1> SUFFICES ASSUME NEW q \in Pages
             PROVE  /\ granted'[q] > 0 \/ member'[q] => May(q)'
                    /\ shown'[q] # None \/ answer'[q] # None => May(q)'
    BY DEF Informed
<1>0. May(q) => May(q)'
      BY AssignmentStays DEF May
<1>1. /\ granted[q] > 0 \/ member[q] => May(q)'
      /\ shown[q] # None \/ answer[q] # None => May(q)'
      BY <1>0 DEF Informed
<1>2. CASE UNCHANGED <<granted, member, shown, answer>>
      BY <1>1, <1>2
<1>3. UNCHANGED vars \/ Transition => UNCHANGED <<granted, member, shown, answer>>
      BY DEF vars, joins, view, Transition, Moves
<1>4. ASSUME NEW v \in Versions, Emit(v) \/ EmitAgain(v)
      PROVE  UNCHANGED <<granted, member, shown, answer>>
      BY <1>4 DEF Emit, EmitAgain, Broadcast, joins, view
<1>5. ASSUME NEW p \in Pages, Steps(p)
      PROVE  /\ granted'[q] > 0 \/ member'[q] => May(q)'
             /\ shown'[q] # None \/ answer'[q] # None => May(q)'
  <2>1. CASE Connect(p) \/ HearJoin(p) \/ JoinFails(p) \/ Open(p) \/ Refetch(p) \/ FetchFails(p)
        BY <1>2, <2>1 DEF Connect, HearJoin, JoinFails, Open, Refetch, FetchFails, joins, view
  <2>2. CASE HearLeave(p)
        BY <1>1, <2>2 DEF HearLeave, joins, view, TypeOK
  <2>3. CASE Drop(p)
        BY <1>1, <2>3 DEF Drop, Disconnects, view, TypeOK
  <2>4. CASE CheckJoin(p)
    <3>1. UNCHANGED <<member, shown, answer>>
          BY <2>4 DEF CheckJoin, view
    <3>2. granted'[q] > 0 => May(q)'
          BY <1>0, <1>1, <2>4 DEF CheckJoin, TypeOK
    <3> QED BY <1>1, <3>1, <3>2
  <2>5. CASE Join(p)
    <3>1. UNCHANGED <<shown, answer>>
          BY <2>5 DEF Join, view
    <3>2. granted'[q] > 0 => granted[q] > 0
          BY <2>5 DEF Join, TypeOK
    <3>3. member'[q] => member[q] \/ granted[q] > 0
          BY <2>5 DEF Join, TypeOK
    <3> QED BY <1>1, <3>1, <3>2, <3>3
  <2>6. CASE Close(p)
    <3>1. /\ shown'[q] # None => shown[q] # None
          /\ answer'[q] # None => answer[q] # None
          BY <2>6 DEF Close, TypeOK
    <3>2. CASE Disconnects(p)
          BY <1>1, <3>1, <3>2 DEF Disconnects, TypeOK
    <3>3. CASE UNCHANGED <<joins, member>>
          BY <1>1, <3>1, <3>3 DEF joins
    <3> QED BY <2>6, <3>2, <3>3 DEF Close
  <2>7. CASE ServeFetch(p)
    <3>1. UNCHANGED <<granted, member, shown>>
          BY <2>7 DEF ServeFetch, joins
    <3>2. answer'[q] # None => answer[q] # None \/ May(q)
          BY <2>7 DEF ServeFetch, TypeOK
    <3> QED BY <1>0, <1>1, <3>1, <3>2
  <2>8. CASE Load(p)
    <3>1. UNCHANGED <<granted, member>>
          BY <2>8 DEF Load, joins
    <3>2. /\ shown'[q] # None => shown[q] # None \/ answer[q] # None
          /\ answer'[q] # None => answer[q] # None
          BY <2>8 DEF Load, Show, TypeOK
    <3> QED BY <1>1, <3>1, <3>2
  <2>9. CASE LoadWithout(p)
    <3>1. UNCHANGED <<granted, member>>
          BY <2>9 DEF LoadWithout, joins
    <3>2. /\ shown'[q] # None => shown[q] # None
          /\ answer'[q] # None => answer[q] # None
          BY <2>9 DEF LoadWithout, Show, TypeOK
    <3> QED BY <1>1, <3>1, <3>2
  <2>10. CASE Receive(p)
    <3>1. UNCHANGED <<granted, member, answer>>
          BY <2>10 DEF Receive, joins
    <3>2. shown'[q] # None => shown[q] # None
          BY <2>10 DEF Receive, Show, TypeOK
    <3> QED BY <1>1, <3>1, <3>2
  <2>11. CASE Act(p)
    <3>1. UNCHANGED <<granted, member, shown>>
          BY <2>11 DEF Act, Moves, joins
    <3>2. answer'[q] # None => answer[q] # None \/ shown[q] # None
          BY <2>11 DEF Act, TypeOK
    <3> QED BY <1>1, <3>1, <3>2
  <2> QED BY <1>5, <2>1, <2>2, <2>3, <2>4, <2>5, <2>6, <2>7, <2>8, <2>9, <2>10, <2>11 DEF Steps
<1> QED BY <1>2, <1>3, <1>4, <1>5 DEF Next, Steps

(* A closed page shows nothing and awaits nothing.                         *)
LEMMA ClosedStep ==
  ASSUME TypeOK, ClosedIsBlank, [Next]_vars
  PROVE  ClosedIsBlank'
<1> SUFFICES ASSUME NEW q \in Pages, ~ open'[q]
             PROVE  shown'[q] = None /\ answer'[q] = None /\ ~ asking'[q]
    BY DEF ClosedIsBlank
<1>1. ~ open[q] => shown[q] = None /\ answer[q] = None /\ ~ asking[q]
      BY DEF ClosedIsBlank
<1>2. CASE UNCHANGED view
      BY <1>1, <1>2 DEF view
<1>3. UNCHANGED vars \/ Transition => UNCHANGED view
      BY DEF vars, Transition
<1>4. ASSUME NEW v \in Versions, Emit(v) \/ EmitAgain(v) PROVE UNCHANGED view
      BY <1>4 DEF Emit, EmitAgain, Broadcast
<1>5. ASSUME NEW p \in Pages, Steps(p)
      PROVE  shown'[q] = None /\ answer'[q] = None /\ ~ asking'[q]
  <2>1. CASE Connect(p) \/ Drop(p) \/ HearJoin(p) \/ HearLeave(p) \/ CheckJoin(p) \/ JoinFails(p) \/ Join(p)
        BY <1>2, <2>1 DEF Connect, Drop, HearJoin, HearLeave, CheckJoin, JoinFails, Join
  <2>2. CASE Open(p) \/ Close(p)
        BY <1>1, <2>2 DEF Open, Close, TypeOK
  <2>3. CASE Refetch(p) \/ ServeFetch(p) \/ FetchFails(p)
        BY <1>1, <2>3 DEF Refetch, ServeFetch, FetchFails, TypeOK
  <2>4. CASE Load(p) \/ LoadWithout(p)
        BY <1>1, <2>4 DEF Load, LoadWithout, Show, TypeOK
  <2>5. CASE Receive(p) \/ Act(p)
        BY <1>1, <2>5 DEF Receive, Act, Show, TypeOK
  <2> QED BY <1>5, <2>1, <2>2, <2>3, <2>4, <2>5 DEF Steps
<1> QED BY <1>2, <1>3, <1>4, <1>5 DEF Next, Steps

(* A channel to which a list that shows a row appends ends in a join.      *)
LEMMA ShowEndsInJoin ==
  ASSUME TypeOK, NEW p \in Lists, NEW v, v # None, Show(p, v)
  PROVE  Underway(p)'
<1>1. p \in Pages /\ toServer[p] \in Seq(Requests) /\ toServer' = [toServer EXCEPT ![p] = @ \o Resubscribe(p, v)]
      BY PagesAssumption DEF TypeOK, Show
<1>2. toServer'[p] = toServer[p] \o Resubscribe(p, v)
      BY <1>1 DEF TypeOK
<1> DEFINE old == toServer[p]
           new == Resubscribe(p, v)
<1>3. /\ new \in Seq(Requests) /\ Len(new) > 0 /\ new[Len(new)] = "join"
      BY ResubscribeType
<1>4. /\ Len(old \o new) = Len(old) + Len(new)
      /\ (old \o new)[Len(old) + Len(new)] = new[Len(new)]
      BY <1>1, <1>3, ConcatProperties
<1>5. Len(toServer'[p]) > 0 /\ toServer'[p][Len(toServer'[p])] = "join"
      BY <1>1, <1>2, <1>3, <1>4
<1> QED BY <1>5 DEF Underway

(* A message of the channel is taken from its front: its end stays.        *)
LEMMA TailEnd ==
  ASSUME NEW S, NEW s \in Seq(S), s # << >>
  PROVE  /\ Len(s) > 1 => Len(Tail(s)) > 0 /\ Tail(s)[Len(Tail(s))] = s[Len(s)]
         /\ Len(s) = 1 => Len(Tail(s)) = 0
         /\ Len(s) \in Nat /\ Len(s) > 0
<1>1. Len(s) \in Nat /\ Len(s) > 0
      BY EmptySeq
<1>2. Tail(s) \in Seq(S) /\ Len(Tail(s)) = Len(s) - 1
      BY HeadTailProperties
<1> QED BY <1>1, <1>2, HeadTailProperties

(* Subscribing is kept: a leave is never the last that a page sends, and a *)
(* join that a page may make ends in the room.                             *)
LEMMA SubscribingStep ==
  ASSUME TypeOK, Informed, ClosedIsBlank, Subscribing, [Next]_vars
  PROVE  Subscribing'
<1> USE PagesAssumption
<1>1. faults' = 0 => faults = 0
  <2>1. UNCHANGED vars \/ Transition => UNCHANGED faults
        BY DEF vars, budget, Transition, Moves
  <2>2. ASSUME NEW v \in Versions, Emit(v) \/ EmitAgain(v) PROVE faults' = 0 => faults = 0
        BY <2>2 DEF Emit, EmitAgain, TypeOK
  <2>3. ASSUME NEW p \in Pages, Steps(p) PROVE faults' = 0 => faults = 0
        BY <2>3 DEF Steps, Connect, Drop, HearJoin, HearLeave, CheckJoin, JoinFails, Join, Open, Close,
                    Refetch, ServeFetch, FetchFails, Load, LoadWithout, Receive, Act, Moves, budget, TypeOK
  <2> QED BY <2>1, <2>2, <2>3 DEF Next, Steps
<1> SUFFICES ASSUME NEW q \in Pages, faults' = 0, Wants(q)' PROVE Underway(q)'
    BY DEF Subscribing
<1>2. Wants(q) => Underway(q)
      BY <1>1 DEF Subscribing
<1>3. Wants(q) => May(q)
      BY DEF Wants, Informed, May
<1>4. UNCHANGED <<open, shown>> => Wants(q)
      BY DEF Wants
<1>5. UNCHANGED <<toServer, member, asked, granted>> /\ Underway(q) => Underway(q)'
      BY DEF Underway
<1>6. CASE UNCHANGED vars \/ Transition
      BY <1>2, <1>4, <1>5, <1>6 DEF vars, joins, view, Transition, Moves
<1>7. ASSUME NEW v \in Versions, Emit(v) \/ EmitAgain(v) PROVE Underway(q)'
      BY <1>2, <1>4, <1>5, <1>7 DEF Emit, EmitAgain, Broadcast, joins, view
<1>8. ASSUME NEW p \in Pages, Steps(p), p # q PROVE Underway(q)'
  <2>1. UNCHANGED <<open[q], shown[q]>>
        BY <1>8 DEF Steps, Connect, Drop, HearJoin, HearLeave, CheckJoin, JoinFails, Join, Open, Close,
                    Refetch, ServeFetch, FetchFails, Load, LoadWithout, Receive, Act, Show, view, TypeOK
  <2>2. UNCHANGED toServer[q]
        BY <1>8 DEF Steps, Connect, Drop, Disconnects, HearJoin, HearLeave, CheckJoin, JoinFails, Join, Open,
                    Close, Refetch, ServeFetch, FetchFails, Load, LoadWithout, Receive, Act, Show, TypeOK
  <2>3. UNCHANGED <<member[q], asked[q], granted[q]>>
        BY <1>8 DEF Steps, Connect, Drop, Disconnects, HearJoin, HearLeave, CheckJoin, JoinFails, Join, Open,
                    Close, Refetch, ServeFetch, FetchFails, Load, LoadWithout, Receive, Act, Moves, joins, TypeOK
  <2>4. Wants(q)
        BY <2>1 DEF Wants
  <2> QED BY <1>2, <2>2, <2>3, <2>4 DEF Underway
<1>9. ASSUME Steps(q) PROVE Underway(q)'
  <2>1. CASE Connect(q) \/ Refetch(q) \/ ServeFetch(q) \/ FetchFails(q) \/ Act(q)
        BY <1>2, <1>4, <1>5, <2>1 DEF Connect, Refetch, ServeFetch, FetchFails, Act, Moves, joins, view
  <2>2. CASE Drop(q) \/ JoinFails(q)
        BY <2>2 DEF Drop, JoinFails, TypeOK
  <2>3. CASE HearJoin(q)
    <3>1. Underway(q) /\ toServer[q] \in Seq(Requests) /\ toServer'[q] = Tail(toServer[q])
          BY <1>2, <1>4, <2>3 DEF HearJoin, view, TypeOK
    <3>2. asked'[q] > 0
          BY <2>3 DEF HearJoin, TypeOK
    <3>3. Len(toServer[q]) > 1 => Len(toServer'[q]) > 0 /\ toServer'[q][Len(toServer'[q])] = "join"
          BY <2>3, <3>1, TailEnd DEF Underway, HearJoin
    <3>4. Len(toServer[q]) = 1 => Len(toServer'[q]) = 0
          BY <2>3, <3>1, TailEnd DEF HearJoin
    <3>5. Len(toServer[q]) \in Nat /\ Len(toServer[q]) > 0
          BY <2>3, <3>1, TailEnd DEF HearJoin
    <3> QED BY <2>3, <3>1, <3>2, <3>3, <3>4, <3>5 DEF HearJoin, Underway
  <2>4. CASE HearLeave(q)
    <3>1. Underway(q) /\ toServer[q] \in Seq(Requests) /\ toServer'[q] = Tail(toServer[q])
          BY <1>2, <1>4, <2>4 DEF HearLeave, view, TypeOK
    <3>2. Len(toServer[q]) > 1
          BY <2>4, <3>1, TailEnd DEF HearLeave, Underway
    <3>3. Len(toServer'[q]) > 0 /\ toServer'[q][Len(toServer'[q])] = "join"
          BY <3>1, <3>2, TailEnd DEF Underway
    <3> QED BY <3>3 DEF Underway
  <2>5. CASE CheckJoin(q)
    <3>1. Wants(q) /\ Underway(q) /\ May(q)
          BY <1>2, <1>3, <1>4, <2>5 DEF CheckJoin, view
    <3>2. granted'[q] > 0
          BY <2>5, <3>1 DEF CheckJoin, TypeOK
    <3> QED BY <2>5, <3>1, <3>2 DEF CheckJoin, Underway
  <2>6. CASE Join(q)
    <3>1. Underway(q)
          BY <1>2, <1>4, <2>6 DEF Join, view
    <3>2. member'[q] /\ UNCHANGED toServer
          BY <2>6 DEF Join, TypeOK
    <3> QED BY <3>1, <3>2 DEF Underway
  <2>7. CASE Open(q)
    <3>1. q \notin Lists => toServer'[q] = Append(toServer[q], "join")
          BY <2>7 DEF Open, TypeOK
    <3>2. q \in Lists => shown[q] = None
          BY <2>7 DEF Open, ClosedIsBlank
    <3> QED BY <2>7, <3>1, <3>2 DEF Open, Wants, Underway, TypeOK
  <2>8. CASE Close(q)
        BY <2>8 DEF Close, Wants, TypeOK
  <2>9. CASE Load(q)
    <3>1. CASE q \in Lists
          BY <2>9, <3>1, ShowEndsInJoin DEF Load
    <3>2. CASE q \notin Lists
      <4>1. Wants(q) /\ UNCHANGED <<member, asked, granted>>
            BY <2>9, <3>2 DEF Load, Wants, joins
      <4>2. toServer'[q] = toServer[q] \o << >>
            BY <2>9, <3>2 DEF Load, Show, Resubscribe, TypeOK
      <4>3. toServer'[q] = toServer[q]
            BY <4>2 DEF TypeOK
      <4> QED BY <1>2, <4>1, <4>3 DEF Underway
    <3> QED BY <3>1, <3>2
  <2>10. CASE LoadWithout(q)
    <3>1. shown'[q] = None /\ q \in Lists
          BY <2>10 DEF LoadWithout, Show, TypeOK
    <3> QED BY <3>1 DEF Wants
  <2>11. CASE Receive(q)
    <3>1. open'[q] = open[q] /\ UNCHANGED <<member, asked, granted>>
          BY <2>11 DEF Receive, joins
    <3>2. CASE UNCHANGED <<shown, toServer>>
          BY <1>2, <1>5, <3>1, <3>2 DEF Wants
    <3>3. ASSUME NEW v \in Versions, shown[q] # None, Show(q, v) PROVE Underway(q)'
      <4>1. CASE q \in Lists
            BY <3>3, <4>1, ShowEndsInJoin, NoneAssumption DEF Versions
      <4>2. CASE q \notin Lists
        <5>1. Wants(q)
              BY <3>1, <4>2 DEF Wants
        <5>2. toServer'[q] = toServer[q]
              BY <3>3, <4>2 DEF Show, Resubscribe, TypeOK
        <5> QED BY <1>2, <3>1, <5>1, <5>2 DEF Underway
      <4> QED BY <4>1, <4>2
    <3>4. Head(toClient[q]) \in Versions
          BY <2>11 DEF Receive, TypeOK
    <3> QED BY <2>11, <3>2, <3>3, <3>4 DEF Receive
  <2> QED BY <1>9, <2>1, <2>2, <2>3, <2>4, <2>5, <2>6, <2>7, <2>8, <2>9, <2>10, <2>11 DEF Steps
<1> QED BY <1>6, <1>7, <1>8, <1>9 DEF Next, Steps

(* The invariants of the rooms hold throughout.                            *)
LEMMA InvCorrect == Spec => [](TypeOK /\ RoomsInv)
<1>1. Init => RoomsInv
      BY DEF Init, RoomsInv, UnassignedAtFirst, Informed, ClosedIsBlank, Subscribing, Wants
<1>2. TypeOK /\ RoomsInv /\ [Next]_vars => RoomsInv'
      BY AssignmentStays, InformedStep, ClosedStep, SubscribingStep DEF RoomsInv
<1>3. Spec => []TypeOK
      BY TypeCorrect
<1> QED BY <1>1, <1>2, <1>3, PTL DEF Spec

(* Members of the room may be there, however long after its read a handler *)
(* joins.                                                                  *)
THEOREM MembersCorrect == Spec => []MembersMayJoin
<1>1. RoomsInv => MembersMayJoin
      BY DEF RoomsInv, Informed, MembersMayJoin
<1> QED BY <1>1, InvCorrect, PTL

(* However joins and leaves race in the server, a page that wants the room *)
(* is in it once they are worked off.                                      *)
THEOREM Subscribed == Spec => []SubscribedAtRest
<1>1. TypeOK /\ RoomsInv => SubscribedAtRest
  <2> SUFFICES ASSUME TypeOK, RoomsInv, NEW p \in Pages, faults = 0, open[p], Quiet(p),
                      p \in Lists => shown[p] # None, p \in Drivers => p \in Lists
               PROVE  member[p]
      BY DEF SubscribedAtRest
  <2>1. Underway(p)
        BY DEF RoomsInv, Subscribing, Wants
  <2> QED BY <2>1 DEF Underway, Quiet, TypeOK
<1> QED BY <1>1, InvCorrect, PTL

----------------------------------------------------------------------------
(* What a page may know.  The event of the present version is still owed   *)
(* or was the latest to be emitted, and no page is ahead of the document.  *)

Announced ==
  /\ owed \subseteq 1..version /\ emitted <= version
  /\ version \in owed \/ emitted = version

(* What a page of the driver shows it could read: it is assigned at least. *)
Lowest(p) == IF p \in Drivers THEN 1 ELSE 0

Bounded ==
  \A p \in Pages :
    /\ \A i \in 1..Len(toClient[p]) : toClient[p][i] \in 1..version
    /\ shown[p] # None => shown[p] \in Lowest(p)..version
    /\ answer[p] # None => answer[p] \in Lowest(p)..version
    /\ asking[p] => answer[p] = None

(* What it shows once the response on its way has come.                    *)
KnownBy(p) == IF answer[p] # None THEN answer[p] ELSE shown[p]

(* A page that missed nothing has the latest event as the last on its way, *)
(* or when none is on its way knows as much as was ever emitted.  It may   *)
(* know more, and lose it again to an earlier event not yet emitted: then  *)
(* the later ones are still owed to it.                                    *)
UpToDate ==
  \A p \in Pages :
    open[p] /\ ~ missed[p] =>
      IF toClient[p] = << >> THEN KnownBy(p) # None => KnownBy(p) >= emitted
      ELSE toClient[p][Len(toClient[p])] = emitted

(* Only moves and emissions change the document or the outbox.             *)
LEMMA AnnouncedStep ==
  ASSUME TypeOK, Announced, [Next]_vars
  PROVE  Announced' /\ version' >= version
<1> USE DEF Versions
<1>0. version \in Nat /\ emitted \in Nat
      BY BoundsAssumption DEF TypeOK
<1>1. CASE Moves
      BY <1>0, <1>1 DEF Moves, Announced
<1>2. CASE UNCHANGED <<version, owed, emitted>>
      BY <1>0, <1>2 DEF Announced
<1>3. ASSUME NEW v \in Versions, Emit(v) \/ EmitAgain(v) PROVE Announced' /\ version' >= version
  <2>1. version' = version /\ emitted' = IF v > emitted THEN v ELSE emitted
        BY <1>3 DEF Emit, EmitAgain, Broadcast, document
  <2>2. v \in Nat /\ v <= version /\ owed' \subseteq owed
        BY <1>0, <1>3 DEF Emit, EmitAgain, Announced
  <2>3. v = version \/ (version \in owed => version \in owed')
        BY <1>3 DEF Emit, EmitAgain
  <2> QED BY <1>0, <2>1, <2>2, <2>3 DEF Announced
<1>4. UNCHANGED vars => UNCHANGED <<version, owed, emitted>>
      BY DEF vars, document, outbox
<1>5. ASSUME NEW p \in Pages, Steps(p), ~ Act(p) PROVE UNCHANGED <<version, owed, emitted>>
      BY <1>5 DEF Steps, Connect, Drop, HearJoin, HearLeave, CheckJoin, JoinFails, Join, document, outbox,
                  Open, Close, Refetch, ServeFetch, FetchFails, Load, LoadWithout, Receive
<1>6. Transition \/ (\E p \in Pages : Act(p)) => Moves
      BY DEF Transition, Act
<1> QED BY <1>1, <1>2, <1>3, <1>4, <1>5, <1>6 DEF Next, Steps

(* A page is touched only by what it does itself and by emissions.         *)
Of(q) == <<open[q], asking[q], answer[q], shown[q], toClient[q], missed[q]>>

(* A step that is no emission moves one page at most.                      *)
LEMMA Untouched ==
  ASSUME TypeOK, NEW q \in Pages, [Next]_vars
  PROVE  \/ UNCHANGED Of(q) /\ (Moves \/ UNCHANGED emitted)
         \/ \E v \in Versions : Emit(v) \/ EmitAgain(v)
         \/ Steps(q)
<1>1. CASE UNCHANGED vars
      BY <1>1 DEF vars, view, outbox, Of
<1>2. CASE Transition
      BY <1>2 DEF Transition, Moves, view, Of
<1>3. ASSUME NEW p \in Pages, Steps(p), p # q
      PROVE  UNCHANGED Of(q) /\ (Moves \/ UNCHANGED emitted)
  <2>1. UNCHANGED <<open[q], asking[q], answer[q], shown[q]>>
        BY <1>3 DEF Steps, Connect, Drop, HearJoin, HearLeave, CheckJoin, JoinFails, Join, Open, Close,
                    Refetch, ServeFetch, FetchFails, Load, LoadWithout, Receive, Act, Show, view, TypeOK
  <2>2. UNCHANGED <<toClient[q], missed[q]>>
        BY <1>3 DEF Steps, Connect, Drop, Disconnects, HearJoin, HearLeave, CheckJoin, JoinFails, Join, Open,
                    Close, Refetch, ServeFetch, FetchFails, Load, LoadWithout, Receive, Act, Moves, TypeOK
  <2>3. Moves \/ UNCHANGED emitted
        BY <1>3 DEF Steps, Connect, Drop, HearJoin, HearLeave, CheckJoin, JoinFails, Join, Open, Close,
                    Refetch, ServeFetch, FetchFails, Load, LoadWithout, Receive, Act, outbox
  <2> QED BY <2>1, <2>2, <2>3 DEF Of
<1> QED BY <1>1, <1>2, <1>3 DEF Next, Steps

(* An emission reaches the members of the room.                            *)
LEMMA Emission ==
  ASSUME TypeOK, Announced, NEW q \in Pages, NEW v \in Versions, Emit(v) \/ EmitAgain(v)
  PROVE  /\ v \in 1..version /\ version' = version
         /\ UNCHANGED <<open[q], asking[q], answer[q], shown[q]>>
         /\ \/ toClient'[q] = Append(toClient[q], v) /\ member[q]
            \/ toClient'[q] = toClient[q] /\ ~ member[q]
         /\ open[q] /\ ~ missed'[q] => ~ missed[q] /\ member[q] /\ emitted' = v
<1>1. v \in 1..version
      BY DEF Emit, EmitAgain, Announced
<1>2. version' = version /\ UNCHANGED <<open[q], asking[q], answer[q], shown[q]>>
      BY DEF Emit, EmitAgain, Broadcast, document, view
<1>3. \/ toClient'[q] = Append(toClient[q], v) /\ member[q]
      \/ toClient'[q] = toClient[q] /\ ~ member[q]
      BY DEF Emit, EmitAgain, Broadcast
<1>4. missed'[q] = (missed[q] \/ (open[q] /\ (~ member[q] \/ v < emitted)))
      BY DEF Emit, EmitAgain, Broadcast
<1>5. emitted' = IF v > emitted THEN v ELSE emitted
      BY DEF Emit, EmitAgain, Broadcast
<1>6. v \in Nat /\ emitted \in Nat
      BY BoundsAssumption DEF TypeOK, Versions
<1>7. ~ (v < emitted) => emitted' = v
      BY <1>5, <1>6
<1>8. open[q] /\ ~ missed'[q] => ~ missed[q] /\ member[q] /\ ~ (v < emitted)
      BY <1>4
<1> QED BY <1>1, <1>2, <1>3, <1>7, <1>8

(* The elements of a channel that one more event joins, or the first left. *)
LEMMA ChannelEnds ==
  ASSUME NEW S, NEW s \in Seq(S)
  PROVE  /\ \A v \in S : /\ Append(s, v) # << >> /\ Append(s, v)[Len(Append(s, v))] = v
                         /\ \A i \in 1..Len(Append(s, v)) :
                              Append(s, v)[i] = v \/ (i \in 1..Len(s) /\ Append(s, v)[i] = s[i])
         /\ s # << >> =>
              /\ Head(s) = s[1] /\ 1 \in 1..Len(s)
              /\ Tail(s) = << >> => Head(s) = s[Len(s)]
              /\ Tail(s) # << >> => Tail(s)[Len(Tail(s))] = s[Len(s)]
              /\ \A i \in 1..Len(Tail(s)) : i + 1 \in 1..Len(s) /\ Tail(s)[i] = s[i + 1]
<1>1. ASSUME NEW v \in S
      PROVE  /\ Append(s, v) # << >> /\ Append(s, v)[Len(Append(s, v))] = v
             /\ \A i \in 1..Len(Append(s, v)) :
                  Append(s, v)[i] = v \/ (i \in 1..Len(s) /\ Append(s, v)[i] = s[i])
  <2>1. /\ Append(s, v) \in Seq(S) /\ Len(Append(s, v)) = Len(s) + 1
        /\ \A i \in 1..Len(s) : Append(s, v)[i] = s[i]
        /\ Append(s, v)[Len(s) + 1] = v
        BY AppendProperties
  <2>2. Len(s) \in Nat
        OBVIOUS
  <2>3. Append(s, v) # << >>
        BY <2>1, <2>2, EmptySeq
  <2>4. \A i \in 1..Len(s) + 1 : i \in 1..Len(s) \/ i = Len(s) + 1
        BY <2>2
  <2> QED BY <2>1, <2>3, <2>4
<1>2. ASSUME s # << >>
      PROVE  /\ Head(s) = s[1] /\ 1 \in 1..Len(s)
             /\ Tail(s) = << >> => Head(s) = s[Len(s)]
             /\ Tail(s) # << >> => Tail(s)[Len(Tail(s))] = s[Len(s)]
             /\ \A i \in 1..Len(Tail(s)) : i + 1 \in 1..Len(s) /\ Tail(s)[i] = s[i + 1]
  <2>1. /\ Tail(s) \in Seq(S) /\ Len(Tail(s)) = Len(s) - 1
        /\ \A i \in 1..Len(Tail(s)) : Tail(s)[i] = s[i + 1]
        BY <1>2, HeadTailProperties
  <2>2. Len(s) \in Nat /\ Len(s) > 0
        BY <1>2, EmptySeq
  <2>3. Head(s) = s[1]
        OBVIOUS
  <2>4. Tail(s) = << >> => Len(s) = 1
    <3>1. Len(<< >>) = 0
          BY EmptySeq
    <3> QED BY <2>1, <2>2, <3>1
  <2>5. Tail(s) # << >> => Tail(s)[Len(Tail(s))] = s[Len(s)]
    <3> SUFFICES ASSUME Tail(s) # << >> PROVE Tail(s)[Len(Tail(s))] = s[Len(s)]
        OBVIOUS
    <3>1. Len(Tail(s)) \in Nat \ {0}
          BY <2>1, EmptySeq
    <3>2. Len(Tail(s)) \in 1..Len(Tail(s)) /\ Len(Tail(s)) + 1 = Len(s)
          BY <2>1, <2>2, <3>1
    <3> QED BY <2>1, <3>2
  <2>6. \A i \in 1..Len(Tail(s)) : i + 1 \in 1..Len(s) /\ Tail(s)[i] = s[i + 1]
        BY <2>1, <2>2
  <2> QED BY <2>2, <2>3, <2>4, <2>5, <2>6
<1> QED BY <1>1, <1>2

(* The reads of the pages and their actions follow the document, which     *)
(* only grows, and a driver reads it once it is assigned.                  *)
LEMMA BoundedStep ==
  ASSUME TypeOK, UnassignedAtFirst, Informed, ClosedIsBlank, Announced, Bounded, [Next]_vars
  PROVE  Bounded'
<1> USE PagesAssumption, BoundsAssumption, NoneAssumption DEF Lowest
<1> SUFFICES ASSUME NEW q \in Pages
             PROVE  /\ \A i \in 1..Len(toClient'[q]) : toClient'[q][i] \in 1..version'
                    /\ shown'[q] # None => shown'[q] \in Lowest(q)..version'
                    /\ answer'[q] # None => answer'[q] \in Lowest(q)..version'
                    /\ asking'[q] => answer'[q] = None
    BY DEF Bounded
<1>0. version \in Nat /\ version' >= version /\ version' \in Nat
  <2>1. TypeOK' /\ version' >= version
        BY AnnouncedStep, TypeStep
  <2> QED BY <2>1 DEF TypeOK, Versions
<1>1. /\ \A i \in 1..Len(toClient[q]) : toClient[q][i] \in 1..version
      /\ shown[q] # None => shown[q] \in Lowest(q)..version
      /\ answer[q] # None => answer[q] \in Lowest(q)..version
      /\ asking[q] => answer[q] = None
      BY DEF Bounded
<1>2. \A v : (v \in 1..version => v \in 1..version') /\ (v \in Lowest(q)..version => v \in Lowest(q)..version')
      BY <1>0
<1>3. May(q) => version \in Lowest(q)..version
      BY <1>0 DEF May, UnassignedAtFirst
<1>4. toClient[q] \in Seq(Versions)
      BY DEF TypeOK
<1>5. CASE UNCHANGED Of(q)
      BY <1>1, <1>2, <1>5 DEF Of
<1>6. ASSUME NEW v \in Versions, Emit(v) \/ EmitAgain(v)
      PROVE  /\ \A i \in 1..Len(toClient'[q]) : toClient'[q][i] \in 1..version'
             /\ shown'[q] # None => shown'[q] \in Lowest(q)..version'
             /\ answer'[q] # None => answer'[q] \in Lowest(q)..version'
             /\ asking'[q] => answer'[q] = None
  <2>1. /\ v \in 1..version /\ version' = version
        /\ UNCHANGED <<open[q], asking[q], answer[q], shown[q]>>
        /\ toClient'[q] = Append(toClient[q], v) \/ toClient'[q] = toClient[q]
        BY <1>6, Emission
  <2>2. \A i \in 1..Len(Append(toClient[q], v)) : Append(toClient[q], v)[i] \in 1..version
        BY <1>1, <1>4, <2>1, ChannelEnds
  <2> QED BY <1>1, <2>1, <2>2
<1>7. ASSUME Steps(q)
      PROVE  /\ \A i \in 1..Len(toClient'[q]) : toClient'[q][i] \in 1..version'
             /\ shown'[q] # None => shown'[q] \in Lowest(q)..version'
             /\ answer'[q] # None => answer'[q] \in Lowest(q)..version'
             /\ asking'[q] => answer'[q] = None
  <2>1. CASE Connect(q) \/ HearJoin(q) \/ HearLeave(q) \/ CheckJoin(q) \/ JoinFails(q) \/ Join(q)
        BY <1>5, <2>1 DEF Connect, HearJoin, HearLeave, CheckJoin, JoinFails, Join, view, Of
  <2>2. CASE Drop(q)
    <3>1. toClient'[q] = << >> /\ UNCHANGED <<shown, answer, asking>>
          BY <2>2 DEF Drop, Disconnects, view, TypeOK
    <3> QED BY <1>1, <1>2, <3>1
  <2>3. CASE Open(q)
    <3>1. UNCHANGED <<toClient, shown, answer>> /\ answer[q] = None
          BY <2>3 DEF Open, ClosedIsBlank
    <3> QED BY <1>1, <1>2, <3>1
  <2>4. CASE Close(q)
    <3>1. toClient'[q] = << >> \/ toClient'[q] = toClient[q]
          BY <2>4 DEF Close, Disconnects, TypeOK
    <3>2. shown'[q] = None /\ answer'[q] = None
          BY <2>4 DEF Close, TypeOK
    <3> QED BY <1>1, <1>2, <3>1, <3>2
  <2>5. CASE Refetch(q) \/ FetchFails(q)
    <3>1. UNCHANGED <<toClient, shown, answer>> /\ answer[q] = None
          BY <1>1, <2>5 DEF Refetch, FetchFails
    <3> QED BY <1>1, <1>2, <3>1
  <2>6. CASE ServeFetch(q)
    <3>1. /\ UNCHANGED <<toClient, shown>> /\ ~ asking'[q]
          /\ answer'[q] = IF May(q) THEN version ELSE None
          BY <2>6 DEF ServeFetch, TypeOK
    <3> QED BY <1>1, <1>2, <1>3, <3>1
  <2>7. CASE Load(q) \/ LoadWithout(q)
    <3>1. /\ UNCHANGED <<toClient, asking>> /\ answer'[q] = None
          /\ shown'[q] = None \/ shown'[q] = answer[q]
          BY <2>7 DEF Load, LoadWithout, Show, TypeOK
    <3> QED BY <1>1, <1>2, <3>1
  <2>8. CASE Receive(q)
    <3> DEFINE v == Head(toClient[q])
    <3>1. /\ toClient[q] # << >> /\ toClient'[q] = Tail(toClient[q])
          /\ UNCHANGED <<answer, asking>>
          BY <2>8 DEF Receive, TypeOK
    <3>2. v \in 1..version
          BY <1>1, <1>4, <3>1, ChannelEnds
    <3>3. shown'[q] = shown[q] \/ shown'[q] = v
          BY <2>8 DEF Receive, Show, TypeOK
    <3>4. v \in Lowest(q)..version
          BY <1>0, <3>2
    <3>5. \A i \in 1..Len(Tail(toClient[q])) : Tail(toClient[q])[i] \in 1..version
          BY <1>1, <1>4, <3>1, ChannelEnds
    <3> HIDE DEF v
    <3> QED BY <1>1, <1>2, <3>1, <3>3, <3>4, <3>5
  <2>9. CASE Act(q)
    <3>1. /\ UNCHANGED <<toClient, shown, asking>> /\ ~ asking[q]
          /\ answer'[q] = version + 1 /\ version' = version + 1
          BY <2>9 DEF Act, Moves, TypeOK
    <3> QED BY <1>0, <1>1, <1>2, <3>1
  <2> QED BY <1>7, <2>1, <2>2, <2>3, <2>4, <2>5, <2>6, <2>7, <2>8, <2>9 DEF Steps
<1> QED BY <1>5, <1>6, <1>7, Untouched

(* UpToDate is kept: a response is as new as the document when it is read, *)
(* an event that finds an older one on its way is missed, and the last to  *)
(* come is the latest emitted.                                             *)
LEMMA UpToDateStep ==
  ASSUME TypeOK, UnassignedAtFirst, Informed, ClosedIsBlank, Announced, Bounded, UpToDate, [Next]_vars
  PROVE  UpToDate'
<1> USE PagesAssumption, BoundsAssumption, NoneAssumption
<1> DEFINE Fresh(q) == IF toClient[q] = << >> THEN KnownBy(q) # None => KnownBy(q) >= emitted
                       ELSE toClient[q][Len(toClient[q])] = emitted
<1> SUFFICES ASSUME NEW q \in Pages, open'[q], ~ missed'[q]
             PROVE  Fresh(q)'
    BY DEF UpToDate
<1>0. version \in Nat /\ emitted \in Nat /\ emitted <= version
      BY DEF TypeOK, Versions, Announced
<1>1. open[q] /\ ~ missed[q] => Fresh(q)
      BY DEF UpToDate
<1>2. toClient[q] \in Seq(Versions)
      BY DEF TypeOK
<1>3. CASE UNCHANGED Of(q) /\ UNCHANGED emitted
      BY <1>1, <1>3 DEF Of, KnownBy
<1>4. Moves => UNCHANGED emitted
      BY DEF Moves
<1>5. ASSUME NEW v \in Versions, Emit(v) \/ EmitAgain(v) PROVE Fresh(q)'
  <2>1. open[q] /\ toClient'[q] = Append(toClient[q], v) /\ emitted' = v
        BY <1>5, Emission
  <2> QED BY <1>2, <2>1, ChannelEnds
<1>6. ASSUME Steps(q) PROVE Fresh(q)'
  <2>0. UNCHANGED emitted
        BY <1>4, <1>6 DEF Steps, Connect, Drop, HearJoin, HearLeave, CheckJoin, JoinFails, Join, Open, Close,
                    Refetch, ServeFetch, FetchFails, Load, LoadWithout, Receive, Act, outbox
  <2>1. CASE Connect(q) \/ HearJoin(q) \/ HearLeave(q) \/ CheckJoin(q) \/ JoinFails(q) \/ Join(q)
        BY <1>3, <2>0, <2>1 DEF Connect, HearJoin, HearLeave, CheckJoin, JoinFails, Join, view, Of
  <2>2. CASE Drop(q)
    <3>1. toClient[q] = << >> /\ toClient'[q] = << >> /\ ~ missed[q] /\ UNCHANGED <<open, answer, shown>>
          BY <2>2 DEF Drop, Disconnects, view, TypeOK
    <3> QED BY <1>1, <2>0, <3>1 DEF KnownBy
  <2>3. CASE Open(q)
    <3>1. /\ toClient[q] = << >> /\ toClient'[q] = toClient[q]
          /\ answer'[q] = None /\ shown'[q] = None
          BY <2>3 DEF Open, ClosedIsBlank, TypeOK
    <3> QED BY <3>1 DEF KnownBy
  <2>4. CASE Close(q)
        BY <2>4 DEF Close, TypeOK
  <2>5. CASE Refetch(q) \/ FetchFails(q)
        BY <1>1, <2>0, <2>5 DEF Refetch, FetchFails, KnownBy
  <2>6. CASE ServeFetch(q)
    <3>1. /\ UNCHANGED <<open, toClient, shown>> /\ answer[q] = None
          /\ answer'[q] = IF May(q) THEN version ELSE None
          /\ ~ missed[q] \/ (toClient[q] = << >> /\ May(q))
          BY <2>6 DEF ServeFetch, TypeOK, Bounded
    <3>2. CASE May(q) /\ toClient[q] = << >>
          BY <1>0, <2>0, <3>1, <3>2 DEF KnownBy
    <3>3. CASE ~ missed[q] /\ (~ May(q) \/ toClient[q] # << >>)
          BY <1>1, <2>0, <3>1, <3>3 DEF KnownBy
    <3> QED BY <3>1, <3>2, <3>3
  <2>7. CASE Load(q)
    <3>1. /\ UNCHANGED <<open, toClient, missed>> /\ answer[q] # None
          /\ answer'[q] = None /\ shown'[q] = answer[q]
          BY <2>7 DEF Load, Show, TypeOK
    <3> QED BY <1>1, <2>0, <3>1 DEF KnownBy
  <2>8. CASE LoadWithout(q)
    <3>1. /\ UNCHANGED <<open, toClient, missed>>
          /\ answer'[q] = None /\ shown'[q] = None
          BY <2>8 DEF LoadWithout, Show, TypeOK
    <3> QED BY <1>1, <2>0, <3>1 DEF KnownBy
  <2>9. CASE Receive(q)
    <3> DEFINE v == Head(toClient[q])
    <3>1. /\ toClient[q] # << >> /\ toClient'[q] = Tail(toClient[q]) /\ UNCHANGED <<open, answer>>
          /\ ~ missed[q] /\ ~ (answer[q] # None /\ answer[q] < v)
          /\ shown'[q] = IF shown[q] # None /\ Hears(q, v) THEN v ELSE shown[q]
          BY <2>9 DEF Receive, Show, TypeOK
    <3>2. toClient[q][Len(toClient[q])] = emitted
          BY <1>1, <3>1
    <3>3. CASE Tail(toClient[q]) # << >>
          BY <1>2, <2>0, <3>1, <3>2, <3>3, ChannelEnds
    <3>4. CASE Tail(toClient[q]) = << >>
      <4>1. v = emitted
            BY <1>2, <3>1, <3>2, <3>4, ChannelEnds
      <4>2. CASE answer[q] # None
        <5>1. answer[q] \in Nat
              BY <4>2 DEF TypeOK, Versions
        <5>2. answer[q] >= emitted
              BY <1>0, <3>1, <4>1, <4>2, <5>1
        <5> QED BY <2>0, <3>1, <3>4, <4>2, <5>2 DEF KnownBy
      <4>3. CASE answer[q] = None /\ shown[q] # None /\ ~ Hears(q, v)
        <5>1. q \in Drivers /\ emitted = 1
              BY <4>1, <4>3 DEF Hears
        <5>2. shown[q] >= 1
              BY <1>0, <4>3, <5>1 DEF Bounded, Lowest
        <5> QED BY <2>0, <3>1, <3>4, <4>3, <5>1, <5>2 DEF KnownBy
      <4>4. CASE answer[q] = None /\ (shown[q] = None \/ Hears(q, v))
        <5>1. answer'[q] = None /\ (shown'[q] = None \/ shown'[q] = emitted)
              BY <3>1, <4>1, <4>4
        <5> QED BY <1>0, <2>0, <3>1, <3>4, <5>1 DEF KnownBy
      <4> QED BY <4>2, <4>3, <4>4
    <3> QED BY <3>3, <3>4
  <2>10. CASE Act(q)
    <3>1. /\ UNCHANGED <<open, toClient, missed>> /\ answer'[q] = version + 1
          BY <2>10 DEF Act, Moves, TypeOK
    <3> QED BY <1>0, <1>1, <2>0, <3>1 DEF KnownBy
  <2> QED BY <1>6, <2>1, <2>2, <2>3, <2>4, <2>5, <2>6, <2>7, <2>8, <2>9, <2>10 DEF Steps
<1> QED BY <1>3, <1>4, <1>5, <1>6, Untouched

(* So a page knows throughout what it did not miss.                        *)
LEMMA NewsCorrect == Spec => [](TypeOK /\ Announced /\ Bounded /\ UpToDate)
<1>1. Init => Announced /\ Bounded /\ UpToDate
      BY EmptySeq DEF Init, Announced, Bounded, UpToDate
<1>2. /\ TypeOK /\ RoomsInv /\ Announced /\ Bounded /\ UpToDate /\ [Next]_vars
      => Announced' /\ Bounded' /\ UpToDate'
      BY AnnouncedStep, BoundedStep, UpToDateStep DEF RoomsInv
<1> QED BY <1>1, <1>2, InvCorrect, PTL DEF Spec

(* A page at rest shows the present status, unless an event passed it, was *)
(* lost, came out of turn or was overtaken since its last fetch.           *)
THEOREM StaleCorrect == Spec => []StaleOnlyByMissing
<1>1. TypeOK /\ Announced /\ Bounded /\ UpToDate => StaleOnlyByMissing
  <2> SUFFICES ASSUME TypeOK, Announced, Bounded, UpToDate, NEW p \in Pages, Settled(p),
                      shown[p] # None, ~ missed[p]
               PROVE  shown[p] = version
      BY DEF StaleOnlyByMissing
  <2>1. emitted = version
        BY DEF Settled, Announced
  <2>2. shown[p] >= emitted
        BY DEF Settled, UpToDate, KnownBy
  <2>3. shown[p] \in Lowest(p)..version
        BY DEF Bounded
  <2> QED BY <2>1, <2>2, <2>3, BoundsAssumption DEF Lowest, TypeOK, Versions
<1> QED BY <1>1, NewsCorrect, PTL
=============================================================================
