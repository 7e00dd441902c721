---------------------------- MODULE OutboxProofs ----------------------------
(***************************************************************************)
(* Theorems about Outbox, for every number of events, workers, attempts    *)
(* and faults; and, in the second half, about ProcessLife, the process     *)
(* whose workers they are, for every number of requests, ids, shutdowns,   *)
(* signals and faults.                                                     *)
(***************************************************************************)
EXTENDS Outbox, ProcessLife, TLAPS

(* A lock is held on active jobs only; a job that may still run has        *)
(* attempts left and has stalled at most once.                             *)
JobsConsistent ==
  \A e \in Events :
    /\ lock[e] # NoWorker => job[e] = "active"
    /\ job[e] \in {"waiting", "active", "delayed"} => made[e] < MaxAttempts /\ stalls[e] <= 1

TypeInv == TypeOK /\ JobsConsistent

(* The invariant holds before the event is stored.                         *)
LEMMA InitTyped == Init => TypeInv
  BY AttemptsAssumption, FaultsAssumption
     DEF Init, TypeInv, TypeOK, JobsConsistent, Idle, Places, JobStates

(* A fault leaves the failure count in its range.                          *)
LEMMA FailsTyped ==
  ASSUME TypeInv, NEW kind, Fails(kind)
  PROVE  failures' \in 0..MaxFailures
  BY FaultsAssumption DEF Fails, TypeInv, TypeOK

(* Adding jobs resets what was counted for their ids.                      *)
LEMMA AddedTyped ==
  ASSUME TypeInv, NEW set \in SUBSET Events, Added(set)
  PROVE  /\ job' \in [Events -> JobStates] /\ made' \in [Events -> 0..MaxAttempts]
         /\ stalls' \in [Events -> 0..2] /\ lock' = lock
         /\ JobsConsistent'
<1>1. /\ job' \in [Events -> JobStates] /\ made' \in [Events -> 0..MaxAttempts]
      /\ stalls' \in [Events -> 0..2] /\ lock' = lock
  BY AttemptsAssumption DEF Added, TypeInv, TypeOK, JobStates
<1>2. ASSUME NEW e \in Events
      PROVE  /\ lock'[e] # NoWorker => job'[e] = "active"
             /\ job'[e] \in {"waiting", "active", "delayed"} =>
                   made'[e] < MaxAttempts /\ stalls'[e] <= 1
  <2>1. CASE e \in set /\ job[e] = "none"
    BY <2>1, AttemptsAssumption DEF Added, TypeInv, JobsConsistent
  <2>2. CASE ~ (e \in set /\ job[e] = "none")
    BY <2>2 DEF Added, TypeInv, JobsConsistent
  <2>3. QED  BY <2>1, <2>2
<1>3. QED  BY <1>1, <1>2 DEF JobsConsistent

(* A worker that moves is somewhere.                                       *)
LEMMA MovesTyped ==
  ASSUME TypeInv, NEW w \in Workers, NEW pc \in Places, Moves(w, pc)
  PROVE  worker' \in [Workers -> [event : Events \cup {NoEvent}, pc : Places]]
  BY DEF Moves, TypeInv, TypeOK

(* The worker's steps on the record leave the queue alone.                 *)
LEMMA PublishTyped ==
  ASSUME TypeInv, NEW w \in Workers, NEW e \in Events,
         Claim(w, e) \/ EmitSockets(w, e) \/ EnqueueNotification(w, e)
           \/ MarkPublished(w, e) \/ MarkFailed(w, e)
  PROVE  TypeInv'
<1>1. CASE Claim(w, e)
  <2>1. worker' \in [Workers -> [event : Events \cup {NoEvent}, pc : Places]]
    <3>1. \E pc \in {"claimed", "returned", "threw"} : Moves(w, pc)
      BY <1>1 DEF Claim
    <3>2. QED  BY <3>1, MovesTyped DEF Places
  <2>2. failures' \in 0..MaxFailures
    BY <1>1, FailsTyped DEF Claim, TypeInv, TypeOK
  <2>3. record' \in [Events -> Recorded \cup {"absent"}]
    BY <1>1 DEF Claim, Processing, TypeInv, TypeOK, Recorded
  <2>4. TypeOK'
    BY <1>1, <2>1, <2>2, <2>3 DEF Claim, TypeInv, TypeOK, queue, ghosts
  <2>5. QED  BY <1>1, <2>4 DEF Claim, TypeInv, JobsConsistent, queue
<1>2. CASE EmitSockets(w, e)
  <2>1. TypeOK'
    <3>1. worker' \in [Workers -> [event : Events \cup {NoEvent}, pc : Places]]
      BY <1>2, MovesTyped DEF EmitSockets, Places
    <3>2. emitted' \in [Events -> Nat] /\ skipped' \subseteq Events
      BY <1>2 DEF EmitSockets, TypeInv, TypeOK
    <3>3. QED  BY <1>2, <3>1, <3>2 DEF EmitSockets, TypeInv, TypeOK, queue
  <2>2. QED  BY <1>2, <2>1 DEF EmitSockets, TypeInv, JobsConsistent, queue
<1>3. CASE EnqueueNotification(w, e)
  <2>1. failures' \in 0..MaxFailures
    BY <1>3, FailsTyped DEF EnqueueNotification, TypeInv, TypeOK
  <2>2. TypeOK'
    <3>1. worker' \in [Workers -> [event : Events \cup {NoEvent}, pc : Places]]
      <4>1. (Moves(w, "handed") \/ Moves(w, "caught")) /\ {"handed", "caught"} \subseteq Places
        BY <1>3 DEF EnqueueNotification, Places
      <4>2. QED  BY <4>1, MovesTyped
    <3>2. notified' \in [Events -> JobStates \ {"active", "delayed"}]
      BY <1>3 DEF EnqueueNotification, TypeInv, TypeOK, JobStates
    <3>3. QED  BY <1>3, <2>1, <3>1, <3>2 DEF EnqueueNotification, TypeInv, TypeOK, queue, ghosts
  <2>3. QED  BY <1>3, <2>2 DEF EnqueueNotification, TypeInv, JobsConsistent, queue
<1>4. CASE MarkPublished(w, e)
  <2>1. failures' \in 0..MaxFailures
    BY <1>4, FailsTyped DEF MarkPublished, TypeInv, TypeOK
  <2>2. TypeOK'
    <3>1. worker' \in [Workers -> [event : Events \cup {NoEvent}, pc : Places]]
      <4>1. (Moves(w, "returned") \/ Moves(w, "caught")) /\ {"returned", "caught"} \subseteq Places
        BY <1>4 DEF MarkPublished, Places
      <4>2. QED  BY <4>1, MovesTyped
    <3>2. record' \in [Events -> Recorded \cup {"absent"}] /\ unsure' \subseteq Events
      BY <1>4 DEF MarkPublished, TypeInv, TypeOK, Recorded
    <3>3. QED  BY <1>4, <2>1, <3>1, <3>2 DEF MarkPublished, TypeInv, TypeOK, queue
  <2>3. QED  BY <1>4, <2>2 DEF MarkPublished, TypeInv, JobsConsistent, queue
<1>5. CASE MarkFailed(w, e)
  <2>1. failures' \in 0..MaxFailures
    BY <1>5, FailsTyped DEF MarkFailed, TypeInv, TypeOK
  <2>2. TypeOK'
    <3>1. worker' \in [Workers -> [event : Events \cup {NoEvent}, pc : Places]]
      BY <1>5, MovesTyped DEF MarkFailed, Places
    <3>2. record' \in [Events -> Recorded \cup {"absent"}] /\ ripe' \in [Events -> BOOLEAN]
      BY <1>5 DEF MarkFailed, TypeInv, TypeOK, Recorded
    <3>3. QED  BY <1>5, <2>1, <3>1, <3>2 DEF MarkFailed, TypeInv, TypeOK, queue, ghosts
  <2>3. QED  BY <1>5, <2>2 DEF MarkFailed, TypeInv, JobsConsistent, queue
<1>6. QED  BY <1>1, <1>2, <1>3, <1>4, <1>5

(* BullMQ's own steps on a job.                                            *)
LEMMA QueueTyped ==
  ASSUME TypeInv, NEW e \in Events,
         \/ \E w \in Workers : Take(w, e) \/ Settle(w, e)
         \/ Promote(e) \/ FindStalled(e) \/ Stall(e) \/ Expire(e)
  PROVE  TypeInv'
<1>1. ASSUME NEW w \in Workers, Take(w, e) PROVE TypeInv'
  <2>1. TypeOK'
    BY <1>1 DEF Take, TypeInv, TypeOK, ghosts, Places, JobStates
  <2>2. QED  BY <1>1, <2>1 DEF Take, TypeInv, TypeOK, ghosts, JobsConsistent
<1>2. ASSUME NEW w \in Workers, Settle(w, e) PROVE TypeInv'
  <2>1. CASE lock[e] # w
    <3>1. TypeOK'
      BY <1>2, <2>1 DEF Settle, TypeInv, TypeOK, ghosts, Idle, Places, queue
    <3>2. QED  BY <1>2, <2>1, <3>1 DEF Settle, TypeInv, JobsConsistent, queue
  <2>2. CASE lock[e] = w
    <3>1. job[e] = "active" /\ made[e] \in Nat /\ made[e] < MaxAttempts /\ stalls[e] <= 1
      BY <2>2, NullsAssumption DEF TypeInv, TypeOK, ghosts, JobsConsistent
    <3>2. made[e] + 1 \in 0..MaxAttempts
      BY <3>1, AttemptsAssumption
    <3>3. TypeOK'
      BY <1>2, <2>2, <3>2 DEF Settle, TypeInv, TypeOK, ghosts, Idle, Places, JobStates
    <3>4. JobsConsistent'
      BY <1>2, <2>2, <3>1, <3>2, AttemptsAssumption DEF Settle, TypeInv, TypeOK, ghosts, JobsConsistent
    <3>5. QED  BY <3>3, <3>4 DEF TypeInv
  <2>3. QED  BY <2>1, <2>2
<1>3. CASE Promote(e)
  <2>1. TypeOK'
    BY <1>3 DEF Promote, TypeInv, TypeOK, ghosts, JobStates
  <2>2. QED  BY <1>3, <2>1 DEF Promote, TypeInv, TypeOK, ghosts, JobsConsistent
<1>4. ASSUME Unlocked(e), failures' \in 0..MaxFailures PROVE TypeInv'
  <2>1. stalls[e] \in {0, 1} /\ job[e] = "active"
    BY <1>4 DEF Unlocked, TypeInv, TypeOK, ghosts, JobsConsistent
  <2>2. TypeOK'
    BY <1>4, <2>1 DEF Unlocked, TypeInv, TypeOK, ghosts, JobStates
  <2>3. JobsConsistent'
    BY <1>4, <2>1 DEF Unlocked, TypeInv, TypeOK, ghosts, JobsConsistent
  <2>4. QED  BY <2>2, <2>3 DEF TypeInv
<1>5. CASE FindStalled(e)
  BY <1>4, <1>5 DEF FindStalled, TypeInv, TypeOK, ghosts
<1>6. CASE Stall(e)
  BY <1>4, <1>6, FailsTyped DEF Stall
<1>7. CASE Expire(e)
  <2>1. TypeOK'
    BY <1>7 DEF Expire, TypeInv, TypeOK, ghosts, JobStates
  <2>2. QED  BY <1>7, <2>1 DEF Expire, TypeInv, TypeOK, ghosts, JobsConsistent
<1>8. QED  BY <1>1, <1>2, <1>3, <1>5, <1>6, <1>7

(* Everything else.                                                        *)
LEMMA OtherTyped ==
  ASSUME TypeInv,
         \/ \E e \in Events : \/ Store(e) \/ Add(e) \/ AddFails(e) \/ Ripen(e)
                              \/ DeliverNotification(e) \/ NotificationFails(e)
                              \/ ExpireNotification(e)
         \/ \E w \in Workers : CrashWorker(w) \/ CloseSocket(w) \/ RestartWorker(w)
         \/ Sweep
         \/ UNCHANGED vars
  PROVE  TypeInv'
<1>1. ASSUME NEW e \in Events, Store(e) PROVE TypeInv'
  BY <1>1 DEF Store, TypeInv, TypeOK, ghosts, JobsConsistent, Recorded, queue
<1>2. ASSUME NEW e \in Events, Add(e) PROVE TypeInv'
  <2>1. {e} \in SUBSET Events /\ Added({e})
    BY <1>2 DEF Add
  <2>2. TypeOK'
    BY <1>2, <2>1, AddedTyped DEF Add, TypeInv, TypeOK, ghosts
  <2>3. QED  BY <2>1, <2>2, AddedTyped DEF TypeInv
<1>3. ASSUME NEW e \in Events, AddFails(e) PROVE TypeInv'
  <2>1. failures' \in 0..MaxFailures
    BY <1>3, FailsTyped DEF AddFails
  <2>2. QED  BY <1>3, <2>1 DEF AddFails, TypeInv, TypeOK, ghosts, JobsConsistent, queue
<1>4. ASSUME NEW e \in Events, Ripen(e) PROVE TypeInv'
  BY <1>4 DEF Ripen, TypeInv, TypeOK, ghosts, JobsConsistent, queue
<1>5. ASSUME NEW e \in Events, DeliverNotification(e) \/ ExpireNotification(e) PROVE TypeInv'
  BY <1>5 DEF DeliverNotification, ExpireNotification, TypeInv, TypeOK, ghosts, JobsConsistent,
              JobStates, queue
<1>6. ASSUME NEW e \in Events, NotificationFails(e) PROVE TypeInv'
  <2>1. failures' \in 0..MaxFailures
    BY <1>6, FailsTyped DEF NotificationFails
  <2>2. QED
    BY <1>6, <2>1 DEF NotificationFails, TypeInv, TypeOK, ghosts, JobsConsistent, JobStates, queue
<1>7. ASSUME NEW w \in Workers, CrashWorker(w) PROVE TypeInv'
  <2>1. failures' \in 0..MaxFailures
    BY <1>7, FailsTyped DEF CrashWorker
  <2>2. QED
    BY <1>7, <2>1 DEF CrashWorker, TypeInv, TypeOK, ghosts, JobsConsistent, Idle, Places, queue
<1>8. ASSUME NEW w \in Workers, CloseSocket(w) \/ RestartWorker(w) PROVE TypeInv'
  BY <1>8 DEF CloseSocket, RestartWorker, TypeInv, TypeOK, ghosts, JobsConsistent, queue
<1>9. CASE Sweep
  <2>1. Due \in SUBSET Events /\ Added(Due)
    BY <1>9 DEF Sweep, Due
  <2>2. TypeOK'
    BY <1>9, <2>1, AddedTyped DEF Sweep, TypeInv, TypeOK, ghosts, JobStates
  <2>3. QED  BY <2>1, <2>2, AddedTyped DEF TypeInv
<1>10. CASE UNCHANGED vars
  BY <1>10 DEF vars, queue, TypeInv, TypeOK, ghosts, JobsConsistent
<1>11. QED  BY <1>1, <1>2, <1>3, <1>4, <1>5, <1>6, <1>7, <1>8, <1>9, <1>10

(* Every step keeps it.                                                    *)
LEMMA NextTyped == TypeInv /\ [Next]_vars => TypeInv'
  BY PublishTyped, QueueTyped, OtherTyped DEF Next, Publish

(* The pipeline's records and jobs always have their types: no job makes   *)
(* more attempts than it is given.                                         *)
THEOREM TypeCorrect == Spec => []TypeOK
<1>1. Spec => []TypeInv
  BY InitTyped, NextTyped, PTL DEF Spec
<1>2. QED  BY <1>1, PTL DEF TypeInv

----------------------------------------------------------------------------
(* OneClaimant is inductive: a claim matches only a record that no worker  *)
(* holds, and only its holder moves a record out of processing.            *)

Holds(w, e) == worker[w].event = e /\ worker[w].pc \in Claimed

ClaimInv == TypeInv /\ OneClaimant

(* A worker's step changes the place of that worker only.                  *)
LEMMA OthersStay ==
  ASSUME TypeInv, NEW w \in Workers, NEW pc, Moves(w, pc)
  PROVE  /\ worker'[w].event = worker[w].event /\ worker'[w].pc = pc
         /\ \A v \in Workers : v # w => worker'[v] = worker[v]
  BY DEF Moves, TypeInv, TypeOK

(* If whoever holds an event held it before, and what is known of the      *)
(* records they hold stays, there is still one claimant.                   *)
LEMMA HoldersShrink ==
  ASSUME OneClaimant,
         \A v \in Workers, e \in Events : Holds(v, e)' =>
           /\ Holds(v, e) /\ record'[e] = record[e]
           /\ e \in unsure => e \in unsure'
           /\ worker[v].pc = "caught" => worker'[v].pc = "caught"
  PROVE  OneClaimant'
  BY DEF OneClaimant, Holds

(* What a claim, applied or not, does to the records.                      *)
LEMMA ProcessingIs ==
  ASSUME TypeInv, NEW e \in Events
  PROVE  /\ \A f \in Events : f # e => Processing(e)[f] = record[f]
         /\ Processing(e)[e] = IF Claimable(e) THEN "processing" ELSE record[e]
  BY DEF Processing, TypeInv, TypeOK

(* A step of the claimant leaves one claimant.                             *)
LEMMA ClaimOnce ==
  ASSUME ClaimInv, NEW w \in Workers, NEW e \in Events,
         Claim(w, e) \/ EmitSockets(w, e) \/ EnqueueNotification(w, e)
           \/ MarkPublished(w, e) \/ MarkFailed(w, e)
  PROVE  OneClaimant'
<1> USE DEF ClaimInv
<1>1. worker[w].event = e /\ \E pc : Moves(w, pc)
  BY DEF Claim, EmitSockets, EnqueueNotification, MarkPublished, MarkFailed, At
<1>2. /\ worker'[w].event = e
      /\ \A v \in Workers : v # w => worker'[v] = worker[v]
  BY <1>1, OthersStay
<1>3. CASE Claim(w, e)
  <2>1. unsure' = unsure /\ record' \in {record, Processing(e)}
    BY <1>3 DEF Claim, ghosts
  <2>2. Claimable(e) => \A v \in Workers : ~ Holds(v, e)
    BY DEF Claimable, OneClaimant, Holds
  <2>3. CASE Claimable(e) /\ record' = Processing(e) /\ Moves(w, "claimed")
    <3>1. \A v \in Workers, f \in Events : Holds(v, f)' =>
            \/ f = e /\ v = w
            \/ f # e /\ Holds(v, f) /\ worker'[v] = worker[v]
      BY <1>2, <2>2, <2>3 DEF Holds
    <3>2. record'[e] = "processing" /\ \A f \in Events : f # e => record'[f] = record[f]
      BY <2>3, ProcessingIs
    <3>3. QED  BY <2>1, <3>1, <3>2 DEF OneClaimant, Holds
  <2>4. CASE Moves(w, "returned") \/ Moves(w, "threw")
    <3>1. worker'[w].pc \notin Claimed
      BY <2>4, OthersStay DEF Claimed
    <3>2. \A v \in Workers, f \in Events : Holds(v, f)' =>
            Holds(v, f) /\ worker'[v] = worker[v]
      BY <1>2, <3>1 DEF Holds
    <3>3. \A v \in Workers, f \in Events : Holds(v, f) => record'[f] = record[f]
      BY <2>1, <2>2, ProcessingIs
    <3>4. QED  BY <2>1, <3>2, <3>3, HoldersShrink
  <2>5. QED  BY <1>3, <2>3, <2>4 DEF Claim
<1>4. ASSUME record' = record, unsure' = unsure,
             worker[w].pc \in Claimed \ {"caught"}
      PROVE  OneClaimant'
  <2>1. \A v \in Workers, f \in Events : Holds(v, f)' => Holds(v, f)
    BY <1>1, <1>2, <1>4 DEF Holds
  <2>2. \A v \in Workers : worker[v].pc = "caught" => worker'[v].pc = "caught"
    BY <1>2, <1>4
  <2>3. QED  BY <1>4, <2>1, <2>2, HoldersShrink
<1>5. CASE EmitSockets(w, e) \/ EnqueueNotification(w, e)
  <2>1. record' = record /\ unsure' = unsure /\ worker[w].pc \in Claimed \ {"caught"}
    BY <1>5 DEF EmitSockets, EnqueueNotification, At, Claimed, ghosts
  <2>2. QED  BY <1>4, <2>1
<1>6. CASE MarkPublished(w, e) \/ MarkFailed(w, e)
  <2>1. /\ Holds(w, e)
        /\ \A f \in Events : f # e =>
             record'[f] = record[f] /\ (f \in unsure => f \in unsure')
    BY <1>6 DEF MarkPublished, MarkFailed, At, Holds, Claimed, TypeInv, TypeOK, ghosts
  <2>2. \A v \in Workers : Holds(v, e) => v = w
    BY <2>1 DEF OneClaimant, Holds
  <2>3. CASE worker'[w].pc \notin Claimed
    <3>1. \A v \in Workers, f \in Events : Holds(v, f)' =>
            f # e /\ Holds(v, f) /\ worker'[v] = worker[v]
      BY <1>2, <2>2, <2>3 DEF Holds
    <3>2. QED  BY <2>1, <3>1, HoldersShrink
  <2>4. CASE MarkPublished(w, e) /\ Moves(w, "caught")
    <3>1. worker[w].pc = "handed" /\ worker'[w].pc = "caught"
      BY <2>4, OthersStay DEF MarkPublished, At
    <3>2. CASE record' = record /\ unsure' = unsure
      BY <1>4, <3>1, <3>2 DEF Claimed
    <3>3. CASE record'[e] = "published" /\ e \in unsure'
      <4>1. \A v \in Workers, f \in Events : Holds(v, f)' =>
              \/ f = e /\ v = w
              \/ f # e /\ Holds(v, f) /\ worker'[v] = worker[v]
        BY <1>2, <2>2 DEF Holds
      <4>2. QED  BY <2>1, <3>1, <3>3, <4>1 DEF OneClaimant, Holds
    <3>4. (record' = record /\ unsure' = unsure) \/ (record'[e] = "published" /\ e \in unsure')
      BY <2>4, <3>1, OthersStay DEF MarkPublished, TypeInv, TypeOK
    <3>5. QED  BY <3>2, <3>3, <3>4
  <2>5. QED
    BY <1>6, <2>3, <2>4, OthersStay DEF MarkPublished, MarkFailed, Claimed
<1>7. QED  BY <1>3, <1>5, <1>6

(* So does a step that claims nothing.                                     *)
LEMMA OthersClaimOnce ==
  ASSUME ClaimInv,
         \/ \E e \in Events :
              \/ Store(e) \/ Add(e) \/ AddFails(e) \/ Promote(e) \/ FindStalled(e)
              \/ Stall(e) \/ Expire(e) \/ DeliverNotification(e) \/ NotificationFails(e)
              \/ ExpireNotification(e) \/ Ripen(e)
              \/ \E w \in Workers : Take(w, e) \/ Settle(w, e)
         \/ \E w \in Workers : CrashWorker(w) \/ CloseSocket(w) \/ RestartWorker(w)
         \/ Sweep
         \/ UNCHANGED vars
  PROVE  OneClaimant'
<1> USE DEF ClaimInv
<1>1. ASSUME NEW e \in Events, Store(e) PROVE OneClaimant'
  <2>1. \A v \in Workers : ~ Holds(v, e)
    BY <1>1 DEF Store, OneClaimant, Holds
  <2>2. /\ worker' = worker /\ unsure' = unsure
        /\ \A f \in Events : f # e => record'[f] = record[f]
    BY <1>1 DEF Store, TypeInv, TypeOK, ghosts
  <2>3. QED  BY <2>1, <2>2, HoldersShrink DEF Holds
<1>2. ASSUME UNCHANGED <<worker, record, unsure>> PROVE OneClaimant'
  BY <1>2 DEF OneClaimant
<1>3. ASSUME NEW e \in Events,
             Add(e) \/ AddFails(e) \/ Promote(e) \/ FindStalled(e) \/ Stall(e) \/ Expire(e)
               \/ DeliverNotification(e) \/ NotificationFails(e) \/ ExpireNotification(e)
               \/ Ripen(e)
      PROVE  OneClaimant'
  BY <1>2, <1>3 DEF Add, AddFails, Promote, FindStalled, Stall, Unlocked, Expire,
                    DeliverNotification, NotificationFails, ExpireNotification, Ripen, ghosts
<1>4. ASSUME NEW w \in Workers, record' = record, unsure' = unsure,
             \E e \in Events, pc \in Places \ Claimed :
               \/ worker' = [worker EXCEPT ![w] = [event |-> e, pc |-> pc]]
               \/ worker' = [worker EXCEPT ![w] = Idle]
      PROVE  OneClaimant'
  <2>1. \A v \in Workers, e \in Events : Holds(v, e)' => Holds(v, e) /\ worker'[v] = worker[v]
    BY <1>4 DEF Holds, Idle, Claimed, TypeInv, TypeOK
  <2>2. QED  BY <1>4, <2>1, HoldersShrink
<1>5. "taken" \in Places \ Claimed
  BY DEF Places, Claimed
<1>6. ASSUME NEW e \in Events, NEW w \in Workers, Take(w, e) \/ Settle(w, e)
      PROVE  OneClaimant'
  BY <1>4, <1>5, <1>6 DEF Take, Settle, ghosts
<1>7. ASSUME NEW w \in Workers, CrashWorker(w) PROVE OneClaimant'
  <2>1. \A v \in Workers, e \in Events : Holds(v, e)' => Holds(v, e) /\ worker'[v] = worker[v]
    BY <1>7 DEF CrashWorker, Holds, Idle, Claimed, TypeInv, TypeOK
  <2>2. QED  BY <1>7, <2>1, HoldersShrink DEF CrashWorker, ghosts
<1>8. ASSUME \/ \E w \in Workers : CloseSocket(w) \/ RestartWorker(w)
             \/ Sweep
             \/ UNCHANGED vars
      PROVE  OneClaimant'
  BY <1>2, <1>8 DEF CloseSocket, RestartWorker, Sweep, vars, ghosts
<1>9. QED  BY <1>1, <1>3, <1>6, <1>7, <1>8

(* The claim invariant holds throughout.                                   *)
LEMMA ClaimAlways == Spec => []ClaimInv
<1>1. Init => ClaimInv
  BY InitTyped DEF Init, ClaimInv, OneClaimant, Idle, Claimed
<1>2. ClaimInv /\ [Next]_vars => ClaimInv'
  BY NextTyped, ClaimOnce, OthersClaimOnce DEF ClaimInv, Next, Publish
<1>3. QED  BY <1>1, <1>2, PTL DEF Spec

(* An event is in the hands of at most one worker, for any number of       *)
(* workers, redeliveries and crashes.                                      *)
THEOREM ClaimExclusive == Spec => []OneClaimant
  BY ClaimAlways, PTL DEF ClaimInv

(* What its worker knows to be published is never taken back: whoever runs *)
(* the catch block for a published event was told that marking it failed.  *)
THEOREM PublishedForGood == Spec => PublishedIsFinal
<1>1. ClaimInv /\ [Next]_vars =>
        \A e \in Events :
          record[e] = "published" /\ e \notin unsure => record'[e] = "published"
  <2> SUFFICES ASSUME ClaimInv, [Next]_vars, NEW e \in Events, record[e] = "published",
                      e \notin unsure, record' # record
               PROVE  record'[e] = "published"
    OBVIOUS
  <2>1. ASSUME NEW f \in Events, Store(f) PROVE record'[e] = "published"
    BY <2>1 DEF Store, ClaimInv, TypeInv, TypeOK
  <2>2. ASSUME NEW f \in Events, NEW w \in Workers, Claim(w, f)
        PROVE  record'[e] = "published"
    BY <2>2, ProcessingIs DEF Claim, Claimable, ClaimInv
  <2>3. ASSUME NEW f \in Events, NEW w \in Workers, MarkPublished(w, f)
        PROVE  record'[e] = "published"
    BY <2>3 DEF MarkPublished, ClaimInv, TypeInv, TypeOK
  <2>4. ASSUME NEW f \in Events, NEW w \in Workers, MarkFailed(w, f)
        PROVE  record'[e] = "published"
    <3>1. worker[w].event = f /\ worker[w].pc \in Claimed
      BY <2>4 DEF MarkFailed, At, Claimed
    <3>2. f # e
      BY <3>1 DEF ClaimInv, OneClaimant
    <3>3. QED  BY <2>4, <3>2 DEF MarkFailed, ClaimInv, TypeInv, TypeOK
  <2>5. QED
    BY <2>1, <2>2, <2>3, <2>4
       DEF Next, Publish, vars, Add, AddFails, Promote, FindStalled, Stall, Unlocked, Expire,
           DeliverNotification, NotificationFails, ExpireNotification, Ripen, Take, Settle,
           EmitSockets, EnqueueNotification, CrashWorker, CloseSocket, RestartWorker, Sweep
<1>2. QED  BY <1>1, ClaimAlways, PTL DEF Spec, PublishedIsFinal

----------------------------------------------------------------------------
(* What an event's counters allow.  A claim is worth one emission and one  *)
(* notification: it starts from a record that is not published, and comes  *)
(* back to one only through a failure.                                     *)

Owed(e) == IF notified[e] \in {"waiting", "failed"} THEN 1 ELSE 0

Accounted(e) == delivered[e] + Owed(e)

HandedOver(e) == notified[e] # "none" \/ delivered[e] > 0

Shown(e) == emitted[e] > 0 \/ e \in skipped

Budget(e) ==
  /\ emitted[e] <= 1 + failures /\ Accounted(e) <= 1 + failures
  /\ record[e] \in {"absent", "pending", "failed"} =>
       emitted[e] <= failures /\ Accounted(e) <= failures
  /\ notified[e] = "completed" => delivered[e] > 0
  /\ record[e] = "published" => Shown(e) /\ HandedOver(e)

HolderBudget(w, e) ==
  worker[w].event = e =>
    /\ worker[w].pc \in {"claimed", "caught"} =>
         emitted[e] <= failures /\ Accounted(e) <= failures
    /\ worker[w].pc = "emitted" => Accounted(e) <= failures /\ Shown(e)
    /\ worker[w].pc = "handed" => Shown(e) /\ HandedOver(e)

Budgets == \A e \in Events : Budget(e) /\ \A w \in Workers : HolderBudget(w, e)

HandOverInv == ClaimInv /\ Budgets

Counted(e) == <<emitted[e], notified[e], delivered[e], e \in skipped>>

(* What is accounted for and who was served depends on the counters alone. *)
LEMMA CountedStay ==
  ASSUME NEW e \in Events, UNCHANGED Counted(e)
  PROVE  /\ emitted'[e] = emitted[e] /\ delivered'[e] = delivered[e]
         /\ notified'[e] = notified[e]
         /\ Accounted(e)' = Accounted(e)
         /\ Shown(e)' <=> Shown(e)
         /\ HandedOver(e)' <=> HandedOver(e)
<1>1. emitted'[e] = emitted[e] /\ delivered'[e] = delivered[e] /\ notified'[e] = notified[e]
  BY DEF Counted
<1>2. Owed(e)' = Owed(e)
  BY <1>1 DEF Owed
<1>3. (e \in skipped)' <=> e \in skipped
  BY Zenon DEF Counted
<1>4. QED  BY <1>1, <1>2, <1>3 DEF Accounted, Shown, HandedOver

(* The counters are numbers, and failures are only added.                  *)
LEMMA Counters ==
  ASSUME ClaimInv, [Next]_vars
  PROVE  /\ failures \in Nat /\ failures' \in Nat
         /\ \A e \in Events : emitted[e] \in Nat /\ delivered[e] \in Nat /\ Accounted(e) \in Nat
  BY NextTyped, FaultsAssumption DEF ClaimInv, TypeInv, TypeOK, Accounted, Owed

(* A worker that stays where it is, or is nowhere near the record, keeps   *)
(* within the budget while the event's counters do not move.               *)
LEMMA HolderStays ==
  ASSUME HandOverInv, NEW e \in Events, NEW w \in Workers,
         UNCHANGED Counted(e), failures \in Nat, failures' \in Nat, failures <= failures',
         emitted[e] \in Nat, Accounted(e) \in Nat,
         worker'[w] = worker[w] \/ worker'[w].pc \notin Claimed
  PROVE  HolderBudget(w, e)'
<1>1. HolderBudget(w, e)
  BY DEF HandOverInv, Budgets
<1>2. CASE worker'[w] = worker[w]
  BY <1>1, <1>2, CountedStay DEF HolderBudget
<1>3. CASE worker'[w].pc \notin Claimed
  BY <1>3 DEF HolderBudget, Claimed
<1>4. QED  BY <1>2, <1>3

(* So does a record that stays or is claimed.                              *)
LEMMA BudgetStays ==
  ASSUME HandOverInv, NEW e \in Events,
         UNCHANGED Counted(e), failures \in Nat, failures' \in Nat, failures <= failures',
         emitted[e] \in Nat, Accounted(e) \in Nat,
         record'[e] = record[e] \/ record'[e] = "processing"
           \/ (record[e] = "absent" /\ record'[e] = "pending")
  PROVE  Budget(e)'
<1>1. Budget(e)
  BY DEF HandOverInv, Budgets
<1>2. QED  BY <1>1, CountedStay DEF Budget

(* A step in which one worker moves leaves the other events in budget.     *)
LEMMA OtherEventsStay ==
  ASSUME HandOverInv, NEW w \in Workers, NEW e \in Events, NEW pc, Moves(w, pc),
         worker[w].event = e,
         failures \in Nat, failures' \in Nat, failures <= failures',
         \A f \in Events : emitted[f] \in Nat /\ Accounted(f) \in Nat,
         NEW f \in Events, f # e, UNCHANGED Counted(f), record'[f] = record[f]
  PROVE  Budget(f)' /\ \A v \in Workers : HolderBudget(v, f)'
<1>1. Budget(f)'
  BY BudgetStays
<1>2. ASSUME NEW v \in Workers, v # w PROVE HolderBudget(v, f)'
  BY <1>2, OthersStay, HolderStays DEF HandOverInv, ClaimInv
<1>3. HolderBudget(w, f)'
  BY OthersStay DEF HandOverInv, ClaimInv, HolderBudget
<1>4. QED  BY <1>1, <1>2, <1>3

(* The steps of a claimant spend what the claim is worth.                  *)
LEMMA PublishBudget ==
  ASSUME HandOverInv, [Next]_vars, NEW w \in Workers, NEW e \in Events,
         Claim(w, e) \/ EmitSockets(w, e) \/ EnqueueNotification(w, e)
           \/ MarkPublished(w, e) \/ MarkFailed(w, e)
  PROVE  Budgets'
<1>1. /\ failures \in Nat /\ failures' \in Nat
      /\ \A f \in Events : emitted[f] \in Nat /\ delivered[f] \in Nat /\ Accounted(f) \in Nat
      /\ worker[w].event = e /\ TypeInv
  BY Counters DEF HandOverInv, ClaimInv, Claim, EmitSockets, EnqueueNotification,
                  MarkPublished, MarkFailed, At
<1>2. failures' \in {failures, failures + 1} /\ failures <= failures'
  BY <1>1 DEF Claim, EmitSockets, EnqueueNotification, MarkPublished, MarkFailed, Fails
<1>3. Budget(e) /\ HolderBudget(w, e)
  BY DEF HandOverInv, Budgets
<1>4. worker[w].pc \in Claimed =>
        \A v \in Workers : v # w /\ worker[v].event = e => worker[v].pc \notin Claimed
  BY <1>1 DEF HandOverInv, ClaimInv, OneClaimant
<1>5. \E pc : Moves(w, pc)
  BY DEF Claim, EmitSockets, EnqueueNotification, MarkPublished, MarkFailed
<1>6. ASSUME NEW f \in Events, f # e
      PROVE  Budget(f)' /\ \A v \in Workers : HolderBudget(v, f)'
  <2>1. record'[f] = record[f]
    BY <1>1, <1>6, ProcessingIs
       DEF Claim, EmitSockets, EnqueueNotification, MarkPublished, MarkFailed, TypeInv, TypeOK
  <2>2. /\ emitted'[f] = emitted[f] /\ notified'[f] = notified[f]
        /\ delivered'[f] = delivered[f] /\ (f \in skipped' <=> f \in skipped)
    BY <1>1, <1>6 DEF Claim, EmitSockets, EnqueueNotification, MarkPublished, MarkFailed,
                      TypeInv, TypeOK, ghosts
  <2>3. UNCHANGED Counted(f)
    BY <2>2 DEF Counted
  <2>4. QED  BY <1>1, <1>2, <1>5, <1>6, <2>1, <2>3, OtherEventsStay
<1>7. ASSUME worker[w].pc \in Claimed, NEW v \in Workers, v # w
      PROVE  HolderBudget(v, e)'
  <2>1. worker'[v] = worker[v]
    BY <1>1, <1>5, <1>7, OthersStay
  <2>2. QED  BY <1>4, <1>7, <2>1 DEF HolderBudget, Claimed
<1>8. SUFFICES Budget(e)' /\ \A v \in Workers : HolderBudget(v, e)'
  BY <1>6 DEF Budgets
<1>9. CASE Claim(w, e)
  <2>1. UNCHANGED Counted(e)
    BY <1>9 DEF Claim, Counted, ghosts
  <2>2. record'[e] = record[e] \/ record'[e] = "processing"
    BY <1>1, <1>9, ProcessingIs DEF Claim
  <2>3. ASSUME NEW v \in Workers, v # w PROVE HolderBudget(v, e)'
    BY <1>1, <1>2, <1>5, <2>1, <2>3, OthersStay, HolderStays
  <2>4. HolderBudget(w, e)'
    <3>1. CASE Moves(w, "claimed") /\ Claimable(e)
      <4>1. worker'[w].pc = "claimed" /\ emitted[e] <= failures /\ Accounted(e) <= failures
        BY <1>1, <1>3, <3>1, OthersStay DEF Budget, Claimable
      <4>2. QED  BY <1>1, <1>2, <2>1, <4>1, CountedStay DEF HolderBudget
    <3>2. CASE Moves(w, "returned") \/ Moves(w, "threw")
      BY <1>1, <3>2, OthersStay DEF HolderBudget
    <3>3. QED  BY <1>9, <3>1, <3>2 DEF Claim
  <2>5. QED  BY <1>1, <1>2, <2>1, <2>2, <2>3, <2>4, BudgetStays
<1>10. CASE EmitSockets(w, e)
  <2>1. /\ delivered'[e] = delivered[e] /\ notified'[e] = notified[e]
        /\ record'[e] = record[e] /\ failures' = failures
        /\ worker[w].pc = "claimed" /\ Moves(w, "emitted")
    BY <1>10 DEF EmitSockets, At
  <2>2. \/ emitted'[e] = emitted[e] + 1
        \/ emitted'[e] = emitted[e] /\ e \in skipped'
    BY <1>1, <1>10 DEF EmitSockets, TypeInv, TypeOK
  <2>3. Accounted(e)' = Accounted(e) /\ Shown(e)' /\ (HandedOver(e)' <=> HandedOver(e))
    BY <1>1, <2>1, <2>2 DEF Accounted, Owed, Shown, HandedOver
  <2>4. record[e] = "processing" /\ emitted[e] <= failures /\ Accounted(e) <= failures
    BY <1>1, <1>3, <2>1 DEF HandOverInv, ClaimInv, OneClaimant, Claimed, HolderBudget
  <2>5. Budget(e)'
    BY <1>1, <1>3, <2>1, <2>2, <2>3, <2>4 DEF Budget
  <2>6. HolderBudget(w, e)'
    <3>1. worker'[w].pc = "emitted"
      BY <1>1, <2>1, OthersStay
    <3>2. QED  BY <2>1, <2>3, <2>4, <3>1 DEF HolderBudget
  <2>7. QED  BY <1>7, <2>1, <2>5, <2>6 DEF Claimed
<1>11. CASE EnqueueNotification(w, e)
  <2>1. /\ emitted'[e] = emitted[e] /\ delivered'[e] = delivered[e]
        /\ (e \in skipped' <=> e \in skipped) /\ record'[e] = record[e]
        /\ worker[w].pc = "emitted"
    BY <1>1, <1>11 DEF EnqueueNotification, At, ghosts
  <2>2. \/ notified'[e] # "none" /\ Moves(w, "handed") /\ failures' = failures
        \/ Moves(w, "caught") /\ failures' = failures + 1
    BY <1>1, <1>11 DEF EnqueueNotification, Fails, TypeInv, TypeOK
  <2>3. notified'[e] = notified[e] \/ (notified[e] = "none" /\ notified'[e] = "waiting")
    BY <1>1, <1>11 DEF EnqueueNotification, TypeInv, TypeOK
  <2>4. record[e] = "processing" /\ Accounted(e) <= failures /\ Shown(e)
    BY <1>1, <1>3, <2>1 DEF HandOverInv, ClaimInv, OneClaimant, Claimed, HolderBudget
  <2>5. Accounted(e)' \in {Accounted(e), Accounted(e) + 1} /\ Shown(e)'
    BY <1>1, <2>1, <2>3, <2>4 DEF Accounted, Owed, Shown
  <2>6. Budget(e)'
    <3>1. notified'[e] = "completed" => delivered'[e] > 0
      BY <1>3, <2>1, <2>3 DEF Budget
    <3>2. emitted'[e] <= 1 + failures' /\ Accounted(e)' <= 1 + failures'
      BY <1>1, <1>2, <1>3, <2>1, <2>4, <2>5 DEF Budget
    <3>3. QED  BY <2>1, <2>4, <3>1, <3>2 DEF Budget
  <2>7. HolderBudget(w, e)'
    <3>1. CASE notified'[e] # "none" /\ Moves(w, "handed")
      <4>1. worker'[w].pc = "handed"
        BY <1>1, <3>1, OthersStay
      <4>2. QED  BY <2>5, <3>1, <4>1 DEF HolderBudget, HandedOver
    <3>2. CASE Moves(w, "caught") /\ failures' = failures + 1
      <4>1. worker'[w].pc = "caught"
        BY <1>1, <3>2, OthersStay
      <4>2. emitted'[e] <= failures' /\ Accounted(e)' <= failures'
        BY <1>1, <1>3, <2>1, <2>4, <2>5, <3>2 DEF Budget
      <4>3. QED  BY <4>1, <4>2 DEF HolderBudget
    <3>3. QED  BY <2>2, <3>1, <3>2
  <2>8. QED  BY <1>7, <2>1, <2>6, <2>7 DEF Claimed
<1>12. CASE MarkPublished(w, e)
  <2>1. UNCHANGED Counted(e) /\ worker[w].pc = "handed"
    BY <1>12 DEF MarkPublished, At, Counted
  <2>2. record'[e] \in {"published", record[e]}
    BY <1>1, <1>12 DEF MarkPublished, TypeInv, TypeOK
  <2>3. Moves(w, "returned") \/ (Moves(w, "caught") /\ failures' = failures + 1)
    BY <1>12 DEF MarkPublished, Fails
  <2>4. Shown(e) /\ HandedOver(e)
    BY <1>1, <1>3, <2>1 DEF HolderBudget
  <2>5. Budget(e)'
    BY <1>1, <1>2, <1>3, <2>1, <2>2, <2>4, CountedStay DEF Budget
  <2>6. HolderBudget(w, e)'
    <3>1. CASE Moves(w, "returned")
      BY <1>1, <3>1, OthersStay DEF HolderBudget
    <3>2. CASE Moves(w, "caught") /\ failures' = failures + 1
      <4>1. worker'[w].pc = "caught"
        BY <1>1, <3>2, OthersStay
      <4>2. emitted'[e] <= failures' /\ Accounted(e)' <= failures'
        BY <1>1, <1>3, <2>1, <3>2, CountedStay DEF Budget
      <4>3. QED  BY <4>1, <4>2 DEF HolderBudget
    <3>3. QED  BY <2>3, <3>1, <3>2
  <2>7. QED  BY <1>7, <2>1, <2>5, <2>6 DEF Claimed
<1>13. CASE MarkFailed(w, e)
  <2>1. /\ UNCHANGED Counted(e) /\ worker[w].pc = "caught" /\ Moves(w, "threw")
        /\ record'[e] \in {"failed", record[e]}
    BY <1>1, <1>13 DEF MarkFailed, At, Counted, ghosts, TypeInv, TypeOK
  <2>2. emitted[e] <= failures /\ Accounted(e) <= failures
    BY <1>1, <1>3, <2>1 DEF HolderBudget
  <2>3. Budget(e)'
    BY <1>1, <1>2, <1>3, <2>1, <2>2, CountedStay DEF Budget
  <2>4. HolderBudget(w, e)'
    BY <1>1, <2>1, OthersStay DEF HolderBudget
  <2>5. QED  BY <1>7, <2>1, <2>3, <2>4 DEF Claimed
<1>14. QED  BY <1>9, <1>10, <1>11, <1>12, <1>13

(* The notification queue pays an owed notification once.                  *)
LEMMA NotificationBudget ==
  ASSUME HandOverInv, [Next]_vars, NEW e \in Events,
         DeliverNotification(e) \/ NotificationFails(e) \/ ExpireNotification(e)
  PROVE  Budgets'
<1>1. /\ failures \in Nat /\ failures' \in Nat
      /\ \A f \in Events : emitted[f] \in Nat /\ delivered[f] \in Nat /\ Accounted(f) \in Nat
      /\ notified \in [Events -> JobStates \ {"active", "delayed"}]
      /\ delivered \in [Events -> Nat]
  BY Counters DEF HandOverInv, ClaimInv, TypeInv, TypeOK
<1>2. /\ failures <= failures'
      /\ emitted' = emitted /\ record' = record /\ worker' = worker /\ skipped' = skipped
  BY <1>1 DEF DeliverNotification, NotificationFails, ExpireNotification, Fails, ghosts
<1>3. ASSUME NEW f \in Events, f # e
      PROVE  Budget(f)' /\ \A w \in Workers : HolderBudget(w, f)'
  <2>1. UNCHANGED Counted(f)
    BY <1>1, <1>2, <1>3 DEF DeliverNotification, NotificationFails, ExpireNotification, Counted
  <2>2. QED  BY <1>1, <1>2, <2>1, BudgetStays, HolderStays
<1>4. Budget(e) /\ \A w \in Workers : HolderBudget(w, e)
  BY DEF HandOverInv, Budgets
<1>5. Shown(e)' <=> Shown(e)
  BY <1>2 DEF Shown
<1>6. /\ Accounted(e)' = Accounted(e)
      /\ HandedOver(e) => HandedOver(e)'
      /\ notified'[e] = "completed" => delivered'[e] > 0
  <2>1. CASE DeliverNotification(e)
    <3>1. /\ notified[e] = "waiting" /\ notified'[e] = "completed"
          /\ delivered'[e] = delivered[e] + 1
      BY <1>1, <2>1 DEF DeliverNotification
    <3>2. QED  BY <1>1, <3>1 DEF Accounted, Owed, HandedOver
  <2>2. CASE NotificationFails(e)
    <3>1. notified[e] = "waiting" /\ notified'[e] = "failed" /\ delivered'[e] = delivered[e]
      BY <1>1, <2>2 DEF NotificationFails
    <3>2. QED  BY <1>1, <3>1 DEF Accounted, Owed, HandedOver
  <2>3. CASE ExpireNotification(e)
    <3>1. notified[e] = "completed" /\ notified'[e] = "none" /\ delivered'[e] = delivered[e]
      BY <1>1, <2>3 DEF ExpireNotification
    <3>2. QED  BY <1>1, <1>4, <3>1 DEF Accounted, Owed, HandedOver, Budget
  <2>4. QED  BY <2>1, <2>2, <2>3
<1>7. Budget(e)'
  BY <1>1, <1>2, <1>4, <1>5, <1>6 DEF Budget
<1>8. \A w \in Workers : HolderBudget(w, e)'
  BY <1>1, <1>2, <1>4, <1>5, <1>6 DEF HolderBudget
<1>9. QED  BY <1>3, <1>7, <1>8 DEF Budgets

(* A retried notification is one that was owed.                            *)
LEMMA SweepBudget ==
  ASSUME HandOverInv, [Next]_vars, Sweep
  PROVE  Budgets'
<1> SUFFICES ASSUME NEW e \in Events
             PROVE  Budget(e)' /\ \A w \in Workers : HolderBudget(w, e)'
  BY DEF Budgets
<1>1. /\ emitted' = emitted /\ record' = record /\ worker' = worker /\ delivered' = delivered
      /\ failures' = failures /\ skipped' = skipped
      /\ notified'[e] = IF notified[e] = "failed" THEN "waiting" ELSE notified[e]
  BY DEF Sweep, ghosts
<1>2. /\ Accounted(e)' = Accounted(e)
      /\ (HandedOver(e)' <=> HandedOver(e)) /\ (Shown(e)' <=> Shown(e))
      /\ (notified'[e] = "completed" <=> notified[e] = "completed")
  BY <1>1 DEF Accounted, Owed, HandedOver, Shown
<1>3. Budget(e) /\ \A w \in Workers : HolderBudget(w, e)
  BY DEF HandOverInv, Budgets
<1>4. QED  BY <1>1, <1>2, <1>3 DEF Budget, HolderBudget

(* The other steps move no counter, and no worker to where one is needed.  *)
LEMMA RestBudget ==
  ASSUME HandOverInv, [Next]_vars,
         \/ \E e \in Events :
              \/ Store(e) \/ Add(e) \/ AddFails(e) \/ Promote(e) \/ FindStalled(e)
              \/ Stall(e) \/ Expire(e) \/ Ripen(e)
              \/ \E w \in Workers : Take(w, e) \/ Settle(w, e)
         \/ \E w \in Workers : CrashWorker(w) \/ CloseSocket(w) \/ RestartWorker(w)
         \/ UNCHANGED vars
  PROVE  Budgets'
<1> SUFFICES ASSUME NEW f \in Events
             PROVE  Budget(f)' /\ \A w \in Workers : HolderBudget(w, f)'
  BY DEF Budgets
<1>1. /\ failures \in Nat /\ failures' \in Nat /\ emitted[f] \in Nat /\ Accounted(f) \in Nat
      /\ record \in [Events -> Recorded \cup {"absent"}]
      /\ worker \in [Workers -> [event : Events \cup {NoEvent}, pc : Places]]
  BY Counters DEF HandOverInv, ClaimInv, TypeInv, TypeOK
<1>2. /\ UNCHANGED <<emitted, notified, delivered, skipped>>
      /\ failures' \in {failures, failures + 1}
  BY DEF Store, Add, AddFails, Promote, FindStalled, Stall, Unlocked, Expire, Ripen,
         Take, Settle, CrashWorker, CloseSocket, RestartWorker, Fails, vars, ghosts
<1>3. UNCHANGED Counted(f) /\ failures <= failures'
  BY <1>1, <1>2 DEF Counted
<1>4. record'[f] = record[f] \/ (record[f] = "absent" /\ record'[f] = "pending")
  BY <1>1 DEF Store, Add, AddFails, Promote, FindStalled, Stall, Unlocked, Expire, Ripen,
              Take, Settle, CrashWorker, CloseSocket, RestartWorker, vars
<1>5. \A w \in Workers : worker'[w] = worker[w] \/ worker'[w].pc \notin Claimed
  <2>1. CASE worker' = worker
    BY <2>1
  <2>2. ASSUME NEW v \in Workers, NEW x, x.pc \notin Claimed, worker' = [worker EXCEPT ![v] = x]
        PROVE  \A w \in Workers : worker'[w] = worker[w] \/ worker'[w].pc \notin Claimed
    BY <1>1, <2>2
  <2>3. Idle.pc \notin Claimed /\ \A e \in Events : [event |-> e, pc |-> "taken"].pc \notin Claimed
    BY DEF Idle, Claimed
  <2>4. ASSUME NEW e \in Events, NEW w \in Workers, Take(w, e) \/ Settle(w, e) \/ CrashWorker(w)
        PROVE  \E v \in Workers : \E x :
                 x.pc \notin Claimed /\ worker' = [worker EXCEPT ![v] = x]
    BY <2>3, <2>4 DEF Take, Settle, CrashWorker
  <2>5. QED
    BY <2>1, <2>2, <2>4
       DEF Store, Add, AddFails, Promote, FindStalled, Stall, Unlocked, Expire, Ripen,
           CloseSocket, RestartWorker, vars
<1>6. QED  BY <1>1, <1>3, <1>4, <1>5, BudgetStays, HolderStays

(* The budgets hold throughout.                                            *)
LEMMA HandOverAlways == Spec => []HandOverInv
<1>1. Init => ClaimInv
  BY InitTyped DEF Init, ClaimInv, OneClaimant, Idle, Claimed
<1>2. ASSUME Init, NEW e \in Events
      PROVE  Budget(e) /\ \A w \in Workers : HolderBudget(w, e)
  <2>1. /\ emitted[e] = 0 /\ delivered[e] = 0 /\ notified[e] = "none" /\ record[e] = "absent"
        /\ failures = 0 /\ Accounted(e) = 0
        /\ \A w \in Workers : worker[w].pc = "idle"
    BY <1>2 DEF Init, Idle, Accounted, Owed
  <2>2. QED  BY <2>1 DEF Budget, HolderBudget
<1>3. ClaimInv /\ [Next]_vars => ClaimInv'
  BY NextTyped, ClaimOnce, OthersClaimOnce DEF ClaimInv, Next, Publish
<1>4. HandOverInv /\ [Next]_vars => Budgets'
  BY PublishBudget, NotificationBudget, SweepBudget, RestBudget DEF Next, Publish
<1>5. Init => HandOverInv
  BY <1>1, <1>2 DEF HandOverInv, Budgets
<1>6. QED  BY <1>3, <1>4, <1>5, PTL DEF Spec, HandOverInv

(* What is published was emitted, or met a process without io, and its     *)
(* notification was queued.                                                *)
THEOREM HandedOverFirst == Spec => []PublishedWasHandedOver
<1>1. HandOverInv => PublishedWasHandedOver
  BY DEF HandOverInv, Budgets, Budget, Shown, HandedOver, PublishedWasHandedOver
<1>2. QED  BY <1>1, HandOverAlways, PTL

(* Each repetition of an emission or of a notification costs a failure.    *)
THEOREM RepeatsCostFailures == Spec => []DeliveriesBounded
<1>1. ASSUME HandOverInv PROVE DeliveriesBounded
  <2> SUFFICES ASSUME NEW e \in Events
               PROVE  emitted[e] <= 1 + failures /\ delivered[e] <= 1 + failures
    BY DEF DeliveriesBounded
  <2>1. /\ failures \in Nat /\ emitted[e] \in Nat /\ delivered[e] \in Nat
        /\ Owed(e) \in Nat /\ Budget(e)
    BY <1>1, FaultsAssumption DEF HandOverInv, ClaimInv, TypeInv, TypeOK, Budgets, Owed
  <2>2. QED  BY <2>1 DEF Budget, Accounted
<1>2. QED  BY <1>1, HandOverAlways, PTL

----------------------------------------------------------------------------
(* The process that the workers live in, and the audit queue beside the    *)
(* outbox: ProcessLife.                                                    *)

(* The death of the process is typed.                                      *)
LEMMA GoneTyped ==
  ASSUME LifeTypeOK, Gone
  PROVE  /\ boot' \in BootSteps \cup {"up", "down"} /\ open' \subseteq Parts
         /\ closing' \in [Shutdowns -> ShutdownSteps \cup {"none"}]
         /\ early' \in BOOLEAN
         /\ req' \in [Requests -> {"none", "working", "answered", "failed"}]
         /\ recording' \subseteq Requests
         /\ run' \in [Ids -> {"idle", "taken", "written", "threw"}]
         /\ UNCHANGED <<requestId, auditJob, about, tries, auditStalls, entries>>
  BY DEF LifeTypeOK, Gone, auditQueue

(* An exit that cuts something off follows a signal of its own.            *)
Cuts ==
  /\ cut <= signals
  /\ (\E s \in Shutdowns : closing[s] # "none") => cut < signals

LifeTyped == LifeTypeOK /\ Cuts

(* A shutdown that moves on was begun, and the others stay.                *)
LEMMA ShutdownMoves ==
  ASSUME LifeTypeOK, NEW s \in Shutdowns,
         HttpDrained(s) \/ JobsDrained(s) \/ ServerDrained(s) \/ DisconnectDB(s)
  PROVE  /\ \E q \in ShutdownSteps : q # "none" /\ closing' = [closing EXCEPT ![s] = q]
         /\ closing[s] # "none" /\ open' \subseteq open
         /\ UNCHANGED <<boot, early, req, requestId, recording, auditJob, about, tries,
                        auditStalls, run, entries, cut,
                        signals, faults>>
<1> USE DEF ShutdownSteps, Undisturbed, handlers, auditQueue, bounds
<1>1. CASE HttpDrained(s)
  BY <1>1 DEF HttpDrained, Shuts
<1>2. CASE JobsDrained(s)
  BY <1>2 DEF JobsDrained, StopsWaitingForJobs, Shuts, AfterQueues
<1>3. CASE ServerDrained(s)
  BY <1>3 DEF ServerDrained, Shuts
<1>4. CASE DisconnectDB(s)
  BY <1>4 DEF DisconnectDB, Shuts
<1>5. QED  BY <1>1, <1>2, <1>3, <1>4

(* Every step is typed, and no exit outruns its signal.                    *)
LEMMA TypedStep ==
  ASSUME LifeTyped, [LifeNext]_lifeVars
  PROVE  LifeTyped'
<1>0. /\ Attempts \in Nat \ {0} /\ MaxSignals \in Nat /\ MaxFaults \in Nat
      /\ LifeTypeOK /\ Cuts
      /\ signals \in 0..MaxSignals /\ faults \in 0..MaxFaults /\ cut \in 0..MaxSignals
  BY LifeAssumption DEF LifeTyped, LifeTypeOK
<1>a. ASSUME LifeTypeOK', Cuts' PROVE LifeTyped'
  BY <1>a DEF LifeTyped
<1>b. Fault => faults' \in 0..MaxFaults /\ signals' = signals
  BY <1>0 DEF Fault
<1>1. CASE Boots
  <2>1. PICK next \in BootSteps \cup {"up"}, parts \in SUBSET Parts :
          /\ boot' = next /\ open' = open \cup parts
          /\ UNCHANGED <<closing, early, handlers, auditQueue, run, entries, cut, bounds>>
    BY <1>1 DEF Boots, ConnectDB, ConnectRedis, InitSocket, StartWorkers,
        Listen, Booted, BootSteps, Parts
  <2>2. LifeTypeOK'
    BY <1>0, <2>1 DEF LifeTypeOK, handlers, auditQueue, bounds
  <2>3. Cuts'
    BY <1>0, <2>1 DEF Cuts, bounds
  <2>4. QED  BY <1>a, <2>2, <2>3
<1>2. CASE BootFails \/ Crash
  <2>1. Gone /\ cut' = cut /\ signals' = signals /\ faults' \in 0..MaxFaults
    BY <1>b, <1>2 DEF BootFails, Crash, Fault
  <2>2. LifeTypeOK'
    BY <1>0, <2>1, GoneTyped DEF LifeTypeOK
  <2>3. Cuts'
    BY <1>0, <2>1 DEF Cuts, Gone
  <2>4. QED  BY <1>a, <2>2, <2>3
<1>3. CASE Restart
  <2>1. LifeTypeOK'
    BY <1>0, <1>3 DEF LifeTypeOK, Restart, handlers, auditQueue, bounds, BootSteps
  <2>2. Cuts'
    BY <1>0, <1>3 DEF Cuts, Restart, bounds
  <2>3. QED  BY <1>a, <2>1, <2>2
<1>4. ASSUME NEW s \in Shutdowns, Signal(s) PROVE LifeTyped'
  <2>1. /\ closing[s] = "none" /\ \E q \in ShutdownSteps : closing' = [closing EXCEPT ![s] = q]
        /\ open' \subseteq open /\ early' = (early \/ boot # "up")
        /\ signals < MaxSignals /\ signals' = signals + 1
        /\ UNCHANGED <<boot, req, requestId, recording, auditJob, about, tries,
                        auditStalls, run, entries, cut, faults>>
    BY <1>4 DEF Signal, Shuts, ShutdownSteps, handlers, auditQueue
  <2>2. LifeTypeOK'
    <3>1. signals' \in 0..MaxSignals
      BY <1>0, <2>1
    <3>2. early' \in BOOLEAN
      BY <2>1
    <3>3. closing' \in [Shutdowns -> ShutdownSteps \cup {"none"}]
      BY <1>0, <2>1 DEF LifeTypeOK
    <3>4. QED  BY <1>0, <2>1, <3>1, <3>2, <3>3 DEF LifeTypeOK
  <2>3. Cuts'
    BY <1>0, <2>1 DEF Cuts
  <2>4. QED  BY <1>a, <2>2, <2>3
<1>5. ASSUME NEW s \in Shutdowns,
             HttpDrained(s) \/ JobsDrained(s) \/ ServerDrained(s) \/ DisconnectDB(s)
      PROVE  LifeTyped'
  <2>1. /\ \E q \in ShutdownSteps : q # "none" /\ closing' = [closing EXCEPT ![s] = q]
        /\ closing[s] # "none" /\ open' \subseteq open
        /\ UNCHANGED <<boot, early, req, requestId, recording, auditJob, about, tries,
                        auditStalls, run, entries, cut,
                        signals, faults>>
    BY <1>0, <1>5, ShutdownMoves
  <2>2. LifeTypeOK'
    BY <1>0, <2>1 DEF LifeTypeOK
  <2>3. Cuts'
    BY <1>0, <2>1 DEF Cuts
  <2>4. QED  BY <1>a, <2>2, <2>3
<1>6. ASSUME NEW s \in Shutdowns, QueuesClosed(s) PROVE LifeTyped'
  <2>1. LifeTypeOK'
    BY <1>0, <1>6 DEF LifeTypeOK, QueuesClosed, Undisturbed, AfterQueues,
        ShutdownSteps, handlers, auditQueue, bounds
  <2>2. Cuts'
    BY <1>0, <1>6 DEF Cuts, QueuesClosed, Undisturbed, bounds
  <2>3. QED  BY <1>a, <2>1, <2>2
<1>7. ASSUME NEW s \in Shutdowns, Exit(s) PROVE LifeTyped'
  <2>1. Gone /\ cut' \in {cut, cut + 1} /\ closing[s] # "none" /\ signals' = signals /\ faults' = faults
    BY <1>7 DEF Exit, bounds
  <2>2. cut' \in 0..MaxSignals
    BY <1>0, <2>1 DEF Cuts
  <2>3. LifeTypeOK'
    BY <1>0, <2>1, <2>2, GoneTyped DEF LifeTypeOK
  <2>4. Cuts'
    BY <1>0, <2>1 DEF Cuts, Gone
  <2>5. QED  BY <1>a, <2>3, <2>4
<1>8. ASSUME NEW r \in Requests, Accept(r) \/ Handle(r) \/ Record(r) \/ RecordFails(r)
      PROVE  LifeTyped'
  <2>1. Cuts'
    BY <1>0, <1>8 DEF Cuts, Accept, Handle, Record, RecordFails, Fault, process,
        bounds
  <2>2. CASE Accept(r) \/ Handle(r)
    <3>1. LifeTypeOK'
      BY <1>0, <2>2 DEF LifeTypeOK, Accept, Handle, process, auditQueue, bounds
    <3>2. QED  BY <1>a, <2>1, <3>1
  <2>3. CASE Record(r)
    <3>1. requestId[r] \in Ids
      BY <1>0 DEF LifeTypeOK
    <3>2. LifeTypeOK'
      BY <1>0, <2>3, <3>1 DEF LifeTypeOK, Record, AuditStates, Parts, bounds
    <3>3. QED  BY <1>a, <2>1, <3>2
  <2>4. CASE RecordFails(r)
    <3>1. faults' \in 0..MaxFaults /\ signals' = signals
      BY <1>b, <2>4 DEF RecordFails
    <3>2. LifeTypeOK'
      BY <1>0, <2>4, <3>1 DEF LifeTypeOK, RecordFails, process, auditQueue
    <3>3. QED  BY <1>a, <2>1, <3>2
  <2>5. QED  BY <1>8, <2>2, <2>3, <2>4
<1>9. ASSUME NEW i \in Ids,
             Works(i) \/ PromoteAudit(i) \/ FindAuditStalled(i) \/ SweepAudit(i) \/ ExpireAudit(i)
      PROVE  LifeTyped'
  <2>1. Cuts'
    BY <1>0, <1>9 DEF Cuts, Works, TakeAudit, WriteAudit, CompleteAudit, FailAudit, PromoteAudit,
        FindAuditStalled, SweepAudit, ExpireAudit,
       Fault, process, bounds
  <2>2. CASE TakeAudit(i) \/ PromoteAudit(i) \/ SweepAudit(i) \/ ExpireAudit(i)
    <3>1. LifeTypeOK'
      BY <1>0, <2>2 DEF LifeTypeOK, TakeAudit, PromoteAudit, SweepAudit, ExpireAudit, AuditStates,
          process, handlers, bounds
    <3>2. QED  BY <1>a, <2>1, <3>1
  <2>3. CASE WriteAudit(i)
    <3>1. about[i] \in Requests /\ entries[about[i]] + 1 \in Nat
      BY <1>0 DEF LifeTypeOK
    <3>2. entries' \in [Requests -> Nat]
      BY <1>0, <2>3, <3>1 DEF LifeTypeOK, WriteAudit
    <3>3. run' \in [Ids -> {"idle", "taken", "written", "threw"}]
      BY <1>0, <2>3 DEF LifeTypeOK, WriteAudit
    <3>4. faults' \in 0..MaxFaults /\ signals' = signals
      BY <1>0, <1>b, <2>3 DEF WriteAudit, bounds
    <3>5. UNCHANGED <<process, handlers, auditQueue, cut>>
      BY <2>3 DEF WriteAudit
    <3>6. LifeTypeOK'
      BY <1>0, <3>2, <3>3, <3>4, <3>5 DEF LifeTypeOK, process, handlers, auditQueue
    <3>7. QED  BY <1>a, <2>1, <3>6
  <2>4. CASE CompleteAudit(i)
    <3>1. LifeTypeOK'
      BY <1>0, <2>4 DEF LifeTypeOK, CompleteAudit, AuditStates, process, handlers, bounds
    <3>2. QED  BY <1>a, <2>1, <3>1
  <2>5. CASE FailAudit(i)
    <3>1. tries[i] \in 0..Attempts
      BY <1>0 DEF LifeTypeOK
    <3>2. \E m \in 0..Attempts : tries' = [tries EXCEPT ![i] = m]
      <4> DEFINE m == IF tries[i] < Attempts THEN tries[i] + 1 ELSE tries[i]
      <4>1. m \in 0..Attempts
        BY <1>0, <3>1
      <4>2. tries' = [tries EXCEPT ![i] = m]
        BY <2>5 DEF FailAudit
      <4> HIDE DEF m
      <4>3. QED  BY <4>1, <4>2
    <3>3. LifeTypeOK'
      BY <1>0, <2>5, <3>2 DEF LifeTypeOK, FailAudit, AuditStates, process, handlers, bounds
    <3>4. QED  BY <1>a, <2>1, <3>3
  <2>6. CASE FindAuditStalled(i)
    <3>1. \E m \in 0..2 : auditStalls' = [auditStalls EXCEPT ![i] = m]
      <4> DEFINE m == IF auditStalls[i] < 2 THEN auditStalls[i] + 1 ELSE auditStalls[i]
      <4>1. auditStalls[i] \in 0..2
        BY <1>0 DEF LifeTypeOK
      <4>2. m \in 0..2
        BY <4>1
      <4>3. auditStalls' = [auditStalls EXCEPT ![i] = m]
        BY <2>6 DEF FindAuditStalled
      <4> HIDE DEF m
      <4>4. QED  BY <4>2, <4>3
    <3>2. LifeTypeOK'
      BY <1>0, <2>6, <3>1 DEF LifeTypeOK, FindAuditStalled, AuditStates, process, handlers,
          bounds
    <3>3. QED  BY <1>a, <2>1, <3>2
  <2>7. QED  BY <1>9, <2>2, <2>3, <2>4, <2>5, <2>6 DEF Works
<1>10. CASE UNCHANGED lifeVars
  <2>1. LifeTypeOK' /\ Cuts'
    BY <1>0, <1>10 DEF LifeTypeOK, Cuts, lifeVars, process, handlers, auditQueue, bounds
  <2>2. QED  BY <1>a, <2>1
<1>11. QED  BY <1>1, <1>2, <1>3, <1>4, <1>5, <1>6, <1>7, <1>8, <1>9, <1>10 DEF LifeNext, ShutsDown

----------------------------------------------------------------------------
(* The order of boot and shutdown.                                         *)
NoneWorking == \A r \in Requests : req[r] # "working"
NoJobs == \A i \in Ids : run[i] = "idle"
NoShutdown == \A s \in Shutdowns : closing[s] = "none"

(* What a shutdown has behind it at each of its steps.                     *)
AfterHttp == {"drainJobs", "drainQueues", "drainServer", "disconnectDB", "disconnectRedis", "rejected"}
AfterJobs == AfterHttp \ {"drainJobs"}
AfterAdds == AfterJobs \ {"drainQueues"}

(* Nothing works without a process.                                        *)
DeadIsQuiet ==
  boot = "down" => open = {} /\ NoneWorking /\ NoJobs /\ recording = {} /\ ~ early /\ NoShutdown

(* The boot opens the connections before it opens anything that uses them. *)
BootOrder ==
  boot \in BootSteps /\ ~ early =>
    /\ NoneWorking /\ recording = {} /\ NoShutdown /\ "http" \notin open
    /\ boot # "listen" => NoJobs /\ "workers" \notin open
    /\ boot # "connectDB" => "mongo" \in open
    /\ boot \in {"initSocket", "startWorkers", "listen"} => "redis" \in open
    /\ boot \in {"startWorkers", "listen"} => "io" \in open
    /\ boot = "listen" => "queues" \in open

(* Shutdowns, however many there are, close a part after what uses it has  *)
(* ended and nothing can begin to use it.                                  *)
ShutdownOrder ==
  boot = "up" /\ ~ early =>
    /\ "redis" \in open
    /\ ~ NoShutdown => "http" \notin open
    /\ "io" \notin open => "http" \notin open /\ "workers" \notin open /\ NoneWorking
    /\ "queues" \notin open => "io" \notin open /\ recording = {}
    /\ "mongo" \notin open => \E s \in Shutdowns : closing[s] = "disconnectRedis"
    /\ \A s \in Shutdowns : closing[s] \in AfterHttp => "io" \notin open
    /\ \A s \in Shutdowns : closing[s] \in AfterJobs => NoJobs
    /\ \A s \in Shutdowns : closing[s] \in AfterAdds => recording = {}

OrderInv == DeadIsQuiet /\ BootOrder /\ ShutdownOrder

(* A signal during the boot apart, every step keeps the order: each part   *)
(* is closed by a shutdown that has seen those who use it end.             *)
LEMMA OrderStep ==
  ASSUME LifeTypeOK, OrderInv, [LifeNext]_lifeVars
  PROVE  OrderInv'
<1> USE DEF NoneWorking, NoJobs, NoShutdown
<1>0. DeadIsQuiet /\ BootOrder /\ ShutdownOrder
  BY DEF OrderInv
<1>a. ASSUME DeadIsQuiet', BootOrder', ShutdownOrder' PROVE OrderInv'
  BY <1>a DEF OrderInv
<1>1. CASE Boots
  <2>1. DeadIsQuiet'
    BY <1>1 DEF Boots, ConnectDB, ConnectRedis, InitSocket, StartWorkers,
        Listen, Booted, DeadIsQuiet
  <2>2. BootOrder'
    BY <1>0, <1>1 DEF Boots, ConnectDB, ConnectRedis, InitSocket, StartWorkers,
        Listen, Booted, BootOrder,
       BootSteps, handlers
  <2>3. ShutdownOrder'
    <3>1. CASE Listen
      BY <1>0, <3>1 DEF Listen, Booted, BootOrder, ShutdownOrder, BootSteps, handlers,
         AfterHttp, AfterJobs, AfterAdds
    <3>2. CASE ~ Listen
      BY <1>1, <3>2 DEF Boots, ConnectDB, ConnectRedis, InitSocket,
          StartWorkers, Booted, ShutdownOrder
    <3>3. QED  BY <3>1, <3>2
  <2>4. QED  BY <1>a, <2>1, <2>2, <2>3
<1>2. CASE Gone
  <2>1. DeadIsQuiet' /\ BootOrder' /\ ShutdownOrder'
    BY <1>2 DEF LifeTypeOK, Gone, DeadIsQuiet, BootOrder, ShutdownOrder, BootSteps
  <2>2. QED  BY <1>a, <2>1
<1>3. CASE Restart
  <2>1. DeadIsQuiet' /\ BootOrder' /\ ShutdownOrder'
    BY <1>0, <1>3 DEF Restart, DeadIsQuiet, BootOrder, ShutdownOrder, BootSteps, handlers
  <2>2. QED  BY <1>a, <2>1
<1>4. ASSUME NEW s \in Shutdowns, Signal(s) PROVE OrderInv'
  <2>1. boot # "down" /\ UNCHANGED <<boot, req, recording, run>> /\ early' = (early \/ boot # "up")
    BY <1>4 DEF Signal, handlers
  <2>2. DeadIsQuiet' /\ BootOrder'
    BY <2>1 DEF DeadIsQuiet, BootOrder, BootSteps
  <2>3. ShutdownOrder'
    <3>1. SUFFICES ASSUME boot = "up", ~ early PROVE ShutdownOrder'
      BY <2>1 DEF ShutdownOrder
    <3>2. CASE "io" \in open
      <4>1. closing[s] = "none" /\ closing' = [closing EXCEPT ![s] = "drainHttp"] /\ open' = open \ {"http"}
        BY <1>4, <3>2 DEF Signal, Shuts
      <4>2. closing'[s] = "drainHttp" /\ \A x \in Shutdowns \ {s} : closing'[x] = closing[x]
        BY <4>1 DEF LifeTypeOK
      <4>3. QED  BY <1>0, <2>1, <3>1, <3>2, <4>1, <4>2
                    DEF ShutdownOrder, AfterHttp, AfterJobs, AfterAdds
    <3>3. CASE "io" \notin open
      <4>1. closing[s] = "none" /\ closing' = [closing EXCEPT ![s] = "drainJobs"] /\ open' = open \ {"workers"}
        BY <1>4, <3>3 DEF Signal, Shuts
      <4>2. closing'[s] = "drainJobs" /\ \A x \in Shutdowns \ {s} : closing'[x] = closing[x]
        BY <4>1 DEF LifeTypeOK
      <4>3. QED  BY <1>0, <2>1, <3>1, <3>3, <4>1, <4>2
                    DEF ShutdownOrder, AfterHttp, AfterJobs, AfterAdds
    <3>4. QED  BY <3>2, <3>3
  <2>4. QED  BY <1>a, <2>2, <2>3
<1>5. ASSUME NEW s \in Shutdowns, ShutsDown(s), ~ Exit(s) PROVE OrderInv'
  <2>1. /\ UNCHANGED <<boot, early, req, recording, run>> /\ open' \subseteq open
        /\ closing[s] # "none"
    BY <1>5 DEF ShutsDown, HttpDrained, JobsDrained, QueuesClosed,
        ServerDrained, DisconnectDB,
       StopsWaitingForJobs, Shuts, Undisturbed, handlers
  <2>2. DeadIsQuiet' /\ BootOrder'
    BY <1>0, <2>1 DEF DeadIsQuiet, BootOrder
  <2>3. ShutdownOrder'
    <3> SUFFICES ASSUME boot = "up", ~ early PROVE ShutdownOrder'
      BY <2>1 DEF ShutdownOrder
    <3>0. "http" \notin open /\ "redis" \in open
      BY <1>0, <2>1 DEF ShutdownOrder
    <3>a. ASSUME NEW q \in ShutdownSteps, closing' = [closing EXCEPT ![s] = q]
          PROVE  closing'[s] = q /\ \A x \in Shutdowns \ {s} : closing'[x] = closing[x]
      BY <3>a DEF LifeTypeOK
    <3>1. CASE HttpDrained(s)
      <4>1. /\ NoneWorking /\ closing' = [closing EXCEPT ![s] = "drainJobs"]
            /\ open' = open \ {"io", "workers"}
        BY <3>1 DEF HttpDrained, Shuts, InFlight
      <4>2. closing'[s] = "drainJobs" /\ \A x \in Shutdowns \ {s} : closing'[x] = closing[x]
        BY <3>a, <4>1 DEF ShutdownSteps
      <4>3. closing[s] = "drainHttp"
        BY <3>1 DEF HttpDrained, Shuts
      <4>4. QED  BY <1>0, <2>1, <3>0, <4>1, <4>2, <4>3
                    DEF ShutdownOrder, AfterHttp, AfterJobs, AfterAdds
    <3>2. CASE JobsDrained(s)
      <4>1. closing[s] = "drainJobs" /\ (NoJobs \/ "workers" \in open)
        BY <3>2 DEF JobsDrained, StopsWaitingForJobs, Shuts, ActiveJobs
      <4>2. "io" \notin open /\ "workers" \notin open /\ NoneWorking /\ NoJobs
        BY <1>0, <4>1 DEF ShutdownOrder, AfterHttp
      <4>3. CASE "queues" \in open
        <5>1. closing' = [closing EXCEPT ![s] = "drainQueues"] /\ open' = open
          BY <3>2, <4>3 DEF JobsDrained, StopsWaitingForJobs, Shuts
        <5>2. closing'[s] = "drainQueues" /\ \A x \in Shutdowns \ {s} : closing'[x] = closing[x]
          BY <3>a, <5>1 DEF ShutdownSteps
        <5>3. QED  BY <1>0, <2>1, <3>0, <4>1, <4>2, <5>1, <5>2
                      DEF ShutdownOrder, AfterHttp, AfterJobs, AfterAdds
      <4>4. CASE "queues" \notin open
        <5>1. closing' = [closing EXCEPT ![s] = "disconnectDB"] /\ open' = open \ {"http"} /\ recording = {}
          BY <1>0, <3>0, <3>2, <4>4 DEF JobsDrained, StopsWaitingForJobs, Shuts,
              AfterQueues, ShutdownOrder
        <5>2. closing'[s] = "disconnectDB" /\ \A x \in Shutdowns \ {s} : closing'[x] = closing[x]
          BY <3>a, <5>1 DEF ShutdownSteps
        <5>3. QED  BY <1>0, <2>1, <3>0, <4>1, <4>2, <5>1, <5>2
                      DEF ShutdownOrder, AfterHttp, AfterJobs, AfterAdds
      <4>5. QED  BY <4>3, <4>4
    <3>3. CASE QueuesClosed(s)
      <4>1. /\ closing[s] = "drainQueues" /\ recording = {} /\ open' = open \ {"queues", "http"}
            /\ closing'[s] = "disconnectDB"
            /\ \A x \in Shutdowns \ {s} :
                 closing'[x] = IF closing[x] = "drainQueues" THEN "rejected" ELSE closing[x]
        BY <3>0, <3>3 DEF QueuesClosed, AfterQueues
      <4>2. "io" \notin open /\ NoneWorking /\ NoJobs
        BY <1>0, <4>1 DEF ShutdownOrder, AfterHttp, AfterJobs
      <4>3. QED  BY <1>0, <2>1, <3>0, <4>1, <4>2
                    DEF ShutdownOrder, AfterHttp, AfterJobs, AfterAdds
    <3>4. CASE ServerDrained(s)
      <4>1. /\ closing[s] = "drainServer" /\ closing' = [closing EXCEPT ![s] = "disconnectDB"]
            /\ open' = open
        BY <3>4 DEF ServerDrained, Shuts
      <4>2. closing'[s] = "disconnectDB" /\ \A x \in Shutdowns \ {s} : closing'[x] = closing[x]
        BY <3>a, <4>1 DEF ShutdownSteps
      <4>3. QED  BY <1>0, <2>1, <3>0, <4>1, <4>2
                    DEF ShutdownOrder, AfterHttp, AfterJobs, AfterAdds
    <3>5. CASE DisconnectDB(s)
      <4>1. /\ closing[s] = "disconnectDB" /\ closing' = [closing EXCEPT ![s] = "disconnectRedis"]
            /\ open' = open \ {"mongo"}
        BY <3>5 DEF DisconnectDB, Shuts
      <4>2. closing'[s] = "disconnectRedis" /\ \A x \in Shutdowns \ {s} : closing'[x] = closing[x]
        BY <3>a, <4>1 DEF ShutdownSteps
      <4>3. QED  BY <1>0, <2>1, <3>0, <4>1, <4>2
                    DEF ShutdownOrder, AfterHttp, AfterJobs, AfterAdds
    <3>6. QED  BY <1>5, <3>1, <3>2, <3>3, <3>4, <3>5 DEF ShutsDown
  <2>4. QED  BY <1>a, <2>2, <2>3
<1>6. ASSUME NEW r \in Requests, Accept(r) PROVE OrderInv'
  <2>1. /\ "http" \in open /\ UNCHANGED <<boot, open, closing, early, recording, run>>
        /\ boot # "down"
    BY <1>0, <1>6 DEF Accept, process, DeadIsQuiet
  <2>2. DeadIsQuiet' /\ BootOrder' /\ ShutdownOrder'
    BY <1>0, <2>1 DEF DeadIsQuiet, BootOrder, ShutdownOrder
  <2>3. QED  BY <1>a, <2>2
<1>7. ASSUME NEW r \in Requests, Handle(r) PROVE OrderInv'
  <2>1. /\ UNCHANGED <<boot, open, closing, early, run>> /\ req[r] = "working" /\ ~ NoneWorking
        /\ \A x \in Requests : req'[x] = "working" => req[x] = "working"
    BY <1>7 DEF Handle, process, LifeTypeOK
  <2>2. DeadIsQuiet' /\ BootOrder' /\ ShutdownOrder'
    BY <1>0, <2>1 DEF DeadIsQuiet, BootOrder, ShutdownOrder, AfterHttp, AfterJobs, AfterAdds
  <2>3. QED  BY <1>a, <2>2
<1>8. ASSUME NEW r \in Requests, Record(r) \/ RecordFails(r) PROVE OrderInv'
  <2>1. /\ UNCHANGED <<boot, closing, early, req, run>> /\ r \in recording /\ recording' \subseteq recording
        /\ open' \in {open, open \cup {"queues"}}
    BY <1>8 DEF Record, RecordFails, process
  <2>2. DeadIsQuiet' /\ BootOrder' /\ ShutdownOrder'
    BY <1>0, <2>1 DEF DeadIsQuiet, BootOrder, ShutdownOrder
  <2>3. QED  BY <1>a, <2>2
<1>9. ASSUME NEW i \in Ids, TakeAudit(i) PROVE OrderInv'
  <2>1. "workers" \in open /\ UNCHANGED <<boot, open, closing, early, req, recording>>
    BY <1>9 DEF TakeAudit, process, handlers
  <2>2. DeadIsQuiet' /\ BootOrder' /\ ShutdownOrder'
    BY <1>0, <2>1 DEF DeadIsQuiet, BootOrder, ShutdownOrder, AfterHttp, AfterJobs
  <2>3. QED  BY <1>a, <2>2
<1>10. ASSUME NEW i \in Ids, WriteAudit(i) \/ CompleteAudit(i) \/ FailAudit(i) PROVE OrderInv'
  <2>1. UNCHANGED <<boot, open, closing, early, req, recording>> /\ ~ NoJobs
    BY <1>10 DEF WriteAudit, CompleteAudit, FailAudit, process, handlers
  <2>2. DeadIsQuiet' /\ BootOrder' /\ ShutdownOrder'
    BY <1>0, <2>1 DEF DeadIsQuiet, BootOrder, ShutdownOrder
  <2>3. QED  BY <1>a, <2>2
<1>11. CASE \/ \E i \in Ids : PromoteAudit(i) \/ FindAuditStalled(i) \/ SweepAudit(i) \/ ExpireAudit(i)
            \/ UNCHANGED lifeVars
  <2>1. UNCHANGED <<boot, open, closing, early, req, recording, run>>
    BY <1>11 DEF PromoteAudit, FindAuditStalled, SweepAudit, ExpireAudit, lifeVars, process, handlers
  <2>2. DeadIsQuiet' /\ BootOrder' /\ ShutdownOrder'
    BY <1>0, <2>1 DEF DeadIsQuiet, BootOrder, ShutdownOrder
  <2>3. QED  BY <1>a, <2>2
<1>12. QED
  <2>1. CASE BootFails \/ Crash \/ \E s \in Shutdowns : Exit(s)
    BY <1>2, <2>1 DEF BootFails, Crash, Exit
  <2>2. CASE Boots \/ Restart \/ \E s \in Shutdowns : Signal(s) \/ ShutsDown(s)
    BY <1>1, <1>3, <1>4, <1>5, <2>1, <2>2
  <2>3. CASE \E r \in Requests : Accept(r) \/ Handle(r) \/ Record(r) \/ RecordFails(r)
    BY <1>6, <1>7, <1>8, <2>3
  <2>4. CASE \E i \in Ids : Works(i) \/ PromoteAudit(i) \/ FindAuditStalled(i) \/ SweepAudit(i) \/ ExpireAudit(i)
    BY <1>9, <1>10, <1>11, <2>4 DEF Works
  <2>5. QED  BY <1>11, <2>1, <2>2, <2>3, <2>4 DEF LifeNext

----------------------------------------------------------------------------
(* The books: a job is about a request that was answered with its id, and  *)
(* the entries of a request are no more than the attempts that had their   *)
(* effect.                                                                 *)
TakenIsActive == \A i \in Ids : run[i] # "idle" => auditJob[i] = "active"

JobsNamed ==
  /\ \A i \in Ids : auditJob[i] # "none" =>
       requestId[about[i]] = i /\ req[about[i]] = "answered" /\ about[i] \notin recording
  /\ \A r \in recording : req[r] = "answered"

NotYetWritten ==
  /\ \A r \in Requests : req[r] \in {"none", "working"} => entries[r] = 0
  /\ \A r \in recording : entries[r] = 0

(* Each entry beyond the first has its excuse, a fault or a cut, and while *)
(* the job is to be written again, so has the first.                       *)
Excuses == faults + cut
ToBeWritten(i) == auditJob[i] \in {"waiting", "active", "delayed", "failed"} /\ run[i] # "written"
Excused == \A i \in Ids : ToBeWritten(i) => entries[about[i]] <= Excuses
AllExcused == \A r \in Requests : entries[r] <= 1 + Excuses

Books == TakenIsActive /\ JobsNamed /\ NotYetWritten /\ Excused /\ AllExcused

(* Excuses are only added.                                                 *)
LEMMA ExcusesGrow ==
  ASSUME LifeTypeOK, LifeTypeOK'
  PROVE  /\ Excuses \in Nat /\ Excuses' \in Nat
         /\ faults' = faults /\ cut' = cut => Excuses' = Excuses
         /\ faults' = faults + 1 /\ cut' = cut => Excuses' = Excuses + 1
         /\ faults' = faults /\ cut' = cut + 1 => Excuses' = Excuses + 1
<1>1. faults \in Nat /\ faults' \in Nat /\ cut \in Nat /\ cut' \in Nat
  BY LifeAssumption DEF LifeTypeOK
<1>2. \A f, c \in Nat : f + c \in Nat /\ (f + 1) + c = (f + c) + 1 /\ f + (c + 1) = (f + c) + 1
  OBVIOUS
<1>3. Excuses \in Nat /\ Excuses' \in Nat
  BY <1>1, <1>2 DEF Excuses
<1>4. faults' = faults /\ cut' = cut => Excuses' = Excuses
  BY DEF Excuses
<1>5. faults' = faults + 1 /\ cut' = cut => Excuses' = Excuses + 1
  BY <1>1, <1>2 DEF Excuses
<1>6. faults' = faults /\ cut' = cut + 1 => Excuses' = Excuses + 1
  BY <1>1, <1>2 DEF Excuses
<1>7. QED  BY <1>3, <1>4, <1>5, <1>6

(* The bound of EntriesBounded, in terms of the excuses.                   *)
LEMMA ExcusedOnce ==
  ASSUME LifeTypeOK, AllExcused
  PROVE  EntriesBounded
<1>1. faults \in Nat /\ cut \in Nat
  BY LifeAssumption DEF LifeTypeOK
<1>2. 1 + Excuses = 1 + faults + cut
  BY <1>1 DEF Excuses
<1>3. QED  BY <1>2 DEF AllExcused, EntriesBounded

(* Every step keeps the books: a write comes before its completion, and    *)
(* whatever comes between the two is a fault or a cut.                     *)
LEMMA BooksStep ==
  ASSUME LifeTyped, LifeTyped', Books, [LifeNext]_lifeVars
  PROVE  Books'
<1>0. LifeTypeOK /\ LifeTypeOK' /\ TakenIsActive /\ JobsNamed /\ NotYetWritten /\ Excused /\ AllExcused
  BY DEF Books, LifeTyped
<1>n. Excuses \in Nat /\ Excuses' \in Nat
  BY <1>0, ExcusesGrow
<1>e. \A r \in Requests : entries[r] \in Nat /\ entries'[r] \in Nat
  BY <1>0 DEF LifeTypeOK
<1>b. \A i \in Ids : about[i] \in Requests /\ about'[i] \in Requests
  BY <1>0 DEF LifeTypeOK
<1>a. ASSUME TakenIsActive', JobsNamed', NotYetWritten', Excused', AllExcused' PROVE Books'
  BY <1>a DEF Books
<1>1. ASSUME UNCHANGED <<req, requestId, auditJob, about, run, entries>>, recording' \subseteq recording,
             Excuses <= Excuses'
      PROVE  Books'
  <2>1. TakenIsActive' /\ JobsNamed' /\ NotYetWritten'
    BY <1>0, <1>1 DEF TakenIsActive, JobsNamed, NotYetWritten
  <2>2. Excused' /\ AllExcused'
    BY <1>0, <1>n, <1>e, <1>b, <1>1 DEF Excused, AllExcused, ToBeWritten
  <2>3. QED  BY <1>a, <2>1, <2>2
<1>2. ASSUME Gone, (NoJobs /\ Excuses <= Excuses') \/ Excuses' = Excuses + 1
      PROVE  Books'
  <2>1. /\ UNCHANGED <<requestId, auditJob, about, entries>> /\ recording' = {} 
        /\ \A i \in Ids : run'[i] = "idle"
        /\ \A r \in Requests : req'[r] = (IF req[r] = "working" THEN "failed" ELSE req[r])
    BY <1>2 DEF Gone, auditQueue
  <2>2. TakenIsActive' /\ NotYetWritten'
    BY <1>0, <2>1 DEF TakenIsActive, NotYetWritten
  <2>3. JobsNamed'
    BY <1>0, <1>b, <2>1 DEF JobsNamed
  <2>4. CASE NoJobs /\ Excuses <= Excuses'
    <3>1. Excused' /\ AllExcused'
      BY <1>0, <1>n, <1>e, <1>b, <2>1, <2>4 DEF Excused, AllExcused, ToBeWritten, NoJobs
    <3>2. QED  BY <1>a, <2>2, <2>3, <3>1
  <2>5. CASE Excuses' = Excuses + 1
    <3>1. Excused' /\ AllExcused'
      BY <1>0, <1>n, <1>e, <1>b, <2>1, <2>5 DEF Excused, AllExcused, ToBeWritten
    <3>2. QED  BY <1>a, <2>2, <2>3, <3>1
  <2>6. QED  BY <1>2, <2>4, <2>5
<1>3. ASSUME NEW r \in Requests, Accept(r) \/ Handle(r) PROVE Books'
  <2>1. /\ UNCHANGED <<requestId, auditJob, about, run, entries, faults, cut>>
        /\ recording' \subseteq recording \cup {r}
        /\ r \in recording' => req'[r] = "answered"
        /\ req[r] \in {"none", "working"} /\ \A x \in Requests \ {r} : req'[x] = req[x]
    BY <1>0, <1>3 DEF Accept, Handle, process, auditQueue, bounds, LifeTypeOK, JobsNamed
  <2>2. TakenIsActive' /\ Excused' /\ AllExcused'
    BY <1>0, <2>1 DEF TakenIsActive, Excused, AllExcused, Excuses, ToBeWritten
  <2>3. JobsNamed'
    BY <1>0, <1>b, <2>1 DEF JobsNamed, LifeTypeOK
  <2>4. NotYetWritten'
    BY <1>0, <2>1 DEF NotYetWritten, LifeTypeOK
  <2>5. QED  BY <1>a, <2>2, <2>3, <2>4
<1>4. ASSUME NEW r \in Requests, Record(r), auditJob[requestId[r]] = "none" PROVE Books'
  <2> DEFINE i == requestId[r]
  <2>1. /\ i \in Ids /\ r \in recording /\ recording' = recording \ {r}
        /\ UNCHANGED <<req, requestId, run, entries, faults, cut>>
        /\ auditJob'[i] = "waiting" /\ about'[i] = r
        /\ \A j \in Ids \ {i} : auditJob'[j] = auditJob[j] /\ about'[j] = about[j]
    BY <1>0, <1>4 DEF Record, LifeTypeOK, bounds
  <2>2. requestId[r] = i /\ auditJob[i] = "none"
    BY <1>4
  <2> HIDE DEF i
  <2>3. TakenIsActive'
    BY <1>0, <2>1, <2>2 DEF TakenIsActive
  <2>4. JobsNamed'
    BY <1>0, <2>1, <2>2 DEF JobsNamed
  <2>5. NotYetWritten' /\ AllExcused' /\ Excuses' = Excuses
    BY <1>0, <2>1 DEF NotYetWritten, AllExcused, Excuses
  <2>6. Excused'
    BY <1>0, <1>n, <1>b, <2>1, <2>2, <2>5 DEF Excused, NotYetWritten, ToBeWritten
  <2>7. QED  BY <1>a, <2>3, <2>4, <2>5, <2>6
<1>5. ASSUME NEW i \in Ids, TakeAudit(i) \/ FailAudit(i) \/ PromoteAudit(i) \/ FindAuditStalled(i) \/ SweepAudit(i)
      PROVE  Books'
  <2>1. /\ UNCHANGED <<req, requestId, recording, about, entries, faults, cut>>
        /\ auditJob[i] # "none" /\ run[i] # "written" /\ run'[i] # "written"
        /\ auditJob[i] \in {"waiting", "active", "delayed", "failed"}
        /\ auditJob'[i] # "none" /\ (run'[i] # "idle" => auditJob'[i] = "active")
        /\ \A j \in Ids \ {i} : auditJob'[j] = auditJob[j] /\ run'[j] = run[j]
    BY <1>0, <1>5 DEF TakeAudit, FailAudit, PromoteAudit, FindAuditStalled, SweepAudit, LifeTypeOK,
        TakenIsActive, handlers, bounds
  <2>2. TakenIsActive' /\ JobsNamed' /\ NotYetWritten' /\ AllExcused' /\ Excuses' = Excuses
    BY <1>0, <2>1 DEF TakenIsActive, JobsNamed, NotYetWritten, AllExcused, Excuses
  <2>3. Excused'
    BY <1>0, <2>1, <2>2 DEF Excused, ToBeWritten
  <2>4. QED  BY <1>a, <2>2, <2>3
<1>6. ASSUME NEW i \in Ids, CompleteAudit(i) \/ ExpireAudit(i) PROVE Books'
  <2>1. /\ UNCHANGED <<req, requestId, recording, about, entries, faults, cut>>
        /\ auditJob[i] # "none" /\ run'[i] = "idle" /\ auditJob'[i] \in {"completed", "none"}
        /\ \A j \in Ids \ {i} : auditJob'[j] = auditJob[j] /\ run'[j] = run[j]
    BY <1>0, <1>6 DEF CompleteAudit, ExpireAudit, LifeTypeOK, TakenIsActive, handlers, bounds
  <2>2. TakenIsActive' /\ JobsNamed' /\ NotYetWritten' /\ AllExcused' /\ Excuses' = Excuses
    BY <1>0, <2>1 DEF TakenIsActive, JobsNamed, NotYetWritten, AllExcused, Excuses
  <2>3. Excused'
    BY <1>0, <2>1, <2>2 DEF Excused, ToBeWritten
  <2>4. QED  BY <1>a, <2>2, <2>3
<1>7. ASSUME NEW i \in Ids, WriteAudit(i) PROVE Books'
  <2> DEFINE a == about[i]
  <2>1. /\ a \in Requests /\ about[i] = a /\ run[i] = "taken" /\ auditJob[i] = "active"
        /\ UNCHANGED <<req, requestId, recording, auditJob, about, cut>>
        /\ \A j \in Ids \ {i} : run'[j] = run[j]
        /\ \A x \in Requests \ {a} : entries'[x] = entries[x]
    BY <1>0, <1>b, <1>7 DEF WriteAudit, LifeTypeOK, TakenIsActive, handlers, auditQueue
  <2>2. \/ run'[i] = "written" /\ entries'[a] = entries[a] + 1 /\ faults' = faults
        \/ run'[i] = "threw" /\ entries'[a] = entries[a] /\ faults' \in {faults, faults + 1}
        \/ run'[i] = "threw" /\ entries'[a] = entries[a] + 1 /\ faults' = faults + 1
    <3>1. \/ "mongo" \in open /\ entries'[a] = entries[a] + 1
          \/ run'[i] = "threw" /\ entries' = entries
      <4>1. \/ "mongo" \in open /\ entries' = [entries EXCEPT ![a] = entries[a] + 1]
            \/ run'[i] = "threw" /\ entries' = entries
        BY <1>7 DEF WriteAudit
      <4>2. a \in Requests /\ entries \in [Requests -> Nat]
        BY <1>0, <1>b DEF LifeTypeOK
      <4> HIDE DEF a
      <4>3. QED  BY <4>1, <4>2
    <3>2. \/ "mongo" \in open /\ run'[i] = "written" /\ faults' = faults
          \/ "mongo" \notin open /\ run'[i] = "threw" /\ faults' = faults
          \/ run'[i] = "threw" /\ faults' = faults + 1
      BY <1>0, <1>7 DEF WriteAudit, Fault, LifeTypeOK, bounds
    <3> HIDE DEF a
    <3>3. QED  BY <3>1, <3>2
  <2> HIDE DEF a
  <2>3. entries[a] <= Excuses
    BY <1>0, <2>1 DEF Excused, ToBeWritten
  <2>4. /\ entries'[a] <= 1 + Excuses'
        /\ run'[i] # "written" => entries'[a] <= Excuses'
        /\ Excuses <= Excuses'
    <3>1. \/ run'[i] = "written" /\ entries'[a] = entries[a] + 1 /\ Excuses' = Excuses
          \/ run'[i] = "threw" /\ entries'[a] = entries[a] /\ Excuses' \in {Excuses, Excuses + 1}
          \/ run'[i] = "threw" /\ entries'[a] = entries[a] + 1 /\ Excuses' = Excuses + 1
      BY <1>0, <2>1, <2>2, ExcusesGrow
    <3>2. entries[a] \in Nat /\ entries'[a] \in Nat
      BY <1>e, <2>1
    <3>3. CASE run'[i] = "written"
      <4>1. entries'[a] = entries[a] + 1 /\ Excuses' = Excuses
        BY <3>1, <3>3
      <4>2. QED  BY <1>n, <2>3, <3>2, <3>3, <4>1
    <3>4. CASE Excuses' = Excuses + 1
      BY <1>n, <2>3, <3>1, <3>2, <3>4
    <3>5. CASE entries'[a] = entries[a] /\ Excuses' = Excuses /\ run'[i] = "threw"
      BY <1>n, <2>3, <3>2, <3>5
    <3>6. QED  BY <3>1, <3>3, <3>4, <3>5
  <2>5. TakenIsActive' /\ JobsNamed'
    BY <1>0, <2>1 DEF TakenIsActive, JobsNamed
  <2>6. /\ req[a] = "answered" /\ a \notin recording
        /\ \A j \in Ids \ {i} : auditJob[j] # "none" => about[j] # a
    BY <1>0, <2>1 DEF JobsNamed
  <2>7. NotYetWritten'
    BY <1>0, <2>1, <2>6 DEF NotYetWritten, LifeTypeOK
  <2>8. Excused' /\ AllExcused'
    <3>1. \A j \in Ids \ {i} : ToBeWritten(j)' => ToBeWritten(j) /\ about[j] # a
      BY <2>1, <2>6 DEF ToBeWritten
    <3>2. Excused'
      BY <1>0, <1>n, <1>e, <1>b, <2>1, <2>4, <3>1 DEF Excused, ToBeWritten
    <3>3. AllExcused'
      BY <1>0, <1>n, <1>e, <2>1, <2>4 DEF AllExcused
    <3>4. QED  BY <3>2, <3>3
  <2>9. QED  BY <1>a, <2>5, <2>7, <2>8
<1>8. CASE Boots \/ Restart \/ UNCHANGED lifeVars
  <2>1. UNCHANGED <<req, requestId, auditJob, about, run, entries, recording, faults, cut>>
    BY <1>8 DEF Boots, ConnectDB, ConnectRedis, InitSocket, StartWorkers,
        Listen, Booted, Restart, lifeVars,
       handlers, auditQueue, bounds
  <2>2. Excuses <= Excuses'
    BY <1>0, <1>n, <2>1, ExcusesGrow
  <2>3. QED  BY <1>1, <2>1, <2>2
<1>9. ASSUME NEW s \in Shutdowns, Signal(s) \/ (ShutsDown(s) /\ ~ Exit(s)) PROVE Books'
  <2>1. UNCHANGED <<req, requestId, auditJob, about, run, entries, recording, faults, cut>>
    BY <1>9 DEF Signal, ShutsDown, HttpDrained, JobsDrained, QueuesClosed,
        ServerDrained, DisconnectDB,
       Undisturbed, handlers, auditQueue, bounds
  <2>2. Excuses <= Excuses'
    BY <1>0, <1>n, <2>1, ExcusesGrow
  <2>3. QED  BY <1>1, <2>1, <2>2
<1>10. ASSUME NEW r \in Requests, RecordFails(r) \/ (Record(r) /\ auditJob[requestId[r]] # "none")
       PROVE  Books'
  <2>1. UNCHANGED <<req, requestId, auditJob, about, run, entries, cut>> /\ recording' \subseteq recording
    BY <1>10 DEF RecordFails, Record, process, auditQueue, bounds
  <2>2. faults' \in {faults, faults + 1} /\ cut' = cut
    BY <1>10 DEF RecordFails, Record, Fault, bounds
  <2>3. Excuses <= Excuses'
    BY <1>0, <1>n, <2>2, ExcusesGrow
  <2>4. QED  BY <1>1, <2>1, <2>3
<1>11. CASE BootFails \/ Crash
  <2>1. Gone /\ faults' = faults + 1 /\ cut' = cut
    BY <1>11 DEF BootFails, Crash, Fault
  <2>2. Excuses' = Excuses + 1
    BY <1>0, <2>1, ExcusesGrow
  <2>3. QED  BY <1>2, <2>1, <2>2
<1>12. ASSUME NEW s \in Shutdowns, Exit(s) PROVE Books'
  <2>1. Gone /\ faults' = faults /\ (NoJobs \/ cut' = cut + 1) /\ cut' \in {cut, cut + 1}
    BY <1>12 DEF Exit, ActiveJobs, NoJobs, bounds
  <2>2. (NoJobs /\ Excuses <= Excuses') \/ Excuses' = Excuses + 1
    BY <1>0, <1>n, <2>1, ExcusesGrow
  <2>3. QED  BY <1>2, <2>1, <2>2
<1>13. QED
  <2>1. CASE \E s \in Shutdowns : Signal(s) \/ ShutsDown(s)
    BY <1>9, <1>12, <2>1
  <2>2. CASE \E r \in Requests : Accept(r) \/ Handle(r) \/ Record(r) \/ RecordFails(r)
    BY <1>3, <1>4, <1>10, <2>2
  <2>3. CASE \E i \in Ids : Works(i) \/ PromoteAudit(i) \/ FindAuditStalled(i) \/ SweepAudit(i) \/ ExpireAudit(i)
    BY <1>5, <1>6, <1>7, <2>3 DEF Works
  <2>4. QED  BY <1>8, <1>11, <2>1, <2>2, <2>3 DEF LifeNext

----------------------------------------------------------------------------
(* The inductive invariant.                                                *)
LifeInv == LifeTyped /\ OrderInv /\ Books

(* It holds when the process is started for the first time.                *)
LEMMA InitLife == LifeInit => LifeInv
<1> SUFFICES ASSUME LifeInit PROVE LifeInv
  OBVIOUS
<1>0. Attempts \in Nat \ {0} /\ MaxSignals \in Nat /\ MaxFaults \in Nat
  BY LifeAssumption
<1>1. LifeTyped
  <2>1. cut \in 0..MaxSignals /\ signals \in 0..MaxSignals /\ faults \in 0..MaxFaults
    BY <1>0 DEF LifeInit
  <2>2. tries \in [Ids -> 0..Attempts] /\ auditStalls \in [Ids -> 0..2]
    BY <1>0 DEF LifeInit
  <2>3. /\ boot \in BootSteps \cup {"up", "down"} /\ open \subseteq Parts /\ early \in BOOLEAN
        /\ closing \in [Shutdowns -> ShutdownSteps \cup {"none"}]
        /\ req \in [Requests -> {"none", "working", "answered", "failed"}]
    BY DEF LifeInit, BootSteps
  <2>4. /\ recording \subseteq Requests /\ auditJob \in [Ids -> AuditStates]
        /\ about \in [Ids -> Requests]
        /\ run \in [Ids -> {"idle", "taken", "written", "threw"}]
    BY DEF LifeInit, AuditStates
  <2>5. requestId \in [Requests -> Ids] /\ entries \in [Requests -> Nat]
    BY DEF LifeInit
  <2>6. Cuts
    BY DEF LifeInit, Cuts
  <2>7. QED  BY <2>1, <2>2, <2>3, <2>4, <2>5, <2>6 DEF LifeTyped, LifeTypeOK
<1>2. OrderInv
  BY DEF LifeInit, OrderInv, DeadIsQuiet, BootOrder, ShutdownOrder, NoneWorking, NoJobs,
      NoShutdown, BootSteps
<1>3. Books
  BY DEF LifeInit, Books, TakenIsActive, JobsNamed, NotYetWritten, Excused, ToBeWritten,
      AllExcused, Excuses
<1>4. QED  BY <1>1, <1>2, <1>3 DEF LifeInv

(* Every step keeps it.                                                    *)
LEMMA NextLife == LifeInv /\ [LifeNext]_lifeVars => LifeInv'
<1> SUFFICES ASSUME LifeInv, [LifeNext]_lifeVars PROVE LifeInv'
  OBVIOUS
<1>1. LifeTyped /\ OrderInv /\ Books
  BY DEF LifeInv
<1>2. LifeTyped'
  BY <1>1, TypedStep
<1>3. OrderInv'
  BY <1>1, OrderStep DEF LifeTyped
<1>4. Books'
  BY <1>1, <1>2, BooksStep
<1>5. QED  BY <1>2, <1>3, <1>4 DEF LifeInv

(* So it holds throughout, over any number of deaths and restarts.         *)
LEMMA Life == LifeSpec => []LifeInv
<1>1. LifeInit => LifeInv
  BY InitLife
<1>2. LifeInv /\ [LifeNext]_lifeVars => LifeInv'
  BY NextLife
<1>3. QED  BY <1>1, <1>2, PTL DEF LifeSpec

(* The variables of the process, of its handlers and of the audit queue    *)
(* hold what they may, and no more exits cut work off than signals came.   *)
THEOREM LifeTypeCorrect == LifeSpec => []LifeTypeOK
<1>1. LifeInv => LifeTypeOK
  BY DEF LifeInv, LifeTyped
<1>2. LifeSpec => []LifeInv
  BY Life
<1>3. QED  BY <1>1, <1>2, PTL

(* Unless a signal came during the boot, no request is handled and no audit*)
(* job processed without MongoDB and Redis: shutdown disconnects them last *)
(* (server.js), however many shutdowns run at once.                        *)
THEOREM ConnectionsCorrect == LifeSpec => []WorkHasConnections
<1>1. LifeInv => WorkHasConnections
  <2> SUFFICES ASSUME LifeInv, ~ early, InFlight # {} \/ ActiveJobs # {}
               PROVE  {"mongo", "redis"} \subseteq open
    BY DEF WorkHasConnections, Ready
  <2>1. boot \in BootSteps \cup {"up", "down"} /\ DeadIsQuiet /\ BootOrder /\ ShutdownOrder
    BY DEF LifeInv, LifeTyped, LifeTypeOK, OrderInv
  <2>2. ~ NoneWorking \/ ~ NoJobs
    BY DEF InFlight, ActiveJobs, NoneWorking, NoJobs
  <2>3. boot # "down"
    BY <2>1, <2>2 DEF DeadIsQuiet
  <2>4. CASE boot \in BootSteps
    BY <2>1, <2>2, <2>4 DEF BootOrder, BootSteps
  <2>5. CASE boot = "up"
    BY <2>1, <2>2, <2>5 DEF ShutdownOrder, AfterHttp, AfterJobs
  <2>6. QED  BY <2>1, <2>3, <2>4, <2>5
<1>2. LifeSpec => []LifeInv
  BY Life
<1>3. QED  BY <1>1, <1>2, PTL

(* Unless a signal came during the boot, the exit at the end of shutdown   *)
(* finds no request, no audit job and no un-awaited add under way.         *)
THEOREM NothingCutOffCorrect == LifeSpec => NothingCutOff
<1>1. LifeInv /\ [LifeNext]_lifeVars => [cut' > cut => early]_lifeVars
  <2> SUFFICES ASSUME LifeInv, [LifeNext]_lifeVars, ~ early, cut' > cut PROVE FALSE
    OBVIOUS
  <2>1. cut \in Nat /\ LifeTyped /\ OrderInv /\ boot \in BootSteps \cup {"up", "down"}
    BY DEF LifeInv, LifeTyped, LifeTypeOK
  <2>2. PICK s \in Shutdowns : Exit(s)
    <3>1. cut' # cut
      BY <2>1
    <3>2. QED
      BY <3>1 DEF LifeNext, Boots, ConnectDB, ConnectRedis, InitSocket,
          StartWorkers, Listen, Booted,
         BootFails, Crash, Restart, Signal, ShutsDown, HttpDrained,
             JobsDrained, QueuesClosed,
         ServerDrained, DisconnectDB, Undisturbed, Accept, Handle, Record,
             RecordFails, Works, TakeAudit, WriteAudit,
         CompleteAudit, FailAudit, PromoteAudit, FindAuditStalled, SweepAudit, ExpireAudit, lifeVars
  <2>3. closing[s] \in AfterAdds /\ ~ NoShutdown
    BY <2>2 DEF Exit, AfterAdds, AfterJobs, AfterHttp, NoShutdown
  <2>4. boot = "up"
    BY <2>1, <2>3 DEF OrderInv, DeadIsQuiet, BootOrder
  <2>5. NoneWorking /\ NoJobs /\ recording = {}
    BY <2>1, <2>3, <2>4 DEF OrderInv, ShutdownOrder, AfterHttp, AfterJobs, AfterAdds
  <2>6. cut' = cut
    BY <2>2, <2>5 DEF Exit, NoneWorking, NoJobs, InFlight, ActiveJobs
  <2>7. QED  BY <2>1, <2>6
<1>2. LifeSpec => []LifeInv
  BY Life
<1>3. QED  BY <1>1, <1>2, PTL DEF LifeSpec, NothingCutOff

(* writeAuditLog may be run again for an event it has written, but each    *)
(* AuditLog document beyond the first costs a fault or a cut.              *)
THEOREM EntriesCorrect == LifeSpec => []EntriesBounded
<1>1. LifeInv => EntriesBounded
  BY ExcusedOnce DEF LifeInv, LifeTyped, Books
<1>2. LifeSpec => []LifeInv
  BY Life
<1>3. QED  BY <1>1, <1>2, PTL
=============================================================================
