------------------------------- MODULE Outbox -------------------------------
(***************************************************************************)
(* The transactional-outbox pipeline: a stored OutboxEvent is queued as a  *)
(* BullMQ job, an outbox worker claims the record, emits its socket events,*)
(* queues its notification and marks the record published.  Jobs are       *)
(* retried with a back-off, a recovery sweep queues again the records it   *)
(* finds pending or failed, and workers, Redis and MongoDB may fail.       *)
(***************************************************************************)
EXTENDS Naturals

CONSTANTS Events,       \* outbox event ids
          Workers,      \* outbox worker slots (QUEUE_CONCURRENCY, all processes)
          NoEvent, NoWorker,
          MaxAttempts,  \* defaultJobOptions.attempts
          Faults,       \* the kinds of fault that may happen
          MaxFailures   \* bound on the faults

FaultKinds == {"add", "claim", "enqueue", "mark", "crash", "stall", "notify"}

ASSUME NullsAssumption == NoEvent \notin Events /\ NoWorker \notin Workers
ASSUME AttemptsAssumption == MaxAttempts \in Nat \ {0}
ASSUME FaultsAssumption == Faults \subseteq FaultKinds /\ MaxFailures \in Nat

VARIABLES
  record,     \* event -> OutboxEvent.status
  ripe,       \* event -> availableAt <= now
  adding,     \* event -> its handler's fire-and-forget queue.add is under way
  job,        \* event -> state of the outbox job outbox-<id>
  made,       \* event -> attempts the job has made
  stalls,     \* event -> times the job was found stalled
  lock,       \* event -> worker holding the job's lock
  worker,     \* slot -> the event it processes and where it is
  emitted,    \* event -> times its socket events were emitted
  notified,   \* event -> state of the notification job notification-<id>
  delivered,  \* event -> times its notification was processed
  failures,   \* faults so far
  mute,       \* slots whose process has closed and cleared its io (getIO() is null)
  skipped,    \* events that a mute slot emitted to nobody
  unsure      \* events marked published whose worker was told that this failed

ghosts == <<skipped, unsure>>
queue == <<job, made, stalls, lock>>
vars == <<record, ripe, adding, queue, worker, emitted, notified, delivered, failures,
          mute, ghosts>>

Recorded == {"pending", "processing", "published", "failed"}
JobStates == {"none", "waiting", "active", "delayed", "completed", "failed"}

(* Where publishOutboxEvent is: the job is taken; the record is claimed;   *)
(* its sockets are emitted; its notification is queued; its catch block is *)
(* entered; it has returned; it has thrown.                                *)
Places == {"idle", "taken", "claimed", "emitted", "handed", "caught", "returned", "threw"}

Idle == [event |-> NoEvent, pc |-> "idle"]

TypeOK ==
  /\ record \in [Events -> Recorded \cup {"absent"}]
  /\ ripe \in [Events -> BOOLEAN]
  /\ adding \in [Events -> BOOLEAN]
  /\ job \in [Events -> JobStates]
  /\ made \in [Events -> 0..MaxAttempts]
  /\ stalls \in [Events -> 0..2]
  /\ lock \in [Events -> Workers \cup {NoWorker}]
  /\ worker \in [Workers -> [event : Events \cup {NoEvent}, pc : Places]]
  /\ emitted \in [Events -> Nat]
  /\ notified \in [Events -> JobStates \ {"active", "delayed"}]
  /\ delivered \in [Events -> Nat]
  /\ failures \in 0..MaxFailures
  /\ mute \subseteq Workers
  /\ skipped \subseteq Events /\ unsure \subseteq Events

Init ==
  /\ record = [e \in Events |-> "absent"]
  /\ ripe = [e \in Events |-> TRUE]
  /\ adding = [e \in Events |-> FALSE]
  /\ job = [e \in Events |-> "none"]
  /\ made = [e \in Events |-> 0]
  /\ stalls = [e \in Events |-> 0]
  /\ lock = [e \in Events |-> NoWorker]
  /\ worker = [w \in Workers |-> Idle]
  /\ emitted = [e \in Events |-> 0]
  /\ notified = [e \in Events |-> "none"]
  /\ delivered = [e \in Events |-> 0]
  /\ failures = 0
  /\ mute = {} /\ skipped = {} /\ unsure = {}

Fails(kind) ==
  /\ kind \in Faults
  /\ failures < MaxFailures
  /\ failures' = failures + 1

----------------------------------------------------------------------------
(* The producer                                                            *)

(* queue.add with a jobId that exists, in whatever state, adds nothing.    *)
Added(set) ==
  LET new == {e \in set : job[e] = "none"}
  IN /\ job' = [e \in Events |-> IF e \in new THEN "waiting" ELSE job[e]]
     /\ made' = [e \in Events |-> IF e \in new THEN 0 ELSE made[e]]
     /\ stalls' = [e \in Events |-> IF e \in new THEN 0 ELSE stalls[e]]
     /\ UNCHANGED lock

(* createOutboxEvent: the record is durable, and its add is started but    *)
(* not awaited.                                                            *)
Store(e) ==
  /\ record[e] = "absent"
  /\ record' = [record EXCEPT ![e] = "pending"]
  /\ adding' = [adding EXCEPT ![e] = TRUE]
  /\ UNCHANGED <<ripe, queue, worker, emitted, notified, delivered, failures, mute, ghosts>>

Add(e) ==
  /\ adding[e]
  /\ adding' = [adding EXCEPT ![e] = FALSE]
  /\ Added({e})
  /\ UNCHANGED <<record, ripe, worker, emitted, notified, delivered, failures, mute, ghosts>>

(* Redis refuses it, or the process dies first: logged, and forgotten.     *)
AddFails(e) ==
  /\ adding[e]
  /\ Fails("add")
  /\ adding' = [adding EXCEPT ![e] = FALSE]
  /\ UNCHANGED <<record, ripe, queue, worker, emitted, notified, delivered, mute, ghosts>>

----------------------------------------------------------------------------
(* The outbox worker: publishOutboxEvent                                   *)

At(w, e, pc) == worker[w].event = e /\ worker[w].pc = pc
Moves(w, pc) == worker' = [worker EXCEPT ![w].pc = pc]

Take(w, e) ==
  /\ worker[w] = Idle
  /\ job[e] = "waiting"
  /\ job' = [job EXCEPT ![e] = "active"]
  /\ lock' = [lock EXCEPT ![e] = w]
  /\ worker' = [worker EXCEPT ![w] = [event |-> e, pc |-> "taken"]]
  /\ UNCHANGED <<record, ripe, adding, made, stalls, emitted, notified, delivered,
                 failures, mute, ghosts>>

(* MUTANT: the claim's filter forgets the status.                          *)
ClaimAny(w, e) ==
  /\ At(w, e, "taken")
  /\ record' = [record EXCEPT ![e] = "processing"]
  /\ Moves(w, "claimed")
  /\ UNCHANGED <<ripe, adding, queue, emitted, notified, delivered, failures, mute, ghosts>>

Claimable(e) == record[e] \in {"pending", "failed"}
Processing(e) == [record EXCEPT ![e] = IF Claimable(e) THEN "processing" ELSE @]

(* findOneAndUpdate on a pending or failed record; no match is a skip, and *)
(* the job completes.  MongoDB may fail, before the write or after it: the *)
(* claim is outside the try, so that no catch block runs.                  *)
Claim(w, e) ==
  /\ At(w, e, "taken")
  /\ \/ /\ record' = Processing(e)
        /\ Moves(w, IF Claimable(e) THEN "claimed" ELSE "returned")
        /\ UNCHANGED failures
     \/ /\ Fails("claim")
        /\ record' \in {record, Processing(e)}
        /\ Moves(w, "threw")
  /\ UNCHANGED <<ripe, adding, queue, emitted, notified, delivered, mute, ghosts>>

(* emitSocketEvents, of an event with a room: a process that is shutting   *)
(* down has no io any more, emits nothing, and goes on as if it had.       *)
EmitSockets(w, e) ==
  /\ At(w, e, "claimed")
  /\ IF w \in mute
     THEN skipped' = skipped \cup {e} /\ UNCHANGED emitted
     ELSE emitted' = [emitted EXCEPT ![e] = @ + 1] /\ UNCHANGED skipped
  /\ Moves(w, "emitted")
  /\ UNCHANGED <<record, ripe, adding, queue, notified, delivered, failures, mute, unsure>>

(* MUTANT: the notification is queued without waiting for the answer, so   *)
(* that its failure goes unseen.                                           *)
EnqueueNotificationBlindly(w, e) ==
  /\ At(w, e, "emitted")
  /\ \/ /\ notified' = [notified EXCEPT ![e] = IF @ = "none" THEN "waiting" ELSE @]
        /\ UNCHANGED failures
     \/ Fails("enqueue") /\ UNCHANGED notified
  /\ Moves(w, "handed")
  /\ UNCHANGED <<record, ripe, adding, queue, emitted, delivered, mute, ghosts>>

(* MUTANT: the notification job has no id, and the add may be repeated.     *)
EnqueueNotificationTwice(w, e) ==
  /\ At(w, e, "emitted")
  /\ notified' = [notified EXCEPT ![e] = "waiting"]
  /\ \E pc \in {"emitted", "handed"} : Moves(w, pc)
  /\ UNCHANGED <<record, ripe, adding, queue, emitted, delivered, failures, mute, ghosts>>

(* The notification job's id is the event's: a second add is ignored while *)
(* the first job exists.  When Redis fails, the job may be there or not.   *)
EnqueueNotification(w, e) ==
  LET added == [notified EXCEPT ![e] = IF @ = "none" THEN "waiting" ELSE @]
  IN /\ At(w, e, "emitted")
     /\ \/ /\ notified' = added
           /\ Moves(w, "handed")
           /\ UNCHANGED failures
        \/ /\ Fails("enqueue")
           /\ notified' \in {notified, added}
           /\ Moves(w, "caught")
     /\ UNCHANGED <<record, ripe, adding, queue, emitted, delivered, mute, ghosts>>

(* updateOne by _id: published.  Or MongoDB fails, before the write or     *)
(* after it, and the catch runs.                                           *)
MarkPublished(w, e) ==
  /\ At(w, e, "handed")
  /\ \/ /\ record' = [record EXCEPT ![e] = "published"]
        /\ unsure' = unsure \ {e}
        /\ Moves(w, "returned")
        /\ UNCHANGED failures
     \/ /\ Fails("mark")
        /\ Moves(w, "caught")
        /\ \/ UNCHANGED <<record, unsure>>
           \/ /\ record' = [record EXCEPT ![e] = "published"]
              /\ unsure' = unsure \cup {e}
  /\ UNCHANGED <<ripe, adding, queue, emitted, notified, delivered, mute, skipped>>

(* The catch block: by _id alone, failed and due again in a minute, and    *)
(* rethrown; or MongoDB fails here too, before the write or after it.      *)
MarkFailed(w, e) ==
  /\ At(w, e, "caught")
  /\ \/ /\ record' = [record EXCEPT ![e] = "failed"]
        /\ ripe' = [ripe EXCEPT ![e] = FALSE]
        /\ UNCHANGED failures \/ Fails("mark")
     \/ Fails("mark") /\ UNCHANGED <<record, ripe>>
  /\ Moves(w, "threw")
  /\ UNCHANGED <<adding, queue, emitted, notified, delivered, mute, ghosts>>

----------------------------------------------------------------------------
(* BullMQ's side of a job                                                  *)

(* The handler returned or threw; the job follows if the worker still has  *)
(* its lock.                                                               *)
Settle(w, e) ==
  /\ worker[w].event = e
  /\ worker[w].pc \in {"returned", "threw"}
  /\ worker' = [worker EXCEPT ![w] = Idle]
  /\ IF lock[e] # w THEN UNCHANGED queue
     ELSE /\ lock' = [lock EXCEPT ![e] = NoWorker]
          /\ UNCHANGED stalls
          /\ IF worker[w].pc = "returned"
             THEN job' = [job EXCEPT ![e] = "completed"] /\ UNCHANGED made
             ELSE /\ made' = [made EXCEPT ![e] = @ + 1]
                  /\ job' = [job EXCEPT ![e] =
                               IF made[e] + 1 < MaxAttempts THEN "delayed" ELSE "failed"]
  /\ UNCHANGED <<record, ripe, adding, emitted, notified, delivered, failures, mute, ghosts>>

(* The back-off ends.                                                      *)
Promote(e) ==
  /\ job[e] = "delayed"
  /\ job' = [job EXCEPT ![e] = "waiting"]
  /\ UNCHANGED <<record, ripe, adding, made, stalls, lock, worker, emitted, notified,
                 delivered, failures, mute, ghosts>>

Working(e) == lock[e] \in Workers /\ worker[lock[e]].event = e

(* An active job whose worker stopped renewing the lock goes back to the   *)
(* queue once, and fails the second time.                                  *)
Unlocked(e) ==
  /\ job[e] = "active"
  /\ lock' = [lock EXCEPT ![e] = NoWorker]
  /\ stalls' = [stalls EXCEPT ![e] = @ + 1]
  /\ job' = [job EXCEPT ![e] = IF stalls[e] = 0 THEN "waiting" ELSE "failed"]
  /\ UNCHANGED <<record, ripe, adding, made, worker, emitted, notified, delivered, mute, ghosts>>

(* Its worker is gone.                                                     *)
FindStalled(e) == ~ Working(e) /\ Unlocked(e) /\ UNCHANGED failures

(* Its worker is alive, and blocked for longer than the lock lasts.        *)
Stall(e) == Working(e) /\ Fails("stall") /\ Unlocked(e)

(* The worker's process dies; its slot is a restarted one.                 *)
CrashWorker(w) ==
  /\ worker[w] # Idle
  /\ Fails("crash")
  /\ worker' = [worker EXCEPT ![w] = Idle]
  /\ mute' = mute \ {w}
  /\ UNCHANGED <<record, ripe, adding, queue, emitted, notified, delivered, ghosts>>

(* shutdown in the worker's process: closeSocket comes first, and what the *)
(* worker is at goes on without io until stopWorkers has waited for it.  A *)
(* worker may even take a job then: stopWorkers comes later, and the boot  *)
(* goes on beside a shutdown that a signal began during it.                *)
CloseSocket(w) ==
  /\ w \notin mute
  /\ mute' = mute \cup {w}
  /\ UNCHANGED <<record, ripe, adding, queue, worker, emitted, notified, delivered,
                 failures, ghosts>>

(* The shutdown is over, the process exits and starts again.               *)
RestartWorker(w) ==
  /\ w \in mute /\ worker[w] = Idle
  /\ mute' = mute \ {w}
  /\ UNCHANGED <<record, ripe, adding, queue, worker, emitted, notified, delivered,
                 failures, ghosts>>

(* removeOnComplete and removeOnFail: old finished jobs are dropped.       *)
Expire(e) ==
  /\ job[e] \in {"completed", "failed"}
  /\ job' = [job EXCEPT ![e] = "none"]
  /\ UNCHANGED <<record, ripe, adding, made, stalls, lock, worker, emitted, notified,
                 delivered, failures, mute, ghosts>>

----------------------------------------------------------------------------
(* The notification queue                                                  *)

DeliverNotification(e) ==
  /\ notified[e] = "waiting"
  /\ notified' = [notified EXCEPT ![e] = "completed"]
  /\ delivered' = [delivered EXCEPT ![e] = @ + 1]
  /\ UNCHANGED <<record, ripe, adding, queue, worker, emitted, failures, mute, ghosts>>

(* It has used its attempts up.                                            *)
NotificationFails(e) ==
  /\ notified[e] = "waiting"
  /\ Fails("notify")
  /\ notified' = [notified EXCEPT ![e] = "failed"]
  /\ UNCHANGED <<record, ripe, adding, queue, worker, emitted, delivered, mute, ghosts>>

(* A job completed an hour ago is dropped, and its id with it.             *)
ExpireNotification(e) ==
  /\ notified[e] = "completed"
  /\ notified' = [notified EXCEPT ![e] = "none"]
  /\ UNCHANGED <<record, ripe, adding, queue, worker, emitted, delivered, failures, mute, ghosts>>

----------------------------------------------------------------------------
(* The recovery sweep                                                      *)

(* A failed record's availableAt comes.                                    *)
Ripen(e) ==
  /\ ~ ripe[e]
  /\ ripe' = [ripe EXCEPT ![e] = TRUE]
  /\ UNCHANGED <<record, adding, queue, worker, emitted, notified, delivered, failures,
                 mute, ghosts>>

(* MUTANT: only failed records are recovered.                              *)
DueFailed == {e \in Events : record[e] = "failed" /\ ripe[e]}

Due == {e \in Events : record[e] \in {"pending", "failed"} /\ ripe[e]}

(* recoverPendingOutboxEvents and recoverFailedQueueJobs: failed outbox    *)
(* jobs are not among the jobs it retries.                                 *)
Sweep ==
  /\ Added(Due)
  /\ notified' = [e \in Events |-> IF notified[e] = "failed" THEN "waiting" ELSE notified[e]]
  /\ UNCHANGED <<record, ripe, adding, worker, emitted, delivered, failures, mute, ghosts>>

----------------------------------------------------------------------------
Publish(w, e) == \/ Claim(w, e) \/ EmitSockets(w, e) \/ EnqueueNotification(w, e)
                 \/ MarkPublished(w, e) \/ MarkFailed(w, e) \/ Settle(w, e)

Next ==
  \/ \E e \in Events :
       \/ Store(e) \/ Add(e) \/ AddFails(e)
       \/ Promote(e) \/ FindStalled(e) \/ Stall(e) \/ Expire(e)
       \/ DeliverNotification(e) \/ NotificationFails(e) \/ ExpireNotification(e)
       \/ Ripen(e)
       \/ \E w \in Workers : Take(w, e) \/ Publish(w, e)
  \/ \E w \in Workers : CrashWorker(w) \/ CloseSocket(w) \/ RestartWorker(w)
  \/ Sweep

Spec == Init /\ [][Next]_vars

(* The event loop and BullMQ serve what is queued, timers fire and the     *)
(* sweep repeats.  Faults, new events and the expiry of finished jobs are  *)
(* not owed.                                                               *)
Fairness ==
  /\ \A e \in Events :
       /\ WF_vars(Add(e)) /\ WF_vars(Promote(e)) /\ WF_vars(FindStalled(e))
       /\ WF_vars(Ripen(e)) /\ WF_vars(DeliverNotification(e))
       /\ SF_vars(\E w \in Workers : Take(w, e))
       /\ \A w \in Workers : WF_vars(Publish(w, e))
  /\ WF_vars(Sweep)

FairSpec == Spec /\ Fairness

----------------------------------------------------------------------------
(* Properties                                                              *)

Claimed == {"claimed", "emitted", "handed", "caught"}

(* However often the job is redelivered, an event is in the hands of at    *)
(* most one worker, so that a stalled worker that wakes up never publishes *)
(* beside its replacement.  Its record says processing while it is, or     *)
(* published when its worker was told that marking it failed.              *)
OneClaimant ==
  \A e \in Events : \A v, w \in Workers :
    worker[v].event = e /\ worker[v].pc \in Claimed =>
      /\ \/ record[e] = "processing"
         \/ record[e] = "published" /\ e \in unsure /\ worker[v].pc = "caught"
      /\ worker[w].event = e /\ worker[w].pc \in Claimed => v = w

(* A record is published only after its notification was queued and its    *)
(* sockets were emitted, but for an event whose worker's process was being *)
(* shut down and had no io to emit with.                                   *)
PublishedWasHandedOver ==
  \A e \in Events : record[e] = "published" =>
    /\ emitted[e] > 0 \/ e \in skipped
    /\ notified[e] # "none" \/ delivered[e] > 0

(* Room members see an event, and the notification is processed, more than *)
(* once only after a failure, and at most once more per failure.           *)
DeliveriesBounded ==
  \A e \in Events : emitted[e] <= 1 + failures /\ delivered[e] <= 1 + failures

(* Once its worker knows that a record is published nothing takes it out   *)
(* of published: no redelivered job, no other worker's catch block and no  *)
(* sweep.  Only when the answer to the mark was lost does the catch block  *)
(* of that worker undo it.                                                 *)
PublishedIsFinal ==
  [][\A e \in Events :
       record[e] = "published" /\ e \notin unsure => record'[e] = "published"]_vars

(* Nobody will take the record up: the claim and the sweep skip it.        *)
Abandoned(e) ==
  record[e] = "processing" /\ \A w \in Workers : ~ (worker[w].event = e /\ worker[w].pc \in Claimed)

(* The sweep's add is ignored: a finished job still has the job id.        *)
Blocked(e) == record[e] \in {"pending", "failed"} /\ job[e] \in {"completed", "failed"}

(* There are two ways to lose an event and no third: whatever else fails,  *)
(* a stored event is published unless it is abandoned or blocked, also one *)
(* whose publication was undone, and a published one has its notification  *)
(* processed.                                                              *)
EventsDelivered ==
  \A e \in Events :
    /\ record[e] # "absent" ~> record[e] = "published" \/ Abandoned(e) \/ Blocked(e)
    /\ record[e] = "published" ~> delivered[e] > 0

(* Business events are not lost: a stored event is eventually published.   *)
EventsPublished == \A e \in Events : record[e] = "pending" ~> record[e] = "published"
=============================================================================
