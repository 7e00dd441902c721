---------------------------- MODULE ProcessLife ----------------------------
(***************************************************************************)
(* The life of the API process, and what of its work survives it: the boot *)
(* sequence, the shutdown that a signal or an unhandled error begins, the  *)
(* death and the restart; the requests it serves; and the audit trail,     *)
(* whose entries a handler queues without waiting and a worker in the same *)
(* process writes.  MongoDB and the queues in Redis outlive the process.   *)
(* (Its names leave those of Outbox free, for modules that extend both.)   *)
(***************************************************************************)
EXTENDS Naturals, FiniteSets

CONSTANTS Requests,    \* requests that record an audit event
          Ids,         \* request ids: fresh, or taken from the X-Request-ID header
          Shutdowns,   \* invocations of shutdown() in one process
          Attempts,    \* defaultJobOptions.attempts
          MaxSignals,  \* bound on the signals
          MaxFaults    \* bound on crashes, failed boots and failed operations

ASSUME LifeAssumption == Attempts \in Nat \ {0} /\ MaxSignals \in Nat /\ MaxFaults \in Nat

VARIABLES
  boot,         \* the next step of startServer; "up" once it listens, "down" without a process
  open,         \* what the process has open
  closing,      \* invocation of shutdown -> where it is
  early,        \* a signal came before the process was up
  req,          \* request -> where its handler is
  requestId,    \* request -> its id
  recording,    \* requests whose fire-and-forget add is under way
  auditJob,     \* id -> state of the audit job that is named by it
  about,        \* id -> the request whose event the job carries
  tries,        \* id -> attempts the job has made
  auditStalls,  \* id -> times the job was found stalled
  run,          \* id -> where the audit worker of this process is with the job
  entries,      \* request -> AuditLog documents about it
  cut,          \* times an exit cut work off
  signals, faults

process == <<boot, open, closing, early>>
handlers == <<req, requestId, recording>>
auditQueue == <<auditJob, about, tries, auditStalls>>
bounds == <<signals, faults>>
lifeVars == <<process, handlers, auditQueue, run, entries, cut, bounds>>

Parts == {"mongo", "redis", "io", "workers", "queues", "http"}
BootSteps == {"connectDB", "connectRedis", "initSocket", "startWorkers", "listen"}
ShutdownSteps == {"drainHttp", "drainJobs", "drainQueues", "drainServer",
                  "disconnectDB", "disconnectRedis", "rejected"}
AuditStates == {"none", "waiting", "active", "delayed", "completed", "failed"}

LifeTypeOK ==
  /\ boot \in BootSteps \cup {"up", "down"}
  /\ open \subseteq Parts
  /\ closing \in [Shutdowns -> ShutdownSteps \cup {"none"}]
  /\ early \in BOOLEAN
  /\ req \in [Requests -> {"none", "working", "answered", "failed"}]
  /\ requestId \in [Requests -> Ids]
  /\ recording \subseteq Requests
  /\ auditJob \in [Ids -> AuditStates]
  /\ about \in [Ids -> Requests]
  /\ tries \in [Ids -> 0..Attempts]
  /\ auditStalls \in [Ids -> 0..2]
  /\ run \in [Ids -> {"idle", "taken", "written", "threw"}]
  /\ entries \in [Requests -> Nat]
  /\ cut \in 0..MaxSignals
  /\ signals \in 0..MaxSignals /\ faults \in 0..MaxFaults

LifeInit ==
  /\ boot = "connectDB" /\ open = {} /\ early = FALSE
  /\ closing = [s \in Shutdowns |-> "none"]
  /\ req = [r \in Requests |-> "none"]
  /\ requestId \in [Requests -> Ids] /\ recording = {}
  /\ auditJob = [i \in Ids |-> "none"]
  /\ about \in {[i \in Ids |-> r] : r \in Requests}
  /\ tries = [i \in Ids |-> 0] /\ auditStalls = [i \in Ids |-> 0]
  /\ run = [i \in Ids |-> "idle"]
  /\ entries = [r \in Requests |-> 0]
  /\ cut = 0 /\ signals = 0 /\ faults = 0

InFlight == {r \in Requests : req[r] = "working"}
ActiveJobs == {i \in Ids : run[i] # "idle"}
Fault == faults < MaxFaults /\ faults' = faults + 1 /\ UNCHANGED signals

----------------------------------------------------------------------------
(* startServer                                                             *)
Booted(step, next, parts) ==
  /\ boot = step /\ boot' = next
  /\ open' = open \cup parts
  /\ UNCHANGED <<closing, early, handlers, auditQueue, run, entries, cut, bounds>>

ConnectDB == Booted("connectDB", "connectRedis", {"mongo"})
ConnectRedis == Booted("connectRedis", "initSocket", {"redis"})
InitSocket == Booted("initSocket", "startWorkers", {"io"})
StartWorkers == Booted("startWorkers", "listen", {"workers", "queues"})
Listen == Booted("listen", "up", {"http"})

Boots == ConnectDB \/ ConnectRedis \/ InitSocket \/ StartWorkers \/ Listen

(* The process is gone, and what was in its memory with it.                *)
Gone ==
  /\ boot' = "down" /\ open' = {} /\ early' = FALSE
  /\ closing' = [s \in Shutdowns |-> "none"]
  /\ req' = [r \in Requests |-> IF req[r] = "working" THEN "failed" ELSE req[r]]
  /\ recording' = {}
  /\ run' = [i \in Ids |-> "idle"]
  /\ UNCHANGED <<requestId, auditQueue, entries>>

(* A step of the boot throws: exit(1).                                     *)
BootFails == boot \in BootSteps /\ Fault /\ Gone /\ UNCHANGED cut

Crash == boot # "down" /\ Fault /\ Gone /\ UNCHANGED cut

Restart ==
  /\ boot = "down" /\ boot' = "connectDB"
  /\ UNCHANGED <<open, closing, early, handlers, auditQueue, run, entries, cut, bounds>>

----------------------------------------------------------------------------
(* shutdown: nothing keeps a second signal from starting a second one.     *)
Shuts(s, from, to) == closing[s] = from /\ closing' = [closing EXCEPT ![s] = to]
Undisturbed == UNCHANGED <<boot, early, handlers, auditQueue, run, entries, cut, bounds>>

(* closeServer is left to close the HTTP server only if there was no io.   *)
AfterQueues == IF "http" \in open THEN "drainServer" ELSE "disconnectDB"

(* A SIGTERM or SIGINT, an unhandled rejection or an uncaught exception.   *)
(* closeSocket begins at once: io.close also closes the HTTP server, which *)
(* takes no further request and lets those in flight end.  Before there is *)
(* an io, the workers are next.                                            *)
Signal(s) ==
  /\ boot # "down" /\ signals < MaxSignals
  /\ signals' = signals + 1
  /\ IF "io" \in open
     THEN Shuts(s, "none", "drainHttp") /\ open' = open \ {"http"}
     ELSE Shuts(s, "none", "drainJobs") /\ open' = open \ {"workers"}
  /\ early' = (early \/ boot # "up")
  /\ UNCHANGED <<boot, handlers, auditQueue, run, entries, cut, faults>>

(* MUTANT: io.close is not waited for.                                     *)
HttpDropped(s) ==
  /\ Shuts(s, "drainHttp", "drainJobs") /\ open' = open \ {"io", "workers"}
  /\ Undisturbed

(* The requests have ended: stopWorkers, whose workers take no other job.  *)
HttpDrained(s) ==
  /\ InFlight = {}
  /\ Shuts(s, "drainHttp", "drainJobs") /\ open' = open \ {"io", "workers"}
  /\ Undisturbed

StopsWaitingForJobs(s) ==
  IF "queues" \in open
  THEN Shuts(s, "drainJobs", "drainQueues") /\ UNCHANGED open
  ELSE Shuts(s, "drainJobs", AfterQueues) /\ open' = open \ {"http"}

(* MUTANT: worker.close(true) waits for nobody.                            *)
JobsDropped(s) ==
  /\ StopsWaitingForJobs(s)
  /\ Undisturbed

(* MUTANT: it waits until the queue is empty.                              *)
QueueDrained(s) ==
  /\ \A i \in Ids : auditJob[i] \in {"none", "completed"}
  /\ StopsWaitingForJobs(s)
  /\ Undisturbed

(* worker.close waits for the jobs the worker is at.  Workers a boot has   *)
(* started since are not waited for.                                       *)
JobsDrained(s) ==
  /\ ActiveJobs = {} \/ "workers" \in open
  /\ StopsWaitingForJobs(s)
  /\ Undisturbed

(* QUIT follows the commands the connection has been given, the adds among *)
(* them.  The QUIT of another invocation, still waiting, is rejected.      *)
QueuesClosed(s) ==
  /\ closing[s] = "drainQueues" /\ recording = {}
  /\ closing' = [x \in Shutdowns |-> IF x = s THEN AfterQueues
                                     ELSE IF closing[x] = "drainQueues" THEN "rejected"
                                     ELSE closing[x]]
  /\ open' = open \ {"queues", "http"}
  /\ Undisturbed

ServerDrained(s) ==
  InFlight = {} /\ Shuts(s, "drainServer", "disconnectDB") /\ UNCHANGED open /\ Undisturbed

DisconnectDB(s) ==
  Shuts(s, "disconnectDB", "disconnectRedis") /\ open' = open \ {"mongo"} /\ Undisturbed

(* disconnectRedis and exit(0), or exit(1) from the catch block.           *)
Exit(s) ==
  /\ closing[s] \in {"disconnectRedis", "rejected"}
  /\ Gone
  /\ cut' = IF InFlight \cup recording # {} \/ ActiveJobs # {} THEN cut + 1 ELSE cut
  /\ UNCHANGED bounds

ShutsDown(s) ==
  \/ HttpDrained(s) \/ JobsDrained(s) \/ QueuesClosed(s) \/ ServerDrained(s)
  \/ DisconnectDB(s) \/ Exit(s)

----------------------------------------------------------------------------
(* A request, and the audit event its handler records.                     *)
Accept(r) ==
  /\ "http" \in open /\ req[r] = "none"
  /\ req' = [req EXCEPT ![r] = "working"]
  /\ UNCHANGED <<process, requestId, recording, auditQueue, run, entries, cut, bounds>>

(* The handler does its work on MongoDB, starts the add without waiting    *)
(* for it, and answers.                                                    *)
Handle(r) ==
  /\ req[r] = "working"
  /\ IF "mongo" \in open
     THEN req' = [req EXCEPT ![r] = "answered"] /\ recording' = recording \cup {r}
     ELSE req' = [req EXCEPT ![r] = "failed"] /\ UNCHANGED recording
  /\ UNCHANGED <<process, requestId, auditQueue, run, entries, cut, bounds>>

(* The job is named by the request's id: if a job of that name is known,   *)
(* nothing is added.  getQueue opens a connection when there is none.      *)
Record(r) ==
  /\ r \in recording /\ recording' = recording \ {r}
  /\ open' = open \cup {"queues"}
  /\ IF auditJob[requestId[r]] = "none"
     THEN /\ auditJob' = [auditJob EXCEPT ![requestId[r]] = "waiting"]
          /\ about' = [about EXCEPT ![requestId[r]] = r]
     ELSE UNCHANGED <<auditJob, about>>
  /\ UNCHANGED <<boot, closing, early, req, requestId, tries, auditStalls, run, entries, cut, bounds>>

(* It is logged, and forgotten.                                            *)
RecordFails(r) ==
  /\ r \in recording /\ recording' = recording \ {r}
  /\ Fault
  /\ UNCHANGED <<process, req, requestId, auditQueue, run, entries, cut>>

----------------------------------------------------------------------------
(* The audit worker: writeAuditLog                                         *)
TakeAudit(i) ==
  /\ "workers" \in open
  /\ auditJob[i] = "waiting" /\ run[i] = "idle"
  /\ auditJob' = [auditJob EXCEPT ![i] = "active"]
  /\ run' = [run EXCEPT ![i] = "taken"]
  /\ UNCHANGED <<process, handlers, about, tries, auditStalls, entries, cut, bounds>>

(* AuditLog.create: another document each time.  It may fail, with or      *)
(* without having had its effect.                                          *)
WriteAudit(i) ==
  /\ run[i] = "taken"
  /\ \/ "mongo" \in open /\ run' = [run EXCEPT ![i] = "written"] /\ UNCHANGED bounds
     \/ "mongo" \notin open /\ run' = [run EXCEPT ![i] = "threw"] /\ UNCHANGED bounds
     \/ run' = [run EXCEPT ![i] = "threw"] /\ Fault
  /\ \/ "mongo" \in open /\ entries' = [entries EXCEPT ![about[i]] = @ + 1]
     \/ run'[i] = "threw" /\ UNCHANGED entries
  /\ UNCHANGED <<process, handlers, auditQueue, cut>>

CompleteAudit(i) ==
  /\ run[i] = "written"
  /\ run' = [run EXCEPT ![i] = "idle"]
  /\ auditJob' = [auditJob EXCEPT ![i] = "completed"]
  /\ tries' = [tries EXCEPT ![i] = 0] /\ auditStalls' = [auditStalls EXCEPT ![i] = 0]
  /\ UNCHANGED <<process, handlers, about, entries, cut, bounds>>

(* Again after a back-off, or failed for good.                             *)
FailAudit(i) ==
  /\ run[i] = "threw"
  /\ run' = [run EXCEPT ![i] = "idle"]
  /\ tries' = [tries EXCEPT ![i] = IF @ < Attempts THEN @ + 1 ELSE @]
  /\ auditJob' = [auditJob EXCEPT ![i] = IF tries[i] + 1 < Attempts THEN "delayed" ELSE "failed"]
  /\ UNCHANGED <<process, handlers, about, auditStalls, entries, cut, bounds>>

PromoteAudit(i) ==
  /\ "workers" \in open /\ auditJob[i] = "delayed"
  /\ auditJob' = [auditJob EXCEPT ![i] = "waiting"]
  /\ UNCHANGED <<process, handlers, about, tries, auditStalls, run, entries, cut, bounds>>

(* MUTANT: a job is taken for stalled although its worker is at it.        *)
FindAuditStalledTooSoon(i) ==
  /\ "workers" \in open /\ auditJob[i] = "active"
  /\ auditStalls[i] < 2
  /\ auditStalls' = [auditStalls EXCEPT ![i] = @ + 1]
  /\ auditJob' = [auditJob EXCEPT ![i] = IF auditStalls[i] = 0 THEN "waiting" ELSE "failed"]
  /\ run' = [run EXCEPT ![i] = "idle"]
  /\ UNCHANGED <<process, handlers, about, tries, entries, cut, bounds>>

(* MUTANT: a job is found stalled again and again, and never given up.     *)
FindAuditStalledForEver(i) ==
  /\ "workers" \in open /\ auditJob[i] = "active" /\ run[i] = "idle"
  /\ auditStalls' = [auditStalls EXCEPT ![i] = @ + 1]
  /\ auditJob' = [auditJob EXCEPT ![i] = "waiting"]
  /\ UNCHANGED <<process, handlers, about, tries, run, entries, cut, bounds>>

(* The worker that had it is gone: again once, and failed the second time. *)
FindAuditStalled(i) ==
  /\ "workers" \in open /\ auditJob[i] = "active" /\ run[i] = "idle"
  /\ auditStalls' = [auditStalls EXCEPT ![i] = IF @ < 2 THEN @ + 1 ELSE @]
  /\ auditJob' = [auditJob EXCEPT ![i] = IF auditStalls[i] = 0 THEN "waiting" ELSE "failed"]
  /\ UNCHANGED <<process, handlers, about, tries, run, entries, cut, bounds>>

(* MUTANT: jobs that have used up their attempts are left alone.           *)
SweepAuditUnlessExhausted(i) ==
  /\ "workers" \in open /\ auditJob[i] = "failed" /\ tries[i] < Attempts
  /\ auditJob' = [auditJob EXCEPT ![i] = "waiting"]
  /\ UNCHANGED <<process, handlers, about, tries, auditStalls, run, entries, cut, bounds>>

(* The recovery sweep retries the failed audit jobs.                       *)
SweepAudit(i) ==
  /\ "workers" \in open /\ auditJob[i] = "failed"
  /\ auditJob' = [auditJob EXCEPT ![i] = "waiting"]
  /\ UNCHANGED <<process, handlers, about, tries, auditStalls, run, entries, cut, bounds>>

(* A job completed an hour ago is dropped, and its id with it.  A failed   *)
(* one is kept a day, and the sweep comes every five minutes.              *)
ExpireAudit(i) ==
  /\ auditJob[i] = "completed"
  /\ auditJob' = [auditJob EXCEPT ![i] = "none"]
  /\ UNCHANGED <<process, handlers, about, tries, auditStalls, run, entries, cut, bounds>>

Works(i) == TakeAudit(i) \/ WriteAudit(i) \/ CompleteAudit(i) \/ FailAudit(i)

----------------------------------------------------------------------------
LifeNext ==
  \/ Boots \/ BootFails \/ Crash \/ Restart
  \/ \E s \in Shutdowns : Signal(s) \/ ShutsDown(s)
  \/ \E r \in Requests : Accept(r) \/ Handle(r) \/ Record(r) \/ RecordFails(r)
  \/ \E i \in Ids : \/ Works(i) \/ PromoteAudit(i) \/ FindAuditStalled(i) \/ SweepAudit(i)
                   \/ ExpireAudit(i)

LifeSpec == LifeInit /\ [][LifeNext]_lifeVars

(* The supervisor restarts the process; boots, shutdowns, handlers, adds   *)
(* and jobs proceed; the queue's timers and the sweep come round.          *)
LifeFairSpec ==
  /\ LifeSpec
  /\ WF_lifeVars(Boots) /\ WF_lifeVars(Restart)
  /\ \A s \in Shutdowns : WF_lifeVars(ShutsDown(s))
  /\ \A r \in Requests : WF_lifeVars(Handle(r)) /\ WF_lifeVars(Record(r))
  /\ \A i \in Ids : /\ WF_lifeVars(Works(i)) /\ WF_lifeVars(PromoteAudit(i))
                    /\ WF_lifeVars(FindAuditStalled(i)) /\ WF_lifeVars(SweepAudit(i))

----------------------------------------------------------------------------
(* Properties                                                              *)

(* GET /ready answers 200.                                                 *)
Ready == {"mongo", "redis"} \subseteq open

(* Whatever works has its connections: the boot opens them before anybody  *)
(* works, and a shutdown closes them after the last has ended, however     *)
(* many shutdowns run at once.  Only a signal during the boot breaks this. *)
WorkHasConnections ==
  early \/ (InFlight # {} \/ ActiveJobs # {} => Ready)

(* A process that ends by a shutdown cuts nothing off, not even the adds   *)
(* nobody waits for.                                                       *)
NothingCutOff == [][cut' > cut => early]_lifeVars

(* Every shutdown ends the process.                                        *)
ShutdownEnds == \A s \in Shutdowns : closing[s] # "none" ~> boot = "down"

(* A queued audit event is written in the end, over crashes, shutdowns and *)
(* failed writes.                                                          *)
QueuedIsWritten ==
  \A i \in Ids, r \in Requests :
    auditJob[i] \notin {"none", "completed"} /\ about[i] = r ~> entries[r] > 0

(* Entries are repeated by failures and cut-off jobs only.                 *)
EntriesBounded == \A r \in Requests : entries[r] <= 1 + faults + cut
=============================================================================
