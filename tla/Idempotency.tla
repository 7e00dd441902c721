---------------------------- MODULE Idempotency ----------------------------
(***************************************************************************)
(* The idempotency middleware around a mutating handler.  The Redis record *)
(* of a key is read, then reserved with SET NX, then overwritten or        *)
(* deleted after the handler has answered, without waiting for Redis.      *)
(* Clients repeat requests with the same key.  The handler is any handler: *)
(* it may succeed, refuse, or fail after its write.                        *)
(***************************************************************************)
EXTENDS Naturals, Sequences, FiniteSets

CONSTANTS Scopes,      \* user, method and URL
          Keys,        \* values of the Idempotency-Key header
          Requests,    \* slots of concurrent requests
          None,
          MaxRuns,     \* bound on the runs of the handler
          MaxFaults    \* bound on crashes, lost Redis writes and expiries

ASSUME BoundsAssumption == MaxRuns \in Nat /\ MaxFaults \in Nat

(* buildIdempotencyKey.                                                    *)
RecordName(scope, header) == <<scope, header>>

Names == Scopes \X Keys

(* A response is told apart by the run of the handler that made it.        *)
NoRun == 0

VARIABLES
  record,   \* record name -> "none", "processing" or the completed run
  req,      \* slot -> the request in it
  writes,   \* Redis writes sent and not yet applied
  runs,     \* the runs of the handler so far: what each was asked
  good,     \* the runs that answered 2xx
  answers,  \* successful answers: what was asked, and the run that answered
  expired,  \* record names that have lapsed
  faults

vars == <<record, req, writes, runs, good, answers, expired, faults>>

(* "arrived": the record is still to be read.  "missed": there was none.   *)
(* "running": reserved, the handler runs.                                  *)
Idle == [pc |-> "idle", scope |-> None, key |-> None]
Handlers == [pc : {"idle", "arrived", "missed", "running"},
             scope : Scopes \cup {None}, key : Keys \cup {None}]

States == [state : {"none", "processing", "completed"}, run : Nat]
Absent == [state |-> "none", run |-> NoRun]
Processing == [state |-> "processing", run |-> NoRun]

(* cachePayload: the status code and the body of the answer.               *)
Completed(n) == [state |-> "completed", run |-> n]

TypeOK ==
  /\ record \in [Names -> States]
  /\ req \in [Requests -> Handlers]
  /\ writes \subseteq [name : Names, value : States]
  /\ runs \in Seq(Names)
  /\ good \subseteq DOMAIN runs
  /\ answers \subseteq [asked : Names, run : DOMAIN runs]
  /\ expired \subseteq Names
  /\ faults \in 0..MaxFaults

Init ==
  /\ record = [n \in Names |-> Absent]
  /\ req = [r \in Requests |-> Idle]
  /\ writes = {}
  /\ runs = << >>
  /\ good = {}
  /\ answers = {}
  /\ expired = {}
  /\ faults = 0

----------------------------------------------------------------------------
Asked(r) == <<req[r].scope, req[r].key>>
NameOf(r) == RecordName(req[r].scope, req[r].key)
Responds(r) == req' = [req EXCEPT ![r] = Idle]

(* The bound is kept at the door: whoever is let in can run to its end.    *)
Room == Len(runs) + Cardinality({r \in Requests : req[r] # Idle}) < MaxRuns

Arrive(r, s, k) ==
  /\ req[r] = Idle /\ Room
  /\ req' = [req EXCEPT ![r] = [pc |-> "arrived", scope |-> s, key |-> k]]
  /\ UNCHANGED <<record, writes, runs, good, answers, expired, faults>>

(* GET: replay a completed answer, 409 while one is processing.            *)
Look(r) ==
  LET found == record[NameOf(r)] IN
  /\ req[r].pc = "arrived"
  /\ IF found.state = "none"
     THEN req' = [req EXCEPT ![r].pc = "missed"] /\ UNCHANGED answers
     ELSE /\ Responds(r)
          /\ answers' = IF found.state = "completed"
                        THEN answers \cup {[asked |-> Asked(r), run |-> found.run]}
                        ELSE answers
  /\ UNCHANGED <<record, writes, runs, good, expired, faults>>

(* The handler starts.                                                     *)
Begins(r) == req' = [req EXCEPT ![r].pc = "running"]

(* MUTANT: a plain SET; only the GET looked.                               *)
ReserveAlways(r) ==
  /\ req[r].pc = "missed"
  /\ record' = [record EXCEPT ![NameOf(r)] = Processing]
  /\ Begins(r)
  /\ UNCHANGED <<writes, runs, good, answers, expired, faults>>

(* SET NX EX: 409 when somebody else was faster.                           *)
Reserve(r) ==
  /\ req[r].pc = "missed"
  /\ IF record[NameOf(r)].state = "none"
     THEN record' = [record EXCEPT ![NameOf(r)] = Processing] /\ Begins(r)
     ELSE Responds(r) /\ UNCHANGED record
  /\ UNCHANGED <<writes, runs, good, answers, expired, faults>>

(* The handler's res.json: the answer goes out, and the write to Redis is  *)
(* only started.                                                           *)
Answers(r, value) ==
  /\ writes' = writes \cup {[name |-> NameOf(r), value |-> value]}
  /\ Responds(r)
  /\ UNCHANGED <<record, expired, faults>>

Succeed(r) ==
  /\ req[r].pc = "running"
  /\ runs' = Append(runs, Asked(r))
  /\ good' = good \cup {Len(runs')}
  /\ Answers(r, Completed(Len(runs')))
  /\ answers' = answers \cup {[asked |-> Asked(r), run |-> Len(runs')]}

(* MUTANT: a refused request leaves the reservation.                       *)
RefuseLeaves(r) ==
  /\ req[r].pc = "running"
  /\ runs' = Append(runs, Asked(r))
  /\ Responds(r)
  /\ UNCHANGED <<record, writes, good, answers, expired, faults>>

(* A 4xx, or a 5xx of the error handler: the record is deleted, whatever   *)
(* the handler had written by then.                                        *)
Refuse(r) ==
  /\ req[r].pc = "running"
  /\ runs' = Append(runs, Asked(r))
  /\ Answers(r, Absent)
  /\ UNCHANGED <<good, answers>>

(* Redis applies the write.                                                *)
Apply(w) ==
  /\ record' = [record EXCEPT ![w.name] = w.value]
  /\ writes' = writes \ {w}
  /\ UNCHANGED <<req, runs, good, answers, expired, faults>>

Faulty == faults < MaxFaults /\ faults' = faults + 1

(* It is rejected, and the rejection swallowed.                            *)
ApplyFails(w) ==
  /\ Faulty
  /\ writes' = writes \ {w}
  /\ UNCHANGED <<record, req, runs, good, answers, expired>>

(* The process dies with its requests and its unsent writes.               *)
Crash ==
  /\ Faulty
  /\ req' = [r \in Requests |-> Idle]
  /\ writes' = {}
  /\ UNCHANGED <<record, runs, good, answers, expired>>

(* EX: a day later, long after whatever reserved the record has ended.     *)
Busy(n) == (\E r \in Requests : req[r].pc = "running" /\ NameOf(r) = n)
           \/ (\E w \in writes : w.name = n)

Expire(n) ==
  /\ Faulty
  /\ record[n].state # "none" /\ ~ Busy(n)
  /\ record' = [record EXCEPT ![n] = Absent]
  /\ expired' = expired \cup {n}
  /\ UNCHANGED <<req, writes, runs, good, answers>>

Proceed(r) == Look(r) \/ Reserve(r) \/ Succeed(r) \/ Refuse(r)

Next ==
  \/ \E r \in Requests :
       (\E s \in Scopes, k \in Keys : Arrive(r, s, k)) \/ Proceed(r)
  \/ \E w \in writes : Apply(w) \/ ApplyFails(w)
  \/ Crash
  \/ \E n \in Names : Expire(n)

Spec == Init /\ [][Next]_vars

FairSpec ==
  /\ Spec
  /\ \A r \in Requests : WF_vars(Proceed(r))
  /\ WF_vars(\E w \in writes : Apply(w))

----------------------------------------------------------------------------
(* Properties                                                              *)

(* One request at a time works under a key: from the reservation until     *)
(* Redis has the outcome nobody else runs the handler, although the read   *)
(* and the reservation are two calls and the outcome is written late.      *)
OneRunner ==
  /\ \A r \in Requests : req[r].pc = "running" =>
       /\ record[NameOf(r)] = Processing
       /\ \A q \in Requests \ {r} : req[q].pc = "running" => NameOf(q) # NameOf(r)
       /\ \A w \in writes : w.name # NameOf(r)
  /\ \A w \in writes :
       /\ record[w.name] = Processing
       /\ \A v \in writes \ {w} : v.name # w.name

(* Reusing a key returns the original answer: all successful answers to    *)
(* one question come from one run, unless the record has lapsed in between.*)
SameAnswer ==
  \A a, b \in answers :
    a.asked = b.asked /\ RecordName(a.asked[1], a.asked[2]) \notin expired => a.run = b.run

(* Reusing a key returns the original success: once the write of it has    *)
(* had its time, the record holds it until it lapses.                      *)
AnswersReplayable ==
  \A a \in answers :
    LET n == RecordName(a.asked[1], a.asked[2]) IN
    n \notin expired /\ ~ Busy(n) => record[n] = Completed(a.run)

(* So it is while nothing gets lost: no request reserves a key again, or   *)
(* deletes or overwrites its record, after somebody was told of a success. *)
AnswerKept == faults = 0 => AnswersReplayable

(* What is replayed was a success, and an answer to the same question: of  *)
(* the same user, to the same endpoint, with the same key.                 *)
ReplaysAreTrue ==
  /\ \A a \in answers : a.run \in good /\ runs[a.run] = a.asked
  /\ \A n \in Names : record[n].state = "completed" => record[n].run \in good

(* A reservation ends: a key does not stay at "already processing" while   *)
(* the process lives and Redis takes the writes.                           *)
ReservationEnds ==
  \A n \in Names :
    record[n].state = "processing" ~> record[n].state # "processing" \/ faults > 0
=============================================================================
