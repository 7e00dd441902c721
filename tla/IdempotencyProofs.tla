------------------------- MODULE IdempotencyProofs -------------------------
(***************************************************************************)
(* Type correctness of the idempotency middleware, the exclusion of        *)
(* handlers under one key, and the unity and truth of the answers.         *)
(***************************************************************************)
EXTENDS Idempotency, TLAPS

(* A request that is not idle has asked something.                         *)
Asking == \A r \in Requests : req[r].pc # "idle" => Asked(r) \in Names

(* Answers and kept answers are runs that succeeded, for what was asked.   *)
Sourced ==
  /\ \A a \in answers : a.run \in good /\ runs[a.run] = a.asked
  /\ \A n \in Names : record[n].state = "completed" =>
       record[n].run \in good /\ runs[record[n].run] = n
  /\ \A w \in writes : w.value.state = "completed" =>
       w.value.run \in good /\ runs[w.value.run] = w.name

(* Why no second answer comes: once a question is answered its record is   *)
(* never absent again before it lapses, nobody works on it, and what is    *)
(* kept or being kept of it is that answer.                                *)
Settled ==
  \A a \in answers : a.asked \notin expired =>
    /\ record[a.asked].state # "none"
    /\ record[a.asked].state = "completed" => record[a.asked].run = a.run
    /\ \A r \in Requests : req[r].pc = "running" => Asked(r) # a.asked
    /\ \A w \in writes : w.name = a.asked => w.value = Completed(a.run)

Inv == TypeOK /\ Asking /\ OneRunner /\ Sourced /\ Settled /\ SameAnswer

(* A run is appended to the runs before it and changes none of them.       *)
LEMMA OneMoreRun ==
  ASSUME NEW seq \in Seq(Names), NEW x \in Names
  PROVE  /\ Append(seq, x) \in Seq(Names)
         /\ Len(Append(seq, x)) = Len(seq) + 1
         /\ Len(seq) \in Nat
         /\ DOMAIN seq = 1..Len(seq)
         /\ DOMAIN Append(seq, x) = 1..(Len(seq) + 1)
         /\ \A i \in DOMAIN seq : Append(seq, x)[i] = seq[i]
         /\ Append(seq, x)[Len(seq) + 1] = x
  OBVIOUS

(* The three states of a record, told apart.                               *)
LEMMA RecordStates ==
  /\ Absent.state = "none" /\ Absent \in States
  /\ Processing.state = "processing" /\ Processing \in States
  /\ \A n \in Nat : Completed(n).state = "completed" /\ Completed(n).run = n /\ Completed(n) \in States
  BY DEF Absent, Processing, Completed, States, NoRun

(* A request works on the record of what it has asked.                     *)
LEMMA RecordOfTheQuestion ==
  /\ \A r \in Requests : NameOf(r) = Asked(r)
  /\ \A n \in Names : RecordName(n[1], n[2]) = n
  BY DEF NameOf, Asked, RecordName, Names

(* The request of one slot moves on: what the others have asked, and what  *)
(* this one has asked while it is not idle, stays.                         *)
LEMMA Others ==
  ASSUME TypeOK, Asking, NEW r \in Requests, NEW p \in {"missed", "running"},
         req' = [req EXCEPT ![r].pc = p], req[r].pc # "idle"
  PROVE  /\ req' \in [Requests -> Handlers]
         /\ req'[r].pc = p
         /\ \A q \in Requests : Asked(q)' = Asked(q)
         /\ \A q \in Requests \ {r} : req'[q].pc = req[q].pc
  BY DEF TypeOK, Handlers, Asked

(* An answered request frees its slot and touches no other.                *)
LEMMA Leaves ==
  ASSUME TypeOK, NEW r \in Requests, Responds(r)
  PROVE  /\ req' \in [Requests -> Handlers]
         /\ req'[r].pc = "idle"
         /\ \A q \in Requests \ {r} : req'[q].pc = req[q].pc /\ Asked(q)' = Asked(q)
  BY DEF TypeOK, Handlers, Asked, Responds, Idle

(* It holds before the first request.                                      *)
LEMMA InitInv == Init => Inv
  BY BoundsAssumption DEF Init, Inv, TypeOK, Asking, OneRunner, Sourced, Settled, SameAnswer,
     Idle, Handlers, States, Absent, Asked, Names, NoRun

(* Every step keeps the invariant: one step per action.                    *)
LEMMA NextInv == Inv /\ [Next]_vars => Inv'
  <1> SUFFICES ASSUME Inv, [Next]_vars PROVE Inv'
    OBVIOUS
  <1> USE DEF Inv
  <1> USE BoundsAssumption, RecordStates
  <1>a. /\ \A r \in Requests : NameOf(r) = Asked(r) /\ NameOf(r)' = Asked(r)'
        /\ \A n \in Names : RecordName(n[1], n[2]) = n
    BY DEF NameOf, Asked, RecordName, Names
  <1>b. \A r \in Requests : req[r].pc # "idle" => Asked(r) \in Names
    BY DEF Asking
  <1>1. ASSUME NEW r \in Requests, NEW s \in Scopes, NEW k \in Keys, Arrive(r, s, k) PROVE Inv'
    <2>0. /\ req' \in [Requests -> Handlers]
          /\ req'[r].pc = "arrived" /\ Asked(r)' \in Names
          /\ \A q \in Requests \ {r} : req'[q].pc = req[q].pc /\ Asked(q)' = Asked(q)
      BY <1>1 DEF Arrive, TypeOK, Handlers, Asked, Names
    <2>11. TypeOK'
      BY <1>1, <2>0, <1>a, <1>b DEF Arrive, TypeOK, Names
    <2>12. Asking'
      BY <1>1, <2>0, <1>a, <1>b DEF Arrive, Asking
    <2>13. OneRunner'
      BY <1>1, <2>0, <1>a, <1>b DEF Arrive, OneRunner, TypeOK
    <2>14. Sourced'
      BY <1>1, <2>0, <1>a, <1>b DEF Arrive, Sourced, TypeOK
    <2>15. Settled'
      BY <1>1, <2>0, <1>a, <1>b DEF Arrive, Settled, OneRunner, Sourced, TypeOK
    <2>16. SameAnswer'
      BY <1>1, <2>0, <1>a, <1>b DEF Arrive, SameAnswer, Settled, TypeOK
    <2>17. QED
      BY <2>11, <2>12, <2>13, <2>14, <2>15, <2>16
  <1>2. ASSUME NEW r \in Requests, Look(r) PROVE Inv'
    <2>0. CASE record[NameOf(r)].state = "none"
      <3>1. req' = [req EXCEPT ![r].pc = "missed"] /\ req[r].pc # "idle"
        BY <1>2, <2>0 DEF Look
      <3>2. /\ req' \in [Requests -> Handlers]
            /\ req'[r].pc = "missed"
            /\ \A q \in Requests : Asked(q)' = Asked(q)
            /\ \A q \in Requests \ {r} : req'[q].pc = req[q].pc
        BY <3>1, Others
      <3>11. TypeOK'
        BY <1>2, <2>0, <3>1, <3>2, <1>a, <1>b DEF Look, TypeOK, Names, Sourced
      <3>12. Asking'
        BY <1>2, <2>0, <3>1, <3>2, <1>a, <1>b DEF Look, Asking
      <3>13. OneRunner'
        BY <1>2, <2>0, <3>1, <3>2, <1>a, <1>b DEF Look, OneRunner, TypeOK
      <3>14. Sourced'
        BY <1>2, <2>0, <3>1, <3>2, <1>a, <1>b DEF Look, Sourced, TypeOK
      <3>15. Settled'
        BY <1>2, <2>0, <3>1, <3>2, <1>a, <1>b DEF Look, Settled, OneRunner, Sourced, TypeOK
      <3>16. SameAnswer'
        BY <1>2, <2>0, <3>1, <3>2, <1>a, <1>b DEF Look, SameAnswer, Settled, TypeOK
      <3>17. QED
        BY <3>11, <3>12, <3>13, <3>14, <3>15, <3>16
    <2>1. CASE record[NameOf(r)].state # "none"
      <3>1. Responds(r)
        BY <1>2, <2>1 DEF Look
      <3>2. /\ req' \in [Requests -> Handlers]
            /\ req'[r].pc = "idle"
            /\ \A q \in Requests \ {r} : req'[q].pc = req[q].pc /\ Asked(q)' = Asked(q)
        BY <3>1, Leaves
      <3>11. TypeOK'
        BY <1>2, <2>1, <3>1, <3>2, <1>a, <1>b DEF Look, TypeOK, Names, Sourced
      <3>12. Asking'
        BY <1>2, <2>1, <3>1, <3>2, <1>a, <1>b DEF Look, Asking
      <3>13. OneRunner'
        BY <1>2, <2>1, <3>1, <3>2, <1>a, <1>b DEF Look, OneRunner, TypeOK
      <3>14. Sourced'
        BY <1>2, <2>1, <3>1, <3>2, <1>a, <1>b DEF Look, Sourced, TypeOK
      <3>15. Settled'
        BY <1>2, <2>1, <3>1, <3>2, <1>a, <1>b DEF Look, Settled, OneRunner, Sourced, TypeOK
      <3>16. SameAnswer'
        BY <1>2, <2>1, <3>1, <3>2, <1>a, <1>b DEF Look, SameAnswer, Settled, TypeOK
      <3>17. QED
        BY <3>11, <3>12, <3>13, <3>14, <3>15, <3>16
    <2>2. QED
      BY <2>0, <2>1
  <1>3. ASSUME NEW r \in Requests, Reserve(r) PROVE Inv'
    <2>0. CASE record[NameOf(r)].state = "none"
      <3>1. req' = [req EXCEPT ![r].pc = "running"] /\ req[r].pc # "idle"
        BY <1>3, <2>0 DEF Reserve, Begins
      <3>2. /\ req' \in [Requests -> Handlers]
            /\ req'[r].pc = "running"
            /\ \A q \in Requests : Asked(q)' = Asked(q)
            /\ \A q \in Requests \ {r} : req'[q].pc = req[q].pc
        BY <3>1, Others
      <3>11. TypeOK'
        BY <1>3, <2>0, <3>1, <3>2, <1>a, <1>b DEF Reserve, TypeOK, Names
      <3>12. Asking'
        BY <1>3, <2>0, <3>1, <3>2, <1>a, <1>b DEF Reserve, Asking
      <3>13. OneRunner'
        BY <1>3, <2>0, <3>1, <3>2, <1>a, <1>b DEF Reserve, OneRunner, TypeOK
      <3>14. Sourced'
        BY <1>3, <2>0, <3>1, <3>2, <1>a, <1>b DEF Reserve, Sourced, TypeOK
      <3>15. Settled'
        BY <1>3, <2>0, <3>1, <3>2, <1>a, <1>b DEF Reserve, Settled, OneRunner, Sourced, TypeOK
      <3>16. SameAnswer'
        BY <1>3, <2>0, <3>1, <3>2, <1>a, <1>b DEF Reserve, SameAnswer, Settled, TypeOK
      <3>17. QED
        BY <3>11, <3>12, <3>13, <3>14, <3>15, <3>16
    <2>1. CASE record[NameOf(r)].state # "none"
      <3>1. Responds(r)
        BY <1>3, <2>1 DEF Reserve
      <3>2. /\ req' \in [Requests -> Handlers]
            /\ req'[r].pc = "idle"
            /\ \A q \in Requests \ {r} : req'[q].pc = req[q].pc /\ Asked(q)' = Asked(q)
        BY <3>1, Leaves
      <3>11. TypeOK'
        BY <1>3, <2>1, <3>1, <3>2, <1>a, <1>b DEF Reserve, TypeOK, Names
      <3>12. Asking'
        BY <1>3, <2>1, <3>1, <3>2, <1>a, <1>b DEF Reserve, Asking
      <3>13. OneRunner'
        BY <1>3, <2>1, <3>1, <3>2, <1>a, <1>b DEF Reserve, OneRunner, TypeOK
      <3>14. Sourced'
        BY <1>3, <2>1, <3>1, <3>2, <1>a, <1>b DEF Reserve, Sourced, TypeOK
      <3>15. Settled'
        BY <1>3, <2>1, <3>1, <3>2, <1>a, <1>b DEF Reserve, Settled, OneRunner, Sourced, TypeOK
      <3>16. SameAnswer'
        BY <1>3, <2>1, <3>1, <3>2, <1>a, <1>b DEF Reserve, SameAnswer, Settled, TypeOK
      <3>17. QED
        BY <3>11, <3>12, <3>13, <3>14, <3>15, <3>16
    <2>2. QED
      BY <2>0, <2>1
  <1>4. ASSUME NEW r \in Requests, Succeed(r) PROVE Inv'
    <2>0. Asked(r) \in Names /\ Responds(r)
      BY <1>4, <1>b DEF Succeed, Answers
    <2>1. /\ req' \in [Requests -> Handlers]
          /\ req'[r].pc = "idle"
          /\ \A q \in Requests \ {r} : req'[q].pc = req[q].pc /\ Asked(q)' = Asked(q)
      BY <2>0, Leaves
    <2>2. /\ runs' = Append(runs, Asked(r))
          /\ runs' \in Seq(Names)
          /\ Len(runs') = Len(runs) + 1 /\ Len(runs) \in Nat
          /\ DOMAIN runs = 1..Len(runs) /\ DOMAIN runs' = 1..(Len(runs) + 1)
          /\ \A i \in DOMAIN runs : runs'[i] = runs[i]
          /\ runs'[Len(runs) + 1] = Asked(r)
      BY <1>4, <2>0, OneMoreRun DEF Succeed, TypeOK
    <2>3. /\ \A a \in answers : a.asked \notin expired => a.asked # Asked(r)
          /\ \A q \in Requests \ {r} : req[q].pc = "running" => Asked(q) # Asked(r)
          /\ record[Asked(r)].state = "processing"
          /\ \A w \in writes : w.name # Asked(r)
      BY <1>4, <1>a DEF Succeed, Settled, OneRunner
    <2>4. \A w \in writes' : w \in writes \/ w = [name |-> Asked(r), value |-> Completed(Len(runs) + 1)]
      BY <1>4, <1>a DEF Succeed, Answers
    <2>5. answers' = answers \cup {[asked |-> Asked(r), run |-> Len(runs) + 1]}
      BY <1>4, <2>2 DEF Succeed
    <2>11. TypeOK'
      BY <1>4, <2>0, <2>1, <2>2, <1>a, <1>b DEF Succeed, Answers, TypeOK, Names
    <2>12. Asking'
      BY <1>4, <2>0, <2>1, <2>2, <1>a, <1>b DEF Succeed, Answers, Asking
    <2>13. OneRunner'
      BY <1>4, <2>0, <2>1, <2>2, <1>a, <1>b DEF Succeed, Answers, OneRunner, TypeOK
    <2>14. Sourced'
      BY <1>4, <2>0, <2>1, <2>2, <1>a, <1>b DEF Succeed, Answers, Sourced, TypeOK
    <2>15. Settled'
      <3>1. SUFFICES ASSUME NEW a \in answers', a.asked \notin expired
            PROVE /\ record[a.asked].state # "none"
                  /\ record[a.asked].state = "completed" => record[a.asked].run = a.run
                  /\ \A q \in Requests : req'[q].pc = "running" => Asked(q)' # a.asked
                  /\ \A w \in writes' : w.name = a.asked => w.value = Completed(a.run)
        BY <1>4 DEF Succeed, Answers, Settled
      <3>2. CASE a \in answers
        BY <3>1, <3>2, <2>1, <2>3, <2>4 DEF Settled
      <3>3. CASE a = [asked |-> Asked(r), run |-> Len(runs) + 1]
        BY <3>1, <3>3, <2>1, <2>3, <2>4
      <3>4. QED
        BY <3>2, <3>3, <2>5
    <2>16. SameAnswer'
      BY <1>4, <2>0, <2>1, <2>2, <1>a, <1>b DEF Succeed, Answers, SameAnswer, Settled, TypeOK
    <2>17. QED
      BY <2>11, <2>12, <2>13, <2>14, <2>15, <2>16
  <1>5. ASSUME NEW r \in Requests, Refuse(r) PROVE Inv'
    <2>0. Asked(r) \in Names /\ Responds(r)
      BY <1>5, <1>b DEF Refuse, Answers
    <2>1. /\ req' \in [Requests -> Handlers]
          /\ req'[r].pc = "idle"
          /\ \A q \in Requests \ {r} : req'[q].pc = req[q].pc /\ Asked(q)' = Asked(q)
      BY <2>0, Leaves
    <2>2. /\ runs' = Append(runs, Asked(r))
          /\ runs' \in Seq(Names)
          /\ Len(runs') = Len(runs) + 1 /\ Len(runs) \in Nat
          /\ DOMAIN runs = 1..Len(runs) /\ DOMAIN runs' = 1..(Len(runs) + 1)
          /\ \A i \in DOMAIN runs : runs'[i] = runs[i]
          /\ runs'[Len(runs) + 1] = Asked(r)
      BY <1>5, <2>0, OneMoreRun DEF Refuse, TypeOK
    <2>3. /\ \A a \in answers : a.asked \notin expired => a.asked # Asked(r)
          /\ \A q \in Requests \ {r} : req[q].pc = "running" => Asked(q) # Asked(r)
          /\ record[Asked(r)].state = "processing"
          /\ \A w \in writes : w.name # Asked(r)
      BY <1>5, <1>a DEF Refuse, Settled, OneRunner
    <2>4. \A w \in writes' : w \in writes \/ w = [name |-> Asked(r), value |-> Absent]
      BY <1>5, <1>a DEF Refuse, Answers
    <2>11. TypeOK'
      BY <1>5, <2>0, <2>1, <2>2, <1>a, <1>b DEF Refuse, Answers, TypeOK, Names
    <2>12. Asking'
      BY <1>5, <2>0, <2>1, <2>2, <1>a, <1>b DEF Refuse, Answers, Asking
    <2>13. OneRunner'
      BY <1>5, <2>0, <2>1, <2>2, <1>a, <1>b DEF Refuse, Answers, OneRunner, TypeOK
    <2>14. Sourced'
      BY <1>5, <2>0, <2>1, <2>2, <1>a, <1>b DEF Refuse, Answers, Sourced, TypeOK
    <2>15. Settled'
      <3>1. SUFFICES ASSUME NEW a \in answers', a.asked \notin expired
            PROVE /\ record[a.asked].state # "none"
                  /\ record[a.asked].state = "completed" => record[a.asked].run = a.run
                  /\ \A q \in Requests : req'[q].pc = "running" => Asked(q)' # a.asked
                  /\ \A w \in writes' : w.name = a.asked => w.value = Completed(a.run)
        BY <1>5 DEF Refuse, Answers, Settled
      <3>2. CASE a \in answers
        BY <3>1, <3>2, <2>1, <2>3, <2>4 DEF Settled
      <3>3. QED
        BY <3>2, <1>5 DEF Refuse
    <2>16. SameAnswer'
      BY <1>5, <2>0, <2>1, <2>2, <1>a, <1>b DEF Refuse, Answers, SameAnswer, Settled, TypeOK
    <2>17. QED
      BY <2>11, <2>12, <2>13, <2>14, <2>15, <2>16
  <1>6. ASSUME NEW w \in writes, Apply(w) PROVE Inv'
    <2>0. \A q \in Requests : Asked(q)' = Asked(q) /\ req'[q].pc = req[q].pc
      BY <1>6 DEF Apply, Asked
    <2>11. TypeOK'
      BY <1>6, <2>0, <1>a, <1>b DEF Apply, TypeOK, Names
    <2>12. Asking'
      BY <1>6, <2>0, <1>a, <1>b DEF Apply, Asking
    <2>13. OneRunner'
      BY <1>6, <2>0, <1>a, <1>b DEF Apply, OneRunner, TypeOK
    <2>14. Sourced'
      BY <1>6, <2>0, <1>a, <1>b DEF Apply, Sourced, TypeOK
    <2>15. Settled'
      BY <1>6, <2>0, <1>a, <1>b DEF Apply, Settled, OneRunner, Sourced, TypeOK
    <2>16. SameAnswer'
      BY <1>6, <2>0, <1>a, <1>b DEF Apply, SameAnswer, Settled, TypeOK
    <2>17. QED
      BY <2>11, <2>12, <2>13, <2>14, <2>15, <2>16
  <1>7. ASSUME NEW w \in writes, ApplyFails(w) PROVE Inv'
    <2>0. \A q \in Requests : Asked(q)' = Asked(q) /\ req'[q].pc = req[q].pc
      BY <1>7 DEF ApplyFails, Asked
    <2>11. TypeOK'
      BY <1>7, <2>0, <1>a, <1>b DEF ApplyFails, Faulty, TypeOK, Names
    <2>12. Asking'
      BY <1>7, <2>0, <1>a, <1>b DEF ApplyFails, Faulty, Asking
    <2>13. OneRunner'
      BY <1>7, <2>0, <1>a, <1>b DEF ApplyFails, Faulty, OneRunner, TypeOK
    <2>14. Sourced'
      BY <1>7, <2>0, <1>a, <1>b DEF ApplyFails, Faulty, Sourced, TypeOK
    <2>15. Settled'
      BY <1>7, <2>0, <1>a, <1>b DEF ApplyFails, Faulty, Settled, OneRunner, Sourced, TypeOK
    <2>16. SameAnswer'
      BY <1>7, <2>0, <1>a, <1>b DEF ApplyFails, Faulty, SameAnswer, Settled, TypeOK
    <2>17. QED
      BY <2>11, <2>12, <2>13, <2>14, <2>15, <2>16
  <1>8. ASSUME Crash PROVE Inv'
    <2>11. TypeOK'
      BY <1>8, <1>a, <1>b DEF Crash, Faulty, Idle, Handlers, TypeOK, Names
    <2>12. Asking'
      BY <1>8, <1>a, <1>b DEF Crash, Faulty, Idle, Handlers, Asking
    <2>13. OneRunner'
      BY <1>8, <1>a, <1>b DEF Crash, Faulty, Idle, Handlers, OneRunner, TypeOK
    <2>14. Sourced'
      BY <1>8, <1>a, <1>b DEF Crash, Faulty, Idle, Handlers, Sourced, TypeOK
    <2>15. Settled'
      BY <1>8, <1>a, <1>b DEF Crash, Faulty, Idle, Handlers, Settled, OneRunner, Sourced, TypeOK
    <2>16. SameAnswer'
      BY <1>8, <1>a, <1>b DEF Crash, Faulty, Idle, Handlers, SameAnswer, Settled, TypeOK
    <2>17. QED
      BY <2>11, <2>12, <2>13, <2>14, <2>15, <2>16
  <1>9. ASSUME NEW n \in Names, Expire(n) PROVE Inv'
    <2>0. \A q \in Requests : Asked(q)' = Asked(q) /\ req'[q].pc = req[q].pc
      BY <1>9 DEF Expire, Asked
    <2>11. TypeOK'
      BY <1>9, <2>0, <1>a, <1>b DEF Expire, Faulty, Busy, TypeOK, Names
    <2>12. Asking'
      BY <1>9, <2>0, <1>a, <1>b DEF Expire, Faulty, Busy, Asking
    <2>13. OneRunner'
      BY <1>9, <2>0, <1>a, <1>b DEF Expire, Faulty, Busy, OneRunner, TypeOK
    <2>14. Sourced'
      BY <1>9, <2>0, <1>a, <1>b DEF Expire, Faulty, Busy, Sourced, TypeOK
    <2>15. Settled'
      BY <1>9, <2>0, <1>a, <1>b DEF Expire, Faulty, Busy, Settled, OneRunner, Sourced, TypeOK
    <2>16. SameAnswer'
      BY <1>9, <2>0, <1>a, <1>b DEF Expire, Faulty, Busy, SameAnswer, Settled, TypeOK
    <2>17. QED
      BY <2>11, <2>12, <2>13, <2>14, <2>15, <2>16
  <1>10. CASE UNCHANGED vars
    BY <1>10 DEF vars, TypeOK, Asking, OneRunner, Sourced, Settled, SameAnswer, Asked, NameOf
  <1>11. QED
    BY <1>1, <1>2, <1>3, <1>4, <1>5, <1>6, <1>7, <1>8, <1>9, <1>10 DEF Next, Proceed

(* It holds throughout.                                                    *)
THEOREM Invariance == Spec => []Inv
  BY InitInv, NextInv, PTL DEF Spec

(* Requests, records, pending writes, runs and answers stay well formed.   *)
THEOREM TypeCorrect == Spec => []TypeOK
  BY Invariance, PTL DEF Inv

(* Under one key one handler works at a time, from SET NX until Redis has  *)
(* the outcome, for any number of concurrent requests.                     *)
THEOREM OneAtATime == Spec => []OneRunner
  BY Invariance, PTL DEF Inv

(* All successful answers under one key come from one run of the handler.  *)
THEOREM OneAnswer == Spec => []SameAnswer
  BY Invariance, PTL DEF Inv

(* A replayed answer was a success, and an answer to the same question.    *)
THEOREM AnswersAreTrue == Spec => []ReplaysAreTrue
  <1>1. Inv => ReplaysAreTrue
    BY DEF Inv, Sourced, ReplaysAreTrue
  <1>2. QED
    BY <1>1, Invariance, PTL

----------------------------------------------------------------------------
(* Why a success is not lost while nothing fails: its record is completed, *)
(* or the write that will complete it is on its way.                       *)
OnItsWay ==
  faults = 0 =>
    /\ expired = {}
    /\ \A a \in answers :
         record[a.asked].state = "completed" \/ \E w \in writes : w.name = a.asked

(* Every step keeps it, or is a fault.                                     *)
LEMMA NextOnItsWay == Inv /\ OnItsWay /\ [Next]_vars => OnItsWay'
<1> SUFFICES ASSUME Inv, OnItsWay, [Next]_vars, faults' = 0 PROVE OnItsWay'
  BY DEF OnItsWay
<1>1. faults \in Nat /\ ~ Faulty
  BY BoundsAssumption DEF Inv, TypeOK, Faulty
<1>2. faults = 0 /\ expired = {}
  BY <1>1 DEF OnItsWay, Next, Arrive, Proceed, Look, Reserve, Succeed, Refuse, Answers,
              Apply, ApplyFails, Crash, Expire, vars
<1>3. /\ record \in [Names -> States] /\ \A r \in Requests : NameOf(r) = Asked(r)
      /\ \A a \in answers :
           record[a.asked].state = "completed" \/ \E w \in writes : w.name = a.asked
  BY <1>2, RecordOfTheQuestion DEF OnItsWay, Inv, TypeOK
<1>4. ASSUME NEW r \in Requests, NEW s \in Scopes, NEW k \in Keys, Arrive(r, s, k) PROVE OnItsWay'
  BY <1>2, <1>3, <1>4 DEF Arrive, OnItsWay
<1>5. ASSUME NEW r \in Requests, Look(r) PROVE OnItsWay'
  BY <1>2, <1>3, <1>5 DEF Look, OnItsWay
<1>6. ASSUME NEW r \in Requests, Reserve(r) PROVE OnItsWay'
  <2>1. \A a \in answers : record[a.asked].state # "none"
    BY <1>2 DEF Inv, Settled
  <2>2. \A n \in Names : record[n].state = "completed" => record'[n] = record[n]
    BY <1>3, <1>6 DEF Reserve
  <2>3. \A a \in answers : a.asked \in Names
    BY DEF Inv, TypeOK
  <2>4. answers' = answers /\ writes' = writes /\ expired' = expired
    BY <1>6 DEF Reserve
  <2>5. QED  BY <1>2, <1>3, <2>2, <2>3, <2>4 DEF OnItsWay
<1>7. ASSUME NEW r \in Requests, Succeed(r) \/ Refuse(r) PROVE OnItsWay'
  <2>1. PICK value : writes' = writes \cup {[name |-> Asked(r), value |-> value]}
    BY <1>3, <1>7 DEF Succeed, Refuse, Answers
  <2>2. \A a \in answers' : a \in answers \/ a.asked = Asked(r)
    BY <1>7 DEF Succeed, Refuse
  <2>3. record' = record /\ expired' = expired
    BY <1>7 DEF Succeed, Refuse, Answers
  <2>4. QED  BY <1>2, <1>3, <2>1, <2>2, <2>3 DEF OnItsWay
<1>8. ASSUME NEW w \in writes, Apply(w) PROVE OnItsWay'
  <2>1. \A a \in answers : a.asked \in Names /\ a.run \in Nat
    BY DEF Inv, TypeOK
  <2>2. \A a \in answers : w.name = a.asked => record'[a.asked].state = "completed"
    BY <1>2, <1>3, <1>8, <2>1, RecordStates DEF Apply, Inv, Settled
  <2>3. \A n \in Names : n # w.name => record'[n] = record[n]
    BY <1>3, <1>8 DEF Apply
  <2>4. answers' = answers /\ expired' = expired /\ writes' = writes \ {w}
    BY <1>8 DEF Apply
  <2>5. QED  BY <1>2, <1>3, <2>1, <2>2, <2>3, <2>4 DEF OnItsWay
<1>9. CASE UNCHANGED vars
  BY <1>2, <1>3, <1>9 DEF vars, OnItsWay
<1>10. QED
  BY <1>1, <1>4, <1>5, <1>6, <1>7, <1>8, <1>9 DEF Next, Proceed, ApplyFails, Crash, Expire

(* While nothing fails, a success stays to be replayed once it is written. *)
THEOREM SuccessStays == Spec => []AnswerKept
<1>1. Init => OnItsWay
  BY DEF Init, OnItsWay
<1>2. ASSUME Inv, OnItsWay, faults = 0, NEW a \in answers, ~ Busy(a.asked)
      PROVE  record[a.asked] = Completed(a.run)
  <2>1. a.asked \in Names /\ record[a.asked] \in States
    BY <1>2 DEF Inv, TypeOK
  <2>2. record[a.asked].state = "completed" /\ record[a.asked].run = a.run
    BY <1>2 DEF OnItsWay, Busy, Inv, Settled
  <2>3. QED  BY <2>1, <2>2 DEF States, Completed
<1>3. Inv /\ OnItsWay => AnswerKept
  <2>1. Inv => \A a \in answers : RecordName(a.asked[1], a.asked[2]) = a.asked
    BY RecordOfTheQuestion DEF Inv, TypeOK
  <2>2. QED  BY <1>2, <2>1 DEF AnswerKept, AnswersReplayable
<1>4. QED  BY <1>1, <1>3, NextOnItsWay, Invariance, PTL DEF Spec
=============================================================================
