------------------------ MODULE AnalyticsCacheProofs ------------------------
(***************************************************************************)
(* Type correctness of the cached dashboard, and that it is stale only     *)
(* across an invalidation.                                                 *)
(***************************************************************************)
EXTENDS AnalyticsCache, TLAPS

(* While no mutation is under way, a dashboard across no end of a mutation *)
(* has read what is there.                                                 *)
BuildsFresh ==
  Quiet => \A r \in Readers, c \in Tracked :
             reader[r].pc = "building" /\ ~ reader[r].across =>
               reader[r].value[c] \in {Unread, data[c]}

(* A slot at rest has read nothing.                                        *)
RestsUnread ==
  \A r \in Readers, c \in Collections : reader[r].pc = "idle" => reader[r].value[c] = Unread

Inv == TypeOK /\ RestsUnread /\ BuildsFresh /\ StaleOnlyByOverlap

(* "Unread" is no version, and the empty cache is not present.             *)
LEMMA UnreadFacts ==
  /\ Unread \notin Versions /\ Tracked \subseteq Collections
  /\ Absent.present = FALSE /\ Resting \in Reading
  /\ Resting.pc = "idle" /\ \A c \in Collections : Resting.value[c] = Unread
  /\ "users" \notin Tracked /\ "users" \in Collections
  BY BoundsAssumption DEF Unread, Versions, Tracked, Collections, Absent, Resting, Reading, Nothing

(* The invariant holds before the first request.                           *)
LEMMA InitInv == Init => Inv
  <1> SUFFICES ASSUME Init PROVE Inv
    OBVIOUS
  <1> USE UnreadFacts
  <1>1. 0 \in Versions /\ 0 \in 0..MaxFaults
    BY BoundsAssumption DEF Versions
  <1>2. TypeOK
    BY <1>1 DEF Init, TypeOK
  <1>3. RestsUnread
    BY DEF Init, RestsUnread
  <1>4. BuildsFresh
    BY DEF Init, BuildsFresh
  <1>5. StaleOnlyByOverlap
    BY DEF Init, StaleOnlyByOverlap, Fresh
  <1>6. QED
    BY <1>2, <1>3, <1>4, <1>5 DEF Inv

(* A dashboard request after a change of its mark.                         *)
LEMMA MarkFacts ==
  ASSUME NEW d \in Reading, NEW b \in BOOLEAN
  PROVE  LET e == [d EXCEPT !.across = b]
         IN  e \in Reading /\ e.pc = d.pc /\ e.value = d.value /\ e.across = b
  BY DEF Reading

(* A mutation that ends tells nobody, but marks who is building.           *)
LEMMA EndsFacts ==
  ASSUME TypeOK, NEW w \in Writers, Ends(w)
  PROVE  /\ writer' \in [Writers -> {"idle", "written", "found"}]
         /\ reader' \in [Readers -> Reading]
         /\ \A r \in Readers : /\ reader'[r].pc = "building" => reader'[r].across
                               /\ reader'[r].pc = reader[r].pc
                               /\ reader'[r].value = reader[r].value
  <1>1. writer' \in [Writers -> {"idle", "written", "found"}]
    BY DEF TypeOK, Ends
  <1>2. ASSUME NEW r \in Readers
        PROVE  /\ reader'[r] \in Reading
               /\ reader'[r].pc = reader[r].pc
               /\ reader'[r].value = reader[r].value
               /\ reader'[r].across = (reader[r].pc = "building")
    <2>1. reader[r] \in Reading /\ (reader[r].pc = "building") \in BOOLEAN
      BY DEF TypeOK
    <2>2. reader'[r] = [reader[r] EXCEPT !.across = reader[r].pc = "building"]
      BY DEF Ends
    <2>3. QED
      BY <2>1, <2>2, MarkFacts, Zenon
  <1>3. reader' \in [Readers -> Reading]
    <2>1. reader' = [r \in Readers |-> reader'[r]]
      BY DEF Ends
    <2>2. QED
      BY <1>2, <2>1
  <1>4. QED
    BY <1>1, <1>2, <1>3, Zenon

(* Every step keeps it: one step per action.                               *)
LEMMA NextInv == Inv /\ [Next]_vars => Inv'
  <1> SUFFICES ASSUME Inv, [Next]_vars PROVE Inv'
    OBVIOUS
  <1> USE BoundsAssumption, UnreadFacts DEF Inv
  <1>1. ASSUME NEW r \in Readers, Miss(r) PROVE Inv'
    <2>1. TypeOK'
      BY <1>1 DEF Miss, TypeOK, Reading, Versions, Collections, Tracked
    <2>5. RestsUnread'
      BY <1>1 DEF Miss, TypeOK, RestsUnread, Reading
    <2>2. BuildsFresh'
      BY <1>1 DEF Miss, TypeOK, RestsUnread, BuildsFresh, Quiet, Reading
    <2>3. StaleOnlyByOverlap'
      BY <1>1 DEF Miss, TypeOK, BuildsFresh, StaleOnlyByOverlap, Quiet, Fresh
    <2>4. QED
      BY <2>1, <2>2, <2>3, <2>5
  <1>2. ASSUME NEW r \in Readers, NEW c \in Collections, Query(r, c) PROVE Inv'
    <2>1. TypeOK'
      BY <1>2 DEF Query, TypeOK, Reading, Versions, Collections, Tracked
    <2>5. RestsUnread'
      BY <1>2 DEF Query, TypeOK, RestsUnread, Reading
    <2>2. BuildsFresh'
      BY <1>2 DEF Query, TypeOK, RestsUnread, BuildsFresh, Quiet, Reading
    <2>3. StaleOnlyByOverlap'
      BY <1>2 DEF Query, TypeOK, BuildsFresh, StaleOnlyByOverlap, Quiet, Fresh
    <2>4. QED
      BY <2>1, <2>2, <2>3, <2>5
  <1>3. ASSUME NEW r \in Readers, Store(r) PROVE Inv'
    <2>1. TypeOK'
      BY <1>3 DEF Store, Stores, TypeOK, Reading, Versions, Collections, Tracked
    <2>5. RestsUnread'
      BY <1>3 DEF Store, Stores, TypeOK, RestsUnread, Reading
    <2>2. BuildsFresh'
      BY <1>3 DEF Store, Stores, TypeOK, RestsUnread, BuildsFresh, Quiet, Reading
    <2>3. StaleOnlyByOverlap'
      BY <1>3 DEF Store, Stores, TypeOK, BuildsFresh, StaleOnlyByOverlap, Quiet, Fresh
    <2>4. QED
      BY <2>1, <2>2, <2>3, <2>5
  <1>4. ASSUME NEW r \in Readers, ReaderFails(r) PROVE Inv'
    <2>1. TypeOK'
      BY <1>4 DEF ReaderFails, TypeOK, Reading, Versions, Collections, Tracked
    <2>5. RestsUnread'
      BY <1>4 DEF ReaderFails, TypeOK, RestsUnread, Reading
    <2>2. BuildsFresh'
      BY <1>4 DEF ReaderFails, TypeOK, RestsUnread, BuildsFresh, Quiet, Reading
    <2>3. StaleOnlyByOverlap'
      BY <1>4 DEF ReaderFails, TypeOK, BuildsFresh, StaleOnlyByOverlap, Quiet, Fresh
    <2>4. QED
      BY <2>1, <2>2, <2>3, <2>5
  <1>5. ASSUME NEW w \in Writers, NEW c \in Tracked, Write(w, c) PROVE Inv'
    <2>0. data' \in [Collections -> Versions]
      BY <1>5 DEF Write, TypeOK, Versions
    <2>1. TypeOK'
      BY <1>5, <2>0 DEF Write, TypeOK
    <2>5. RestsUnread'
      BY <1>5 DEF Write, TypeOK, RestsUnread, Reading
    <2>2. BuildsFresh'
      BY <1>5 DEF Write, TypeOK, RestsUnread, BuildsFresh, Quiet, Reading
    <2>3. StaleOnlyByOverlap'
      BY <1>5 DEF Write, TypeOK, BuildsFresh, StaleOnlyByOverlap, Quiet, Fresh
    <2>4. QED
      BY <2>1, <2>2, <2>3, <2>5
  <1>6. ASSUME NEW w \in Writers, Touch(w) PROVE Inv'
    <2>1. TypeOK'
      BY <1>6 DEF Touch, TypeOK, Reading, Versions, Collections, Tracked
    <2>5. RestsUnread'
      BY <1>6 DEF Touch, TypeOK, RestsUnread, Reading
    <2>2. BuildsFresh'
      BY <1>6 DEF Touch, TypeOK, RestsUnread, BuildsFresh, Quiet, Reading
    <2>3. StaleOnlyByOverlap'
      BY <1>6 DEF Touch, TypeOK, BuildsFresh, StaleOnlyByOverlap, Quiet, Fresh
    <2>4. QED
      BY <2>1, <2>2, <2>3, <2>5
  <1>7. ASSUME Register PROVE Inv'
    <2>0. data' \in [Collections -> Versions]
      BY <1>7 DEF Register, TypeOK, Versions
    <2>1. TypeOK'
      BY <1>7, <2>0 DEF Register, TypeOK
    <2>5. RestsUnread'
      BY <1>7 DEF Register, TypeOK, RestsUnread, Reading
    <2>2. BuildsFresh'
      BY <1>7 DEF Register, TypeOK, RestsUnread, BuildsFresh, Quiet, Reading
    <2>3. StaleOnlyByOverlap'
      BY <1>7 DEF Register, TypeOK, BuildsFresh, StaleOnlyByOverlap, Quiet, Fresh
    <2>4. QED
      BY <2>1, <2>2, <2>3, <2>5
  <1>8. ASSUME NEW w \in Writers, Scan(w) PROVE Inv'
    <2>1. TypeOK'
      BY <1>8, EndsFacts DEF Scan, TypeOK
    <2>5. RestsUnread'
      BY <1>8, EndsFacts DEF Scan, RestsUnread
    <2>2. BuildsFresh'
      BY <1>8, EndsFacts DEF Scan, TypeOK, BuildsFresh, Quiet
    <2>3. StaleOnlyByOverlap'
      BY <1>8, EndsFacts DEF Scan, TypeOK, StaleOnlyByOverlap, Quiet, Fresh
    <2>4. QED
      BY <2>1, <2>2, <2>3, <2>5
  <1>9. ASSUME NEW w \in Writers, Delete(w) PROVE Inv'
    <2>1. TypeOK'
      BY <1>9, EndsFacts DEF Delete, TypeOK
    <2>5. RestsUnread'
      BY <1>9, EndsFacts DEF Delete, RestsUnread
    <2>2. BuildsFresh'
      BY <1>9, EndsFacts DEF Delete, TypeOK, BuildsFresh, Quiet
    <2>3. StaleOnlyByOverlap'
      BY <1>9, EndsFacts DEF Delete, TypeOK, StaleOnlyByOverlap, Quiet, Fresh
    <2>4. QED
      BY <2>1, <2>2, <2>3, <2>5
  <1>10. ASSUME NEW w \in Writers, Skip(w) PROVE Inv'
    <2>0. cache.present \in BOOLEAN
      BY Zenon DEF TypeOK, Absent
    <2>00. spoiled' \in BOOLEAN
      BY <1>10, <2>0 DEF Skip
    <2>000. faults' \in 0..MaxFaults
      BY <1>10 DEF Skip, TypeOK
    <2>1. TypeOK'
      BY <1>10, EndsFacts, <2>00, <2>000 DEF Skip, TypeOK
    <2>5. RestsUnread'
      BY <1>10, EndsFacts DEF Skip, RestsUnread
    <2>2. BuildsFresh'
      BY <1>10, EndsFacts DEF Skip, TypeOK, BuildsFresh, Quiet
    <2>3. StaleOnlyByOverlap'
      BY <1>10, EndsFacts DEF Skip, TypeOK, StaleOnlyByOverlap, Quiet, Fresh
    <2>4. QED
      BY <2>1, <2>2, <2>3, <2>5
  <1>11. ASSUME Expire PROVE Inv'
    <2>1. TypeOK'
      BY <1>11 DEF Expire, TypeOK, Reading, Versions, Collections, Tracked
    <2>5. RestsUnread'
      BY <1>11 DEF Expire, TypeOK, RestsUnread, Reading
    <2>2. BuildsFresh'
      BY <1>11 DEF Expire, TypeOK, RestsUnread, BuildsFresh, Quiet, Reading
    <2>3. StaleOnlyByOverlap'
      BY <1>11 DEF Expire, TypeOK, BuildsFresh, StaleOnlyByOverlap, Quiet, Fresh
    <2>4. QED
      BY <2>1, <2>2, <2>3, <2>5
  <1>12. CASE UNCHANGED vars
    BY <1>12 DEF vars, TypeOK, RestsUnread, BuildsFresh, StaleOnlyByOverlap, Quiet, Fresh
  <1>13. QED
    BY <1>1, <1>2, <1>3, <1>4, <1>5, <1>6, <1>7, <1>8, <1>9, <1>10, <1>11, <1>12 DEF Next

(* It holds throughout.                                                    *)
THEOREM Invariance == Spec => []Inv
  BY InitInv, NextInv, PTL DEF Spec

(* Data, cache, dashboard requests and mutations stay well formed.         *)
THEOREM TypeCorrect == Spec => []TypeOK
  BY Invariance, PTL DEF Inv

(* A cached dashboard lags behind shipments and payments only while a      *)
(* mutation is under way, or because it was built across the end of one,   *)
(* or because one could not invalidate.                                    *)
THEOREM StaleOnlyAcross == Spec => []StaleOnlyByOverlap
  BY Invariance, PTL DEF Inv
=============================================================================
