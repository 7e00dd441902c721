-------------------------- MODULE AnalyticsCache --------------------------
(***************************************************************************)
(* The cached dashboard of the administrator.  A request that misses reads *)
(* the collections by parallel queries and then stores what it got; a      *)
(* mutation writes, stores its outbox event and then deletes what it finds *)
(* in the cache.  Nothing orders the two.                                  *)
(***************************************************************************)
EXTENDS Naturals

CONSTANTS Readers,     \* slots of dashboard requests
          Writers,     \* slots of mutations
          MaxVersion,  \* bound on the writes to a collection
          MaxFaults    \* bound on failed event writes and invalidations

ASSUME BoundsAssumption == MaxVersion \in Nat /\ MaxFaults \in Nat

(* What the queries of the dashboard count.  Of several queries of one     *)
(* collection, one stands for all: each is fresh or stale by itself.       *)
Collections == {"shipments", "payments", "users"}

(* Collections whose writers invalidate.  The dashboard counts users by    *)
(* role, and only registration changes that.                               *)
Tracked == {"shipments", "payments"}

Versions == 0..MaxVersion
Unread == MaxVersion + 1

VARIABLES
  data,     \* collection -> its version
  cache,    \* the cached dashboard: what version of each collection, or Absent
  reader,   \* slot -> the dashboard request in it
  writer,   \* slot -> the mutation in it
  spoiled,  \* the cached dashboard was built across an invalidation, or one failed
  faults

vars == <<data, cache, reader, writer, spoiled, faults>>

Nothing == [c \in Collections |-> Unread]
Absent == [present |-> FALSE, value |-> Nothing]

(* across: some mutation ended while the dashboard was being built.        *)
Reading == [pc : {"idle", "building"}, value : [Collections -> Versions \cup {Unread}],
            across : BOOLEAN]
Resting == [pc |-> "idle", value |-> Nothing, across |-> FALSE]

TypeOK ==
  /\ data \in [Collections -> Versions]
  /\ cache = Absent \/ cache \in [present : {TRUE}, value : [Collections -> Versions]]
  /\ reader \in [Readers -> Reading]
  /\ writer \in [Writers -> {"idle", "written", "found"}]
  /\ spoiled \in BOOLEAN
  /\ faults \in 0..MaxFaults

Init ==
  /\ data = [c \in Collections |-> 0]
  /\ cache = Absent
  /\ reader = [r \in Readers |-> Resting]
  /\ writer = [w \in Writers |-> "idle"]
  /\ spoiled = FALSE
  /\ faults = 0

----------------------------------------------------------------------------
(* getAdminAnalytics: a miss.  A hit changes nothing.                      *)
Miss(r) ==
  /\ reader[r].pc = "idle"
  /\ ~ cache.present
  /\ reader' = [reader EXCEPT ![r].pc = "building"]
  /\ UNCHANGED <<data, cache, writer, spoiled, faults>>

(* buildAdminAnalytics: the queries run in parallel.                       *)
Query(r, c) ==
  /\ reader[r].pc = "building"
  /\ reader[r].value[c] = Unread
  /\ reader' = [reader EXCEPT ![r].value[c] = data[c]]
  /\ UNCHANGED <<data, cache, writer, spoiled, faults>>

Stores(r) ==
  /\ cache' = [present |-> TRUE, value |-> reader[r].value]
  /\ spoiled' = reader[r].across
  /\ reader' = [reader EXCEPT ![r] = Resting]
  /\ UNCHANGED <<data, writer, faults>>

Store(r) ==
  /\ reader[r].pc = "building"
  /\ \A c \in Collections : reader[r].value[c] # Unread
  /\ Stores(r)

(* A query or the SET fails: a 500, and nothing is stored.                 *)
ReaderFails(r) ==
  /\ reader[r].pc = "building"
  /\ reader' = [reader EXCEPT ![r] = Resting]
  /\ UNCHANGED <<data, cache, writer, spoiled, faults>>

(* The write of a handler.                                                 *)
Write(w, c) ==
  /\ writer[w] = "idle"
  /\ data[c] < MaxVersion
  /\ data' = [data EXCEPT ![c] = @ + 1]
  /\ writer' = [writer EXCEPT ![w] = "written"]
  /\ UNCHANGED <<cache, reader, spoiled, faults>>

(* A write that the dashboard does not show: a user's status, an unpaid    *)
(* payment.  It invalidates all the same.                                  *)
Touch(w) ==
  /\ writer[w] = "idle"
  /\ writer' = [writer EXCEPT ![w] = "written"]
  /\ UNCHANGED <<data, cache, reader, spoiled, faults>>

(* register writes a user and leaves the cache alone.                      *)
Register ==
  /\ data["users"] < MaxVersion
  /\ data' = [data EXCEPT !["users"] = @ + 1]
  /\ UNCHANGED <<cache, reader, writer, spoiled, faults>>

(* A mutation ends: whoever is building a dashboard is told by nobody.     *)
Ends(w) ==
  /\ writer' = [writer EXCEPT ![w] = "idle"]
  /\ reader' = [r \in Readers |-> [reader[r] EXCEPT !.across = reader[r].pc = "building"]]

(* MUTANT: the pattern matches no key.                                     *)
ScanOther(w) ==
  /\ writer[w] = "written"
  /\ Ends(w)
  /\ UNCHANGED <<data, cache, spoiled, faults>>

(* deleteCacheByPattern: SCAN, and without a key no DEL.                   *)
Scan(w) ==
  /\ writer[w] = "written"
  /\ IF cache.present
     THEN writer' = [writer EXCEPT ![w] = "found"] /\ UNCHANGED reader
     ELSE Ends(w)
  /\ UNCHANGED <<data, cache, spoiled, faults>>

Delete(w) ==
  /\ writer[w] = "found"
  /\ cache' = Absent /\ spoiled' = FALSE
  /\ Ends(w)
  /\ UNCHANGED <<data, faults>>

(* The event cannot be stored and the handler answers 500, or the          *)
(* invalidation is rejected, which is swallowed.                           *)
Skip(w) ==
  /\ writer[w] # "idle"
  /\ faults < MaxFaults /\ faults' = faults + 1
  /\ spoiled' = cache.present
  /\ Ends(w)
  /\ UNCHANGED <<data, cache>>

(* MUTANT: the dashboard is stored without a time to live.                 *)
ExpireNever == cache.present /\ cache' = cache /\ UNCHANGED <<data, reader, writer, spoiled, faults>>

(* CACHE_TTL.                                                              *)
Expire ==
  /\ cache.present
  /\ cache' = Absent /\ spoiled' = FALSE
  /\ UNCHANGED <<data, reader, writer, faults>>

Next ==
  \/ \E r \in Readers :
       Miss(r) \/ Store(r) \/ ReaderFails(r) \/ \E c \in Collections : Query(r, c)
  \/ \E w \in Writers :
       Touch(w) \/ Scan(w) \/ Delete(w) \/ Skip(w) \/ \E c \in Tracked : Write(w, c)
  \/ Register \/ Expire

Spec == Init /\ [][Next]_vars

(* The time to live runs out; dashboards and mutations that began end.     *)
FairSpec ==
  /\ Spec
  /\ WF_vars(Expire)
  /\ \A r \in Readers : WF_vars(Store(r) \/ \E c \in Collections : Query(r, c))
  /\ \A w \in Writers : WF_vars(Scan(w) \/ Delete(w))

----------------------------------------------------------------------------
(* Properties                                                              *)

Fresh(C) == cache.present => \A c \in C : cache.value[c] = data[c]
Quiet == \A w \in Writers : writer[w] = "idle"

(* The cached dashboard lags behind only while a mutation is still at it,  *)
(* or because it was built across the end of one, or one could not         *)
(* invalidate: a dashboard begun after a mutation is not stale for it.     *)
StaleOnlyByOverlap == Quiet /\ ~ spoiled => Fresh(Tracked)

(* Staleness is bounded by the time to live: when the writes stop, the     *)
(* dashboard is at last right for good, users included.                    *)
FreshAtLast == <>[]Fresh(Collections)
=============================================================================
