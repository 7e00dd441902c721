# FreightFlow: a formal verification of the shipment platform

FreightFlow is an Express/MongoDB/Redis back end with a React client: shippers
create shipments and pay for them, administrators assign drivers, drivers move
shipments to delivery, and everybody is told by notifications and live updates.
This directory holds TLA+ models of the parts with concurrent, failing or
persistent state, the TLC configurations that check them, and TLAPS proofs.

Paths below are relative to the repository (`src/controllers/...`, `client/src/...`).

## 1. The system

| Part | State it keeps | Operations | Talks to |
|---|---|---|---|
| Shipment lifecycle (`shipmentController`, `driverController`, `adminController`, `models/Shipment`) | shipment documents: `status`, `shipper`, `driver`, `statusHistory`; `User.isActive` | create, cancel, update status, assign driver, cancel as admin | writes `OutboxEvent`, invalidates the analytics cache, enqueues audit jobs |
| Outbox (`outboxService`, `outboxJobs`, `outboxWorker`, `recoveryJobs`, `notificationJobs`, `queues`, `workers`) | `OutboxEvent` records, BullMQ jobs | store, enqueue, claim, emit to sockets, queue notification, mark, retry, recovery sweep | called by the controllers; calls Socket.IO and the notification queue |
| Payments (`paymentController`, `models/Payment`) | payment documents, `Shipment.paymentStatus` | initiate, confirm (MongoDB transactions) | same shipment documents, audit, cache |
| Sessions (`authController`, `middlewares/auth`, `adminController.updateUserStatus`) | `User.refreshToken` (hash), `User.isActive` | register, login, refresh, logout, (de)activate | cookies of the browser session |
| Idempotency (`middlewares/idempotency`) | one Redis record per user, endpoint and key | read, reserve, replay, record, release | wraps the mutating handlers |
| Analytics cache (`analyticsService`, `cacheService`) | one Redis key with a time to live | read through, invalidate | read by the dashboard, invalidated by the mutating handlers |
| Browser session (`client/src/api/axiosInstance.js`, `AuthContext.jsx`, login page) | per tab: user, refresh flag, queue of failed calls; per browser: the cookies | hydrate, call, refresh on 401, retry, redirect | sessions |
| Live updates (`socketService`, `useSocket`) | room memberships | join, leave, emit, reconnect | outbox worker, pages |
| Forms and CSRF (`CreateShipment`, `ShipmentDetail`, `AssignDriver`, `DriverShipmentDetail`, `AdminUsers`, `axiosInstance`, `middlewares/csrfProtection`) | per tab: the CSRF token and the fetch of it; per page: what it shows, which button is busy; a cookie | click, fetch a token, send, refuse, retry once, chain calls, give up | every writing handler |
| Process life cycle (`server`, `utils/shutdown`, `config/db`, `config/redis`) | what the process has open, shutdowns under way | boot, signal, drain, disconnect, exit, restart | everything that runs in the process |
| Audit log (`auditLogService`, audit queue and worker) | `AuditLog` documents, audit jobs | record, write, retry, sweep | controllers, the process it lives in |
| Rate limiters, validation, error handling, metrics | counters | | |

What is hard in it: an Express handler is a chain of awaits, and between any
two of them other handlers run; there are no transactions except in payments;
writes are guarded by conditional filters that name some of what the earlier
reads checked; business events pass through a queue that redelivers; Redis
writes are sometimes fired and forgotten; and the browser runs the same client
in several tabs over one cookie jar. `PROJECT.json` lists each hazard at its
line, with the properties that watch it or the reason none does.

What makes each part correct:

- *lifecycle*: the history is a path of legal, authorised transitions whatever
  handlers race; what events and audit entries say about it is true; a
  transition goes unannounced only by a failure.
- *outbox*: one worker at a time holds a record; what a worker knows to be published
  stays so, and published means handed over; nothing stored is forgotten; repetitions come from failures only.
- *payments*: one payment per shipment, settled once, in step with the
  shipment's `paymentStatus` and with the audit log.
- *sessions*: a refresh token belongs to one account and a retired one is refused;
  no new handler issues a token for an inactive account.
- *idempotency*: under one key one handler runs at a time, and every success
  reported under it is the same one; the key does not stay reserved for ever.
- *cache*: the dashboard is stale only where a mutation overlapped its making, and
  not for ever.
- *live updates*: only the entitled are in a room; whoever shows a shipment is
  subscribed to it; an old status is shown only for a reason one can name.
- *forms*: what a page says was done was done, and nothing else was but for
  submissions that failed or went unanswered; one retry is enough for a stale
  CSRF token; a payment is left half-way only by a failure or a
  reload of its page; no button stays busy.
- *process*: nothing that runs loses its connections or is cut off by a
  shutdown; every shutdown ends; a queued audit event is written, and written
  twice only for a failure.
- *browser session*: renewal is silent, each call settles, a tab is thrown out
  only with its session.

## 2. Modules

Each component has a module with its state, one action per await-to-await step
of its handlers, `Next`, `Spec` and its properties; an `MC` module that adds the
symmetry sets for TLC; one `.cfg` per run, named `<Module>_<run>.cfg`; and
where something is proved, a `Proofs` module. Operators marked `MUTANT` are
plausible bugs, one beside the definition it would replace; they take no part in
`Next` and show that each property can fail.

| Module | Models | State ↔ code |
|---|---|---|
| `ShipmentLifecycle` | the five writing handlers of the three controllers, as arrive (protect, authorizeRoles) → check (the read and its guards) → apply (`findOneAndUpdate` with its filter) → queue event → respond with audit | `status`, `shipper`, `driver`, `history` are fields of the document; `active` is `User.isActive`; `outbox`, `audit` are the records produced; `req[r]` are a handler's locals |
| `ShipmentContract` | what shippers, drivers and administrators may rely on: one atomic step per transition | implemented by `ShipmentLifecycle` (`Contract`, refinement by renaming) |
| `Outbox` | the record, the job and the worker: store, add, take, claim, emit, hand over, mark, settle; stalls, crashes, shutdowns, retries, expiry of finished jobs, the sweep | `record` is `OutboxEvent.status`, `ripe` is `availableAt <= now`, `job`, `made`, `lock` are BullMQ's, `worker[w]` is an invocation of `publishOutboxEvent`; `mute` are the workers whose process has cleared its `io`; `emitted`, `delivered` count effects |
| `Payments` | initiate and confirm, each transaction step by step: snapshot, writes, write conflict and retry, commit | `payment`, `paymentStatus` committed state; a handler's open transaction is in `req[r]` |
| `PaymentContract` | open once, settle once | implemented by `Payments` |
| `Sessions` | register, login, refresh, logout as read and save; deactivation and reactivation | `stored` is `User.refreshToken`, `account` is `isActive`; `held` are the tokens clients were sent |
| `Idempotency` | the middleware around any handler: look, reserve (SET NX), succeed or refuse, and the late write of the outcome | `record` is the Redis record, `writes` are the unawaited Redis commands, `runs` counts handlers begun and `answers` what clients got |
| `AnalyticsCache` | the read-through fill, query by query, against writers that write and then scan and delete | `data` are versions of the collections, `cache` is the Redis key |
| `ShipmentRooms` | the room of one shipment and the pages on it: the handshake, joins and leaves in order on a socket, the join that awaits a read, lost connections, the outbox worker's emissions, fetches and actions of the pages and what they show | `member` is the adapter's room, `toServer`/`toClient` the socket's two directions, `asked`/`granted` join handlers at their two points, `shown` the page's React state, `asking`/`answer` its request; `version` counts the transitions of the document |
| `ProcessLife` | `startServer` step by step, the signal handlers and any number of `shutdown()` invocations beside it and each other, exit, crash and restart by the supervisor; a request with its fire-and-forget audit job, and the audit worker with attempts, stalls and the sweep | `open` are the connections and servers, `closing[s]` the await an invocation of `shutdown` stands at, `recording` the `queue.add` nobody awaits, `auditJob`, `tries`, `auditStalls` BullMQ's, `run` the worker's invocation of `writeAuditLog`, `entries` the documents |
| `Forms` | six submissions from the guard of the button over the CSRF token and the chain of calls to the answer; pages opened, left, refreshed, reloaded and closed; requests lost, failed, or served after they were given up | `token`, `fetching` are `csrfToken` and `csrfPromise` of a tab, `token` relative to its cookie; `page` is the submission whose `loading` flag (or success) shuts the button, `seen` the React state the button depends on; `phase`, `step`, `retried` are an axios call, its place in the handler and `_csrfRetry`; `real`, `made` the database |
| `ClientSession` | axios interceptors, `AuthProvider`, login page, in several tabs | `isRefreshing`, `failedQueue` are the interceptor's; `jar`, `access` the cookies; `token` what the server would take |

Abstractions shared by the modules. A user, a shipment, a token or a payload is
a model value or a number; validation of a request body is a choice between
going on and refusing; a hash is as good as what it hashes. A request slot
stands for a handler in execution and is reused after the response, so the
number of slots bounds concurrency and not the number of requests. A failure of
MongoDB or Redis, or a death of the process, is an action that may happen
between any two awaits, bounded by `MaxFailures` or `MaxFaults`. BullMQ,
MongoDB's transactions and Redis are modelled as the code in `src/` uses them
and are marked external in `PROJECT.json`: a job id that is still known is not
added again, a lock that lapses lets a job be redelivered, an operation on a
document that an open transaction wrote aborts with a conflict.

Ghost state: `at` in a lifecycle handler and in its records (which history
entry it is about), `emitted`, `delivered`, `skipped`, `unsure` and `failures` in the outbox, `late`,
`good`, `answers`, `expired`, `spoiled`, `missed`, `broken`, `out`, `early`, `cut` and
`upset` are not in the program; they let a property speak of the past, and no guard of the program's
steps reads them except to bound failures.

Abstractions of `ShipmentRooms`. A status is the number of transitions behind
it, since `ShipmentLifecycle` says which status follows which; a shipment that
moved without a driver is cancelled and final. A page has one fetch under way at
a time, and takes no action of its own while it waits for a response. A page is
an owner's detail page, a driver's detail or list page, or the admin's list; the
shipper's list, the dashboards and the notification bell use no rooms of their
own. As in socket.io-client, a join or leave of a page whose socket is not
connected waits for the connection, one on the wire of a lost connection is
gone, and nothing joins again after a reconnection because no code does.

Abstractions of `ProcessLife`. A step of the boot is one action, and so is each
await of `shutdown`; the servers, connections, queues and workers are in `open`
or not. The QUIT of a connection follows the commands it was given, and a
second QUIT on it is rejected, which sends its `shutdown` into the catch block.
The publishing and notification queues live in the same process; they are
`Outbox`, and the audit queue stands for all in what a shutdown waits for.

Abstractions of `Outbox`. An event has a room and a notification. A write to
MongoDB may fail before it is applied or after it, with its answer lost, and the
worker learns the same of both: so may the claim, which is outside the `try`, the
mark, and the catch block's own write. `CloseSocket` is `clearIO()`, which the
shutdown of `ProcessLife` calls while jobs run; each worker slot is mute for itself,
which includes the slots of one process becoming so together. An emission on an `io`
that is closing but not cleared counts as made; whom emissions reach is
`ShipmentRooms`.

Abstractions of `Forms`. Each of three tabs has a user whose session lives
(`ClientSession` has the other case). A shipment, its payment and an account are
one value each, `real`; the controllers behind the calls are their guard and
their write (`Allowed`, `Effect`), since `ShipmentLifecycle`, `Payments` and
`Sessions` have their awaits. A handler may throw before its write or after it
(`ServeFails`), as when the outbox event of a created shipment cannot be stored.
Two ways of leaving a page differ: inside the application (`Opens`) the handler's
chain goes on without its page; a reload or a closed tab (`Reload`) ends the script,
with its calls, its chains, `csrfToken` and `csrfPromise`, and what was sent may still
be served. Choosing the header and attaching the cookie are one step (`Send`): a CORS
preflight between the two, in which another tab could replace the cookie, is not
modelled.

## 3. Runs

Passing runs:

| Run | Instance | Shows |
|---|---|---|
| `shipment_safety` | 1 shipment, 1 shipper, 2 drivers, 1 admin, 2 handlers at a time, 1 failure (0.9 M states) | legal and authorised history, true records, a transition goes unannounced only by a failure, nothing rewritten, refinement of the contract |
| `outbox_safety` | 1 event, 2 workers, shutdowns, 3 attempts, 3 faults of every kind, fairness (0.7 M states) | one claimant, published is handed over and final, deliveries bounded by failures, and an event that is not published was abandoned or blocked |
| `payments_safety` | 2 shipments, 3 payment ids, 3 requests at a time, failures anywhere | one payment per shipment, agreement of payment and shipment, refinement of the contract |
| `sessions_safety` | 2 users, 3 requests at a time, 3 tokens | late reuse is refused, deactivation drains |
| `idempotency_safety` | 2 scopes, 1 key, 3 requests at a time, 5 runs, 2 faults, fairness | one runner, one answer, answers kept, reservations end |
| `analytics_safety` | 2 readers, 2 writers, 1 write per collection, 1 failed invalidation, fairness | stale only by overlap or failure, and fresh at last |
| `rooms_safety` | an owner's detail page, a driver's detail page and the admin's list, 2 transitions, 2 fetches, 1 fault (2.6 M states) | members are entitled, a page is subscribed at rest, an old status is shown only after an event passed the page or came out of turn |
| `process_life` | 1 request, 1 audit job, 2 overlapping shutdowns, 2 attempts, 2 crashes or failures, fairness (125 k states) | work has its connections, a shutdown cuts nothing off and ends, audit entries are written, and repeated for failures only |
| `forms` | 2 submissions of any of the six forms, 3 tabs, reloads, 1 loss or failure, 2 changes of a cookie, fairness (762 k states) | one CSRF retry is enough, pages tell what was done, a payment is left pending only by a failure or a reload, no button stays busy |
| `client_safety` | 1 tab, 3 calls, 3 lapses of the access token, 1 ended session or lost answer, fairness | queue, flag and refresh agree; the jar is current; a logout lasts, whatever calls outlive it; renewal is silent; each call settles |

Why the bounds are enough. The hazards are races of two handlers, where a third
adds only a bystander: two slots show each of them, and three are used where a
handler can stand between two others (idempotency, sessions, payments). One
shipment suffices for the lifecycle and the rooms, whose steps touch one
document; two are used in payments so that conflicts on different documents can
differ, and two scopes in idempotency so that one name can meet another. The two
drivers let an assignment race with another. Three attempts are the queue's
own, and three faults use them up, or lose the answers of a mark, of the catch
block after it and of the next claim. Two transitions are the least
that can be emitted out of order, and two fetches the least that can
overtake. Two shutdowns are the fewest that meet, and two faults let one hit the
process and one the job it left; two of the queue's three attempts are enough to
be tried again and to be given up for the sweep. Two submissions share the token
of a tab and drop it under each other, or stand at two calls of one form; two
changes of the cookie are the least that defeat the one retry. One write per collection is enough to be stale by. The one tab of
`client_safety` is what the client is written for; `client_tabs` has the second.
Where a property is proved, the theorem holds for every value of these
constants.

Runs that end in a violation; each is a disagreement between the code and its
own documentation or comments (`findings` in `PROJECT.json`):

| Run | Property | What happens |
|---|---|---|
| `outbox_crash` | `EventsPublished` | a worker that dies after the claim leaves the record in `processing` for ever |
| `client_tabs` | `SilentRenewal` | two tabs refresh with one token; the loser is thrown to the login page |

Further behaviour the models show and that a reader of the code should know. It
is why some properties carry the conditions they have:

- A failure between the shipment write and `OutboxEvent.create` leaves a transition
  that is never announced, although `docs/ARCHITECTURE.md:161` wants none lost
  (`failures` in `AnnouncedUnlessFailed`).
- The admin's list joins its rows only after the response that shows them, and
  leaves and joins them again at every event: an event emitted in between passes
  the row (`missed` in `StaleOnlyByMissing`).
- A signal during the boot starts a shutdown beside it: the boot goes on, opens
  what the shutdown no longer closes, and the exit cuts off what runs (`early` in
  `WorkHasConnections` and `NothingCutOff`).
- An emission is skipped without a word when the process has no `io`, so an event
  published during a shutdown is never shown live (`skipped` in
  `PublishedWasHandedOver`); its notification is queued all the same.
  `docs/ARCHITECTURE.md:161-164` promises more: events that "must not be lost
  before notification or socket delivery".
- When the mark is applied and its answer lost, the catch block, whose filter is
  `_id` alone, sets the published record to `failed`, and the event is published
  again (`unsure` in `PublishedIsFinal` and `OneClaimant`).
- A payment whose chain of calls broke, by a failure or because the page was reloaded
  or closed between two of them, stays pending: the page that has fetched
  that state offers no form, and a new initiation would be refused. Creating a
  shipment carries no idempotency key, so trying again after a lost answer may
  make a second one (`unanswered`, `gone` and `failed` in `PendingOnlyByFailure` and
  `MadeAsTold`).
- The assign page says of a shipment with a driver that "Assigning a new driver
  will replace them" (`AssignDriver.jsx:210`); `assignDriver` refuses every
  shipment that is not pending (`Allowed` in `Forms`, `NothingRewritten`).
- A driver who is deactivated between the check and the write of an assignment
  is assigned; no filter of the write looks at `isActive`.
- The sweep's `add` is ignored as long as the failed job still holds its id
  (`Blocked` in `Outbox`).
- A logout and a renewal that overlap leave the browser with the cookies of the
  later answer (`out` in `LogoutLasts`), and a logout that fails shows the login page
  with the session still alive.
- Two concurrent refreshes that both read the user before either saves are both
  granted (`LateReuseRefused` speaks of reuse after the rotation), and a refresh
  that read before a logout or a deactivation stores its token after it
  (`DeactivationDrains` bounds it to such handlers).
- The write of an outcome to Redis is not awaited: one that is lost turns a
  success into a 409 for the 24 hours of the record (`faults = 0` in `AnswerKept`).
- Figures read before a mutation are stored after it invalidated, for at most the
  time to live (`spoiled` in `AnalyticsCache`).
- A page opened after its access token lapsed shows the login page although the
  session lives, since `/auth/me` is exempt from renewal; and a refused login
  takes the refresh path of the interceptor.

Deadlock is checked except in the runs of `Idempotency` (the number of runs is
bounded, and when they are used up nothing is left to do), `ClientSession` (a
tab makes each of its calls once), `ShipmentRooms` (transitions, fetches and
faults are bounded), `ProcessLife` (a request is served once, and without
signals a process just runs) and `Forms` (each submission is made once), where the system comes to rest.

## 4. Fairness

- `Outbox`: weak fairness of adding, promoting delayed jobs, the stalled-job
  check, timers, the notification worker, each step of a worker and the sweep
  (a repeatable job). Strong fairness of taking a job, since a
  worker slot may be free and taken again and BullMQ serves its waiting list in
  order. Faults, new events and expiry of finished jobs are never owed.
- `Idempotency`: weak fairness of each handler (the event loop resumes an await
  whose promise is settled) and of the pending Redis writes. Nothing obliges a
  client to send.
- `AnalyticsCache`: the time to live lapses; dashboards and mutations that began
  end. Writes are bounded, so they stop.
- `ClientSession`: requests are answered (axios has a timeout), answers are
  received. Users owe nothing.

- `ProcessLife`: the supervisor restarts (`restart: unless-stopped`); boots,
  shutdowns, handlers, adds and the worker proceed; delayed jobs are promoted,
  stalled ones found and failed ones swept as long as a worker runs. Signals,
  crashes and requests are never owed.
- `Forms`: the interceptors, handlers and the server proceed, and the fetch of a
  token is answered (or fails, by axios' timeout). Nobody has to click, or to open or
  reload a page.

The other modules state safety only and assume no fairness.

## 5. Proofs

`tlapm` checks the following for every value of the constants, under the
`ASSUME`s of the modules only: roles are disjoint and `NoUser` is no user;
the "none" values are outside the sets they complete; bounds are naturals, and
the slots of requests in flight are finitely many. TLC evaluates these assumptions on every run.

- `ShipmentLifecycleProofs`: `TypeCorrect`, `HistoryCorrect`, `EntriesCorrect`,
  `DriverCorrect`, `Refinement`, `PastIsKept`, `RecordsCorrect`, `Announcements`.
  Types need that of the handlers' locals
  (`TypeInv` is `TypeOK` and `HandlersTyped`). The properties are not inductive:
  a handler between check and apply carries what it read (`req[r].seen`,
  `req[r].wants`). `HandlersTyped` says that its user has the role of its operation
  and its target is a driver, `AdvancesChecked` that the wanted status follows the
  one it read. What the document guarantees then comes from the filter of the
  write alone, and `SoundDocuments` gathers it: the history is fixed by the status,
  so that which entry is the assignment, and who the driver is, follow from the
  length. `RecordsCorrect` rests on what a handler remembers between its write and
  its records (`Remembers`): the entry it wrote, and the status before it. For
  `Announcements` a step at which nothing fails leaves every announced entry
  announced and announces what it adds; one that fails loses at most one entry per
  handler (`FewPlaces`), which is where the slots must be finite.
- `OutboxProofs`: `TypeCorrect`, `ClaimExclusive`, `PublishedForGood`, `HandedOverFirst`,
  `RepeatsCostFailures`.
  `JobsConsistent` ties the lock to the active job; on it `OneClaimant` is
  inductive, because a worker that holds the claim finds its record in
  `processing` and nothing but the holder leaves `processing`; the one exception, a
  holder in its catch block whose record says `published`, is what `unsure` names, and
  why `PublishedForGood` excludes it and nothing else.
  The last two count: `HandOverInv` budgets emissions and notifications each against
  the failures so far, since a claim is worth one of both and a record returns to a
  claimable status only through a failure. Neither bounds the other: an emission may
  have been skipped, and a notification repeated when its id expired.

  The module extends `ProcessLife` too, and its second half is about the process and
  the audit queue: `LifeTypeCorrect`, `ConnectionsCorrect`,
  `NothingCutOffCorrect`, `EntriesCorrect`. Types need `Cuts`: an exit that counts
  was asked for by a signal that no other exit was counted for, because a death
  ends every invocation of `shutdown` with it. `OrderInv` is the order of `server.js`
  as a state predicate, for any number of shutdowns at once: what each step of the
  boot has open (`BootOrder`); what is closed and has ended once any shutdown has
  reached a step (`ShutdownOrder`: no HTTP server after its first, no `io` and no
  request after `drainHttp`, no job after `drainJobs`, no add after
  `drainQueues`, and MongoDB only then); and that a dead process has nothing. Both
  are claimed only while no signal came during the boot, as are the two
  properties. `Books` counts the audit entries: a job is about one answered request
  with its id, and another request's job is another (`JobsNamed`); while the job is
  to be written again every entry has an excuse, a fault or a cut (`Excused`).
- `PaymentsProofs`: `TypeCorrect`, `OnePayment`, `StatusesAgree`,
  `CommitsCurrent`, `AuditCorrect`, `SettledForGood`, `Refinement`. The
  strengthening speaks of open transactions: each knows what is committed under
  it (`Knows`), and two that are past their first write are on different payments
  and shipments or one of them is stale (`Apart`).
- `SessionsProofs`: `TypeCorrect`, `TokensAreUnique`, `ReuseRefused`, `InactiveDrains`. Tokens are
  fresh: what a handler is about to store was issued to it and is stored
  nowhere else, and a token that was retired is stored nowhere.

  The module extends `ClientSession` too, and its second half is the browser's side: `BrowserTyped`,
  `OneRefresh`, `OutForGood` for any number of tabs and calls, and `JarCorrect`,
  `RefreshIsSilent` for one tab. `Kinds` sorts the steps by what they do to the pair of
  calls and refresh: one call moves, the refresh moves, a call joins the queue, a
  call sets out to refresh, a refresh ends and lets all go. On it `Paired` (the
  flag, the refreshing call and the request go together) and `Known` (no token was
  not handed out) are inductive; `StaysOut` says of every refresh after a
  logout that it can only come back refused. The two properties of one tab need
  `OneTab`: until an answer is lost or the session ended elsewhere, the refresh in
  flight carries the token of the jar, and a call that a refusal could throw out has a
  retry left or a fresh access token. They are about one tab because two refute
  them: run `client_tabs` shows it of `SilentRenewal`, and the
  late answer that throws a tab out there is what puts an old token into the jar.
- `IdempotencyProofs`: `TypeCorrect`, `OneAtATime`, `OneAnswer`,
  `AnswersAreTrue`, `SuccessStays`. A running request and a pending write each own the record of
  their name, which says `processing`; a completed record and the answers under
  its name agree on the run.
- `AnalyticsCacheProofs`: `TypeCorrect`, `StaleOnlyAcross`. While no mutation is
  under way, a dashboard that was not built across the end of one has read, of
  each collection it has read, the present version.
- `ShipmentRoomsProofs`: `TypeCorrect`, `MembersCorrect`, `Subscribed`, `StaleCorrect`.
  `Informed` says that a granted join, a membership, a response and a shown row
  each imply an entitled user, which holds because an assignment is never taken
  back once the shipment has moved (`UnassignedAtFirst`). `Subscribing` says that, while
  nothing has failed, a page that wants the room is a member or has a join that
  no later leave follows; `ClosedIsBlank` that a page that is not mounted shows and
  awaits nothing. `StaleCorrect` needs where the news is: the present
  version is the last emitted or still owed (`Announced`), nothing shown or on its way is newer
  than the document (`Bounded`), and for a page that missed nothing the last event on
  its way is the last emitted, or it knows at least that (`UpToDate`).
- `FormsProofs`: `TypeCorrect`, `CsrfCorrect`, `MadeCorrect`, `PendingCorrect`. That a retried call is refused again
  only for a change of the cookie is not inductive: `Justified` says where the
  call may be in between. It waits with a token that is not another's unless the
  cookie changed since, and it was sent with unequal tokens only then; `InTurn`
  ties the answer to the call that is sent, and the retry to a call that began.
  The other two follow a submission through its calls (`Kinds`: it begins, is served,
  is served late, goes on; or some are cut off, by a fetch that fails or a reload). `AlwaysCounted` compares what the server made with
  the submissions that were told of it or may have caused it (`Told`, `MayHave`), and
  says that the submissions begun are finitely many, which the cardinalities need.
  `PaymentInv` keeps, for a pending payment, a submission of the pay form that is
  not through, and the state each step of its chain rests on (`Holds`, `Knows`).

The type invariants of the modules with a `Proofs` module, and
`DriverSetByAssignment`, `CommitsAreCurrent`, `SettledIsFinal`, `OneOwner`,
`AuditTellsTheOutcome` and `ReplaysAreTrue`, are proved and have no run of their
own; only the run of `ProcessLife` checks a type invariant. Checked by TLC only: liveness under fairness
(`EventsDelivered`, `ReservationEnds`, `FreshAtLast`, `CallsSettle`,
`ShutdownEnds`, `QueuedIsWritten`, `SubmissionsEnd`), which is outside the
prover's reach. Every invariant and every action property of the passing runs is
proved for all values of the constants that the assumptions admit; two of them,
as said above, for one tab.

## 6. Not modelled

- Rate limiters: express-rate-limit counts, in Redis, and the repository only
  chooses windows and keys.
- Metrics, tracing and logging observe the system and change nothing in it.
- Read-only listings, with their filters and pages: no state, but for one hazard
  on the client, where two answers to two filters are shown in the order they come.
- Rendering and layout; the notification bell is a list of toasts.
- Deployment files, load tests and one-off scripts.
- Of the HTTP shell, what its middlewares decide is in the guards of the handlers;
  the rest is wiring and formatting. Of the browser session, registration, which brings
  a second account into the jar.
- The sweep's limit of 100 records, and jobs whose attempts are more than a run's.

## 7. Plan

The order is by importance: the documents first, then what leaves them, then
who may act, then the client and the process.

1. *Done*: lifecycle with its contract, outbox, payments with their contract,
   sessions, idempotency, analytics cache, live updates, browser session, forms
   and CSRF, process life cycle and audit trail; proofs of the safety properties
   of all of them.
2. Composition of lifecycle and outbox (every transition reaches the room), and
   of forms and idempotency (a retried call carries its key, a new click a new one).
3. The admin's list with its filters; registration.
4. The sweep's limit of 100.
5. Proofs: with the composition of 2, the invariants that join its parts; the two
   properties of one tab for any number of tabs in which only one refreshes.
