------------------------------- MODULE Forms -------------------------------
(***************************************************************************)
(* The forms of the client, from the click to what the page then says: the *)
(* guard of the button, the CSRF token its tab fetches once and keeps, the *)
(* calls the handler makes one after the other, the request that may be    *)
(* refused, lost or served after the page gave it up, and the answer,      *)
(* which may find the page left.  Three tabs: a shipper's, a driver's and  *)
(* an admin's.  The session is taken as live (see ClientSession), and a    *)
(* shipment's events as in ShipmentRooms.                                  *)
(***************************************************************************)
EXTENDS Naturals, Sequences, FiniteSets

CONSTANTS Clicks,       \* submissions; each is made at most once
          Nobody,       \* no submission
          MaxLost,      \* bound on lost requests and answers, timeouts, failed handlers and fetches
          MaxChanges    \* bound on the changes of a CSRF cookie behind its tab's back

ASSUME FormsAssumption == Nobody \notin Clicks /\ MaxLost \in Nat /\ MaxChanges \in Nat

VARIABLES
  token,     \* tab -> csrfToken: none, equal to the cookie, or another
  fetching,  \* tabs whose csrfPromise is pending
  page,      \* form -> the submission its page waits for or has succeeded with
  seen,      \* form of Shown -> its subject as the page shows it
  form,      \* submission -> form
  want,      \* submission -> the value it asks for
  step,      \* submission -> which of its calls it is at
  phase,     \* submission -> where that call is
  retried,   \* submissions whose call has had its _csrfRetry
  valid,     \* submissions whose request carries equal tokens
  reply,     \* submission -> the answer on its way
  real,      \* subject -> its value in the database
  made,      \* shipments created
  late,      \* submissions given up or gone whose request may still be served
  upset,     \* submissions whose tab's cookie has changed since their retry
  lost, changes

tokens == <<token, fetching>>
pages == <<page, seen>>
calls == <<form, want, step, phase, retried, valid, reply>>
server == <<real, made>>
bounds == <<upset, lost, changes>>
vars == <<tokens, pages, calls, server, late, bounds>>

Tabs == {"shipper", "driver", "admin"}
FormNames == {"create", "pay", "cancel", "assign", "progress", "toggle"}
Shown == {"pay", "cancel", "progress", "toggle"}   \* what they offer depends on the subject
TabOf(f) == IF f \in {"create", "pay", "cancel"} THEN "shipper"
            ELSE IF f = "progress" THEN "driver" ELSE "admin"

(* MUTANT: the payment is begun, and its confirmation forgotten.           *)
ChainBegun(f) == IF f = "pay" THEN <<"initiate", "lookup">> ELSE <<f>>

(* The calls a handler makes, one after the other.                         *)
Chain(f) == IF f = "pay" THEN <<"initiate", "lookup", "confirm">> ELSE <<f>>

Subject(f) == CASE f = "pay" -> "payment" [] f = "toggle" -> "account" [] OTHER -> "shipment"
Subjects == {"payment", "account", "shipment"}
Statuses == {"pending", "assigned", "picked_up", "in_transit", "delivered", "cancelled"}
STATUS_PROGRESSION ==
  [s \in {"assigned", "picked_up", "in_transit"} |->
     CASE s = "assigned" -> "picked_up" [] s = "picked_up" -> "in_transit"
       [] OTHER -> "delivered"]
Values == Statuses \cup {"none", "paid", "active", "inactive"}

Settled == {"success", "refused", "failed", "csrf", "unanswered", "gone"}

TypeOK ==
  /\ token \in [Tabs -> {"none", "equal", "other"}] /\ fetching \subseteq Tabs
  /\ page \in [FormNames -> Clicks \cup {Nobody}]
  /\ seen \in [Shown -> Values]
  /\ form \in [Clicks -> FormNames] /\ want \in [Clicks -> Values]
  /\ step \in [Clicks -> 1..3]
  /\ phase \in [Clicks -> {"none", "token", "sent"} \cup Settled]
  /\ retried \subseteq Clicks /\ valid \subseteq Clicks
  /\ reply \in [Clicks -> {"none", "ok", "refused", "failed", "csrf"}]
  /\ real \in [Subjects -> Values] /\ made \in Nat
  /\ late \subseteq Clicks
  /\ upset \subseteq Clicks
  /\ lost \in 0..MaxLost /\ changes \in 0..MaxChanges

Init ==
  /\ token = [t \in Tabs |-> "none"] /\ fetching = {}
  /\ page = [f \in FormNames |-> Nobody]
  /\ real = [s \in Subjects |-> CASE s = "shipment" -> "pending" [] s = "account" -> "active"
                                    [] OTHER -> "none"]
  /\ seen = [f \in Shown |-> real[Subject(f)]]
  /\ form = [c \in Clicks |-> "create"] /\ want = [c \in Clicks |-> "none"]
  /\ step = [c \in Clicks |-> 1] /\ phase = [c \in Clicks |-> "none"]
  /\ retried = {} /\ valid = {} /\ reply = [c \in Clicks |-> "none"]
  /\ made = 0 /\ late = {}
  /\ upset = {} /\ lost = 0 /\ changes = 0

Call(c) == Chain(form[c])[step[c]]
TabOfClick(c) == TabOf(form[c])

----------------------------------------------------------------------------
(* A click on the button of a form, which is disabled while the page waits *)
(* for a submission, and after the success of some.                        *)
Submits(c, f, v) ==
  /\ phase[c] = "none" /\ page[f] = Nobody
  /\ form' = [form EXCEPT ![c] = f]
  /\ want' = [want EXCEPT ![c] = v]
  /\ phase' = [phase EXCEPT ![c] = "token"]
  /\ page' = [page EXCEPT ![f] = c]
  /\ UNCHANGED <<tokens, seen, step, retried, valid, reply, server, late, bounds>>

(* handleSubmit of the filled form, handleInitiate, handleCancel,          *)
(* handleAssign, handleStatusUpdate, handleToggleStatus, each as far as    *)
(* what the page shows of its subject offers it.                           *)
MayPay == seen["pay"] = "none"
MayCancel == seen["cancel"] = "pending"
MayAdvance == seen["progress"] \in DOMAIN STATUS_PROGRESSION

Create(c) == Submits(c, "create", "none")
Pay(c) == MayPay /\ Submits(c, "pay", "paid")
Cancel(c) == MayCancel /\ Submits(c, "cancel", "cancelled")
Assign(c) == Submits(c, "assign", "assigned")
Advance(c) == MayAdvance /\ Submits(c, "progress", STATUS_PROGRESSION[seen["progress"]])
Toggle(c) == Submits(c, "toggle", IF seen["toggle"] = "active" THEN "inactive" ELSE "active")

(* A page is opened inside the application, by the user or by the timer    *)
(* after a success: it fetches anew, and what the handlers of the page it  *)
(* replaces have begun goes on without it.                                 *)
Opens(fresh, fetched) ==
  /\ page' = [f \in FormNames |-> IF f \in fresh THEN Nobody ELSE page[f]]
  /\ seen' = [f \in Shown |-> IF f \in fetched THEN real[Subject(f)] ELSE seen[f]]
  /\ UNCHANGED <<tokens, calls, server, late, bounds>>

OpenCreate == Opens({"create"}, {})
OpenShipment == Opens({"pay", "cancel"}, {"pay", "cancel"})
OpenAssign == Opens({"assign"}, {})
OpenDriver == Opens({"progress"}, {"progress"})
OpenUsers == Opens({"toggle"}, {"toggle"})

(* onRefresh, two seconds after a payment succeeded: the payment section   *)
(* starts anew, the page around it stays.                                  *)
RefreshShipment ==
  /\ page["pay"] # Nobody /\ phase[page["pay"]] = "success"
  /\ Opens({"pay"}, {"pay", "cancel"})

(* The browser reloads the page, or the tab is closed and opened again:    *)
(* with the script's state go the token, the fetch of it and every handler *)
(* between two of its calls, or before an answer.  What was sent may still *)
(* be served.  (The answer of a fetch begun before may come later, and set *)
(* the cookie: that is CookieChanges.)                                     *)
Reload(t) ==
  LET there == {f \in FormNames : TabOf(f) = t}
      gone == {c \in Clicks : TabOfClick(c) = t /\ phase[c] \in {"token", "sent"}}
      unserved == {c \in gone : phase[c] = "sent" /\ reply[c] = "none"}
  IN /\ token' = [token EXCEPT ![t] = "none"]
     /\ fetching' = fetching \ {t}
     /\ page' = [f \in FormNames |-> IF f \in there THEN Nobody ELSE page[f]]
     /\ seen' = [f \in Shown |-> IF f \in there THEN real[Subject(f)] ELSE seen[f]]
     /\ phase' = [c \in Clicks |-> IF c \in gone THEN "gone" ELSE phase[c]]
     /\ reply' = [c \in Clicks |-> IF c \in gone THEN "none" ELSE reply[c]]
     /\ \E arrived \in SUBSET unserved : late' = late \cup arrived
     /\ UNCHANGED <<form, want, step, retried, valid, server, bounds>>

(* statusUpdated or driverAssigned, on the pages that follow the shipment. *)
Live(f) ==
  /\ f \in {"cancel", "progress"}
  /\ real["shipment"] \notin {"pending", "cancelled"}
  /\ seen' = [seen EXCEPT ![f] = real["shipment"]]
  /\ UNCHANGED <<tokens, page, calls, server, late, bounds>>

----------------------------------------------------------------------------
(* The request interceptor: ensureCsrfToken                                *)
Send(c) ==
  /\ phase[c] = "token"
  /\ Call(c) = "lookup" \/ token[TabOfClick(c)] # "none"
  /\ phase' = [phase EXCEPT ![c] = "sent"]
  /\ valid' = IF Call(c) = "lookup" \/ token[TabOfClick(c)] = "equal"
              THEN valid \cup {c} ELSE valid \ {c}
  /\ UNCHANGED <<tokens, pages, form, want, step, retried, reply, server, late, bounds>>

AskForToken(c) ==
  /\ phase[c] = "token" /\ Call(c) # "lookup"
  /\ token[TabOfClick(c)] = "none" /\ TabOfClick(c) \notin fetching
  /\ fetching' = fetching \cup {TabOfClick(c)}
  /\ UNCHANGED <<token, pages, calls, server, late, bounds>>

(* The answer of GET /api/auth/csrf sets the cookie and brings its token.  *)
TokenComes(t) ==
  /\ t \in fetching /\ fetching' = fetching \ {t}
  /\ token' = [token EXCEPT ![t] = "equal"]
  /\ UNCHANGED <<pages, calls, server, late, bounds>>

Loss == lost < MaxLost /\ lost' = lost + 1 /\ UNCHANGED <<upset, changes>>

(* The page says so, and lets the user try again.                          *)
GivesUp(gone, verdict) ==
  /\ phase' = [c \in Clicks |-> IF c \in gone THEN verdict ELSE phase[c]]
  /\ page' = [f \in FormNames |-> IF page[f] \in gone THEN Nobody ELSE page[f]]

(* The fetch fails, and every call that waits for it.                      *)
TokenFails(t) ==
  /\ t \in fetching /\ fetching' = fetching \ {t}
  /\ GivesUp({c \in Clicks : phase[c] = "token" /\ TabOfClick(c) = t /\ Call(c) # "lookup"},
             "unanswered")
  /\ Loss
  /\ UNCHANGED <<token, seen, form, want, step, retried, valid, reply, server, late>>

(* Another tab fetches a token, or the cookie lapses.                      *)
CookieChanges(t) ==
  /\ token[t] = "equal" /\ changes < MaxChanges
  /\ token' = [token EXCEPT ![t] = "other"]
  /\ changes' = changes + 1
  /\ upset' = upset \cup {c \in retried : TabOfClick(c) = t}
  /\ UNCHANGED <<fetching, pages, calls, server, late, lost>>

----------------------------------------------------------------------------
(* The server: what a call asks for, and whether it may have it.           *)
Allowed(c) ==
  LET shipment == real["shipment"] payment == real["payment"]
  IN CASE Call(c) \in {"assign", "cancel"} -> shipment = "pending"
       [] Call(c) = "progress" -> /\ shipment \in DOMAIN STATUS_PROGRESSION
                                  /\ STATUS_PROGRESSION[shipment] = want[c]
       [] Call(c) = "initiate" -> payment = "none"
       [] Call(c) = "lookup" -> payment # "none"
       [] Call(c) = "confirm" -> payment = "pending"
       [] Call(c) = "toggle" -> real["account"] # want[c]
       [] OTHER -> TRUE

Effect(c) ==
  IF ~Allowed(c) \/ Call(c) = "lookup" THEN UNCHANGED server
  ELSE IF Call(c) = "create" THEN made' = made + 1 /\ UNCHANGED real
  ELSE /\ real' = [real EXCEPT ![Subject(form[c])] =
                     IF Call(c) = "initiate" THEN "pending" ELSE want[c]]
       /\ UNCHANGED made

(* MUTANT: the token is compared after the work is done.                   *)
ServeThenCompare(c) ==
  /\ phase[c] = "sent" /\ reply[c] = "none"
  /\ Effect(c)
  /\ reply' = [reply EXCEPT ![c] = IF c \notin valid THEN "csrf"
                                   ELSE IF Allowed(c) THEN "ok" ELSE "refused"]
  /\ UNCHANGED <<tokens, pages, form, want, step, phase, retried, valid, late, bounds>>

(* csrfProtection, and then the controller.                                *)
Serve(c) ==
  /\ phase[c] = "sent" /\ reply[c] = "none"
  /\ IF c \in valid
     THEN Effect(c) /\ reply' = [reply EXCEPT ![c] = IF Allowed(c) THEN "ok" ELSE "refused"]
     ELSE UNCHANGED server /\ reply' = [reply EXCEPT ![c] = "csrf"]
  /\ UNCHANGED <<tokens, pages, form, want, step, phase, retried, valid, late, bounds>>

(* A step of the controller throws, before its write or after it: a 500.   *)
ServeFails(c) ==
  /\ phase[c] = "sent" /\ reply[c] = "none" /\ c \in valid
  /\ Effect(c) \/ UNCHANGED server
  /\ reply' = [reply EXCEPT ![c] = "failed"]
  /\ Loss
  /\ UNCHANGED <<tokens, pages, form, want, step, phase, retried, valid, late>>

(* A request that the page has given up, or that its page is gone from.    *)
ServeLate(c) ==
  /\ c \in late /\ late' = late \ {c}
  /\ IF c \in valid THEN Effect(c) ELSE UNCHANGED server
  /\ UNCHANGED <<tokens, pages, calls, bounds>>

----------------------------------------------------------------------------
(* The response interceptor and the handler after its await                *)
Answered(c, what) == phase[c] = "sent" /\ reply[c] = what /\ reply' = [reply EXCEPT ![c] = "none"]

(* The next call of the chain.                                             *)
Continue(c) ==
  /\ Answered(c, "ok") /\ step[c] < Len(Chain(form[c]))
  /\ step' = [step EXCEPT ![c] = @ + 1]
  /\ phase' = [phase EXCEPT ![c] = "token"]
  /\ retried' = retried \ {c}
  /\ UNCHANGED <<tokens, pages, form, want, valid, server, late, bounds>>

Done(c) ==
  /\ Answered(c, "ok") /\ step[c] = Len(Chain(form[c]))
  /\ phase' = [phase EXCEPT ![c] = "success"]
  /\ UNCHANGED <<tokens, form, want, step, retried, valid, server, late, bounds>>

(* The page says so, and its form stays shut until it is opened anew.      *)
SucceedShut(c) == Done(c) /\ form[c] \in {"create", "pay", "assign"} /\ UNCHANGED pages

(* The page shows the answered document, if it is still the same page.     *)
SucceedShown(c) ==
  /\ Done(c) /\ form[c] \in {"cancel", "progress", "toggle"}
  /\ IF page[form[c]] = c
     THEN /\ page' = [page EXCEPT ![form[c]] = Nobody]
          /\ seen' = [seen EXCEPT ![form[c]] = want[c]]
     ELSE UNCHANGED pages

Refused(c) ==
  /\ \E what \in {"refused", "failed"} : Answered(c, what) /\ GivesUp({c}, what)
  /\ UNCHANGED <<tokens, seen, form, want, step, retried, valid, server, late, bounds>>

(* MUTANT: the token that was refused is kept.                             *)
RetryWithSame(c) ==
  /\ Answered(c, "csrf") /\ c \notin retried
  /\ retried' = retried \cup {c}
  /\ phase' = [phase EXCEPT ![c] = "token"]
  /\ upset' = upset \ {c}
  /\ UNCHANGED <<tokens, pages, form, want, step, valid, server, late, lost, changes>>

(* MUTANT: and nothing remembers that it was tried again.                  *)
RetryForEver(c) ==
  /\ Answered(c, "csrf")
  /\ phase' = [phase EXCEPT ![c] = "token"]
  /\ UNCHANGED <<tokens, pages, form, want, step, retried, valid, server, late, bounds>>

(* A 403 for CSRF: the token is dropped, and the call tried once more.     *)
Retry(c) ==
  /\ Answered(c, "csrf") /\ c \notin retried
  /\ token' = [token EXCEPT ![TabOfClick(c)] = "none"]
  /\ retried' = retried \cup {c}
  /\ phase' = [phase EXCEPT ![c] = "token"]
  /\ upset' = upset \ {c}
  /\ UNCHANGED <<fetching, pages, form, want, step, valid, server, late, lost, changes>>

RefusedAgain(c) ==
  /\ Answered(c, "csrf") /\ c \in retried
  /\ GivesUp({c}, "csrf")
  /\ UNCHANGED <<tokens, seen, form, want, step, retried, valid, server, late, bounds>>

(* No answer within ten seconds, or none at all.  The request may be lost, *)
(* or its answer; or it is served later.                                   *)
Unanswered(c) ==
  /\ phase[c] = "sent" /\ Loss
  /\ reply' = [reply EXCEPT ![c] = "none"]
  /\ GivesUp({c}, "unanswered")
  /\ late' \in {late} \cup {late \cup {x \in {c} : reply[c] = "none"}}
  /\ UNCHANGED <<tokens, seen, form, want, step, retried, valid, server>>

Proceeds(c) ==
  \/ Send(c) \/ AskForToken(c) \/ Serve(c)
  \/ Continue(c) \/ SucceedShut(c) \/ SucceedShown(c) \/ Refused(c) \/ Retry(c) \/ RefusedAgain(c)

----------------------------------------------------------------------------
Next ==
  \/ \E c \in Clicks :
       \/ Create(c) \/ Pay(c) \/ Cancel(c) \/ Assign(c) \/ Advance(c) \/ Toggle(c)
       \/ Proceeds(c) \/ ServeFails(c) \/ ServeLate(c) \/ Unanswered(c)
  \/ OpenCreate \/ OpenShipment \/ OpenAssign \/ OpenDriver \/ OpenUsers \/ RefreshShipment
  \/ \E f \in Shown : Live(f)
  \/ \E t \in Tabs : TokenComes(t) \/ TokenFails(t) \/ CookieChanges(t) \/ Reload(t)

Spec == Init /\ [][Next]_vars

(* Interceptors, handlers and the server proceed, and fetches are answered *)
(* or fail.  Nobody has to click, or to open or reload a page.             *)
FairSpec ==
  /\ Spec
  /\ \A c \in Clicks : WF_vars(Proceeds(c))
  /\ \A t \in Tabs : WF_vars(TokenComes(t))

----------------------------------------------------------------------------
(* Properties                                                              *)

(* The one retry is enough: a page says that CSRF validation failed only   *)
(* if the cookie changed once more after the retry, whatever other calls   *)
(* of the tab did with the token meanwhile.                                *)
CsrfRetrySuffices == \A c \in Clicks : phase[c] = "csrf" => c \in upset

Of(f, verdicts) == {c \in Clicks : form[c] = f /\ phase[c] \in verdicts}

(* No shipment is made behind the shipper's back: there are as many as     *)
(* pages said, but for the submissions still going and those that failed,  *)
(* got no answer or were cut off by a reload of their page.                *)
MadeAsTold ==
  /\ made >= Cardinality(Of("create", {"success"}))
  /\ made <= Cardinality(Of("create", {"success", "failed", "unanswered", "gone", "sent"}))

(* A payment is left pending only if a call of a chain that pays was lost, *)
(* failed or was twice refused for its token, or if its page was reloaded  *)
(* or closed before the chain came to its end.                             *)
PendingOnlyByFailure ==
  real["payment"] = "pending" =>
    Of("pay", {"token", "sent", "failed", "unanswered", "gone", "csrf"}) # {}

(* Every submission comes to an end, though nobody reloads its page: no    *)
(* button stays busy.                                                      *)
SubmissionsEnd == \A c \in Clicks : phase[c] # "none" ~> phase[c] \in Settled
=============================================================================
