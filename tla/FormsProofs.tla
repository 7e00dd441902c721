---------------------------- MODULE FormsProofs ----------------------------
(***************************************************************************)
(* Proofs about Forms, for any number of submissions, losses and changes   *)
(* of the cookie: its types, that the one retry after a refused CSRF token *)
(* is enough, that no shipment is made behind the shipper's back, and that *)
(* only a failure or a reload of the page leaves a payment pending.        *)
(***************************************************************************)
EXTENDS Forms, FiniteSetTheorems, TLAPS

(* A call is being answered only while it is sent, and a submission has    *)
(* its retry only once it has begun.                                       *)
InTurn ==
  \A c \in Clicks : /\ reply[c] # "none" => phase[c] = "sent"
                    /\ phase[c] = "none" => c \notin retried

(* Why a retried call is refused again only for a change of the cookie: at *)
(* its retry the token was dropped, so it waits for one fetched since, and *)
(* what it then sends was equal to the cookie unless that changed.         *)
Justified ==
  \A c \in Clicks :
    /\ c \in retried /\ phase[c] = "token" /\ token[TabOfClick(c)] = "other" => c \in upset
    /\ c \in retried /\ phase[c] = "sent" /\ c \notin valid => c \in upset
    /\ reply[c] = "csrf" => c \notin valid
    /\ phase[c] = "csrf" => c \in upset

Inv == TypeOK /\ InTurn /\ Justified

(* The tables of the forms.                                                *)
LEMMA FormTables ==
  \A f \in FormNames : Len(Chain(f)) \in 1..3 /\ Subject(f) \in Subjects
  BY DEF FormNames, Chain, Subject, Subjects

(* What the driver's page offers is a status.                              *)
LEMMA NextStatus ==
  \A s \in DOMAIN STATUS_PROGRESSION : STATUS_PROGRESSION[s] \in Values
  BY DEF STATUS_PROGRESSION, Values, Statuses

(* The controllers leave documents behind.                                 *)
LEMMA Effects ==
  ASSUME TypeOK, NEW c \in Clicks, Effect(c)
  PROVE  real' \in [Subjects -> Values] /\ made' \in Nat
<1>1. CASE ~Allowed(c) \/ Call(c) = "lookup"
  BY <1>1 DEF TypeOK, Effect, server
<1>2. CASE Allowed(c) /\ Call(c) = "create"
  BY <1>2 DEF TypeOK, Effect
<1>3. CASE Allowed(c) /\ Call(c) \notin {"lookup", "create"}
  <2>1. Subject(form[c]) \in Subjects
    BY FormTables DEF TypeOK
  <2>2. "pending" \in Values /\ want[c] \in Values
    BY DEF TypeOK, Values, Statuses
  <2>3. PICK v \in Values : real' = [real EXCEPT ![Subject(form[c])] = v]
    BY <1>3, <2>2 DEF Effect
  <2>4. made' = made
    BY <1>3 DEF Effect
  <2>5. QED  BY <2>1, <2>3, <2>4 DEF TypeOK
<1>4. QED  BY <1>1, <1>2, <1>3

(* A submission begins: nothing is remembered of it yet.                   *)
LEMMA SubmitsInv ==
  ASSUME Inv, NEW c \in Clicks, NEW f \in FormNames, NEW v \in Values, Submits(c, f, v)
  PROVE  Inv'
<1>1. TypeOK'
  BY DEF Inv, TypeOK, Submits, tokens, server, bounds
<1>2. \A d \in Clicks \ {c} : form'[d] = form[d] /\ phase'[d] = phase[d]
  BY DEF Inv, TypeOK, Submits
<1>3. /\ phase[c] = "none" /\ phase'[c] = "token"
      /\ UNCHANGED <<token, retried, valid, reply, upset>>
  BY DEF Inv, TypeOK, Submits, tokens, bounds
<1>4. InTurn'
  BY <1>2, <1>3 DEF Inv, InTurn
<1>5. Justified'
  BY <1>2, <1>3 DEF Inv, InTurn, Justified, TabOfClick
<1>6. QED  BY <1>1, <1>4, <1>5 DEF Inv

(* So do the six handlers.                                                 *)
LEMMA HandlersInv ==
  ASSUME Inv, NEW c \in Clicks,
         \/ Create(c) \/ Pay(c) \/ Cancel(c) \/ Assign(c) \/ Advance(c) \/ Toggle(c)
  PROVE  Inv'
<1> USE DEF Values, Statuses, FormNames
<1>1. CASE Create(c)   BY <1>1, SubmitsInv DEF Create
<1>2. CASE Pay(c)      BY <1>2, SubmitsInv DEF Pay
<1>3. CASE Cancel(c)   BY <1>3, SubmitsInv DEF Cancel
<1>4. CASE Assign(c)   BY <1>4, SubmitsInv DEF Assign
<1>5. CASE Advance(c)  BY <1>5, SubmitsInv, NextStatus DEF Advance, MayAdvance
<1>6. CASE Toggle(c)   BY <1>6, SubmitsInv DEF Toggle
<1>7. QED  BY <1>1, <1>2, <1>3, <1>4, <1>5, <1>6

(* Opening a page and hearing of an event change what is shown only.       *)
LEMMA PagesInv ==
  ASSUME Inv, UNCHANGED <<tokens, calls, server, late, bounds>>,
         page' \in [FormNames -> Clicks \cup {Nobody}], seen' \in [Shown -> Values]
  PROVE  Inv'
<1>1. TypeOK'
  BY DEF Inv, TypeOK, tokens, calls, server, bounds
<1>2. InTurn' /\ Justified'
  BY DEF Inv, InTurn, Justified, TabOfClick, tokens, calls, bounds
<1>3. QED  BY <1>1, <1>2 DEF Inv

(* A page is opened with what the database holds.                          *)
LEMMA OpensInv ==
  ASSUME Inv, NEW fresh, NEW fetched, Opens(fresh, fetched)
  PROVE  Inv'
<1>1. \A f \in Shown : Subject(f) \in Subjects /\ real[Subject(f)] \in Values
  BY FormTables DEF Inv, TypeOK, Shown, FormNames
<1>2. page' \in [FormNames -> Clicks \cup {Nobody}] /\ seen' \in [Shown -> Values]
  BY <1>1 DEF Inv, TypeOK, Opens
<1>3. QED  BY <1>2, PagesInv DEF Opens

(* An event shows a status.                                                *)
LEMMA LiveInv ==
  ASSUME Inv, NEW f \in Shown, Live(f)
  PROVE  Inv'
<1>1. real["shipment"] \in Values
  BY DEF Inv, TypeOK, Subjects
<1>2. page' \in [FormNames -> Clicks \cup {Nobody}] /\ seen' \in [Shown -> Values]
  BY <1>1 DEF Inv, TypeOK, Live
<1>3. QED  BY <1>2, PagesInv DEF Live, calls

(* What is sent carries the token of the tab, which a retried call finds   *)
(* equal to the cookie, or changed since.                                  *)
LEMMA SendInv ==
  ASSUME Inv, NEW c \in Clicks, Send(c)
  PROVE  Inv'
<1>1. TypeOK'
  BY DEF Inv, TypeOK, Send, tokens, pages, server, bounds
<1>2. /\ phase[c] = "token" /\ phase'[c] = "sent"
      /\ \A d \in Clicks \ {c} : phase'[d] = phase[d] /\ (d \in valid' <=> d \in valid)
      /\ UNCHANGED <<token, form, retried, reply, upset>>
  BY DEF Inv, TypeOK, Send, tokens, bounds
<1>3. c \notin valid' => token[TabOfClick(c)] = "other"
  <2>1. TabOfClick(c) \in Tabs
    BY DEF Inv, TypeOK, TabOfClick, TabOf, Tabs
  <2>2. token[TabOfClick(c)] \in {"none", "equal", "other"}
    BY <2>1 DEF Inv, TypeOK
  <2>3. QED  BY <2>2 DEF Send
<1>4. InTurn'
  BY <1>2 DEF Inv, InTurn
<1>5. reply[c] = "none"
  BY <1>2 DEF Inv, InTurn
<1>6. Justified'
  BY <1>2, <1>3, <1>5 DEF Inv, Justified, TabOfClick
<1>7. QED  BY <1>1, <1>4, <1>6 DEF Inv

(* The fetch of a token.                                                   *)
LEMMA FetchInv ==
  ASSUME Inv, (\E c \in Clicks : AskForToken(c)) \/ (\E t \in Tabs : TokenComes(t))
  PROVE  Inv'
<1>1. CASE \E c \in Clicks : AskForToken(c)
  <2>1. PICK c \in Clicks : AskForToken(c)
    BY <1>1
  <2>2. TabOfClick(c) \in Tabs
    BY DEF Inv, TypeOK, TabOfClick, TabOf, Tabs
  <2>3. TypeOK'
    BY <2>1, <2>2 DEF Inv, TypeOK, AskForToken, pages, calls, server, bounds
  <2>4. InTurn' /\ Justified'
    BY <2>1 DEF Inv, InTurn, Justified, TabOfClick, AskForToken, calls, bounds
  <2>5. QED  BY <2>3, <2>4 DEF Inv
<1>2. CASE \E t \in Tabs : TokenComes(t)
  <2>1. PICK t \in Tabs : TokenComes(t)
    BY <1>2
  <2>2. TypeOK'
    BY <2>1 DEF Inv, TypeOK, TokenComes, pages, calls, server, bounds
  <2>3. /\ \A u \in Tabs : token'[u] = "other" => token[u] = "other"
        /\ \A c \in Clicks : TabOfClick(c) \in Tabs /\ TabOfClick(c)' = TabOfClick(c)
    BY <2>1 DEF Inv, TypeOK, TokenComes, calls, TabOfClick, TabOf, Tabs
  <2>4. InTurn' /\ Justified'
    BY <2>1, <2>3 DEF Inv, InTurn, Justified, TokenComes, calls, bounds
  <2>5. QED  BY <2>2, <2>4 DEF Inv
<1>3. QED  BY <1>1, <1>2

(* A page that gives submissions up frees their buttons.                   *)
LEMMA GivesUpTypes ==
  ASSUME TypeOK, NEW gone \in SUBSET Clicks, NEW verdict \in Settled, GivesUp(gone, verdict)
  PROVE  /\ phase' \in [Clicks -> {"none", "token", "sent"} \cup Settled]
         /\ page' \in [FormNames -> Clicks \cup {Nobody}]
         /\ \A c \in Clicks : phase'[c] = IF c \in gone THEN verdict ELSE phase[c]
  BY DEF TypeOK, GivesUp

(* A fetch that fails ends the calls that wait for it.                     *)
LEMMA TokenFailsInv ==
  ASSUME Inv, NEW t \in Tabs, TokenFails(t)
  PROVE  Inv'
<1> DEFINE gone == {c \in Clicks : phase[c] = "token" /\ TabOfClick(c) = t /\ Call(c) # "lookup"}
<1>1. /\ phase' \in [Clicks -> {"none", "token", "sent"} \cup Settled]
      /\ page' \in [FormNames -> Clicks \cup {Nobody}]
      /\ \A c \in Clicks : phase'[c] = IF c \in gone THEN "unanswered" ELSE phase[c]
  <2>1. TypeOK /\ "unanswered" \in Settled /\ GivesUp(gone, "unanswered")
    BY DEF Inv, TokenFails, Settled
  <2>2. QED  BY <2>1, GivesUpTypes
<1>2. TypeOK'
  BY <1>1, FormsAssumption DEF Inv, TypeOK, TokenFails, Loss, server
<1>3. \A c \in Clicks : phase[c] = "token" \/ phase'[c] = phase[c]
  BY <1>1
<1>4. \A c \in Clicks : phase'[c] = phase[c] \/ phase'[c] = "unanswered"
  BY <1>1
<1>5. UNCHANGED <<token, form, retried, valid, reply, upset>>
  BY DEF TokenFails, Loss
<1>6. InTurn' /\ Justified'
  BY <1>3, <1>4, <1>5 DEF Inv, InTurn, Justified, TabOfClick
<1>7. QED  BY <1>2, <1>6 DEF Inv

(* A change of the cookie is held against the retried calls of its tab.    *)
LEMMA CookieChangesInv ==
  ASSUME Inv, NEW t \in Tabs, CookieChanges(t)
  PROVE  Inv'
<1>1. TypeOK'
  BY FormsAssumption DEF Inv, TypeOK, CookieChanges, pages, calls, server
<1>2. /\ \A u \in Tabs : token'[u] = "other" => token[u] = "other" \/ u = t
      /\ \A c \in Clicks : TabOfClick(c) \in Tabs /\ TabOfClick(c)' = TabOfClick(c)
      /\ \A c \in Clicks : c \in upset \/ (c \in retried /\ TabOfClick(c) = t) => c \in upset'
  BY DEF Inv, TypeOK, CookieChanges, calls, TabOfClick, TabOf, Tabs
<1>3. InTurn' /\ Justified'
  BY <1>2 DEF Inv, InTurn, Justified, CookieChanges, calls
<1>4. QED  BY <1>1, <1>3 DEF Inv

(* The server answers, and tells a refused token from anything else.       *)
LEMMA AnswerInv ==
  ASSUME Inv, NEW c \in Clicks, Serve(c) \/ ServeFails(c)
  PROVE  Inv'
<1>1. real' \in [Subjects -> Values] /\ made' \in Nat
  BY Effects DEF Inv, TypeOK, Serve, ServeFails, server
<1>2. PICK what \in {"ok", "refused", "failed", "csrf"} :
        /\ reply' = [reply EXCEPT ![c] = what]
        /\ what = "csrf" => c \notin valid
  BY DEF Serve, ServeFails
<1>3. lost' \in 0..MaxLost /\ UNCHANGED <<upset, changes>>
  BY FormsAssumption DEF Inv, TypeOK, Serve, ServeFails, Loss, bounds
<1>4. /\ phase[c] = "sent"
      /\ UNCHANGED <<tokens, pages, form, want, step, phase, retried, valid, late>>
  BY DEF Serve, ServeFails
<1>5. TypeOK'
  BY <1>1, <1>2, <1>3, <1>4 DEF Inv, TypeOK, tokens, pages
<1>6. InTurn' /\ Justified'
  BY <1>2, <1>3, <1>4 DEF Inv, TypeOK, InTurn, Justified, TabOfClick, tokens
<1>7. QED  BY <1>5, <1>6 DEF Inv

(* A request nobody waits for.                                             *)
LEMMA ServeLateInv ==
  ASSUME Inv, NEW c \in Clicks, ServeLate(c)
  PROVE  Inv'
<1>1. real' \in [Subjects -> Values] /\ made' \in Nat
  BY Effects DEF Inv, TypeOK, ServeLate, server
<1>2. TypeOK'
  BY <1>1 DEF Inv, TypeOK, ServeLate, tokens, pages, calls, bounds
<1>3. InTurn' /\ Justified'
  BY DEF Inv, InTurn, Justified, TabOfClick, ServeLate, tokens, calls, bounds
<1>4. QED  BY <1>2, <1>3 DEF Inv

(* The next call of a chain has its own retry.                             *)
LEMMA ContinueInv ==
  ASSUME Inv, NEW c \in Clicks, Continue(c)
  PROVE  Inv'
<1>1. step[c] + 1 \in 1..3
  <2>1. step[c] \in 1..3 /\ form[c] \in FormNames
    BY DEF Inv, TypeOK
  <2>2. Len(Chain(form[c])) \in 1..3
    BY <2>1, FormTables
  <2>3. step[c] < Len(Chain(form[c]))
    BY DEF Continue
  <2>4. \A m, n \in 1..3 : m < n => m + 1 \in 1..3
    OBVIOUS
  <2>5. QED  BY <2>1, <2>2, <2>3, <2>4
<1>2. TypeOK'
  BY <1>1 DEF Inv, TypeOK, Continue, Answered, tokens, pages, server, bounds
<1>3. /\ phase'[c] = "token" /\ c \notin retried' /\ reply'[c] = "none"
      /\ \A d \in Clicks \ {c} : /\ phase'[d] = phase[d] /\ reply'[d] = reply[d]
                                 /\ d \in retried' <=> d \in retried
      /\ UNCHANGED <<token, form, valid, upset>>
  BY DEF Inv, TypeOK, Continue, Answered, tokens, bounds
<1>4. InTurn' /\ Justified'
  BY <1>3 DEF Inv, InTurn, Justified, TabOfClick
<1>5. QED  BY <1>2, <1>4 DEF Inv

(* A submission that succeeded, whatever its page shows of it.             *)
LEMMA SucceedInv ==
  ASSUME Inv, NEW c \in Clicks, SucceedShut(c) \/ SucceedShown(c)
  PROVE  Inv'
<1>1. Done(c)
  BY DEF SucceedShut, SucceedShown
<1>2. page' \in [FormNames -> Clicks \cup {Nobody}] /\ seen' \in [Shown -> Values]
  BY DEF Inv, TypeOK, SucceedShut, SucceedShown, pages
<1>3. TypeOK'
  BY <1>1, <1>2 DEF Inv, TypeOK, Done, Answered, Settled, tokens, server, bounds
<1>4. /\ phase'[c] = "success" /\ reply'[c] = "none"
      /\ \A d \in Clicks \ {c} : phase'[d] = phase[d] /\ reply'[d] = reply[d]
      /\ UNCHANGED <<token, form, retried, valid, upset>>
  BY <1>1 DEF Inv, TypeOK, Done, Answered, tokens, bounds
<1>5. InTurn' /\ Justified'
  BY <1>4 DEF Inv, InTurn, Justified, TabOfClick
<1>6. QED  BY <1>3, <1>5 DEF Inv

(* A submission that ended otherwise.  Its token was refused twice only if *)
(* the cookie changed after the retry.                                     *)
LEMMA EndsInv ==
  ASSUME Inv, NEW c \in Clicks, Refused(c) \/ RefusedAgain(c) \/ Unanswered(c)
  PROVE  Inv'
<1>1. PICK verdict \in Settled :
        /\ GivesUp({c}, verdict) /\ reply' = [reply EXCEPT ![c] = "none"]
        /\ verdict = "csrf" => c \in upset
  <2>1. CASE Refused(c)
    BY <2>1 DEF Refused, Answered, Settled
  <2>2. CASE RefusedAgain(c)
    <3>1. c \in upset
      BY <2>2 DEF Inv, Justified, RefusedAgain, Answered
    <3>2. QED  BY <2>2, <3>1 DEF RefusedAgain, Answered, Settled
  <2>3. CASE Unanswered(c)
    BY <2>3 DEF Unanswered, Settled
  <2>4. QED  BY <2>1, <2>2, <2>3
<1>2. /\ phase' \in [Clicks -> {"none", "token", "sent"} \cup Settled]
      /\ page' \in [FormNames -> Clicks \cup {Nobody}]
      /\ \A d \in Clicks : phase'[d] = IF d \in {c} THEN verdict ELSE phase[d]
  BY <1>1, GivesUpTypes DEF Inv
<1>3. /\ lost' \in 0..MaxLost /\ late' \subseteq Clicks
      /\ UNCHANGED <<tokens, seen, form, want, step, retried, valid, server, upset, changes>>
  BY FormsAssumption DEF Inv, TypeOK, Refused, RefusedAgain, Unanswered, Loss, bounds
<1>4. TypeOK'
  BY <1>1, <1>2, <1>3 DEF Inv, TypeOK, tokens, server
<1>5. /\ phase'[c] = verdict /\ verdict \notin {"none", "token", "sent"}
      /\ \A d \in Clicks \ {c} : phase'[d] = phase[d] /\ reply'[d] = reply[d]
      /\ reply'[c] = "none" /\ token' = token
  BY <1>1, <1>2, <1>3 DEF Inv, TypeOK, Settled, tokens
<1>6. InTurn' /\ Justified'
  BY <1>1, <1>3, <1>5 DEF Inv, InTurn, Justified, TabOfClick
<1>7. QED  BY <1>4, <1>6 DEF Inv

(* The retry starts without a token, and with nothing to excuse it.        *)
LEMMA RetryInv ==
  ASSUME Inv, NEW c \in Clicks, Retry(c)
  PROVE  Inv'
<1>1. TypeOK'
  BY DEF Inv, TypeOK, Retry, Answered, pages, server
<1>2. /\ phase'[c] = "token" /\ reply'[c] = "none"
      /\ \A d \in Clicks \ {c} : /\ phase'[d] = phase[d] /\ reply'[d] = reply[d]
                                 /\ d \in retried' <=> d \in retried
                                 /\ d \in upset' <=> d \in upset
      /\ UNCHANGED <<form, valid>>
  BY DEF Inv, TypeOK, Retry, Answered
<1>3. /\ token'[TabOfClick(c)] = "none"
      /\ \A d \in Clicks : token'[TabOfClick(d)] = "other" => token[TabOfClick(d)] = "other"
  BY DEF Inv, TypeOK, Retry, TabOfClick, TabOf, Tabs
<1>4. InTurn' /\ Justified'
  BY <1>2, <1>3 DEF Inv, InTurn, Justified, TabOfClick
<1>5. QED  BY <1>1, <1>4 DEF Inv

(* A reload takes the token away, and its calls out of their turn.         *)
LEMMA ReloadInv ==
  ASSUME Inv, NEW t \in Tabs, Reload(t)
  PROVE  Inv'
<1> DEFINE gone == {c \in Clicks : TabOfClick(c) = t /\ phase[c] \in {"token", "sent"}}
<1>1. /\ token' = [token EXCEPT ![t] = "none"]
      /\ \A c \in Clicks : phase'[c] = IF c \in gone THEN "gone" ELSE phase[c]
      /\ \A c \in Clicks : reply'[c] = IF c \in gone THEN "none" ELSE reply[c]
      /\ UNCHANGED <<form, retried, valid, upset>>
  BY DEF Reload, bounds
<1>2. \A f \in Shown : Subject(f) \in Subjects /\ real[Subject(f)] \in Values
  BY FormTables DEF Inv, TypeOK, Shown, FormNames
<1>3. /\ page' \in [FormNames -> Clicks \cup {Nobody}] /\ seen' \in [Shown -> Values]
      /\ phase' \in [Clicks -> {"none", "token", "sent"} \cup Settled]
      /\ reply' \in [Clicks -> {"none", "ok", "refused", "failed", "csrf"}]
      /\ late' \subseteq Clicks
  BY <1>2 DEF Inv, TypeOK, Reload, Settled
<1>4. TypeOK'
  BY <1>3 DEF Inv, TypeOK, Reload, server, bounds
<1>5. InTurn'
  BY <1>1 DEF Inv, InTurn
<1>6. \A u \in Tabs : token'[u] = "other" => token[u] = "other"
  BY <1>1 DEF Inv, TypeOK
<1>7. \A c \in Clicks : TabOfClick(c) \in Tabs /\ TabOfClick(c)' = TabOfClick(c)
  BY <1>1 DEF Inv, TypeOK, TabOfClick, TabOf, Tabs
<1>8. Justified'
  BY <1>1, <1>6, <1>7 DEF Inv, Justified
<1>9. QED  BY <1>4, <1>5, <1>8 DEF Inv

(* The invariant holds before the first click.                             *)
LEMMA InitInv == Init => Inv
<1> SUFFICES ASSUME Init PROVE Inv
  OBVIOUS
<1>1. real \in [Subjects -> Values]
  BY DEF Init, Subjects, Values, Statuses
<1>2. seen \in [Shown -> Values]
  BY <1>1, FormTables DEF Init, Shown, FormNames
<1>3. TypeOK
  BY <1>1, <1>2, FormsAssumption DEF Init, TypeOK, Values, FormNames
<1>4. InTurn /\ Justified
  BY DEF Init, InTurn, Justified
<1>5. QED  BY <1>3, <1>4 DEF Inv

(* Every step keeps it.                                                    *)
LEMMA NextInv == Inv /\ [Next]_vars => Inv'
<1> SUFFICES ASSUME Inv, [Next]_vars PROVE Inv'
  OBVIOUS
<1>1. ASSUME NEW c \in Clicks,
             \/ Create(c) \/ Pay(c) \/ Cancel(c) \/ Assign(c) \/ Advance(c) \/ Toggle(c)
      PROVE  Inv'
  BY <1>1, HandlersInv
<1>2. ASSUME NEW c \in Clicks, Proceeds(c)
      PROVE  Inv'
  BY <1>2, SendInv, FetchInv, AnswerInv, ContinueInv, SucceedInv, EndsInv, RetryInv DEF Proceeds
<1>3. ASSUME NEW c \in Clicks, ServeFails(c) \/ ServeLate(c) \/ Unanswered(c)
      PROVE  Inv'
  BY <1>3, AnswerInv, ServeLateInv, EndsInv
<1>4. CASE \/ OpenCreate \/ OpenShipment \/ OpenAssign \/ OpenDriver \/ OpenUsers
           \/ RefreshShipment
  BY <1>4, OpensInv DEF OpenCreate, OpenShipment, OpenAssign, OpenDriver, OpenUsers, RefreshShipment
<1>5. ASSUME NEW f \in Shown, Live(f)
      PROVE  Inv'
  BY <1>5, LiveInv
<1>6. ASSUME NEW t \in Tabs, TokenComes(t) \/ TokenFails(t) \/ CookieChanges(t) \/ Reload(t)
      PROVE  Inv'
  BY <1>6, FetchInv, TokenFailsInv, CookieChangesInv, ReloadInv
<1>7. CASE UNCHANGED vars
  <2>1. page' = page /\ seen' = seen /\ UNCHANGED <<tokens, calls, server, late, bounds>>
    BY <1>7 DEF vars, pages
  <2>2. QED  BY <2>1, PagesInv DEF Inv, TypeOK
<1>8. QED  BY <1>1, <1>2, <1>3, <1>4, <1>5, <1>6, <1>7 DEF Next

----------------------------------------------------------------------------
(* What a step does to the submissions and to what is counted of them: the *)
(* five kinds of step the remaining invariants are proved from.            *)

Same(d) ==
  /\ form'[d] = form[d] /\ want'[d] = want[d] /\ step'[d] = step[d]
  /\ phase'[d] = phase[d] /\ reply'[d] = reply[d] /\ (d \in late' <=> d \in late)

OnlyOf(c) == \A d \in Clicks \ {c} : Same(d)

Books == <<made, real["payment"]>>

(* A page that has no verdict of its submission.                           *)
Unheard == {"unanswered", "gone"}

(* Submissions are cut off, some or none: they lose the token they wait    *)
(* for, or their page.  The server may still get what is not yet served.   *)
CutOff(c) ==
  /\ phase[c] \in {"token", "sent"} /\ phase'[c] \in Unheard /\ reply'[c] = "none"
  /\ c \in late' => c \in late \/ (phase[c] = "sent" /\ reply[c] = "none")

Quiet ==
  /\ UNCHANGED <<form, want, step, Books>>
  /\ \A c \in Clicks : Same(c) \/ CutOff(c)

Begins(c) ==
  /\ OnlyOf(c) /\ UNCHANGED <<step, reply, late, Books>>
  /\ phase[c] = "none" /\ phase'[c] = "token"
  /\ form'[c] \in FormNames /\ (form'[c] = "pay" => want'[c] = "paid")

(* The server answers a call.                                              *)
Served(c) ==
  /\ OnlyOf(c) /\ UNCHANGED <<form, want, step, phase, late>>
  /\ phase[c] = "sent" /\ reply[c] = "none"
  /\ \/ reply'[c] = "ok" /\ Allowed(c) /\ Effect(c)
     \/ reply'[c] = "refused" /\ ~Allowed(c) /\ UNCHANGED Books
     \/ reply'[c] = "failed" /\ (Effect(c) \/ UNCHANGED Books)
     \/ reply'[c] = "csrf" /\ UNCHANGED Books

ServedLate(c) ==
  /\ UNCHANGED <<form, want, step, phase, reply>>
  /\ c \in late /\ late' = late \ {c}
  /\ Effect(c) \/ UNCHANGED Books

(* A call is sent, or its page goes on after the await.                    *)
Goes(c) ==
  /\ OnlyOf(c) /\ UNCHANGED <<form, want, Books>> /\ reply'[c] = "none"
  /\ \/ /\ phase[c] = "token" /\ phase'[c] = "sent" /\ UNCHANGED <<step, late>>
     \/ /\ phase[c] = "sent" /\ reply[c] = "ok" /\ step[c] < Len(Chain(form[c]))
        /\ phase'[c] = "token" /\ step'[c] = step[c] + 1 /\ UNCHANGED late
     \/ /\ phase[c] = "sent" /\ reply[c] = "ok" /\ step[c] = Len(Chain(form[c]))
        /\ phase'[c] = "success" /\ UNCHANGED <<step, late>>
     \/ /\ phase[c] = "sent" /\ reply[c] \in {"refused", "failed"}
        /\ phase'[c] = reply[c] /\ UNCHANGED <<step, late>>
     \/ /\ phase[c] = "sent" /\ reply[c] = "csrf"
        /\ phase'[c] \in {"token", "csrf"} /\ UNCHANGED <<step, late>>
     \/ /\ phase[c] = "sent" /\ phase'[c] = "unanswered" /\ UNCHANGED step
        /\ \/ UNCHANGED late
           \/ reply[c] = "none" /\ late' = late \cup {c}

(* A click.                                                                *)
LEMMA SubmitsBegins ==
  ASSUME Inv, NEW c \in Clicks, NEW f \in FormNames, NEW v \in Values, Submits(c, f, v),
         f = "pay" => v = "paid"
  PROVE  Begins(c)
  BY DEF Inv, TypeOK, Submits, Begins, OnlyOf, Same, Books, server

(* Each handler of a form submits at most once, and what it submits is what*)
(* the form stands for.                                                    *)
LEMMA HandlersBegin ==
  ASSUME Inv, NEW c \in Clicks,
         \/ Create(c) \/ Pay(c) \/ Cancel(c) \/ Assign(c) \/ Advance(c) \/ Toggle(c)
  PROVE  Begins(c)
<1> USE DEF Values, Statuses, FormNames
<1>1. CASE Create(c)   BY <1>1, SubmitsBegins DEF Create
<1>2. CASE Pay(c)      BY <1>2, SubmitsBegins DEF Pay
<1>3. CASE Cancel(c)   BY <1>3, SubmitsBegins DEF Cancel
<1>4. CASE Assign(c)   BY <1>4, SubmitsBegins DEF Assign
<1>5. CASE Advance(c)  BY <1>5, SubmitsBegins, NextStatus DEF Advance, MayAdvance
<1>6. CASE Toggle(c)   BY <1>6, SubmitsBegins DEF Toggle
<1>7. QED  BY <1>1, <1>2, <1>3, <1>4, <1>5, <1>6

(* The answers of the server.                                              *)
LEMMA ServesServed ==
  ASSUME Inv, NEW c \in Clicks, Serve(c) \/ ServeFails(c)
  PROVE  Served(c)
<1>1. /\ phase[c] = "sent" /\ reply[c] = "none"
      /\ UNCHANGED <<form, want, step, phase, late>>
  BY DEF Serve, ServeFails
<1>2. PICK what \in {"ok", "refused", "failed", "csrf"} :
        /\ reply' = [reply EXCEPT ![c] = what]
        /\ \/ what = "ok" /\ Allowed(c) /\ Effect(c)
           \/ what = "refused" /\ ~Allowed(c) /\ UNCHANGED Books
           \/ what = "failed" /\ (Effect(c) \/ UNCHANGED Books)
           \/ what = "csrf" /\ UNCHANGED Books
  <2>1. CASE Serve(c) /\ c \in valid /\ Allowed(c)
    BY <2>1 DEF Serve
  <2>2. CASE Serve(c) /\ c \in valid /\ ~Allowed(c)
    BY <2>2 DEF Serve, Effect, server, Books
  <2>3. CASE Serve(c) /\ c \notin valid
    BY <2>3 DEF Serve, server, Books
  <2>4. CASE ServeFails(c)
    BY <2>4 DEF ServeFails, server, Books
  <2>5. QED  BY <2>1, <2>2, <2>3, <2>4
<1>3. reply'[c] = what /\ \A d \in Clicks \ {c} : reply'[d] = reply[d]
  BY <1>2 DEF Inv, TypeOK
<1>4. OnlyOf(c)
  BY <1>1, <1>3 DEF OnlyOf, Same
<1>5. QED  BY <1>1, <1>2, <1>3, <1>4 DEF Served

(* The steps of the page.                                                  *)
LEMMA PageGoes ==
  ASSUME Inv, NEW c \in Clicks,
         \/ Send(c) \/ Continue(c) \/ SucceedShut(c) \/ SucceedShown(c)
         \/ Refused(c) \/ Retry(c) \/ RefusedAgain(c) \/ Unanswered(c)
  PROVE  Goes(c)
<1> USE DEF Goes, OnlyOf, Same, Books, server
<1>1. CASE Send(c)
  <2>1. reply[c] = "none"
    BY <1>1 DEF Inv, InTurn, Send
  <2>2. QED  BY <1>1, <2>1 DEF Inv, TypeOK, Send
<1>2. CASE Continue(c)
  BY <1>2 DEF Inv, TypeOK, Continue, Answered
<1>3. CASE SucceedShut(c) \/ SucceedShown(c)
  <2>1. Done(c)
    BY <1>3 DEF SucceedShut, SucceedShown
  <2>2. QED  BY <2>1 DEF Inv, TypeOK, Done, Answered
<1>4. CASE Retry(c)
  BY <1>4 DEF Inv, TypeOK, Retry, Answered
<1>5. CASE Refused(c)
  BY <1>5 DEF Inv, TypeOK, Refused, Answered, GivesUp
<1>6. CASE RefusedAgain(c)
  BY <1>6 DEF Inv, TypeOK, RefusedAgain, Answered, GivesUp
<1>7. CASE Unanswered(c)
  <2>1. late' = late \/ (reply[c] = "none" /\ late' = late \cup {c})
    BY <1>7 DEF Unanswered
  <2>2. QED  BY <1>7, <2>1 DEF Inv, TypeOK, Unanswered, GivesUp
<1>8. QED  BY <1>1, <1>2, <1>3, <1>4, <1>5, <1>6, <1>7

(* Every step is of one of the five kinds.                                 *)
LEMMA Kinds ==
  ASSUME Inv, [Next]_vars
  PROVE  Quiet \/ \E c \in Clicks : Begins(c) \/ Served(c) \/ ServedLate(c) \/ Goes(c)
<1> USE DEF Quiet, Same, Books, calls, server
<1>1. ASSUME NEW c \in Clicks,
             \/ Create(c) \/ Pay(c) \/ Cancel(c) \/ Assign(c) \/ Advance(c) \/ Toggle(c)
      PROVE  Begins(c)
  BY <1>1, HandlersBegin
<1>2. ASSUME NEW c \in Clicks, AskForToken(c)
      PROVE  Quiet
  BY <1>2 DEF AskForToken
<1>3. ASSUME NEW c \in Clicks, Proceeds(c) \/ ServeFails(c) \/ Unanswered(c), ~AskForToken(c)
      PROVE  Served(c) \/ Goes(c)
  BY <1>3, ServesServed, PageGoes DEF Proceeds
<1>4. ASSUME NEW c \in Clicks, ServeLate(c)
      PROVE  ServedLate(c)
  BY <1>4 DEF ServeLate, ServedLate
<1>5. CASE \/ OpenCreate \/ OpenShipment \/ OpenAssign \/ OpenDriver \/ OpenUsers
           \/ RefreshShipment
  <2>1. PICK fresh, fetched : Opens(fresh, fetched)
    BY <1>5 DEF OpenCreate, OpenShipment, OpenAssign, OpenDriver, OpenUsers, RefreshShipment
  <2>2. QED  BY <2>1 DEF Opens
<1>6. ASSUME NEW f \in Shown, Live(f)
      PROVE  Quiet
  BY <1>6 DEF Live
<1>7. ASSUME NEW t \in Tabs, TokenComes(t) \/ CookieChanges(t)
      PROVE  Quiet
  BY <1>7 DEF TokenComes, CookieChanges
<1>8. ASSUME NEW t \in Tabs, TokenFails(t) \/ Reload(t)
      PROVE  Quiet
  <2>1. CASE TokenFails(t)
    <3>1. \A c \in Clicks : phase[c] = "token" => reply[c] = "none"
      BY DEF Inv, InTurn
    <3>2. QED  BY <2>1, <3>1 DEF TokenFails, GivesUp, CutOff, Unheard
  <2>2. CASE Reload(t)
    BY <2>2 DEF Reload, CutOff, Unheard
  <2>3. QED  BY <1>8, <2>1, <2>2
<1>9. CASE UNCHANGED vars
  BY <1>9 DEF vars
<1>10. QED  BY <1>1, <1>2, <1>3, <1>4, <1>5, <1>6, <1>7, <1>8, <1>9 DEF Next

----------------------------------------------------------------------------
(* Where a submission is, as far as the counts need it: only a payment has *)
(* more than one call, and only what was cut off is served late.           *)
Placed ==
  \A c \in Clicks : /\ form[c] # "pay" \/ phase[c] = "none" => step[c] = 1
                    /\ c \in late => phase[c] \in Unheard

(* Every step keeps the submissions where their forms are.                 *)
LEMMA PlacedInv == Inv /\ Placed /\ [Next]_vars => Placed'
<1> SUFFICES ASSUME Inv, Placed, [Next]_vars PROVE Placed'
  OBVIOUS
<1>1. CASE Quiet
  BY <1>1 DEF Placed, Quiet, Same, CutOff, Unheard
<1>2. ASSUME NEW c \in Clicks, Begins(c) \/ Served(c) \/ ServedLate(c)
      PROVE  Placed'
  BY <1>2 DEF Placed, Begins, Served, ServedLate, OnlyOf, Same, Unheard
<1>3. ASSUME NEW c \in Clicks, Goes(c)
      PROVE  Placed'
  <2>1. form[c] # "pay" => ~(step[c] < Len(Chain(form[c])))
    BY DEF Chain, Placed
  <2>2. form[c] # "pay" \/ phase[c] = "none" => step[c] = 1
    BY DEF Placed
  <2>3. form'[c] # "pay" \/ phase'[c] = "none" => step'[c] = 1
    <3>1. phase'[c] # "none" /\ form' = form
      BY <1>3 DEF Goes
    <3>2. form[c] # "pay" => step'[c] = step[c]
      BY <1>3, <2>1 DEF Goes
    <3>3. QED  BY <2>2, <3>1, <3>2
  <2>4. c \in late' => phase'[c] \in Unheard
    BY <1>3 DEF Placed, Goes, Unheard
  <2>5. QED  BY <1>3, <2>3, <2>4 DEF Placed, Goes, OnlyOf, Same
<1>4. QED  BY <1>1, <1>2, <1>3, Kinds

(* The call a submission is at.                                            *)
LEMMA CallOf ==
  ASSUME Inv, Placed, NEW c \in Clicks
  PROVE  /\ form[c] # "pay" => Call(c) = form[c]
         /\ form[c] = "pay" /\ step[c] = 1 => Call(c) = "initiate"
         /\ form[c] = "pay" /\ step[c] = 2 => Call(c) = "lookup"
         /\ form[c] = "pay" /\ step[c] = 3 => Call(c) = "confirm"
         /\ step[c] \in {1, 2, 3} /\ form[c] \in FormNames
  BY DEF Inv, TypeOK, Placed, Call, Chain

(* What the controllers do to the shipments made and to the payment.       *)
LEMMA EffectOnBooks ==
  ASSUME Inv, Placed, NEW c \in Clicks, Effect(c)
  PROVE  /\ \/ made' = made
            \/ form[c] = "create" /\ made' = made + 1
         /\ \/ real'["payment"] = real["payment"] /\ ~(Call(c) \in {"initiate", "confirm"} /\ Allowed(c))
            \/ Call(c) = "initiate" /\ real["payment"] = "none" /\ real'["payment"] = "pending"
            \/ Call(c) = "confirm" /\ real["payment"] = "pending" /\ real'["payment"] = want[c]
<1>1. CASE ~Allowed(c) \/ Call(c) = "lookup"
  BY <1>1 DEF Effect, server
<1>2. CASE Allowed(c) /\ Call(c) = "create"
  <2>1. form[c] = "create"
    BY <1>2, CallOf
  <2>2. QED  BY <1>2, <2>1 DEF Effect
<1>3. CASE Allowed(c) /\ Call(c) \in {"initiate", "confirm"}
  <2>1. form[c] = "pay"
    BY <1>3, CallOf DEF FormNames
  <2>2. Subject(form[c]) = "payment"
    BY <2>1 DEF Subject
  <2>3. made' = made
    BY <1>3 DEF Effect
  <2>4. real'["payment"] = IF Call(c) = "initiate" THEN "pending" ELSE want[c]
    BY <1>3, <2>2 DEF Effect, Inv, TypeOK, Subjects
  <2>5. real["payment"] = IF Call(c) = "initiate" THEN "none" ELSE "pending"
    BY <1>3 DEF Allowed
  <2>6. QED  BY <1>3, <2>3, <2>4, <2>5
<1>4. CASE Allowed(c) /\ Call(c) \notin {"lookup", "create", "initiate", "confirm"}
  <2>1. form[c] # "pay"
    BY <1>4, CallOf
  <2>2. Subject(form[c]) # "payment"
    BY <2>1 DEF Subject
  <2>3. made' = made
    BY <1>4 DEF Effect
  <2>4. real'["payment"] = real["payment"]
    BY <1>4, <2>2 DEF Effect, Inv, TypeOK, Subjects
  <2>5. QED  BY <1>4, <2>3, <2>4
<1>5. QED  BY <1>1, <1>2, <1>3, <1>4

----------------------------------------------------------------------------
(* The shipments made lie between the submissions known to have made one   *)
(* and those that may have: a submission moves into the second set in the  *)
(* very step that makes its shipment, also when it is served late.         *)
Told == {c \in Clicks : form[c] = "create" /\ (phase[c] = "success" \/ reply[c] = "ok")}

MayHave ==
  {c \in Clicks : /\ form[c] = "create"
                  /\ \/ phase[c] \in {"success", "failed"} \/ reply[c] \in {"ok", "failed"}
                     \/ phase[c] \in Unheard /\ c \notin late}

Begun == {c \in Clicks : phase[c] # "none"}

Counted ==
  /\ IsFiniteSet(Begun)
  /\ Cardinality(Told) <= made /\ made <= Cardinality(MayHave)

(* Submissions are begun one at a time.                                    *)
LEMMA BegunFinite ==
  ASSUME Inv, IsFiniteSet(Begun), [Next]_vars
  PROVE  IsFiniteSet(Begun')
<1>1. CASE Quiet
  <2>1. Begun' \subseteq Begun
    BY <1>1 DEF Quiet, Same, CutOff, Begun
  <2>2. QED  BY <2>1, FS_Subset
<1>2. ASSUME NEW c \in Clicks, Begins(c) \/ Served(c) \/ ServedLate(c) \/ Goes(c)
      PROVE  IsFiniteSet(Begun')
  <2>1. \A d \in Clicks \ {c} : phase'[d] = phase[d]
    BY <1>2 DEF Begins, Served, ServedLate, Goes, OnlyOf, Same
  <2>2. Begun' \subseteq Begun \cup {c}
    BY <2>1 DEF Begun
  <2>3. IsFiniteSet(Begun \cup {c})
    BY FS_AddElement
  <2>4. QED  BY <2>2, <2>3, FS_Subset
<1>3. QED  BY <1>1, <1>2, Kinds

(* A step moves no shipment from one set to another, or makes one.         *)
LEMMA CountsMove ==
  ASSUME Inv, Placed, [Next]_vars
  PROVE  \/ made' = made /\ Told' \subseteq Told /\ MayHave \subseteq MayHave'
         \/ \E c \in Clicks : /\ made' = made + 1 /\ Told' \subseteq Told \cup {c}
                              /\ MayHave \cup {c} \subseteq MayHave' /\ c \notin MayHave
<1>1. CASE Quiet
  <2>1. \A c \in Clicks : (c \in Told' => c \in Told) /\ (c \in MayHave => c \in MayHave')
    <3> SUFFICES ASSUME NEW c \in Clicks
                 PROVE  (c \in Told' => c \in Told) /\ (c \in MayHave => c \in MayHave')
      OBVIOUS
    <3>1. form'[c] = form[c] /\ (Same(c) \/ CutOff(c))
      BY <1>1 DEF Quiet
    <3>2. CASE Same(c)
      BY <3>2 DEF Same, Told, MayHave
    <3>3. CASE CutOff(c)
      <4>1. c \notin late
        BY <3>3 DEF Placed, CutOff, Unheard
      <4>2. phase[c] = "token" => reply[c] = "none"
        BY DEF Inv, InTurn
      <4>3. QED  BY <3>1, <3>3, <4>1, <4>2 DEF CutOff, Unheard, Told, MayHave
    <3>4. QED  BY <3>1, <3>2, <3>3
  <2>2. QED  BY <1>1, <2>1 DEF Quiet, Books, Told, MayHave
<1>2. ASSUME NEW c \in Clicks, Begins(c)
      PROVE  made' = made /\ Told' \subseteq Told /\ MayHave \subseteq MayHave'
  <2>1. reply[c] = "none"
    BY <1>2 DEF Inv, InTurn, Begins
  <2>2. QED  BY <1>2, <2>1 DEF Begins, OnlyOf, Same, Books, Told, MayHave, Unheard
<1>3. ASSUME NEW c \in Clicks, Goes(c)
      PROVE  made' = made /\ Told' \subseteq Told /\ MayHave \subseteq MayHave'
  <2>1. form[c] = "create" => ~(step[c] < Len(Chain(form[c])))
    BY DEF Chain, Placed
  <2>2. c \notin late
    BY <1>3 DEF Placed, Goes, Unheard
  <2>3. made' = made
    BY <1>3 DEF Goes, Books
  <2>4. c \in Told' => c \in Told
    BY <1>3, <2>1 DEF Goes, Told
  <2>5. c \in MayHave => c \in MayHave'
    BY <1>3, <2>1, <2>2 DEF Goes, MayHave, Unheard, Inv, InTurn
  <2>6. \A d \in Clicks \ {c} : (d \in Told' => d \in Told) /\ (d \in MayHave => d \in MayHave')
    BY <1>3 DEF Goes, OnlyOf, Same, Told, MayHave
  <2>7. QED  BY <2>3, <2>4, <2>5, <2>6 DEF Told, MayHave
<1>4. ASSUME NEW c \in Clicks, Served(c)
      PROVE  \/ made' = made /\ Told' \subseteq Told /\ MayHave \subseteq MayHave'
             \/ /\ made' = made + 1 /\ Told' \subseteq Told \cup {c}
                /\ MayHave \cup {c} \subseteq MayHave' /\ c \notin MayHave
  <2>1. \A d \in Clicks \ {c} : (d \in Told' <=> d \in Told) /\ (d \in MayHave <=> d \in MayHave')
    BY <1>4 DEF Served, OnlyOf, Same, Told, MayHave
  <2>2. c \notin MayHave /\ c \notin Told
    BY <1>4 DEF Served, Told, MayHave, Unheard
  <2>3. CASE Effect(c) /\ form[c] = "create" /\ made' = made + 1
    <3>1. reply'[c] \in {"ok", "failed"}
      <4>1. Books' # Books
        BY <2>3 DEF Books, Inv, TypeOK
      <4>2. QED  BY <1>4, <4>1 DEF Served
    <3>2. c \in MayHave'
      BY <1>4, <2>3, <3>1 DEF Served, MayHave
    <3>3. QED  BY <2>1, <2>2, <2>3, <3>2 DEF Told, MayHave
  <2>4. CASE made' = made /\ reply'[c] # "ok"
    <3>1. c \notin Told'
      BY <1>4, <2>4 DEF Served, Told
    <3>2. QED  BY <2>1, <2>2, <2>4, <3>1 DEF Told, MayHave
  <2>5. CASE made' = made /\ reply'[c] = "ok"
    <3>1. Effect(c) /\ Allowed(c)
      BY <1>4, <2>5 DEF Served
    <3>2. form[c] # "create"
      BY <2>5, <3>1, CallOf DEF Effect, Inv, TypeOK
    <3>3. c \notin Told'
      BY <1>4, <3>2 DEF Served, Told
    <3>4. QED  BY <2>1, <2>2, <2>5, <3>3 DEF Told, MayHave
  <2>6. made' = made \/ (Effect(c) /\ form[c] = "create" /\ made' = made + 1)
    BY <1>4, EffectOnBooks DEF Served, Books
  <2>7. QED  BY <2>3, <2>4, <2>5, <2>6
<1>5. ASSUME NEW c \in Clicks, ServedLate(c)
      PROVE  \/ made' = made /\ Told' \subseteq Told /\ MayHave \subseteq MayHave'
             \/ /\ made' = made + 1 /\ Told' \subseteq Told \cup {c}
                /\ MayHave \cup {c} \subseteq MayHave' /\ c \notin MayHave
  <2>1. Told' = Told /\ MayHave \subseteq MayHave'
    BY <1>5 DEF ServedLate, Told, MayHave
  <2>2. phase[c] \in Unheard /\ reply[c] = "none" /\ c \in late /\ c \notin late'
    BY <1>5 DEF ServedLate, Placed, Unheard, Inv, InTurn
  <2>3. form[c] = "create" => c \notin MayHave /\ c \in MayHave'
    BY <1>5, <2>2 DEF ServedLate, Unheard, MayHave
  <2>4. made' = made \/ (form[c] = "create" /\ made' = made + 1)
    BY <1>5, EffectOnBooks DEF ServedLate, Books
  <2>5. QED  BY <2>1, <2>3, <2>4
<1>6. QED  BY <1>1, <1>2, <1>3, <1>4, <1>5, Kinds

(* So the count stays between them.                                        *)
LEMMA CountedInv == Inv /\ Inv' /\ Placed /\ Counted /\ [Next]_vars => Counted'
<1> SUFFICES ASSUME Inv, Inv', Placed, Counted, [Next]_vars PROVE Counted'
  OBVIOUS
<1>1. IsFiniteSet(Begun) /\ IsFiniteSet(Begun')
  BY BegunFinite DEF Counted
<1>2. Told \subseteq Begun /\ MayHave \subseteq Begun
  BY DEF Told, MayHave, Unheard, Begun, Inv, InTurn
<1>3. Told' \subseteq Begun' /\ MayHave' \subseteq Begun'
  BY DEF Told, MayHave, Unheard, Begun, Inv, InTurn
<1>4. IsFiniteSet(Told) /\ IsFiniteSet(MayHave) /\ IsFiniteSet(Told') /\ IsFiniteSet(MayHave')
  BY <1>1, <1>2, <1>3, FS_Subset
<1>5. /\ Cardinality(Told) \in Nat /\ Cardinality(MayHave) \in Nat
      /\ Cardinality(Told') \in Nat /\ Cardinality(MayHave') \in Nat
  <2>1. \A S : IsFiniteSet(S) => Cardinality(S) \in Nat
    BY FS_CardinalityType
  <2>2. QED  BY <1>4, <2>1
<1>6. made \in Nat
  BY DEF Inv, TypeOK
<1>7. CASE made' = made /\ Told' \subseteq Told /\ MayHave \subseteq MayHave'
  <2>1. Cardinality(Told') <= Cardinality(Told) /\ Cardinality(MayHave) <= Cardinality(MayHave')
    BY <1>4, <1>7, FS_Subset
  <2>2. QED  BY <1>1, <1>5, <1>6, <1>7, <2>1 DEF Counted
<1>8. ASSUME NEW c \in Clicks, made' = made + 1, Told' \subseteq Told \cup {c},
             MayHave \cup {c} \subseteq MayHave', c \notin MayHave
      PROVE  Counted'
  <2>1. /\ IsFiniteSet(Told \cup {c}) /\ Cardinality(Told \cup {c}) <= Cardinality(Told) + 1
    <3>1. /\ IsFiniteSet(Told \cup {c})
          /\ Cardinality(Told \cup {c}) = IF c \in Told THEN Cardinality(Told) ELSE Cardinality(Told) + 1
      BY <1>4, FS_AddElement
    <3>2. QED  BY <1>5, <3>1
  <2>2. /\ IsFiniteSet(MayHave \cup {c}) /\ Cardinality(MayHave \cup {c}) = Cardinality(MayHave) + 1
    BY <1>4, <1>8, FS_AddElement
  <2>3. Cardinality(Told') <= Cardinality(Told \cup {c})
    BY <1>8, <2>1, FS_Subset
  <2>4. Cardinality(MayHave \cup {c}) <= Cardinality(MayHave')
    BY <1>4, <1>8, FS_Subset
  <2>5. Cardinality(Told \cup {c}) \in Nat
    BY <2>1, FS_CardinalityType
  <2>6. QED  BY <1>1, <1>5, <1>6, <1>8, <2>1, <2>2, <2>3, <2>4, <2>5 DEF Counted
<1>9. QED  BY <1>7, <1>8, CountsMove

----------------------------------------------------------------------------
(* A pending payment is in the hands of a submission that has begun it, or *)
(* of one that ended so that the page could not tell, or with the page.    *)
Holds(c) ==
  /\ form[c] = "pay"
  /\ \/ phase[c] \in {"failed", "unanswered", "gone", "csrf"}
     \/ phase[c] = "token" /\ step[c] # 1
     \/ phase[c] = "sent" /\ reply[c] # "refused" /\ (step[c] # 1 \/ reply[c] \in {"ok", "failed"})

(* The payment only advances, and a submission past its first call, or     *)
(* answered, knows how far: this is why the lookup is never refused, and   *)
(* the confirmation only when another submission made it.                  *)
Knows(c) ==
  form[c] = "pay" =>
    /\ want[c] = "paid"
    /\ step[c] # 1 \/ reply[c] = "ok" => real["payment"] # "none"
    /\ step[c] = 2 => reply[c] # "refused"
    /\ step[c] = 3 /\ reply[c] \in {"ok", "refused"} => real["payment"] = "paid"

PaymentInv ==
  /\ real["payment"] \in {"none", "pending", "paid"}
  /\ \A c \in Clicks : Knows(c)
  /\ real["payment"] = "pending" => \E c \in Clicks : Holds(c)

(* The effect of a call, given what its submission asks for.               *)
LEMMA PaymentMoves ==
  ASSUME Inv, Placed, PaymentInv, NEW c \in Clicks, Effect(c) \/ UNCHANGED Books
  PROVE  \/ real'["payment"] = real["payment"]
         \/ /\ form[c] = "pay" /\ step[c] = 1
            /\ real["payment"] = "none" /\ real'["payment"] = "pending"
         \/ /\ form[c] = "pay" /\ step[c] = 3
            /\ real["payment"] = "pending" /\ real'["payment"] = "paid"
<1>1. CASE UNCHANGED Books
  BY <1>1 DEF Books
<1>2. CASE Effect(c)
  <2>1. /\ Call(c) \in {"initiate", "confirm"} => form[c] = "pay"
        /\ Call(c) = "initiate" => step[c] = 1
        /\ Call(c) = "confirm" => step[c] = 3
    BY CallOf DEF FormNames
  <2>2. form[c] = "pay" => want[c] = "paid"
    BY DEF PaymentInv, Knows
  <2>3. QED  BY <1>2, <2>1, <2>2, EffectOnBooks
<1>3. QED  BY <1>1, <1>2

(* What the others know and hold outlasts the moves of the payment.        *)
LEMMA OthersKeep ==
  ASSUME PaymentInv, NEW d \in Clicks, Same(d),
         \/ real'["payment"] = real["payment"]
         \/ real["payment"] = "none" /\ real'["payment"] = "pending"
         \/ real["payment"] = "pending" /\ real'["payment"] = "paid"
  PROVE  Knows(d)' /\ (Holds(d) => Holds(d)')
  BY DEF PaymentInv, Knows, Holds, Same

(* The invariant of the payment is kept: if one submission only is touched,*)
(* by what becomes of that one.                                            *)
LEMMA OneTouched ==
  ASSUME PaymentInv, NEW c \in Clicks, OnlyOf(c),
         \/ real'["payment"] = real["payment"]
         \/ real["payment"] = "none" /\ real'["payment"] = "pending"
         \/ real["payment"] = "pending" /\ real'["payment"] = "paid",
         Knows(c)',
         real'["payment"] = "pending" /\ (Holds(c) \/ real["payment"] = "none") => Holds(c)'
  PROVE  PaymentInv'
<1>1. \A d \in Clicks \ {c} : Knows(d)' /\ (Holds(d) => Holds(d)')
  BY OthersKeep DEF OnlyOf
<1>2. \A d \in Clicks : Knows(d)'
  BY <1>1
<1>3. real'["payment"] \in {"none", "pending", "paid"}
  BY DEF PaymentInv
<1>4. real'["payment"] = "pending" => \E d \in Clicks : Holds(d)'
  <2>1. CASE real["payment"] = "pending"
    <3>1. PICK d \in Clicks : Holds(d)
      BY <2>1 DEF PaymentInv
    <3>2. QED  BY <1>1, <3>1
  <2>2. CASE real["payment"] # "pending"
    BY <2>2
  <2>3. QED  BY <2>1, <2>2
<1>5. QED  BY <1>2, <1>3, <1>4 DEF PaymentInv

(* A call is answered.                                                     *)
LEMMA ServedPayment ==
  ASSUME Inv, Placed, PaymentInv, NEW c \in Clicks, Served(c)
  PROVE  PaymentInv'
<1> DEFINE pay == real["payment"]
<1>1. Effect(c) \/ UNCHANGED Books
  BY DEF Served
<1>2. \/ pay' = pay
      \/ form[c] = "pay" /\ step[c] = 1 /\ pay = "none" /\ pay' = "pending"
      \/ form[c] = "pay" /\ step[c] = 3 /\ pay = "pending" /\ pay' = "paid"
  BY <1>1, PaymentMoves
<1>3. /\ OnlyOf(c) /\ phase[c] = "sent" /\ reply[c] = "none"
      /\ form'[c] = form[c] /\ want'[c] = want[c] /\ step'[c] = step[c] /\ phase'[c] = phase[c]
  BY DEF Served
<1>4. Knows(c) /\ pay \in {"none", "pending", "paid"}
  BY DEF PaymentInv
<1>5. CASE form[c] # "pay"
  <2>1. pay' = pay /\ Knows(c)' /\ ~Holds(c)
    BY <1>2, <1>3, <1>5 DEF Knows, Holds
  <2>2. QED  BY <1>3, <1>4, <2>1, OneTouched
<1>6. CASE form[c] = "pay" /\ step[c] = 1
  <2>1. Call(c) = "initiate"
    BY <1>6, CallOf
  <2>2. reply'[c] = "ok" => pay = "none" /\ pay' = "pending"
    BY <2>1, EffectOnBooks DEF Served, Allowed
  <2>3. pay' # pay => reply'[c] \in {"ok", "failed"}
    BY DEF Served, Books
  <2>4. Knows(c)'
    BY <1>3, <1>4, <1>6, <2>2 DEF Knows
  <2>5. ~Holds(c)
    BY <1>3, <1>6 DEF Holds
  <2>6. pay' = "pending" /\ pay = "none" => Holds(c)'
    BY <1>3, <1>6, <2>3 DEF Holds
  <2>7. QED  BY <1>2, <1>3, <2>4, <2>5, <2>6, OneTouched
<1>7. CASE form[c] = "pay" /\ step[c] = 2
  <2>1. Call(c) = "lookup" /\ pay' = pay /\ pay # "none"
    BY <1>2, <1>4, <1>7, CallOf DEF Knows
  <2>2. reply'[c] # "refused"
    BY <2>1 DEF Served, Allowed
  <2>3. Knows(c)' /\ Holds(c)'
    BY <1>3, <1>4, <1>7, <2>1, <2>2 DEF Knows, Holds
  <2>4. QED  BY <1>3, <2>1, <2>3, OneTouched
<1>8. CASE form[c] = "pay" /\ step[c] = 3
  <2>1. Call(c) = "confirm" /\ pay # "none"
    BY <1>4, <1>8, CallOf DEF Knows
  <2>2. reply'[c] = "ok" => pay' = "paid"
    <3>1. reply'[c] = "ok" => Allowed(c) /\ Effect(c)
      BY DEF Served
    <3>2. QED  BY <1>4, <1>8, <2>1, <3>1, EffectOnBooks DEF Knows
  <2>3. reply'[c] = "refused" => pay = "paid" /\ pay' = "paid"
    BY <1>4, <2>1 DEF Served, Allowed, Books
  <2>4. Knows(c)'
    BY <1>2, <1>3, <1>4, <1>8, <2>2, <2>3 DEF Knows
  <2>5. pay' = "pending" => Holds(c)'
    BY <1>3, <1>8, <2>3 DEF Holds
  <2>6. QED  BY <1>2, <1>3, <2>4, <2>5, OneTouched
<1>9. step[c] \in {1, 2, 3}
  BY CallOf
<1>10. QED  BY <1>5, <1>6, <1>7, <1>8, <1>9

(* A submission goes on: it ends well only when the payment is made.       *)
LEMMA GoesPayment ==
  ASSUME Inv, Placed, PaymentInv, NEW c \in Clicks, Goes(c)
  PROVE  PaymentInv'
<1>1. /\ real'["payment"] = real["payment"] /\ OnlyOf(c)
      /\ form' = form /\ want' = want /\ reply'[c] = "none"
  BY DEF Goes, Books
<1>2. Knows(c) /\ step[c] \in {1, 2, 3}
  BY CallOf DEF PaymentInv
<1>3. step'[c] = step[c] \/ reply[c] = "ok"
  BY DEF Goes
<1>4. Knows(c)'
  BY <1>1, <1>2, <1>3 DEF Knows
<1>5. real["payment"] = "pending" /\ Holds(c) => Holds(c)'
  <2> SUFFICES ASSUME real["payment"] = "pending", Holds(c) PROVE Holds(c)'
    OBVIOUS
  <2>1. form[c] = "pay" /\ Len(Chain(form[c])) = 3
    BY DEF Holds, Chain
  <2>2. step[c] = 3 => reply[c] \notin {"ok", "refused"}
    BY <1>2, <2>1 DEF Knows
  <2>3. CASE phase[c] = "token"
    <3>1. phase'[c] = "sent" /\ step'[c] = step[c] /\ step[c] # 1
      BY <2>3 DEF Goes, Holds
    <3>2. QED  BY <1>1, <2>1, <3>1 DEF Holds
  <2>4. CASE phase[c] = "sent" /\ reply[c] = "ok"
    <3>1. step[c] < Len(Chain(form[c]))
      <4>1. step[c] = 1 \/ step[c] = 2
        BY <1>2, <2>2, <2>4
      <4>2. QED  BY <2>1, <4>1 DEF Chain
    <3>2. \/ phase'[c] = "token" /\ step'[c] = step[c] + 1
          \/ phase'[c] = "unanswered"
      BY <2>4, <3>1, <1>2, <2>1 DEF Goes
    <3>3. step[c] + 1 # 1
      BY <1>2
    <3>4. QED  BY <1>1, <2>1, <3>2, <3>3 DEF Holds
  <2>5. CASE phase[c] = "sent" /\ reply[c] # "ok"
    <3>1. reply[c] # "refused"
      BY <2>5 DEF Holds
    <3>2. step[c] # 1 \/ reply[c] = "failed"
      BY <2>5 DEF Holds
    <3>3. phase'[c] \in {"failed", "csrf", "unanswered"} \/ (phase'[c] = "token" /\ step'[c] = step[c] /\ step[c] # 1)
      BY <2>5, <3>1, <3>2 DEF Goes
    <3>4. QED  BY <1>1, <2>1, <3>3 DEF Holds
  <2>6. phase[c] \in {"token", "sent"}
    BY DEF Goes
  <2>7. QED  BY <2>3, <2>4, <2>5, <2>6
<1>6. QED  BY <1>1, <1>4, <1>5, OneTouched

(* Every step keeps the invariant of the payment.                          *)
LEMMA PaymentStep ==
  ASSUME Inv, Placed, PaymentInv, [Next]_vars
  PROVE  PaymentInv'
<1>1. CASE Quiet
  <2>1. \A c \in Clicks : Knows(c)' /\ (Holds(c) => Holds(c)')
    <3> SUFFICES ASSUME NEW c \in Clicks PROVE Knows(c)' /\ (Holds(c) => Holds(c)')
      OBVIOUS
    <3>1. /\ form'[c] = form[c] /\ want'[c] = want[c] /\ step'[c] = step[c]
          /\ real'["payment"] = real["payment"] /\ Knows(c)
      BY <1>1 DEF Quiet, Books, PaymentInv
    <3>2. CASE Same(c)
      BY <3>1, <3>2 DEF Same, Knows, Holds
    <3>3. CASE CutOff(c)
      BY <3>1, <3>3 DEF CutOff, Unheard, Knows, Holds
    <3>4. QED  BY <1>1, <3>2, <3>3 DEF Quiet
  <2>2. QED  BY <1>1, <2>1 DEF Quiet, Books, PaymentInv
<1>2. ASSUME NEW c \in Clicks, Begins(c)
      PROVE  PaymentInv'
  <2>1. reply'[c] = "none" /\ step'[c] = 1
    BY <1>2 DEF Begins, Inv, InTurn, Placed
  <2>2. Knows(c)' /\ ~Holds(c) /\ real'["payment"] = real["payment"] /\ OnlyOf(c)
    BY <1>2, <2>1 DEF Begins, Knows, Holds, Books
  <2>3. QED  BY <2>2, OneTouched
<1>3. ASSUME NEW c \in Clicks, ServedLate(c)
      PROVE  PaymentInv'
  <2>1. phase[c] \in Unheard /\ reply[c] = "none"
    BY <1>3 DEF ServedLate, Placed, Unheard, Inv, InTurn
  <2>2. \/ real'["payment"] = real["payment"]
        \/ form[c] = "pay" /\ real["payment"] = "none" /\ real'["payment"] = "pending"
        \/ real["payment"] = "pending" /\ real'["payment"] = "paid"
    BY <1>3, PaymentMoves DEF ServedLate
  <2>3. OnlyOf(c) /\ form'[c] = form[c] /\ phase'[c] = phase[c]
    BY <1>3 DEF ServedLate, OnlyOf, Same
  <2>4. Knows(c)'
    BY <1>3, <2>1, <2>2 DEF ServedLate, PaymentInv, Knows
  <2>5. form[c] = "pay" => Holds(c)'
    BY <2>1, <2>3 DEF Holds, Unheard
  <2>6. Holds(c) => form[c] = "pay"
    BY DEF Holds
  <2>7. QED  BY <2>2, <2>3, <2>4, <2>5, <2>6, OneTouched
<1>4. QED  BY <1>1, <1>2, <1>3, ServedPayment, GoesPayment, Kinds

----------------------------------------------------------------------------
(* The invariant holds throughout.                                         *)
LEMMA Always == Spec => []Inv
  BY InitInv, NextInv, PTL DEF Spec

(* And so do the counts and the payment.                                   *)
LEMMA AlwaysCounted == Spec => [](Inv /\ Placed /\ Counted /\ PaymentInv)
<1>1. Init => Placed /\ Counted /\ PaymentInv
  <2> SUFFICES ASSUME Init PROVE Placed /\ Counted /\ PaymentInv
    OBVIOUS
  <2>1. Begun = {} /\ Told = {} /\ MayHave = {}
    BY DEF Init, Begun, Told, MayHave, Unheard
  <2>2. IsFiniteSet({}) /\ Cardinality({}) = 0
    BY FS_EmptySet
  <2>3. Counted
    BY <2>1, <2>2 DEF Init, Counted
  <2>4. Placed /\ PaymentInv
    BY DEF Init, Placed, PaymentInv, Knows, Subjects
  <2>5. QED  BY <2>3, <2>4
<1>2. Inv /\ Inv' /\ Placed /\ Counted /\ PaymentInv /\ [Next]_vars
        => Placed' /\ Counted' /\ PaymentInv'
  BY PlacedInv, CountedInv, PaymentStep
<1>3. QED  BY <1>1, <1>2, Always, PTL DEF Spec

(* Type correctness: tokens, pages, submissions and their calls stay well  *)
(* formed, for any number of submissions and any faults.                   *)
THEOREM TypeCorrect == Spec => []TypeOK
<1>1. Inv => TypeOK
  BY DEF Inv
<1>2. QED  BY <1>1, Always, PTL

(* The one retry of the response interceptor is enough: a page says that   *)
(* CSRF validation failed only if the cookie changed once more after it,   *)
(* however the tab's calls share, drop and fetch the token.                *)
THEOREM CsrfCorrect == Spec => []CsrfRetrySuffices
<1>1. Inv => CsrfRetrySuffices
  BY DEF Inv, Justified, CsrfRetrySuffices
<1>2. QED  BY <1>1, Always, PTL

(* No shipment is made behind the shipper's back: whatever is lost, served *)
(* late or thrown after its write, there are at least as many shipments as *)
(* pages said, and at most one more for each submission that is going on,  *)
(* failed, got no answer or was cut off by a reload.                       *)
THEOREM MadeCorrect == Spec => []MadeAsTold
<1> DEFINE Least == Of("create", {"success"})
           Most == Of("create", {"success", "failed", "unanswered", "gone", "sent"})
<1>1. Inv /\ Counted => MadeAsTold
  <2> SUFFICES ASSUME Inv, Counted PROVE MadeAsTold
    OBVIOUS
  <2>1. Least \subseteq Told /\ MayHave \subseteq Most
    BY DEF Of, Told, MayHave, Unheard, Inv, InTurn
  <2>2. Told \subseteq Begun /\ Most \subseteq Begun
    BY DEF Of, Told, Begun, Inv, InTurn
  <2>3. IsFiniteSet(Told) /\ IsFiniteSet(Most)
    BY <2>2, FS_Subset DEF Counted
  <2>4. IsFiniteSet(Least) /\ Cardinality(Least) <= Cardinality(Told)
    BY <2>1, <2>3, FS_Subset
  <2>5. IsFiniteSet(MayHave) /\ Cardinality(MayHave) <= Cardinality(Most)
    BY <2>1, <2>3, FS_Subset
  <2>6. \A S : IsFiniteSet(S) => Cardinality(S) \in Nat
    BY FS_CardinalityType
  <2>7. made \in Nat /\ Cardinality(Told) <= made /\ made <= Cardinality(MayHave)
    BY DEF Inv, TypeOK, Counted
  <2>8. Cardinality(Least) <= made /\ made <= Cardinality(Most)
    BY <2>3, <2>4, <2>5, <2>6, <2>7
  <2>9. QED  BY <2>6, <2>4, <2>7, <2>8 DEF MadeAsTold
<1>2. QED  BY <1>1, AlwaysCounted, PTL

(* A payment is left pending only where a submission is under way, was     *)
(* lost, failed or was refused twice for its token, or went with its page  *)
(* in a reload: the three calls of the chain, those of other submissions   *)
(* and late ones leave no other way.                                       *)
THEOREM PendingCorrect == Spec => []PendingOnlyByFailure
<1>1. PaymentInv => PendingOnlyByFailure
  BY DEF PaymentInv, Holds, PendingOnlyByFailure, Of
<1>2. QED  BY <1>1, AlwaysCounted, PTL
=============================================================================
