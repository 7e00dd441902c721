--------------------------- MODULE ClientSession ---------------------------
(***************************************************************************)
(* The browser's side of a session: the axios response interceptor with    *)
(* its refresh queue in every open tab, the hydration of a tab that opens, *)
(* and the cookie jar the tabs share.  The server's side is what the jar   *)
(* meets: an access token that lapses by time and a refresh token that is  *)
(* rotated at every use.                                                   *)
(***************************************************************************)
EXTENDS Naturals

CONSTANTS Tabs,
          Calls,        \* API calls a tab makes, each of them once
          MaxExpiries,  \* bound on the lapses of access tokens
          MayBreak      \* may the session be ended, by a logout too, or an answer be lost

ASSUME BoundsAssumption == MaxExpiries \in Nat /\ MayBreak \in BOOLEAN

NoCookie == 0

VARIABLES
  access,        \* does the jar hold an access token that is still valid
  jar,           \* the refresh token in the jar
  token,         \* the refresh token the server would take
  handed,        \* refresh tokens issued so far
  page,          \* tab -> what it shows
  call,          \* tab, call -> its state
  isRefreshing,  \* tab -> the interceptor's flag
  failedQueue,   \* tab -> calls waiting for the refresh
  renewal,       \* tab -> its POST /auth/refresh
  expiries,
  broken,  \* the session was ended, or an answer was lost
  out      \* a logout was answered beside no renewal; no login since

browserVars == <<access, jar, token, handed, page, call, isRefreshing, failedQueue,
          renewal, expiries, broken, out>>
server == <<token, handed>>
client == <<page, call, isRefreshing, failedQueue>>

(* "greeted" and "stranger": the answer to GET /auth/me is under way.      *)
Pages == {"hydrating", "greeted", "stranger", "app", "login"}

(* "ok" and "denied": the answer is under way.  "gone": the page was       *)
(* reloaded before whoever made the call could look at the outcome.        *)
Unsettled == {"sent", "ok", "denied", "queued", "refreshing"}
CallStates == [pc : {"unmade", "done", "failed", "gone"} \cup Unsettled,
               kind : {"api", "login", "logout"}, retry : BOOLEAN,
               token : Nat]
Unmade == [pc |-> "unmade", kind |-> "api", retry |-> FALSE, token |-> NoCookie]

(* "wanted": waiting for the CSRF token.  "found": the server has read the *)
(* user and not yet saved it.                                              *)
Renewals == [pc : {"none", "wanted", "sent", "found", "answered", "refused"}, token : Nat]
NoRenewal == [pc |-> "none", token |-> NoCookie]

BrowserTypeOK ==
  /\ access \in BOOLEAN
  /\ jar \in 0..handed /\ token \in 0..handed /\ handed \in Nat
  /\ page \in [Tabs -> Pages]
  /\ call \in [Tabs -> [Calls -> CallStates]]
  /\ isRefreshing \in [Tabs -> BOOLEAN]
  /\ failedQueue \in [Tabs -> SUBSET Calls]
  /\ renewal \in [Tabs -> Renewals]
  /\ expiries \in 0..MaxExpiries /\ broken \in BOOLEAN /\ out \in BOOLEAN

(* The user has logged in before; a tab has the application open or is     *)
(* being opened.                                                           *)
BrowserInit ==
  /\ access \in BOOLEAN
  /\ jar = 1 /\ token = 1 /\ handed = 1
  /\ page \in [Tabs -> {"hydrating", "app"}]
  /\ call = [t \in Tabs |-> [c \in Calls |-> Unmade]]
  /\ isRefreshing = [t \in Tabs |-> FALSE]
  /\ failedQueue = [t \in Tabs |-> {}]
  /\ renewal = [t \in Tabs |-> NoRenewal]
  /\ expiries = 0 /\ broken = FALSE /\ out = FALSE

----------------------------------------------------------------------------
(* Opening a tab: GET /auth/me, whose 401 is not followed by a refresh.    *)
ServeMe(t) ==
  /\ page[t] = "hydrating"
  /\ page' = [page EXCEPT ![t] = IF access THEN "greeted" ELSE "stranger"]
  /\ UNCHANGED <<access, jar, server, call, isRefreshing, failedQueue, renewal, expiries, broken, out>>

Hydrate(t) ==
  /\ page[t] \in {"greeted", "stranger"}
  /\ page' = [page EXCEPT ![t] = IF page[t] = "greeted" THEN "app" ELSE "login"]
  /\ UNCHANGED <<access, jar, server, call, isRefreshing, failedQueue, renewal, expiries, broken, out>>

(* A page makes an API call; the login page submits its form, one at a     *)
(* time.                                                                   *)
Submitting(t) == \E c \in Calls : call[t][c].kind = "login" /\ call[t][c].pc \in Unsettled

Send(t, c) ==
  /\ call[t][c] = Unmade
  /\ \/ page[t] = "app"
     \/ page[t] = "login" /\ ~ Submitting(t)
  /\ call' = [call EXCEPT ![t][c] =
                [Unmade EXCEPT !.pc = "sent", !.kind = IF page[t] = "app" THEN "api" ELSE "login"]]
  /\ UNCHANGED <<access, jar, server, page, isRefreshing, failedQueue, renewal, expiries, broken, out>>

(* The logout button, which nothing disables while the answer is awaited.  *)
ClickLogout(t, c) ==
  /\ MayBreak
  /\ call[t][c] = Unmade /\ page[t] = "app"
  /\ call' = [call EXCEPT ![t][c] = [Unmade EXCEPT !.pc = "sent", !.kind = "logout"]]
  /\ broken' = TRUE
  /\ UNCHANGED <<access, jar, server, page, isRefreshing, failedQueue, renewal, expiries, out>>

(* protect: the access token decides.                                      *)
ServeApi(t, c) ==
  /\ call[t][c].pc = "sent" /\ call[t][c].kind = "api"
  /\ call' = [call EXCEPT ![t][c].pc = IF access THEN "ok" ELSE "denied"]
  /\ UNCHANGED <<access, jar, server, page, isRefreshing, failedQueue, renewal, expiries, broken, out>>

(* login: the password decides.  A new session replaces the old one.       *)
ServeLogin(t, c) ==
  /\ call[t][c].pc = "sent" /\ call[t][c].kind = "login"
  /\ \/ /\ handed' = handed + 1 /\ token' = handed'
        /\ call' = [call EXCEPT ![t][c].pc = "ok", ![t][c].token = handed']
        /\ broken' = TRUE
     \/ /\ call' = [call EXCEPT ![t][c].pc = "denied"]
        /\ UNCHANGED <<server, broken>>
  /\ UNCHANGED <<access, jar, page, isRefreshing, failedQueue, renewal, expiries, out>>

(* logout behind protect: the server drops the refresh token.              *)
ServeLogout(t, c) ==
  /\ call[t][c].pc = "sent" /\ call[t][c].kind = "logout"
  /\ call' = [call EXCEPT ![t][c].pc = IF access THEN "ok" ELSE "denied"]
  /\ token' = IF access THEN NoCookie ELSE token
  /\ UNCHANGED <<access, jar, handed, page, isRefreshing, failedQueue, renewal, expiries, broken, out>>

(* A 2xx.  That of a login brings both cookies.                            *)
Succeed(t, c) ==
  /\ call[t][c].pc = "ok" /\ call[t][c].kind # "logout"
  /\ call' = [call EXCEPT ![t][c].pc = "done"]
  /\ IF call[t][c].kind = "login"
     THEN /\ jar' = call[t][c].token /\ access' = TRUE
          /\ page' = [page EXCEPT ![t] = "app"]
          /\ out' = FALSE
     ELSE UNCHANGED <<jar, access, page, out>>
  /\ UNCHANGED <<server, isRefreshing, failedQueue, renewal, expiries, broken>>

(* The answer to a logout clears the cookies, and the tab moves to the     *)
(* login page without a reload: its calls go on.                           *)
LoggedOut(t, c) ==
  /\ call[t][c].pc = "ok" /\ call[t][c].kind = "logout"
  /\ call' = [call EXCEPT ![t][c].pc = "done"]
  /\ jar' = NoCookie /\ access' = FALSE
  /\ page' = [page EXCEPT ![t] = "login"]
  /\ out' = \A u \in Tabs : renewal[u].pc \notin {"sent", "found", "answered"}
  /\ UNCHANGED <<server, isRefreshing, failedQueue, renewal, expiries, broken>>

(* Anything but a 2xx or a 401 goes to the caller at once.  The user who   *)
(* logs out is taken to the login page all the same.                       *)
Fails(t, c) ==
  /\ call[t][c].pc \in {"sent", "ok"}
  /\ call' = [call EXCEPT ![t][c].pc = "failed"]
  /\ page' = IF call[t][c].kind = "logout" THEN [page EXCEPT ![t] = "login"] ELSE page
  /\ UNCHANGED <<access, jar, server, isRefreshing, failedQueue, renewal, expiries, broken, out>>

----------------------------------------------------------------------------
(* The interceptor on a 401.                                               *)

(* window.location.href = '/login': the tab starts over.                   *)
Redirect(t) ==
  /\ page' = [page EXCEPT ![t] = "login"]
  /\ call' = [call EXCEPT ![t] = [c \in Calls |->
                IF call[t][c].pc \in Unsettled THEN [call[t][c] EXCEPT !.pc = "gone"] ELSE call[t][c]]]
  /\ isRefreshing' = [isRefreshing EXCEPT ![t] = FALSE]
  /\ failedQueue' = [failedQueue EXCEPT ![t] = {}]
  /\ renewal' = [renewal EXCEPT ![t] = NoRenewal]

Denied(t, c) ==
  /\ call[t][c].pc = "denied"
  /\ UNCHANGED <<access, jar, server, expiries, broken, out>>

(* Guard 3: it was a retry already.                                        *)
GiveUp(t, c) == Denied(t, c) /\ call[t][c].retry /\ Redirect(t)

Enqueue(t, c) ==
  /\ Denied(t, c) /\ ~ call[t][c].retry
  /\ isRefreshing[t]
  /\ call' = [call EXCEPT ![t][c].pc = "queued"]
  /\ failedQueue' = [failedQueue EXCEPT ![t] = @ \cup {c}]
  /\ UNCHANGED <<page, isRefreshing, renewal>>

StartsRenewal(t, c) ==
  /\ call' = [call EXCEPT ![t][c].pc = "refreshing", ![t][c].retry = TRUE]
  /\ renewal' = [renewal EXCEPT ![t].pc = "wanted"]
  /\ UNCHANGED <<page, failedQueue>>

(* MUTANT: the flag is raised only once the refresh has been answered.     *)
RefreshUnflagged(t, c) ==
  /\ Denied(t, c) /\ ~ call[t][c].retry
  /\ ~ isRefreshing[t]
  /\ StartsRenewal(t, c)
  /\ UNCHANGED isRefreshing

(* The first 401 refreshes on behalf of all.                               *)
Refresh(t, c) ==
  /\ Denied(t, c) /\ ~ call[t][c].retry
  /\ ~ isRefreshing[t]
  /\ isRefreshing' = [isRefreshing EXCEPT ![t] = TRUE]
  /\ StartsRenewal(t, c)

(* The jar is read when the request leaves.                                *)
SendRenewal(t) ==
  /\ renewal[t].pc = "wanted"
  /\ renewal' = [renewal EXCEPT ![t] = [pc |-> "sent", token |-> jar]]
  /\ UNCHANGED <<access, jar, server, client, expiries, broken, out>>

(* MUTANT: a request without a cookie matches an account without a token.  *)
FindTokenOrNone(t) ==
  /\ renewal[t].pc = "sent"
  /\ renewal' = [renewal EXCEPT ![t].pc =
       IF renewal[t].token = token THEN "found" ELSE "refused"]
  /\ UNCHANGED <<access, jar, server, client, expiries, broken, out>>

(* No cookie, or not the token that is stored: a 401.                      *)
FindToken(t) ==
  /\ renewal[t].pc = "sent"
  /\ renewal' = [renewal EXCEPT ![t].pc =
       IF renewal[t].token # NoCookie /\ renewal[t].token = token THEN "found" ELSE "refused"]
  /\ UNCHANGED <<access, jar, server, client, expiries, broken, out>>

(* A new token is stored and sent.                                         *)
Rotate(t) ==
  /\ renewal[t].pc = "found"
  /\ handed' = handed + 1 /\ token' = handed'
  /\ renewal' = [renewal EXCEPT ![t] = [pc |-> "answered", token |-> handed']]
  /\ UNCHANGED <<access, jar, client, expiries, broken, out>>

(* MUTANT: only the access cookie is set.                                  *)
TakesAccessOnly(t) == access' = TRUE /\ UNCHANGED jar

(* The cookies of a successful answer.                                     *)
TakesCookies(t) == jar' = renewal[t].token /\ access' = TRUE

(* MUTANT: the queue is not processed on success.                          *)
RenewedAlone(t) ==
  /\ renewal[t].pc = "answered"
  /\ TakesCookies(t)
  /\ call' = [call EXCEPT ![t] = [c \in Calls |->
       IF call[t][c].pc = "refreshing" THEN [call[t][c] EXCEPT !.pc = "sent"] ELSE call[t][c]]]
  /\ isRefreshing' = [isRefreshing EXCEPT ![t] = FALSE]
  /\ renewal' = [renewal EXCEPT ![t] = NoRenewal]
  /\ UNCHANGED <<server, page, failedQueue, expiries, broken, out>>

(* Success: the call that refreshed and those that queued go out again.    *)
Renewed(t) ==
  /\ renewal[t].pc = "answered"
  /\ TakesCookies(t)
  /\ call' = [call EXCEPT ![t] = [c \in Calls |->
       IF call[t][c].pc = "refreshing" \/ c \in failedQueue[t]
       THEN [call[t][c] EXCEPT !.pc = "sent"] ELSE call[t][c]]]
  /\ isRefreshing' = [isRefreshing EXCEPT ![t] = FALSE]
  /\ failedQueue' = [failedQueue EXCEPT ![t] = {}]
  /\ renewal' = [renewal EXCEPT ![t] = NoRenewal]
  /\ UNCHANGED <<server, page, expiries, broken, out>>

(* Failure: the tab goes to the login page.                                *)
NotRenewed(t) ==
  /\ renewal[t].pc = "refused"
  /\ Redirect(t)
  /\ UNCHANGED <<access, jar, server, expiries, broken, out>>

----------------------------------------------------------------------------
(* Time and the rest of the world.                                         *)

(* An access token lapses.  It lives for minutes and a call for at most    *)
(* ten seconds, so a retry is served with the token of its refresh.        *)
Retrying == \E t \in Tabs, c \in Calls : call[t][c].pc = "sent" /\ call[t][c].retry

Expire ==
  /\ access /\ ~ Retrying /\ expiries < MaxExpiries
  /\ access' = FALSE /\ expiries' = expiries + 1
  /\ UNCHANGED <<jar, server, client, renewal, broken, out>>

Breaks == MayBreak /\ ~ broken /\ broken' = TRUE

(* Another device logs in or out, or an administrator deactivates the      *)
(* account: the server drops the refresh token.                            *)
EndElsewhere ==
  /\ Breaks
  /\ token' = NoCookie
  /\ UNCHANGED <<access, jar, handed, client, renewal, expiries, out>>

(* A refresh does not get through, or its answer does not.                 *)
LoseAnswer(t) ==
  /\ Breaks
  /\ renewal[t].pc \in {"wanted", "sent", "answered"}
  /\ renewal' = [renewal EXCEPT ![t].pc = "refused"]
  /\ UNCHANGED <<access, jar, server, client, expiries, out>>

Exchange(t) ==
  SendRenewal(t) \/ FindToken(t) \/ Rotate(t) \/ Renewed(t) \/ NotRenewed(t)

Proceed(t, c) ==
  \/ ServeApi(t, c) \/ ServeLogin(t, c) \/ ServeLogout(t, c)
  \/ Succeed(t, c) \/ LoggedOut(t, c)
  \/ GiveUp(t, c) \/ Enqueue(t, c) \/ Refresh(t, c)

BrowserNext ==
  \/ \E t \in Tabs :
       \/ ServeMe(t) \/ Hydrate(t) \/ Exchange(t) \/ LoseAnswer(t)
       \/ \E c \in Calls : Send(t, c) \/ ClickLogout(t, c) \/ Fails(t, c) \/ Proceed(t, c)
  \/ Expire \/ EndElsewhere

BrowserSpec == BrowserInit /\ [][BrowserNext]_browserVars

(* Requests are answered and answers are received.                         *)
BrowserFairSpec ==
  /\ BrowserSpec
  /\ \A t \in Tabs :
       /\ WF_browserVars(ServeMe(t) \/ Hydrate(t))
       /\ WF_browserVars(Exchange(t))
       /\ \A c \in Calls : WF_browserVars(Proceed(t, c))

----------------------------------------------------------------------------
(* Properties                                                              *)

(* Whoever waits for a refresh has one under way: the flag, the call that  *)
(* refreshes for the others and the request itself come and go together,   *)
(* and there is one of each.                                               *)
OneRefreshPerTab ==
  \A t \in Tabs :
    LET refreshing == {c \in Calls : call[t][c].pc = "refreshing"} IN
    /\ \A c, d \in refreshing : c = d
    /\ isRefreshing[t] <=> refreshing # {}
    /\ isRefreshing[t] <=> renewal[t].pc # "none"
    /\ failedQueue[t] = {c \in Calls : call[t][c].pc = "queued"}
    /\ failedQueue[t] # {} => isRefreshing[t]

(* Every call settles: no call waits for ever in the queue.                *)
CallsSettle ==
  \A t \in Tabs, c \in Calls : call[t][c].pc \in Unsettled ~> call[t][c].pc \notin Unsettled

(* A refresh is silent: a tab with the application open is thrown to the   *)
(* login page only when its session was ended, or an answer got lost.      *)
SilentRenewal ==
  [][\A t \in Tabs : page[t] = "app" /\ page'[t] = "login" => broken]_browserVars

(* A logout that was answered lasts: whatever calls and renewals of any    *)
(* tab are still to come, the browser holds no token again until somebody  *)
(* logs in.  A renewal the server may have granted before is the exception:*)
(* its cookies arrive after the logout cleared the jar.                    *)
LogoutLasts == out => jar = NoCookie /\ ~ access

(* Between two exchanges the jar holds the token the server would take.    *)
JarIsCurrent ==
  (\A t \in Tabs : renewal[t].pc # "answered") /\ ~ broken => jar = token
=============================================================================
