------------------------------ MODULE Sessions ------------------------------
(***************************************************************************)
(* Server-side sessions: register, login, refresh and logout, which write  *)
(* a user's refreshToken, and updateUserStatus, which clears it.  A user   *)
(* has one refresh token at a time.  The handlers read the user document,  *)
(* decide, and save it in a later step; save() writes the refreshToken     *)
(* field whatever its value has become in between.                         *)
(***************************************************************************)
EXTENDS Naturals

CONSTANTS Users,      \* accounts, by their unique email
          Requests,   \* slots of concurrent requests
          NoUser,
          MaxTokens   \* bound on the refresh tokens issued

ASSUME NoUserAssumption == NoUser \notin Users
ASSUME BoundAssumption == MaxTokens \in Nat

(* A refresh token is its serial number: random tokens never repeat.       *)
Tokens == 1..MaxTokens
NoToken == 0

VARIABLES
  account,    \* user -> "none", "active" or "inactive"
  stored,     \* user -> the refreshToken whose hash is stored
  issued,     \* tokens generated so far
  held,       \* the tokens that an answer carried to some client
  req         \* slot -> the handler running in it

vars == <<account, stored, issued, held, req>>

(* "arrived": not yet looked at the user.  "checked": register found no    *)
(* such email.  "read": the user document is loaded and passed the checks. *)
(* "saved": the new token is stored, and the answer is not yet sent.       *)
Phases == {"idle", "arrived", "checked", "read", "saved"}
Ops == {"register", "login", "refresh", "logout"}

Handlers ==
  [pc : Phases, op : Ops, user : Users \cup {NoUser}, token : Tokens \cup {NoToken},
   late : BOOLEAN]

(* late: the presented token was stored for nobody when the request came.  *)
Idle == [pc |-> "idle", op |-> "login", user |-> NoUser, token |-> NoToken, late |-> FALSE]

TypeOK ==
  /\ account \in [Users -> {"none", "active", "inactive"}]
  /\ stored \in [Users -> Tokens \cup {NoToken}]
  /\ issued \in 0..MaxTokens
  /\ held \subseteq Tokens
  /\ req \in [Requests -> Handlers]

Init ==
  /\ account = [u \in Users |-> "none"]
  /\ stored = [u \in Users |-> NoToken]
  /\ issued = 0
  /\ held = {}
  /\ req = [r \in Requests |-> Idle]

----------------------------------------------------------------------------
Serving(r, op, pc) == req[r].op = op /\ req[r].pc = pc
Responds(r) == req' = [req EXCEPT ![r] = Idle]
Unmoved == UNCHANGED <<account, stored, issued, held>>

Accepts(r, op, u, t, late) ==
  /\ req[r] = Idle
  /\ req' = [req EXCEPT ![r] = [pc |-> "arrived", op |-> op, user |-> u,
                                token |-> t, late |-> late]]

(* register: findOne by email, then create, which the unique index refuses *)
(* for a second account.  The new document then gets its token.            *)
ArriveRegister(r, u) == Accepts(r, "register", u, NoToken, FALSE) /\ Unmoved

CheckRegister(r) ==
  /\ Serving(r, "register", "arrived")
  /\ IF account[req[r].user] = "none"
     THEN req' = [req EXCEPT ![r].pc = "checked"]
     ELSE Responds(r)
  /\ Unmoved

(* The unique index on email decides between two registrations.            *)
CreateUser(r) ==
  LET u == req[r].user IN
  /\ Serving(r, "register", "checked")
  /\ IF account[u] = "none"
     THEN /\ account' = [account EXCEPT ![u] = "active"]
          /\ req' = [req EXCEPT ![r].pc = "read"]
     ELSE Responds(r) /\ UNCHANGED account
  /\ UNCHANGED <<stored, issued, held>>

(* login: one read of the user, whose isActive is looked at after the      *)
(* password was compared.                                                  *)
ArriveLogin(r, u) == Accepts(r, "login", u, NoToken, FALSE) /\ Unmoved

ReadLogin(r) ==
  /\ Serving(r, "login", "arrived")
  /\ IF account[req[r].user] = "active"
     THEN req' = [req EXCEPT ![r].pc = "read"]
     ELSE Responds(r)
  /\ Unmoved

(* refresh: public; the user is found by the token's hash.                 *)
ArriveRefresh(r, t) ==
  /\ Accepts(r, "refresh", NoUser, t, \A u \in Users : stored[u] # t)
  /\ Unmoved

(* MUTANT: the account is looked up by token only.                         *)
ReadRefreshAnyAccount(r) ==
  /\ Serving(r, "refresh", "arrived")
  /\ \/ \E u \in Users :
          /\ stored[u] = req[r].token
          /\ req' = [req EXCEPT ![r] = [@ EXCEPT !.pc = "read", !.user = u]]
     \/ /\ \A u \in Users : stored[u] # req[r].token
        /\ Responds(r)
  /\ Unmoved

(* 401 without a match, 403 for an inactive account.                       *)
ReadRefresh(r) ==
  /\ Serving(r, "refresh", "arrived")
  /\ \/ \E u \in Users :
          /\ stored[u] = req[r].token
          /\ IF account[u] = "active"
             THEN req' = [req EXCEPT ![r] = [@ EXCEPT !.pc = "read", !.user = u]]
             ELSE Responds(r)
     \/ /\ \A u \in Users : stored[u] # req[r].token
        /\ Responds(r)
  /\ Unmoved

(* save() of register, login and refresh: a new token, stored by _id.      *)
SaveToken(r) ==
  LET u == req[r].user IN
  /\ req[r].pc = "read" /\ req[r].op # "logout"
  /\ issued < MaxTokens
  /\ issued' = issued + 1
  /\ stored' = [stored EXCEPT ![u] = issued']
  /\ req' = [req EXCEPT ![r] = [@ EXCEPT !.pc = "saved", !.token = issued']]
  /\ UNCHANGED <<account, held>>

(* The cookies arrive.                                                     *)
Answer(r) ==
  /\ req[r].pc = "saved"
  /\ held' = held \cup {req[r].token}
  /\ Responds(r)
  /\ UNCHANGED <<account, stored, issued>>

(* logout: protect loads an active user; the save nulls the token.         *)
ArriveLogout(r, u) ==
  /\ account[u] = "active"
  /\ req[r] = Idle
  /\ req' = [req EXCEPT ![r] = [Idle EXCEPT !.pc = "read", !.op = "logout", !.user = u]]
  /\ Unmoved

SaveLogout(r) ==
  /\ Serving(r, "logout", "read")
  /\ stored' = [stored EXCEPT ![req[r].user] = NoToken]
  /\ Responds(r)
  /\ UNCHANGED <<account, issued, held>>

(* MUTANT: a failed refresh gives the presented token back.                *)
FailRestores(r) ==
  /\ req[r].pc # "idle"
  /\ stored' = IF Serving(r, "refresh", "saved") /\ req[r].token > 1
               THEN [stored EXCEPT ![req[r].user] = req[r].token - 1] ELSE stored
  /\ Responds(r)
  /\ UNCHANGED <<account, issued, held>>

(* The process dies, the database fails or the answer is lost.             *)
Fail(r) == req[r].pc # "idle" /\ Responds(r) /\ Unmoved

(* updateUserStatus writes both fields in one conditional update.          *)
Deactivate(u) ==
  /\ account[u] = "active"
  /\ account' = [account EXCEPT ![u] = "inactive"]
  /\ stored' = [stored EXCEPT ![u] = NoToken]
  /\ UNCHANGED <<issued, held, req>>

Reactivate(u) ==
  /\ account[u] = "inactive"
  /\ account' = [account EXCEPT ![u] = "active"]
  /\ UNCHANGED <<stored, issued, held, req>>

Next ==
  \/ \E r \in Requests :
       \/ \E u \in Users : ArriveRegister(r, u) \/ ArriveLogin(r, u) \/ ArriveLogout(r, u)
       \/ \E t \in held : ArriveRefresh(r, t)
       \/ CheckRegister(r) \/ CreateUser(r) \/ ReadLogin(r) \/ ReadRefresh(r)
       \/ SaveToken(r) \/ Answer(r) \/ SaveLogout(r) \/ Fail(r)
  \/ \E u \in Users : Deactivate(u) \/ Reactivate(u)

Spec == Init /\ [][Next]_vars

----------------------------------------------------------------------------
(* Properties                                                              *)

(* The handlers that have read u's account as active and will store a      *)
(* token for it.                                                           *)
Issuing(u) == {r \in Requests : req[r].pc = "read" /\ req[r].op # "logout" /\ req[r].user = u}

(* refresh finds at most one user: no two accounts hold the same token.    *)
OneOwner == \A u, v \in Users : stored[u] = stored[v] /\ stored[u] # NoToken => u = v

(* Reuse is refused: a request that comes with a token that was rotated or *)
(* revoked before never gets past the lookup, for no retired token is ever *)
(* stored again.                                                           *)
LateReuseRefused == \A r \in Requests : req[r].late => req[r].pc = "arrived"

(* Deactivation drains: while an account is inactive no further handler    *)
(* gets as far as issuing a token for it, only those that had read it      *)
(* before, and no handler of its own makes it active again.                *)
DeactivationDrains ==
  [][\A u \in Users : account[u] = "inactive" =>
       /\ Issuing(u)' \subseteq Issuing(u)
       /\ account'[u] = "active" => UNCHANGED req]_vars

=============================================================================
