--------------------------- MODULE SessionsProofs ---------------------------
(***************************************************************************)
(* Type correctness of the server-side sessions, the uniqueness of stored  *)
(* refresh tokens and the refusal of retired ones.  The second half is     *)
(* about the browser's side, ClientSession: one refresh at a time, logouts *)
(* that last and, with one tab, a cookie jar that keeps up with the server *)
(* and refreshes that throw nobody out.                                    *)
(***************************************************************************)
EXTENDS Sessions, ClientSession, TLAPS

(* No stored or handed out token is newer than the last one issued.        *)
Issued ==
  /\ \A u \in Users : stored[u] <= issued
  /\ \A t \in held : t <= issued
  /\ \A r \in Requests : req[r].token <= issued
  /\ \A r \in Requests : req[r].pc = "saved" => req[r].token # NoToken

(* A handler works for an account, but for a refresh that has not looked.  *)
Working ==
  \A r \in Requests :
    /\ req[r].pc # "idle" /\ ~ Serving(r, "refresh", "arrived") => req[r].user \in Users
    /\ req[r].op = "refresh" => req[r].token \in Tokens

(* A request that came too late waits for a lookup that finds nobody.      *)
Retired ==
  \A r \in Requests : req[r].late =>
    /\ req[r].op = "refresh" /\ req[r].pc = "arrived"
    /\ \A u \in Users : stored[u] # req[r].token

Inv == TypeOK /\ Issued /\ Working /\ OneOwner /\ Retired

(* The fields of a handler have their types.                               *)
LEMMA HandlerFields ==
  ASSUME NEW h \in Handlers
  PROVE  /\ h.pc \in Phases /\ h.op \in Ops /\ h.user \in Users \cup {NoUser}
         /\ h.token \in Tokens \cup {NoToken} /\ h.late \in BOOLEAN
  BY DEF Handlers

(* A handler that moves on keeps what it was called with.                  *)
LEMMA Moves ==
  ASSUME TypeOK, NEW r \in Requests, NEW p \in Phases, req' = [req EXCEPT ![r].pc = p]
  PROVE  /\ req' \in [Requests -> Handlers]
         /\ req'[r].pc = p
         /\ req'[r].op = req[r].op /\ req'[r].user = req[r].user
         /\ req'[r].token = req[r].token /\ req'[r].late = req[r].late
         /\ \A q \in Requests \ {r} : req'[q] = req[q]
  BY DEF TypeOK, Handlers

(* A request that is accepted, read or saved becomes another record.       *)
LEMMA Becomes ==
  ASSUME TypeOK, NEW r \in Requests, NEW h \in Handlers, req' = [req EXCEPT ![r] = h]
  PROVE  /\ req' \in [Requests -> Handlers] /\ req'[r] = h
         /\ \A q \in Requests \ {r} : req'[q] = req[q]
  BY DEF TypeOK

(* An answered request frees its slot.                                     *)
LEMMA Leaves ==
  ASSUME TypeOK, NEW r \in Requests, Responds(r)
  PROVE  /\ req' \in [Requests -> Handlers]
         /\ req'[r].pc = "idle" /\ req'[r].op = "login"
         /\ req'[r].token = NoToken /\ req'[r].late = FALSE
         /\ \A q \in Requests \ {r} : req'[q] = req[q]
  BY DEF TypeOK, Responds, Idle, Handlers, Phases, Ops

(* The invariant holds before the first request.                           *)
LEMMA InitInv == Init => Inv
  BY BoundAssumption DEF Init, Inv, TypeOK, Issued, Working, OneOwner, Retired, Serving,
     Handlers, Phases, Ops, Tokens, NoToken, Idle

(* Every step keeps it: one step per action.                               *)
LEMMA NextInv == Inv /\ [Next]_vars => Inv'
  <1> SUFFICES ASSUME Inv, [Next]_vars PROVE Inv'
    OBVIOUS
  <1> USE BoundAssumption DEF Inv
  <1>a. \A q \in Requests : /\ req[q].pc \in Phases /\ req[q].op \in Ops
                            /\ req[q].user \in Users \cup {NoUser}
                            /\ req[q].token \in Tokens \cup {NoToken} /\ req[q].late \in BOOLEAN
    BY HandlerFields DEF TypeOK
  <1>b. /\ issued \in Nat /\ \A u \in Users : stored[u] \in Nat /\ \A t \in held : t \in Nat
        /\ \A q \in Requests : req[q].token \in Nat
    BY <1>a DEF TypeOK, Tokens, NoToken
  <1>c. \A q \in Requests : req[q].late => req[q].token # NoToken
    BY DEF Retired, Working, Tokens, NoToken
  <1>1. ASSUME NEW r \in Requests, NEW u \in Users, ArriveRegister(r, u) PROVE Inv'
    <2> DEFINE h == [pc |-> "arrived", op |-> "register", user |-> u, token |-> NoToken, late |-> FALSE]
    <2>1. h \in Handlers /\ req' = [req EXCEPT ![r] = h]
      BY <1>1, <1>a DEF ArriveRegister, Accepts, TypeOK, Issued, Handlers, Phases, Ops, Tokens, NoToken, Idle, Serving
    <2>2. /\ req' \in [Requests -> Handlers] /\ req'[r] = h
          /\ \A q \in Requests \ {r} : req'[q] = req[q]
      BY <2>1, Becomes
    <2>11. TypeOK'
      BY <1>1, <2>2, <1>a, <1>b, <1>c DEF ArriveRegister, Accepts, TypeOK, Issued, Working, Serving, Unmoved, Phases, Ops, Tokens, NoToken
    <2>12. Issued'
      BY <1>1, <2>2, <1>a, <1>b, <1>c DEF ArriveRegister, Accepts, TypeOK, Issued, Working, Serving, Unmoved, Phases, Ops, NoToken
    <2>13. Working'
      BY <1>1, <2>2, <1>a, <1>b, <1>c DEF ArriveRegister, Accepts, TypeOK, Working, Serving, Unmoved, Phases, Ops, Tokens, NoToken
    <2>14. OneOwner'
      BY <1>1, <2>2, <1>a, <1>b, <1>c DEF ArriveRegister, Accepts, TypeOK, OneOwner, Issued, Serving, Unmoved, Phases, Ops, Tokens, NoToken
    <2>15. Retired'
      BY <1>1, <2>2, <1>a, <1>b, <1>c DEF ArriveRegister, Accepts, TypeOK, Retired, Issued, Working, Serving, Unmoved, Phases, Ops, NoToken
    <2>16. QED
      BY <2>11, <2>12, <2>13, <2>14, <2>15
  <1>2. ASSUME NEW r \in Requests, NEW u \in Users, ArriveLogin(r, u) PROVE Inv'
    <2> DEFINE h == [pc |-> "arrived", op |-> "login", user |-> u, token |-> NoToken, late |-> FALSE]
    <2>1. h \in Handlers /\ req' = [req EXCEPT ![r] = h]
      BY <1>2, <1>a DEF ArriveLogin, Accepts, TypeOK, Issued, Handlers, Phases, Ops, Tokens, NoToken, Idle, Serving
    <2>2. /\ req' \in [Requests -> Handlers] /\ req'[r] = h
          /\ \A q \in Requests \ {r} : req'[q] = req[q]
      BY <2>1, Becomes
    <2>11. TypeOK'
      BY <1>2, <2>2, <1>a, <1>b, <1>c DEF ArriveLogin, Accepts, TypeOK, Issued, Working, Serving, Unmoved, Phases, Ops, Tokens, NoToken
    <2>12. Issued'
      BY <1>2, <2>2, <1>a, <1>b, <1>c DEF ArriveLogin, Accepts, TypeOK, Issued, Working, Serving, Unmoved, Phases, Ops, NoToken
    <2>13. Working'
      BY <1>2, <2>2, <1>a, <1>b, <1>c DEF ArriveLogin, Accepts, TypeOK, Working, Serving, Unmoved, Phases, Ops, Tokens, NoToken
    <2>14. OneOwner'
      BY <1>2, <2>2, <1>a, <1>b, <1>c DEF ArriveLogin, Accepts, TypeOK, OneOwner, Issued, Serving, Unmoved, Phases, Ops, Tokens, NoToken
    <2>15. Retired'
      BY <1>2, <2>2, <1>a, <1>b, <1>c DEF ArriveLogin, Accepts, TypeOK, Retired, Issued, Working, Serving, Unmoved, Phases, Ops, NoToken
    <2>16. QED
      BY <2>11, <2>12, <2>13, <2>14, <2>15
  <1>3. ASSUME NEW r \in Requests, NEW u \in Users, ArriveLogout(r, u) PROVE Inv'
    <2> DEFINE h == [Idle EXCEPT !.pc = "read", !.op = "logout", !.user = u]
    <2>1. h \in Handlers /\ req' = [req EXCEPT ![r] = h]
      BY <1>3, <1>a DEF ArriveLogout, TypeOK, Issued, Handlers, Phases, Ops, Tokens, NoToken, Idle, Serving
    <2>2. /\ req' \in [Requests -> Handlers] /\ req'[r] = h
          /\ \A q \in Requests \ {r} : req'[q] = req[q]
      BY <2>1, Becomes
    <2>3. h.pc = "read" /\ h.op = "logout" /\ h.user = u /\ h.token = NoToken /\ h.late = FALSE
      BY DEF Idle
    <2> HIDE DEF h
    <2>11. TypeOK'
      BY <1>3, <2>2, <2>3, <1>a, <1>b, <1>c DEF ArriveLogout, TypeOK, Issued, Working, Serving, Unmoved, Phases, Ops, Tokens, NoToken
    <2>12. Issued'
      BY <1>3, <2>2, <2>3, <1>a, <1>b, <1>c DEF ArriveLogout, TypeOK, Issued, Working, Serving, Unmoved, Phases, Ops, NoToken
    <2>13. Working'
      BY <1>3, <2>2, <2>3, <1>a, <1>b, <1>c DEF ArriveLogout, TypeOK, Working, Serving, Unmoved, Phases, Ops, Tokens, NoToken
    <2>14. OneOwner'
      BY <1>3, <2>2, <2>3, <1>a, <1>b, <1>c DEF ArriveLogout, TypeOK, OneOwner, Issued, Serving, Unmoved, Phases, Ops, Tokens, NoToken
    <2>15. Retired'
      BY <1>3, <2>2, <2>3, <1>a, <1>b, <1>c DEF ArriveLogout, TypeOK, Retired, Issued, Working, Serving, Unmoved, Phases, Ops, NoToken
    <2>16. QED
      BY <2>11, <2>12, <2>13, <2>14, <2>15
  <1>4. ASSUME NEW r \in Requests, NEW t \in held, ArriveRefresh(r, t) PROVE Inv'
    <2> DEFINE h == [pc |-> "arrived", op |-> "refresh", user |-> NoUser, token |-> t,
                     late |-> \A u \in Users : stored[u] # t]
    <2>1. h \in Handlers /\ req' = [req EXCEPT ![r] = h]
      BY <1>4, <1>a DEF ArriveRefresh, Accepts, TypeOK, Issued, Handlers, Phases, Ops, Tokens, NoToken, Idle, Serving
    <2>2. /\ req' \in [Requests -> Handlers] /\ req'[r] = h
          /\ \A q \in Requests \ {r} : req'[q] = req[q]
      BY <2>1, Becomes
    <2>3. /\ h.pc = "arrived" /\ h.op = "refresh" /\ h.token = t /\ t \in Tokens /\ t <= issued
          /\ h.late => \A u \in Users : stored[u] # t
      BY DEF Issued, TypeOK, Tokens
    <2> HIDE DEF h
    <2>11. TypeOK'
      BY <1>4, <2>2, <2>3, <1>a, <1>b, <1>c DEF ArriveRefresh, Accepts, TypeOK, Issued, Working, Serving, Unmoved, Phases, Ops, Tokens, NoToken
    <2>12. Issued'
      BY <1>4, <2>2, <2>3, <1>a, <1>b, <1>c DEF ArriveRefresh, Accepts, TypeOK, Issued, Working, Serving, Unmoved, Phases, Ops, NoToken
    <2>13. Working'
      BY <1>4, <2>2, <2>3, <1>a, <1>b, <1>c DEF ArriveRefresh, Accepts, TypeOK, Working, Serving, Unmoved, Phases, Ops, Tokens, NoToken
    <2>14. OneOwner'
      BY <1>4, <2>2, <2>3, <1>a, <1>b, <1>c DEF ArriveRefresh, Accepts, TypeOK, OneOwner, Issued, Serving, Unmoved, Phases, Ops, Tokens, NoToken
    <2>15. Retired'
      BY <1>4, <2>2, <2>3, <1>a, <1>b, <1>c DEF ArriveRefresh, Accepts, TypeOK, Retired, Issued, Working, Serving, Unmoved, Phases, Ops, NoToken
    <2>16. QED
      BY <2>11, <2>12, <2>13, <2>14, <2>15
  <1>5. ASSUME NEW r \in Requests, CheckRegister(r) PROVE Inv'
    <2>1. CASE req' = [req EXCEPT ![r].pc = "checked"]
      <3>2. /\ req' \in [Requests -> Handlers]
            /\ req'[r].pc = "checked"
            /\ req'[r].op = req[r].op /\ req'[r].user = req[r].user
            /\ req'[r].token = req[r].token /\ req'[r].late = req[r].late
            /\ \A q \in Requests \ {r} : req'[q] = req[q]
        BY <2>1, Moves DEF Phases
      <3>11. TypeOK'
        BY <1>5, <3>2, <1>a, <1>b, <1>c DEF CheckRegister, TypeOK, Issued, Working, Serving, Unmoved, Phases, Ops, Tokens, NoToken
      <3>12. Issued'
        BY <1>5, <3>2, <1>a, <1>b, <1>c DEF CheckRegister, TypeOK, Issued, Working, Serving, Unmoved, Phases, Ops, NoToken
      <3>13. Working'
        BY <1>5, <3>2, <1>a, <1>b, <1>c DEF CheckRegister, TypeOK, Working, Serving, Unmoved, Phases, Ops, Tokens, NoToken
      <3>14. OneOwner'
        BY <1>5, <3>2, <1>a, <1>b, <1>c DEF CheckRegister, TypeOK, OneOwner, Issued, Serving, Unmoved, Phases, Ops, Tokens, NoToken
      <3>15. Retired'
        BY <1>5, <3>2, <1>a, <1>b, <1>c DEF CheckRegister, TypeOK, Retired, Issued, Working, Serving, Unmoved, Phases, Ops, NoToken
      <3>16. QED
        BY <3>11, <3>12, <3>13, <3>14, <3>15
    <2>2. CASE Responds(r)
      <3>2. /\ req' \in [Requests -> Handlers]
            /\ req'[r].pc = "idle" /\ req'[r].op = "login"
            /\ req'[r].token = NoToken /\ req'[r].late = FALSE
            /\ \A q \in Requests \ {r} : req'[q] = req[q]
        BY <2>2, Leaves
      <3>11. TypeOK'
        BY <1>5, <3>2, <1>a, <1>b, <1>c DEF CheckRegister, TypeOK, Issued, Working, Serving, Unmoved, Phases, Ops, Tokens, NoToken
      <3>12. Issued'
        BY <1>5, <3>2, <1>a, <1>b, <1>c DEF CheckRegister, TypeOK, Issued, Working, Serving, Unmoved, Phases, Ops, NoToken
      <3>13. Working'
        BY <1>5, <3>2, <1>a, <1>b, <1>c DEF CheckRegister, TypeOK, Working, Serving, Unmoved, Phases, Ops, Tokens, NoToken
      <3>14. OneOwner'
        BY <1>5, <3>2, <1>a, <1>b, <1>c DEF CheckRegister, TypeOK, OneOwner, Issued, Serving, Unmoved, Phases, Ops, Tokens, NoToken
      <3>15. Retired'
        BY <1>5, <3>2, <1>a, <1>b, <1>c DEF CheckRegister, TypeOK, Retired, Issued, Working, Serving, Unmoved, Phases, Ops, NoToken
      <3>16. QED
        BY <3>11, <3>12, <3>13, <3>14, <3>15
    <2>3. QED
      BY <1>5, <2>1, <2>2 DEF CheckRegister
  <1>6. ASSUME NEW r \in Requests, CreateUser(r) PROVE Inv'
    <2>1. CASE req' = [req EXCEPT ![r].pc = "read"]
      <3>2. /\ req' \in [Requests -> Handlers]
            /\ req'[r].pc = "read"
            /\ req'[r].op = req[r].op /\ req'[r].user = req[r].user
            /\ req'[r].token = req[r].token /\ req'[r].late = req[r].late
            /\ \A q \in Requests \ {r} : req'[q] = req[q]
        BY <2>1, Moves DEF Phases
      <3>11. TypeOK'
        BY <1>6, <3>2, <1>a, <1>b, <1>c DEF CreateUser, TypeOK, Issued, Working, Serving, Unmoved, Phases, Ops, Tokens, NoToken
      <3>12. Issued'
        BY <1>6, <3>2, <1>a, <1>b, <1>c DEF CreateUser, TypeOK, Issued, Working, Serving, Unmoved, Phases, Ops, NoToken
      <3>13. Working'
        BY <1>6, <3>2, <1>a, <1>b, <1>c DEF CreateUser, TypeOK, Working, Serving, Unmoved, Phases, Ops, Tokens, NoToken
      <3>14. OneOwner'
        BY <1>6, <3>2, <1>a, <1>b, <1>c DEF CreateUser, TypeOK, OneOwner, Issued, Serving, Unmoved, Phases, Ops, Tokens, NoToken
      <3>15. Retired'
        BY <1>6, <3>2, <1>a, <1>b, <1>c DEF CreateUser, TypeOK, Retired, Issued, Working, Serving, Unmoved, Phases, Ops, NoToken
      <3>16. QED
        BY <3>11, <3>12, <3>13, <3>14, <3>15
    <2>2. CASE Responds(r)
      <3>2. /\ req' \in [Requests -> Handlers]
            /\ req'[r].pc = "idle" /\ req'[r].op = "login"
            /\ req'[r].token = NoToken /\ req'[r].late = FALSE
            /\ \A q \in Requests \ {r} : req'[q] = req[q]
        BY <2>2, Leaves
      <3>11. TypeOK'
        BY <1>6, <3>2, <1>a, <1>b, <1>c DEF CreateUser, TypeOK, Issued, Working, Serving, Unmoved, Phases, Ops, Tokens, NoToken
      <3>12. Issued'
        BY <1>6, <3>2, <1>a, <1>b, <1>c DEF CreateUser, TypeOK, Issued, Working, Serving, Unmoved, Phases, Ops, NoToken
      <3>13. Working'
        BY <1>6, <3>2, <1>a, <1>b, <1>c DEF CreateUser, TypeOK, Working, Serving, Unmoved, Phases, Ops, Tokens, NoToken
      <3>14. OneOwner'
        BY <1>6, <3>2, <1>a, <1>b, <1>c DEF CreateUser, TypeOK, OneOwner, Issued, Serving, Unmoved, Phases, Ops, Tokens, NoToken
      <3>15. Retired'
        BY <1>6, <3>2, <1>a, <1>b, <1>c DEF CreateUser, TypeOK, Retired, Issued, Working, Serving, Unmoved, Phases, Ops, NoToken
      <3>16. QED
        BY <3>11, <3>12, <3>13, <3>14, <3>15
    <2>3. QED
      BY <1>6, <2>1, <2>2 DEF CreateUser
  <1>7. ASSUME NEW r \in Requests, ReadLogin(r) PROVE Inv'
    <2>1. CASE req' = [req EXCEPT ![r].pc = "read"]
      <3>2. /\ req' \in [Requests -> Handlers]
            /\ req'[r].pc = "read"
            /\ req'[r].op = req[r].op /\ req'[r].user = req[r].user
            /\ req'[r].token = req[r].token /\ req'[r].late = req[r].late
            /\ \A q \in Requests \ {r} : req'[q] = req[q]
        BY <2>1, Moves DEF Phases
      <3>11. TypeOK'
        BY <1>7, <3>2, <1>a, <1>b, <1>c DEF ReadLogin, TypeOK, Issued, Working, Serving, Unmoved, Phases, Ops, Tokens, NoToken
      <3>12. Issued'
        BY <1>7, <3>2, <1>a, <1>b, <1>c DEF ReadLogin, TypeOK, Issued, Working, Serving, Unmoved, Phases, Ops, NoToken
      <3>13. Working'
        BY <1>7, <3>2, <1>a, <1>b, <1>c DEF ReadLogin, TypeOK, Working, Serving, Unmoved, Phases, Ops, Tokens, NoToken
      <3>14. OneOwner'
        BY <1>7, <3>2, <1>a, <1>b, <1>c DEF ReadLogin, TypeOK, OneOwner, Issued, Serving, Unmoved, Phases, Ops, Tokens, NoToken
      <3>15. Retired'
        BY <1>7, <3>2, <1>a, <1>b, <1>c DEF ReadLogin, TypeOK, Retired, Issued, Working, Serving, Unmoved, Phases, Ops, NoToken
      <3>16. QED
        BY <3>11, <3>12, <3>13, <3>14, <3>15
    <2>2. CASE Responds(r)
      <3>2. /\ req' \in [Requests -> Handlers]
            /\ req'[r].pc = "idle" /\ req'[r].op = "login"
            /\ req'[r].token = NoToken /\ req'[r].late = FALSE
            /\ \A q \in Requests \ {r} : req'[q] = req[q]
        BY <2>2, Leaves
      <3>11. TypeOK'
        BY <1>7, <3>2, <1>a, <1>b, <1>c DEF ReadLogin, TypeOK, Issued, Working, Serving, Unmoved, Phases, Ops, Tokens, NoToken
      <3>12. Issued'
        BY <1>7, <3>2, <1>a, <1>b, <1>c DEF ReadLogin, TypeOK, Issued, Working, Serving, Unmoved, Phases, Ops, NoToken
      <3>13. Working'
        BY <1>7, <3>2, <1>a, <1>b, <1>c DEF ReadLogin, TypeOK, Working, Serving, Unmoved, Phases, Ops, Tokens, NoToken
      <3>14. OneOwner'
        BY <1>7, <3>2, <1>a, <1>b, <1>c DEF ReadLogin, TypeOK, OneOwner, Issued, Serving, Unmoved, Phases, Ops, Tokens, NoToken
      <3>15. Retired'
        BY <1>7, <3>2, <1>a, <1>b, <1>c DEF ReadLogin, TypeOK, Retired, Issued, Working, Serving, Unmoved, Phases, Ops, NoToken
      <3>16. QED
        BY <3>11, <3>12, <3>13, <3>14, <3>15
    <2>3. QED
      BY <1>7, <2>1, <2>2 DEF ReadLogin
  <1>8. ASSUME NEW r \in Requests, ReadRefresh(r) PROVE Inv'
    <2>0. UNCHANGED <<account, stored, issued, held>> /\ Serving(r, "refresh", "arrived")
      BY <1>8 DEF ReadRefresh, Unmoved
    <2>1. ASSUME NEW u \in Users, stored[u] = req[r].token,
                 req' = [req EXCEPT ![r] = [@ EXCEPT !.pc = "read", !.user = u]]
          PROVE  Inv'
      <3> DEFINE h == [req[r] EXCEPT !.pc = "read", !.user = u]
      <3>1. h \in Handlers /\ req' = [req EXCEPT ![r] = h]
        BY <2>1 DEF TypeOK, Handlers, Phases
      <3>2. /\ req' \in [Requests -> Handlers] /\ req'[r] = h
            /\ \A q \in Requests \ {r} : req'[q] = req[q]
        BY <3>1, Becomes
      <3>3. /\ h.pc = "read" /\ h.op = req[r].op /\ h.user = u
            /\ h.token = req[r].token /\ h.late = req[r].late
        BY DEF TypeOK, Handlers
      <3>4. ~ req[r].late
        BY <2>1 DEF Retired
      <3> HIDE DEF h
      <3>11. TypeOK'
        BY <2>0, <2>1, <3>2, <3>3, <3>4, <1>a, <1>b, <1>c DEF TypeOK, Issued, Working, Serving, Unmoved, Phases, Ops, Tokens, NoToken
      <3>12. Issued'
        BY <2>0, <2>1, <3>2, <3>3, <3>4, <1>a, <1>b, <1>c DEF TypeOK, Issued, Working, Serving, Unmoved, Phases, Ops, NoToken
      <3>13. Working'
        BY <2>0, <2>1, <3>2, <3>3, <3>4, <1>a, <1>b, <1>c DEF TypeOK, Working, Serving, Unmoved, Phases, Ops, Tokens, NoToken
      <3>14. OneOwner'
        BY <2>0, <2>1, <3>2, <3>3, <3>4, <1>a, <1>b, <1>c DEF TypeOK, OneOwner, Issued, Serving, Unmoved, Phases, Ops, Tokens, NoToken
      <3>15. Retired'
        BY <2>0, <2>1, <3>2, <3>3, <3>4, <1>a, <1>b, <1>c DEF TypeOK, Retired, Issued, Working, Serving, Unmoved, Phases, Ops, NoToken
      <3>16. QED
        BY <3>11, <3>12, <3>13, <3>14, <3>15
    <2>2. CASE Responds(r)
      <3>2. /\ req' \in [Requests -> Handlers]
            /\ req'[r].pc = "idle" /\ req'[r].op = "login"
            /\ req'[r].token = NoToken /\ req'[r].late = FALSE
            /\ \A q \in Requests \ {r} : req'[q] = req[q]
        BY <2>2, Leaves
      <3>11. TypeOK'
        BY <2>0, <3>2, <1>a, <1>b, <1>c DEF TypeOK, Issued, Working, Serving, Unmoved, Phases, Ops, Tokens, NoToken
      <3>12. Issued'
        BY <2>0, <3>2, <1>a, <1>b, <1>c DEF TypeOK, Issued, Working, Serving, Unmoved, Phases, Ops, NoToken
      <3>13. Working'
        BY <2>0, <3>2, <1>a, <1>b, <1>c DEF TypeOK, Working, Serving, Unmoved, Phases, Ops, Tokens, NoToken
      <3>14. OneOwner'
        BY <2>0, <3>2, <1>a, <1>b, <1>c DEF TypeOK, OneOwner, Issued, Serving, Unmoved, Phases, Ops, Tokens, NoToken
      <3>15. Retired'
        BY <2>0, <3>2, <1>a, <1>b, <1>c DEF TypeOK, Retired, Issued, Working, Serving, Unmoved, Phases, Ops, NoToken
      <3>16. QED
        BY <3>11, <3>12, <3>13, <3>14, <3>15
    <2>3. QED
      BY <1>8, <2>1, <2>2 DEF ReadRefresh
  <1>9. ASSUME NEW r \in Requests, SaveToken(r) PROVE Inv'
    <2>0. issued' = issued + 1 /\ issued' \in Tokens /\ issued \in Nat
      BY <1>9 DEF SaveToken, TypeOK, Tokens
    <2> DEFINE h == [req[r] EXCEPT !.pc = "saved", !.token = issued + 1]
    <2>1. h \in Handlers /\ req' = [req EXCEPT ![r] = h]
      BY <1>9, <1>a, <2>0 DEF SaveToken, TypeOK, Issued, Handlers, Phases, Ops, Tokens, NoToken, Idle, Serving
    <2>2. /\ req' \in [Requests -> Handlers] /\ req'[r] = h
          /\ \A q \in Requests \ {r} : req'[q] = req[q]
      BY <2>1, Becomes
    <2>3. /\ h.pc = "saved" /\ h.op = req[r].op /\ h.user = req[r].user
          /\ h.token = issued + 1 /\ h.late = req[r].late
      BY DEF TypeOK, Handlers
    <2> HIDE DEF h
    <2>11. TypeOK'
      BY <1>9, <2>0, <2>2, <2>3, <1>a, <1>b, <1>c DEF SaveToken, TypeOK, Issued, Working, Serving, Unmoved, Phases, Ops, Tokens, NoToken
    <2>12. Issued'
      BY <1>9, <2>0, <2>2, <2>3, <1>a, <1>b, <1>c DEF SaveToken, TypeOK, Issued, Working, Serving, Unmoved, Phases, Ops, Tokens, NoToken
    <2>13. Working'
      BY <1>9, <2>0, <2>2, <2>3, <1>a, <1>b, <1>c DEF SaveToken, TypeOK, Working, Serving, Unmoved, Phases, Ops, Tokens, NoToken
    <2>14. OneOwner'
      BY <1>9, <2>0, <2>2, <2>3, <1>a, <1>b, <1>c DEF SaveToken, TypeOK, OneOwner, Issued, Serving, Unmoved, Phases, Ops, Tokens, NoToken
    <2>15. Retired'
      BY <1>9, <2>0, <2>2, <2>3, <1>a, <1>b, <1>c DEF SaveToken, TypeOK, Retired, Issued, Working, Serving, Unmoved, Phases, Ops, Tokens, NoToken
    <2>16. QED
      BY <2>11, <2>12, <2>13, <2>14, <2>15
  <1>10. ASSUME NEW r \in Requests, Answer(r) PROVE Inv'
    <2>1. Responds(r)
      BY <1>10 DEF Answer
    <2>2. /\ req' \in [Requests -> Handlers]
          /\ req'[r].pc = "idle" /\ req'[r].op = "login"
          /\ req'[r].token = NoToken /\ req'[r].late = FALSE
          /\ \A q \in Requests \ {r} : req'[q] = req[q]
      BY <2>1, Leaves
    <2>11. TypeOK'
      BY <1>10, <2>2, <1>a, <1>b, <1>c DEF Answer, TypeOK, Issued, Working, Serving, Unmoved, Phases, Ops, Tokens, NoToken
    <2>12. Issued'
      BY <1>10, <2>2, <1>a, <1>b, <1>c DEF Answer, TypeOK, Issued, Working, Serving, Unmoved, Phases, Ops, NoToken
    <2>13. Working'
      BY <1>10, <2>2, <1>a, <1>b, <1>c DEF Answer, TypeOK, Working, Serving, Unmoved, Phases, Ops, Tokens, NoToken
    <2>14. OneOwner'
      BY <1>10, <2>2, <1>a, <1>b, <1>c DEF Answer, TypeOK, OneOwner, Issued, Serving, Unmoved, Phases, Ops, Tokens, NoToken
    <2>15. Retired'
      BY <1>10, <2>2, <1>a, <1>b, <1>c DEF Answer, TypeOK, Retired, Issued, Working, Serving, Unmoved, Phases, Ops, NoToken
    <2>16. QED
      BY <2>11, <2>12, <2>13, <2>14, <2>15
  <1>11. ASSUME NEW r \in Requests, SaveLogout(r) PROVE Inv'
    <2>1. Responds(r)
      BY <1>11 DEF SaveLogout
    <2>2. /\ req' \in [Requests -> Handlers]
          /\ req'[r].pc = "idle" /\ req'[r].op = "login"
          /\ req'[r].token = NoToken /\ req'[r].late = FALSE
          /\ \A q \in Requests \ {r} : req'[q] = req[q]
      BY <2>1, Leaves
    <2>11. TypeOK'
      BY <1>11, <2>2, <1>a, <1>b, <1>c DEF SaveLogout, TypeOK, Issued, Working, Serving, Unmoved, Phases, Ops, Tokens, NoToken
    <2>12. Issued'
      BY <1>11, <2>2, <1>a, <1>b, <1>c DEF SaveLogout, TypeOK, Issued, Working, Serving, Unmoved, Phases, Ops, NoToken
    <2>13. Working'
      BY <1>11, <2>2, <1>a, <1>b, <1>c DEF SaveLogout, TypeOK, Working, Serving, Unmoved, Phases, Ops, Tokens, NoToken
    <2>14. OneOwner'
      BY <1>11, <2>2, <1>a, <1>b, <1>c DEF SaveLogout, TypeOK, OneOwner, Issued, Serving, Unmoved, Phases, Ops, Tokens, NoToken
    <2>15. Retired'
      BY <1>11, <2>2, <1>a, <1>b, <1>c DEF SaveLogout, TypeOK, Retired, Issued, Working, Serving, Unmoved, Phases, Ops, NoToken
    <2>16. QED
      BY <2>11, <2>12, <2>13, <2>14, <2>15
  <1>12. ASSUME NEW r \in Requests, Fail(r) PROVE Inv'
    <2>1. Responds(r)
      BY <1>12 DEF Fail
    <2>2. /\ req' \in [Requests -> Handlers]
          /\ req'[r].pc = "idle" /\ req'[r].op = "login"
          /\ req'[r].token = NoToken /\ req'[r].late = FALSE
          /\ \A q \in Requests \ {r} : req'[q] = req[q]
      BY <2>1, Leaves
    <2>11. TypeOK'
      BY <1>12, <2>2, <1>a, <1>b, <1>c DEF Fail, TypeOK, Issued, Working, Serving, Unmoved, Phases, Ops, Tokens, NoToken
    <2>12. Issued'
      BY <1>12, <2>2, <1>a, <1>b, <1>c DEF Fail, TypeOK, Issued, Working, Serving, Unmoved, Phases, Ops, NoToken
    <2>13. Working'
      BY <1>12, <2>2, <1>a, <1>b, <1>c DEF Fail, TypeOK, Working, Serving, Unmoved, Phases, Ops, Tokens, NoToken
    <2>14. OneOwner'
      BY <1>12, <2>2, <1>a, <1>b, <1>c DEF Fail, TypeOK, OneOwner, Issued, Serving, Unmoved, Phases, Ops, Tokens, NoToken
    <2>15. Retired'
      BY <1>12, <2>2, <1>a, <1>b, <1>c DEF Fail, TypeOK, Retired, Issued, Working, Serving, Unmoved, Phases, Ops, NoToken
    <2>16. QED
      BY <2>11, <2>12, <2>13, <2>14, <2>15
  <1>13. ASSUME NEW u \in Users, Deactivate(u) PROVE Inv'
    <2>11. TypeOK'
      BY <1>13, <1>a, <1>b, <1>c DEF Deactivate, TypeOK, Issued, Working, Serving, Unmoved, Phases, Ops, Tokens, NoToken
    <2>12. Issued'
      BY <1>13, <1>a, <1>b, <1>c DEF Deactivate, TypeOK, Issued, Working, Serving, Unmoved, Phases, Ops, NoToken
    <2>13. Working'
      BY <1>13, <1>a, <1>b, <1>c DEF Deactivate, TypeOK, Working, Serving, Unmoved, Phases, Ops, Tokens, NoToken
    <2>14. OneOwner'
      BY <1>13, <1>a, <1>b, <1>c DEF Deactivate, TypeOK, OneOwner, Issued, Serving, Unmoved, Phases, Ops, Tokens, NoToken
    <2>15. Retired'
      BY <1>13, <1>a, <1>b, <1>c DEF Deactivate, TypeOK, Retired, Issued, Working, Serving, Unmoved, Phases, Ops, NoToken
    <2>16. QED
      BY <2>11, <2>12, <2>13, <2>14, <2>15
  <1>14. ASSUME NEW u \in Users, Reactivate(u) PROVE Inv'
    <2>11. TypeOK'
      BY <1>14, <1>a, <1>b, <1>c DEF Reactivate, TypeOK, Issued, Working, Serving, Unmoved, Phases, Ops, Tokens, NoToken
    <2>12. Issued'
      BY <1>14, <1>a, <1>b, <1>c DEF Reactivate, TypeOK, Issued, Working, Serving, Unmoved, Phases, Ops, NoToken
    <2>13. Working'
      BY <1>14, <1>a, <1>b, <1>c DEF Reactivate, TypeOK, Working, Serving, Unmoved, Phases, Ops, Tokens, NoToken
    <2>14. OneOwner'
      BY <1>14, <1>a, <1>b, <1>c DEF Reactivate, TypeOK, OneOwner, Issued, Serving, Unmoved, Phases, Ops, Tokens, NoToken
    <2>15. Retired'
      BY <1>14, <1>a, <1>b, <1>c DEF Reactivate, TypeOK, Retired, Issued, Working, Serving, Unmoved, Phases, Ops, NoToken
    <2>16. QED
      BY <2>11, <2>12, <2>13, <2>14, <2>15
  <1>15. CASE UNCHANGED vars
    BY <1>15 DEF vars, TypeOK, Issued, Working, OneOwner, Retired, Serving
  <1>16. QED
    BY <1>1, <1>2, <1>3, <1>4, <1>5, <1>6, <1>7, <1>8, <1>9, <1>10, <1>11, <1>12, <1>13, <1>14, <1>15 DEF Next

(* It holds throughout.                                                    *)
THEOREM Invariance == Spec => []Inv
  BY InitInv, NextInv, PTL DEF Spec

(* Accounts, tokens and handlers stay well formed.                         *)
THEOREM TypeCorrect == Spec => []TypeOK
  BY Invariance, PTL DEF Inv

(* No two accounts ever hold the same refresh token, so that the lookup by *)
(* the token's hash finds one account.                                     *)
THEOREM TokensAreUnique == Spec => []OneOwner
  BY Invariance, PTL DEF Inv

(* A refresh that comes with a retired token never passes the lookup.      *)
THEOREM ReuseRefused == Spec => []LateReuseRefused
  <1>1. Inv => LateReuseRefused
    BY DEF Inv, Retired, LateReuseRefused
  <1>2. QED
    BY <1>1, Invariance, PTL

(* Nobody new gets as far as issuing a token for an inactive account.      *)
LEMMA IssuingShrinks ==
  ASSUME Inv, [Next]_vars, NEW u \in Users, account[u] = "inactive"
  PROVE  Issuing(u)' \subseteq Issuing(u)
<1> SUFFICES ASSUME NEW q \in Requests, req'[q] # req[q],
                    req'[q].pc = "read", req'[q].op # "logout", req'[q].user = u
             PROVE  FALSE
  BY DEF Issuing
<1>1. req \in [Requests -> Handlers] /\ req[q] \in Handlers
  BY DEF Inv, TypeOK
<1>2. ASSUME NEW r \in Requests, NEW h, h.pc # "read", req' = [req EXCEPT ![r] = h]
      PROVE  FALSE
  BY <1>1, <1>2
<1>3. Idle.pc # "read"
  BY DEF Idle
<1>4. ASSUME NEW r \in Requests, NEW v \in Users, ArriveRegister(r, v) \/ ArriveLogin(r, v)
      PROVE  FALSE
  BY <1>2, <1>4 DEF ArriveRegister, ArriveLogin, Accepts
<1>5. ASSUME NEW r \in Requests, NEW v \in Users, ArriveLogout(r, v) PROVE FALSE
  BY <1>1, <1>5 DEF ArriveLogout, Idle
<1>6. ASSUME NEW r \in Requests, NEW t \in held, ArriveRefresh(r, t) PROVE FALSE
  BY <1>2, <1>6 DEF ArriveRefresh, Accepts
<1>7. ASSUME NEW r \in Requests, Responds(r) PROVE FALSE
  BY <1>2, <1>3, <1>7 DEF Responds
<1>8. ASSUME NEW r \in Requests, CheckRegister(r) PROVE FALSE
  BY <1>1, <1>7, <1>8 DEF CheckRegister, Handlers
<1>9. ASSUME NEW r \in Requests, CreateUser(r) \/ ReadLogin(r) PROVE FALSE
  <2>1. account[req[r].user] # "inactive" /\ req' = [req EXCEPT ![r].pc = "read"]
    BY <1>7, <1>9 DEF CreateUser, ReadLogin
  <2>2. QED  BY <1>1, <2>1 DEF Handlers
<1>10. ASSUME NEW r \in Requests, ReadRefresh(r) PROVE FALSE
  <2>1. PICK v \in Users : /\ account[v] = "active"
                           /\ req' = [req EXCEPT ![r] = [@ EXCEPT !.pc = "read", !.user = v]]
    BY <1>7, <1>10 DEF ReadRefresh
  <2>2. QED  BY <1>1, <2>1 DEF Handlers
<1>11. ASSUME NEW r \in Requests, SaveToken(r) PROVE FALSE
  BY <1>1, <1>11 DEF SaveToken, Handlers
<1>12. ASSUME NEW r \in Requests, Answer(r) \/ SaveLogout(r) \/ Fail(r) PROVE FALSE
  BY <1>7, <1>12 DEF Answer, SaveLogout, Fail
<1>13. ASSUME NEW v \in Users, Deactivate(v) \/ Reactivate(v) PROVE FALSE
  BY <1>13 DEF Deactivate, Reactivate
<1>14. CASE UNCHANGED vars
  BY <1>14 DEF vars
<1>15. QED
  BY <1>4, <1>5, <1>6, <1>8, <1>9, <1>10, <1>11, <1>12, <1>13, <1>14 DEF Next

(* Only an admin's step makes an inactive account active.                  *)
LEMMA OnlyReactivated ==
  ASSUME Inv, [Next]_vars, NEW u \in Users, account[u] = "inactive", account'[u] = "active"
  PROVE  UNCHANGED req
<1>1. account \in [Users -> {"none", "active", "inactive"}]
  BY DEF Inv, TypeOK
<1>2. ASSUME NEW r \in Requests, CreateUser(r) PROVE FALSE
  BY <1>1, <1>2 DEF CreateUser
<1>3. ASSUME account' = account PROVE FALSE
  BY <1>3
<1>4. ASSUME NEW v \in Users, Deactivate(v) \/ Reactivate(v) PROVE UNCHANGED req
  BY <1>4 DEF Deactivate, Reactivate
<1>5. QED
  BY <1>2, <1>3, <1>4
     DEF Next, ArriveRegister, ArriveLogin, ArriveLogout, ArriveRefresh, CheckRegister,
         ReadLogin, ReadRefresh, SaveToken, Answer, SaveLogout, Fail, Unmoved, vars

(* Deactivation drains: what is not yet reading the account as active      *)
(* never issues for it, until an admin makes it active again.              *)
THEOREM InactiveDrains == Spec => DeactivationDrains
  <1>1. Inv /\ [Next]_vars =>
          [\A u \in Users : account[u] = "inactive" =>
             /\ Issuing(u)' \subseteq Issuing(u)
             /\ account'[u] = "active" => UNCHANGED req]_vars
    BY IssuingShrinks, OnlyReactivated
  <1>2. QED
    BY <1>1, Invariance, PTL DEF Spec, DeactivationDrains

----------------------------------------------------------------------------
(* The browser's side of a session: ClientSession.                         *)

(* Whatever token is about was issued, and an answer brings one.           *)
Known ==
  /\ \A t \in Tabs : /\ renewal[t].token \in 0..handed
                     /\ renewal[t].pc = "answered" => renewal[t].token # NoCookie
  /\ \A t \in Tabs, c \in Calls : call[t][c].token \in 0..handed

(* OneRefreshPerTab, call by call.                                         *)
Paired ==
  \A t \in Tabs :
    /\ \A c, d \in Calls : call[t][c].pc = "refreshing" /\ call[t][d].pc = "refreshing" => c = d
    /\ isRefreshing[t] <=> \E c \in Calls : call[t][c].pc = "refreshing"
    /\ isRefreshing[t] <=> renewal[t].pc # "none"
    /\ \A c \in Calls : c \in failedQueue[t] <=> call[t][c].pc = "queued"
    /\ failedQueue[t] # {} => isRefreshing[t]

Progress == {"unmade", "done", "failed", "gone"} \cup Unsettled
Stages == {"none", "wanted", "sent", "found", "answered", "refused"}

(* One call changes, one renewal.                                          *)
OtherCalls(t, c) == \A u \in Tabs, d \in Calls : u # t \/ d # c => call'[u][d] = call[u][d]
OtherRenewals(t) == \A u \in Tabs \ {t} : renewal'[u] = renewal[u]

(* A call moves on.                                                        *)
Moved(t, c, p) ==
  /\ OtherCalls(t, c)
  /\ call'[t][c].pc = p /\ call'[t][c].kind = call[t][c].kind
  /\ call'[t][c].retry = call[t][c].retry /\ call'[t][c].token = call[t][c].token

Becoming(t, c, r) == call' = [call EXCEPT ![t][c] = r]

(* It is a call again, and the others are as they were.                    *)
LEMMA CallBecomes ==
  ASSUME BrowserTypeOK, NEW t \in Tabs, NEW c \in Calls, NEW r \in CallStates, Becoming(t, c, r)
  PROVE  call' \in [Tabs -> [Calls -> CallStates]] /\ call'[t][c] = r /\ OtherCalls(t, c)
  BY DEF BrowserTypeOK, OtherCalls, Becoming

(* A call that only moves on remains what it is.                           *)
LEMMA CallFields ==
  ASSUME NEW r \in CallStates
  PROVE  /\ r.pc \in Progress /\ r.kind \in {"api", "login", "logout"}
         /\ r.retry \in BOOLEAN /\ r.token \in Nat
         /\ \A p \in Progress :
              /\ [r EXCEPT !.pc = p] \in CallStates /\ [r EXCEPT !.pc = p].pc = p
              /\ [r EXCEPT !.pc = p].kind = r.kind /\ [r EXCEPT !.pc = p].retry = r.retry
              /\ [r EXCEPT !.pc = p].token = r.token
  BY DEF CallStates, Progress

(* So one call of one tab moves.                                           *)
LEMMA CallMoves ==
  ASSUME BrowserTypeOK, NEW t \in Tabs, NEW c \in Calls, NEW p \in Progress,
         call' = [call EXCEPT ![t][c].pc = p]
  PROVE  call' \in [Tabs -> [Calls -> CallStates]] /\ Moved(t, c, p)
<1> DEFINE r == [call[t][c] EXCEPT !.pc = p]
<1>1. /\ r \in CallStates /\ r.pc = p /\ r.kind = call[t][c].kind
      /\ r.retry = call[t][c].retry /\ r.token = call[t][c].token
  BY CallFields DEF BrowserTypeOK
<1>2. Becoming(t, c, r)
  BY DEF Becoming
<1> HIDE DEF r
<1>3. QED  BY <1>1, <1>2, CallBecomes DEF Moved

(* Of a renewal likewise.                                                  *)
Turning(t, r) == renewal' = [renewal EXCEPT ![t] = r]

(* It is a renewal again, and the others are as they were.                 *)
LEMMA RenewalBecomes ==
  ASSUME BrowserTypeOK, NEW t \in Tabs, NEW r \in Renewals, Turning(t, r)
  PROVE  renewal' \in [Tabs -> Renewals] /\ renewal'[t] = r /\ OtherRenewals(t)
<1>1. renewal \in [Tabs -> Renewals]
  BY DEF BrowserTypeOK
<1>2. renewal' \in [Tabs -> Renewals] /\ renewal'[t] = r
  BY <1>1 DEF Turning
<1>3. OtherRenewals(t)
  BY <1>1 DEF OtherRenewals, Turning
<1>4. QED  BY <1>2, <1>3

(* A renewal that only moves on keeps its token.                           *)
LEMMA RenewalFields ==
  ASSUME NEW r \in Renewals
  PROVE  /\ r.pc \in Stages /\ r.token \in Nat
         /\ \A p \in Stages : /\ [r EXCEPT !.pc = p] \in Renewals
                              /\ [r EXCEPT !.pc = p].pc = p
                              /\ [r EXCEPT !.pc = p].token = r.token
  BY DEF Renewals, Stages

(* So the renewal of one tab moves.                                        *)
LEMMA RenewalMoves ==
  ASSUME BrowserTypeOK, NEW t \in Tabs, NEW p \in Stages, renewal' = [renewal EXCEPT ![t].pc = p]
  PROVE  /\ renewal' \in [Tabs -> Renewals] /\ OtherRenewals(t)
         /\ renewal'[t].pc = p /\ renewal'[t].token = renewal[t].token
<1> DEFINE r == [renewal[t] EXCEPT !.pc = p]
<1>1. r \in Renewals /\ r.pc = p /\ r.token = renewal[t].token
  BY RenewalFields DEF BrowserTypeOK
<1>2. Turning(t, r)
  BY DEF Turning
<1> HIDE DEF r
<1>3. QED  BY <1>1, <1>2, RenewalBecomes

----------------------------------------------------------------------------
(* The kinds of step, by what they do to calls and renewals.               *)

(* The tokens about were issued, by this step at the latest.               *)
Handed ==
  /\ handed' \in Nat /\ handed' >= handed
  /\ \A u \in Tabs, d \in Calls : call'[u][d].token \in 0..handed'
  /\ \A u \in Tabs : renewal'[u].token \in 0..handed'

Fits ==
  /\ call' \in [Tabs -> [Calls -> CallStates]] /\ isRefreshing' \in [Tabs -> BOOLEAN]
  /\ failedQueue' \in [Tabs -> SUBSET Calls] /\ renewal' \in [Tabs -> Renewals]

(* A call is made, served or answered, and nobody's renewal is touched.    *)
CallStep(t, c) ==
  /\ OtherCalls(t, c) /\ UNCHANGED <<isRefreshing, failedQueue, renewal>>
  /\ call[t][c].pc \in {"unmade", "sent", "ok"}
  /\ call'[t][c].pc \in {"sent", "ok", "denied", "done", "failed"}

(* A renewal goes on.                                                      *)
RenewalStep(t) ==
  /\ UNCHANGED <<call, isRefreshing, failedQueue>>
  /\ OtherRenewals(t) /\ renewal[t].pc # "none" /\ renewal'[t].pc # "none"
  /\ renewal'[t].pc = "answered" => renewal'[t].token # NoCookie

(* A call that was refused waits, or sets out to refresh.                  *)
Waits(t, c) ==
  /\ Moved(t, c, "queued") /\ call[t][c].pc = "denied" /\ isRefreshing[t]
  /\ failedQueue'[t] = failedQueue[t] \cup {c}
  /\ \A u \in Tabs \ {t} : failedQueue'[u] = failedQueue[u]
  /\ UNCHANGED <<isRefreshing, renewal>>

SetsOut(t, c) ==
  /\ OtherCalls(t, c) /\ call[t][c].pc = "denied" /\ call'[t][c].pc = "refreshing"
  /\ ~ isRefreshing[t] /\ isRefreshing'[t] /\ renewal'[t].pc = "wanted"
  /\ \A u \in Tabs \ {t} : isRefreshing'[u] = isRefreshing[u]
  /\ OtherRenewals(t) /\ UNCHANGED failedQueue

(* The waiting ends, one way or the other.                                 *)
WaitEnds(t) ==
  /\ \A u \in Tabs \ {t} : /\ call'[u] = call[u] /\ isRefreshing'[u] = isRefreshing[u]
                           /\ failedQueue'[u] = failedQueue[u]
  /\ OtherRenewals(t) /\ renewal'[t] = NoRenewal
  /\ ~ isRefreshing'[t] /\ failedQueue'[t] = {}
  /\ \A c \in Calls : call'[t][c].pc \notin {"queued", "refreshing"}

Still == UNCHANGED <<call, isRefreshing, failedQueue, renewal>>

TabStep(t, c) == Send(t, c) \/ ClickLogout(t, c) \/ Fails(t, c)
                 \/ ServeApi(t, c) \/ ServeLogin(t, c) \/ ServeLogout(t, c)
                 \/ Succeed(t, c) \/ LoggedOut(t, c)

(* What a call does between its making and its end, a 401 of an expired    *)
(* access token apart.                                                     *)
LEMMA CallSteps ==
  ASSUME BrowserTypeOK, Known, NEW t \in Tabs, NEW c \in Calls, TabStep(t, c)
  PROVE  Fits /\ Handed /\ CallStep(t, c)
<1> USE DEF CallStep
<1>0. /\ handed \in Nat /\ call[t][c].token \in 0..handed
      /\ {"sent", "ok", "denied", "done", "failed"} \subseteq Progress
      /\ Unmade.pc = "unmade" /\ call[t][c] \in CallStates
  BY DEF BrowserTypeOK, Known, Progress, Unsettled, Unmade
<1>a. ASSUME call' \in [Tabs -> [Calls -> CallStates]], CallStep(t, c),
             handed' \in Nat, handed' >= handed, call'[t][c].token \in 0..handed'
      PROVE  Fits /\ Handed /\ CallStep(t, c)
  <2>1. Fits
    BY <1>a DEF Fits, BrowserTypeOK
  <2>2. \A u \in Tabs, d \in Calls : call'[u][d].token \in 0..handed'
    BY <1>0, <1>a DEF OtherCalls, Known
  <2>3. \A u \in Tabs : renewal'[u].token \in 0..handed'
    BY <1>0, <1>a DEF Known
  <2>4. QED  BY <1>a, <2>1, <2>2, <2>3 DEF Handed
<1>1. CASE Send(t, c)
  <2> DEFINE r == [Unmade EXCEPT !.pc = "sent",
      !.kind = IF page[t] = "app" THEN "api" ELSE "login"]
  <2>1. r \in CallStates /\ r.pc = "sent" /\ r.token = 0
    BY DEF Unmade, CallStates, NoCookie, Unsettled
  <2>2. Becoming(t, c, r) /\ UNCHANGED <<handed, isRefreshing, failedQueue, renewal>>
    BY <1>1 DEF Send, server, Becoming
  <2> HIDE DEF r
  <2>3. call' \in [Tabs -> [Calls -> CallStates]] /\ call'[t][c] = r /\ OtherCalls(t, c)
    BY <2>1, <2>2, CallBecomes
  <2>4. call[t][c].pc = "unmade"
    BY <1>0, <1>1 DEF Send
  <2>5. QED  BY <1>0, <1>a, <2>1, <2>2, <2>3, <2>4
<1>2. CASE ClickLogout(t, c)
  <2> DEFINE r == [Unmade EXCEPT !.pc = "sent", !.kind = "logout"]
  <2>1. r \in CallStates /\ r.pc = "sent" /\ r.token = 0
    BY DEF Unmade, CallStates, NoCookie, Unsettled
  <2>2. Becoming(t, c, r) /\ UNCHANGED <<handed, isRefreshing, failedQueue, renewal>>
    BY <1>2 DEF ClickLogout, server, Becoming
  <2> HIDE DEF r
  <2>3. call' \in [Tabs -> [Calls -> CallStates]] /\ call'[t][c] = r /\ OtherCalls(t, c)
    BY <2>1, <2>2, CallBecomes
  <2>4. call[t][c].pc = "unmade"
    BY <1>0, <1>2 DEF ClickLogout
  <2>5. QED  BY <1>0, <1>a, <2>1, <2>2, <2>3, <2>4
<1>3. CASE ServeLogin(t, c)
  <2>0. call[t][c].pc = "sent" /\ UNCHANGED <<isRefreshing, failedQueue, renewal>>
    BY <1>3 DEF ServeLogin
  <2>1. CASE call' = [call EXCEPT ![t][c].pc = "ok",
      ![t][c].token = handed'] /\ handed' = handed + 1
    <3> DEFINE r == [call[t][c] EXCEPT !.pc = "ok", !.token = handed']
    <3>1. handed' \in Nat /\ handed' >= handed /\ handed' \in 0..handed'
      BY <1>0, <2>1
    <3>2. r \in CallStates /\ r.pc = "ok" /\ r.token = handed'
      BY <1>0, <3>1 DEF CallStates, Unsettled
    <3>3. Becoming(t, c, r)
      BY <2>1 DEF Becoming
    <3> HIDE DEF r
    <3>4. call' \in [Tabs -> [Calls -> CallStates]] /\ call'[t][c] = r /\ OtherCalls(t, c)
      BY <3>2, <3>3, CallBecomes
    <3>5. QED  BY <1>a, <2>0, <3>1, <3>2, <3>4
  <2>2. CASE call' = [call EXCEPT ![t][c].pc = "denied"] /\ handed' = handed
    <3>1. call' \in [Tabs -> [Calls -> CallStates]] /\ Moved(t, c, "denied")
      BY <1>0, <2>2, CallMoves
    <3>2. QED  BY <1>0, <1>a, <2>0, <2>2, <3>1 DEF Moved
  <2>3. QED  BY <1>3, <2>1, <2>2 DEF ServeLogin, server
<1>4. CASE ServeApi(t, c) \/ ServeLogout(t, c) \/ Succeed(t, c) \/ LoggedOut(t, c)
          \/ Fails(t, c)
  <2>1. PICK p \in {"ok", "denied", "done", "failed"} : call' = [call EXCEPT ![t][c].pc = p]
    BY <1>4 DEF ServeApi, ServeLogout, Succeed, LoggedOut, Fails
  <2>2. /\ call[t][c].pc \in {"sent", "ok"}
        /\ UNCHANGED <<handed, isRefreshing, failedQueue, renewal>>
    BY <1>4 DEF ServeApi, ServeLogout, Succeed, LoggedOut, Fails, server
  <2>3. call' \in [Tabs -> [Calls -> CallStates]] /\ Moved(t, c, p)
    BY <1>0, <2>1, CallMoves
  <2>4. QED  BY <1>0, <1>a, <2>2, <2>3 DEF Moved
<1>5. QED  BY <1>1, <1>2, <1>3, <1>4 DEF TabStep

(* The exchange of /auth/refresh.                                          *)
LEMMA RenewalSteps ==
  ASSUME BrowserTypeOK, Known, NEW t \in Tabs,
         SendRenewal(t) \/ FindToken(t) \/ Rotate(t) \/ LoseAnswer(t)
  PROVE  Fits /\ Handed /\ RenewalStep(t)
<1>0. /\ handed \in Nat /\ jar \in 0..handed /\ renewal[t].token \in 0..handed
      /\ UNCHANGED <<call, isRefreshing, failedQueue>>
  BY DEF BrowserTypeOK, Known, SendRenewal, FindToken, Rotate, LoseAnswer, client
<1>a. ASSUME renewal' \in [Tabs -> Renewals], OtherRenewals(t),
             handed' \in Nat, handed' >= handed, renewal'[t].token \in 0..handed',
             renewal[t].pc # "none", renewal'[t].pc # "none",
             renewal'[t].pc = "answered" => renewal'[t].token # NoCookie
      PROVE  Fits /\ Handed /\ RenewalStep(t)
  <2>1. Fits
    BY <1>0, <1>a DEF Fits, BrowserTypeOK
  <2>2. \A u \in Tabs, d \in Calls : call'[u][d].token \in 0..handed'
    BY <1>0, <1>a DEF Known
  <2>3. \A u \in Tabs : renewal'[u].token \in 0..handed'
    BY <1>0, <1>a DEF Known, OtherRenewals
  <2>4. QED  BY <1>0, <1>a, <2>1, <2>2, <2>3 DEF Handed, RenewalStep
<1>1. CASE SendRenewal(t)
  <2> DEFINE r == [pc |-> "sent", token |-> jar]
  <2>1. r \in Renewals /\ r.pc = "sent" /\ r.token = jar
    BY <1>0 DEF Renewals
  <2>2. Turning(t, r) /\ handed' = handed /\ renewal[t].pc = "wanted"
    BY <1>1 DEF SendRenewal, server, Turning
  <2> HIDE DEF r
  <2>3. QED  BY <1>0, <1>a, <2>1, <2>2, RenewalBecomes
<1>2. CASE Rotate(t)
  <2> DEFINE r == [pc |-> "answered", token |-> handed']
  <2>0. handed' = handed + 1 /\ handed' \in Nat /\ handed' >= handed /\ handed' # 0
    BY <1>0, <1>2 DEF Rotate
  <2>1. r \in Renewals /\ r.pc = "answered" /\ r.token = handed'
    BY <2>0 DEF Renewals
  <2>2. Turning(t, r) /\ renewal[t].pc = "found"
    BY <1>2 DEF Rotate, Turning
  <2> HIDE DEF r
  <2>3. QED  BY <1>0, <1>a, <2>0, <2>1, <2>2, RenewalBecomes DEF NoCookie
<1>3. CASE FindToken(t) \/ LoseAnswer(t)
  <2>1. PICK p \in {"found", "refused"} : renewal' = [renewal EXCEPT ![t].pc = p]
    BY <1>3 DEF FindToken, LoseAnswer
  <2>2. renewal[t].pc \in {"wanted", "sent", "answered"} /\ handed' = handed
    BY <1>3 DEF FindToken, LoseAnswer, server
  <2>3. p \in Stages
    BY DEF Stages
  <2>4. /\ renewal' \in [Tabs -> Renewals] /\ OtherRenewals(t)
        /\ renewal'[t].pc = p /\ renewal'[t].token = renewal[t].token
    BY <2>1, <2>3, RenewalMoves
  <2>5. QED  BY <1>0, <1>a, <2>2, <2>4
<1>4. QED  BY <1>1, <1>2, <1>3

(* The response interceptor at a 401: into failedQueue, or on to the       *)
(* refresh.                                                                *)
LEMMA RefusalSteps ==
  ASSUME BrowserTypeOK, Known, NEW t \in Tabs, NEW c \in Calls
  PROVE  /\ Enqueue(t, c) => Fits /\ Handed /\ Waits(t, c)
         /\ Refresh(t, c) => Fits /\ Handed /\ SetsOut(t, c)
<1>0. /\ handed \in Nat /\ call[t][c].token \in 0..handed /\ call[t][c] \in CallStates
      /\ renewal[t].token \in 0..handed
      /\ {"queued", "refreshing"} \subseteq Progress /\ "wanted" \in Stages
  BY DEF BrowserTypeOK, Known, Progress, Unsettled, Stages
<1>1. ASSUME Enqueue(t, c) PROVE Fits /\ Handed /\ Waits(t, c)
  <2>1. call' = [call EXCEPT ![t][c].pc = "queued"]
    BY <1>1 DEF Enqueue
  <2>2. call' \in [Tabs -> [Calls -> CallStates]] /\ Moved(t, c, "queued")
    BY <1>0, <2>1, CallMoves
  <2>3. /\ failedQueue' = [failedQueue EXCEPT ![t] = failedQueue[t] \cup {c}]
        /\ handed' = handed /\ UNCHANGED <<isRefreshing, renewal>>
        /\ call[t][c].pc = "denied" /\ isRefreshing[t]
    BY <1>1 DEF Enqueue, Denied, server
  <2>4. /\ failedQueue' \in [Tabs -> SUBSET Calls] /\ failedQueue'[t] = failedQueue[t] \cup {c}
        /\ \A u \in Tabs \ {t} : failedQueue'[u] = failedQueue[u]
    BY <2>3 DEF BrowserTypeOK
  <2>5. Fits
    BY <2>2, <2>3, <2>4 DEF Fits, BrowserTypeOK
  <2>6. Handed
    BY <1>0, <2>2, <2>3 DEF Handed, Known, Moved, OtherCalls
  <2>7. QED  BY <2>2, <2>3, <2>4, <2>5, <2>6 DEF Waits
<1>2. ASSUME Refresh(t, c) PROVE Fits /\ Handed /\ SetsOut(t, c)
  <2> DEFINE r == [call[t][c] EXCEPT !.pc = "refreshing", !.retry = TRUE]
  <2>1. r \in CallStates /\ r.pc = "refreshing" /\ r.token = call[t][c].token
    BY <1>0 DEF CallStates, Unsettled
  <2>2. Becoming(t, c, r)
    BY <1>2 DEF Refresh, StartsRenewal, Becoming
  <2> HIDE DEF r
  <2>3. call' \in [Tabs -> [Calls -> CallStates]] /\ call'[t][c] = r /\ OtherCalls(t, c)
    BY <2>1, <2>2, CallBecomes
  <2>4. renewal' = [renewal EXCEPT ![t].pc = "wanted"]
    BY <1>2 DEF Refresh, StartsRenewal
  <2>5. /\ renewal' \in [Tabs -> Renewals] /\ OtherRenewals(t)
        /\ renewal'[t].pc = "wanted" /\ renewal'[t].token = renewal[t].token
    BY <1>0, <2>4, RenewalMoves
  <2>6. /\ isRefreshing' = [isRefreshing EXCEPT ![t] = TRUE] /\ handed' = handed
        /\ UNCHANGED failedQueue /\ call[t][c].pc = "denied" /\ ~ isRefreshing[t]
    BY <1>2 DEF Refresh, StartsRenewal, Denied, server
  <2>7. /\ isRefreshing' \in [Tabs -> BOOLEAN] /\ isRefreshing'[t]
        /\ \A u \in Tabs \ {t} : isRefreshing'[u] = isRefreshing[u]
    BY <2>6 DEF BrowserTypeOK
  <2>8. Fits
    BY <2>3, <2>5, <2>6, <2>7 DEF Fits, BrowserTypeOK
  <2>9. Handed
    <3>1. \A u \in Tabs, d \in Calls : call'[u][d].token \in 0..handed'
      BY <1>0, <2>1, <2>3, <2>6 DEF Known, OtherCalls
    <3>2. \A u \in Tabs : renewal'[u].token \in 0..handed'
      BY <1>0, <2>5, <2>6 DEF Known, OtherRenewals
    <3>3. QED  BY <1>0, <2>6, <3>1, <3>2 DEF Handed
  <2>10. QED  BY <2>1, <2>3, <2>5, <2>6, <2>7, <2>8, <2>9 DEF SetsOut
<1>3. QED  BY <1>1, <1>2

(* The calls of a tab change together.                                     *)
Replaced(t, row) == call' = [call EXCEPT ![t] = row]

(* They are calls again, and those of the other tabs are as they were.     *)
LEMMA RowBecomes ==
  ASSUME BrowserTypeOK, NEW t \in Tabs, NEW row \in [Calls -> CallStates], Replaced(t, row)
  PROVE  /\ call' \in [Tabs -> [Calls -> CallStates]] /\ call'[t] = row
         /\ \A u \in Tabs \ {t} : call'[u] = call[u]
<1>1. call \in [Tabs -> [Calls -> CallStates]]
  BY DEF BrowserTypeOK
<1>2. call' \in [Tabs -> [Calls -> CallStates]] /\ call'[t] = row
  BY <1>1 DEF Replaced
<1>3. \A u \in Tabs \ {t} : call'[u] = call[u]
  BY <1>1 DEF Replaced
<1>4. QED  BY <1>2, <1>3

(* Each call goes on as before or is moved to p.                           *)
Shifted(t, S, p) ==
  call' = [call EXCEPT ![t] = [c \in Calls |->
             IF c \in S THEN [call[t][c] EXCEPT !.pc = p] ELSE call[t][c]]]

(* Some of them move, and all remain what they are.                        *)
LEMMA RowMoves ==
  ASSUME BrowserTypeOK, NEW t \in Tabs, NEW p \in Progress, NEW S, Shifted(t, S, p)
  PROVE  /\ call' \in [Tabs -> [Calls -> CallStates]]
         /\ \A u \in Tabs \ {t} : call'[u] = call[u]
         /\ \A c \in Calls : /\ call'[t][c].pc = IF c \in S THEN p ELSE call[t][c].pc
                             /\ call'[t][c].kind = call[t][c].kind
                             /\ call'[t][c].retry = call[t][c].retry
                             /\ call'[t][c].token = call[t][c].token
<1> DEFINE g(c) == IF c \in S THEN [call[t][c] EXCEPT !.pc = p] ELSE call[t][c]
           row == [c \in Calls |-> g(c)]
<1>1. \A c \in Calls : call[t][c] \in CallStates
  BY DEF BrowserTypeOK
<1>2. \A c \in Calls : /\ g(c) \in CallStates
                       /\ g(c).pc = IF c \in S THEN p ELSE call[t][c].pc
                       /\ g(c).kind = call[t][c].kind /\ g(c).retry = call[t][c].retry
                       /\ g(c).token = call[t][c].token
  <2> TAKE c \in Calls
  <2>1. CASE c \in S
    BY <1>1, <2>1, CallFields
  <2>2. CASE c \notin S
    BY <1>1, <2>2
  <2>3. QED  BY <2>1, <2>2
<1>3. Replaced(t, row)
  BY DEF Replaced, Shifted
<1> HIDE DEF g
<1>4. row \in [Calls -> CallStates] /\ \A c \in Calls : row[c] = g(c)
  BY <1>2
<1> HIDE DEF row
<1>5. /\ call' \in [Tabs -> [Calls -> CallStates]] /\ call'[t] = row
      /\ \A u \in Tabs \ {t} : call'[u] = call[u]
  BY <1>3, <1>4, RowBecomes
<1>6. QED  BY <1>2, <1>4, <1>5

(* The end of a refresh: processQueue lets all that wait go, with or       *)
(* without a token.                                                        *)
LEMMA EndSteps ==
  ASSUME BrowserTypeOK, Known, Paired, NEW t \in Tabs,
         (\E c \in Calls : GiveUp(t, c)) \/ NotRenewed(t) \/ Renewed(t)
  PROVE  Fits /\ Handed /\ WaitEnds(t)
<1>0. /\ handed \in Nat /\ handed' = handed /\ {"gone", "sent"} \subseteq Progress
      /\ NoRenewal \in Renewals /\ NoRenewal.token = 0
  BY DEF BrowserTypeOK, GiveUp, NotRenewed, Renewed, Denied, server, Progress,
     Unsettled, NoRenewal, NoCookie, Renewals
<1>1. PICK p \in {"gone", "sent"}, S \in SUBSET Calls :
        /\ Shifted(t, S, p)
        /\ \A c \in Calls : call[t][c].pc \in {"queued", "refreshing"} => c \in S
  <2>1. CASE Renewed(t)
    <3> DEFINE S == {c \in Calls : call[t][c].pc = "refreshing" \/ c \in failedQueue[t]}
    <3>1. Shifted(t, S, "sent")
      BY <2>1 DEF Renewed, Shifted
    <3>2. \A c \in Calls : call[t][c].pc \in {"queued", "refreshing"} => c \in S
      BY DEF Paired
    <3>3. QED  BY <3>1, <3>2
  <2>2. CASE Redirect(t)
    <3> DEFINE S == {c \in Calls : call[t][c].pc \in Unsettled}
    <3>1. Shifted(t, S, "gone")
      BY <2>2 DEF Redirect, Shifted
    <3>2. \A c \in Calls : call[t][c].pc \in {"queued", "refreshing"} => c \in S
      BY DEF Unsettled
    <3>3. QED  BY <3>1, <3>2
  <2>3. QED  BY <2>1, <2>2 DEF GiveUp, NotRenewed
<1>2. /\ call' \in [Tabs -> [Calls -> CallStates]]
      /\ \A u \in Tabs \ {t} : call'[u] = call[u]
      /\ \A c \in Calls : /\ call'[t][c].pc = IF c \in S THEN p ELSE call[t][c].pc
                          /\ call'[t][c].token = call[t][c].token
  <2>1. p \in Progress
    BY <1>0
  <2>2. QED  BY <1>1, <2>1, RowMoves
<1>3. /\ isRefreshing' = [isRefreshing EXCEPT ![t] = FALSE]
      /\ failedQueue' = [failedQueue EXCEPT ![t] = {}]
      /\ Turning(t, NoRenewal)
  BY DEF GiveUp, NotRenewed, Renewed, Redirect, Turning
<1>4. renewal' \in [Tabs -> Renewals] /\ renewal'[t] = NoRenewal /\ OtherRenewals(t)
  BY <1>0, <1>3, RenewalBecomes
<1>5. /\ isRefreshing' \in [Tabs -> BOOLEAN] /\ ~ isRefreshing'[t]
      /\ failedQueue' \in [Tabs -> SUBSET Calls] /\ failedQueue'[t] = {}
      /\ \A u \in Tabs \ {t} :
           isRefreshing'[u] = isRefreshing[u] /\ failedQueue'[u] = failedQueue[u]
  BY <1>3 DEF BrowserTypeOK
<1>6. Handed
  <2>1. \A u \in Tabs, d \in Calls : call'[u][d].token \in 0..handed'
    <3> SUFFICES ASSUME NEW u \in Tabs,
        NEW d \in Calls PROVE call'[u][d].token = call[u][d].token
      BY <1>0 DEF Known
    <3>1. CASE u = t
      BY <1>2, <3>1
    <3>2. CASE u # t
      BY <1>2, <3>2
    <3>3. QED  BY <3>1, <3>2
  <2>2. \A u \in Tabs : renewal'[u].token \in 0..handed'
    BY <1>0, <1>4 DEF Known, OtherRenewals
  <2>3. QED  BY <1>0, <2>1, <2>2 DEF Handed
<1>7. \A c \in Calls : call'[t][c].pc \notin {"queued", "refreshing"}
  BY <1>1, <1>2
<1>8. QED  BY <1>2, <1>4, <1>5, <1>6, <1>7 DEF Fits, WaitEnds

(* A step of nobody's leaves everything typed.                             *)
LEMMA StillSteps ==
  ASSUME BrowserTypeOK, Known, Still, handed' = handed
  PROVE  Fits /\ Handed
  BY DEF BrowserTypeOK, Known, Still, Fits, Handed

TabMoves(t) ==
  \/ ServeMe(t) \/ Hydrate(t) \/ Exchange(t) \/ LoseAnswer(t)
  \/ \E c \in Calls :
       Send(t, c) \/ ClickLogout(t, c) \/ Fails(t, c) \/ Proceed(t, c)

(* Every step is of one of the kinds.                                      *)
LEMMA Kinds ==
  ASSUME BrowserTypeOK, Known, Paired, [BrowserNext]_browserVars
  PROVE  /\ Fits /\ Handed
         /\ \/ Still
            \/ \E t \in Tabs : RenewalStep(t) \/ WaitEnds(t)
            \/ \E t \in Tabs, c \in Calls : CallStep(t, c) \/ Waits(t, c) \/ SetsOut(t, c)
<1>1. CASE Expire \/ EndElsewhere \/ UNCHANGED browserVars
  BY <1>1, StillSteps DEF Expire, EndElsewhere, browserVars, server, client, Still
<1>2. ASSUME NEW t \in Tabs, TabMoves(t)
      PROVE  /\ Fits /\ Handed
             /\ \/ Still \/ RenewalStep(t) \/ WaitEnds(t)
                \/ \E c \in Calls : CallStep(t, c) \/ Waits(t, c) \/ SetsOut(t, c)
  <2>1. CASE ServeMe(t) \/ Hydrate(t)
    BY <2>1, StillSteps DEF ServeMe, Hydrate, server, Still
  <2>2. CASE SendRenewal(t) \/ FindToken(t) \/ Rotate(t) \/ LoseAnswer(t)
    BY <2>2, RenewalSteps
  <2>3. CASE (\E c \in Calls : GiveUp(t, c)) \/ NotRenewed(t) \/ Renewed(t)
    BY <2>3, EndSteps
  <2>4. CASE \E c \in Calls : TabStep(t, c)
    BY <2>4, CallSteps
  <2>5. CASE \E c \in Calls : Enqueue(t, c) \/ Refresh(t, c)
    BY <2>5, RefusalSteps
  <2>6. QED  BY <1>2, <2>1, <2>2, <2>3, <2>4, <2>5 DEF TabMoves, Exchange, Proceed,
     TabStep
<1>3. CASE \E t \in Tabs : TabMoves(t)
  BY <1>2, <1>3
<1>4. QED  BY <1>1, <1>3 DEF BrowserNext, TabMoves

----------------------------------------------------------------------------
(* Types, tokens and pairing.                                              *)

(* One tab goes to another page.                                           *)
LEMMA PageMoves ==
  ASSUME BrowserTypeOK, NEW t \in Tabs, NEW p \in Pages, page' = [page EXCEPT ![t] = p]
  PROVE  /\ page' \in [Tabs -> Pages] /\ page'[t] = p
         /\ \A u \in Tabs \ {t} : page'[u] = page[u]
<1>1. page \in [Tabs -> Pages]
  BY DEF BrowserTypeOK
<1>2. page' \in [Tabs -> Pages] /\ page'[t] = p
  BY <1>1
<1>3. \A u \in Tabs \ {t} : page'[u] = page[u]
  BY <1>1
<1>4. QED  BY <1>2, <1>3

(* Pages are pages.                                                        *)
LEMMA PageTyped ==
  ASSUME BrowserTypeOK, [BrowserNext]_browserVars
  PROVE  page' \in [Tabs -> Pages]
<1>0. {"hydrating", "greeted", "stranger", "app", "login"} \subseteq Pages
  BY DEF Pages
<1>1. CASE page' = page
  BY <1>1 DEF BrowserTypeOK
<1>2. CASE \E t \in Tabs, p \in Pages : page' = [page EXCEPT ![t] = p]
  BY <1>2, PageMoves
<1>3. page' = page \/ \E t \in Tabs, p \in Pages : page' = [page EXCEPT ![t] = p]
  <2>1. CASE Expire \/ EndElsewhere \/ UNCHANGED browserVars
    BY <2>1 DEF Expire, EndElsewhere, browserVars, client
  <2>2. ASSUME NEW t \in Tabs, TabMoves(t)
        PROVE  page' = page \/ \E p \in Pages : page' = [page EXCEPT ![t] = p]
    <3>1. CASE Redirect(t)
      BY <1>0, <3>1 DEF Redirect
    <3>2. CASE ServeMe(t) \/ Hydrate(t)
      <4>1. \E p \in {"greeted", "stranger", "app", "login"} : page' = [page EXCEPT ![t] = p]
        BY <3>2 DEF ServeMe, Hydrate
      <4>2. QED  BY <1>0, <4>1
    <3>3. CASE Exchange(t) \/ LoseAnswer(t)
      BY <3>1, <3>3 DEF Exchange, SendRenewal, FindToken, Rotate, Renewed,
         NotRenewed, LoseAnswer, client
    <3>4. ASSUME NEW c \in Calls, Send(t, c) \/ ClickLogout(t, c) \/ Fails(t, c)
        \/ Proceed(t, c)
          PROVE  page' = page \/ \E p \in Pages : page' = [page EXCEPT ![t] = p]
      BY <1>0, <3>1, <3>4 DEF Send, ClickLogout, Fails, Proceed, ServeApi,
         ServeLogin, ServeLogout, Succeed, LoggedOut, GiveUp, Enqueue,
         Refresh, StartsRenewal
    <3>5. QED  BY <2>2, <3>2, <3>3, <3>4 DEF TabMoves
  <2>3. QED  BY <2>1, <2>2 DEF BrowserNext, TabMoves
<1>4. QED  BY <1>1, <1>2, <1>3

(* The cookies, the stored token and the counters.                         *)
Flags == access \in BOOLEAN /\ broken \in BOOLEAN /\ out \in BOOLEAN
Numbers == jar \in 0..handed /\ token \in 0..handed /\ expiries \in 0..MaxExpiries

Kept == UNCHANGED <<access, jar, server, expiries, broken, out>>

(* Flags are flags.                                                        *)
LEMMA FlagsTyped ==
  ASSUME BrowserTypeOK, [BrowserNext]_browserVars
  PROVE  Flags'
<1>0. access \in BOOLEAN /\ broken \in BOOLEAN /\ out \in BOOLEAN
  BY DEF BrowserTypeOK
<1>a. access' \in BOOLEAN /\ broken' \in BOOLEAN /\ out' \in BOOLEAN => Flags'
  BY DEF Flags
<1>1. CASE Expire
  BY <1>0, <1>a, <1>1 DEF Expire
<1>2. CASE EndElsewhere
  BY <1>0, <1>a, <1>2 DEF EndElsewhere, Breaks
<1>3. CASE Kept
  BY <1>0, <1>a, <1>3 DEF Kept
<1>4. ASSUME NEW t \in Tabs, TabMoves(t)
      PROVE  Flags'
  <2>1. CASE ServeMe(t) \/ Hydrate(t) \/ SendRenewal(t) \/ FindToken(t)
      \/ NotRenewed(t)
    BY <1>3, <2>1 DEF ServeMe, Hydrate, SendRenewal, FindToken, NotRenewed, Kept
  <2>2. CASE Rotate(t)
    BY <1>0, <1>a, <2>2 DEF Rotate
  <2>3. CASE Renewed(t)
    BY <1>0, <1>a, <2>3 DEF Renewed, TakesCookies
  <2>4. CASE LoseAnswer(t)
    BY <1>0, <1>a, <2>4 DEF LoseAnswer, Breaks
  <2>5. ASSUME NEW c \in Calls, Send(t, c) \/ ClickLogout(t, c) \/ Fails(t, c)
      \/ Proceed(t, c)
        PROVE  Flags'
    <3>1. CASE Send(t, c) \/ Fails(t, c) \/ ServeApi(t, c) \/ GiveUp(t, c)
        \/ Enqueue(t, c) \/ Refresh(t, c)
      BY <1>3, <3>1 DEF Send, Fails, ServeApi, GiveUp, Enqueue, Refresh,
         Denied, Kept
    <3>2. CASE ClickLogout(t, c)
      BY <1>0, <1>a, <3>2 DEF ClickLogout
    <3>3. CASE ServeLogin(t, c)
      BY <1>0, <1>a, <3>3 DEF ServeLogin
    <3>4. CASE ServeLogout(t, c)
      BY <1>0, <1>a, <3>4 DEF ServeLogout
    <3>5. CASE Succeed(t, c)
      BY <1>0, <1>a, <3>5 DEF Succeed
    <3>6. CASE LoggedOut(t, c)
      BY <1>0, <1>a, <3>6 DEF LoggedOut
    <3>7. QED  BY <2>5, <3>1, <3>2, <3>3, <3>4, <3>5, <3>6 DEF Proceed
  <2>6. QED  BY <1>4, <2>1, <2>2, <2>3, <2>4, <2>5 DEF TabMoves, Exchange
<1>5. CASE UNCHANGED browserVars
  BY <1>3, <1>5 DEF browserVars, Kept, server
<1>6. CASE \E t \in Tabs : TabMoves(t)
  BY <1>4, <1>6
<1>7. QED  BY <1>1, <1>2, <1>5, <1>6 DEF BrowserNext, TabMoves

(* Nobody holds a token that was not handed out.                           *)
LEMMA NumbersTyped ==
  ASSUME BrowserTypeOK, Known, Handed, [BrowserNext]_browserVars
  PROVE  Numbers'
<1>0. /\ handed \in Nat /\ handed' \in Nat /\ handed' >= handed
      /\ jar \in 0..handed /\ token \in 0..handed
      /\ expiries \in 0..MaxExpiries /\ NoCookie = 0
      /\ \A t \in Tabs : renewal[t].token \in 0..handed
      /\ \A t \in Tabs, c \in Calls : call[t][c].token \in 0..handed
  BY DEF BrowserTypeOK, Known, Handed, NoCookie
<1>a. ASSUME jar' \in 0..handed \cup {handed'}, token' \in 0..handed \cup {handed'},
             expiries' = expiries
      PROVE  Numbers'
  BY <1>0, <1>a DEF Numbers
<1>1. CASE Expire
  <2>1. jar' = jar /\ token' = token /\ expiries' = expiries + 1 /\ expiries < MaxExpiries
    BY <1>1 DEF Expire, server
  <2>2. QED  BY <1>0, <2>1, BoundsAssumption DEF Numbers
<1>2. CASE EndElsewhere
  <2>1. jar' = jar /\ token' = NoCookie /\ expiries' = expiries
    BY <1>2 DEF EndElsewhere
  <2>2. QED  BY <1>0, <1>a, <2>1
<1>3. ASSUME jar' = jar, token' = token, expiries' = expiries PROVE Numbers'
  BY <1>0, <1>a, <1>3
<1>4. ASSUME NEW t \in Tabs, TabMoves(t)
      PROVE  Numbers'
  <2>1. CASE ServeMe(t) \/ Hydrate(t) \/ SendRenewal(t) \/ FindToken(t)
      \/ NotRenewed(t) \/ LoseAnswer(t)
    BY <1>3, <2>1 DEF ServeMe, Hydrate, SendRenewal, FindToken, NotRenewed,
       LoseAnswer, server
  <2>2. CASE Rotate(t)
    <3>1. jar' = jar /\ token' = handed' /\ expiries' = expiries
      BY <2>2 DEF Rotate
    <3>2. QED  BY <1>0, <1>a, <3>1
  <2>3. CASE Renewed(t)
    <3>1. jar' = renewal[t].token /\ token' = token /\ expiries' = expiries
      BY <2>3 DEF Renewed, TakesCookies, server
    <3>2. QED  BY <1>0, <1>a, <3>1
  <2>4. ASSUME NEW c \in Calls, Send(t, c) \/ ClickLogout(t, c) \/ Fails(t, c)
      \/ Proceed(t, c)
        PROVE  Numbers'
    <3>1. CASE Send(t, c) \/ ClickLogout(t, c) \/ Fails(t, c) \/ ServeApi(t, c)
      BY <1>3, <3>1 DEF Send, ClickLogout, Fails, ServeApi, server
    <3>2. CASE GiveUp(t, c) \/ Enqueue(t, c) \/ Refresh(t, c)
      BY <1>3, <3>2 DEF GiveUp, Enqueue, Refresh, Denied, server
    <3>3. CASE ServeLogin(t, c)
      <4>1. jar' = jar /\ token' \in {token, handed'} /\ expiries' = expiries
        BY <3>3 DEF ServeLogin, server
      <4>2. QED  BY <1>0, <1>a, <4>1
    <3>4. CASE ServeLogout(t, c)
      <4>1. jar' = jar /\ token' \in {token, NoCookie} /\ expiries' = expiries
        BY <3>4 DEF ServeLogout
      <4>2. QED  BY <1>0, <1>a, <4>1
    <3>5. CASE Succeed(t, c)
      <4>1. jar' \in {jar, call[t][c].token} /\ token' = token /\ expiries' = expiries
        BY <3>5 DEF Succeed, server
      <4>2. QED  BY <1>0, <1>a, <4>1
    <3>6. CASE LoggedOut(t, c)
      <4>1. jar' = NoCookie /\ token' = token /\ expiries' = expiries
        BY <3>6 DEF LoggedOut, server
      <4>2. QED  BY <1>0, <1>a, <4>1
    <3>7. QED  BY <2>4, <3>1, <3>2, <3>3, <3>4, <3>5, <3>6 DEF Proceed
  <2>5. QED  BY <1>4, <2>1, <2>2, <2>3, <2>4 DEF TabMoves, Exchange
<1>5. CASE UNCHANGED browserVars
  BY <1>3, <1>5 DEF browserVars
<1>6. CASE \E t \in Tabs : TabMoves(t)
  BY <1>4, <1>6
<1>7. QED  BY <1>1, <1>2, <1>5, <1>6 DEF BrowserNext, TabMoves

(* A refresh that was answered was answered with a token.                  *)
LEMMA AnsweredStep ==
  ASSUME BrowserTypeOK, Known, Paired, [BrowserNext]_browserVars
  PROVE  Known'
<1>1. Handed
  BY Kinds
<1>2. ASSUME NEW u \in Tabs PROVE renewal'[u].pc = "answered" => renewal'[u].token # NoCookie
  BY Kinds DEF Known, Still, RenewalStep, WaitEnds, CallStep, Waits, SetsOut, OtherRenewals,
     NoRenewal
<1>3. QED  BY <1>1, <1>2 DEF Handed, Known

(* isRefreshing is set exactly while a refresh is under way, and whoever   *)
(* waits in failedQueue waits for it.                                      *)
LEMMA PairedStep ==
  ASSUME BrowserTypeOK, Known, Paired, [BrowserNext]_browserVars
  PROVE  Paired'
<1>1. CASE Still
  BY <1>1 DEF Still, Paired
<1>2. ASSUME NEW t \in Tabs, RenewalStep(t) PROVE Paired'
  BY <1>2 DEF RenewalStep, Paired, OtherRenewals
<1>3. ASSUME NEW t \in Tabs, WaitEnds(t) PROVE Paired'
  BY <1>3 DEF WaitEnds, Paired, OtherRenewals, NoRenewal
<1>4. ASSUME NEW t \in Tabs, NEW c \in Calls, CallStep(t, c) PROVE Paired'
  BY <1>4 DEF CallStep, Paired, OtherCalls
<1>5. ASSUME NEW t \in Tabs, NEW c \in Calls, Waits(t, c) PROVE Paired'
  BY <1>5 DEF Waits, Paired, OtherCalls, Moved
<1>6. ASSUME NEW t \in Tabs, NEW c \in Calls, SetsOut(t, c) PROVE Paired'
  BY <1>6 DEF SetsOut, Paired, OtherCalls, OtherRenewals
<1>7. QED  BY <1>1, <1>2, <1>3, <1>4, <1>5, <1>6, Kinds

SessionInv == BrowserTypeOK /\ Known /\ Paired

(* The invariant holds when the tabs are opened.                           *)
LEMMA InitSession == BrowserInit => SessionInv
<1> SUFFICES ASSUME BrowserInit PROVE SessionInv
  OBVIOUS
<1>1. Unmade \in CallStates /\ Unmade.pc = "unmade" /\ Unmade.token = 0
  BY DEF Unmade, CallStates, NoCookie
<1>2. NoRenewal \in Renewals /\ NoRenewal.pc = "none" /\ NoRenewal.token = 0
  BY DEF NoRenewal, Renewals, NoCookie
<1>3. \A t \in Tabs : /\ call[t] = [c \in Calls |-> Unmade] /\ isRefreshing[t] = FALSE
                      /\ failedQueue[t] = {} /\ renewal[t] = NoRenewal
  BY DEF BrowserInit
<1>4. \A t \in Tabs, c \in Calls : call[t][c] = Unmade
  BY <1>3
<1>5. handed = 1
  BY DEF BrowserInit
<1>6. BrowserTypeOK
  <2>1. access \in BOOLEAN /\ broken \in BOOLEAN /\ out \in BOOLEAN
    BY DEF BrowserInit
  <2>2. /\ jar \in 0..handed /\ token \in 0..handed /\ handed \in Nat
        /\ expiries \in 0..MaxExpiries
    BY BoundsAssumption DEF BrowserInit
  <2>3. page \in [Tabs -> Pages]
    BY DEF BrowserInit, Pages
  <2>4. call \in [Tabs -> [Calls -> CallStates]]
    BY <1>1 DEF BrowserInit
  <2>5. /\ isRefreshing \in [Tabs -> BOOLEAN] /\ failedQueue \in [Tabs -> SUBSET Calls]
        /\ renewal \in [Tabs -> Renewals]
    BY <1>2 DEF BrowserInit
  <2>6. QED  BY <2>1, <2>2, <2>3, <2>4, <2>5 DEF BrowserTypeOK
<1>7. Known
  BY <1>1, <1>2, <1>3, <1>4, <1>5 DEF Known
<1>8. Paired
  BY <1>1, <1>2, <1>3, <1>4 DEF Paired
<1>9. QED  BY <1>6, <1>7, <1>8 DEF SessionInv

(* Every step keeps it.                                                    *)
LEMMA NextSession == SessionInv /\ [BrowserNext]_browserVars => SessionInv'
<1> SUFFICES ASSUME SessionInv, [BrowserNext]_browserVars PROVE SessionInv'
  OBVIOUS
<1>0. BrowserTypeOK /\ Known /\ Paired
  BY DEF SessionInv
<1>1. Fits /\ Handed
  BY <1>0, Kinds
<1>2. page' \in [Tabs -> Pages]
  BY <1>0, PageTyped
<1>3. Flags' /\ Numbers'
  BY <1>0, <1>1, FlagsTyped, NumbersTyped
<1>4. BrowserTypeOK'
  BY <1>1, <1>2, <1>3 DEF Fits, Handed, Flags, Numbers, BrowserTypeOK
<1>5. QED  BY <1>0, <1>4, AnsweredStep, PairedStep DEF SessionInv

(* So it holds throughout.                                                 *)
LEMMA Session == BrowserSpec => []SessionInv
<1>1. BrowserInit => SessionInv
  BY InitSession
<1>2. SessionInv /\ [BrowserNext]_browserVars => SessionInv'
  BY NextSession
<1>3. QED  BY <1>1, <1>2, PTL DEF BrowserSpec

(* The calls, pages, cookies and refreshes of every tab hold what they may.*)
THEOREM BrowserTyped == BrowserSpec => []BrowserTypeOK
<1>1. SessionInv => BrowserTypeOK
  BY DEF SessionInv
<1>2. BrowserSpec => []SessionInv
  BY Session
<1>3. QED  BY <1>1, <1>2, PTL

(* isRefreshing and failedQueue (api/axios.js) keep a tab to one refresh at*)
(* a time, and whoever waits in the queue has one under way to wait for.   *)
THEOREM OneRefresh == BrowserSpec => []OneRefreshPerTab
<1>1. ASSUME Paired, BrowserTypeOK PROVE OneRefreshPerTab
  <2> SUFFICES ASSUME NEW t \in Tabs
               PROVE  LET refreshing == {c \in Calls : call[t][c].pc = "refreshing"} IN
                      /\ \A c, d \in refreshing : c = d
                      /\ isRefreshing[t] <=> refreshing # {}
                      /\ isRefreshing[t] <=> renewal[t].pc # "none"
                      /\ failedQueue[t] = {c \in Calls : call[t][c].pc = "queued"}
                      /\ failedQueue[t] # {} => isRefreshing[t]
    BY DEF OneRefreshPerTab
  <2>1. failedQueue[t] \subseteq Calls
    BY <1>1 DEF BrowserTypeOK
  <2>2. QED  BY <1>1, <2>1 DEF Paired
<1>2. SessionInv => OneRefreshPerTab
  BY <1>1 DEF SessionInv
<1>3. BrowserSpec => []SessionInv
  BY Session
<1>4. QED  BY <1>2, <1>3, PTL

----------------------------------------------------------------------------
(* After a logout.                                                         *)

(* A renewal that is about can only come back refused.                     *)
Spent(t) ==
  /\ renewal[t].pc \notin {"found", "answered"}
  /\ renewal[t].pc = "sent" => renewal[t].token = NoCookie

StaysOut == out => jar = NoCookie /\ ~ access /\ \A t \in Tabs : Spent(t)

(* After such a logout, refreshes only come back refused.                  *)
LEMMA StaysOutStep ==
  ASSUME BrowserTypeOK, StaysOut, [BrowserNext]_browserVars
  PROVE  StaysOut'
<1> SUFFICES ASSUME out' PROVE jar' = NoCookie /\ ~ access' /\ \A u \in Tabs : Spent(u)'
  BY DEF StaysOut
<1>a. renewal \in [Tabs -> Renewals] /\ "refused" \in Stages /\ "wanted" \in Stages
  BY DEF BrowserTypeOK, Stages
<1>1. ASSUME out' = out, jar' = jar, access' = access \/ ~ access', renewal' = renewal
      PROVE  jar' = NoCookie /\ ~ access' /\ \A u \in Tabs : Spent(u)'
  BY <1>1 DEF StaysOut, Spent
<1>2. ASSUME NEW t \in Tabs, out' = out, jar' = jar, access' = access,
             out => OtherRenewals(t) /\ Spent(t)'
      PROVE  jar' = NoCookie /\ ~ access' /\ \A u \in Tabs : Spent(u)'
  BY <1>2 DEF StaysOut, Spent, OtherRenewals
<1>3. CASE Expire \/ EndElsewhere \/ UNCHANGED browserVars
  BY <1>1, <1>3 DEF Expire, EndElsewhere, browserVars
<1>4. ASSUME NEW t \in Tabs, TabMoves(t)
      PROVE  jar' = NoCookie /\ ~ access' /\ \A u \in Tabs : Spent(u)'
  <2>1. CASE ServeMe(t) \/ Hydrate(t)
    BY <1>1, <2>1 DEF ServeMe, Hydrate
  <2>2. CASE SendRenewal(t)
    <3> DEFINE r == [pc |-> "sent", token |-> jar]
    <3>1. r \in Renewals /\ r.pc = "sent" /\ r.token = jar
      BY DEF Renewals, BrowserTypeOK
    <3>2. Turning(t, r) /\ out' = out /\ jar' = jar /\ access' = access
      BY <2>2 DEF SendRenewal, Turning
    <3> HIDE DEF r
    <3>3. OtherRenewals(t) /\ renewal'[t] = r
      BY <3>1, <3>2, RenewalBecomes
    <3>4. QED  BY <1>2, <3>1, <3>2, <3>3 DEF Spent, StaysOut
  <2>3. CASE FindToken(t)
    <3>1. out' = out /\ jar' = jar /\ access' = access /\ renewal[t].pc = "sent"
      BY <2>3 DEF FindToken
    <3>2. ASSUME out PROVE OtherRenewals(t) /\ Spent(t)'
      <4>1. renewal[t].token = NoCookie
        BY <3>1, <3>2 DEF StaysOut, Spent
      <4>2. renewal' = [renewal EXCEPT ![t].pc = "refused"]
        BY <2>3, <4>1 DEF FindToken
      <4>3. OtherRenewals(t) /\ renewal'[t].pc = "refused"
        BY <1>a, <4>2, RenewalMoves
      <4>4. QED  BY <4>3 DEF Spent
    <3>3. QED  BY <1>2, <3>1, <3>2
  <2>4. CASE Rotate(t) \/ Renewed(t)
    <3>1. renewal[t].pc \in {"found", "answered"} /\ out' = out
      BY <2>4 DEF Rotate, Renewed
    <3>2. QED  BY <3>1 DEF StaysOut, Spent
  <2>5. CASE LoseAnswer(t)
    <3>1. /\ renewal' = [renewal EXCEPT ![t].pc = "refused"]
          /\ out' = out /\ jar' = jar /\ access' = access
      BY <2>5 DEF LoseAnswer
    <3>2. OtherRenewals(t) /\ renewal'[t].pc = "refused"
      BY <1>a, <3>1, RenewalMoves
    <3>3. QED  BY <1>2, <3>1, <3>2 DEF Spent
  <2>6. CASE NotRenewed(t) \/ \E c \in Calls : GiveUp(t, c)
    <3>1. Turning(t, NoRenewal) /\ out' = out /\ jar' = jar /\ access' = access
      BY <2>6 DEF NotRenewed, GiveUp, Redirect, Denied, Turning
    <3>2. NoRenewal \in Renewals /\ NoRenewal.pc = "none"
      BY DEF NoRenewal, Renewals, NoCookie
    <3>3. OtherRenewals(t) /\ renewal'[t] = NoRenewal
      BY <3>1, <3>2, RenewalBecomes
    <3>4. QED  BY <1>2, <3>1, <3>2, <3>3 DEF Spent
  <2>7. ASSUME NEW c \in Calls, TabStep(t, c) \/ Enqueue(t, c) \/ Refresh(t, c)
        PROVE  jar' = NoCookie /\ ~ access' /\ \A u \in Tabs : Spent(u)'
    <3>1. CASE Send(t, c) \/ ClickLogout(t, c) \/ Fails(t, c)
      BY <1>1, <3>1 DEF Send, ClickLogout, Fails
    <3>2. CASE ServeApi(t, c) \/ ServeLogin(t, c) \/ ServeLogout(t, c)
        \/ Enqueue(t, c)
      BY <1>1, <3>2 DEF ServeApi, ServeLogin, ServeLogout, Enqueue, Denied
    <3>3. CASE Refresh(t, c)
      <4>1. /\ renewal' = [renewal EXCEPT ![t].pc = "wanted"]
            /\ out' = out /\ jar' = jar /\ access' = access
        BY <3>3 DEF Refresh, StartsRenewal, Denied
      <4>2. OtherRenewals(t) /\ renewal'[t].pc = "wanted"
        BY <1>a, <4>1, RenewalMoves
      <4>3. QED  BY <1>2, <4>1, <4>2 DEF Spent
    <3>4. CASE Succeed(t, c)
      BY <1>1, <3>4 DEF Succeed
    <3>5. CASE LoggedOut(t, c)
      <4>1. /\ jar' = NoCookie /\ access' = FALSE /\ renewal' = renewal
            /\ \A u \in Tabs : renewal[u].pc \notin {"sent", "found", "answered"}
        BY <3>5 DEF LoggedOut
      <4>2. QED  BY <4>1 DEF Spent
    <3>6. QED  BY <2>7, <3>1, <3>2, <3>3, <3>4, <3>5 DEF TabStep
  <2>8. QED  BY <1>4, <2>1, <2>2, <2>3, <2>4, <2>5, <2>6, <2>7 DEF TabMoves, Exchange,
     Proceed, TabStep
<1>5. CASE \E t \in Tabs : TabMoves(t)
  BY <1>4, <1>5
<1>6. QED  BY <1>3, <1>5 DEF BrowserNext, TabMoves

(* Once the answer to /auth/logout has cleared the jar, no call and no     *)
(* refresh of any tab brings a token back, unless a refresh was with the   *)
(* server at that moment.                                                  *)
THEOREM OutForGood == BrowserSpec => []LogoutLasts
<1>1. BrowserInit => StaysOut
  BY DEF BrowserInit, StaysOut
<1>2. SessionInv /\ StaysOut /\ [BrowserNext]_browserVars => StaysOut'
  BY StaysOutStep DEF SessionInv
<1>3. StaysOut => LogoutLasts
  BY DEF StaysOut, LogoutLasts
<1>4. BrowserSpec => []SessionInv
  BY Session
<1>5. QED  BY <1>1, <1>2, <1>3, <1>4, PTL DEF BrowserSpec

----------------------------------------------------------------------------
(* A browser with one tab.                                                 *)

(* The renewal under way carries the token the server would take.          *)
RenewalOK(t) ==
  /\ token # NoCookie
  /\ renewal[t].pc # "refused"
  /\ renewal[t].pc # "answered" => jar = token
  /\ renewal[t].pc \in {"sent", "found", "answered"} => renewal[t].token = token

(* The login page makes only logins, the application none; what is retried *)
(* has an access token that was just renewed.                              *)
CallOK(t, c) ==
  /\ call[t][c].kind # "logout"
  /\ call[t][c].kind = "login" => page[t] = "login" /\ call[t][c].pc # "ok"
  /\ call[t][c].kind = "api" /\ call[t][c].pc # "unmade" => page[t] = "app"
  /\ call[t][c].kind = "api" /\ call[t][c].retry => call[t][c].pc # "denied"
  /\ call[t][c].kind = "api" /\ call[t][c].retry /\ call[t][c].pc = "sent" => access

(* The form is submitted once at a time.                                   *)
Pending(t, c) == call[t][c].kind = "login" /\ call[t][c].pc \in Unsettled
OneForm(t) == \A c, d \in Calls : Pending(t, c) /\ Pending(t, d) => c = d

CallsOK(t) == OneForm(t) /\ \A c \in Calls : CallOK(t, c)

OneTab(t) == ~ broken => RenewalOK(t) /\ CallsOK(t)

(* What broke the session once has broken it for good.                     *)
LEMMA BrokenStays ==
  ASSUME broken, [BrowserNext]_browserVars
  PROVE  broken'
<1>1. CASE Expire \/ EndElsewhere \/ UNCHANGED browserVars
  BY <1>1 DEF Expire, EndElsewhere, Breaks, browserVars
<1>2. ASSUME NEW t \in Tabs, TabMoves(t) PROVE broken'
  <2>1. CASE ServeMe(t) \/ Hydrate(t) \/ Exchange(t) \/ LoseAnswer(t)
    BY <2>1 DEF ServeMe, Hydrate, Exchange, SendRenewal, FindToken, Rotate,
       Renewed, NotRenewed, LoseAnswer, Breaks
  <2>2. ASSUME NEW c \in Calls, TabStep(t, c) PROVE broken'
    BY <2>2 DEF TabStep, Send, ClickLogout, Fails, ServeApi, ServeLogin,
       ServeLogout, Succeed, LoggedOut
  <2>3. ASSUME NEW c \in Calls, GiveUp(t, c) \/ Enqueue(t, c) \/ Refresh(t, c)
        PROVE  broken'
    BY <2>3 DEF GiveUp, Enqueue, Refresh, Denied
  <2>4. QED  BY <1>2, <2>1, <2>2, <2>3 DEF TabMoves, Proceed, TabStep
<1>3. CASE \E t \in Tabs : TabMoves(t)
  BY <1>2, <1>3
<1>4. QED  BY <1>1, <1>3 DEF BrowserNext, TabMoves

(* One call of the tab moves on, one is made, or all are moved.            *)
LEMMA MovedOK ==
  ASSUME NEW t \in Tabs, NEW c \in Calls, NEW p, CallsOK(t), Moved(t, c, p),
         call[t][c].pc \in Unsettled, page'[t] = page[t], access' = access,
         call[t][c].kind = "login" => p # "ok",
         call[t][c].kind = "api" /\ call[t][c].retry => p \notin {"denied", "sent"}
  PROVE  CallsOK(t)'
<1>1. ASSUME NEW d \in Calls PROVE CallOK(t, d)' /\ (Pending(t, d)' => Pending(t, d))
  <2>1. CASE d = c
    BY <2>1 DEF CallsOK, CallOK, Moved, Pending, Unsettled
  <2>2. CASE d # c
    <3>1. call'[t][d] = call[t][d]
      BY <2>2 DEF Moved, OtherCalls
    <3>2. QED  BY <3>1 DEF CallsOK, CallOK, Pending
  <2>3. QED  BY <2>1, <2>2
<1>2. OneForm(t)'
  BY <1>1 DEF CallsOK, OneForm
<1>3. QED  BY <1>1, <1>2 DEF CallsOK

(* A step at which no call moves keeps what is said of the calls.          *)
LEMMA UntouchedOK ==
  ASSUME NEW t \in Tabs, CallsOK(t), call' = call,
         page'[t] = page[t] \/ (page[t] \notin {"login", "app"}),
         access => access' \/ ~ Retrying
  PROVE  CallsOK(t)'
<1>1. ASSUME NEW d \in Calls PROVE CallOK(t, d)'
  BY DEF CallsOK, CallOK, Retrying
<1>2. OneForm(t)'
  BY DEF CallsOK, OneForm, Pending
<1>3. QED  BY <1>1, <1>2 DEF CallsOK

(* And one at which no token moves what is said of the refresh.            *)
LEMMA SameRenewalOK ==
  ASSUME NEW t \in Tabs, RenewalOK(t), jar' = jar, token' = token, renewal' = renewal
  PROVE  RenewalOK(t)'
  BY DEF RenewalOK

(* With one tab, every step keeps the renewal in step with the jar.        *)
LEMMA OneTabStep ==
  ASSUME NEW t, Tabs = {t}, SessionInv, OneTab(t), [BrowserNext]_browserVars
  PROVE  OneTab(t)'
<1> SUFFICES ASSUME ~ broken' PROVE RenewalOK(t)' /\ CallsOK(t)'
  BY DEF OneTab
<1>0. ~ broken
  BY BrokenStays
<1>1. RenewalOK(t) /\ CallsOK(t)
  BY <1>0 DEF OneTab
<1>2. BrowserTypeOK /\ Known /\ Paired /\ t \in Tabs
  BY DEF SessionInv
<1>3. \A c \in Calls : CallOK(t, c) /\ call[t][c] \in CallStates
  BY <1>1, <1>2 DEF CallsOK, BrowserTypeOK
<1>4. renewal[t] \in Renewals /\ page[t] \in Pages
  BY <1>2 DEF BrowserTypeOK
<1>5. {"wanted", "found"} \subseteq Stages /\ {"ok", "done", "denied", "failed", "queued",
    "sent"} \subseteq Progress
  BY DEF Stages, Progress, Unsettled
<1>6. CASE Expire
  <2>1. /\ ~ Retrying /\ call' = call /\ page' = page /\ renewal' = renewal
        /\ jar' = jar /\ token' = token
    BY <1>6 DEF Expire, client, server
  <2>2. QED  BY <1>1, <1>2, <2>1, UntouchedOK, SameRenewalOK
<1>7. CASE EndElsewhere
  BY <1>7 DEF EndElsewhere, Breaks
<1>8. CASE UNCHANGED browserVars
  <2>1. /\ call' = call /\ page' = page /\ renewal' = renewal
        /\ jar' = jar /\ token' = token /\ access' = access
    BY <1>8 DEF browserVars
  <2>2. QED  BY <1>1, <1>2, <2>1, UntouchedOK, SameRenewalOK
<1>9. CASE ServeMe(t) \/ Hydrate(t)
  <2>1. page[t] \notin {"login", "app"}
    BY <1>9 DEF ServeMe, Hydrate
  <2>2. call' = call /\ renewal' = renewal /\ jar' = jar /\ token' = token /\ access' = access
    BY <1>9 DEF ServeMe, Hydrate, server
  <2>3. QED  BY <1>1, <1>2, <2>1, <2>2, UntouchedOK, SameRenewalOK
<1>10. CASE SendRenewal(t) \/ FindToken(t) \/ Rotate(t)
  <2>1. call' = call /\ page' = page /\ jar' = jar /\ access' = access
    BY <1>10 DEF SendRenewal, FindToken, Rotate, client
  <2>2. CallsOK(t)'
    BY <1>1, <1>2, <2>1, UntouchedOK
  <2>3. RenewalOK(t)'
    <3>1. CASE SendRenewal(t)
      <4> DEFINE r == [pc |-> "sent", token |-> jar]
      <4>1. r \in Renewals /\ r.pc = "sent" /\ r.token = jar
        BY <1>2 DEF Renewals, BrowserTypeOK
      <4>2. Turning(t, r) /\ token' = token /\ renewal[t].pc = "wanted"
        BY <3>1 DEF SendRenewal, Turning, server
      <4> HIDE DEF r
      <4>3. renewal'[t] = r
        BY <1>2, <4>1, <4>2, RenewalBecomes
      <4>4. QED  BY <1>1, <2>1, <4>1, <4>2, <4>3 DEF RenewalOK
    <3>2. CASE FindToken(t)
      <4>1. renewal[t].pc = "sent" /\ token' = token
        BY <3>2 DEF FindToken, server
      <4>2. renewal[t].token # NoCookie /\ renewal[t].token = token
        BY <1>1, <4>1 DEF RenewalOK
      <4>3. renewal' = [renewal EXCEPT ![t].pc = "found"]
        BY <3>2, <4>2 DEF FindToken
      <4>4. renewal'[t].pc = "found" /\ renewal'[t].token = renewal[t].token
        BY <1>2, <1>5, <4>3, RenewalMoves
      <4>5. QED  BY <1>1, <2>1, <4>1, <4>2, <4>4 DEF RenewalOK
    <3>3. CASE Rotate(t)
      <4> DEFINE r == [pc |-> "answered", token |-> handed']
      <4>1. handed' \in Nat /\ handed' # 0 /\ token' = handed'
        BY <1>2, <3>3 DEF Rotate, BrowserTypeOK
      <4>2. r \in Renewals /\ r.pc = "answered" /\ r.token = handed'
        BY <4>1 DEF Renewals
      <4>3. Turning(t, r)
        BY <3>3 DEF Rotate, Turning
      <4> HIDE DEF r
      <4>4. renewal'[t] = r
        BY <1>2, <4>2, <4>3, RenewalBecomes
      <4>5. QED  BY <4>1, <4>2, <4>4 DEF RenewalOK, NoCookie
    <3>4. QED  BY <1>10, <3>1, <3>2, <3>3
  <2>4. QED  BY <2>2, <2>3
<1>11. CASE Renewed(t)
  <2> DEFINE S == {c \in Calls : call[t][c].pc = "refreshing" \/ c \in failedQueue[t]}
  <2>1. /\ renewal[t].pc = "answered" /\ jar' = renewal[t].token /\ access' = TRUE
        /\ token' = token /\ page' = page /\ Turning(t, NoRenewal) /\ Shifted(t, S, "sent")
    BY <1>11 DEF Renewed, TakesCookies, server, Turning, Shifted
  <2>2. \A c \in S : call[t][c].pc \in {"refreshing", "queued"}
    BY <1>2 DEF Paired
  <2> HIDE DEF S
  <2>3. \A c \in Calls : /\ call'[t][c].pc = IF c \in S THEN "sent" ELSE call[t][c].pc
                         /\ call'[t][c].kind = call[t][c].kind
                         /\ call'[t][c].retry = call[t][c].retry
    BY <1>2, <1>5, <2>1, RowMoves
  <2>4. NoRenewal \in Renewals /\ NoRenewal.pc = "none"
    BY DEF NoRenewal, Renewals, NoCookie
  <2>5. renewal'[t] = NoRenewal
    BY <1>2, <2>1, <2>4, RenewalBecomes
  <2>6. RenewalOK(t)'
    BY <1>1, <2>1, <2>4, <2>5 DEF RenewalOK
  <2>7. ASSUME NEW c \in Calls PROVE CallOK(t, c)' /\ (Pending(t, c)' => Pending(t, c))
    <3>1. CASE c \in S
      BY <1>3, <2>1, <2>2, <2>3, <3>1 DEF CallOK, Pending, Unsettled
    <3>2. CASE c \notin S
      BY <1>3, <2>1, <2>3, <3>2 DEF CallOK, Pending
    <3>3. QED  BY <3>1, <3>2
  <2>8. OneForm(t)'
    BY <1>1, <2>7 DEF CallsOK, OneForm
  <2>9. QED  BY <2>6, <2>7, <2>8 DEF CallsOK
<1>12. CASE NotRenewed(t)
  BY <1>1, <1>12 DEF NotRenewed, RenewalOK
<1>13. CASE LoseAnswer(t)
  BY <1>13 DEF LoseAnswer, Breaks
<1>14. ASSUME NEW c \in Calls, TabStep(t, c)
       PROVE  RenewalOK(t)' /\ CallsOK(t)'
  <2>1. CASE Send(t, c)
    <3> DEFINE k == IF page[t] = "app" THEN "api" ELSE "login"
               r == [Unmade EXCEPT !.pc = "sent", !.kind = k]
    <3>1. r \in CallStates /\ r.pc = "sent" /\ r.kind = k /\ r.retry = FALSE
      BY DEF Unmade, CallStates, NoCookie, Unsettled
    <3>2. /\ Becoming(t, c, r) /\ renewal' = renewal /\ jar' = jar /\ token' = token
          /\ access' = access /\ page' = page
      BY <2>1 DEF Send, server, Becoming
    <3>3. page[t] = "app" \/ (page[t] = "login" /\ \A d \in Calls : ~ Pending(t, d))
      BY <2>1 DEF Send, Submitting, Pending
    <3> HIDE DEF r
    <3>4. call'[t][c] = r /\ \A d \in Calls \ {c} : call'[t][d] = call[t][d]
      BY <1>2, <3>1, <3>2, CallBecomes DEF OtherCalls
    <3>5. ASSUME NEW d \in Calls PROVE CallOK(t, d)'
      <4>1. CASE d = c
        BY <3>1, <3>2, <3>3, <3>4, <4>1 DEF CallOK
      <4>2. CASE d # c
        BY <1>3, <3>2, <3>4, <4>2 DEF CallOK
      <4>3. QED  BY <4>1, <4>2
    <3>6. OneForm(t)'
      <4>1. \A d \in Calls \ {c} : Pending(t, d)' => Pending(t, d)
        BY <3>4 DEF Pending
      <4>2. CASE page[t] = "app"
        <5>1. ~ Pending(t, c)'
          BY <3>1, <3>4, <4>2 DEF Pending
        <5>2. QED  BY <1>1, <4>1, <5>1 DEF CallsOK, OneForm
      <4>3. CASE page[t] # "app"
        BY <3>3, <4>1, <4>3 DEF OneForm
      <4>4. QED  BY <4>2, <4>3
    <3>7. QED  BY <1>1, <1>2, <3>2, <3>5, <3>6, SameRenewalOK DEF CallsOK
  <2>2. CASE ClickLogout(t, c)
    BY <2>2 DEF ClickLogout
  <2>3. CASE ServeLogout(t, c) \/ LoggedOut(t, c)
    BY <1>3, <2>3 DEF ServeLogout, LoggedOut, CallOK
  <2>4. ASSUME NEW p \in Progress, call' = [call EXCEPT ![t][c].pc = p],
               call[t][c].pc \in Unsettled,
               UNCHANGED <<access, jar, token, renewal, page>>,
               call[t][c].kind = "login" => p # "ok",
               call[t][c].kind = "api" /\ call[t][c].retry => p \notin {"denied", "sent"}
        PROVE  RenewalOK(t)' /\ CallsOK(t)'
    <3>1. Moved(t, c, p)
      BY <1>2, <2>4, CallMoves
    <3>2. UNCHANGED <<access, jar, token, renewal, page>>
      BY <2>4
    <3>3. CallsOK(t)'
      BY <1>1, <1>2, <2>4, <3>1, MovedOK
    <3>4. QED  BY <1>1, <1>2, <3>2, <3>3, SameRenewalOK
  <2>5. CASE ServeApi(t, c)
    <3> DEFINE p == IF access THEN "ok" ELSE "denied"
    <3>1. /\ call' = [call EXCEPT ![t][c].pc = p]
          /\ call[t][c].pc = "sent" /\ call[t][c].kind = "api"
          /\ UNCHANGED <<access, jar, token, renewal, page>>
      BY <2>5 DEF ServeApi, server
    <3>2. call[t][c].retry => p = "ok"
      BY <1>3, <3>1 DEF CallOK
    <3>3. p \in Progress /\ p # "sent" /\ call[t][c].pc \in Unsettled
      BY <1>5, <3>1 DEF Unsettled
    <3> HIDE DEF p
    <3>4. QED  BY <2>4, <3>1, <3>2, <3>3
  <2>6. CASE ServeLogin(t, c)
    <3>1. /\ call' = [call EXCEPT ![t][c].pc = "denied"]
          /\ call[t][c].pc = "sent" /\ call[t][c].kind = "login"
          /\ UNCHANGED <<access, jar, token, renewal, page>>
      BY <2>6 DEF ServeLogin, server
    <3>2. call[t][c].pc \in Unsettled
      BY <3>1 DEF Unsettled
    <3>3. QED  BY <1>5, <2>4, <3>1, <3>2
  <2>7. CASE Succeed(t, c)
    <3>1. call[t][c].pc = "ok" /\ call[t][c].kind # "login"
      BY <1>3, <2>7 DEF Succeed, CallOK
    <3>2. /\ call' = [call EXCEPT ![t][c].pc = "done"]
          /\ UNCHANGED <<access, jar, token, renewal, page>>
      BY <2>7, <3>1 DEF Succeed, server
    <3>3. call[t][c].pc \in Unsettled
      BY <3>1 DEF Unsettled
    <3>4. QED  BY <1>5, <2>4, <3>1, <3>2, <3>3
  <2>8. CASE Fails(t, c)
    <3>1. call[t][c].pc \in {"sent", "ok"} /\ call[t][c].kind # "logout"
      BY <1>3, <2>8 DEF Fails, CallOK
    <3>2. /\ call' = [call EXCEPT ![t][c].pc = "failed"]
          /\ UNCHANGED <<access, jar, token, renewal, page>>
      BY <2>8, <3>1 DEF Fails, server
    <3>3. call[t][c].pc \in Unsettled
      BY <3>1 DEF Unsettled
    <3>4. QED  BY <1>5, <2>4, <3>2, <3>3
  <2>9. QED  BY <1>14, <2>1, <2>2, <2>3, <2>5, <2>6, <2>7, <2>8 DEF TabStep
<1>15. ASSUME NEW c \in Calls, Enqueue(t, c)
       PROVE  RenewalOK(t)' /\ CallsOK(t)'
  <2>1. /\ call' = [call EXCEPT ![t][c].pc = "queued"] /\ call[t][c].pc = "denied"
        /\ UNCHANGED <<access, jar, token, renewal, page>>
    BY <1>15 DEF Enqueue, Denied, server
  <2>2. Moved(t, c, "queued") /\ call[t][c].pc \in Unsettled
    BY <1>2, <1>5, <2>1, CallMoves DEF Unsettled
  <2>3. UNCHANGED <<access, jar, token, renewal, page>>
    BY <2>1
  <2>4. CallsOK(t)'
    BY <1>1, <1>2, <2>2, <2>3, MovedOK
  <2>5. QED  BY <1>1, <1>2, <2>3, <2>4, SameRenewalOK
<1>16. ASSUME NEW c \in Calls, Refresh(t, c)
       PROVE  RenewalOK(t)' /\ CallsOK(t)'
  <2> DEFINE r == [call[t][c] EXCEPT !.pc = "refreshing", !.retry = TRUE]
  <2>1. r \in CallStates /\ r.pc = "refreshing" /\ r.kind = call[t][c].kind
    BY <1>3 DEF CallStates, Unsettled
  <2>2. Becoming(t, c, r) /\ call[t][c].pc = "denied" /\ ~ isRefreshing[t]
    BY <1>16 DEF Refresh, StartsRenewal, Denied, Becoming
  <2>3. UNCHANGED <<access, jar, token, page>>
    BY <1>16 DEF Refresh, StartsRenewal, Denied, server
  <2>4. renewal' = [renewal EXCEPT ![t].pc = "wanted"]
    BY <1>16 DEF Refresh, StartsRenewal
  <2> HIDE DEF r
  <2>5. call'[t][c] = r /\ \A d \in Calls \ {c} : call'[t][d] = call[t][d]
    BY <1>2, <2>1, <2>2, CallBecomes DEF OtherCalls
  <2>6. renewal'[t].pc = "wanted"
    BY <1>2, <1>5, <2>4, RenewalMoves
  <2>7. renewal[t].pc = "none"
    BY <1>2, <2>2 DEF Paired
  <2>8. RenewalOK(t)'
    BY <1>1, <2>3, <2>6, <2>7 DEF RenewalOK
  <2>9. ASSUME NEW d \in Calls PROVE CallOK(t, d)' /\ (Pending(t, d)' => Pending(t, d))
    <3>1. CASE d = c
      BY <1>3, <2>1, <2>2, <2>3, <2>5, <3>1 DEF CallOK, Pending, Unsettled
    <3>2. CASE d # c
      BY <1>3, <2>3, <2>5, <3>2 DEF CallOK, Pending
    <3>3. QED  BY <3>1, <3>2
  <2>10. OneForm(t)'
    BY <1>1, <2>9 DEF CallsOK, OneForm
  <2>11. QED  BY <2>8, <2>9, <2>10 DEF CallsOK
<1>17. ASSUME NEW c \in Calls, GiveUp(t, c)
       PROVE  RenewalOK(t)' /\ CallsOK(t)'
  <2> DEFINE S == {d \in Calls : call[t][d].pc \in Unsettled}
  <2>1. /\ call[t][c].pc = "denied" /\ call[t][c].retry
        /\ Turning(t, NoRenewal) /\ Shifted(t, S, "gone")
        /\ page' = [page EXCEPT ![t] = "login"] /\ UNCHANGED <<access, jar, token>>
    BY <1>17 DEF GiveUp, Denied, Redirect, Turning, Shifted, server
  <2>2. call[t][c].kind \in {"api", "login", "logout"} /\ call[t][c].pc \in Unsettled
    BY <1>3, <2>1, CallFields DEF Unsettled
  <2>3. call[t][c].kind = "login" /\ page[t] = "login"
    BY <1>3, <2>1, <2>2 DEF CallOK
  <2>4. page'[t] = "login"
    BY <1>2, <2>1 DEF BrowserTypeOK
  <2>5. \A d \in Calls : call[t][d].pc # "refreshing"
    <3> SUFFICES ASSUME NEW d \in Calls, call[t][d].pc = "refreshing" PROVE FALSE
      OBVIOUS
    <3>1. call[t][d].kind = "login"
      BY <1>3, <2>3, CallFields DEF CallOK
    <3>2. Pending(t, c) /\ Pending(t, d)
      BY <2>2, <2>3, <3>1 DEF Pending, Unsettled
    <3>3. QED  BY <1>1, <2>1, <3>2 DEF CallsOK, OneForm
  <2>6. renewal[t].pc = "none"
    BY <1>2, <2>5 DEF Paired
  <2> HIDE DEF S
  <2>7. "gone" \in Progress /\ NoRenewal \in Renewals /\ NoRenewal.pc = "none"
    BY DEF Progress, NoRenewal, Renewals, NoCookie
  <2>8. \A d \in Calls : /\ call'[t][d].pc = IF d \in S THEN "gone" ELSE call[t][d].pc
                         /\ call'[t][d].kind = call[t][d].kind
                         /\ call'[t][d].retry = call[t][d].retry
    BY <1>2, <2>1, <2>7, RowMoves
  <2>9. renewal'[t] = NoRenewal
    BY <1>2, <2>1, <2>7, RenewalBecomes
  <2>10. RenewalOK(t)'
    BY <1>1, <2>1, <2>6, <2>7, <2>9 DEF RenewalOK
  <2>11. ASSUME NEW d \in Calls PROVE CallOK(t, d)' /\ (Pending(t, d)' => Pending(t, d))
    <3>1. call'[t][d].pc # call[t][d].pc => call'[t][d].pc = "gone" /\ d \in S
      BY <2>8
    <3>2. CASE d \in S
      BY <1>3, <2>1, <2>3, <2>4, <2>8, <3>2 DEF CallOK, Pending, Unsettled, S
    <3>3. CASE d \notin S
      BY <1>3, <2>1, <2>3, <2>4, <2>8, <3>3 DEF CallOK, Pending
    <3>4. QED  BY <3>2, <3>3
  <2>12. OneForm(t)'
    BY <1>1, <2>11 DEF CallsOK, OneForm
  <2>13. QED  BY <2>10, <2>11, <2>12 DEF CallsOK
<1>18. CASE TabMoves(t)
  BY <1>9, <1>10, <1>11, <1>12, <1>13, <1>14, <1>15, <1>16, <1>17, <1>18
     DEF TabMoves, Exchange, Proceed, TabStep
<1>19. QED  BY <1>6, <1>7, <1>8, <1>18 DEF BrowserNext, TabMoves

(* So it is throughout.                                                    *)
LEMMA OneTabAlways ==
  ASSUME NEW t, Tabs = {t}
  PROVE  BrowserSpec => []OneTab(t)
<1>1. BrowserInit => OneTab(t)
  <2>1. ASSUME BrowserInit PROVE RenewalOK(t) /\ CallsOK(t)
    <3>1. /\ renewal[t].pc = "none" /\ jar = 1 /\ token = 1 /\ t \in Tabs
          /\ \A c \in Calls : call[t][c].pc = "unmade" /\ call[t][c].kind = "api"
          /\ \A c \in Calls : call[t][c].retry = FALSE
      BY <2>1 DEF BrowserInit, NoRenewal, Unmade
    <3>2. QED  BY <3>1 DEF RenewalOK, CallsOK, CallOK, OneForm, Pending, NoCookie
  <2>2. QED  BY <2>1 DEF OneTab
<1>2. SessionInv /\ OneTab(t) /\ [BrowserNext]_browserVars => OneTab(t)'
  BY OneTabStep
<1>3. BrowserSpec => []SessionInv
  BY Session
<1>4. QED  BY <1>1, <1>2, <1>3, PTL DEF BrowserSpec

(* With one tab, the jar holds between two exchanges what the server would *)
(* take.                                                                   *)
THEOREM JarCorrect ==
  ASSUME NEW t, Tabs = {t}
  PROVE  BrowserSpec => []JarIsCurrent
<1>1. BrowserSpec => []OneTab(t)
  BY OneTabAlways
<1>2. OneTab(t) => JarIsCurrent
  BY DEF OneTab, RenewalOK, JarIsCurrent
<1>3. QED  BY <1>1, <1>2, PTL

(* With one tab, a refresh is silent: nobody is thrown out of the          *)
(* application whose session was not ended and whose answers were not lost.*)
THEOREM RefreshIsSilent ==
  ASSUME NEW tab, Tabs = {tab}
  PROVE  BrowserSpec => SilentRenewal
<1>1. BrowserSpec => []OneTab(tab) /\ []SessionInv
  <2>1. BrowserSpec => []OneTab(tab)
    BY OneTabAlways
  <2>2. BrowserSpec => []SessionInv
    BY Session
  <2>3. QED  BY <2>1, <2>2
<1>2. ASSUME SessionInv, OneTab(tab), [BrowserNext]_browserVars
      PROVE  \A t \in Tabs : page[t] = "app" /\ page'[t] = "login" => broken
  <2> SUFFICES ASSUME page[tab] = "app", page'[tab] = "login", ~ broken PROVE FALSE
    OBVIOUS
  <2>1. RenewalOK(tab) /\ CallsOK(tab) /\ tab \in Tabs /\ BrowserTypeOK
    BY <1>2 DEF OneTab, SessionInv
  <2>2. \A c \in Calls : CallOK(tab, c) /\ call[tab][c] \in CallStates
    BY <2>1 DEF CallsOK, BrowserTypeOK
  <2>3. page' # page
    OBVIOUS
  <2>4. CASE Expire \/ EndElsewhere \/ UNCHANGED browserVars
    BY <2>3, <2>4 DEF Expire, EndElsewhere, browserVars, client
  <2>5. CASE ServeMe(tab) \/ Hydrate(tab)
    BY <2>5 DEF ServeMe, Hydrate
  <2>6. CASE SendRenewal(tab) \/ FindToken(tab) \/ Rotate(tab) \/ Renewed(tab)
      \/ LoseAnswer(tab)
    BY <2>3, <2>6 DEF SendRenewal, FindToken, Rotate, Renewed, LoseAnswer,
       client
  <2>7. CASE NotRenewed(tab)
    BY <2>1, <2>7 DEF NotRenewed, RenewalOK
  <2>8. ASSUME NEW c \in Calls, TabStep(tab, c) PROVE FALSE
    <3>1. CASE Send(tab, c) \/ ClickLogout(tab, c) \/ ServeApi(tab, c)
        \/ ServeLogin(tab, c) \/ ServeLogout(tab, c)
      BY <2>3, <3>1 DEF Send, ClickLogout, ServeApi, ServeLogin, ServeLogout
    <3>2. CASE Succeed(tab, c)
      BY <2>2, <2>3, <3>2 DEF Succeed, CallOK
    <3>3. CASE LoggedOut(tab, c) \/ Fails(tab, c)
      BY <2>2, <2>3, <3>3 DEF LoggedOut, Fails, CallOK
    <3>4. QED  BY <2>8, <3>1, <3>2, <3>3 DEF TabStep
  <2>9. ASSUME NEW c \in Calls, GiveUp(tab, c) PROVE FALSE
    BY <2>2, <2>9, CallFields DEF GiveUp, Denied, CallOK
  <2>10. ASSUME NEW c \in Calls, Enqueue(tab, c) \/ Refresh(tab, c) PROVE FALSE
    BY <2>3, <2>10 DEF Enqueue, Refresh, StartsRenewal
  <2>11. QED  BY <1>2, <2>4, <2>5, <2>6, <2>7, <2>8, <2>9, <2>10
             DEF BrowserNext, TabMoves, Exchange, Proceed, TabStep
<1>3. SessionInv /\ OneTab(tab) /\ [BrowserNext]_browserVars
        => [\A t \in Tabs : page[t] = "app" /\ page'[t] = "login" => broken]_browserVars
  BY <1>2
<1>4. QED  BY <1>1, <1>3, PTL DEF BrowserSpec, SilentRenewal
=============================================================================
