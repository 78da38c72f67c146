-------------------------------- MODULE SignIn --------------------------------
(* The passwords of one user, and the sessions opened with them             *)
(* (AuthService, UserService, core/session_store.py, core/security.py,      *)
(* routers/auth.py).  Passwords are rows of a history, the latest one       *)
(* counting; rows are ordered by the start of their transaction, which is   *)
(* what the database's now() returns.  Sessions are keys in Redis, with a   *)
(* lifetime; a browser keeps one as a cookie.                               *)
EXTENDS Naturals, FiniteSets

CONSTANTS
  Calls,      \* requests at a time
  Passwords,  \* the passwords that are chosen; the ones issued are unique
  SessionIds,
  Kept,       \* pw_histories_limit
  MaxChanges, \* bound: transactions that may write a password
  Nothing

\* password_histories, and what is remembered of how a session was opened.
PasswordRows ==
  [password : Passwords \cup Nat, kind : {"issued", "chosen"}, stamp : Nat]
Openings ==
  [op : {"reset", "login", "key"}, row : PasswordRows \cup {Nothing}, crossed : BOOLEAN]

\* Nothing is a value of its own.
ASSUME SignInAssumption ==
  /\ Kept \in Nat /\ MaxChanges \in Nat
  /\ Nothing \notin SessionIds \cup Openings

VARIABLES
  user,     \* the row: a number for the account, and is_required_password_reset
  history,  \* its password_histories
  clock,    \* transactions begun so far
  live,     \* the sessions in Redis
  ended,    \* those that were deleted or have expired
  opened,   \* how a session was opened: with a password's row or a login key
  cookie,   \* what the browser keeps
  doing,    \* what each request has read so far
  crossed   \* the last change of the password overlapped another one

signVars == <<user, history, clock, live, ended, opened, cookie, doing, crossed>>

Row(p, kind, t) == [password |-> p, kind |-> kind, stamp |-> t]

\* A user with the initial password.
SignInit ==
  /\ user = [account |-> 0, reset |-> TRUE] /\ history = {Row(0, "issued", 0)}
  /\ clock = 1 /\ crossed = FALSE
  /\ live = {} /\ ended = {} /\ opened = [s \in SessionIds |-> Nothing] /\ cookie = Nothing
  /\ doing = [c \in Calls |-> Nothing]

-----------------------------------------------------------------------------
(* Passwords                                                                *)

Newer(h) == {g \in history : g.stamp > h.stamp}

\* get_latest and get_recent_hashes.
Latest == CHOOSE h \in history : Newer(h) = {}
Recent(n) == {h.password : h \in {g \in history : Cardinality(Newer(g)) < n}}

Work(op, step) ==
  [op |-> op, step |-> step, account |-> user.account, reset |-> user.reset, row |-> Nothing,
   password |-> Nothing, stamp |-> clock, session |-> Nothing, crossed |-> crossed]

Ask(c, w) == doing[c] = Nothing /\ doing' = [doing EXCEPT ![c] = w]
Then(c, step) == doing' = [doing EXCEPT ![c].step = step]
Answer(c) == doing' = [doing EXCEPT ![c] = Nothing]
At(c, step) == doing[c] # Nothing /\ doing[c].step = step

\* Others that are under way have read what is changed now.
CrossOthers(c, w) ==
  doing' = [d \in Calls |-> IF d = c THEN w
                            ELSE IF doing[d] = Nothing THEN Nothing
                            ELSE [doing[d] EXCEPT !.crossed = TRUE]]

\* reset_password with an old password, update_profile, and update_user with
\* resetPassword, which issues a new one.
BeginChange(c, op, old, new) ==
  /\ user # Nothing /\ clock < MaxChanges /\ clock' = clock + 1
  /\ LET w == [Work(op, IF op = "reset" THEN "verify" ELSE IF op = "issue" THEN "save"
                        ELSE "check") EXCEPT !.password = IF op = "issue" THEN clock ELSE new,
                                             !.row = old, !.crossed = FALSE]
     IN Ask(c, w)
  /\ UNCHANGED <<user, history, live, ended, opened, cookie, crossed>>

VerifyOld(c) ==
  /\ At(c, "verify")
  /\ IF history # {} /\ doing[c].row = Latest.password THEN Then(c, "check") ELSE Answer(c)
  /\ UNCHANGED <<user, history, clock, live, ended, opened, cookie, crossed>>

\* check_password_not_reused.
CheckReuse(c) ==
  /\ At(c, "check")
  /\ IF doing[c].password \notin Recent(Kept) THEN Then(c, "save") ELSE Answer(c)
  /\ UNCHANGED <<user, history, clock, live, ended, opened, cookie, crossed>>

\* The commit: the row is inserted, and the user updated where the value differs
\* from the one loaded.  After a reset a session is opened.
SavePassword(c) ==
  LET w == doing[c]
      issues == w.op = "issue"
      done == IF w.op = "reset"
              THEN [w EXCEPT !.step = "open", !.row = Row(w.password, "chosen", w.stamp)]
              ELSE Nothing
  IN /\ At(c, "save")
     /\ \/ /\ user # Nothing /\ user.account = w.account
           /\ history' = history \cup {Row(w.password, IF issues THEN "issued" ELSE "chosen",
                                          w.stamp)}
           /\ user' = [user EXCEPT !.reset = IF w.reset = issues THEN @ ELSE issues]
           /\ crossed' = w.crossed /\ CrossOthers(c, done)
        \/ Answer(c) /\ UNCHANGED <<user, history, crossed>>
     /\ UNCHANGED <<clock, live, ended, opened, cookie>>

\* create_user and delete_user, whose history goes with it.
CreateUser(c) ==
  /\ user = Nothing /\ clock < MaxChanges /\ clock' = clock + 1
  /\ user' = [account |-> clock, reset |-> TRUE] /\ history' = {Row(clock, "issued", clock)}
  /\ crossed' = FALSE /\ doing[c] = Nothing /\ CrossOthers(c, Nothing)
  /\ UNCHANGED <<live, ended, opened, cookie>>

DeleteAccount(c) ==
  /\ user # Nothing /\ user' = Nothing /\ history' = {}
  /\ doing[c] = Nothing /\ CrossOthers(c, Nothing)
  /\ UNCHANGED <<clock, live, ended, opened, cookie, crossed>>

-----------------------------------------------------------------------------
(* Logins                                                                   *)

\* AuthService.login: the user, then the latest password, are read, and only
\* later what was read is judged.
Login(c) ==
  /\ user # Nothing /\ Ask(c, Work("login", "latest"))
  /\ UNCHANGED <<user, history, clock, live, ended, opened, cookie, crossed>>

LoadLatest(c) ==
  /\ At(c, "latest")
  /\ \/ history # {} /\ doing' = [doing EXCEPT ![c].step = "judge", ![c].row = Latest]
     \/ Answer(c)
  /\ UNCHANGED <<user, history, clock, live, ended, opened, cookie, crossed>>

\* A password that has expired, or an initial one, leads to a reset.
Judge(c) ==
  /\ At(c, "judge")
  /\ \/ ~doing[c].reset /\ Then(c, "open")
     \/ Answer(c)
  /\ UNCHANGED <<user, history, clock, live, ended, opened, cookie, crossed>>

LoginWithKey(c) ==
  /\ user # Nothing /\ Ask(c, Work("key", "open"))
  /\ UNCHANGED <<user, history, clock, live, ended, opened, cookie, crossed>>

\* _issue_session; Redis may fail.
IssueSession(c) ==
  LET w == doing[c] IN
  /\ At(c, "open") /\ Answer(c)
  /\ \/ \E s \in SessionIds :
          /\ opened[s] = Nothing
          /\ opened' = [opened EXCEPT ![s] = [op |-> w.op, row |-> w.row, crossed |-> w.crossed]]
          /\ live' = live \cup {s} /\ cookie' = s
     \/ UNCHANGED <<opened, live, cookie>>
  /\ UNCHANGED <<user, history, clock, ended, crossed>>

-----------------------------------------------------------------------------
(* Sessions                                                                 *)

\* get_current_user, by the session or by a token that may outlive it.
Authenticate(c) ==
  /\ user # Nothing /\ cookie # Nothing
  /\ Ask(c, [Work("auth", "touch") EXCEPT !.session = cookie])
  /\ UNCHANGED <<user, history, clock, live, ended, opened, cookie, crossed>>

TouchAnew(c) ==
  /\ At(c, "touch") /\ Answer(c) /\ cookie' = doing[c].session
  /\ live' = live \cup {doing[c].session}
  /\ UNCHANGED <<user, history, clock, ended, opened, crossed>>

\* GET /api/auth extends what is there and sets the cookie in any case.
Touch(c) ==
  /\ At(c, "touch") /\ Answer(c) /\ cookie' = doing[c].session
  /\ UNCHANGED <<user, history, clock, live, ended, opened, crossed>>

BeginLogout(c) ==
  /\ cookie # Nothing
  /\ Ask(c, [op |-> "logout", step |-> "delete", session |-> cookie, crossed |-> FALSE])
  /\ UNCHANGED <<user, history, clock, live, ended, opened, cookie, crossed>>

\* delete_session, and the cookie is cleared.
Logout(c) ==
  /\ At(c, "delete") /\ Answer(c) /\ cookie' = Nothing
  /\ live' = live \ {doing[c].session} /\ ended' = ended \cup {doing[c].session}
  /\ UNCHANGED <<user, history, clock, opened, crossed>>

\* The lifetime of a session ends, or that of a cookie.
Expire(s) ==
  /\ s \in live /\ live' = live \ {s} /\ ended' = ended \cup {s}
  /\ cookie' \in {cookie, Nothing}
  /\ UNCHANGED <<user, history, clock, opened, doing, crossed>>

SignNext ==
  \/ \E c \in Calls :
       \/ \E op \in {"reset", "profile", "issue"}, p \in Passwords :
            \E h \in history : BeginChange(c, op, h.password, p)
       \/ VerifyOld(c) \/ CheckReuse(c) \/ SavePassword(c) \/ CreateUser(c) \/ DeleteAccount(c)
       \/ Login(c) \/ LoadLatest(c) \/ Judge(c) \/ LoginWithKey(c) \/ IssueSession(c)
       \/ Authenticate(c) \/ Touch(c) \/ BeginLogout(c) \/ Logout(c)
  \/ \E s \in SessionIds : Expire(s)

SignSpec == SignInit /\ [][SignNext]_signVars

-----------------------------------------------------------------------------
(* Properties                                                               *)

\* A session that was deleted or has expired is never live again, whatever
\* request that carries it is still under way (touch_session, logout).
EndedStaysEnded == live \cap ended = {}

\* The user has to choose a new password exactly while the latest one is one
\* that was issued - but after two changes that overlapped, when the later row
\* may be of the one that wrote the flag first, or did not write it at all
\* (is_required_password_reset).
ResetWhileIssued ==
  user # Nothing /\ ~crossed => (user.reset <=> Latest.kind = "issued")

\* The latest password is none of those kept before it, but after two changes
\* that overlapped (check_password_not_reused).
NotReused ==
  user # Nothing /\ ~crossed /\ Latest.kind = "chosen" =>
    \A h \in history : Cardinality(Newer(h)) \in 1..Kept => h.password # Latest.password

\* A session is opened with a password that was chosen, with a login key, or by
\* a login that a change of the password overlapped (AuthService.login).
OpenedByChosen ==
  \A s \in SessionIds :
    opened[s] # Nothing => \/ opened[s].op = "key" \/ opened[s].crossed
                          \/ opened[s].row.kind = "chosen"

SignInKept == EndedStaysEnded /\ ResetWhileIssued /\ NotReused /\ OpenedByChosen
=============================================================================
