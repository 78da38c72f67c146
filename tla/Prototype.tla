------------------------------ MODULE Prototype ------------------------------
(***************************************************************************)
(* The React client (src/frontend): its store of who is logged in, the     *)
(* login page, the page that sets a new password, and the user's menu.     *)
(*                                                                         *)
(* The client moves in two ways.  A redirect of its router keeps the       *)
(* document and its requests; an assignment to window.location.href loads  *)
(* a new document, but only some time later ("going"), until which the old *)
(* one runs on, and answers may still reach it.                            *)
(*                                                                         *)
(* The service is the one that types/auth.ts and the client's own handlers *)
(* describe: it takes the X-Tenant-ID header as optional.                  *)
(***************************************************************************)
EXTENDS Naturals

CONSTANTS
  TenantOf,  \* the accounts, each with its tenant
  MaxActs    \* bound on what the user does and on sessions changed elsewhere

Accounts == DOMAIN TenantOf
None == "none"

VARIABLES
  tab,     \* the document and its sessionStorage:
           \*   user: the store's; ready: App's isReady; path, name: the address
           \*   and its ?username; drawn: the page that is mounted; under: the
           \*   dashboard is behind it; going: the address that will be loaded
           \*   and its name; form: of the page; menu: the user's menu is open;
           \*   kept: AUTH_USER, TENANT_ID and PW_RESET_OLD_PASSWORD (as the
           \*   account whose password it is); out: requests on their way
  cookie,  \* the account of the browser's session
  left,    \* a page load was broken off, or another one asked for in its place,
           \* while a password was being handed over
  acts

protoVars == <<tab, cookie, left, acts>>

Pages == {"login", "reset", "dashboard"}
Away == [path |-> None, name |-> None]

\* LoginPage, and what both forms begin with.
LoginPage ==
  [name |-> None, password |-> None, filled |-> None, busy |-> FALSE,
   error |-> FALSE, mismatch |-> FALSE, done |-> FALSE, twice |-> FALSE]

\* PwResetPage takes the password out of sessionStorage as it is mounted.
PwResetPage(t) ==
  [LoginPage EXCEPT !.name = t.name, !.password = t.kept.password,
                    !.filled = t.kept.password]

\* getHeaders: TENANT_ID as it is when the request is sent.
Request(kind, name, t) ==
  [kind |-> kind, name |-> name, tenant |-> t.kept.tenant, mine |-> TRUE]
Sends(kind, name, t) == [t EXCEPT !.out = @ \cup {Request(kind, name, t)}]

PublicRoute(t) == IF t.user # None THEN "dashboard" ELSE "login"
ProtectedRoute(t) == IF t.user = None THEN "login" ELSE "dashboard"

\* useRoutes: the page the address leads to.
Routed(t) == CASE t.path = "login" -> PublicRoute(t)
               [] t.path = "dashboard" -> ProtectedRoute(t)
               [] OTHER -> "reset"

\* App: nothing is mounted until the store is initialized; a page that is left
\* no longer hears the answers it waits for.
App(t) ==
  IF ~t.ready \/ Routed(t) = t.drawn THEN t
  ELSE [t EXCEPT !.path = Routed(t), !.drawn = Routed(t), !.menu = FALSE,
                 !.form = IF Routed(t) = "reset" THEN PwResetPage(t) ELSE LoginPage,
                 !.kept.password = IF Routed(t) = "reset" THEN None ELSE @,
                 !.out = {[r EXCEPT !.mine = FALSE] : r \in @}]

setUser(user, t) == [t EXCEPT !.user = user]
remember(user, t) == [setUser(user, t) EXCEPT !.kept.user = user]

\* ensureInitialized as far as its await: the user is restored at once.
ensureInitialized(t) == Sends("session", None, setUser(t.kept.user, t))

Loaded(path, name, kept) ==
  ensureInitialized(
    [user |-> None, ready |-> FALSE, path |-> path, name |-> name, drawn |-> None,
     under |-> FALSE, going |-> Away, form |-> LoginPage, menu |-> FALSE,
     kept |-> kept, out |-> {}])

ProtoInit ==
  /\ \E path \in Pages :
       tab = Loaded(path, None, [user |-> None, tenant |-> None, password |-> None])
  /\ cookie \in Accounts \cup {None}
  /\ left = FALSE /\ acts = 0

----------------------------------------------------------------------------
(* The user.                                                               *)

Act == acts < MaxActs /\ acts' = acts + 1
Acts(t) == Act /\ tab' = t /\ UNCHANGED <<cookie, left>>

\* The fields are disabled while a submission is on its way.
Open(page) == tab.drawn = page /\ ~tab.form.busy
Filled == tab.form.name # None /\ tab.form.password # None

typeUsername(name) ==
  /\ Open("login")
  /\ Acts([tab EXCEPT !.form.name = name, !.form.error = FALSE])
typePassword(of) == Open("login") /\ Acts([tab EXCEPT !.form.password = of])
typeResetUser(name) == Open("reset") /\ Acts([tab EXCEPT !.form.name = name])
typeOldPassword(of) == Open("reset") /\ Acts([tab EXCEPT !.form.password = of])

submitLogin ==
  /\ Open("login") /\ Filled
  /\ Acts(Sends("login", tab.form.name,
                [tab EXCEPT !.form.error = FALSE, !.form.busy = TRUE]))

\* The new password and its confirmation are the same or not.
submitReset(same) ==
  /\ Open("reset") /\ Filled
  /\ LET cleared == [tab EXCEPT !.form.error = FALSE, !.form.mismatch = ~same]
     IN  Acts(IF ~same THEN cleared
              ELSE Sends("reset", tab.form.name,
                         [cleared EXCEPT !.form.busy = TRUE,
                                         !.form.twice = @ \/ tab.form.done]))

UserMenu == tab.drawn = "dashboard" /\ Acts([tab EXCEPT !.menu = ~@])

\* handleAction, once the logout is confirmed; "password" is a redirect.
handleAction(action) ==
  /\ tab.drawn = "dashboard" /\ tab.menu
  /\ LET closed == [tab EXCEPT !.menu = FALSE]
     IN  Acts(IF action = "logout" THEN Sends("logout", None, closed)
              ELSE App([closed EXCEPT !.path = "reset", !.name = None,
                                      !.under = TRUE]))

\* The browser's own button, to the dashboard whose menu led here.
Back ==
  /\ tab.drawn = "reset" /\ tab.under
  /\ Acts(App([tab EXCEPT !.path = "dashboard", !.under = FALSE]))

\* The address is typed, or loaded again as it is.
Load(path, name) ==
  /\ Act
  /\ tab' = Loaded(path, name, tab.kept)
  /\ left' = (left \/ (tab.kept.password # None
                       /\ (tab.path # "reset" \/ <<path, name>> # <<tab.path, tab.name>>)))
  /\ UNCHANGED cookie

\* Another tab, or the end of the session.
Elsewhere ==
  /\ Act
  /\ \E account \in (Accounts \cup {None}) \ {cookie} : cookie' = account
  /\ UNCHANGED <<tab, left>>

----------------------------------------------------------------------------
(* Answers.                                                                *)

\* handleResponse throws for every answer that is not a success.
Answered(r, t, session) ==
  /\ r \in tab.out
  /\ tab' = App([t EXCEPT !.out = @ \ {r}])
  /\ cookie' = session
  /\ left' = (left \/ (tab.going.path = "reset" /\ t.going # tab.going))
  /\ UNCHANGED acts

\* The service refuses a tenant that is not the account's.
Fits(r, account) == account # None /\ r.tenant \in {None, TenantOf[account]}

\* ensureInitialized after its await; App is ready then.
SessionAnswer(r) ==
  /\ r.kind = "session"
  /\ \/ /\ Fits(r, cookie)
        /\ Answered(r, [remember(cookie, tab) EXCEPT !.kept.tenant = TenantOf[cookie],
                                                     !.ready = TRUE], cookie)
     \/ Answered(r, [remember(None, tab) EXCEPT !.ready = TRUE], cookie)

Refuses(t, r) ==
  IF r.mine THEN [t EXCEPT !.form.error = TRUE, !.form.busy = FALSE] ELSE t

\* login: known, known but with a password that must be changed, or refused.
login(r) ==
  /\ r.kind = "login"
  /\ \/ /\ Fits(r, r.name) /\ tab.form.password = r.name
        /\ \/ Answered(r, Sends("tenant", None, remember(r.name, tab)), r.name)
           \/ Answered(r, Sends("quit", r.name, remember(None, tab)), cookie)
     \/ Answered(r, Refuses(tab, r), cookie)

\* login once its POST to the logout is over, whatever became of it.
requirePasswordReset(r) ==
  /\ r.kind = "quit"
  /\ \E session \in {None, cookie} :
       Answered(r, [tab EXCEPT !.kept.password = r.name,
                               !.going = [path |-> "reset", name |-> r.name]], session)

\* The session that login and completePasswordReset ask for the tenant.
loadTenant(r) ==
  /\ r.kind = "tenant"
  /\ LET home == [tab EXCEPT !.going = [path |-> "dashboard", name |-> None]]
     IN  \/ /\ Fits(r, cookie)
            /\ Answered(r, [home EXCEPT !.kept.tenant = TenantOf[cookie]], cookie)
         \/ Answered(r, home, cookie)

\* The mutation is over before completePasswordReset is.
completePasswordReset(r) ==
  /\ r.kind = "reset"
  /\ \/ /\ Fits(r, r.name)
        /\ LET t == IF r.mine THEN [tab EXCEPT !.form.busy = FALSE, !.form.done = TRUE]
                    ELSE tab
           IN  Answered(r, Sends("tenant", None, remember(r.name, t)), r.name)
     \/ Answered(r, Refuses(tab, r), cookie)

logout(r) ==
  /\ r.kind = "logout"
  /\ \E session \in {None, cookie} :
       Answered(r, [remember(None, tab) EXCEPT !.kept.tenant = None,
                      !.going = [path |-> "login", name |-> None]], session)

\* The document that window.location.href asked for replaces this one.
Unload ==
  /\ tab.going # Away
  /\ tab' = Loaded(tab.going.path, tab.going.name, tab.kept)
  /\ UNCHANGED <<cookie, left, acts>>

ProtoNext ==
  \/ \E a \in Accounts : \/ typeUsername(a) \/ typePassword(a)
                         \/ typeResetUser(a) \/ typeOldPassword(a)
  \/ submitLogin \/ \E same \in BOOLEAN : submitReset(same)
  \/ UserMenu \/ \E action \in {"password", "logout"} : handleAction(action)
  \/ Back \/ Load(tab.path, tab.name) \/ \E path \in Pages : Load(path, None)
  \/ Elsewhere \/ Unload
  \/ \E r \in tab.out : \/ SessionAnswer(r) \/ login(r) \/ requirePasswordReset(r)
                        \/ loadTenant(r) \/ completePasswordReset(r) \/ logout(r)

ProtoSpec == ProtoInit /\ [][ProtoNext]_protoVars

----------------------------------------------------------------------------
(* Properties.                                                             *)

AtRest == tab.ready /\ tab.out = {} /\ tab.going = Away

\* Whoever a tab at rest says is logged in is also who it remembers, with the
\* tenant of that account, though no answer to a login holds one and the request
\* for it may fail or be answered for another session.
\* (useAuthStore: ensureInitialized, login, completePasswordReset, logout.)
TenantOfUser ==
  AtRest => /\ tab.kept.user = tab.user
            /\ tab.user # None => tab.kept.tenant = TenantOf[tab.user]

\* The password page begins with the password of the account it is opened for,
\* or with none, and nothing keeps that password afterwards; unless the load of
\* that page was broken off or replaced.  (login, PwResetPage.)
HandedOver ==
  ~left => /\ tab.drawn = "reset" => tab.form.filled \in {None, tab.name}
           /\ AtRest => tab.kept.password = None

\* The password page reports a failure after a success only if its form, open
\* again while the tenant is fetched, was submitted again.
\* (PwResetPage.handleSubmit, completePasswordReset.)
RefusalHonest == tab.form.error /\ tab.form.done => tab.form.twice
=============================================================================
