--------------------------- MODULE ClientSession ---------------------------
(***************************************************************************)
(* One tab of the web client: who it believes is logged in (AuthStore and  *)
(* its copy in sessionStorage), which screen it shows, and the guards that *)
(* run between the two, against a server whose session may end at any time. *)
(*                                                                         *)
(* A navigation is tab.going from the click until its guards decide; a     *)
(* later one replaces it.  Nothing is shown ("boot") until the first one   *)
(* of a page load ends, and only a screen that is shown can be used.       *)
(***************************************************************************)
EXTENDS Naturals

CONSTANT MaxActs  \* bound on what the user and the server's clock do

Roles == {"USER", "GROUP", "ADMIN"}  \* GROUP: a USER who administers a group
Guarded == {"home", "glossary", "groups", "group", "tenant", "people"}
Screens == {"login", "reset"} \cup Guarded
Kinds == {"session", "forgotten", "login", "logout", "reset", "key", "data"}

VARIABLES
  tab,     \* user: AuthStore._user; init: _initPromise; kept, tenant: the
           \* entries of sessionStorage; screen; going; mode: the sidebar's;
           \* forced: the last navigation is the one a 401 asked for;
           \* crossed: a login (or a new password) and another request were on
           \* their way at once, or it was accepted when a protected screen was
           \* shown already
  cookie,  \* the role of the server's session, or "none"
  account, \* the role the server gives the account now
  asked,   \* requests on their way; "forgotten": GETs of the session whose
           \* promise a logout dropped
  acts

tabVars == <<tab, cookie, account, asked, acts>>

TabTypeOK ==
  /\ tab \in [user : Roles \cup {"none"}, init : {"no", "running", "done"},
              kept : Roles \cup {"none"}, tenant : BOOLEAN,
              screen : Screens \cup {"boot"}, going : Screens \cup {"none"},
              mode : {"default", "admin"}, forced : BOOLEAN, crossed : BOOLEAN]
  /\ cookie \in Roles \cup {"none"} /\ account \in Roles
  /\ asked \subseteq Kinds /\ acts \in 0..MaxActs

Loading(page, kept, tenant, crossed) ==
  [user |-> "none", init |-> "no", kept |-> kept, tenant |-> tenant,
   screen |-> "boot", going |-> page, mode |-> "default", forced |-> FALSE,
   crossed |-> crossed]

\* A new tab, with the cookie of another one or without.
TabInit ==
  /\ \E page \in Screens : tab = Loading(page, "none", FALSE, FALSE)
  /\ account \in Roles
  /\ cookie \in {"none", account}
  /\ asked = {} /\ acts = 0

isAuthenticated == tab.user # "none"
isAdmin == tab.user = "ADMIN"
isGroupAdminOnly == tab.user = "GROUP"
canAccessAdminConsole == tab.user \in {"ADMIN", "GROUP"}

TabAct == acts < MaxActs /\ acts' = acts + 1

\* A request sent, from the tab as it then is.
Ask(kind, t) ==
  /\ asked' = asked \cup {kind}
  /\ tab' = [t EXCEPT !.crossed =
                @ \/ (asked \ {kind} # {} /\ asked' \cap {"login", "reset"} # {})]
Shown == tab.screen # "boot"

----------------------------------------------------------------------------
(* AuthStore, on records of the tab.                                       *)

clearTenantOnly(t) == [t EXCEPT !.tenant = FALSE]

clearStorage(t) == [t EXCEPT !.kept = "none", !.tenant = FALSE]
restoreFromStorage(t) == IF t.kept = "none" THEN t ELSE [t EXCEPT !.user = t.kept]
saveToStorage(t, user) == [t EXCEPT !.kept = user]  \* the tenant as it is now

\* ensureInitialized: the part of initializeSession before its await.
ensureInitialized(t) ==
  IF t.init = "no" THEN [restoreFromStorage(t) EXCEPT !.init = "running"] ELSE t

sessionLeftOpen(t, role, init) ==
  IF role = "none" THEN [clearStorage(t) EXCEPT !.user = "none"]
  ELSE LET user == IF role = "USER" /\ t.user = "GROUP" THEN "GROUP" ELSE role
       IN  [t EXCEPT !.user = user, !.kept = user, !.init = init]

\* initializeSession after its await, with what then becomes of _initPromise; an
\* answer without groups keeps the old.
sessionKnown(t, role, init) ==
  IF role = "none" THEN [clearStorage(t) EXCEPT !.user = "none", !.init = init]
  ELSE LET user == IF role = "USER" /\ t.user = "GROUP" THEN "GROUP" ELSE role
       IN  [t EXCEPT !.user = user, !.kept = user, !.init = init]

handleAuthSuccess(t, role) ==
  [saveToStorage(t, role) EXCEPT !.user = role, !.going = "home", !.forced = FALSE,
                                 !.crossed = @ \/ t.screen \in Guarded]

requiresReset(t) == [clearStorage(t) EXCEPT !.user = "none", !.going = "reset", !.forced = FALSE]

keyKnown(t, role) ==
  IF role = "none" THEN [clearStorage(t) EXCEPT !.user = "none"]
  ELSE [saveToStorage(t, role) EXCEPT !.user = role]

loggedOut(t) ==
  [clearStorage(t) EXCEPT !.user = "none", !.init = "no", !.going = "login", !.forced = FALSE]

\* errorInterceptor on 401, for a URL without "/auth".
unauthorized(t) == [clearStorage(t) EXCEPT !.going = "login", !.forced = TRUE]

----------------------------------------------------------------------------
(* Guards: what a navigation becomes once the store is initialized.        *)

Stay == "none"
authGuard(next) == IF isAuthenticated THEN next ELSE "login"
noAuthGuard == IF isAuthenticated THEN "home" ELSE "login"
adminGuard == IF isAdmin THEN "people" ELSE Stay
openGuard(next) == next

adminConsoleGuard(next) == IF canAccessAdminConsole THEN next ELSE "home"
tenantAdminGuard ==
  IF isAdmin THEN "tenant" ELSE IF isGroupAdminOnly THEN "groups" ELSE "home"
groupAccessGuard == IF canAccessAdminConsole THEN "group" ELSE "groups"

\* The guards of a route from the outermost; each may send elsewhere.
Admitted(next) ==
  IF ~isAuthenticated THEN authGuard(next)
  ELSE IF next = "people" THEN adminGuard
  ELSE IF next \in {"tenant", "groups", "group"} /\ ~canAccessAdminConsole
  THEN adminConsoleGuard(next)
  ELSE CASE next = "tenant" -> tenantAdminGuard
         [] next = "group" -> groupAccessGuard
         [] OTHER -> next

\* glossaryAdminRouteMatch, glossaryUserRouteMatch: they start the session but
\* do not wait for it; a route that matches neither is the dashboard's.
glossaryMatch(t) == IF t.user = "none" THEN "home" ELSE "glossary"

\* SidebarComponent.checkAdminRoute and checkUseBackSidebar.
checkAdminRoute(screen) ==
  IF screen \in {"tenant", "groups", "group"} THEN "admin" ELSE "default"

Arrived(screen) ==
  [tab EXCEPT !.screen = screen, !.going = "none", !.mode = checkAdminRoute(screen)]

Initialize ==
  /\ tab.going \in Guarded /\ "key" \notin asked
  /\ tab.init = "no"
  /\ LET t == ensureInitialized(tab)
     IN  Ask("session", [t EXCEPT !.going = IF tab.going = "glossary" THEN glossaryMatch(t)
                                            ELSE @])
  /\ UNCHANGED <<cookie, account, acts>>

Decide ==
  /\ tab.going # "none" /\ "key" \notin asked
  /\ tab.going \in Guarded => tab.init = "done"
  /\ LET next == CASE tab.going = "login" -> noAuthGuard
                   [] tab.going = "reset" -> "reset"
                   [] OTHER -> Admitted(tab.going)
     IN  tab' = IF next = Stay
                THEN [tab EXCEPT !.going = "none",
                                 !.screen = IF @ = "boot" THEN "login" ELSE @]
                ELSE IF next = tab.going THEN Arrived(next)
                ELSE [tab EXCEPT !.going = next]
  /\ UNCHANGED <<cookie, account, asked, acts>>

----------------------------------------------------------------------------
(* The user.                                                               *)

\* A link, a menu or the address of a screen inside the application.
Navigate(screen) ==
  /\ TabAct
  /\ Shown /\ screen # tab.screen
  /\ tab' = [tab EXCEPT !.going = IF screen = "glossary" /\ tab.init # "no"
                                  THEN glossaryMatch(tab) ELSE screen,
                        !.forced = FALSE]
  /\ UNCHANGED <<cookie, account, asked>>

\* SidebarComponent.navigateToAdmin and backToChat: "switch-role".
SwitchRole ==
  /\ TabAct
  /\ tab.screen \in Guarded /\ canAccessAdminConsole
  /\ tab' = [tab EXCEPT !.mode = IF @ = "admin" THEN "default" ELSE "admin",
                        !.going = IF tab.mode = "admin" THEN "home"
                                  ELSE IF isAdmin THEN "tenant" ELSE "groups",
                        !.forced = FALSE]
  /\ UNCHANGED <<cookie, account, asked>>

\* Loading the page again, which drops every answer still on its way.
Reload ==
  /\ TabAct
  /\ Shown
  /\ tab' = Loading(tab.screen, tab.kept, tab.tenant, tab.crossed)
  /\ asked' = {}
  /\ UNCHANGED <<cookie, account>>

\* A page load through a link: ?loginkey=..&tenantId=.. (runLoginKeyInitializer)
\* or the password page's ?tenantId= (PwResetComponent.ngOnInit).
KeyLink ==
  /\ TabAct
  /\ tab' = Loading("home", tab.kept, TRUE, tab.crossed)
  /\ asked' = {"key"}
  /\ UNCHANGED <<cookie, account>>

ResetLink ==
  /\ TabAct
  /\ tab' = Loading("reset", tab.kept, TRUE, tab.crossed)
  /\ asked' = {}
  /\ UNCHANGED <<cookie, account>>

\* LoginComponent.onSubmit, as far as AuthStore.login's await.
SubmitLogin ==
  /\ TabAct
  /\ tab.screen = "login"
  /\ Ask("login", [tab EXCEPT !.tenant = TRUE])
  /\ UNCHANGED <<cookie, account>>

\* PwResetComponent.onSubmit.
SubmitReset ==
  /\ TabAct
  /\ tab.screen = "reset"
  /\ Ask("reset", tab)
  /\ UNCHANGED <<cookie, account>>

Logout ==
  /\ TabAct
  /\ tab.screen \in Guarded
  /\ Ask("logout", tab)
  /\ UNCHANGED <<cookie, account>>

\* Any other request of a screen.
Fetch ==
  /\ TabAct
  /\ tab.screen \in Guarded
  /\ Ask("data", tab)
  /\ UNCHANGED <<cookie, account>>

----------------------------------------------------------------------------
(* The server.                                                             *)

Expire ==
  /\ TabAct
  /\ cookie # "none" /\ cookie' = "none"
  /\ UNCHANGED <<tab, account, asked>>

\* The account is given another role, or made the administrator of a group.
Regrade ==
  /\ TabAct
  /\ \E role \in Roles \ {account} :
       /\ account' = role
       /\ cookie' = IF cookie = "none" THEN "none" ELSE role
  /\ UNCHANGED <<tab, asked>>

TakeAnswer(kind) == kind \in asked /\ asked' = asked \ {kind} /\ UNCHANGED <<account, acts>>

\* GET /auth needs the cookie and the tenant's header, and may fail anyway.
SessionAnswered(init) ==
  /\ \E role \in {"none", IF tab.tenant THEN cookie ELSE "none"} :
       tab' = sessionKnown(tab, role, init)
  /\ UNCHANGED cookie

SessionAnswer == TakeAnswer("session") /\ SessionAnswered("done")

\* The answer to one of those a logout left behind: the store takes it, but no
\* guard waits for it and the session is still to be asked for.
ForgottenAnswer ==
  /\ "forgotten" \in asked /\ asked' \in {asked, asked \ {"forgotten"}}
  /\ SessionAnswered(tab.init)
  /\ UNCHANGED <<account, acts>>

\* Refused (the form shows it), accepted, or accepted for a new password only.
LoginAnswer ==
  /\ TakeAnswer("login")
  /\ \/ tab' = handleAuthSuccess(tab, account) /\ cookie' = account
     \/ tab' = requiresReset(tab) /\ UNCHANGED cookie
     \/ UNCHANGED <<tab, cookie>>

KeyAnswer ==
  /\ TakeAnswer("key")
  /\ \/ tab' = keyKnown(tab, account) /\ cookie' = account
     \/ tab' = keyKnown(tab, "none") /\ UNCHANGED cookie

ResetAnswer ==
  /\ TakeAnswer("reset")
  /\ \/ tab.tenant /\ tab' = handleAuthSuccess(tab, account) /\ cookie' = account
     \/ UNCHANGED <<tab, cookie>>

\* A session that was still asked for is forgotten with its promise.
forget(kinds) ==
  IF "session" \in kinds THEN (kinds \ {"session"}) \cup {"forgotten"} ELSE kinds

LogoutAnswer ==
  \/ /\ "logout" \in asked /\ asked' = forget(asked \ {"logout"})
     /\ tab' = loggedOut(tab) /\ cookie' = "none"
     /\ UNCHANGED <<account, acts>>
  \/ TakeAnswer("logout") /\ UNCHANGED <<tab, cookie>>

DataAnswer ==
  /\ TakeAnswer("data")
  /\ tab' = IF cookie = "none" THEN unauthorized(tab) ELSE tab
  /\ UNCHANGED cookie

TabNext ==
  \/ Initialize \/ Decide
  \/ \E screen \in Screens : Navigate(screen)
  \/ SwitchRole \/ Reload \/ KeyLink \/ ResetLink
  \/ SubmitLogin \/ SubmitReset \/ Logout \/ Fetch
  \/ Expire \/ Regrade
  \/ SessionAnswer \/ ForgottenAnswer
  \/ LoginAnswer \/ KeyAnswer \/ ResetAnswer \/ LogoutAnswer \/ DataAnswer

TabSteps == TabInit /\ [][TabNext]_tabVars

TabSpec == TabSteps /\ WF_tabVars(Initialize) /\ WF_tabVars(Decide)
             /\ WF_tabVars(SessionAnswer) /\ WF_tabVars(KeyAnswer)

----------------------------------------------------------------------------
(* Properties.                                                             *)

\* At rest, a protected screen is shown to a user its guards would admit now:
\* whatever the order in which sessions, logins and logouts were answered,
\* unless a login crossed another request, or a navigation: a protected screen that
\* was reached before a login was accepted with another role remains when the
\* navigation after that login gives way to one that the guards refuse.
\* (authGuard, adminConsoleGuard, tenantAdminGuard, groupAccessGuard.)
AdmittedOnly ==
  tab.screen \in Guarded /\ tab.going = "none" /\ ~tab.crossed =>
    CASE tab.screen \in {"people", "tenant"} -> tab.user = "ADMIN"
      [] tab.screen \in {"groups", "group"} -> tab.user \in {"ADMIN", "GROUP"}
      [] OTHER -> tab.user # "none"

\* A tab that remembers its user remembers the tenant, whose header every
\* request needs: no answer saves one without the other, unless they crossed.
\* (saveToStorage, saveUserToStorage, clearStorage, errorInterceptor.)
TenantKept == tab.kept # "none" /\ ~tab.crossed => tab.tenant

\* A request refused for an expired session leads to the login screen
\* (error.interceptor.spec.ts:54), once that navigation has ended.
ExpiryReachesLogin == tab.forced /\ tab.going = "none" => tab.screen = "login"

\* No guard waits for ever: a navigation ends or is replaced.
NavigationEnds == tab.going # "none" ~> tab.going = "none"
=============================================================================
