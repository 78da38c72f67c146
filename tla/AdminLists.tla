----------------------------- MODULE AdminLists -----------------------------
(***************************************************************************)
(* The paged lists of the administration pages: users, teams, the three    *)
(* tabs of a team, prompt templates and chat histories.                    *)
(*                                                                         *)
(* Every page is a signal store and a component.  The store's list GETs    *)
(* carry no token: whichever answer comes last is shown.  A dialog is      *)
(* modal, but its submission goes on after the user has closed it; a job   *)
(* is such a submission and closes the dialog whose number it holds.       *)
(* A row is a number; a row's other fields are left out, except a          *)
(* template's teams and whether a team's members were filled in.           *)
(***************************************************************************)
EXTENDS Integers, Sequences, FiniteSets

CONSTANTS
  Stored,    \* the rows of the tenant, and of each team, at first
  Teams,     \* the teams that have tabs
  Self,      \* the administrator's own row
  Found,     \* the rows the filter "some" matches
  NewRow,    \* the row a create adds
  MaxDid     \* bound on what the user does

Tenant == "tenant"
NoTeam == "none"
Scopes == {Tenant} \cup Teams
Rows == 1..NewRow
Tabs == {"groupUsers", "groupAssistants", "groupTemplates"}
Screens == {"users", "groups", "templates", "history"} \cup Tabs

VARIABLES
  screen,   \* the page that is open
  list,     \* its store and its component
  jobs,     \* submissions that go on
  server,   \* the rows of each scope, in the order the page asks for
  links,    \* the teams of each template
  astray,   \* an answer or a local edit overtook another answer, or a
            \* deletion of several failed halfway (history)
  did       \* what the user did so far

listVars == <<screen, list, jobs, server, links, astray, did>>

\* UserFilter and its like: the query, the page and the page's size.
Filter == [query : {"all", "some"}, page : 1..3, size : {1, 2}]
AllRows == [query |-> "all", page |-> 1, size |-> 1]
Kinds == {"add", "edit", "delete"}
NoDialog == [kind |-> "none", ids |-> {}, ref |-> 0]
Elements(q) == {q[i] : i \in DOMAIN q}

\* load, awaited by nobody or by a submission that then closes its dialog.
loadFor(l, kind, ref) ==
  IF l.scope = NoTeam THEN l
  ELSE [l EXCEPT !.loading = TRUE, !.error = FALSE,
                 !.gets = Append(@, [scope |-> l.scope, filter |-> l.filter,
                                     kind |-> kind, then |-> ref])]

load(l) == loadFor(l, "none", 0)

ListInit ==
  /\ screen \in Screens
  /\ list = load([scope |-> IF screen \in Tabs THEN NoTeam ELSE Tenant,
                  rows |-> <<>>, total |-> 0, filter |-> AllRows, chosen |-> {},
                  loading |-> FALSE, error |-> FALSE, busy |-> {}, gets |-> <<>>,
                  dialog |-> NoDialog, teams |-> [r \in Rows |-> {}]])
  /\ jobs = {}
  /\ server = Stored
  /\ links = [r \in Rows |-> IF r = 1 THEN Teams ELSE {}]
  /\ astray = FALSE
  /\ did = 0

Act == did < MaxDid /\ did' = did + 1

----------------------------------------------------------------------------
(* Pages.                                                                  *)

\* What the service answers: the rows that match, and one page of them.
Matching(q, rows) == SelectSeq(rows, LAMBDA r : q = "all" \/ r \in Found)
Window(f, rows) ==
  LET from == (f.page - 1) * f.size + 1
      to == f.page * f.size
  IN  SubSeq(rows, from, IF to > Len(rows) THEN Len(rows) ELSE to)

totalPages(l) ==
  LET full == (l.total + l.filter.size - 1) \div l.filter.size
  IN  IF full < 1 THEN 1 ELSE full

queried(f, q) == [f EXCEPT !.query = q, !.page = 1]
sized(f, n) == [f EXCEPT !.size = n, !.page = 1]
paged(f, p) == [f EXCEPT !.page = p]

----------------------------------------------------------------------------
(* The stores.                                                             *)

shown(l, f, rows) ==
  [l EXCEPT !.rows = Window(f, Matching(f.query, rows)),
            !.total = Len(Matching(f.query, rows)),
            !.loading = FALSE, !.teams = links]

emptied(l) == [l EXCEPT !.rows = <<>>, !.total = 0, !.loading = FALSE, !.error = TRUE]

\* The ids still chosen are those among the rows of the answer.
pruned(l) == [l EXCEPT !.chosen = @ \cap Elements(l.rows)]

usersAnswered(l, g, ok) ==
  IF ok THEN pruned(shown(l, g.filter, server[g.scope])) ELSE emptied(l)

groupsAnswered(l, g, ok) ==
  IF ok THEN shown(l, g.filter, server[g.scope]) ELSE emptied(l)

templatesAnswered(l, g, ok) ==
  IF ok THEN pruned(shown(l, g.filter, server[g.scope])) ELSE emptied(l)

historyAnswered(l, g, ok) ==
  IF ok THEN shown(l, g.filter, server[g.scope]) ELSE emptied(l)

groupUsersAnswered(l, g, ok) ==
  IF ok THEN pruned(shown(l, g.filter, server[g.scope])) ELSE emptied(l)

groupAssistantsAnswered(l, g, ok) ==
  IF ok THEN pruned(shown(l, g.filter, server[g.scope])) ELSE emptied(l)

groupTemplatesAnswered(l, g, ok) ==
  IF ok THEN pruned(shown(l, g.filter, server[g.scope])) ELSE emptied(l)

listAnswered(l, g, ok) ==
  CASE screen = "users" -> usersAnswered(l, g, ok)
    [] screen = "groups" -> groupsAnswered(l, g, ok)
    [] screen = "templates" -> templatesAnswered(l, g, ok)
    [] screen = "history" -> historyAnswered(l, g, ok)
    [] screen = "groupUsers" -> groupUsersAnswered(l, g, ok)
    [] screen = "groupAssistants" -> groupAssistantsAnswered(l, g, ok)
    [] OTHER -> groupTemplatesAnswered(l, g, ok)

\* updateFilter, updatePageSize and updatePageIndex drop the selection where
\* the store has one.
usersTurned(l, f) == load([l EXCEPT !.filter = f, !.chosen = {}])
groupsTurned(l, f) == load([l EXCEPT !.filter = f])
templatesTurned(l, f) == load([l EXCEPT !.filter = f, !.chosen = {}])
historyTurned(l, f) == load([l EXCEPT !.filter = f])
groupUsersTurned(l, f) == load([l EXCEPT !.filter = f, !.chosen = {}])
groupAssistantsTurned(l, f) == load([l EXCEPT !.filter = f, !.chosen = {}])
groupTemplatesTurned(l, f) == load([l EXCEPT !.filter = f, !.chosen = {}])

turned(l, f) ==
  CASE screen = "users" -> usersTurned(l, f)
    [] screen = "groups" -> groupsTurned(l, f)
    [] screen = "templates" -> templatesTurned(l, f)
    [] screen = "history" -> historyTurned(l, f)
    [] screen = "groupUsers" -> groupUsersTurned(l, f)
    [] screen = "groupAssistants" -> groupAssistantsTurned(l, f)
    [] OTHER -> groupTemplatesTurned(l, f)

resetFilterAndLoad(l, j) == loadFor([l EXCEPT !.filter = AllRows, !.chosen = {}], j.kind, j.ref)

toggleSelected(l, r) ==
  [l EXCEPT !.chosen = IF r \in @ THEN @ \ {r} ELSE @ \cup {r}]

allSelected(l) == l.rows # <<>> /\ Elements(l.rows) \subseteq l.chosen

toggleSelectAll(l) ==
  [l EXCEPT !.chosen = IF allSelected(l) THEN {} ELSE Elements(l.rows)]

setGroup(l, g) ==
  IF l.scope = g THEN l
  ELSE load([l EXCEPT !.scope = g, !.rows = <<>>, !.total = 0, !.filter = AllRows,
                      !.chosen = {}, !.loading = FALSE, !.error = FALSE])

\* The local edits of the teams' and of the templates' stores.
addGroup(l, r) == [l EXCEPT !.rows = <<r>> \o @, !.total = @ + 1]

addTemplate(l, r, teams) ==
  [l EXCEPT !.rows = <<r>> \o @, !.total = @ + 1, !.teams[r] = teams]

updateTemplate(l, r, teams) ==
  [l EXCEPT !.teams[r] = IF r \in Elements(l.rows) THEN teams ELSE @]

removeTemplatesUncounted(l, ids) ==
  [l EXCEPT !.rows = SelectSeq(@, LAMBDA r : r \notin ids),
            !.chosen = {}]

removeTemplates(l, ids) ==
  [l EXCEPT !.rows = SelectSeq(@, LAMBDA r : r \notin ids),
            !.total = IF @ < Cardinality(ids) THEN 0 ELSE @ - Cardinality(ids),
            !.chosen = {}]

----------------------------------------------------------------------------
(* What the user does in a list.                                           *)

Free == list.dialog = NoDialog

\* ngOnInit of a page whose store outlives it.
Enter ==
  /\ Act /\ Free
  /\ screen \notin Tabs
  /\ list' = load(list)
  /\ UNCHANGED <<screen, jobs, server, links, astray>>

\* The effect of a tab on the team of the route.
OpenTeam(g) ==
  /\ Act /\ Free
  /\ screen \in Tabs
  /\ list' = setGroup(list, g)
  /\ UNCHANGED <<screen, jobs, server, links, astray>>

\* onFilterChange and onSearchChange, the page's size, and the pages that
\* PaginationComponent offers.
Turn ==
  /\ Act /\ Free
  /\ list.scope # NoTeam
  /\ \E f \in {queried(list.filter, "all"), queried(list.filter, "some")}
              \cup {paged(list.filter, p) : p \in 1..totalPages(list)}
              \cup (IF screen \in {"groupAssistants", "groupTemplates"} THEN {}
                    ELSE {sized(list.filter, 2)}) :
       list' = turned(list, f)
  /\ UNCHANGED <<screen, jobs, server, links, astray>>

Choose ==
  /\ Act /\ Free
  /\ screen \notin {"groups", "history"}
  /\ \/ \E r \in Elements(list.rows) : list' = toggleSelected(list, r)
     \/ list' = toggleSelectAll(list)
  /\ UNCHANGED <<screen, jobs, server, links, astray>>

\* A list GET is answered; an answer that overtakes an older one is noted.
ListAnswer(i) ==
  LET g == list.gets[i]
      rest == [list EXCEPT !.gets = SubSeq(@, 1, i - 1) \o SubSeq(@, i + 1, Len(@))]
  IN  /\ \E ok \in BOOLEAN :
           LET l == listAnswered(rest, g, ok)
           IN  list' = IF g.then = 0 THEN l
                       ELSE [l EXCEPT !.busy = @ \ {g.kind},
                                      !.dialog = IF @.ref = g.then THEN NoDialog ELSE @]
      /\ astray' = (astray \/ i > 1 \/ (screen \in {"groups", "templates"} /\ jobs # {}))
      /\ UNCHANGED <<screen, jobs, server, links, did>>

----------------------------------------------------------------------------
(* Dialogs.                                                                *)

Open(kind, ids) ==
  /\ Act /\ Free
  /\ list' = [list EXCEPT !.dialog = [kind |-> kind, ids |-> ids, ref |-> did + 1],
                          !.busy = IF kind = "delete" /\ screen = "templates"
                                   THEN @ ELSE @ \ {kind}]
  /\ UNCHANGED <<screen, jobs, server, links, astray>>

\* The users' own row, and a row that cannot be told from it, stays.
isCurrentUser(r) == r = Self
removableUserIds(ids) == {r \in ids : ~isCurrentUser(r)}

onAddUser == screen = "users" /\ Open("add", {NewRow})
onAddTeam == screen = "groups" /\ Open("add", {NewRow})
onAddTemplate == screen = "templates" /\ Open("add", {NewRow})

\* The rows the picker of a tab offers: the tenant's that the team lacks.
addable == Elements(server[Tenant]) \ Elements(server[list.scope])

openAddUserModal ==
  /\ screen = "groupUsers" /\ list.scope # NoTeam
  /\ \E r \in addable : Open("add", {r})

openAddAssistantModal ==
  /\ screen = "groupAssistants" /\ list.scope # NoTeam
  /\ \E r \in addable : Open("add", {r})

openAddTemplateModal ==
  /\ screen = "groupTemplates" /\ list.scope # NoTeam
  /\ \E r \in addable : Open("add", {r})

onEditUser == screen = "users" /\ \E r \in Elements(list.rows) : Open("edit", {r})
onEditTemplate == screen = "templates" /\ \E r \in Elements(list.rows) : Open("edit", {r})
onEditRole ==
  /\ screen = "groupUsers"
  /\ \E r \in Elements(list.rows) : ~isCurrentUser(r) /\ Open("edit", {r})

\* The ids a deletion takes: one row's, or those chosen; the users' page keeps
\* of the chosen ones those it shows.
Picked == {{r} : r \in Elements(list.rows)} \cup {list.chosen}

onDeleteUser ==
  /\ screen = "users"
  /\ \E ids \in Picked : ids \cap Elements(list.rows) # {}
                         /\ Open("delete", ids \cap Elements(list.rows))

onDeleteTemplate ==
  screen = "templates" /\ \E ids \in Picked \ {{}} : Open("delete", ids)

\* GroupDetailComponent.openDeleteDialog, of the team that was opened.
openDeleteDialog ==
  screen = "groups" /\ \E r \in Elements(list.rows) : Open("delete", {r})

onRemoveUser ==
  /\ screen = "groupUsers"
  /\ \E ids \in Picked : removableUserIds(ids) # {} /\ Open("delete", removableUserIds(ids))

deleteAssistant ==
  screen = "groupAssistants" /\ \E ids \in Picked \ {{}} : Open("delete", ids)

deleteTemplate ==
  screen = "groupTemplates" /\ \E ids \in Picked \ {{}} : Open("delete", ids)

Cancel ==
  /\ Act /\ ~Free
  /\ list' = [list EXCEPT !.dialog = NoDialog]
  /\ UNCHANGED <<screen, jobs, server, links, astray>>

\* The confirm button.  Only the deletion of users and of teams has no flag
\* to refuse a second press; the templates' disables the button.
Submit ==
  /\ Act /\ ~Free
  /\ list.dialog.kind \notin list.busy
  /\ \E want \in IF screen = "templates" /\ list.dialog.kind # "delete"
                 THEN SUBSET Teams ELSE {{}} :
       LET d == list.dialog
           known == IF d.kind = "edit" THEN UNION {list.teams[r] : r \in d.ids} ELSE {}
       IN  jobs' = jobs \cup
             {[kind |-> d.kind, ids |-> d.ids, left |-> d.ids, ref |-> d.ref,
               scope |-> list.scope, want |-> want,
               drop |-> known \ want, join |-> want \ known,
               failed |-> FALSE, at |-> "first"]}
  /\ list' = [list EXCEPT !.busy = IF list.dialog.kind = "delete" /\ screen \in {"users", "groups"}
                                   THEN @ ELSE @ \cup {list.dialog.kind}]
  /\ UNCHANGED <<screen, server, links, astray>>

----------------------------------------------------------------------------
(* Submissions.                                                            *)

Without(q, ids) == SelectSeq(q, LAMBDA r : r \notin ids)

closed(l, j) ==
  [l EXCEPT !.busy = @ \ {j.kind}, !.dialog = IF @.ref = j.ref THEN NoDialog ELSE @]

\* An edit of the shown rows while a GET is out.
overtakes == list.gets # <<>>

\* catch: a toast; the dialog stays.
Fails(j) ==
  /\ jobs' = jobs \ {j}
  /\ list' = [list EXCEPT !.busy = @ \ {j.kind}]

submitAddUser(j) ==
  /\ screen = "users" /\ j.kind = "add"
  /\ \/ /\ NewRow \notin Elements(server[Tenant])
        /\ server' = [server EXCEPT ![Tenant] = <<NewRow>> \o @]
        /\ jobs' = jobs \ {j}
        /\ list' = resetFilterAndLoad(list, j)
     \/ Fails(j) /\ UNCHANGED server
  /\ UNCHANGED <<links, astray>>

submitEditUser(j) ==
  /\ screen = "users" /\ j.kind = "edit"
  /\ \/ jobs' = jobs \ {j} /\ list' = loadFor(list, j.kind, j.ref)
     \/ Fails(j)
  /\ UNCHANGED <<server, links, astray>>

submitAddTeam(j) ==
  /\ screen = "groups" /\ j.kind = "add"
  /\ \/ /\ j.at = "first" /\ NewRow \notin Elements(server[Tenant])
        /\ server' = [server EXCEPT ![Tenant] = <<NewRow>> \o @]
        /\ jobs' = (jobs \ {j}) \cup {[j EXCEPT !.at = "then"]}
        /\ UNCHANGED <<list, astray>>
     \/ /\ j.at = "then"
        /\ jobs' = jobs \ {j}
        /\ list' = closed(addGroup(list, NewRow), j)
        /\ astray' = (astray \/ overtakes)
        /\ UNCHANGED server
     \/ /\ Fails(j)
        /\ astray' = (astray \/ j.at = "then")
        /\ UNCHANGED server
  /\ UNCHANGED links

\* The template is created, then joined to its teams; if that fails it stays
\* without a row.
submitAddTemplate(j) ==
  /\ screen = "templates" /\ j.kind = "add"
  /\ \/ /\ j.at = "first" /\ NewRow \notin Elements(server[Tenant])
        /\ server' = [server EXCEPT ![Tenant] = <<NewRow>> \o @]
        /\ jobs' = (jobs \ {j}) \cup {[j EXCEPT !.at = "then"]}
        /\ UNCHANGED <<list, links, astray>>
     \/ /\ j.at = "then"
        /\ links' = [links EXCEPT ![NewRow] = j.want]
        /\ jobs' = jobs \ {j}
        /\ list' = closed(addTemplate(list, NewRow, j.want), j)
        /\ astray' = (astray \/ overtakes)
        /\ UNCHANGED server
     \/ /\ Fails(j)
        /\ astray' = (astray \/ j.at = "then")
        /\ UNCHANGED <<server, links>>

\* syncTemplateGroups: it leaves teams, then joins teams; each in one call
\* of its own, and any of them may fail.
submitEditTemplate(j) ==
  /\ screen = "templates" /\ j.kind = "edit"
  /\ LET r == CHOOSE x \in j.ids : TRUE
     IN  \/ /\ j.at = "first"
            /\ links' = [links EXCEPT ![r] = @ \ j.drop]
            /\ jobs' = (jobs \ {j}) \cup {[j EXCEPT !.at = "then"]}
            /\ UNCHANGED <<list, astray>>
         \/ /\ j.at = "then"
            /\ links' = [links EXCEPT ![r] = @ \cup j.join]
            /\ jobs' = jobs \ {j}
            /\ list' = closed(updateTemplate(list, r, j.want), j)
            /\ astray' = (astray \/ overtakes)
         \/ /\ Fails(j)
            /\ astray' = (astray \/ j.at = "then")
            /\ UNCHANGED links
  /\ UNCHANGED server

\* POST of the picked rows to the team that was open at the press.
submitAddMembers(j) ==
  /\ screen \in Tabs /\ j.kind = "add"
  /\ \/ /\ server' = [server EXCEPT ![j.scope] = Without(@, j.ids) \o <<CHOOSE r \in j.ids : TRUE>>]
        /\ jobs' = jobs \ {j}
        /\ list' = loadFor(list, j.kind, j.ref)
     \/ Fails(j) /\ UNCHANGED server
  /\ UNCHANGED <<links, astray>>

submitEditRole(j) ==
  /\ screen = "groupUsers" /\ j.kind = "edit"
  /\ \/ jobs' = jobs \ {j} /\ list' = loadFor(list, j.kind, j.ref)
     \/ Fails(j)
  /\ UNCHANGED <<server, links, astray>>

\* Promise.all of the deletions: the first failure ends the await while the
\* others go on.
DeleteOne(j, r) ==
  /\ j.kind = "delete" /\ r \in j.left
  /\ \/ /\ server' = [server EXCEPT ![j.scope] = Without(@, {r})]
        /\ jobs' = (jobs \ {j}) \cup {[j EXCEPT !.left = @ \ {r}]}
        /\ astray' = (astray \/ j.failed)
        /\ UNCHANGED list
     \/ /\ jobs' = (jobs \ {j}) \cup {[j EXCEPT !.left = @ \ {r}, !.failed = TRUE]}
        /\ list' = IF j.failed THEN list ELSE [list EXCEPT !.busy = @ \ {j.kind}]
        /\ astray' = (astray \/ (~j.failed /\ j.ids # j.left))
        /\ UNCHANGED server
  /\ UNCHANGED links

\* All answered: nothing is left of a deletion that failed.
AllAnswered(j) ==
  /\ j.kind = "delete" /\ j.left = {}
  /\ jobs' = jobs \ {j}
  /\ UNCHANGED <<server, links>>

DeletionFailed(j) == AllAnswered(j) /\ j.failed /\ UNCHANGED <<list, astray>>

submitDeleteUsers(j) ==
  /\ AllAnswered(j) /\ ~j.failed /\ screen = "users"
  /\ list' = loadFor(list, j.kind, j.ref)
  /\ UNCHANGED astray

\* GroupDetailComponent.deleteGroup goes back to the list.
deleteGroup(j) ==
  /\ AllAnswered(j) /\ ~j.failed /\ screen = "groups"
  /\ list' = load(closed(list, j))
  /\ UNCHANGED astray

submitDeleteTemplates(j) ==
  /\ AllAnswered(j) /\ ~j.failed /\ screen = "templates"
  /\ list' = closed(removeTemplates(list, j.ids), j)
  /\ astray' = (astray \/ overtakes)

submitRemoveUsers(j) ==
  /\ AllAnswered(j) /\ ~j.failed /\ screen = "groupUsers"
  /\ list' = loadFor([list EXCEPT !.chosen = {}], j.kind, j.ref)
  /\ UNCHANGED astray

submitDeleteAssistants(j) ==
  /\ AllAnswered(j) /\ ~j.failed /\ screen = "groupAssistants"
  /\ list' = loadFor([list EXCEPT !.chosen = {}], j.kind, j.ref)
  /\ UNCHANGED astray

submitRemoveTemplates(j) ==
  /\ AllAnswered(j) /\ ~j.failed /\ screen = "groupTemplates"
  /\ list' = loadFor([list EXCEPT !.chosen = {}], j.kind, j.ref)
  /\ UNCHANGED astray

Goes(j) ==
  /\ \/ submitAddUser(j) \/ submitEditUser(j)
     \/ submitAddTeam(j) \/ submitAddTemplate(j) \/ submitEditTemplate(j)
     \/ submitAddMembers(j) \/ submitEditRole(j)
     \/ \E r \in j.left : DeleteOne(j, r)
     \/ DeletionFailed(j)
     \/ submitDeleteUsers(j) \/ deleteGroup(j) \/ submitDeleteTemplates(j)
     \/ submitRemoveUsers(j) \/ submitDeleteAssistants(j) \/ submitRemoveTemplates(j)
  /\ UNCHANGED <<screen, did>>

OpenDialog ==
  \/ onAddUser \/ onAddTeam \/ onAddTemplate
  \/ openAddUserModal \/ openAddAssistantModal \/ openAddTemplateModal
  \/ onEditUser \/ onEditTemplate \/ onEditRole
  \/ onDeleteUser \/ onDeleteTemplate \/ openDeleteDialog
  \/ onRemoveUser \/ deleteAssistant \/ deleteTemplate

ListNext ==
  \/ Enter
  \/ \E g \in Teams : OpenTeam(g)
  \/ Turn
  \/ Choose
  \/ \E i \in 1..Len(list.gets) : ListAnswer(i)
  \/ OpenDialog
  \/ Cancel
  \/ Submit
  \/ \E j \in jobs : Goes(j)

ListSpec == ListInit /\ [][ListNext]_listVars

----------------------------------------------------------------------------
(* Properties.                                                             *)

\* At rest, the rows that are chosen are rows that are shown: what a bulk
\* deletion takes was on the page when it was asked for.  The exception is a
\* list that failed to load, whose selection the stores keep.
ChosenShown ==
  list.error \/ list.loading \/ list.chosen \subseteq Elements(list.rows)

\* No GET or submission is out, none overtook another, the last GET succeeded.
Quiet ==
  list.gets = <<>> /\ jobs = {} /\ ~astray /\ ~list.error /\ list.scope # NoTeam

\* Then the page shows rows the service has, counts all of them, and gives a
\* template the teams the service gives it: the local edits of the stores
\* amount to what loading the page again would show.
ShownIsStored ==
  Quiet =>
    /\ Elements(list.rows) \subseteq Elements(server[list.scope])
    /\ list.filter.query = "all" => list.total = Len(server[list.scope])
    /\ screen = "templates" =>
         \A r \in Elements(list.rows) : list.teams[r] = links[r]
=============================================================================
