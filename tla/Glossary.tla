------------------------------ MODULE Glossary ------------------------------
(***************************************************************************)
(* The glossary pages: the terms, the tags and, under one glossary's       *)
(* shell, its words and its assistants; an administrator's pages and a     *)
(* user's, which only read.                                                *)
(*                                                                         *)
(* Each page fetches all its rows and filters, sorts and pages them        *)
(* itself.  The shell fetches the glossary whose title it shows, and drops *)
(* the answer if the route has moved on; the pages under it do not, and    *)
(* nothing catches a refresh that fails.                                   *)
(***************************************************************************)
EXTENDS Integers, Sequences, FiniteSets

CONSTANTS
  Lists,     \* the rows of the terms and tags pages, and of each glossary
  Matches,   \* the rows a search keeps
  Added,     \* the row a create adds
  MaxMoves   \* bound on what the user does

Own == "own"                \* the scope of the terms and of the tags
NoTerm == "none"
Glossaries == DOMAIN Lists \ {Own}
Sections == {"terms", "tags", "words", "assistants"}
Shell == {"words", "assistants"}

VARIABLES
  section,  \* the page that is open
  admin,    \* whether it is the administrator's
  glos,     \* the page: route, rows, filter, selection, dialog, GETs
  shell,    \* the shell: dictionaryTerm, the text in its form, GETs
  tasks,    \* writes that were not answered
  base,     \* the service: the rows of each scope
  strayed,  \* the title is a save's of a route that was left, and no load of the
            \* route was answered since
  moves     \* what the user did so far

glosVars == <<section, admin, glos, shell, tasks, base, strayed, moves>>

Closed == [kind |-> "none", ids |-> {}]
All == [query |-> FALSE, page |-> 1]
Members(q) == {q[i] : i \in DOMAIN q}
Drop(q, ids) == SelectSeq(q, LAMBDA r : r \notin ids)

\* refresh, refreshWords and refreshAssistants; after a write, of the glossary
\* that was written.
refreshOf(g, of, closes) ==
  [g EXCEPT !.loading = TRUE, !.gets = Append(@, [of |-> of, closes |-> closes])]
refresh(g) == refreshOf(g, g.route, FALSE)

getByIdKeeping(s, id) ==
  [s EXCEPT !.gets = @ \cup
                     {[of |-> id, cancelled |-> FALSE]}]

\* getById of the shell's effect; the cleanup of the one before drops its
\* answer.
getById(s, id) ==
  [s EXCEPT !.gets = {[g EXCEPT !.cancelled = TRUE] : g \in @} \cup
                     {[of |-> id, cancelled |-> FALSE]}]

GlosInit ==
  /\ section \in Sections
  /\ admin \in BOOLEAN
  /\ admin \/ section # "tags"
  /\ \E r \in IF section \in Shell THEN Glossaries ELSE {Own} :
       LET g == [route |-> r, rows |-> <<>>, loading |-> FALSE, filter |-> All,
                 chosen |-> {}, form |-> Closed, gets |-> <<>>]
           s == [term |-> NoTerm, text |-> NoTerm, form |-> FALSE, gets |-> {}]
       IN  /\ glos = IF section \in Shell THEN refresh(refresh(g)) ELSE refresh(g)
           /\ shell = IF section \in Shell THEN getById(s, r) ELSE s
  /\ tasks = {} /\ base = Lists /\ strayed = FALSE /\ moves = 0

----------------------------------------------------------------------------
(* What the pages compute.                                                 *)

filteredRows(g) ==
  IF g.filter.query THEN SelectSeq(g.rows, LAMBDA r : r \in Matches) ELSE g.rows

totalPages(g) == IF filteredRows(g) = <<>> THEN 1 ELSE Len(filteredRows(g))

\* A page of one row.
pageSlice(g) ==
  SubSeq(filteredRows(g), g.filter.page,
         IF g.filter.page < Len(filteredRows(g)) THEN g.filter.page ELSE Len(filteredRows(g)))

\* A header's check box takes the page's rows; under the shell, all that pass
\* the filter, and it leaves the others as they are.
toggleSelectAll(g, checked) ==
  IF section = "tags" THEN IF checked THEN Members(pageSlice(g)) ELSE {}
  ELSE IF checked THEN g.chosen \cup Members(filteredRows(g))
       ELSE g.chosen \ Members(filteredRows(g))

----------------------------------------------------------------------------
(* What the user does.                                                     *)

Moves(g, s) ==
  /\ moves < MaxMoves /\ moves' = moves + 1
  /\ glos' = g /\ shell' = s
  /\ UNCHANGED <<section, admin, base>>

NoDialog == glos.form = Closed /\ ~shell.form
Quietly == UNCHANGED <<tasks, strayed>>

\* paramMap emits at once to the page's subscription, and again as the route
\* changes; the shell's effect follows.  A dialog closes with the route.
RouteTo(r) ==
  /\ section \in Shell /\ r # glos.route
  /\ Moves(refresh([glos EXCEPT !.route = r, !.form = Closed]),
           getById([shell EXCEPT !.form = FALSE], r))
  /\ Quietly

\* The terms' search is an effect that asks the service too.
onSearch ==
  /\ NoDialog /\ section # "tags"
  /\ LET g == [glos EXCEPT !.filter = [query |-> ~glos.filter.query, page |-> 1]]
     IN  Moves(IF section = "terms" THEN refresh(g) ELSE g, shell)
  /\ Quietly

onPageChange ==
  /\ NoDialog
  /\ \E p \in 1..totalPages(glos) : Moves([glos EXCEPT !.filter.page = p], shell)
  /\ Quietly

onToggleRow ==
  /\ NoDialog /\ admin /\ section # "terms"
  /\ \E r \in Members(pageSlice(glos)) :
       Moves([glos EXCEPT !.chosen = IF r \in @ THEN @ \ {r} ELSE @ \cup {r}], shell)
  /\ Quietly

onToggleSelectAll ==
  /\ NoDialog /\ admin /\ section # "terms"
  /\ \E checked \in BOOLEAN :
       Moves([glos EXCEPT !.chosen = toggleSelectAll(glos, checked)], shell)
  /\ Quietly

openDialog(kind, ids) ==
  /\ NoDialog /\ admin
  /\ Moves([glos EXCEPT !.form = [kind |-> kind, ids |-> ids]], shell)
  /\ Quietly

onAddTerm == section = "terms" /\ openDialog("add", {Added})
onCreateTag == section = "tags" /\ openDialog("add", {Added})
openAddAssistant == section = "assistants" /\ openDialog("add", {Added})

onEditTag == section = "tags" /\ \E r \in Members(pageSlice(glos)) : openDialog("edit", {r})
openEditWord == section = "words" /\ \E r \in Members(pageSlice(glos)) : openDialog("edit", {r})

\* A row's deletion, and that of all that are chosen, shown or not.
onDeleteTerm == section = "terms" /\ \E r \in Members(pageSlice(glos)) : openDialog("delete", {r})
onDeleteTag == section = "tags" /\ \E r \in Members(pageSlice(glos)) : openDialog("delete", {r})
openDeleteWord == section = "words" /\ \E r \in Members(pageSlice(glos)) : openDialog("delete", {r})
openDeleteModal ==
  section = "assistants" /\ \E r \in Members(pageSlice(glos)) : openDialog("delete", {r})
onDeleteSelected == glos.chosen # {} /\ openDialog("deleteMany", glos.chosen)

OpenForm ==
  \/ onAddTerm \/ onCreateTag \/ openAddAssistant
  \/ onEditTag \/ openEditWord
  \/ onDeleteTerm \/ onDeleteTag \/ openDeleteWord \/ openDeleteModal \/ onDeleteSelected

closeDialogs ==
  /\ ~NoDialog
  /\ Moves([glos EXCEPT !.form = Closed], [shell EXCEPT !.form = FALSE])
  /\ Quietly

\* A word's edit and the adding of assistants close their dialog at once, the
\* others when the refresh has come or failed.
atOnce(kind) == <<section, kind>> \in {<<"words", "edit">>, <<"assistants", "add">>}

Write(kind, ids) == [kind |-> kind, ids |-> ids, of |-> glos.route, closes |-> ~atOnce(kind)]

Writes(w, g, s) ==
  /\ Moves(g, s)
  /\ tasks' = tasks \cup {w}
  /\ UNCHANGED strayed

\* The confirm button.
confirm ==
  /\ glos.form # Closed
  /\ Writes(Write(glos.form.kind, glos.form.ids),
            IF atOnce(glos.form.kind) THEN [glos EXCEPT !.form = Closed] ELSE glos, shell)

\* The shell's own form starts with the text of dictionaryTerm.
openEditDictionary ==
  /\ NoDialog /\ admin /\ section \in Shell
  /\ Moves(glos, [shell EXCEPT !.form = TRUE, !.text = shell.term])
  /\ Quietly

saveEditDictionary ==
  shell.form /\ shell.text # NoTerm /\ Writes(Write("save", {}), glos, shell)

----------------------------------------------------------------------------
(* Answers.                                                                *)

\* closeAll closes whatever dialog is open by then.
closeAll(g, s, closes) ==
  /\ glos' = IF closes THEN [g EXCEPT !.form = Closed] ELSE g
  /\ shell' = IF closes THEN [s EXCEPT !.form = FALSE] ELSE s

RefreshAnswer(i) ==
  LET get == glos.gets[i]
      g == [glos EXCEPT !.gets = SubSeq(@, 1, i - 1) \o SubSeq(@, i + 1, Len(@))]
  IN  /\ \/ closeAll([g EXCEPT !.rows = base[get.of], !.loading = FALSE], shell, get.closes)
         \/ closeAll(g, shell, get.closes)
      /\ UNCHANGED <<section, admin, tasks, base, strayed, moves>>

TermAnswer(g) ==
  /\ \E term \in {g.of, NoTerm} :
       shell' = [shell EXCEPT !.gets = @ \ {g}, !.term = IF g.cancelled THEN @ ELSE term]
  /\ strayed' = (strayed /\ g.cancelled)
  /\ UNCHANGED <<section, admin, glos, tasks, base, moves>>

\* then of a page's write: the page is refreshed.
Done(t, g) ==
  /\ tasks' = tasks \ {t}
  /\ glos' = refreshOf(g, t.of, t.closes)
  /\ UNCHANGED <<section, admin, shell, strayed, moves>>

unselected(t) ==
  IF section = "words" \/ (t.kind = "deleteMany" /\ section # "assistants") THEN {}
  ELSE glos.chosen \ t.ids

WriteFails(t) ==
  /\ t.kind # "save"
  /\ tasks' = tasks \ {t}
  /\ closeAll(glos, shell, t.closes)
  /\ UNCHANGED <<section, admin, base, strayed, moves>>

Added1(t) ==
  /\ t.kind = "add"
  /\ base' = [base EXCEPT ![t.of] = Drop(@, t.ids) \o <<CHOOSE r \in t.ids : TRUE>>]
  /\ Done(t, glos)

Edited(t) == t.kind = "edit" /\ UNCHANGED base /\ Done(t, glos)

\* One call for one row or for many; the tags' page makes one for each and
\* waits for all, whatever becomes of them (allSettled).
Deleted(t) ==
  /\ t.kind \in {"delete", "deleteMany"}
  /\ \E gone \in IF section = "tags" /\ t.kind = "deleteMany" THEN SUBSET t.ids ELSE {t.ids} :
       base' = [base EXCEPT ![t.of] = Drop(@, gone)]
  /\ Done(t, [glos EXCEPT !.chosen = unselected(t)])

\* The title becomes what the service answers, wherever the route is, and
\* every dialog is closed.
Saved(t) ==
  /\ t.kind = "save"
  /\ tasks' = tasks \ {t}
  /\ \E ok \in BOOLEAN :
       /\ closeAll(glos, IF ok THEN [shell EXCEPT !.term = t.of] ELSE shell, ok)
       /\ strayed' = IF ok THEN t.of # glos.route ELSE strayed
  /\ UNCHANGED <<section, admin, base, moves>>

GlosNext ==
  \/ \E r \in Glossaries : RouteTo(r)
  \/ onSearch \/ onPageChange \/ onToggleRow \/ onToggleSelectAll
  \/ OpenForm \/ closeDialogs
  \/ confirm \/ openEditDictionary \/ saveEditDictionary
  \/ \E i \in DOMAIN glos.gets : RefreshAnswer(i)
  \/ \E g \in shell.gets : TermAnswer(g)
  \/ \E t \in tasks : WriteFails(t) \/ Added1(t) \/ Edited(t) \/ Deleted(t) \/ Saved(t)

GlosSpec == GlosInit /\ [][GlosNext]_glosVars

----------------------------------------------------------------------------
(* Properties.                                                             *)

\* Whenever the shell waits for no load, its title is that of the glossary in
\* the route, or none, for a user and for an administrator, however often the
\* route moves and in whatever order the loads are answered: the effect drops
\* the answer of an earlier route.  A save is not dropped.  One that is answered
\* after the route has moved leaves its own glossary's title, which is wrong
\* until a load of the route is answered after it.
TitleOfRoute ==
  (shell.gets = {} /\ section \in Shell /\ ~strayed) =>
    shell.term \in {NoTerm, glos.route}
=============================================================================
