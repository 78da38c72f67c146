---------------------------- MODULE CatalogLists ----------------------------
(***************************************************************************)
(* The lists of the administration pages that came later: assistants and   *)
(* their categories, library contents and library tags.                    *)
(*                                                                         *)
(* LibraryStore numbers its GETs and drops every answer but the latest's.  *)
(* The others do not: rxMethod's switchMap leaves the earlier promise, and *)
(* with it the patch in its continuation, alive.  Categories are fetched   *)
(* whole and paged by the client.  A row is a number; the query "some"     *)
(* matches the rows Found.                                                 *)
(***************************************************************************)
EXTENDS Positions, SequencesExt

CONSTANTS
  Rows0,    \* the rows at first, in the order the page asks for
  Found,    \* the rows the query "some" matches
  Fresh,    \* the row a create adds
  MaxSteps  \* bound on what the user does

ASSUME CatalogAssumption == Rows0 \in Seq(ToSet(Rows0)) /\ IsInjective(Rows0)

Pages == {"assistants", "categories", "contents", "tags"}
PageSize == 1

VARIABLES
  catalogue, \* the page that is open
  cat,      \* its store and its component
  work,     \* submissions that go on
  saved,    \* the service: the rows
  overlap,  \* two calls overlapped, a list GET or one of several deletions
            \* failed, or a category was edited while another edit was open
  current,  \* whether the last list GET to be issued succeeded
  steps     \* what the user did so far

catVars == <<catalogue, cat, work, saved, overlap, current, steps>>

FormClosed == [kind |-> "none", ids |-> {}, ref |-> 0]
Everything == [query |-> "all", page |-> 1]
Less(q, ids) == At(q, {i \in 1..Len(q) : q[i] \notin ids})
Slice(p, q) == SubSeq(q, (p - 1) * PageSize + 1,
                      IF p * PageSize < Len(q) THEN p * PageSize ELSE Len(q))
Matching(query, q) == At(q, {i \in 1..Len(q) : query = "all" \/ q[i] \in Found})

\* A list GET; after names what awaits it: a form to close, or rows to drop
\* from the selection.
loadPage(l, after, ids) ==
  [l EXCEPT !.loading = TRUE, !.id = @ + 1,
            !.gets = Append(@, [id |-> l.id + 1, filter |-> l.filter,
                                after |-> after, ids |-> ids])]

loadItems(l) == loadPage(l, "nothing", {})

CatInit ==
  /\ catalogue \in Pages
  /\ saved = Rows0
  /\ cat = loadItems([all |-> <<>>, rows |-> <<>>, total |-> 0, filter |-> Everything,
                      loading |-> FALSE, chosen |-> {}, busy |-> {}, gets |-> <<>>,
                      id |-> 0, editing |-> 0, form |-> FormClosed])
  /\ work = {}
  /\ overlap = FALSE /\ current = TRUE /\ steps = 0

----------------------------------------------------------------------------
(* The stores.                                                             *)

pageCount(l) ==
  LET n == (l.total + PageSize - 1) \div PageSize IN IF n < 1 THEN 1 ELSE n

\* applyFilter of the categories; every change of allItems goes through it.
applyFilter(l, all) ==
  [l EXCEPT !.all = all, !.rows = Slice(l.filter.page, all), !.total = Len(all)]

served(l, f) ==
  [l EXCEPT !.rows = Slice(f.page, Matching(f.query, saved)),
            !.total = Len(Matching(f.query, saved)), !.loading = FALSE]

\* categoriesAnswered ends with the filter of the moment, the others show the
\* page they asked for.
assistantsAnswered(l, g) == served(l, g.filter)
categoriesAnswered(l, g) == [applyFilter(l, saved) EXCEPT !.loading = FALSE]
contentsAnsweredLate(l, g) == served(l, g.filter)

contentsAnswered(l, g) == IF g.id = l.id THEN served(l, g.filter) ELSE l
tagsAnswered(l, g) == served(l, g.filter)

answered(l, g) ==
  CASE catalogue = "assistants" -> assistantsAnswered(l, g)
    [] catalogue = "categories" -> categoriesAnswered(l, g)
    [] catalogue = "contents" -> contentsAnswered(l, g)
    [] OTHER -> tagsAnswered(l, g)

notAnswered(l, g) ==
  IF catalogue = "contents" /\ g.id # l.id THEN l ELSE [l EXCEPT !.loading = FALSE]

\* updateFilter and the like.  Only the tags' page drops its selection.
updateFilter(l, f) ==
  CASE catalogue = "categories" -> applyFilter([l EXCEPT !.filter = f], l.all)
    [] catalogue = "tags" -> loadItems([l EXCEPT !.filter = f, !.chosen = {}])
    [] OTHER -> loadItems([l EXCEPT !.filter = f])

removeMany(l, ids) ==
  IF catalogue = "categories" THEN applyFilter(l, Less(l.all, ids))
  ELSE [l EXCEPT !.rows = Less(@, ids), !.total = @ - Cardinality(ids)]

addOne(l, r) == applyFilter(l, <<r>> \o l.all)

\* updateOne(id, updates): the updates carry the id of the row they came with.
updateOne(l, id, r) ==
  applyFilter(l, [i \in DOMAIN l.all |-> IF l.all[i] = id THEN r ELSE l.all[i]])

----------------------------------------------------------------------------
(* What the user does.                                                     *)

Idle == cat.gets = <<>> /\ work = {}

Step(l) ==
  /\ steps < MaxSteps /\ steps' = steps + 1
  /\ cat' = l
  /\ overlap' = (overlap \/ (l.gets # cat.gets /\ ~Idle))
  /\ UNCHANGED <<catalogue, saved, current>>

NothingOpen == cat.form = FormClosed

Enter == NothingOpen /\ Step(loadItems(cat)) /\ UNCHANGED work

\* Searching, sorting and PaginationComponent.
pageTurns == {[cat.filter EXCEPT !.page = p] : p \in 1..pageCount(cat)}
searches == {[query |-> q, page |-> 1] : q \in {"all", "some"}}

TurnTo(fs) ==
  /\ NothingOpen
  /\ \E f \in fs : Step(updateFilter(cat, f))
  /\ UNCHANGED work

onFilterChange == catalogue = "assistants" /\ TurnTo(pageTurns \cup searches)
onSortChange == catalogue = "categories" /\ TurnTo(pageTurns)
onUserFilterChange == catalogue = "contents" /\ TurnTo(pageTurns \cup searches)
onTagsPageChange == catalogue = "tags" /\ TurnTo(pageTurns)
TurnPage == onFilterChange \/ onSortChange \/ onUserFilterChange \/ onTagsPageChange

\* The check boxes; the contents have none.
Chooses(ids) == NothingOpen /\ Step([cat EXCEPT !.chosen = ids]) /\ UNCHANGED work
flipped(r) == IF r \in cat.chosen THEN cat.chosen \ {r} ELSE cat.chosen \cup {r}

toggleAssistant == catalogue = "assistants" /\ \E r \in ToSet(cat.rows) : Chooses(flipped(r))
toggleCategory == catalogue = "categories" /\ \E r \in ToSet(cat.rows) : Chooses(flipped(r))
toggleTag == catalogue = "tags" /\ \E r \in ToSet(cat.rows) : Chooses(flipped(r))

selectAllAssistants == catalogue = "assistants" /\ \E ids \in {ToSet(cat.rows), {}} : Chooses(ids)
selectAllCategories == catalogue = "categories" /\ \E ids \in {ToSet(cat.rows), {}} : Chooses(ids)
toggleAllSelection == catalogue = "tags" /\ \E ids \in {ToSet(cat.rows), {}} : Chooses(ids)

Choose ==
  \/ toggleAssistant \/ toggleCategory \/ toggleTag
  \/ selectAllAssistants \/ selectAllCategories \/ toggleAllSelection

\* Every form clears the flag of its kind as it opens; the edits note the row.
Open(kind, ids) ==
  /\ NothingOpen
  /\ Step([cat EXCEPT !.form = [kind |-> kind, ids |-> ids, ref |-> steps + 1],
                      !.busy = @ \ {kind},
                      !.editing = IF kind = "edit" THEN CHOOSE r \in ids : TRUE ELSE @])
  /\ UNCHANGED work

onAddAssistant == catalogue = "assistants" /\ Open("add", {Fresh})
onAddCategory == catalogue = "categories" /\ Open("add", {Fresh})
onCreateLibraryTag == catalogue = "tags" /\ Open("add", {Fresh})

onEditAssistant == catalogue = "assistants" /\ \E r \in ToSet(cat.rows) : Open("edit", {r})
onEditCategory == catalogue = "categories" /\ \E r \in ToSet(cat.rows) : Open("edit", {r})
onEditSettings == catalogue = "contents" /\ \E r \in ToSet(cat.rows) : Open("edit", {r})
onEditLibraryTag == catalogue = "tags" /\ \E r \in ToSet(cat.rows) : Open("edit", {r})

\* The confirmation of a deletion, of one row or of those chosen.
Picked == {{r} : r \in ToSet(cat.rows)} \cup ({cat.chosen} \ {{}})
onDeleteAssistant == catalogue = "assistants" /\ \E ids \in Picked : Open("delete", ids)
onDeleteCategory == catalogue = "categories" /\ \E ids \in Picked : Open("delete", ids)
onDeleteItem == catalogue = "contents" /\ \E r \in ToSet(cat.rows) : Open("delete", {r})
onDeleteLibraryTag == catalogue = "tags" /\ \E r \in ToSet(cat.rows) : Open("delete", {r})
onDeleteTags == catalogue = "tags" /\ cat.chosen # {} /\ Open("deleteTags", cat.chosen)

OpenCatalogForm ==
  \/ onAddAssistant \/ onAddCategory \/ onCreateLibraryTag
  \/ onEditAssistant \/ onEditCategory \/ onEditSettings \/ onEditLibraryTag
  \/ onDeleteAssistant \/ onDeleteCategory \/ onDeleteItem \/ onDeleteLibraryTag \/ onDeleteTags

Cancel == ~NothingOpen /\ Step([cat EXCEPT !.form = FormClosed]) /\ UNCHANGED work

\* The confirm button.  Only the adding and editing of assistants and of
\* categories has a flag; a deletion of tags closes its dialog at once.
Flagged(kind) == catalogue \in {"assistants", "categories"} /\ kind # "delete"

SubmitForm(left) ==
  /\ ~NothingOpen /\ cat.form.kind \notin cat.busy
  /\ Step([cat EXCEPT !.busy = IF Flagged(cat.form.kind) THEN @ \cup {cat.form.kind} ELSE @,
                      !.form = left])
  /\ work' = work \cup {[kind |-> cat.form.kind, ids |-> cat.form.ids, left |-> cat.form.ids,
                         ref |-> cat.form.ref, failed |-> FALSE]}

submitOrConfirm == catalogue \in {"assistants", "categories"} /\ SubmitForm(cat.form)
saveEditSettings == catalogue = "contents" /\ SubmitForm(cat.form)
saveEditTag == catalogue = "tags" /\ cat.form.kind \in {"add", "edit"} /\ SubmitForm(cat.form)
confirmDeleteTags ==
  catalogue = "tags" /\ cat.form.kind \in {"delete", "deleteTags"} /\ SubmitForm(FormClosed)
Submit == submitOrConfirm \/ saveEditSettings \/ saveEditTag \/ confirmDeleteTags

----------------------------------------------------------------------------
(* Answers.                                                                *)

closed(l, j) ==
  [l EXCEPT !.busy = @ \ {j.kind}, !.form = IF @.ref = j.ref THEN FormClosed ELSE @]

\* What awaited a list GET goes on.
goesOn(l, g) ==
  CASE g.after \in {"close", "delete"} -> [l EXCEPT !.form = FormClosed]
    [] g.after = "drop" -> [l EXCEPT !.chosen = @ \ g.ids]
    [] g.after = "dropAll" -> [l EXCEPT !.chosen = {}]
    [] OTHER -> l

\* A list GET is answered; deleteItem turns back from a page that is no more.
CatalogAnswer(i, ok) ==
  LET g == cat.gets[i]
      rest == [cat EXCEPT !.gets = SubSeq(@, 1, i - 1) \o SubSeq(@, i + 1, Len(@))]
      l == IF ok THEN answered(rest, g) ELSE notAnswered(rest, g)
  IN  /\ cat' = IF g.after = "delete" /\ l.filter.page > pageCount(l)
                THEN loadPage([l EXCEPT !.filter.page = pageCount(l)], "close", {})
                ELSE goesOn(l, g)
      /\ current' = IF g.id = cat.id THEN ok ELSE current
      /\ overlap' = (overlap \/ ~ok)
      /\ UNCHANGED <<catalogue, work, saved, steps>>

\* A submission ends; its call crossed another if one was out.
Crossing(j) == cat.gets # <<>> \/ work # {j}

Ends(j, l, crossing) ==
  /\ work' = work \ {j}
  /\ cat' = l
  /\ overlap' = (overlap \/ crossing)
  /\ UNCHANGED <<catalogue, current, steps>>

Refused(j) ==
  Ends(j, [cat EXCEPT !.busy = @ \ {j.kind}], FALSE) /\ UNCHANGED saved

Created(j) == j.kind = "add" /\ Fresh \notin ToSet(saved) /\ saved' = <<Fresh>> \o saved

submitAddAssistant(j) ==
  catalogue = "assistants" /\ Created(j) /\ Ends(j, closed(loadItems(cat), j), Crossing(j))

submitAddCategory(j) ==
  catalogue = "categories" /\ Created(j) /\ Ends(j, closed(addOne(cat, Fresh), j), Crossing(j))

createTag(j) ==
  catalogue = "tags" /\ Created(j) /\ Ends(j, loadPage([cat EXCEPT !.filter.page = 1], "close", {}), Crossing(j))

\* A row that is gone is not edited (404).
RowOf(j) == CHOOSE r \in j.ids : TRUE
Amended(j) == j.kind = "edit" /\ RowOf(j) \in ToSet(saved) /\ UNCHANGED saved

submitEditAssistant(j) ==
  catalogue = "assistants" /\ Amended(j) /\ Ends(j, closed(loadItems(cat), j), Crossing(j))

\* The row replaced is that of editingId once the answer is there.
submitEditCategory(j) ==
  /\ catalogue = "categories" /\ Amended(j)
  /\ Ends(j, closed(updateOne(cat, cat.editing, RowOf(j)), j),
          Crossing(j) \/ cat.editing # RowOf(j))

updateItem(j) == catalogue = "contents" /\ Amended(j) /\ Ends(j, loadPage(cat, "close", {}), Crossing(j))

updateTag(j) == catalogue = "tags" /\ Amended(j) /\ Ends(j, [cat EXCEPT !.form = FormClosed], Crossing(j))

\* Promise.all of the deletions of assistants and of categories.
deleteOne(j) ==
  /\ j.kind = "delete" /\ catalogue \in {"assistants", "categories"}
  /\ \E r \in j.left, ok \in BOOLEAN :
       /\ saved' = IF ok THEN Less(saved, {r}) ELSE saved
       /\ work' = (work \ {j}) \cup {[j EXCEPT !.left = @ \ {r}, !.failed = @ \/ ~ok]}
       /\ overlap' = (overlap \/ ~ok)
  /\ UNCHANGED <<catalogue, cat, current, steps>>

submitDeleteMany(j) ==
  /\ j.kind = "delete" /\ j.left = {} /\ catalogue \in {"assistants", "categories"}
  /\ IF j.failed THEN Ends(j, cat, FALSE)
     ELSE Ends(j, closed([removeMany(cat, j.ids) EXCEPT !.chosen = @ \ j.ids], j), Crossing(j))
  /\ UNCHANGED saved

Removed(j, kind) == j.kind = kind /\ saved' = Less(saved, j.ids)

deleteItem(j) ==
  catalogue = "contents" /\ Removed(j, "delete") /\ Ends(j, loadPage(cat, "delete", {}), Crossing(j))

\* The row leaves the selection once the list is there; deleteTags leaves
\* none.
deleteTag(j) ==
  catalogue = "tags" /\ Removed(j, "delete") /\ Ends(j, loadPage(cat, "drop", j.ids), Crossing(j))
deleteTags(j) ==
  catalogue = "tags" /\ Removed(j, "deleteTags") /\ Ends(j, loadPage(cat, "dropAll", {}), Crossing(j))

Goes(j) ==
  \/ submitAddAssistant(j) \/ submitAddCategory(j) \/ createTag(j)
  \/ submitEditAssistant(j) \/ submitEditCategory(j) \/ updateItem(j) \/ updateTag(j)
  \/ deleteOne(j) \/ submitDeleteMany(j) \/ deleteItem(j)
  \/ deleteTag(j) \/ deleteTags(j)
  \/ (j.kind # "delete" \/ catalogue \in {"contents", "tags"}) /\ Refused(j)

CatNext ==
  \/ Enter \/ TurnPage \/ Choose \/ OpenCatalogForm \/ Cancel \/ Submit
  \/ \E i \in DOMAIN cat.gets, ok \in BOOLEAN : CatalogAnswer(i, ok)
  \/ \E j \in work : Goes(j)

CatSpec == CatInit /\ [][CatNext]_catVars

----------------------------------------------------------------------------
(* Properties.                                                             *)

\* At rest, after a list that arrived, the rows shown are the service's and
\* the total is right.  For the library contents, whose GETs are numbered,
\* this holds however their answers are ordered; for the others unless two
\* calls overlapped or one failed.  (The assistants' total is not among it: removeMany
\* counts down by rows the filter may hide.)
RowsOfService ==
  (Idle /\ current /\ (catalogue = "contents" \/ ~overlap)) =>
    /\ ToSet(cat.rows) \subseteq ToSet(saved)
    /\ catalogue # "assistants" => cat.total = Len(Matching(cat.filter.query, saved))
    /\ catalogue = "contents" => cat.rows = Slice(cat.filter.page, Matching(cat.filter.query, saved))

\* At rest a library content's page is one of the pages there are, unless two
\* calls overlapped or a GET failed: deleteItem looks once more after the list has come.
PageExists ==
  (catalogue = "contents" /\ Idle /\ current /\ ~overlap) => cat.filter.page <= pageCount(cat)

\* The catalogues' rows at rest are the service's, and a library's page is one
\* there is, with the exceptions named at each: the last GET of the list failed,
\* calls overlapped (but for the rows of the contents), the assistants' total.
SettledRows == RowsOfService /\ PageExists
=============================================================================
