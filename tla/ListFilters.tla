---------------------------- MODULE ListFilters ----------------------------
(***************************************************************************)
(* The filters above the administration's lists, each a component of its   *)
(* own: the box to search in, the selects, and the sort control they share *)
(* (FormSortInputComponent), down to the query that the list's service     *)
(* sends.                                                                  *)
(*                                                                         *)
(* The sort control keeps a copy of the field and the order.  Angular      *)
(* writes into the copy only what its binding has not written last: what   *)
(* the control set itself stays until the page's value changes.  null,     *)
(* undefined and "all" are None; a team stands for its id, a role for its  *)
(* upper case; the period is in ListControls.                              *)
(***************************************************************************)
EXTENDS Naturals, Sequences

CONSTANTS
  Texts,    \* what is searched for; "" is nothing and " " blank
  Picks,    \* what a select offers besides "all"; a role is "admin" or "user"
  LastPage  \* bound on the pages turned to

VARIABLES
  kind,    \* whose filter it is
  own,     \* the filter component's signals
  sort,    \* the sort control's copy, and what its bindings wrote last
  drawer,  \* the sort control's panel on a small screen
  filter,  \* the store's filter
  asked    \* the query of the list's last request

filterVars == <<kind, own, sort, drawer, filter, asked>>

None == "none"
Or(v, w) == IF v = None THEN w ELSE v      \* v ?? w
OrNone(v) == IF v = "" THEN None ELSE v    \* v || undefined
Trim(text) == IF text = " " THEN "" ELSE text

Kinds == {"histories", "groups", "members", "memberAssistants", "memberTemplates",
          "templates", "users", "assistants"}

----------------------------------------------------------------------------
(* What each filter starts with, and what it offers to sort by.            *)

Signals(field, order, picks) ==
  [query |-> "", field |-> field, order |-> order, pick |-> [n \in picks |-> None]]

historyFilter == Signals("updatedAt", "desc", {"user"})
groupFilter == Signals("updatedAt", "desc", {})
memberFilter == Signals("updatedAt", "desc", {"role"})
memberAssistantFilter == Signals(None, "desc", {"type", "category"})
memberTemplateFilter == Signals(None, "desc", {})
templateFilter == Signals(None, None, {"team"})
INITIAL_USER_LIST_FILTER == Signals("name", "asc", {"role"})
assistantFilter == Signals("updatedAt", "desc", {"type", "category", "team"})

Filters ==
  [histories |-> historyFilter, groups |-> groupFilter, members |-> memberFilter,
   memberAssistants |-> memberAssistantFilter, memberTemplates |-> memberTemplateFilter,
   templates |-> templateFilter, users |-> INITIAL_USER_LIST_FILTER,
   assistants |-> assistantFilter]

historySorts == {"updatedAt", "userName", "roomName"}
groupSorts == {"updatedAt", "name"}
memberSorts == {"updatedAt", "name", "role"}
memberAssistantSorts == {"addedAt", "name", "server", "category"}
memberTemplateSorts == {"addedAt", "name"}
templateSorts == {"updatedAt", "name"}
userSorts == {"updatedAt", "name", "role", "totalCredits"}

Sorts ==
  [histories |-> historySorts, groups |-> groupSorts, members |-> memberSorts,
   memberAssistants |-> memberAssistantSorts, memberTemplates |-> memberTemplateSorts,
   templates |-> templateSorts, users |-> userSorts, assistants |-> groupSorts]
Orders == {"asc", "desc"}

----------------------------------------------------------------------------
(* A new field or order, as the filter component takes it.                 *)

historyOrder(o, v) == [o EXCEPT !.order = Or(v, "desc")]
historyField(o, v) == [o EXCEPT !.field = Or(v, "updatedAt")]
groupField(o, v) == [o EXCEPT !.field = Or(v, "updatedAt")]
memberField(o, v) == [o EXCEPT !.field = Or(v, "updatedAt")]
templateField(o, v) == [o EXCEPT !.field = Or(v, "updatedAt")]
memberAssistantField(o, v) == [o EXCEPT !.field = v]
memberTemplateField(o, v) == [o EXCEPT !.field = v]

\* The three filters of a team: their template makes an order of none "".
groupOrder(o, v) == [o EXCEPT !.order = Or(v, "")]
templateOrder(o, v) == [o EXCEPT !.order = v]

\* The users' and the assistants' lists have no component of their own: each
\* output of the control updates both in the store.
usersSorted(o, field, order) == [o EXCEPT !.field = field, !.order = order]

onSortFieldChange(o, v) ==
  CASE kind = "histories" -> historyField(o, v)
    [] kind = "groups" -> groupField(o, v)
    [] kind = "members" -> memberField(o, v)
    [] kind = "templates" -> templateField(o, v)
    [] kind = "memberAssistants" -> memberAssistantField(o, v)
    [] kind = "memberTemplates" -> memberTemplateField(o, v)
    [] OTHER -> usersSorted(o, v, Or(o.order, "desc"))

onSortOrderChange(o, v) ==
  CASE kind = "histories" -> historyOrder(o, v)
    [] kind = "templates" -> templateOrder(o, v)
    [] kind \in {"users", "assistants"} -> usersSorted(o, o.field, v)
    [] OTHER -> groupOrder(o, v)

----------------------------------------------------------------------------
(* What the page makes of the filter for its store, and the store's query. *)

historyChanged(o) ==
  [o EXCEPT !.query = OrNone(@), !.field = Or(@, "updatedAt"), !.order = Or(@, "desc")]
groupChanged(o) == [o EXCEPT !.query = OrNone(@)]
memberChanged(o) ==
  [o EXCEPT !.query = OrNone(@),
            !.pick["role"] = IF @ \in {None, "admin"} THEN @ ELSE "user"]
memberAssistantChanged(o) == [o EXCEPT !.query = OrNone(@), !.field = OrNone(@)]
memberTemplateChanged(o) == [o EXCEPT !.query = OrNone(@), !.field = OrNone(@)]
templateChanged(o) == [o EXCEPT !.query = OrNone(@)]

onFilterChange(o) ==
  CASE kind = "histories" -> historyChanged(o)
    [] kind = "groups" -> groupChanged(o)
    [] kind = "members" -> memberChanged(o)
    [] kind = "memberAssistants" -> memberAssistantChanged(o)
    [] kind = "memberTemplates" -> memberTemplateChanged(o)
    [] kind = "templates" -> templateChanged(o)
    [] OTHER -> o

AtPage(page, f) ==
  [query |-> f.query, field |-> f.field, order |-> f.order, pick |-> f.pick, page |-> page]

\* Without a field there is no order; without an order it is descending.
Query(f, text) ==
  [page |-> f.page - 1, query |-> text, pick |-> f.pick,
   sort |-> IF f.field = None THEN <<>> ELSE <<f.field, Or(f.order, "desc")>>]

toOrderBy(field) == IF field = "roomName" THEN "name" ELSE field
historyQuery(f) ==
  [Query(f, f.query) EXCEPT !.sort =
     <<toOrderBy(Or(f.field, "updatedAt")), IF Or(f.order, "desc") = "desc" THEN "desc" ELSE "asc">>]
groupQuery(f) == Query(f, f.query)
memberQuery(f) == Query(f, Trim(Or(f.query, "")))
memberAssistantQuery(f) == Query(f, OrNone(Trim(Or(f.query, ""))))
memberTemplateQuery(f) == Query(f, Trim(Or(f.query, "")))
templateQuery(f) == Query(f, f.query)
userQuery(f) == Query(f, Trim(Or(f.query, "")))
assistantQuery(f) == Query(f, OrNone(Trim(Or(f.query, ""))))

toParams(f) ==
  CASE kind = "histories" -> historyQuery(f)
    [] kind = "groups" -> groupQuery(f)
    [] kind = "members" -> memberQuery(f)
    [] kind = "memberAssistants" -> memberAssistantQuery(f)
    [] kind = "memberTemplates" -> memberTemplateQuery(f)
    [] kind = "templates" -> templateQuery(f)
    [] kind = "users" -> userQuery(f)
    [] OTHER -> assistantQuery(f)

Load(f) == filter' = f /\ asked' = toParams(f)

\* The bindings, after the event: what differs from what they wrote last.
Bound(s, o) ==
  LET field == o.field
      order == IF kind = "users" THEN Or(o.order, "desc") ELSE o.order
  IN [field |-> IF field = s.boundField THEN s.field ELSE field,
      order |-> IF order = s.boundOrder THEN s.order ELSE order,
      boundField |-> field, boundOrder |-> order]

\* A change ends with the first page being asked for.
Change(o, s) ==
  /\ own' = o /\ sort' = Bound(s, o)
  /\ Load(AtPage(1, onFilterChange(o)))
  /\ UNCHANGED <<kind, drawer>>

----------------------------------------------------------------------------
(* Actions.                                                                *)

FilterInit ==
  /\ kind \in Kinds
  /\ own = Filters[kind]
  /\ sort = [field |-> own.field, order |-> own.order,
             boundField |-> own.field, boundOrder |-> own.order]
  /\ drawer = [visible |-> FALSE, open |-> FALSE, due |-> "none"]
  /\ filter = LET f == IF own.field # None THEN own
                       ELSE IF kind = "templates"
                            THEN [own EXCEPT !.field = "updatedAt", !.order = "desc"]
                            ELSE [own EXCEPT !.field = "addedAt"]
              IN AtPage(1, onFilterChange(f))
  /\ asked = toParams(filter)

onSelectField(v) ==
  /\ sort.field # v
  /\ Change(onSortFieldChange(own, v), [sort EXCEPT !.field = v])

onSelectOrder(v) ==
  /\ sort.order # v
  /\ Change(onSortOrderChange(own, v), [sort EXCEPT !.order = v])

\* The cross is shown beside a field; it tells of both, one after the other.
onClear ==
  /\ sort.field # None
  /\ Change(onSortOrderChange(onSortFieldChange(own, None), None),
            [sort EXCEPT !.field = None, !.order = None])

\* SearchInputComponent.handleInput and handleClear.
onSearchChange(text) ==
  /\ text # own.query
  /\ Change([own EXCEPT !.query = text], sort)

onPick(name, value) ==
  /\ value # own.pick[name]
  /\ Change([own EXCEPT !.pick[name] = value], sort)

onPageChange(page) ==
  /\ page # filter.page
  /\ Load([filter EXCEPT !.page = page])
  /\ UNCHANGED <<kind, own, sort, drawer>>

\* The panel of a small screen: it slides in with the next frame, and is taken
\* away 300 ms after it began to slide out, opened again meanwhile or not.
openDrawer ==
  /\ ~(drawer.open /\ drawer.visible) /\ drawer.due \notin {"open", "both"}
  /\ drawer' = [drawer EXCEPT !.visible = TRUE, !.due = IF @ = "hide" THEN "both" ELSE "open"]
closeDrawer ==
  /\ drawer.open
  /\ drawer' = [drawer EXCEPT !.open = FALSE, !.due = "hide"]
Frame ==
  /\ drawer.due \in {"open", "both"}
  /\ drawer' = [drawer EXCEPT !.open = TRUE, !.due = IF @ = "both" THEN "hide" ELSE "none"]
Hide ==
  /\ drawer.due = "hide"
  /\ drawer' = [drawer EXCEPT !.visible = FALSE, !.due = "none"]

FilterNext ==
  \/ \E v \in Sorts[kind] : onSelectField(v)
  \/ \E v \in Orders : onSelectOrder(v)
  \/ onClear
  \/ \E text \in Texts : onSearchChange(text)
  \/ \E name \in DOMAIN own.pick : \E value \in Picks \cup {None} : onPick(name, value)
  \/ \E page \in 1..LastPage : onPageChange(page)
  \/ (openDrawer \/ closeDrawer \/ Frame \/ Hide) /\ UNCHANGED <<kind, own, sort, filter, asked>>

----------------------------------------------------------------------------
(* Properties.                                                             *)

\* The list asked for is the one that the filter shows: its text, its selects,
\* and its sorting where the control shows a field and an order (the filter
\* components, the stores' updateFilter and the services' parameters).  The
\* bindings write late and the control writes for itself.
AskedAsShown ==
  /\ Trim(Or(asked.query, "")) = Trim(own.query)
  /\ asked.pick = own.pick
  /\ sort.field # None /\ sort.order \in Orders =>
       asked.sort = <<IF kind = "histories" THEN toOrderBy(sort.field) ELSE sort.field, sort.order>>
=============================================================================
