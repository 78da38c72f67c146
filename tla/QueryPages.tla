---------------------------- MODULE QueryPages ----------------------------
(***************************************************************************)
(* The administration pages built on a query cache: the tenant page (usage *)
(* history, endpoints, limits and name) and the feedback page (accuracy,   *)
(* satisfaction, answers per user); and the chat histories, whose store    *)
(* has no cache.                                                           *)
(*                                                                         *)
(* The cache (TanStack Query) keeps one entry per key: tab, filter, order  *)
(* and page.  It fetches the keys on display, when they are missing or     *)
(* stale; an invalidation makes every entry of a tab stale and fetches     *)
(* those on display anew.  A row has a version, which changing it raises.  *)
(***************************************************************************)
EXTENDS Integers, Sequences, SequencesExt, FiniteSets

CONSTANTS
  Stored,   \* the rows of each tab at first, by identifier
  Found,    \* the rows a filter lets through
  NewRow,   \* the endpoint that is created
  MaxSteps  \* bound on what the user does

TenantTabs == {"usage", "api"}
FeedbackTabs == {"accuracy", "satisfaction", "count"}
PageSize == 1
MaxPage == 2

VARIABLES
  tab,      \* the open tab, or "histories"
  ctl,      \* its controls, and the user the usage history was last filtered by
  cache,    \* the entries of the query cache
  fetches,  \* GETs that go on
  svc,      \* the service: the rows of each tab
  form,     \* the open dialog
  work,     \* submissions that go on
  hist,     \* the store of the chat histories
  outrun,   \* tabs whose GET was invalidated out of sight, or was overtaken
  steps     \* what the user did so far

queryVars == <<tab, ctl, cache, fetches, svc, form, work, hist, outrun, steps>>

NoForm == [kind |-> "none", id |-> 0]
FreshControls(user) == [select |-> "none", reverse |-> TRUE, page |-> 1, user |-> user]
InfoKey == [tab |-> "info", filter |-> "any", reverse |-> TRUE, page |-> 1]

----------------------------------------------------------------------------
(* The services' requests, and the service's answers.                      *)

\* "all" and no choice are the same request, hence the same key.
toFilterParam(value) == IF value = "some" THEN "some" ELSE "any"

\* The page on display counts from one, the service's pages from zero.
apiPage(page) == IF page < 1 THEN 0 ELSE page - 1

matching(rows, filter, reverse) ==
  LET kept == SelectSeq(rows, LAMBDA r : filter = "any" \/ r.id \in Found)
  IN  IF reverse THEN Reverse(kept) ELSE kept

Slice(p, rows) ==
  SubSeq(rows, p * PageSize + 1,
         IF (p + 1) * PageSize < Len(rows) THEN (p + 1) * PageSize ELSE Len(rows))

serve(stored, key) ==
  LET rows == matching(stored[key.tab], key.filter, key.reverse)
  IN  [rows |-> Slice(apiPage(key.page), rows), total |-> Len(rows)]

fetchUsage(stored, key) == serve(stored, key)
fetchAccuracyFeedback(stored, key) == serve(stored, key)
fetchRoomFeedback(stored, key) == serve(stored, key)
fetchFeedbackUsers(stored, key) == serve(stored, key)
fetchInfo(stored, key) == serve(stored, key)

\* The service answers a bare list of all the endpoints, whatever order and page
\* were asked for; it is taken for the page.
mapEndpointList(rows) == [rows |-> rows, total |-> Len(rows)]
fetchEndpoints(stored, key) == mapEndpointList(stored[key.tab])

fetched(stored, key) ==
  CASE key.tab = "usage" -> fetchUsage(stored, key)
    [] key.tab = "api" -> fetchEndpoints(stored, key)
    [] key.tab = "accuracy" -> fetchAccuracyFeedback(stored, key)
    [] key.tab = "satisfaction" -> fetchRoomFeedback(stored, key)
    [] key.tab = "count" -> fetchFeedbackUsers(stored, key)
    [] OTHER -> fetchInfo(stored, key)

----------------------------------------------------------------------------
(* The cache.                                                              *)

usageKey(c) == [tab |-> "usage", filter |-> toFilterParam(c.user),
                reverse |-> c.reverse, page |-> c.page]
apiKey(c) == [tab |-> "api", filter |-> "any", reverse |-> c.reverse, page |-> c.page]
feedbackKey(t, c, filter) == [tab |-> t, filter |-> filter, reverse |-> c.reverse,
                              page |-> c.page]
accuracyKey(c) == feedbackKey("accuracy", c, toFilterParam(c.select))

\* The stars, the unrated and "all" in the service's words; none means no filter.
toRoomFeedbackRating(value) == IF value = "some" THEN "some" ELSE "any"
satisfactionKey(c) == feedbackKey("satisfaction", c, toRoomFeedbackRating(c.select))

countKey(c) == feedbackKey("count", c, toFilterParam(c.select))

tabKey(t, c) ==
  CASE t = "accuracy" -> accuracyKey(c)
    [] t = "satisfaction" -> satisfactionKey(c)
    [] OTHER -> countKey(c)

\* The keys on display.  The endpoints wait for the tenant's identifier.
shownKeys(t, c, store) ==
  CASE t = "usage" -> {InfoKey, usageKey(c)}
    [] t = "api" -> {InfoKey} \cup (IF InfoKey \in DOMAIN store THEN {apiKey(c)} ELSE {})
    [] t \in FeedbackTabs -> {tabKey(t, c)}
    [] OTHER -> {}

Fetch(key) == [key |-> key, seen |-> svc]

\* Observers fetch what is missing or stale; mount: the tab has just opened.
observed(going, t, c, store, mount) ==
  going \cup
    {Fetch(k) : k \in {k \in shownKeys(t, c, store) :
       /\ \A g \in going : g.key # k
       /\ \/ k \notin DOMAIN store \/ store[k].stale
          \/ mount /\ t = "accuracy"}}

staled(store, t) ==
  [k \in DOMAIN store |-> [store[k] EXCEPT !.stale = @ \/ k.tab = t]]

\* invalidateQueries: a GET on display starts over, one out of sight goes on.
invalidate(t) ==
  LET shown == {k \in shownKeys(tab, ctl, cache) : k.tab = t}
  IN  /\ cache' = staled(cache, t)
      /\ fetches' = {g \in fetches : g.key \notin shown} \cup {Fetch(k) : k \in shown}
      /\ outrun' = IF \E g \in fetches : g.key.tab = t /\ g.key \notin shown
                   THEN outrun \cup {t} ELSE outrun

QueryInit ==
  /\ tab \in TenantTabs \cup FeedbackTabs \cup {"histories"}
  /\ ctl = FreshControls("none")
  /\ svc = [t \in DOMAIN Stored |-> [i \in DOMAIN Stored[t] |-> [id |-> Stored[t][i], v |-> 0]]]
  /\ cache = [k \in {} |-> 0]
  /\ fetches = observed({}, tab, ctl, cache, TRUE)
  /\ form = NoForm /\ work = {} /\ outrun = {} /\ steps = 0
  /\ hist = [rows |-> <<>>, total |-> 0, filter |-> "any", page |-> 1, loading |-> FALSE,
             gets |-> <<>>]

\* The answer is what the service held when the GET began, or holds now.
Answered ==
  \E g \in fetches : \E stored \in {svc, g.seen} :
    LET answer == fetched(stored, g.key)
        store == [k \in DOMAIN cache \cup {g.key} |->
                    IF k = g.key THEN [rows |-> answer.rows, total |-> answer.total,
                                       stale |-> FALSE]
                    ELSE cache[k]]
    IN  /\ cache' = store
        /\ fetches' = observed(fetches \ {g}, tab, ctl, store, FALSE)
        /\ UNCHANGED <<tab, ctl, svc, form, work, hist, outrun, steps>>

\* A GET that failed twice leaves the entry as it was.
NotAnswered ==
  \E g \in fetches :
    /\ fetches' = fetches \ {g}
    /\ UNCHANGED <<tab, ctl, cache, svc, form, work, hist, outrun, steps>>

\* staleTime has passed: five minutes, longer than any GET.
Age ==
  /\ fetches = {} /\ work = {}
  /\ \E k \in DOMAIN cache : ~cache[k].stale
  /\ cache' = [k \in DOMAIN cache |-> [cache[k] EXCEPT !.stale = TRUE]]
  /\ UNCHANGED <<tab, ctl, fetches, svc, form, work, hist, outrun, steps>>

----------------------------------------------------------------------------
(* The controls.                                                           *)

Step == steps < MaxSteps /\ steps' = steps + 1
NoDialog == form = NoForm

Controls(c) ==
  /\ NoDialog /\ Step
  /\ ctl' = c
  /\ fetches' = observed(fetches, tab, c, cache, FALSE)
  /\ UNCHANGED <<tab, cache, svc, form, work, hist, outrun>>

Selections == {"all", "some"}

\* The usage history's filter is kept by the service, the rest by the tab.
onUserFilterChange ==
  tab = "usage" /\ \E v \in Selections : Controls([ctl EXCEPT !.user = v, !.page = 1])
onAccuracyFilter ==
  tab = "accuracy" /\ \E v \in Selections : Controls([ctl EXCEPT !.select = v, !.page = 1])
onSatisfactionFilter ==
  tab = "satisfaction" /\ \E v \in Selections : Controls([ctl EXCEPT !.select = v, !.page = 1])
onCountFilter ==
  tab = "count" /\ \E v \in Selections : Controls([ctl EXCEPT !.select = v, !.page = 1])

usageSort == tab = "usage" /\ Controls([ctl EXCEPT !.reverse = ~@, !.page = 1])
apiSort == tab = "api" /\ Controls([ctl EXCEPT !.reverse = ~@, !.page = 1])
onSortOrderChange == tab \in FeedbackTabs /\ Controls([ctl EXCEPT !.reverse = ~@, !.page = 1])

currentKey ==
  IF tab = "usage" THEN usageKey(ctl)
  ELSE IF tab = "api" THEN apiKey(ctl) ELSE tabKey(tab, ctl)

totalPages ==
  IF currentKey \in DOMAIN cache
  THEN LET n == (cache[currentKey].total + PageSize - 1) \div PageSize
       IN  IF n < 1 THEN 1 ELSE n
  ELSE 1

turnPage(p) == p # ctl.page /\ Controls([ctl EXCEPT !.page = p])
onUsagePageChange == tab = "usage" /\ \E p \in 1..totalPages : turnPage(p)
onApiPageChange == tab = "api" /\ \E p \in 1..totalPages : turnPage(p)
onPageChange == tab \in FeedbackTabs /\ \E p \in 1..totalPages : turnPage(p)

\* The tabs of a page, or another page.
onTabChange ==
  /\ NoDialog /\ Step
  /\ \E t \in TenantTabs \cup FeedbackTabs :
       /\ t # tab
       /\ tab' = t
       /\ ctl' = FreshControls(ctl.user)
       /\ fetches' = observed(fetches, t, ctl', cache, TRUE)
  /\ UNCHANGED <<cache, svc, form, work, hist, outrun>>

----------------------------------------------------------------------------
(* The dialogs.                                                            *)

Open(kind, id) ==
  /\ NoDialog /\ work = {} /\ Step
  /\ form' = [kind |-> kind, id |-> id]
  /\ UNCHANGED <<tab, ctl, cache, fetches, svc, work, hist, outrun>>

ShownRows ==
  IF currentKey \in DOMAIN cache THEN {r.id : r \in ToSet(cache[currentKey].rows)} ELSE {}

\* Only local servers may be changed here; the model's endpoints are.
onOpenAddApiDialog == tab = "api" /\ NewRow \notin ShownRows /\ Open("create", NewRow)
onOpenEditApiDialog == tab = "api" /\ \E r \in ShownRows : Open("update", r)
onOpenDeleteApiDialog == tab = "api" /\ \E r \in ShownRows : Open("delete", r)
openFolderModal == tab = "accuracy" /\ \E r \in ShownRows : Open("learn", r)
openRoomFolderModal == tab = "satisfaction" /\ \E r \in ShownRows : Open("learn", r)
onEditClick == tab \in TenantTabs /\ Open("rename", 0)
onOpenLimitDialog == tab = "usage" /\ Open("limit", 0)

Cancel ==
  /\ form # NoForm /\ form' = NoForm
  /\ UNCHANGED <<tab, ctl, cache, fetches, svc, work, hist, outrun, steps>>

TenantKnown == InfoKey \in DOMAIN cache

\* confirmAction.  Without the tenant's identifier nothing is sent and the
\* dialog closes as if it had been.
confirm ==
  /\ form # NoForm /\ work = {}
  /\ IF form.kind = "learn" \/ TenantKnown
     THEN work' = {[form |-> form, tab |-> tab]} /\ UNCHANGED form
     ELSE form' = NoForm /\ UNCHANGED work
  /\ UNCHANGED <<tab, ctl, cache, fetches, svc, hist, outrun, steps>>

raised(rows, id) == [i \in DOMAIN rows |-> IF rows[i].id = id THEN [rows[i] EXCEPT !.v = @ + 1]
                                           ELSE rows[i]]
Ids(rows) == {r.id : r \in ToSet(rows)}

createEndpoint(s, id) ==
  IF id \in Ids(s["api"]) THEN s ELSE [s EXCEPT !["api"] = Append(@, [id |-> id, v |-> 0])]
updateEndpoint(s, id) == [s EXCEPT !["api"] = raised(@, id)]
deleteEndpoint(s, id) == [s EXCEPT !["api"] = SelectSeq(@, LAMBDA r : r.id # id)]
learnFromMessage(s, id) == [s EXCEPT !["accuracy"] = raised(@, id)]
learnFromRoom(s, id) == [s EXCEPT !["satisfaction"] = raised(@, id)]
updateTenant(s) == [s EXCEPT !["info"] = raised(@, 0)]
updateUsageLimit(s) == [s EXCEPT !["info"] = raised(@, 0)]

changed(w) ==
  CASE w.form.kind = "create" -> createEndpoint(svc, w.form.id)
    [] w.form.kind = "update" -> updateEndpoint(svc, w.form.id)
    [] w.form.kind = "delete" -> deleteEndpoint(svc, w.form.id)
    [] w.form.kind = "learn" /\ w.tab = "accuracy" -> learnFromMessage(svc, w.form.id)
    [] w.form.kind = "learn" /\ w.tab # "accuracy" -> learnFromRoom(svc, w.form.id)
    [] w.form.kind = "rename" -> updateTenant(svc)
    [] OTHER -> updateUsageLimit(svc)

invalidateNothing == "none"

invalidateEndpoints == "api"
invalidateFeedback(t) == t
invalidateInfo == "info"

keyAfter(w) ==
  CASE w.form.kind \in {"create", "update", "delete"} -> invalidateEndpoints
    [] w.form.kind = "learn" -> invalidateFeedback(w.tab)
    [] OTHER -> invalidateInfo

\* The service has made the change; its answer is on the way.
Change ==
  \E w \in {w \in work : "done" \notin DOMAIN w} :
    /\ svc' = changed(w)
    /\ work' = {[form |-> w.form, tab |-> w.tab, done |-> TRUE]}
    /\ UNCHANGED <<tab, ctl, cache, fetches, form, hist, outrun, steps>>

Changed ==
  \E w \in {w \in work : "done" \in DOMAIN w} :
    /\ invalidate(keyAfter(w))
    /\ work' = {}
    /\ form' = IF form = w.form THEN NoForm ELSE form
    /\ UNCHANGED <<tab, ctl, svc, hist, steps>>

\* The dialog stays open.
Refused ==
  \E w \in {w \in work : "done" \notin DOMAIN w} :
    /\ work' = {}
    /\ UNCHANGED <<tab, ctl, cache, fetches, svc, form, hist, outrun, steps>>

----------------------------------------------------------------------------
(* The chat histories.                                                     *)

HistKey(h) == [tab |-> "histories", filter |-> h.filter, reverse |-> TRUE, page |-> h.page]

load(h) == [h EXCEPT !.loading = TRUE, !.gets = Append(@, HistKey(h))]

Histories(h) ==
  /\ tab = "histories" /\ Step
  /\ hist' = h
  /\ outrun' = IF hist.gets # <<>> THEN outrun \cup {"histories"} ELSE outrun
  /\ UNCHANGED <<tab, ctl, cache, fetches, svc, form, work>>

\* The store outlives the page and its filter bar.
loadItems == Histories(load(hist))
updateFilter ==
  \E v \in Selections : Histories(load([hist EXCEPT !.filter = toFilterParam(v), !.page = 1]))
historyPages == LET n == (hist.total + PageSize - 1) \div PageSize IN IF n < 1 THEN 1 ELSE n
updatePageIndex ==
  \E p \in 1..MaxPage :
    p <= historyPages /\ Histories(load([hist EXCEPT !.page = p]))

HistoriesAnswered ==
  /\ \E i \in DOMAIN hist.gets :
       LET answer == serve(svc, hist.gets[i])
       IN  hist' = [hist EXCEPT !.rows = answer.rows, !.total = answer.total,
                                !.loading = FALSE, !.gets = RemoveAt(@, i)]
  /\ UNCHANGED <<tab, ctl, cache, fetches, svc, form, work, outrun, steps>>

HistoriesFailed ==
  /\ \E i \in DOMAIN hist.gets :
       hist' = [hist EXCEPT !.rows = <<>>, !.total = 0, !.loading = FALSE,
                            !.gets = RemoveAt(@, i)]
  /\ outrun' = outrun \cup {"histories"}
  /\ UNCHANGED <<tab, ctl, cache, fetches, svc, form, work, steps>>

UserSteps ==
  \/ onUserFilterChange \/ onAccuracyFilter \/ onSatisfactionFilter \/ onCountFilter
  \/ usageSort \/ apiSort \/ onSortOrderChange
  \/ onUsagePageChange \/ onApiPageChange \/ onPageChange \/ onTabChange
  \/ onOpenAddApiDialog \/ onOpenEditApiDialog \/ onOpenDeleteApiDialog \/ openFolderModal
  \/ openRoomFolderModal \/ onEditClick \/ onOpenLimitDialog \/ confirm \/ Cancel
  \/ loadItems \/ updateFilter \/ updatePageIndex

ServiceSteps ==
  \/ Answered \/ NotAnswered \/ Age \/ Change \/ Changed \/ Refused
  \/ HistoriesAnswered \/ HistoriesFailed

QueryNext == UserSteps \/ ServiceSteps

QuerySpec == QueryInit /\ [][QueryNext]_queryVars

----------------------------------------------------------------------------

\* While no submission goes on, every entry that counts as fresh - those of pages
\* not on display too - is what the service would answer: each change invalidates
\* all entries it touches, and a GET it overtakes starts over.  Not so after a GET
\* out of sight was overtaken, which the cache lets finish.  And the histories
\* show the page asked for once their only GET has been answered (TenantApiService,
\* the feedback tabs, ChatHistoryStore).
FreshIsStored ==
  /\ work = {} =>
       \A k \in DOMAIN cache :
         k.tab \in outrun \/ cache[k].stale \/ cache[k].rows = fetched(svc, k).rows
  /\ "histories" \in outrun \/ hist.gets # <<>> \/ hist.total = 0
       \/ hist.rows = serve(svc, HistKey(hist)).rows
=============================================================================
