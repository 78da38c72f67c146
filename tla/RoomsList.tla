----------------------------- MODULE RoomsList -----------------------------
(***************************************************************************)
(* The list of rooms of the web client: RoomsService, the sidebar's room   *)
(* menu and the three dialogs over rooms (pins, deletion, search).         *)
(*                                                                         *)
(* A request is a member of calls: "sent" until the server has served it,  *)
(* then "served" with its answer.  The list the server pages through is    *)
(* db, latest update first, with the pinned rooms before the others.       *)
(* A dialog is modal: while one is open the sidebar cannot be used; what   *)
(* arrives for a closed dialog changes nothing.  No caller of saveRoomOrder *)
(* or searchRooms exists, so lastSavedRoomOrder stays null and             *)
(* searchResults empty; they are left out.                                 *)
(***************************************************************************)
EXTENDS Integers, FiniteSets, SequencesExt, FiniteSetsExt

CONSTANTS
  AtFirst,   \* rooms 1..AtFirst exist at first
  PinnedAt,  \* those pinned at first
  Size,      \* rows of a page
  MaxOps     \* bound on what the user does

MaxRoom == AtFirst + 1
Ids == 1..MaxRoom
Names == {"old", "new"}
Row == [id : Ids, name : Names, pinned : BOOLEAN, marks : SUBSET {"shared", "rated"}]

VARIABLES
  db,      \* the server's rooms, latest update first
  own,     \* RoomsService; cut: its first page failed, a room was deleted, or
           \* one was created while a page was on its way
  here,    \* the room the chat window shows (0: none)
  calls,   \* requests and answers on their way
  menu,    \* the room menu: its room (0: closed) and isPinned when it opened
  dialog,  \* "none", "sort", "pick" (deletion) or "find"
  sort, pick, find,  \* the dialogs' components
  ops      \* what the user did so far

roomVars == <<db, own, here, calls, menu, dialog, sort, pick, find, ops>>

Kinds == {"page", "create", "rename", "pin", "unpin", "delete", "deletes",
          "mark", "unmark", "bulk", "sortPinned", "sortPage", "pickPage", "findPage"}

Call == [kind : Kinds, n : Nat, arg : SUBSET Row, at : {"sent", "served"},
         ok : BOOLEAN, rows : Seq(Row), total : Nat]

IdsOf(rows) == {rows[i].id : i \in DOMAIN rows}
Has(rows, id) == id \in IdsOf(rows)
RowOf(rows, id) == rows[CHOOSE i \in DOMAIN rows : rows[i].id = id]
Drop(rows, ids) == SelectSeq(rows, LAMBDA r : r.id \notin ids)
Pinned(rows) == SelectSeq(rows, LAMBDA r : r.pinned)
Unpinned(rows) == SelectSeq(rows, LAMBDA r : ~r.pinned)
PageOf(rows, n) == SubSeq(rows, n * Size + 1, Min({(n + 1) * Size, Len(rows)}))

Request(kind, n, arg) ==
  [kind |-> kind, n |-> n, arg |-> arg, at |-> "sent", ok |-> FALSE,
   rows |-> <<>>, total |-> 0]

RoomTypeOK ==
  /\ db \in Seq(Row) /\ here \in 0..MaxRoom /\ ops \in 0..MaxOps
  /\ own \in [all : Seq(Row), hasMore : BOOLEAN, loading : BOOLEAN, page : Nat,
              busy : SUBSET Kinds, cut : BOOLEAN]
  /\ calls \subseteq Call
  /\ menu \in [room : 0..MaxRoom, pinned : BOOLEAN]
  /\ dialog \in {"none", "sort", "pick", "find"}
  /\ sort \in [pinned : Seq(Row), unpinned : Seq(Row), pending : SUBSET Row,
               initial : SUBSET Row, page : Nat, total : Nat,
               loading : BOOLEAN, calm : BOOLEAN]  \* calm: no pin on its way
  /\ pick \in [rows : Seq(Row), chosen : SUBSET Ids, page : Nat, total : Nat,
               loading : BOOLEAN]
  /\ find \in [rows : Seq(Row), query : Names \cup {""}, page : Nat, total : Nat,
               loading : BOOLEAN]

NoSort == [pinned |-> <<>>, unpinned |-> <<>>, pending |-> {}, initial |-> {},
           page |-> 1, total |-> 0, loading |-> FALSE, calm |-> TRUE]
NoPick == [rows |-> <<>>, chosen |-> {}, page |-> 1, total |-> 0, loading |-> FALSE]
NoFind == [rows |-> <<>>, query |-> "", page |-> 1, total |-> 0, loading |-> FALSE]

\* The sidebar's constructor asks for the first page.
RoomInit ==
  /\ db = [i \in 1..AtFirst |->
             [id |-> AtFirst + 1 - i, name |-> "old",
              pinned |-> AtFirst + 1 - i \in PinnedAt, marks |-> {}]]
  /\ own = [all |-> <<>>, hasMore |-> TRUE, loading |-> TRUE, page |-> 0, busy |-> {},
            cut |-> FALSE]
  /\ here \in 0..1
  /\ calls = {Request("page", 0, {})}
  /\ menu = [room |-> 0, pinned |-> FALSE]
  /\ dialog = "none" /\ sort = NoSort /\ pick = NoPick /\ find = NoFind
  /\ ops = 0

----------------------------------------------------------------------------
(* RoomsService, after an answer.                                          *)

\* applyPinPositionUpdate; a room unpinned by hand goes where its time puts
\* it: rooms of a larger id are newer.
applyPinPositionUpdate(rows, new) ==
  LET rest == Drop(rows, {new.id})
      newer == SelectSeq(Unpinned(rest), LAMBDA r : r.id > new.id)
      older == SelectSeq(Unpinned(rest), LAMBDA r : r.id < new.id)
  IN  Pinned(rest) \o (IF new.pinned THEN <<new>> \o Unpinned(rest)
                       ELSE newer \o <<new>> \o older)

togglePinnedPartly(rows, seen, id, pinned) ==
  applyPinPositionUpdate(rows, [id |-> id, pinned |-> pinned])

\* togglePinRoom keeps the row it read before its request.
togglePinned(rows, seen, id, pinned) ==
  LET row == IF seen = {} THEN [id |-> id, name |-> "old", pinned |-> FALSE, marks |-> {}]
             ELSE CHOOSE r \in seen : TRUE
  IN  applyPinPositionUpdate(rows, [row EXCEPT !.pinned = pinned])

updateRoom(rows, id, Change(_)) ==
  [i \in DOMAIN rows |-> IF rows[i].id = id THEN Change(rows[i]) ELSE rows[i]]

mergeRoomsById(rows, next) == rows \o Drop(next, IdsOf(rows))

hasMoreRooms(loaded, total) == Len(loaded) < total

\* loadRoomsPage after its answer; a page beyond the first is appended.
roomsPageLoaded(s, c) ==
  LET append == c.n > 0
      next == IF append THEN mergeRoomsById(s.all, c.rows) ELSE c.rows
      kept == [s EXCEPT !.loading = FALSE]
  IN  IF c.ok THEN [kept EXCEPT !.page = c.n, !.all = next,
                                !.hasMore = hasMoreRooms(next, c.total)]
      ELSE IF append THEN kept
      ELSE [kept EXCEPT !.all = <<>>, !.hasMore = FALSE, !.cut = TRUE]

\* mapCreateRoomResponse.
CreatedRoom == [id |-> MaxRoom, name |-> "old", pinned |-> FALSE, marks |-> {}]

\* createNewRoom.
roomCreated(s, new) ==
  [s EXCEPT !.all = <<new>> \o Drop(@, {new.id}), !.hasMore = TRUE,
            !.cut = @ \/ s.loading]

roomRenamed(s, id) ==
  [s EXCEPT !.all = updateRoom(@, id, LAMBDA r : [r EXCEPT !.name = "new"])]

\* shareRoom and submitRoomFeedback; unshareRoom.
roomMarked(s, id) ==
  [s EXCEPT !.all = updateRoom(@, id, LAMBDA r : [r EXCEPT !.marks = {"shared", "rated"}])]

roomUnmarked(s, id) ==
  [s EXCEPT !.all = updateRoom(@, id, LAMBDA r : [r EXCEPT !.marks = @ \ {"shared"}])]

\* deleteRoom and deleteRooms.
roomsDeleted(s, ids) == [s EXCEPT !.all = Drop(@, ids)]

\* bulkUpdateRoomPins: what the server returns, one after the other.
pinsSaved(s, rows) ==
  [s EXCEPT !.all = FoldLeft(applyPinPositionUpdate, @, rows)]

----------------------------------------------------------------------------
(* What the user does in the sidebar.                                      *)

Act == ops < MaxOps /\ ops' = ops + 1
Sidebar == Act /\ dialog = "none"
Dialog(kind) == Act /\ dialog = kind
Send(kind, n, arg) == calls' = calls \cup {Request(kind, n, arg)}
Busy(kind) == own' = [own EXCEPT !.busy = @ \cup {kind}]

\* onSidebarScroll near the end, loadNextRoomsPage.
Scroll ==
  /\ Sidebar
  /\ ~own.loading /\ own.hasMore
  /\ own' = [own EXCEPT !.loading = TRUE]
  /\ Send("page", own.page + 1, {})
  /\ UNCHANGED <<db, here, menu, dialog, sort, pick, find>>

\* confirmNewChat.
NewRoom ==
  /\ Sidebar
  /\ "create" \notin own.busy
  /\ Busy("create") /\ Send("create", 0, {})
  /\ UNCHANGED <<db, here, menu, dialog, sort, pick, find>>

openRoomMenu(id) ==
  /\ Sidebar
  /\ Has(own.all, id)
  /\ menu' = [room |-> id, pinned |-> RowOf(own.all, id).pinned]
  /\ UNCHANGED <<db, own, here, calls, dialog, sort, pick, find>>

onRenameRoom ==
  /\ Sidebar
  /\ menu.room # 0
  /\ Busy("rename") /\ Send("rename", menu.room, {})
  /\ menu' = [menu EXCEPT !.room = 0]
  /\ UNCHANGED <<db, here, dialog, sort, pick, find>>

\* The menu says which way; the row is read before the request is answered.
onTogglePinRoom ==
  /\ Sidebar
  /\ menu.room # 0
  /\ Send(IF menu.pinned THEN "unpin" ELSE "pin", menu.room,
          {r \in ToSet(own.all) : r.id = menu.room})
  /\ menu' = [menu EXCEPT !.room = 0]
  /\ UNCHANGED <<db, own, here, dialog, sort, pick, find>>

openConfirmDeleteDialog ==
  /\ Sidebar
  /\ menu.room # 0
  /\ own' = [own EXCEPT !.busy = @ \cup {"delete"}, !.cut = TRUE]
  /\ Send("delete", menu.room, {})
  /\ menu' = [menu EXCEPT !.room = 0]
  /\ UNCHANGED <<db, here, dialog, sort, pick, find>>

\* shareRoom and submitRoomFeedback, or unshareRoom, for the room shown.
Mark ==
  /\ Sidebar
  /\ here # 0
  /\ \E kind \in {"mark", "unmark"} : Busy(kind) /\ Send(kind, here, {})
  /\ UNCHANGED <<db, here, menu, dialog, sort, pick, find>>

----------------------------------------------------------------------------
(* ChatSortDialogComponent.                                                *)

openSortDialog ==
  /\ Sidebar
  /\ dialog' = "sort"
  /\ sort' = [NoSort EXCEPT !.loading = TRUE,
                            !.calm = \A c \in calls : c.kind \notin {"pin", "unpin"}]
  /\ calls' = calls \cup {Request("sortPinned", 0, {}), Request("sortPage", 1, {})}
  /\ UNCHANGED <<db, own, here, menu, pick, find>>

\* onPageChange; n is the page asked for.
sortPageAsked(n) ==
  /\ Dialog("sort")
  /\ n # sort.page /\ (n - 1) * Size < sort.total
  /\ sort' = [sort EXCEPT !.loading = TRUE]
  /\ Send("sortPage", n, {})
  /\ UNCHANGED <<db, own, here, menu, dialog, pick, find>>

upsertRoom(rows, row) ==
  IF Has(rows, row.id) THEN updateRoom(rows, row.id, LAMBDA r : row)
  ELSE Append(rows, row)

pendingAlways(s, new) ==
  LET others == {r \in s.pending : r.id # new.id}
  IN  others \cup {new}

\* pendingPinUpdates and pendingRooms: no entry for a room back where it was.
pendingAfter(s, new) ==
  LET others == {r \in s.pending : r.id # new.id}
  IN  IF \E r \in s.initial : r.id = new.id /\ r.pinned = new.pinned
      THEN others ELSE others \cup {new}

togglePin(s, row) ==
  LET new == [row EXCEPT !.pinned = ~@]
      moved == [s EXCEPT !.pending = pendingAfter(s, new)]
  IN  IF new.pinned
      THEN [moved EXCEPT !.unpinned = Drop(@, {row.id}), !.pinned = upsertRoom(@, new)]
      ELSE [moved EXCEPT !.pinned = Drop(@, {row.id}), !.unpinned = upsertRoom(@, new)]

SortToggle ==
  /\ Dialog("sort")
  /\ \E row \in ToSet(sort.pinned) \cup ToSet(sort.unpinned) : sort' = togglePin(sort, row)
  /\ UNCHANGED <<db, own, here, calls, menu, dialog, pick, find>>

rememberInitialPinStates(s, rows) ==
  [s EXCEPT !.initial = @ \cup {r \in ToSet(rows) : \A old \in @ : old.id # r.id}]

applyPendingPinStates(s, rows, pinned) ==
  LET moved(r) == IF \E p \in s.pending : p.id = r.id
                  THEN [r EXCEPT !.pinned = (CHOOSE p \in s.pending : p.id = r.id).pinned]
                  ELSE r
      shown == SelectSeq([i \in DOMAIN rows |-> moved(rows[i])],
                         LAMBDA r : r.pinned = pinned)
      added == {p \in s.pending : p.pinned = pinned /\ ~Has(rows, p.id)}
  IN  shown \o SetToSortSeq(added, LAMBDA a, b : a.id < b.id)

\* loadPinnedRooms and the loadRoomsPage around both: one failure empties all.
sortPinnedLoaded(s, c) ==
  IF c.ok
  THEN LET seen == rememberInitialPinStates(s, c.rows)
       IN  [seen EXCEPT !.pinned = applyPendingPinStates(seen, c.rows, TRUE)]
  ELSE [s EXCEPT !.pinned = <<>>, !.unpinned = <<>>, !.total = 0]

\* loadUnpinnedRoomsPage.
sortPageLoaded(s, c) ==
  IF c.ok
  THEN LET seen == rememberInitialPinStates(s, c.rows)
       IN  [seen EXCEPT !.page = c.n, !.total = c.total,
                        !.unpinned = applyPendingPinStates(seen, c.rows, FALSE)]
  ELSE [s EXCEPT !.unpinned = <<>>, !.total = 0]

\* save: the dialog stays open until the answer; cancel forgets everything.
SortSave ==
  /\ Dialog("sort")
  /\ "bulk" \notin own.busy
  /\ Busy("bulk") /\ Send("bulk", 0, sort.pending)
  /\ sort' = [sort EXCEPT !.calm = FALSE]
  /\ UNCHANGED <<db, here, menu, dialog, pick, find>>

DialogCalls == {"sortPinned", "sortPage", "pickPage", "findPage"}
Closed(cs) == {c \in cs : c.kind \notin DialogCalls}

CloseDialog ==
  /\ Act
  /\ dialog # "none" /\ "bulk" \notin own.busy /\ \A c \in calls : c.kind # "deletes"
  /\ dialog' = "none" /\ sort' = NoSort /\ pick' = NoPick /\ find' = NoFind
  /\ calls' = Closed(calls)
  /\ UNCHANGED <<db, own, here, menu>>

----------------------------------------------------------------------------
(* ChatDeleteDialogComponent and ChatSearchModalComponent.                 *)

\* loadRoomsPage of the deletion dialog, at once and on every change of page.
pickAsked(n) ==
  /\ \/ Sidebar /\ n = 1
     \/ Dialog("pick") /\ n # pick.page /\ (n - 1) * Size < pick.total
  /\ dialog' = "pick"
  /\ pick' = [pick EXCEPT !.loading = TRUE, !.chosen = {}]
  /\ Send("pickPage", n, {})
  /\ UNCHANGED <<db, own, here, menu, sort, find>>

\* onSelectionChange with the rows on screen.
PickRows ==
  /\ Dialog("pick")
  /\ \E ids \in SUBSET IdsOf(pick.rows) : ids # pick.chosen /\ pick' = [pick EXCEPT !.chosen = ids]
  /\ UNCHANGED <<db, own, here, calls, menu, dialog, sort, find>>

\* onDelete, once confirmed.
PickDelete ==
  /\ Dialog("pick")
  /\ pick.chosen # {} /\ \A c \in calls : c.kind # "deletes"
  /\ own' = [own EXCEPT !.cut = TRUE]
  /\ Send("deletes", 0, {r \in ToSet(pick.rows) : r.id \in pick.chosen})
  /\ UNCHANGED <<db, here, menu, dialog, sort, pick, find>>

pickLoaded(s, c) ==
  IF c.ok THEN [s EXCEPT !.page = c.n, !.rows = c.rows, !.total = c.total]
  ELSE [s EXCEPT !.rows = <<>>, !.total = 0]

OpenFind ==
  /\ Sidebar
  /\ dialog' = "find"
  /\ UNCHANGED <<db, own, here, calls, menu, sort, pick, find>>

\* The debounced query: a search from page 1, or an empty screen.
Query(q) ==
  /\ Dialog("find")
  /\ q # find.query
  /\ IF q = ""
     THEN find' = [NoFind EXCEPT !.loading = find.loading] /\ UNCHANGED calls
     ELSE /\ find' = [find EXCEPT !.query = q, !.loading = TRUE]
          /\ Send("findPage", 1, {[id |-> 1, name |-> q, pinned |-> FALSE, marks |-> {}]})
  /\ UNCHANGED <<db, own, here, menu, dialog, sort, pick>>

findAsked(n) ==
  /\ Dialog("find")
  /\ find.query # "" /\ n # find.page /\ (n - 1) * Size < find.total
  /\ find' = [find EXCEPT !.loading = TRUE]
  /\ Send("findPage", n, {[id |-> 1, name |-> find.query, pinned |-> FALSE, marks |-> {}]})
  /\ UNCHANGED <<db, own, here, menu, dialog, sort, pick>>

openRoom ==
  /\ Dialog("find")
  /\ \E id \in IdsOf(find.rows) : here' = id
  /\ dialog' = "none" /\ find' = NoFind /\ calls' = Closed(calls)
  /\ UNCHANGED <<db, own, menu, sort, pick>>

findLoaded(s, c) ==
  IF c.ok THEN [s EXCEPT !.page = c.n, !.rows = c.rows, !.total = c.total, !.loading = FALSE]
  ELSE [s EXCEPT !.rows = <<>>, !.total = 0, !.loading = FALSE]

----------------------------------------------------------------------------
(* The server and the answers.                                             *)

Listed == Pinned(db) \o Unpinned(db)

\* The rows of the list a page request filters and pages.
Asked(c) ==
  CASE c.kind = "sortPinned" -> Pinned(db)
    [] c.kind = "sortPage" -> Unpinned(db)
    [] c.kind = "findPage" ->
         SelectSeq(Listed, LAMBDA r : \E a \in c.arg : a.name = r.name)
    [] OTHER -> Listed

PageRows(c) ==
  CASE c.kind = "sortPinned" -> Asked(c)
    [] c.kind = "page" -> PageOf(Asked(c), c.n)
    [] OTHER -> PageOf(Asked(c), c.n - 1)

Paged == {"page"} \cup DialogCalls
Pins(rows) == FoldLeft(LAMBDA acc, r : updateRoom(acc, r.id, LAMBDA x : [x EXCEPT !.pinned = r.pinned]),
                       db, rows)

\* The server's list after c; a renamed or rated room was updated last.
After(c) ==
  LET touch(Change(_)) == <<Change(RowOf(db, c.n))>> \o Drop(db, {c.n})
  IN  CASE c.kind \in Paged -> db
        [] c.kind = "create" -> <<CreatedRoom>> \o db
        [] c.kind = "rename" -> touch(LAMBDA r : [r EXCEPT !.name = "new"])
        [] c.kind = "mark" -> touch(LAMBDA r : [r EXCEPT !.marks = {"shared", "rated"}])
        [] c.kind = "unmark" -> updateRoom(db, c.n, LAMBDA r : [r EXCEPT !.marks = @ \ {"shared"}])
        [] c.kind \in {"pin", "unpin"} ->
             updateRoom(db, c.n, LAMBDA r : [r EXCEPT !.pinned = c.kind = "pin"])
        [] c.kind = "delete" -> Drop(db, {c.n})
        [] c.kind = "deletes" -> Drop(db, {r.id : r \in c.arg})
        [] OTHER -> Pins(SetToSeq(c.arg))

\* A room that is gone is refused; there is one more room to create.
Served(c) ==
  /\ c.kind \in {"rename", "mark", "unmark", "pin", "unpin", "delete"} => Has(db, c.n)
  /\ c.kind = "create" => ~Has(db, MaxRoom)
  /\ c.kind = "bulk" => \A r \in c.arg : Has(db, r.id)

Serve(c) ==
  /\ c.at = "sent"
  /\ \/ /\ Served(c)
        /\ db' = After(c)
        /\ calls' = (calls \ {c}) \cup
             {[c EXCEPT !.at = "served", !.ok = TRUE,
                        !.rows = IF c.kind \in Paged THEN PageRows(c)
                                 ELSE IF c.kind = "bulk"
                                 THEN SelectSeq(After(c), LAMBDA r : \E a \in c.arg : a.id = r.id)
                                 ELSE SelectSeq(After(c), LAMBDA r : r.id = c.n),
                        !.total = IF c.kind \in Paged THEN Len(Asked(c)) ELSE 0]}
     \/ /\ calls' = (calls \ {c}) \cup {[c EXCEPT !.at = "served"]}
        /\ UNCHANGED db
  /\ UNCHANGED <<own, here, menu, dialog, sort, pick, find, ops>>

\* RoomsService when c is answered.
OwnAfter(c) ==
  LET idle == [own EXCEPT !.busy = @ \ {c.kind}]
  IN  IF c.kind # "page" /\ ~c.ok THEN idle
      ELSE
      CASE c.kind = "page" -> roomsPageLoaded(own, c)
        [] c.kind = "create" -> roomCreated(idle, CreatedRoom)
        [] c.kind = "rename" -> roomRenamed(idle, c.n)
        [] c.kind \in {"pin", "unpin"} ->
             [idle EXCEPT !.all = togglePinned(@, c.arg, c.n, c.kind = "pin")]
        [] c.kind = "delete" -> roomsDeleted(idle, {c.n})
        [] c.kind = "deletes" -> roomsDeleted(idle, {r.id : r \in c.arg})
        [] c.kind = "mark" -> roomMarked(idle, c.n)
        [] c.kind = "unmark" -> roomUnmarked(idle, c.n)
        [] c.kind = "bulk" -> pinsSaved(idle, c.rows)
        [] OTHER -> idle

\* handleDeletedRooms, and createNewRoom's navigation.
HereAfter(c) ==
  IF ~c.ok THEN here
  ELSE CASE c.kind = "create" -> MaxRoom
         [] c.kind = "delete" /\ here = c.n -> 0
         [] c.kind = "deletes" /\ \E r \in c.arg : r.id = here -> 0
         [] OTHER -> here

\* The first failure of the sort dialog's two requests empties it; its spinner
\* ends with it, or with the second answer.
SortAfter(c) ==
  LET others == {d \in calls \ {c} : d.kind \in {"sortPinned", "sortPage"}}
      ends == [sort EXCEPT !.loading = c.ok /\ others # {} /\ @]
  IN  IF c.kind = "sortPinned" THEN sortPinnedLoaded(ends, c) ELSE sortPageLoaded(ends, c)

Arrive(c) ==
  /\ c.at = "served"
  /\ own' = OwnAfter(c)
  /\ here' = HereAfter(c)
  /\ LET closes == c.ok /\ c.kind \in {"bulk", "deletes"}
     IN  /\ dialog' = IF closes THEN "none" ELSE dialog
         /\ calls' = IF closes THEN Closed(calls \ {c}) ELSE calls \ {c}
         /\ sort' = IF closes THEN NoSort
                    ELSE IF c.kind \in {"sortPinned", "sortPage"} THEN SortAfter(c) ELSE sort
         /\ pick' = IF closes THEN NoPick
                    ELSE IF c.kind = "pickPage"
                    THEN [pickLoaded(pick, c) EXCEPT !.loading = FALSE] ELSE pick
         /\ find' = IF c.kind = "findPage" THEN findLoaded(find, c) ELSE find
  /\ UNCHANGED <<db, menu, ops>>

RoomNext ==
  \/ Scroll \/ NewRoom
  \/ \E id \in Ids : openRoomMenu(id)
  \/ onRenameRoom \/ onTogglePinRoom \/ openConfirmDeleteDialog \/ Mark
  \/ openSortDialog \/ SortToggle \/ SortSave \/ CloseDialog
  \/ \E n \in Ids : sortPageAsked(n) \/ pickAsked(n) \/ findAsked(n)
  \/ PickRows \/ PickDelete
  \/ OpenFind \/ openRoom
  \/ \E q \in Names \cup {""} : Query(q)
  \/ \E c \in calls : Serve(c) \/ Arrive(c)

RoomSpec == RoomInit /\ [][RoomNext]_roomVars

----------------------------------------------------------------------------
(* Properties.                                                             *)

\* What the sort dialog would save is exactly the difference between the
\* pins it shows and those it first read, and no room is in both of its
\* lists: through pages, failures and toggles while a page is on its way.
\* (Unless a pin was on its way when the dialog opened, or its own save is.)
PendingExact ==
  dialog = "sort" /\ sort.calm =>
    /\ IdsOf(sort.pinned) \cap IdsOf(sort.unpinned) = {}
    /\ \A row \in ToSet(sort.pinned) \cup ToSet(sort.unpinned) :
         \A first \in sort.initial : first.id = row.id =>
           (first.pinned # row.pinned <=>
              \E p \in sort.pending : p.id = row.id /\ p.pinned = row.pinned)
    /\ \A p \in sort.pending : \E first \in sort.initial :
         first.id = p.id /\ first.pinned # p.pinned

\* When the sidebar says there is nothing more to load, every room the server
\* has was loaded, whatever was pinned or renamed between two pages: unless
\* the list failed to load, or rooms were deleted, or created during a page.
\* (hasMoreRooms counts what is loaded against the server's total.)
EndOfList ==
  ~own.hasMore /\ ~own.cut => IdsOf(db) \ {MaxRoom} \subseteq IdsOf(own.all)

\* No room is twice in the sidebar, however pages, pins and creations overlap.
RoomOnce ==
  /\ Cardinality(IdsOf(own.all)) = Len(own.all)
  /\ Cardinality(IdsOf(sort.pinned)) = Len(sort.pinned)
  /\ Cardinality(IdsOf(sort.unpinned)) = Len(sort.unpinned)
=============================================================================
