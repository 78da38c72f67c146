---------------------------- MODULE ViewerPanel ----------------------------
(***************************************************************************)
(* The library viewer beside a chat: ViewerService of the web client, the  *)
(* streams of MessageService that write a library into it, and the         *)
(* collapsing of ChatSummaryComponent.                                     *)
(*                                                                         *)
(* The browser runs one handler at a time; another may run at every await. *)
(* A GET is therefore a member of view.lists or view.gets from the call to *)
(* its answer, and carries what the handler captured before the await.     *)
(* The panel is one record, so that a handler that calls another is the    *)
(* composition of two operators.  A library's title stands for the         *)
(* library: a stream writes the library of its own name.                   *)
(***************************************************************************)
EXTENDS Integers, Sequences

CONSTANTS
  Rooms,
  Libraries,  \* libraries the rooms hold at first
  Streams,    \* answers that create a library
  Shelf,      \* the libraries of each room at first, oldest first
  NoRoom, NoLibrary,
  MaxOps      \* bound on what the user does

Library == Libraries \cup Streams

ASSUME ViewerAssumption ==
  /\ MaxOps \in Nat
  /\ Shelf \in [Rooms -> Seq(Libraries)]
  /\ NoRoom \notin Rooms /\ NoLibrary \notin Library

VARIABLES
  shelf,    \* the server: the libraries of each room
  view,     \* ViewerService
  stream,   \* each answer: where it is, its room, the token it holds (0: none)
  fold,     \* ChatSummaryComponent: isCollapsed, autoCollapsed; byHand: the
            \* user collapsed it last
  ops       \* what the user did so far

vars == <<shelf, view, stream, fold, ops>>

Contents == [kind : {"blank", "library", "stream"}, of : Library \cup {NoLibrary}]
Blank == [kind |-> "blank", of |-> NoLibrary]
Text(kind, l) == [kind |-> kind, of |-> l]

\* What follows the list in the caller of loadList.
Then == [kind : {"auto", "end", "pick"}, library : Library \cup {NoLibrary}]

ListGet == [room : Rooms, token : Nat, then : Then]
ContentGet == [library : Library, token : Nat]

View == [content : Contents, loading : BOOLEAN, contentError : BOOLEAN,
         viewers : Seq(Library), active : Library \cup {NoLibrary},
         listLoading : BOOLEAN, listError : BOOLEAN,
         loadedRoom : Rooms \cup {NoRoom},
         streaming : BOOLEAN, room : Rooms \cup {NoRoom},
         token : Nat, listToken : Nat,
         lists : SUBSET ListGet, gets : SUBSET ContentGet]

Answer == [at : {"idle", "sent", "over"}, room : Rooms \cup {NoRoom}, token : Nat]

TypeOK ==
  /\ shelf \in [Rooms -> Seq(Library)]
  /\ view \in View
  /\ stream \in [Streams -> Answer]
  /\ fold \in [collapsed : BOOLEAN, auto : BOOLEAN, byHand : BOOLEAN]
  /\ ops \in 0..MaxOps

Init ==
  /\ shelf = Shelf
  /\ view = [content |-> Blank, loading |-> FALSE, contentError |-> FALSE,
             viewers |-> <<>>, active |-> NoLibrary,
             listLoading |-> FALSE, listError |-> FALSE, loadedRoom |-> NoRoom,
             streaming |-> FALSE, room |-> NoRoom, token |-> 0, listToken |-> 0,
             lists |-> {}, gets |-> {}]
  /\ stream = [s \in Streams |-> [at |-> "idle", room |-> NoRoom, token |-> 0]]
  /\ fold = [collapsed |-> FALSE, auto |-> FALSE, byHand |-> FALSE]
  /\ ops = 0

Act == ops < MaxOps /\ ops' = ops + 1

Listed(v, l) == \E i \in 1..Len(v.viewers) : v.viewers[i] = l

----------------------------------------------------------------------------
(* ViewerService.                                                          *)

beginLibraryStream(v, r) ==
  [v EXCEPT !.token = @ + 1, !.room = r, !.streaming = TRUE, !.content = Blank]

\* Deltas of the title and of the content; both are refused by an old token.
appendDelta(v, t, s) ==
  IF t # v.token THEN v ELSE [v EXCEPT !.content = Text("stream", s)]

detachLibraryStream(v) ==
  [v EXCEPT !.token = @ + 1, !.streaming = FALSE, !.room = NoRoom]

loadContent(v, l) ==
  IF l = NoLibrary
  THEN [v EXCEPT !.content = Blank]
  ELSE [v EXCEPT !.gets = @ \cup {[library |-> l, token |-> v.token]},
                 !.loading = TRUE, !.contentError = FALSE]

activate(v, l) == loadContent([v EXCEPT !.active = l], l)

selectLibrary(v, l) ==
  IF v.streaming THEN activate(detachLibraryStream(v), l)
  ELSE IF v.active = l THEN v
  ELSE activate([v EXCEPT !.token = @ + 1], l)

showLibrary(v, l) ==
  activate([detachLibraryStream(v) EXCEPT !.viewers = <<l>>], l)

loadList(v, r, then) ==
  LET own == IF v.streaming /\ v.room # r THEN detachLibraryStream(v) ELSE v
  IN  [own EXCEPT !.listToken = @ + 1, !.listLoading = TRUE, !.listError = FALSE,
                  !.contentError = FALSE,
                  !.lists = @ \cup {[room |-> r, token |-> v.listToken + 1,
                                     then |-> then]}]

abortLibraryStream(v, t) ==
  IF t # v.token THEN v ELSE loadContent(detachLibraryStream(v), v.active)

endLibraryStream(v, t, s, r) ==
  IF t # v.token THEN v
  ELSE loadList([v EXCEPT !.streaming = FALSE, !.room = NoRoom], r,
                [kind |-> "end", library |-> s])

\* loadList after its answer: the rooms' own selection, then the newest.
autoSelect(v) ==
  IF v.streaming \/ Listed(v, v.active) THEN v
  ELSE IF v.viewers = <<>>
       THEN [v EXCEPT !.active = NoLibrary, !.token = @ + 1, !.content = Blank]
       ELSE activate([v EXCEPT !.token = @ + 1], v.viewers[Len(v.viewers)])

\* The caller's code after await loadList: endLibraryStream selects what it
\* streamed; ChatViewerComponent.ngOnInit selects or shows the library asked for.
matchTitle(v, s) == IF Listed(v, s) THEN [v EXCEPT !.active = s] ELSE v

pickLibrary(v, l) == IF Listed(v, l) THEN selectLibrary(v, l) ELSE showLibrary(v, l)

listAnswered(v, q, list, ok) ==
  LET done == [v EXCEPT !.lists = @ \ {q}]
      fresh == q.token = v.listToken
      shown == IF fresh
               THEN [done EXCEPT !.viewers = list, !.listError = @ \/ ~ok,
                                 !.listLoading = FALSE, !.loadedRoom = q.room]
               ELSE done
  IN  CASE q.then.kind = "auto" -> IF fresh THEN autoSelect(shown) ELSE shown
        [] q.then.kind = "end" -> matchTitle(shown, q.then.library)
        [] OTHER -> pickLibrary(shown, q.then.library)

contentAnsweredLate(v, g, ok) ==
  LET done == [v EXCEPT !.gets = @ \ {g}]
  IN  [done EXCEPT !.content = IF ok THEN Text("library", g.library) ELSE Blank,
                        !.contentError = @ \/ ~ok, !.loading = FALSE]

contentAnswered(v, g, ok) ==
  LET done == [v EXCEPT !.gets = @ \ {g}]
  IN  IF g.token # v.token THEN done
      ELSE [done EXCEPT !.content = IF ok THEN Text("library", g.library) ELSE Blank,
                        !.contentError = @ \/ ~ok, !.loading = FALSE]

----------------------------------------------------------------------------
(* What the user does.                                                     *)

\* The effects of ChatWindowComponent and of ChatDataPanelComponent.
OpenRoom(r) ==
  /\ Act
  /\ view' = loadList(view, r, [kind |-> "auto", library |-> NoLibrary])
  /\ UNCHANGED <<shelf, stream, fold>>

\* ChatViewerComponent opened with ?libraryId=.
OpenViewer(r, l) ==
  /\ Act
  /\ view' = loadList(view, r, [kind |-> "pick", library |-> l])
  /\ UNCHANGED <<shelf, stream, fold>>

\* LibraryDetailComponent.
OpenLibrary(l) ==
  /\ Act
  /\ view' = showLibrary(view, l)
  /\ UNCHANGED <<shelf, stream, fold>>

\* ChatSummaryComponent.selectDocument.
Select(l) ==
  /\ Act
  /\ Listed(view, l)
  /\ view' = selectLibrary(view, l)
  /\ UNCHANGED <<shelf, stream, fold>>

\* sendMessage, editMessage or resendMessage with createLibrary, in a room.
Send(s, r) ==
  /\ Act
  /\ stream[s].at = "idle"
  /\ stream' = [stream EXCEPT ![s].at = "sent", ![s].room = r]
  /\ UNCHANGED <<shelf, view, fold>>

\* ChatSummaryComponent.toggleCollapse.
Toggle ==
  /\ Act
  /\ fold' = [collapsed |-> ~fold.collapsed, auto |-> FALSE, byHand |-> ~fold.collapsed]
  /\ UNCHANGED <<shelf, view, stream>>

----------------------------------------------------------------------------
(* What the network and the effects do.                                    *)

\* A delta of the answer: the first one begins the library's stream.
Delta(s) ==
  /\ stream[s].at = "sent"
  /\ LET begun == IF stream[s].token = 0 THEN beginLibraryStream(view, stream[s].room)
                  ELSE view
         t == IF stream[s].token = 0 THEN begun.token ELSE stream[s].token
     IN  /\ view' = appendDelta(begun, t, s)
         /\ stream' = [stream EXCEPT ![s].token = t]
  /\ UNCHANGED <<shelf, fold, ops>>

\* The answer ends; the server keeps the library, or has none to keep.
StreamEnds(s) ==
  /\ stream[s].at = "sent"
  /\ \E kept \in {stream[s].token # 0, FALSE} :
       shelf' = IF kept THEN [shelf EXCEPT ![stream[s].room] = Append(@, s)] ELSE shelf
  /\ view' = IF stream[s].token = 0 THEN view
             ELSE endLibraryStream(view, stream[s].token, s, stream[s].room)
  /\ stream' = [stream EXCEPT ![s].at = "over"]
  /\ UNCHANGED <<fold, ops>>

StreamFails(s) ==
  /\ stream[s].at = "sent"
  /\ view' = IF stream[s].token = 0 THEN view
             ELSE abortLibraryStream(view, stream[s].token)
  /\ stream' = [stream EXCEPT ![s].at = "over"]
  /\ UNCHANGED <<shelf, fold, ops>>

ListAnswer(q) ==
  /\ \/ view' = listAnswered(view, q, shelf[q.room], TRUE)
     \/ view' = listAnswered(view, q, <<>>, FALSE)
  /\ UNCHANGED <<shelf, stream, fold, ops>>

ContentAnswer(g) ==
  /\ \E ok \in BOOLEAN : view' = contentAnswered(view, g, ok)
  /\ UNCHANGED <<shelf, stream, fold, ops>>

\* ChatSummaryComponent for the room r whose list was loaded.
StreamingHere(r) == view.streaming /\ view.room = r

ViewerEmpty(r) ==
  ~view.listLoading /\ ~view.listError /\ view.viewers = <<>> /\ ~StreamingHere(r)

ShouldCollapse(r) == view.loadedRoom = r /\ ViewerEmpty(r)

ExpandForStream(r) ==
  /\ StreamingHere(r) /\ fold.collapsed
  /\ fold' = [fold EXCEPT !.collapsed = FALSE, !.byHand = FALSE]
  /\ UNCHANGED <<shelf, view, stream, ops>>

CollapseEmpty(r) ==
  /\ ShouldCollapse(r) /\ ~fold.collapsed
  /\ fold' = [fold EXCEPT !.collapsed = TRUE, !.auto = TRUE]
  /\ UNCHANGED <<shelf, view, stream, ops>>

ExpandFilled(r) ==
  /\ ~ShouldCollapse(r) /\ fold.auto /\ fold.collapsed /\ ~ViewerEmpty(r)
  /\ fold' = [fold EXCEPT !.collapsed = FALSE, !.auto = FALSE]
  /\ UNCHANGED <<shelf, view, stream, ops>>

Arrive ==
  \/ \E q \in view.lists : ListAnswer(q)
  \/ \E g \in view.gets : ContentAnswer(g)

Effects == \E r \in Rooms : ExpandForStream(r) \/ CollapseEmpty(r) \/ ExpandFilled(r)

Next ==
  \/ \E r \in Rooms : OpenRoom(r)
  \/ \E r \in Rooms, l \in Libraries : OpenViewer(r, l)
  \/ \E l \in Libraries : OpenLibrary(l)
  \/ \E l \in Library : Select(l)
  \/ \E s \in Streams, r \in Rooms : Send(s, r)
  \/ Toggle
  \/ \E s \in Streams : Delta(s) \/ StreamEnds(s) \/ StreamFails(s)
  \/ Arrive
  \/ Effects

Spec == Init /\ [][Next]_vars

----------------------------------------------------------------------------
(* Properties.                                                             *)

\* While an answer streams its library, the panel shows nothing or the text
\* of that stream: a library fetched or selected before, or the delta of a
\* stream that lost the panel, never replaces it (ViewerService's tokens).
StreamOwns ==
  view.streaming =>
    \/ view.content = Blank
    \/ \E s \in Streams : stream[s].token = view.token /\ view.content = Text("stream", s)
=============================================================================
