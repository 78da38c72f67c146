----------------------------- MODULE ChatPages -----------------------------
(***************************************************************************)
(* The pages a chat is opened on, the room ChatService holds for all of    *)
(* them, the message input with its assistant, mention list and switches,  *)
(* and the dialogs of the chat window.                                     *)
(*                                                                         *)
(* A page shows the room of its route; what it sends goes to the room of   *)
(* ChatService.  Creating a room and resolving a shared link are awaited,  *)
(* so their continuations may run when another page is open.  A text is a  *)
(* leading mention's query, if there is one, and the rest.                 *)
(***************************************************************************)
EXTENDS Integers, Sequences, SequencesExt, FiniteSets

CONSTANTS
  Assistants,  \* the assistants in the order of their list
  MainOne,     \* the tenant's default assistant
  Default,     \* the rooms of the user's list, and the assistant of each
  SharedRoom,  \* a room the user only reaches by a link
  Hits,        \* the assistants a mention's query matches
  MaxEvents    \* bound on what the user does

RoomUnset == "no room"

ASSUME ChatPageAssumption ==
  /\ Assistants \in Seq(ToSet(Assistants))
  /\ RoomUnset \notin DOMAIN Default \cup {SharedRoom}

NoOne == "no one"
NewRooms == {"new1", "new2"}
Features == {"web", "template", "library"}
FileKinds == {"image", "text", "program"}

VARIABLES
  page,    \* the page that is open; inst changes with its component
  chat,    \* ChatService: active room, shared room context
  known,   \* the rooms of the list and the assistant of each
  listed,  \* whether the assistants have been fetched
  box,     \* the message input
  dialog,  \* a dialog of the window or an edit, and the room it was opened for
  calls,   \* room creations and link resolutions that go on
  move,    \* the navigation to a new room, with its first message
  crossed, \* an answer for a page that was left has changed the active room, or
           \* the context it left behind is still there
  latest,  \* the latest operation on a room, and the room that was shown
  events   \* what the user did so far

chatPageVars == <<page, chat, known, listed, box, dialog, calls, move, crossed, latest, events>>

Empty == [at |-> FALSE, query |-> "", rest |-> ""]
Texts == {Empty, [Empty EXCEPT !.rest = "hello"]} \cup
         {[at |-> TRUE, query |-> q, rest |-> r] : q \in DOMAIN Hits, r \in {"", "hello"}}

NewBox == [text |-> Empty, files |-> <<>>, on |-> {}, who |-> NoOne, key |-> "none",
           dismissed |-> FALSE, index |-> 1, composing |-> FALSE, ended |-> FALSE]
NoneOpen == [kind |-> "none", room |-> RoomUnset]
NoMove == [room |-> RoomUnset]
Nothing == [kind |-> "none", room |-> RoomUnset, shown |-> RoomUnset, crossed |-> FALSE]

ChatPageInit ==
  /\ page = [kind |-> "new", room |-> RoomUnset, visit |-> 0, inst |-> 0]
  /\ chat = [active |-> RoomUnset, context |-> RoomUnset]
  /\ known \in {Default, [r \in {} |-> MainOne]}
  /\ listed \in BOOLEAN
  /\ box = NewBox /\ dialog = NoneOpen /\ calls = {} /\ move = NoMove
  /\ crossed = FALSE /\ latest = Nothing /\ events = 0

----------------------------------------------------------------------------
(* Derived state.                                                          *)

\* The context stands in for any room that is not in the list.
activeRoomOf(c, rooms) ==
  IF c.active = RoomUnset THEN RoomUnset
  ELSE IF c.active \in DOMAIN rooms THEN c.active ELSE c.context

activeRoom == activeRoomOf(chat, known)

\* The assistants that match, in the order of their list.
matches(text) == {i \in DOMAIN Assistants : listed /\ Assistants[i] \in Hits[text.query]}

filterAssistants(text) ==
  LET at(k) == CHOOSE i \in matches(text) : Cardinality({j \in matches(text) : j <= i}) = k
  IN  [k \in 1..Cardinality(matches(text)) |-> Assistants[at(k)]]

isMentionOpen(b) == b.text.at /\ ~b.dismissed
filteredMentionAssistants == IF isMentionOpen(box) THEN filterAssistants(box.text) ELSE <<>>

canSend == ~box.text.at /\ (box.text.rest # "" \/ box.files # <<>>)

resolveInitialAssistant(preferred) ==
  IF preferred \in ToSet(Assistants) THEN preferred ELSE MainOne

\* The effect of the input, which runs whenever the list, the room, the room's
\* assistant or the selection has changed.
syncAssistant(b, p, c, rooms, fetched) ==
  LET shown == activeRoomOf(c, rooms)
      key == IF p.room # RoomUnset THEN p.room ELSE shown
      preferred == IF key # RoomUnset /\ shown \in DOMAIN rooms THEN rooms[shown] ELSE NoOne
  IN  IF ~fetched \/ (b.key = key /\ b.who # NoOne) THEN b
      ELSE [b EXCEPT !.who = resolveInitialAssistant(preferred), !.key = key]

isAllowedChatAttachment(kind) == kind \in {"image", "text"}

----------------------------------------------------------------------------
(* The input.                                                              *)

Event == events < MaxEvents /\ events' = events + 1

CanType == page.kind \in {"new", "assistant", "room"} /\ dialog = NoneOpen

Input(b) ==
  /\ CanType /\ Event
  /\ box' = syncAssistant(b, page, chat, known, listed)
  /\ UNCHANGED <<page, chat, known, listed, dialog, calls, move, crossed, latest>>

syncMentionState(b) ==
  IF ~b.text.at THEN [b EXCEPT !.dismissed = FALSE, !.index = 1]
  ELSE LET n == Len(filterAssistants(b.text))
       IN  [b EXCEPT !.dismissed = FALSE,
                     !.index = IF @ <= n THEN @ ELSE IF n = 0 THEN 1 ELSE n]

\* ngModel holds the text back while it is being composed.
onInput ==
  \E t \in Texts \ {box.text} :
    ~box.composing /\ Input(syncMentionState([box EXCEPT !.text = t]))

onCompositionStart == Input([box EXCEPT !.composing = TRUE, !.ended = FALSE])

onCompositionEnd ==
  /\ box.composing
  /\ \E t \in Texts :
       Input(syncMentionState([box EXCEPT !.text = t, !.composing = FALSE, !.ended = TRUE]))

\* The timer of onCompositionEnd.
CompositionOver ==
  /\ box.ended
  /\ box' = [box EXCEPT !.ended = FALSE]
  /\ UNCHANGED <<page, chat, known, listed, dialog, calls, move, crossed, latest, events>>

onAssistantSelect == \E a \in ToSet(Assistants) : listed /\ Input([box EXCEPT !.who = a])

confirmMentionSelection(i) ==
  Input([box EXCEPT !.text = [Empty EXCEPT !.rest = box.text.rest],
                    !.who = filteredMentionAssistants[i],
                    !.dismissed = FALSE, !.index = 1])

onMentionSelect == \E i \in DOMAIN filteredMentionAssistants : confirmMentionSelection(i)

onMentionHover == \E i \in DOMAIN filteredMentionAssistants : Input([box EXCEPT !.index = i])

arrowKey ==
  /\ filteredMentionAssistants # <<>>
  /\ \/ box.index < Len(filteredMentionAssistants) /\ Input([box EXCEPT !.index = @ + 1])
     \/ box.index > 1 /\ Input([box EXCEPT !.index = @ - 1])

dismissMention == isMentionOpen(box) /\ Input([box EXCEPT !.dismissed = TRUE])

addAttachedFiles ==
  /\ box.files = <<>>
  /\ \E k \in FileKinds :
       Input([box EXCEPT !.files = @ \o SelectSeq(<<k>>, isAllowedChatAttachment)])

removeFile == box.files # <<>> /\ Input([box EXCEPT !.files = Tail(@)])

\* Web search and library are switched by the menu, a template is chosen;
\* all are cleared by the menu or by the widget.
switchFeature ==
  \E f \in Features :
    \/ f \notin box.on /\ Input([box EXCEPT !.on = @ \cup {f}])
    \/ f \in box.on /\ Input([box EXCEPT !.on = @ \ {f}])

----------------------------------------------------------------------------
(* Sending.                                                                *)

Did(kind, room, shown) ==
  latest' = [kind |-> kind, room |-> room, shown |-> shown, crossed |-> crossed]

Cleared(b) == [b EXCEPT !.text = Empty, !.files = <<>>, !.on = @ \ {"library"}]

\* handleSend of the input and of the window.  Without a room of its own the
\* page asks for one, which is to have the assistant of the input.
handleSend ==
  /\ CanType /\ canSend /\ Event
  /\ box' = Cleared(box)
  /\ IF page.room # RoomUnset
     THEN Did("send", chat.active, page.room) /\ UNCHANGED calls
     ELSE /\ UNCHANGED latest
          /\ \E r \in NewRooms :
               /\ r \notin DOMAIN known /\ \A c \in calls : c.room # r
               /\ calls' = calls \cup {[kind |-> "create", room |-> r, who |-> box.who,
                                        visit |-> page.visit, inst |-> page.inst]}
  /\ UNCHANGED <<page, chat, known, listed, dialog, move, crossed>>

\* Enter, after a mention was chosen or where none is open.
enterKey ==
  IF isMentionOpen(box)
  THEN ~box.composing /\ filteredMentionAssistants # <<>> /\ confirmMentionSelection(box.index)
  ELSE IF box.ended THEN Input([box EXCEPT !.ended = FALSE])
  ELSE ~box.composing /\ handleSend

----------------------------------------------------------------------------
(* The pages.                                                              *)

\* The router destroys the component it leaves, then shows the new one.
onLeave(p, c) ==
  CASE p.kind = "shared" -> [c EXCEPT !.context = RoomUnset]
    [] p.kind = "detail" -> [active |-> RoomUnset, context |-> RoomUnset]
    [] OTHER -> c

openPageLate(kind, room, c) ==
  CASE kind = "new" -> [c EXCEPT !.active = RoomUnset]
    [] kind = "detail" -> [active |-> room, context |-> room]
    [] OTHER -> c

openPage(kind, room, c) ==
  CASE kind = "new" -> [c EXCEPT !.active = RoomUnset]
    [] kind \in {"room", "history"} -> [c EXCEPT !.active = room]
    [] kind = "detail" -> [active |-> room, context |-> room]
    [] OTHER -> c

Show(kind, room, c) ==
  LET same == kind = page.kind
      p == [kind |-> kind, room |-> room, visit |-> page.visit + 1,
            inst |-> IF same THEN page.inst ELSE page.inst + 1]
      b == IF same THEN box ELSE NewBox
  IN  /\ page' = p
      /\ chat' = c
      /\ box' = syncAssistant(b, p, c, known, listed)
      /\ crossed' = (crossed /\ kind # "detail" /\ c.context # RoomUnset)

\* The routes.  Only a link has no room of its own at first.
Destinations ==
  {<<"new", RoomUnset>>, <<"assistant", RoomUnset>>} \cup
  ({"room", "history"} \X (DOMAIN Default \cup DOMAIN known)) \cup
  {<<"detail", SharedRoom>>}

Go ==
  /\ dialog = NoneOpen /\ Event
  /\ \E d \in Destinations :
       LET left == IF d[1] = page.kind THEN chat ELSE onLeave(page, chat)
       IN  d # <<page.kind, page.room>> /\ Show(d[1], d[2], openPage(d[1], d[2], left))
  /\ move' = NoMove
  /\ UNCHANGED <<known, listed, dialog, calls, latest>>

\* loadSharedRoom.
OpenLink ==
  /\ dialog = NoneOpen /\ page.kind # "shared" /\ Event
  /\ \E r \in {SharedRoom} \cup DOMAIN Default :
       /\ Show("shared", RoomUnset, onLeave(page, chat))
       /\ calls' = calls \cup {[kind |-> "access", room |-> r, who |-> NoOne,
                                visit |-> page.visit + 1, inst |-> page.inst + 1]}
  /\ move' = NoMove
  /\ UNCHANGED <<known, listed, dialog, latest>>

Applied(call) ==
  /\ calls' = calls \ {call}
  /\ crossed' = (crossed \/ call.visit # page.visit)
  /\ UNCHANGED <<listed, dialog, latest, events>>

openSharedRoom(c, r) ==
  [active |-> r, context |-> IF r \in DOMAIN known THEN RoomUnset ELSE r]

AccessAnswered ==
  \E call \in {c \in calls : c.kind = "access"} :
    /\ chat' = openSharedRoom(chat, call.room)
    /\ page' = IF call.inst = page.inst THEN [page EXCEPT !.room = call.room] ELSE page
    /\ box' = syncAssistant(box, page', chat', known, listed)
    /\ Applied(call) /\ UNCHANGED <<known, move>>

AccessDenied ==
  \E call \in {c \in calls : c.kind = "access"} :
    /\ chat' = [chat EXCEPT !.context = RoomUnset]
    /\ Applied(call) /\ UNCHANGED <<page, known, box, move>>

\* createNewRoom, and the navigation that carries the message.
RoomAnswered ==
  \E call \in {c \in calls : c.kind = "create"} :
    /\ known' = [r \in DOMAIN known \cup {call.room} |->
                   IF r = call.room THEN call.who ELSE known[r]]
    /\ chat' = [chat EXCEPT !.active = call.room]
    /\ move' = [room |-> call.room]
    /\ box' = syncAssistant(box, page, chat', known', listed)
    /\ Applied(call) /\ UNCHANGED page

RoomRefused ==
  \E call \in {c \in calls : c.kind = "create"} :
    Applied(call) /\ UNCHANGED <<page, chat, known, box, move>>

\* The room's page takes the message out of the navigation and sends it.
MessageArrives ==
  /\ move # NoMove
  /\ LET left == IF page.kind = "room" THEN chat ELSE onLeave(page, chat)
         c == openPage("room", move.room, left)
     IN  Show("room", move.room, c) /\ Did("send", c.active, move.room)
  /\ move' = NoMove /\ dialog' = NoneOpen
  /\ UNCHANGED <<known, listed, calls, events>>

RoomsArrive ==
  /\ \E r \in DOMAIN Default : r \notin DOMAIN known
  /\ known' = [r \in DOMAIN Default \cup DOMAIN known |->
                 IF r \in DOMAIN known THEN known[r] ELSE Default[r]]
  /\ box' = syncAssistant(box, page, chat, known', listed)
  /\ UNCHANGED <<page, chat, listed, dialog, calls, move, crossed, latest, events>>

AssistantsArrive ==
  /\ ~listed /\ listed' = TRUE
  /\ box' = syncAssistant(box, page, chat, known, TRUE)
  /\ UNCHANGED <<page, chat, known, dialog, calls, move, crossed, latest, events>>

----------------------------------------------------------------------------
(* The dialogs of the window, and the edit of a message.                   *)

Opens(kind, room) ==
  /\ dialog = NoneOpen /\ Event
  /\ dialog' = [kind |-> kind, room |-> room]
  /\ UNCHANGED <<page, chat, known, listed, box, calls, move, crossed, latest>>

Submits(kind, room) ==
  /\ dialog.kind = kind /\ Event
  /\ Did(kind, room, dialog.room)
  /\ dialog' = NoneOpen
  /\ UNCHANGED <<page, chat, known, listed, box, calls, move, crossed>>

ShowsRoom == page.room # RoomUnset /\ activeRoom # RoomUnset

\* An edit asks for the assistant's name, a question for its assistant.
openEdit == ShowsRoom /\ listed /\ Opens("edit", page.room)
openRenameDialog == ShowsRoom /\ Opens("rename", activeRoom)
openRatingDialog == ShowsRoom /\ Opens("rate", activeRoom)
openShareDialog == ShowsRoom /\ Opens("share", activeRoom)

submitEdit == Submits("edit", chat.active)
runSave == Submits("rename", dialog.room)
runSubmit == activeRoom # RoomUnset /\ Submits("rate", activeRoom)
handleShare == Submits("share", dialog.room)

\* The link is that of the room that is active when the user confirms.
handleUnshare == activeRoom # RoomUnset /\ Submits("share", activeRoom)

CloseDialog ==
  /\ dialog # NoneOpen /\ Event
  /\ dialog' = NoneOpen
  /\ UNCHANGED <<page, chat, known, listed, box, calls, move, crossed, latest>>

Typing ==
  \/ onInput \/ onCompositionStart \/ onCompositionEnd \/ CompositionOver
  \/ onAssistantSelect \/ onMentionSelect \/ onMentionHover \/ arrowKey \/ dismissMention
  \/ addAttachedFiles \/ removeFile \/ switchFeature \/ enterKey \/ handleSend

Answers ==
  \/ AccessAnswered \/ AccessDenied \/ RoomAnswered \/ RoomRefused
  \/ MessageArrives \/ RoomsArrive \/ AssistantsArrive

Dialogs ==
  \/ openEdit \/ openRenameDialog \/ openRatingDialog \/ openShareDialog
  \/ submitEdit \/ runSave \/ runSubmit \/ handleShare \/ handleUnshare \/ CloseDialog

ChatPageNext == Typing \/ Go \/ OpenLink \/ Answers \/ Dialogs

ChatPageSpec == ChatPageInit /\ [][ChatPageNext]_chatPageVars

----------------------------------------------------------------------------

\* Whatever is sent, edited, rated, renamed or shared goes to the room the user
\* was looking at, although ChatService keeps one active room for all pages and
\* two services set it after an await - unless an answer for a page that had been
\* left came in since, or left its context behind (ChatService.openSharedRoom,
\* createNewRoom).
ToRoomShown == latest.crossed \/ latest.shown \in {RoomUnset, latest.room}

\* The highlighted line of the mention list exists whenever the list has lines,
\* so that Enter never selects an assistant that is not there: typing shortens
\* the list under the highlight, and the assistants may arrive while it is open
\* (ChatInputComponent.syncMentionState).
MentionFits ==
  filteredMentionAssistants # <<>> => box.index \in DOMAIN filteredMentionAssistants

\* What is sent goes to the room that is shown, and to an assistant that the list
\* of mentions shows (ChatService, the chat pages, ChatInput).
SentWhereShown == ToRoomShown /\ MentionFits
=============================================================================
