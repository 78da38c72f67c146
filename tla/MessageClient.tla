--------------------------- MODULE MessageClient ---------------------------
(***************************************************************************)
(* The chat page of the web client: MessageService, the room ChatService   *)
(* holds open, the page that opens it, and the server as the client sees   *)
(* it.                                                                     *)
(*                                                                         *)
(* A handler runs to its next await.  What follows the await is a member   *)
(* of awaiting, which carries what the handler captured before it; answers *)
(* come in any order, or as errors.  An operation's number names what it   *)
(* creates: <<"q", n>> and <<"a", n>> the question and the answer before   *)
(* the server has named them, <<"m", n>> and <<"c", n>> after.             *)
(***************************************************************************)
EXTENDS MessageThread

CONSTANTS
  ChatRooms, NoChatRoom,
  FirstRoom, Before,  \* a room and how many versions of a question it may hold
                      \* at first, each answered
  MaxDid              \* bound on what the user does

ASSUME ThreadAssumption ==
  /\ Before \subseteq Nat /\ MaxDid \in Nat
  /\ FirstRoom \in ChatRooms /\ NoChatRoom \notin ChatRooms

VARIABLES
  msg,      \* MessageService
  place,   \* room: ChatService._activeRoomId; shown: the page's roomId;
            \* pending: hasPendingMessage, the first question on its way (0: none)
  awaiting, \* handlers at an await
  server,   \* the server's records of each room, and the answers it has
  overlaid, \* an answer was applied over what another handler had changed, or a
            \* question the server has not named, or one it has no more, is a parent,
            \* and no room was loaded, or new chat begun, with nothing else on its
            \* way since
  did       \* what the user did so far

threadVars == <<msg, place, awaiting, server, overlaid, did>>

MaxBefore == CHOOSE n \in Before : \A k \in Before : k <= n

IdKinds == {"q", "a", "m", "c", "e"}
Numbers == 1..(MaxDid + MaxBefore)
Id == IdKinds \X Numbers
Parent == Id \cup {Null}

Status == {"PENDING", "STREAMING", "COMPLETE", "ERROR"}

Message == [id : Id, mid : Parent, role : {"user", "assistant"},
            status : Status, parent : Parent, rated : BOOLEAN]

Record == [id : Id, room : ChatRooms, parent : Parent, rated : BOOLEAN]

ThreadTypeOK ==
  /\ msg.messages \in Seq(Message) /\ msg.records \in Seq(Record)
  /\ DOMAIN msg.active \subseteq Parent
  /\ \A g \in DOMAIN msg.active : msg.active[g] \in Numbers
  /\ {msg.loading, msg.generating, msg.loadError, overlaid} \subseteq BOOLEAN
  /\ {place.room, place.shown} \subseteq ChatRooms \cup {NoChatRoom}
  /\ place.pending \in 0..MaxDid /\ did \in 0..MaxDid

NoIndex == [g \in {} |-> 1]

ClearedThread == [messages |-> <<>>, records |-> <<>>, active |-> NoIndex,
            loading |-> FALSE, generating |-> FALSE, loadError |-> FALSE]

Question(n, parent) ==
  [id |-> <<"q", n>>, mid |-> <<"q", n>>, role |-> "user", status |-> "COMPLETE",
   parent |-> parent, rated |-> FALSE]

PendingAnswer(n) ==
  [id |-> <<"a", n>>, mid |-> Null, role |-> "assistant", status |-> "PENDING",
   parent |-> <<"q", n>>, rated |-> FALSE]

\* A question the server has no content of gives no message; contents that
\* could not be fetched give an error for each record.
mapMessageContentsToMessages(records, content, ok) ==
  LET question(r) == [Question(r.id[2], Null) EXCEPT !.id = r.id, !.mid = r.id]
      answer(r, id, status) == [PendingAnswer(r.id[2]) EXCEPT
        !.id = id, !.mid = r.id, !.status = status, !.parent = Null]
      known == {i \in 1..Len(records) : records[i].id \in DOMAIN content}
      turn(p) == records[Nth(known, (p + 1) \div 2)]
  IN  IF ~ok
      THEN [i \in 1..Len(records) |->
              answer(records[i], <<"e", records[i].id[2]>>, "ERROR")]
      ELSE [p \in 1..(2 * Cardinality(known)) |->
              IF p % 2 = 1 THEN question(turn(p))
              ELSE answer(turn(p), <<"c", turn(p).id[2]>>, content[turn(p).id])]

Loaded(m, records, content, ok) ==
  [m EXCEPT !.messages = applyMessageMetadataToMessages(
                           mapMessageContentsToMessages(records, content, ok), records),
            !.records = records,
            !.active = initializeActiveVersionIndex(records),
            !.loading = FALSE]

\* A new chat, or a room that was loaded.
ThreadInit ==
  \E n \in Before :
    LET versions == [i \in 1..n |-> [id |-> <<"m", MaxDid + i>>, room |-> FirstRoom,
                                    parent |-> Null, rated |-> FALSE]]
        content == [id \in Ids(versions) |-> "COMPLETE"]
        room == IF n = 0 THEN NoChatRoom ELSE FirstRoom
    IN  /\ msg = Loaded(ClearedThread, versions, content, TRUE)
        /\ place = [room |-> room, shown |-> room, pending |-> 0]
        /\ awaiting = {}
        /\ server = [answer |-> content,
                     records |-> [r \in ChatRooms |->
                                    IF r = FirstRoom THEN versions ELSE <<>>]]
        /\ overlaid = FALSE /\ did = 0

Do == did < MaxDid /\ did' = did + 1

ShownOf(m) == buildVisibleThread(m.records, m.messages, m.active)

Visible == ShownOf(msg)

----------------------------------------------------------------------------
(* Handlers at an await.  A call is alone while nothing else has changed   *)
(* the thread since it began.                                              *)

Disturb(set) == {[c EXCEPT !.alone = FALSE] : c \in set}

Begin(set, call) ==
  Disturb(set) \cup
    {[field \in DOMAIN call \cup {"alone"} |->
        IF field = "alone" THEN set = {} ELSE call[field]]}

Map(messages, Test(_), new(_)) ==
  [i \in 1..Len(messages) |->
     IF Test(messages[i]) THEN new(messages[i]) ELSE messages[i]]

patchAssistantMessage(messages, id, new(_)) == Map(messages, LAMBDA m : m.id = id, new)

Asked(m, n, parent) ==
  [m EXCEPT !.messages = @ \o <<Question(n, parent), PendingAnswer(n)>>,
            !.generating = TRUE]

\* What was overlaid is gone with a thread that is loaded, or begun, while alone.
\* For good are only questions the server took under one of another room or of
\* none it keeps.
Rooted ==
  \A r \in ChatRooms : \A i \in 1..Len(server.records[r]) :
    server.records[r][i].parent \in Ids(server.records[r]) \cup {Null}

StaysOverlaid(alone) == ~alone \/ (overlaid /\ ~Rooted)

Snapshot(m) == [messages |-> m.messages, records |-> m.records, active |-> m.active]

Restore(m, snap) ==
  [m EXCEPT !.messages = snap.messages, !.records = snap.records, !.active = snap.active]

NoSnapshot == [messages |-> <<>>, records |-> <<>>, active |-> NoIndex]

Create(n, room, parent, first, edit, snap) ==
  [kind |-> "create", n |-> n, room |-> room, parent |-> parent, first |-> first,
   edit |-> edit, snap |-> snap]

\* track: trackedMessageId; local: the identifier a failure is reported under.
Stream(n, room, mid, local, first, edit, snap) ==
  [kind |-> "stream", n |-> n, room |-> room, mid |-> mid, track |-> local,
   local |-> local, got |-> FALSE, first |-> first, edit |-> edit, snap |-> snap]

loadMessagesForRoom(m, set, room, init, n) ==
  [msg |-> [m EXCEPT !.loading = @ \/ init, !.active = NoIndex, !.loadError = FALSE],
   calls |-> Begin(set, [kind |-> "list", n |-> n, room |-> room])]

\* ChatService.sendMessage in the room open; a first question's parent may be
\* one the server has not named.
sendMessage(n, room, first) ==
  LET parent == getLastActiveRecordId(msg.records, msg.messages, msg.active)
  IN  /\ msg' = Asked(msg, n, parent)
      /\ awaiting' = Begin(awaiting, Create(n, room, parent, first, FALSE, NoSnapshot))
      /\ overlaid' = (overlaid \/ parent[1] = "q")

----------------------------------------------------------------------------
(* What the user does.                                                     *)

\* ChatNewComponent without a room.
startNewChat ==
  /\ Do
  /\ place' = [room |-> NoChatRoom, shown |-> NoChatRoom, pending |-> 0]
  /\ msg' = ClearedThread
  /\ awaiting' = Disturb(awaiting)
  /\ overlaid' = StaysOverlaid(awaiting = {})
  /\ UNCHANGED server

\* The page's effect loads the room it shows unless a first message is pending.
OpenRoomPage(r) ==
  /\ Do
  /\ r # place.shown
  /\ place' = [place EXCEPT !.room = r, !.shown = r]
  /\ LET load == loadMessagesForRoom(msg, awaiting, r, TRUE, did')
     IN  IF place.pending # 0 THEN UNCHANGED <<msg, awaiting>>
         ELSE msg' = load.msg /\ awaiting' = load.calls
  /\ overlaid' = (overlaid \/ awaiting # {})
  /\ UNCHANGED server

\* ChatNewComponent with a room: the room's messages stay until the answer.
selectRoom(r) ==
  /\ Do
  /\ place' = [place EXCEPT !.room = r, !.shown = r]
  /\ LET load == loadMessagesForRoom(msg, awaiting, r, FALSE, did')
     IN  msg' = load.msg /\ awaiting' = load.calls
  /\ overlaid' = (overlaid \/ awaiting # {})
  /\ UNCHANGED server

\* handleSend of a new chat: its room is created, place and written to.
FirstSend(r) ==
  /\ Do
  /\ place.room = NoChatRoom /\ server.records[r] = <<>>
  /\ place' = [room |-> r, shown |-> r, pending |-> did']
  /\ sendMessage(did', r, TRUE)
  /\ UNCHANGED server

sendInRoom ==
  /\ Do
  /\ place.room # NoChatRoom
  /\ sendMessage(did', place.room, FALSE)
  /\ UNCHANGED <<place, server>>

editMessage(m) ==
  /\ Do
  /\ place.room # NoChatRoom
  /\ m.role = "user"
  /\ msg' = Asked(msg, did', m.parent)
  /\ awaiting' = Begin(awaiting, Create(did', place.room, m.parent, FALSE, TRUE,
                                  Snapshot(msg)))
  /\ overlaid' = (overlaid \/ (m.id[1] = "q" /\ m.parent \notin Ids(msg.records) \cup {Null}))
  /\ UNCHANGED <<place, server>>

\* buildResendMessageTextData asks for the answer's question.
resendMessage(m) ==
  /\ Do
  /\ m.role = "assistant" /\ m.status # "PENDING" /\ m.mid # Null
  /\ \E q \in ToSet(msg.messages) : q.role = "user" /\ q.mid = m.mid
  /\ msg' = [msg EXCEPT !.messages = patchAssistantMessage(@, m.id, LAMBDA a :
                                       [a EXCEPT !.status = "PENDING"]),
                        !.generating = TRUE]
  /\ awaiting' = Begin(awaiting, Stream(m.mid[2], place.room, m.mid, m.id, FALSE, FALSE,
                                        NoSnapshot))
  /\ UNCHANGED <<place, server, overlaid>>

deleteMessage(m) ==
  /\ Do
  /\ awaiting' = Begin(awaiting, [kind |-> "delete", n |-> did', room |-> place.room,
                            id |-> m.mid, before |-> msg.records])
  /\ UNCHANGED <<msg, place, server, overlaid>>

rateMessage(m) ==
  /\ Do
  /\ m.role = "assistant" /\ m.status # "PENDING" /\ ~m.rated
  /\ LET rate(q) == [q EXCEPT !.rated = TRUE]
     IN  msg' = [msg EXCEPT
           !.messages = Map(@, LAMBDA q : q.mid = m.mid, rate),
           !.records = Map(@, LAMBDA r : r.id = m.mid, rate)]
  /\ awaiting' = Begin(awaiting, [kind |-> "rate", n |-> did', room |-> place.room,
                            snap |-> Snapshot(msg)])
  /\ UNCHANGED <<place, server, overlaid>>

\* handlePrevVersion and handleNextVersion of a question with versions.
switchVersion(g, step) ==
  LET siblings == getSiblingRecords(msg.records, g)
      current == IndexOf(msg.active, g, siblings)
      next == IF step < 0 THEN (IF current > 1 THEN current - 1 ELSE 1)
              ELSE (IF current < Len(siblings) THEN current + 1 ELSE Len(siblings))
  IN  /\ Do
      /\ Len(siblings) > 1 /\ next # current
      /\ \E v \in buildVersionInfoByMessageId(msg.records, msg.active) : v.group = g
      /\ msg' = [msg EXCEPT !.active = With(@, g, next)]
      /\ awaiting' = Disturb(awaiting)
      /\ UNCHANGED <<place, server, overlaid>>

----------------------------------------------------------------------------
(* What the server does, and what follows the awaits.                      *)

\* POST /messages: the record, its parent only if the server knows it.
NewRecord(c) ==
  [id |-> <<"m", c.n>>, room |-> c.room, rated |-> FALSE,
   parent |-> IF c.parent \in UNION {Ids(server.records[r]) : r \in ChatRooms}
              THEN c.parent ELSE Null]

\* The question and the answer under the server's name.
namedMessages(c) ==
  LET mid == <<"m", c.n>>
  IN  [i \in 1..Len(msg.messages) |->
         LET m == msg.messages[i]
         IN  IF m.id = <<"q", c.n>> THEN [m EXCEPT !.id = mid, !.mid = mid]
             ELSE IF m.id = <<"a", c.n>> THEN [m EXCEPT !.mid = mid, !.parent = mid]
             ELSE m]

\* The record is appended whatever room is open by now.
withRecord(c) ==
  Append(msg.records, [id |-> <<"m", c.n>>, room |-> c.room, parent |-> c.parent,
                       rated |-> FALSE])

uneditedIndex(c) == msg.active

\* An edit shows the version it made, the last of its siblings.
editedIndex(c) ==
  With(msg.active, toMessageGroupKey(c.parent),
       Len(getSiblingRecords(withRecord(c), c.parent)))

CreateAnswered(c) ==
  LET stream == Stream(c.n, c.room, <<"m", c.n>>, <<"a", c.n>>, c.first, c.edit, c.snap)
  IN  /\ msg' = [msg EXCEPT !.messages = namedMessages(c), !.records = withRecord(c),
                            !.active = IF c.edit THEN editedIndex(c) ELSE @]
      /\ awaiting' = (awaiting \ {c}) \cup
                    {[field \in DOMAIN stream \cup {"alone"} |->
                        IF field = "alone" THEN c.alone ELSE stream[field]]}
      /\ server' = [server EXCEPT !.records[c.room] = Append(@, NewRecord(c))]
      /\ overlaid' = (overlaid \/ place.room # c.room)
      /\ UNCHANGED <<place, did>>

SettledUnmarked(c, local, ok) ==
  LET after == IF ~ok /\ c.edit THEN Restore(msg, c.snap) ELSE msg
  IN  /\ msg' = [after EXCEPT !.generating = FALSE]
      /\ awaiting' = awaiting \ {c}
      /\ place' = IF c.first /\ place.pending = c.n
                   THEN [place EXCEPT !.pending = 0] ELSE place
      /\ overlaid' = (overlaid \/ (~ok /\ c.edit /\ ~c.alone))
      /\ UNCHANGED did

\* The catch and finally of sendMessage, editMessage and resendMessage.
Settled(c, local, ok) ==
  LET failed == patchAssistantMessage(msg.messages, local, LAMBDA m :
                  [m EXCEPT !.status = "ERROR"])
      after == IF ok THEN msg
               ELSE IF c.edit THEN Restore(msg, c.snap)
               ELSE [msg EXCEPT !.messages = failed]
  IN  /\ msg' = [after EXCEPT !.generating = FALSE]
      /\ awaiting' = awaiting \ {c}
      /\ place' = IF c.first /\ place.pending = c.n
                   THEN [place EXCEPT !.pending = 0] ELSE place
      /\ overlaid' = (overlaid \/ (~ok /\ c.edit /\ ~c.alone))
      /\ UNCHANGED did

CreateFails(c) == Settled(c, <<"a", c.n>>, FALSE) /\ UNCHANGED server

\* A delta of the text; once the answer is named, it goes to the named one.
TextDelta(c) ==
  /\ ~c.got
  /\ msg' = [msg EXCEPT !.messages = patchAssistantMessage(@, c.track, LAMBDA m :
                                       [m EXCEPT !.status = "STREAMING"])]
  /\ msg' # msg
  /\ UNCHANGED <<place, awaiting, server, overlaid, did>>

Answering(answers, id, status) ==
  [k \in DOMAIN answers \cup {id} |-> IF k = id THEN status ELSE answers[k]]

\* message_content: the whole answer, under the server's name.
MessageContent(c) ==
  LET id == <<"c", c.n>>
  IN  \E status \in {"COMPLETE", "ERROR"} :
        /\ ~c.got
        /\ msg' = [msg EXCEPT !.messages = patchAssistantMessage(@, c.track, LAMBDA m :
                     [m EXCEPT !.id = id, !.mid = c.mid, !.status = status,
                               !.rated = FALSE])]
        /\ awaiting' = (awaiting \ {c}) \cup {[c EXCEPT !.track = id, !.got = TRUE]}
        /\ server' = [server EXCEPT !.answer = Answering(@, c.mid, status)]
        /\ UNCHANGED <<place, overlaid, did>>

\* The stream ends: without message_content it throws.
AnswerEnds(c) == Settled(c, c.local, c.got) /\ UNCHANGED server

AnswerFails(c) ==
  /\ Settled(c, c.local, FALSE)
  /\ \/ UNCHANGED server
     \/ c.mid \notin DOMAIN server.answer
        /\ server' = [server EXCEPT !.answer = Answering(@, c.mid, "ERROR")]

\* GET /messages, then POST /messages/contents for what it listed.
ListAnswered(c) ==
  LET records == server.records[c.room]
      asks == [kind |-> "contents", n |-> c.n, room |-> c.room, alone |-> c.alone,
               records |-> records]
  IN  /\ IF records = <<>>
         THEN /\ msg' = [msg EXCEPT !.messages = <<>>, !.records = <<>>, !.loading = FALSE]
              /\ awaiting' = awaiting \ {c}
              /\ overlaid' = StaysOverlaid(c.alone)
         ELSE /\ awaiting' = (awaiting \ {c}) \cup {asks}
              /\ UNCHANGED <<msg, overlaid>>
      /\ UNCHANGED <<place, server, did>>

ContentsAnswered(c) ==
  /\ \E ok \in BOOLEAN : msg' = Loaded(msg, c.records, server.answer, ok)
  /\ awaiting' = awaiting \ {c}
  /\ overlaid' = StaysOverlaid(c.alone)
  /\ UNCHANGED <<place, server, did>>

LoadFails(c) ==
  /\ msg' = [msg EXCEPT !.messages = <<>>, !.records = <<>>, !.loadError = TRUE,
                        !.loading = FALSE]
  /\ awaiting' = awaiting \ {c}
  /\ overlaid' = StaysOverlaid(c.alone)
  /\ UNCHANGED <<place, server, did>>

\* The server deletes by the foreign key's cascade.
DeleteAnswered(c) ==
  LET known == c.id \in Ids(c.before)
      removed == removedWith(c.before, c.id)
      after == recordsLeft(c.before, removed)
  IN  /\ msg' = [msg EXCEPT
           !.messages = At(@, {i \in 1..Len(@) : {@[i].mid, @[i].id} \cap removed = {}}),
           !.records = after,
           !.active = IF known THEN adjustActiveVersionIndexAfterDelete(@,
                                      RecordOf(c.before, c.id), c.before, removed, after)
                      ELSE @]
      /\ server' = [server EXCEPT !.records = [r \in ChatRooms |->
                                                  recordsLeft(@[r], removedWith(@[r], c.id))]]
      /\ awaiting' = awaiting \ {c}
      /\ overlaid' = (overlaid \/ ~c.alone)
      /\ UNCHANGED <<place, did>>

RateFails(c) ==
  /\ msg' = [msg EXCEPT !.messages = c.snap.messages, !.records = c.snap.records]
  /\ awaiting' = awaiting \ {c}
  /\ overlaid' = (overlaid \/ ~c.alone)
  /\ UNCHANGED <<place, server, did>>

Answered(c) ==
  \/ c.kind = "create" /\ (CreateAnswered(c) \/ CreateFails(c))
  \/ c.kind = "stream" /\ (TextDelta(c) \/ MessageContent(c) \/ AnswerEnds(c) \/ AnswerFails(c))
  \/ c.kind = "list" /\ (ListAnswered(c) \/ LoadFails(c))
  \/ c.kind = "contents" /\ (ContentsAnswered(c) \/ LoadFails(c))
  \/ c.kind = "delete" /\ DeleteAnswered(c)
  \/ c.kind = "rate" /\ RateFails(c)
  \/ /\ c.kind \in {"delete", "rate"}   \* refused, or nothing left to do
     /\ awaiting' = awaiting \ {c}
     /\ UNCHANGED <<msg, place, server, overlaid, did>>

ThreadNext ==
  \/ startNewChat
  \/ \E r \in ChatRooms : OpenRoomPage(r) \/ selectRoom(r) \/ FirstSend(r)
  \/ sendInRoom
  \/ \E m \in ToSet(msg.messages) \cap ToSet(Visible) :
       editMessage(m) \/ resendMessage(m) \/ deleteMessage(m) \/ rateMessage(m)
  \/ \E g \in Groups(msg.records), step \in {-1, 1} : switchVersion(g, step)
  \/ \E c \in awaiting : Answered(c)

ThreadSpec == ThreadInit /\ [][ThreadNext]_threadVars

----------------------------------------------------------------------------
(* Properties.                                                             *)

\* The handler that will settle a message of the list.
Tracks(c, m) ==
  \/ c.kind = "create" /\ m.id = <<"a", c.n>>
  \/ c.kind = "stream" /\ m.id = c.track

\* An answer shown as pending or being written is one a handler still waits
\* for, but not while something is overlaid: the snapshots of editMessage and
\* rateMessage bring back answers that have since arrived as pending, and they
\* stay so until the thread is loaded again with nothing else on its way.
AnswersTracked ==
  overlaid \/ \A m \in ToSet(msg.messages) :
                m.status \in {"PENDING", "STREAMING"} => \E c \in awaiting : Tracks(c, m)

\* The indicators go out: nothing loads or is written without a handler that
\* will turn the indicator off, whatever overlaps.
IndicatorsEnd ==
  /\ msg.loading => \E c \in awaiting : c.kind \in {"list", "contents"}
  /\ msg.generating => \E c \in awaiting : c.kind \in {"create", "stream"}
  /\ place.pending # 0 => \E c \in awaiting : c.kind \in {"create", "stream"} /\ c.first

\* An answer that looks unfinished is still waited for unless something is
\* overlaid, and whatever keeps an indicator on is, overlaid or not
\* (MessagesService).
AnswersSettle == AnswersTracked /\ IndicatorsEnd

\* Once its load was answered the thread is the open room's: each record is of
\* it and descends from its root, and every index names a version, through what
\* is sent, edited and deleted, but not while something is overlaid.  Then it is
\* not: a deletion that overlaps a question sent drops its record
\* (messages.service.ts:371).  It is again once a room was loaded, or a new chat
\* begun, with nothing else on its way (MessagesService).
Fetching == \E c \in awaiting : c.kind \in {"list", "contents"} /\ c.room = place.room

ThreadOfRoom ==
  overlaid \/ Fetching
        \/ /\ \A i \in 1..Len(msg.records) :
                LET r == msg.records[i]
                IN  r.room = place.room /\ r.parent \in Ids(msg.records) \cup {Null}
           /\ \A g \in DOMAIN msg.active :
                msg.active[g] \in 1..Len(getSiblingRecords(msg.records, g))

\* A question the server has taken is shown at once, if what it answers is, the
\* user has not chosen among its versions since, and nothing is overlaid.
ShowsTaken ==
  \A c \in awaiting :
     /\ ~overlaid' /\ c.kind = "create" /\ <<"m", c.n>> \in Ids(msg'.records)
     /\ c.parent \in {Null} \cup ToSet(Walk(msg.records, msg.active))
     /\ c.edit \/ c.parent \notin DOMAIN msg.active
     => \E m \in ToSet(ShownOf(msg')) : m.mid = <<"m", c.n>>
=============================================================================
