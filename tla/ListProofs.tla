---------------------------- MODULE ListProofs ----------------------------
(***************************************************************************)
(* Proofs about lists the web application keeps while calls are on their   *)
(* way: the thread of messages (MessageClient) and the catalogues of the   *)
(* administration (CatalogLists).                                          *)
(***************************************************************************)
EXTENDS MessageClient, CatalogLists, PositionTheorems

----------------------------------------------------------------------------
(***************************************************************************)
(* Proofs about MessageClient, for any rooms and any number of operations. *)
(*                                                                         *)
(* An answer is waited for not by any handler that names it, but by one    *)
(* that has still to write it (Awaits); a snapshot brings no unfinished    *)
(* answer back as long as its handler was alone (Settling).                *)
(***************************************************************************)

\* An identifier of a question the server has not named.
AskedId(id) == id[1] = "q"

MessageFields == {"id", "mid", "role", "status", "parent", "rated"}
IsMessage(m) ==
  /\ DOMAIN m = MessageFields
  /\ AskedId(m.id) => m.role = "user" /\ m.status = "COMPLETE"

IsThread(s) == IsSeq(s) /\ \A m \in ToSet(s) : IsMessage(m)

Unfinished(m) == m.status \in {"PENDING", "STREAMING"}

\* A handler at an await.
IsCall(c) ==
  \/ /\ c.kind = "create" /\ IsThread(c.snap.messages)
     /\ DOMAIN c = {"kind", "n", "room", "parent", "first", "edit", "snap", "alone"}
  \/ /\ c.kind = "stream" /\ IsThread(c.snap.messages)
     /\ DOMAIN c = {"kind", "n", "room", "mid", "track", "local", "got", "first", "edit",
                    "snap", "alone"}
     /\ ~AskedId(c.local) /\ (~c.got => c.track = c.local)
  \/ /\ c.kind = "list" /\ c.room \in ChatRooms
     /\ DOMAIN c = {"kind", "n", "room", "alone"}
  \/ /\ c.kind = "contents" /\ IsSeq(c.records)
     /\ DOMAIN c = {"kind", "n", "room", "records", "alone"}
  \/ /\ c.kind = "delete"
     /\ DOMAIN c = {"kind", "n", "room", "id", "before", "alone"}
  \/ /\ c.kind = "rate" /\ IsThread(c.snap.messages)
     /\ DOMAIN c = {"kind", "n", "room", "snap", "alone"}

\* What the thread, the server and the handlers are.
ThreadShape ==
  /\ DOMAIN msg = {"messages", "records", "active", "loading", "generating", "loadError"}
  /\ IsThread(msg.messages)
  /\ DOMAIN place = {"room", "shown", "pending"}
  /\ DOMAIN server = {"records", "answer"} /\ DOMAIN server.records = ChatRooms
  /\ \A r \in ChatRooms : IsSeq(server.records[r])
  /\ \A id \in DOMAIN server.answer : server.answer[id] \in {"COMPLETE", "ERROR"}
  /\ \A c \in awaiting : IsCall(c)

\* The handler that has still to write a message.
Awaits(c, m) ==
  \/ c.kind = "create" /\ m.id = <<"a", c.n>>
  \/ c.kind = "stream" /\ ~c.got /\ m.id = c.track

Waited(messages, set) ==
  \A m \in ToSet(messages) : Unfinished(m) => \E c \in set : Awaits(c, m)

\* A handler that was alone brings back finished answers only.
Finished(messages) == \A m \in ToSet(messages) : ~Unfinished(m)
Settling(set) ==
  \A c \in set : c.kind \in {"create", "stream", "rate"} /\ c.alone => Finished(c.snap.messages)

\* A handler that is alone is the only one.
Alone(set) == \A c \in set : c.alone => set = {c}

\* Whatever keeps an indicator on is waited for.
Indicated(m, pending, set) ==
  /\ m.loading => \E c \in set : c.kind \in {"list", "contents"}
  /\ m.generating => \E c \in set : c.kind \in {"create", "stream"}
  /\ pending # 0 => \E c \in set : c.kind \in {"create", "stream"} /\ c.first /\ c.n = pending

ThreadInv ==
  /\ ThreadShape
  /\ overlaid \/ (Waited(msg.messages, awaiting) /\ Settling(awaiting))
  /\ Indicated(msg, place.pending, awaiting)

----------------------------------------------------------------------------
(* Threads and handlers.                                                   *)

LEMMA EmptyThread == IsThread(<<>>) /\ ToSet(<<>>) = {} /\ IsSeq(<<>>)
  BY DEF IsThread, IsSeq, ToSet

LEMMA ThreadElements ==
  ASSUME NEW s, IsThread(s)
  PROVE  /\ Len(s) \in Nat /\ DOMAIN s = 1..Len(s)
         /\ \A i \in 1..Len(s) : s[i] \in ToSet(s) /\ IsMessage(s[i])
         /\ \A m \in ToSet(s) : \E i \in 1..Len(s) : m = s[i]
  BY Elements DEF IsThread

LEMMA ThreadListed ==
  ASSUME NEW n \in Nat, NEW s, s = [i \in 1..n |-> s[i]],
         \A i \in 1..n : IsMessage(s[i])
  PROVE  IsThread(s) /\ \A m \in ToSet(s) : \E i \in 1..n : m = s[i]
  BY Listed DEF IsThread

\* A handler that something overlapped is the same handler.
LEMMA Overlapped ==
  ASSUME NEW c, IsCall(c), NEW d, d = [c EXCEPT !.alone = FALSE]
  PROVE  /\ IsCall(d) /\ d.kind = c.kind /\ ~d.alone
         /\ \A m : Awaits(c, m) => Awaits(d, m)
         /\ c.kind \in {"create", "stream"} => d.n = c.n /\ d.first = c.first
<1>1. CASE c.kind = "create"
  BY <1>1 DEF IsCall, Awaits
<1>2. CASE c.kind = "stream"
  BY <1>2 DEF IsCall, Awaits
<1>3. CASE c.kind = "list"
  BY <1>3 DEF IsCall, Awaits
<1>4. CASE c.kind = "contents"
  BY <1>4 DEF IsCall, Awaits
<1>5. CASE c.kind = "delete"
  BY <1>5 DEF IsCall, Awaits
<1>6. CASE c.kind = "rate"
  BY <1>6 DEF IsCall, Awaits
<1> QED
  BY <1>1, <1>2, <1>3, <1>4, <1>5, <1>6 DEF IsCall

\* Whatever is waited for stays so when the handlers are overlapped.
LEMMA StillWaited ==
  ASSUME NEW set, \A c \in set : IsCall(c), NEW new, Disturb(set) \subseteq new
  PROVE  /\ \A messages : Waited(messages, set) => Waited(messages, new)
         /\ \A m, pending : Indicated(m, pending, set) => Indicated(m, pending, new)
<1>1. \A c \in set : \E d \in new :
        /\ d.kind = c.kind /\ \A m : Awaits(c, m) => Awaits(d, m)
        /\ c.kind \in {"create", "stream"} => d.n = c.n /\ d.first = c.first
  <2> TAKE c \in set
  <2>1. PICK d : d = [c EXCEPT !.alone = FALSE]
    OBVIOUS
  <2>2. d \in new
    BY <2>1 DEF Disturb
  <2> QED
    BY <2>1, <2>2, Overlapped
<1>2. ASSUME NEW messages, Waited(messages, set) PROVE Waited(messages, new)
  BY <1>1, <1>2 DEF Waited
<1>3. ASSUME NEW m, NEW pending, Indicated(m, pending, set)
      PROVE  Indicated(m, pending, new)
  BY <1>1, <1>3 DEF Indicated
<1> QED
  BY <1>2, <1>3

LEMMA DisturbedCalls ==
  ASSUME NEW set, \A c \in set : IsCall(c)
  PROVE  (\A d \in Disturb(set) : IsCall(d)) /\ Settling(Disturb(set))
<1>1. \A d \in Disturb(set) : IsCall(d) /\ ~d.alone
  BY Overlapped DEF Disturb
<1> QED
  BY <1>1 DEF Settling

\* The handlers after one more began.
LEMMA Begun ==
  ASSUME NEW set, \A c \in set : IsCall(c), NEW call, NEW e, NEW new, new = Begin(set, call),
         e = [field \in DOMAIN call \cup {"alone"} |->
                IF field = "alone" THEN set = {} ELSE call[field]],
         IsCall(e),
         e.kind \in {"create", "stream", "rate"} /\ set = {} => Finished(e.snap.messages)
  PROVE  /\ e \in new /\ Disturb(set) \subseteq new
         /\ \A c \in new : IsCall(c)
         /\ Settling(new)
<1>1. new = Disturb(set) \cup {e}
  BY DEF Begin
<1>2. (\A d \in Disturb(set) : IsCall(d)) /\ Settling(Disturb(set))
  BY DisturbedCalls
<1>3. e.alone => set = {}
  BY DEF IsCall
<1> QED
  BY <1>1, <1>2, <1>3 DEF Settling

----------------------------------------------------------------------------
(* What the user does.                                                     *)

LEMMA ChatStarted ==
  ASSUME ThreadInv, startNewChat
  PROVE  ThreadInv'
<1>1. msg'.messages = <<>> /\ ~msg'.loading /\ ~msg'.generating /\ place'.pending = 0
  BY DEF startNewChat, ClearedThread
<1>2. (\A c \in awaiting' : IsCall(c)) /\ Settling(awaiting')
  BY DisturbedCalls DEF ThreadInv, ThreadShape, startNewChat
<1>3. ThreadShape'
  BY <1>2, EmptyThread DEF ThreadInv, ThreadShape, startNewChat, ClearedThread
<1>4. Waited(<<>>, awaiting')
  BY EmptyThread DEF Waited
<1>5. Indicated(msg', place'.pending, awaiting')
  BY <1>1 DEF Indicated
<1> QED
  BY <1>1, <1>2, <1>3, <1>4, <1>5 DEF ThreadInv

\* A load of the open room began.
LEMMA LoadBegun ==
  ASSUME ThreadInv, NEW r \in ChatRooms, NEW init \in BOOLEAN, NEW n,
         NEW load, load = loadMessagesForRoom(msg, awaiting, r, init, n),
         msg' = load.msg, awaiting' = load.calls, place'.pending = place.pending,
         DOMAIN place' = DOMAIN place, server' = server, overlaid => overlaid'
  PROVE  ThreadInv'
<1> DEFINE call == [kind |-> "list", n |-> n, room |-> r]
<1>1. PICK e : e = [field \in DOMAIN call \cup {"alone"} |->
                      IF field = "alone" THEN awaiting = {} ELSE call[field]]
  OBVIOUS
<1>2. IsCall(e) /\ e.kind = "list"
  BY <1>1 DEF IsCall
<1>3. awaiting' = Begin(awaiting, call)
  BY DEF loadMessagesForRoom
<1>4. /\ msg'.messages = msg.messages /\ DOMAIN msg' = DOMAIN msg
      /\ msg'.generating = msg.generating
  BY DEF loadMessagesForRoom, ThreadInv, ThreadShape
<1> HIDE DEF call
<1>5. \A c \in awaiting : IsCall(c)
  BY DEF ThreadInv, ThreadShape
<1>6. /\ e \in awaiting' /\ Disturb(awaiting) \subseteq awaiting'
      /\ \A c \in awaiting' : IsCall(c)
      /\ Settling(awaiting')
  BY <1>1, <1>2, <1>3, <1>5, Begun
<1>7. ThreadShape'
  BY <1>4, <1>6 DEF ThreadInv, ThreadShape
<1>8. Waited(msg.messages, awaiting) => Waited(msg.messages, awaiting')
  BY <1>5, <1>6, StillWaited
<1>9. Indicated(msg, place.pending, awaiting')
  BY <1>5, <1>6, StillWaited DEF ThreadInv
<1>10. Indicated(msg', place'.pending, awaiting')
  BY <1>2, <1>4, <1>6, <1>9 DEF Indicated
<1> QED
  BY <1>4, <1>6, <1>7, <1>8, <1>10 DEF ThreadInv

LEMMA RoomOpened ==
  ASSUME ThreadInv, NEW r \in ChatRooms, OpenRoomPage(r) \/ selectRoom(r)
  PROVE  ThreadInv'
<1>1. /\ DOMAIN place' = DOMAIN place /\ place'.pending = place.pending
      /\ server' = server /\ (overlaid => overlaid')
  BY DEF OpenRoomPage, selectRoom, ThreadInv, ThreadShape
<1>2. CASE OpenRoomPage(r) /\ place.pending # 0
  <2>1. UNCHANGED <<msg, awaiting>>
    BY <1>2 DEF OpenRoomPage
  <2>2. ThreadShape'
    BY <1>1, <2>1 DEF ThreadInv, ThreadShape
  <2> QED
    BY <1>1, <2>1, <2>2 DEF ThreadInv
<1>3. CASE OpenRoomPage(r) /\ place.pending = 0
  <2>1. PICK load : load = loadMessagesForRoom(msg, awaiting, r, TRUE, did')
    OBVIOUS
  <2>2. msg' = load.msg /\ awaiting' = load.calls
    BY <1>3, <2>1 DEF OpenRoomPage
  <2>3. PICK init \in BOOLEAN : init = TRUE
    OBVIOUS
  <2> QED
    BY <1>1, <2>1, <2>2, <2>3, LoadBegun
<1>4. CASE selectRoom(r)
  <2>1. PICK load : load = loadMessagesForRoom(msg, awaiting, r, FALSE, did')
    OBVIOUS
  <2>2. msg' = load.msg /\ awaiting' = load.calls
    BY <1>4, <2>1 DEF selectRoom
  <2>3. PICK init \in BOOLEAN : init = FALSE
    OBVIOUS
  <2> QED
    BY <1>1, <2>1, <2>2, <2>3, LoadBegun
<1> QED
  BY <1>2, <1>3, <1>4

\* A question was asked, in a room, of a new chat, or anew.
LEMMA QuestionAsked ==
  ASSUME ThreadInv, NEW n, NEW room, NEW parent, NEW first \in BOOLEAN, NEW edit \in BOOLEAN,
         NEW snap, IsThread(snap.messages),
         ~overlaid /\ awaiting = {} => Finished(snap.messages),
         msg' = Asked(msg, n, parent),
         awaiting' = Begin(awaiting, Create(n, room, parent, first, edit, snap)),
         place'.pending = place.pending \/ (first /\ place'.pending = n),
         DOMAIN place' = DOMAIN place, server' = server, overlaid => overlaid'
  PROVE  ThreadInv'
<1>1. PICK call : call = Create(n, room, parent, first, edit, snap)
  OBVIOUS
<1>2. PICK e : e = [field \in DOMAIN call \cup {"alone"} |->
                      IF field = "alone" THEN awaiting = {} ELSE call[field]]
  OBVIOUS
<1>3. /\ IsCall(e) /\ e.kind = "create" /\ e.n = n /\ e.first = first
      /\ e.snap = snap
  BY <1>1, <1>2 DEF Create, IsCall
<1>4. \A c \in awaiting : IsCall(c)
  BY DEF ThreadInv, ThreadShape
<1>5. PICK q : q = Question(n, parent)
  OBVIOUS
<1>6. PICK a : a = PendingAnswer(n)
  OBVIOUS
<1>7. IsMessage(q) /\ ~Unfinished(q)
  BY <1>5 DEF Question, IsMessage, AskedId, MessageFields, Unfinished
<1>8. IsMessage(a) /\ Awaits(e, a)
  BY <1>3, <1>6 DEF PendingAnswer, IsMessage, AskedId, MessageFields, Awaits
<1>9. /\ msg'.messages = msg.messages \o <<q, a>> /\ DOMAIN msg' = DOMAIN msg
      /\ msg'.loading = msg.loading
  BY <1>5, <1>6 DEF Asked, ThreadInv, ThreadShape
<1>10. IsThread(msg'.messages) /\ ToSet(msg'.messages) = ToSet(msg.messages) \cup {q, a}
  <2>1. PICK s : s = msg.messages
    OBVIOUS
  <2>2. IsThread(s)
    BY <2>1 DEF ThreadInv, ThreadShape
  <2>3. PICK t : t = Joined(s, q, a)
    OBVIOUS
  <2>4. IsSeq(t) /\ ToSet(t) = ToSet(s) \cup {q, a}
    BY <2>2, <2>3, TwoMore DEF IsThread
  <2>5. msg'.messages = t
    BY <1>9, <2>1, <2>3 DEF Joined
  <2> QED
    BY <1>7, <1>8, <2>1, <2>2, <2>4, <2>5 DEF IsThread
<1>11. \/ overlaid'
       \/ /\ e \in awaiting' /\ Disturb(awaiting) \subseteq awaiting'
          /\ \A c \in awaiting' : IsCall(c)
          /\ Settling(awaiting')
  BY <1>1, <1>2, <1>3, <1>4, Begun
<1>12. /\ e \in awaiting' /\ Disturb(awaiting) \subseteq awaiting'
       /\ \A c \in awaiting' : IsCall(c)
  <2>1. awaiting' = Disturb(awaiting) \cup {e}
    BY <1>1, <1>2 DEF Begin
  <2> QED
    BY <2>1, <1>3, <1>4, DisturbedCalls
<1>13. ThreadShape'
  BY <1>9, <1>10, <1>12 DEF ThreadInv, ThreadShape
<1>14. Waited(msg.messages, awaiting) => Waited(msg.messages, awaiting')
  BY <1>4, <1>12, StillWaited
<1>15. Waited(msg.messages, awaiting) => Waited(msg'.messages, awaiting')
  BY <1>7, <1>8, <1>10, <1>12, <1>14 DEF Waited
<1>16. Indicated(msg, place.pending, awaiting')
  BY <1>4, <1>12, StillWaited DEF ThreadInv
<1>17. Indicated(msg', place'.pending, awaiting')
  BY <1>3, <1>9, <1>12, <1>16 DEF Indicated
<1> QED
  BY <1>11, <1>13, <1>15, <1>17 DEF ThreadInv

\* A thread no handler waits about is finished.
LEMMA RestIsFinished ==
  ASSUME ThreadInv, ~overlaid, awaiting = {}
  PROVE  Finished(msg.messages)
  BY DEF ThreadInv, Waited, Finished

LEMMA SentInRoom ==
  ASSUME ThreadInv, NEW r, FirstSend(r) \/ sendInRoom \/ \E m : editMessage(m)
  PROVE  ThreadInv'
<1>1. IsThread(NoSnapshot.messages) /\ Finished(NoSnapshot.messages)
  BY EmptyThread DEF NoSnapshot, Finished
<1>2. IsThread(Snapshot(msg).messages) /\ Snapshot(msg).messages = msg.messages
  BY DEF Snapshot, ThreadInv, ThreadShape
<1>3. ~overlaid /\ awaiting = {} => Finished(Snapshot(msg).messages)
  BY <1>2, RestIsFinished
<1>4. PICK no \in BOOLEAN : no = FALSE
  OBVIOUS
<1>5. PICK yes \in BOOLEAN : yes = TRUE
  OBVIOUS
<1>6. DOMAIN place = {"room", "shown", "pending"}
  BY DEF ThreadInv, ThreadShape
<1>7. CASE FirstSend(r)
  <2>1. PICK parent : /\ msg' = Asked(msg, did', parent)
                      /\ awaiting' = Begin(awaiting, Create(did', r, parent, TRUE, FALSE,
                                                           NoSnapshot))
    BY <1>7 DEF FirstSend, sendMessage
  <2>2. /\ server' = server /\ (overlaid => overlaid') /\ place'.pending = did'
        /\ DOMAIN place' = DOMAIN place
    BY <1>6, <1>7 DEF FirstSend, sendMessage
  <2>3. PICK n : n = did'
    OBVIOUS
  <2>4. PICK snap : snap = NoSnapshot
    OBVIOUS
  <2> QED
    BY <1>1, <1>4, <1>5, <2>1, <2>2, <2>3, <2>4, QuestionAsked
<1>8. CASE sendInRoom
  <2>1. PICK parent : /\ msg' = Asked(msg, did', parent)
                      /\ awaiting' = Begin(awaiting, Create(did', place.room, parent, FALSE,
                                                           FALSE, NoSnapshot))
    BY <1>8 DEF sendInRoom, sendMessage
  <2>2. server' = server /\ (overlaid => overlaid') /\ place' = place
    BY <1>8 DEF sendInRoom, sendMessage
  <2>3. PICK n : n = did'
    OBVIOUS
  <2>4. PICK snap : snap = NoSnapshot
    OBVIOUS
  <2>5. PICK room : room = place.room
    OBVIOUS
  <2> QED
    BY <1>1, <1>4, <2>1, <2>2, <2>3, <2>4, <2>5, QuestionAsked
<1>9. ASSUME NEW m, editMessage(m) PROVE ThreadInv'
  <2>1. /\ msg' = Asked(msg, did', m.parent)
        /\ awaiting' = Begin(awaiting, Create(did', place.room, m.parent, FALSE, TRUE,
                                             Snapshot(msg)))
        /\ server' = server /\ (overlaid => overlaid') /\ place' = place
    BY <1>9 DEF editMessage
  <2>2. PICK n : n = did'
    OBVIOUS
  <2>3. PICK snap : snap = Snapshot(msg)
    OBVIOUS
  <2>4. PICK room : room = place.room
    OBVIOUS
  <2>5. PICK parent : parent = m.parent
    OBVIOUS
  <2> QED
    BY <1>2, <1>3, <1>4, <1>5, <2>1, <2>2, <2>3, <2>4, <2>5, QuestionAsked
<1> QED
  BY <1>7, <1>8, <1>9

\* The messages of an identifier got a status.
Marked(t, s, id, status) ==
  t = [i \in 1..Len(s) |->
         IF s[i].id = id THEN [s[i] EXCEPT !.status = status] ELSE s[i]]

LEMMA MarkedThread ==
  ASSUME NEW s, IsThread(s), NEW id, ~AskedId(id), NEW status, NEW t,
         Marked(t, s, id, status)
  PROVE  /\ IsThread(t)
         /\ \A m \in ToSet(t) : m \in ToSet(s) \/ (m.id = id /\ m.status = status)
         /\ \A m \in ToSet(t) : m.id = id => m.status = status
<1>1. Len(s) \in Nat /\ \A i \in 1..Len(s) : s[i] \in ToSet(s) /\ IsMessage(s[i])
  BY ThreadElements
<1>2. \A i \in 1..Len(s) :
        \/ t[i] = s[i] /\ s[i].id # id
        \/ t[i] = [s[i] EXCEPT !.status = status] /\ s[i].id = id
  BY DEF Marked
<1>3. \A i \in 1..Len(s) :
        /\ IsMessage(t[i])
        /\ t[i] \in ToSet(s) \/ (t[i].id = id /\ t[i].status = status)
        /\ t[i].id = id => t[i].status = status
  BY <1>1, <1>2 DEF IsMessage, MessageFields
<1>4. t = [i \in 1..Len(s) |-> t[i]]
  BY DEF Marked
<1>5. IsThread(t) /\ \A m \in ToSet(t) : \E i \in 1..Len(s) : m = t[i]
  BY <1>1, <1>3, <1>4, ThreadListed
<1>6. ASSUME NEW m \in ToSet(t)
      PROVE  /\ m \in ToSet(s) \/ (m.id = id /\ m.status = status)
             /\ m.id = id => m.status = status
  <2>1. PICK i \in 1..Len(s) : m = t[i]
    BY <1>5
  <2> QED
    BY <1>3, <2>1
<1> QED
  BY <1>5, <1>6

LEMMA Resent ==
  ASSUME ThreadInv, NEW m \in ToSet(msg.messages), resendMessage(m)
  PROVE  ThreadInv'
<1>1. PICK id : id = m.id
  OBVIOUS
<1>2. ~AskedId(id)
  BY <1>1 DEF resendMessage, ThreadInv, ThreadShape, IsThread, IsMessage
<1>3. PICK call : call = Stream(m.mid[2], place.room, m.mid, m.id, FALSE, FALSE, NoSnapshot)
  OBVIOUS
<1>4. awaiting' = Begin(awaiting, call)
  BY <1>3 DEF resendMessage
<1>5. PICK e : e = [field \in DOMAIN call \cup {"alone"} |->
                      IF field = "alone" THEN awaiting = {} ELSE call[field]]
  OBVIOUS
<1>6. /\ e.kind = "stream" /\ ~e.got /\ e.track = id /\ e.local = id
      /\ e.snap = NoSnapshot
      /\ DOMAIN e = {"kind", "n", "room", "mid", "track", "local", "got", "first", "edit",
                     "snap", "alone"}
  BY <1>1, <1>3, <1>5 DEF Stream
<1>7. IsThread(e.snap.messages) /\ Finished(e.snap.messages)
  BY <1>6, EmptyThread DEF NoSnapshot, Finished
<1>8. IsCall(e)
  BY <1>2, <1>6, <1>7 DEF IsCall
<1>9. \A c \in awaiting : IsCall(c)
  BY DEF ThreadInv, ThreadShape
<1>10. /\ e \in awaiting' /\ Disturb(awaiting) \subseteq awaiting'
       /\ \A c \in awaiting' : IsCall(c)
       /\ Settling(awaiting')
  BY <1>4, <1>5, <1>6, <1>7, <1>8, <1>9, Begun
<1>11. /\ DOMAIN msg' = DOMAIN msg /\ msg'.loading = msg.loading
        /\ Marked(msg'.messages, msg.messages, id, "PENDING")
  BY <1>1 DEF resendMessage, ThreadInv, ThreadShape, patchAssistantMessage, Map, Marked
<1>12. IsThread(msg.messages)
  BY DEF ThreadInv, ThreadShape
<1>13. /\ IsThread(msg'.messages)
       /\ \A x \in ToSet(msg'.messages) : x \in ToSet(msg.messages) \/ x.id = id
  BY <1>2, <1>11, <1>12, MarkedThread
<1>14. server' = server /\ overlaid' = overlaid /\ place' = place
  BY DEF resendMessage
<1>15. ThreadShape'
  BY <1>10, <1>11, <1>13, <1>14 DEF ThreadInv, ThreadShape
<1>16. Waited(msg.messages, awaiting) => Waited(msg.messages, awaiting')
  BY <1>9, <1>10, StillWaited
<1>17. Waited(msg.messages, awaiting) => Waited(msg'.messages, awaiting')
  BY <1>6, <1>10, <1>13, <1>16 DEF Waited, Awaits
<1>18. Indicated(msg, place.pending, awaiting')
  BY <1>9, <1>10, StillWaited DEF ThreadInv
<1>19. Indicated(msg', place'.pending, awaiting')
  BY <1>6, <1>10, <1>11, <1>14, <1>18 DEF Indicated
<1> QED
  BY <1>10, <1>14, <1>15, <1>17, <1>19 DEF ThreadInv

\* A deletion or a rating began: the thread's answers stay what they were.
LEMMA DeletionBegun ==
  ASSUME ThreadInv, NEW m, deleteMessage(m)
  PROVE  ThreadInv'
<1>1. PICK call : call = [kind |-> "delete", n |-> did', room |-> place.room,
                          id |-> m.mid, before |-> msg.records]
  OBVIOUS
<1>2. PICK e : e = [field \in DOMAIN call \cup {"alone"} |->
                      IF field = "alone" THEN awaiting = {} ELSE call[field]]
  OBVIOUS
<1>3. IsCall(e) /\ e.kind = "delete"
  BY <1>1, <1>2 DEF IsCall
<1>4. awaiting' = Begin(awaiting, call) /\ UNCHANGED <<msg, place, server, overlaid>>
  BY <1>1 DEF deleteMessage
<1>5. \A c \in awaiting : IsCall(c)
  BY DEF ThreadInv, ThreadShape
<1>6. /\ Disturb(awaiting) \subseteq awaiting'
      /\ \A c \in awaiting' : IsCall(c)
      /\ Settling(awaiting')
  BY <1>2, <1>3, <1>4, <1>5, Begun
<1>7. ThreadShape'
  BY <1>4, <1>6 DEF ThreadInv, ThreadShape
<1> QED
  BY <1>4, <1>5, <1>6, <1>7, StillWaited DEF ThreadInv

LEMMA RatingBegun ==
  ASSUME ThreadInv, NEW m, rateMessage(m)
  PROVE  ThreadInv'
<1>1. PICK call : call = [kind |-> "rate", n |-> did', room |-> place.room,
                          snap |-> Snapshot(msg)]
  OBVIOUS
<1>2. PICK e : e = [field \in DOMAIN call \cup {"alone"} |->
                      IF field = "alone" THEN awaiting = {} ELSE call[field]]
  OBVIOUS
<1>3. /\ e.kind = "rate" /\ e.snap.messages = msg.messages
      /\ DOMAIN e = {"kind", "n", "room", "snap", "alone"}
  BY <1>1, <1>2 DEF Snapshot
<1>4. IsCall(e)
  BY <1>3 DEF IsCall, ThreadInv, ThreadShape
<1>5. awaiting' = Begin(awaiting, call) /\ UNCHANGED <<place, server, overlaid>>
  BY <1>1 DEF rateMessage
<1>6. \A c \in awaiting : IsCall(c)
  BY DEF ThreadInv, ThreadShape
<1>7. ~overlaid /\ awaiting = {} => Finished(e.snap.messages)
  BY <1>3, RestIsFinished
<1>8. /\ Disturb(awaiting) \subseteq awaiting'
      /\ \A c \in awaiting' : IsCall(c)
  <2>1. awaiting' = Disturb(awaiting) \cup {e}
    BY <1>2, <1>5 DEF Begin
  <2> QED
    BY <2>1, <1>4, <1>6, DisturbedCalls
<1>9. overlaid \/ Settling(awaiting')
  BY <1>2, <1>4, <1>5, <1>6, <1>7, Begun
<1>10. PICK s : s = msg.messages
  OBVIOUS
<1>11. IsThread(s) /\ Len(s) \in Nat
  BY <1>10, ThreadElements DEF ThreadInv, ThreadShape
<1>12. PICK t : t = [i \in 1..Len(s) |-> IF s[i].mid = m.mid THEN [s[i] EXCEPT !.rated = TRUE]
                                        ELSE s[i]]
  OBVIOUS
<1>13. /\ DOMAIN msg' = DOMAIN msg /\ msg'.loading = msg.loading
       /\ msg'.generating = msg.generating /\ msg'.messages = t
  BY <1>10, <1>12 DEF rateMessage, ThreadInv, ThreadShape, Map
<1>14. \A i \in 1..Len(s) : s[i] \in ToSet(s) /\ IsMessage(s[i])
  BY <1>11, ThreadElements
<1>15. \A i \in 1..Len(s) :
         /\ IsMessage(t[i]) /\ t[i].status = s[i].status /\ t[i].id = s[i].id
  BY <1>12, <1>14 DEF IsMessage, MessageFields
<1>16. t = [i \in 1..Len(s) |-> t[i]]
  BY <1>12
<1>17. IsThread(t) /\ \A x \in ToSet(t) : \E i \in 1..Len(s) : x = t[i]
  BY <1>11, <1>15, <1>16, ThreadListed
<1>18. ThreadShape'
  BY <1>5, <1>8, <1>13, <1>17 DEF ThreadInv, ThreadShape
<1>19. Waited(s, awaiting) => Waited(s, awaiting')
  BY <1>6, <1>8, StillWaited
<1>20. Waited(s, awaiting) => Waited(t, awaiting')
  BY <1>14, <1>15, <1>17, <1>19 DEF Waited, Unfinished, Awaits
<1>21. Indicated(msg, place.pending, awaiting')
  BY <1>6, <1>8, StillWaited DEF ThreadInv
<1>22. Indicated(msg', place'.pending, awaiting')
  BY <1>5, <1>13, <1>21 DEF Indicated
<1> QED
  BY <1>5, <1>9, <1>10, <1>13, <1>18, <1>20, <1>22 DEF ThreadInv

LEMMA VersionSwitched ==
  ASSUME ThreadInv, NEW g, NEW step, switchVersion(g, step)
  PROVE  ThreadInv'
<1>1. /\ msg'.messages = msg.messages /\ DOMAIN msg' = DOMAIN msg
      /\ msg'.loading = msg.loading /\ msg'.generating = msg.generating
      /\ awaiting' = Disturb(awaiting) /\ UNCHANGED <<place, server, overlaid>>
  BY DEF switchVersion, ThreadInv, ThreadShape
<1>2. \A c \in awaiting : IsCall(c)
  BY DEF ThreadInv, ThreadShape
<1>3. (\A c \in awaiting' : IsCall(c)) /\ Settling(awaiting')
  BY <1>1, <1>2, DisturbedCalls
<1>4. ThreadShape'
  BY <1>1, <1>3 DEF ThreadInv, ThreadShape
<1>5. Waited(msg.messages, awaiting) => Waited(msg.messages, awaiting')
  BY <1>1, <1>2, StillWaited
<1>6. Indicated(msg, place.pending, awaiting')
  BY <1>1, <1>2, StillWaited DEF ThreadInv
<1>7. Indicated(msg', place'.pending, awaiting')
  BY <1>1, <1>6 DEF Indicated
<1> QED
  BY <1>1, <1>3, <1>4, <1>5, <1>7 DEF ThreadInv

----------------------------------------------------------------------------
(* What follows the awaits.                                                *)

\* The thread after a handler ended that awaited none of its messages, or left
\* none of them unfinished.
LEMMA HandlerEnded ==
  ASSUME ThreadInv, NEW c \in awaiting, awaiting' = awaiting \ {c},
         DOMAIN msg' = DOMAIN msg, IsThread(msg'.messages), place' = place,
         msg'.loading => msg.loading /\ c.kind \notin {"list", "contents"},
         msg'.generating => msg.generating /\ c.kind \notin {"create", "stream"},
         c.kind \notin {"create", "stream"},
         overlaid => overlaid',
         \/ overlaid'
         \/ \A m \in ToSet(msg'.messages) :
              Unfinished(m) => m \in ToSet(msg.messages) /\ ~Awaits(c, m),
         DOMAIN server' = DOMAIN server, DOMAIN server'.records = ChatRooms,
         \A r \in ChatRooms : IsSeq(server'.records[r]),
         \A id \in DOMAIN server'.answer : server'.answer[id] \in {"COMPLETE", "ERROR"}
  PROVE  ThreadInv'
<1>1. ThreadShape'
  BY DEF ThreadInv, ThreadShape
<1>2. overlaid' \/ Settling(awaiting')
  BY DEF ThreadInv, Settling
<1>3. overlaid' \/ Waited(msg'.messages, awaiting')
  BY DEF ThreadInv, Waited
<1>4. Indicated(msg', place'.pending, awaiting')
  BY DEF ThreadInv, Indicated
<1> QED
  BY <1>1, <1>2, <1>3, <1>4 DEF ThreadInv

\* The catch and finally of a question or an answer.
LEMMA AnswerSettled ==
  ASSUME ThreadInv, NEW c \in awaiting, c.kind \in {"create", "stream"}, NEW local,
         NEW ok \in BOOLEAN, Settled(c, local, ok), ~AskedId(local),
         \A m : Awaits(c, m) => ~ok /\ m.id = local,
         DOMAIN server' = DOMAIN server, server'.records = server.records,
         \A id \in DOMAIN server'.answer : server'.answer[id] \in {"COMPLETE", "ERROR"}
  PROVE  ThreadInv'
<1>1. /\ DOMAIN msg = {"messages", "records", "active", "loading", "generating", "loadError"}
      /\ IsThread(msg.messages) /\ IsThread(c.snap.messages)
      /\ DOMAIN place = {"room", "shown", "pending"}
  BY DEF ThreadInv, ThreadShape, IsCall
<1>2. /\ awaiting' = awaiting \ {c} /\ (overlaid => overlaid')
      /\ ~ok /\ c.edit /\ ~c.alone => overlaid'
  BY DEF Settled
<1>3. /\ DOMAIN place' = DOMAIN place
      /\ place'.pending = place.pending \/ place'.pending = 0
      /\ c.first /\ place.pending = c.n => place'.pending = 0
  BY <1>1 DEF Settled
<1>4. \/ ok /\ msg' = [msg EXCEPT !.generating = FALSE]
      \/ ~ok /\ c.edit /\ msg' = [Restore(msg, c.snap) EXCEPT !.generating = FALSE]
      \/ /\ ~ok /\ ~c.edit
         /\ msg' = [[msg EXCEPT !.messages =
                       [i \in 1..Len(msg.messages) |->
                          IF msg.messages[i].id = local
                          THEN [msg.messages[i] EXCEPT !.status = "ERROR"]
                          ELSE msg.messages[i]]] EXCEPT !.generating = FALSE]
  BY DEF Settled, patchAssistantMessage, Map
<1>5. /\ DOMAIN msg' = DOMAIN msg /\ msg'.loading = msg.loading /\ ~msg'.generating
      /\ \/ ok /\ msg'.messages = msg.messages
         \/ ~ok /\ c.edit /\ msg'.messages = c.snap.messages
         \/ ~ok /\ Marked(msg'.messages, msg.messages, local, "ERROR")
  BY <1>1, <1>4 DEF Restore, Marked
<1>6. CASE ok /\ msg'.messages = msg.messages
  <2>1. ThreadShape'
    BY <1>2, <1>3, <1>5, <1>6 DEF ThreadInv, ThreadShape
  <2>2. overlaid' \/ (Waited(msg'.messages, awaiting') /\ Settling(awaiting'))
    BY <1>2, <1>6 DEF ThreadInv, Waited, Settling
  <2>3. Indicated(msg', place'.pending, awaiting')
    BY <1>2, <1>3, <1>5 DEF ThreadInv, Indicated
  <2> QED
    BY <2>1, <2>2, <2>3 DEF ThreadInv
<1>7. CASE ~ok /\ c.edit /\ msg'.messages = c.snap.messages
  <2>1. ThreadShape'
    BY <1>1, <1>2, <1>3, <1>5, <1>7 DEF ThreadInv, ThreadShape
  <2>2. overlaid' \/ (Waited(msg'.messages, awaiting') /\ Settling(awaiting'))
    BY <1>2, <1>7 DEF ThreadInv, Waited, Settling, Finished
  <2>3. Indicated(msg', place'.pending, awaiting')
    BY <1>2, <1>3, <1>5 DEF ThreadInv, Indicated
  <2> QED
    BY <2>1, <2>2, <2>3 DEF ThreadInv
<1>8. CASE ~ok /\ Marked(msg'.messages, msg.messages, local, "ERROR")
  <2>1. /\ IsThread(msg'.messages)
        /\ \A m \in ToSet(msg'.messages) :
             \/ m \in ToSet(msg.messages)
             \/ m.id = local /\ m.status = "ERROR"
        /\ \A m \in ToSet(msg'.messages) : m.id = local => m.status = "ERROR"
    BY <1>1, <1>8, MarkedThread
  <2>2. \A m \in ToSet(msg'.messages) :
          Unfinished(m) => m \in ToSet(msg.messages) /\ ~Awaits(c, m)
    BY <2>1 DEF Unfinished
  <2>3. ThreadShape'
    BY <1>2, <1>3, <1>5, <2>1 DEF ThreadInv, ThreadShape
  <2>4. overlaid' \/ (Waited(msg'.messages, awaiting') /\ Settling(awaiting'))
    BY <1>2, <2>2 DEF ThreadInv, Waited, Settling
  <2>5. Indicated(msg', place'.pending, awaiting')
    BY <1>2, <1>3, <1>5 DEF ThreadInv, Indicated
  <2> QED
    BY <2>3, <2>4, <2>5 DEF ThreadInv
<1> QED
  BY <1>5, <1>6, <1>7, <1>8

LEMMA CreateFailed ==
  ASSUME ThreadInv, NEW c \in awaiting, c.kind = "create", CreateFails(c)
  PROVE  ThreadInv'
<1>1. PICK local : local = <<"a", c.n>>
  OBVIOUS
<1>2. PICK ok \in BOOLEAN : ok = FALSE
  OBVIOUS
<1>3. Settled(c, local, ok) /\ server' = server
  BY <1>1, <1>2 DEF CreateFails
<1>4. ~AskedId(local)
  BY <1>1 DEF AskedId
<1>5. \A m : Awaits(c, m) => ~ok /\ m.id = local
  BY <1>1, <1>2 DEF Awaits
<1>6. \A id \in DOMAIN server'.answer : server'.answer[id] \in {"COMPLETE", "ERROR"}
  BY <1>3 DEF ThreadInv, ThreadShape
<1> QED
  BY <1>3, <1>4, <1>5, <1>6, AnswerSettled

LEMMA AnswerEnded ==
  ASSUME ThreadInv, NEW c \in awaiting, c.kind = "stream", AnswerEnds(c) \/ AnswerFails(c)
  PROVE  ThreadInv'
<1>1. PICK local : local = c.local
  OBVIOUS
<1>2. ~AskedId(local) /\ (~c.got => c.track = local)
  BY <1>1 DEF ThreadInv, ThreadShape, IsCall
<1>3. \A m : Awaits(c, m) => ~c.got /\ m.id = local
  BY <1>2 DEF Awaits
<1>4. /\ DOMAIN server = {"records", "answer"}
      /\ \A id \in DOMAIN server.answer : server.answer[id] \in {"COMPLETE", "ERROR"}
  BY DEF ThreadInv, ThreadShape
<1>5. CASE AnswerEnds(c)
  <2>1. PICK ok \in BOOLEAN : ok <=> c.got
    OBVIOUS
  <2>2. Settled(c, local, ok) /\ server' = server
    BY <1>1, <1>5, <2>1 DEF AnswerEnds, Settled
  <2>3. \A m : Awaits(c, m) => ~ok /\ m.id = local
    BY <1>3, <2>1
  <2> QED
    BY <1>2, <1>4, <2>2, <2>3, AnswerSettled
<1>6. CASE AnswerFails(c)
  <2>1. PICK ok \in BOOLEAN : ok = FALSE
    OBVIOUS
  <2>2. Settled(c, local, ok)
    BY <1>1, <1>6, <2>1 DEF AnswerFails
  <2>3. /\ DOMAIN server' = DOMAIN server /\ server'.records = server.records
        /\ \A id \in DOMAIN server'.answer : server'.answer[id] \in {"COMPLETE", "ERROR"}
    BY <1>4, <1>6 DEF AnswerFails, Answering
  <2>4. \A m : Awaits(c, m) => ~ok /\ m.id = local
    BY <1>3, <2>1
  <2> QED
    BY <1>2, <2>2, <2>3, <2>4, AnswerSettled
<1> QED
  BY <1>5, <1>6

LEMMA DeltaShown ==
  ASSUME ThreadInv, NEW c \in awaiting, c.kind = "stream", TextDelta(c)
  PROVE  ThreadInv'
<1>1. ~c.got /\ ~AskedId(c.track)
  BY DEF ThreadInv, ThreadShape, IsCall, TextDelta
<1>2. UNCHANGED <<place, awaiting, server, overlaid>>
  BY DEF TextDelta
<1>3. /\ DOMAIN msg' = DOMAIN msg /\ msg'.loading = msg.loading
      /\ msg'.generating = msg.generating
      /\ Marked(msg'.messages, msg.messages, c.track, "STREAMING")
  BY DEF TextDelta, ThreadInv, ThreadShape, patchAssistantMessage, Map, Marked
<1>4. IsThread(msg.messages)
  BY DEF ThreadInv, ThreadShape
<1>5. /\ IsThread(msg'.messages)
      /\ \A m \in ToSet(msg'.messages) : m \in ToSet(msg.messages) \/ m.id = c.track
  BY <1>1, <1>3, <1>4, MarkedThread
<1>6. ThreadShape'
  BY <1>2, <1>3, <1>5 DEF ThreadInv, ThreadShape
<1>7. overlaid' \/ (Waited(msg'.messages, awaiting') /\ Settling(awaiting'))
  BY <1>1, <1>2, <1>5 DEF ThreadInv, Waited, Awaits
<1>8. Indicated(msg', place'.pending, awaiting')
  BY <1>2, <1>3 DEF ThreadInv, Indicated
<1> QED
  BY <1>6, <1>7, <1>8 DEF ThreadInv

\* What a load lists is finished.
LEMMA ContentsFinished ==
  ASSUME NEW records, IsSeq(records), NEW content, NEW ok \in BOOLEAN,
         \A id \in DOMAIN content : content[id] \in {"COMPLETE", "ERROR"},
         NEW s, s = mapMessageContentsToMessages(records, content, ok)
  PROVE  IsThread(s) /\ Finished(s)
<1> DEFINE question(r) == [Question(r.id[2], Null) EXCEPT !.id = r.id, !.mid = r.id]
           answer(r, id, status) == [PendingAnswer(r.id[2]) EXCEPT
             !.id = id, !.mid = r.id, !.status = status, !.parent = Null]
           Whole(m) == IsMessage(m) /\ ~Unfinished(m)
<1>1. ASSUME NEW r PROVE Whole(question(r))
  BY DEF Question, IsMessage, MessageFields, Unfinished
<1>2. ASSUME NEW r, NEW id, ~AskedId(id), NEW status \in {"COMPLETE", "ERROR"}
      PROVE  Whole(answer(r, id, status))
  BY <1>2 DEF PendingAnswer, IsMessage, MessageFields, Unfinished
<1>3. \A n : ~AskedId(<<"e", n>>) /\ ~AskedId(<<"c", n>>)
  BY DEF AskedId
<1>4. Len(records) \in Nat
  BY Elements
<1>5. CASE ~ok
  <2>1. s = [i \in 1..Len(records) |->
               answer(records[i], <<"e", records[i].id[2]>>, "ERROR")]
    BY <1>5 DEF mapMessageContentsToMessages
  <2>2. \A i \in 1..Len(records) : Whole(s[i])
    <3> TAKE i \in 1..Len(records)
    <3>1. PICK id : id = <<"e", records[i].id[2]>>
      OBVIOUS
    <3>2. PICK status \in {"COMPLETE", "ERROR"} : status = "ERROR"
      OBVIOUS
    <3>3. PICK r : r = records[i]
      OBVIOUS
    <3>4. s[i] = answer(r, id, status)
      BY <2>1, <3>1, <3>2, <3>3
    <3>5. ~AskedId(id)
      BY <1>3, <3>1
    <3> HIDE DEF answer, Whole
    <3> QED
      BY <1>2, <3>4, <3>5
  <2>3. s = [i \in 1..Len(records) |-> s[i]]
    BY <2>1
  <2> HIDE DEF answer
  <2>4. IsThread(s) /\ \A m \in ToSet(s) : \E i \in 1..Len(records) : m = s[i]
    BY <1>4, <2>2, <2>3, ThreadListed
  <2> QED
    BY <2>2, <2>4 DEF Finished
<1>6. CASE ok
  <2>1. PICK held : held = {i \in 1..Len(records) : records[i].id \in DOMAIN content}
    OBVIOUS
  <2>2. held \in SUBSET (1..Len(records)) /\ \A i \in held : records[i].id \in DOMAIN content
    BY <2>1
  <2>3. Cardinality(held) \in Nat
    <3>1. IsFiniteSet(1..Len(records))
      BY <1>4, FS_Interval
    <3>2. IsFiniteSet(held)
      BY <2>2, <3>1, FS_Subset
    <3> QED
      BY <3>2, FS_CardinalityType
  <2>4. PICK size \in Nat : size = 2 * Cardinality(held)
    BY <2>3
  <2> DEFINE turn(p) == records[Nth(held, (p + 1) \div 2)]
  <2>5. s = [p \in 1..size |->
               IF p % 2 = 1 THEN question(turn(p))
               ELSE answer(turn(p), <<"c", turn(p).id[2]>>, content[turn(p).id])]
    BY <1>6, <2>1, <2>4 DEF mapMessageContentsToMessages
  <2>6. \A p \in 1..size : Whole(s[p])
    <3> TAKE p \in 1..size
    <3>1. (p + 1) \div 2 \in 1..Cardinality(held)
      BY <2>3, <2>4
    <3>2. Nth(held, (p + 1) \div 2) \in held
      BY <1>4, <2>2, <3>1, NthIn
    <3>3. PICK r : r = turn(p)
      OBVIOUS
    <3>4. r.id \in DOMAIN content
      BY <2>2, <3>2, <3>3
    <3>5. PICK id : id = <<"c", r.id[2]>>
      OBVIOUS
    <3>6. PICK status \in {"COMPLETE", "ERROR"} : status = content[r.id]
      BY <3>4
    <3>7. s[p] = question(r) \/ s[p] = answer(r, id, status)
      BY <2>5, <3>3, <3>5, <3>6
    <3>8. ~AskedId(id)
      BY <1>3, <3>5
    <3> HIDE DEF question, answer, Whole
    <3> QED
      BY <1>1, <1>2, <3>7, <3>8
  <2>7. s = [p \in 1..size |-> s[p]]
    BY <2>5
  <2> HIDE DEF question, answer, turn
  <2>8. IsThread(s) /\ \A m \in ToSet(s) : \E p \in 1..size : m = s[p]
    BY <2>4, <2>6, <2>7, ThreadListed
  <2> QED
    BY <2>6, <2>8 DEF Finished
<1> QED
  BY <1>5, <1>6

LEMMA LoadedFinished ==
  ASSUME NEW m,
         DOMAIN m = {"messages", "records", "active", "loading", "generating", "loadError"},
         NEW records, IsSeq(records), NEW content, NEW ok \in BOOLEAN,
         \A id \in DOMAIN content : content[id] \in {"COMPLETE", "ERROR"},
         NEW new, new = Loaded(m, records, content, ok)
  PROVE  /\ DOMAIN new = DOMAIN m /\ IsThread(new.messages) /\ Finished(new.messages)
         /\ ~new.loading /\ new.generating = m.generating
<1>1. PICK s : s = mapMessageContentsToMessages(records, content, ok)
  OBVIOUS
<1>2. IsThread(s) /\ Finished(s)
  BY <1>1, ContentsFinished
<1>3. PICK t : t = applyMessageMetadataToMessages(s, records)
  OBVIOUS
<1>4. /\ DOMAIN new = DOMAIN m /\ new.messages = t /\ ~new.loading
      /\ new.generating = m.generating
  BY <1>1, <1>3 DEF Loaded
<1>5. t = [i \in 1..Len(s) |-> t[i]]
  BY <1>3 DEF applyMessageMetadataToMessages
<1>6. Len(s) \in Nat /\ \A i \in 1..Len(s) : s[i] \in ToSet(s) /\ IsMessage(s[i])
  BY <1>2, ThreadElements
<1>7. \A i \in 1..Len(s) : \/ t[i] = s[i]
                           \/ \E parent, rated :
                                t[i] = [s[i] EXCEPT !.parent = parent, !.rated = rated]
  BY <1>3 DEF applyMessageMetadataToMessages
<1>8. \A i \in 1..Len(s) : IsMessage(t[i]) /\ ~Unfinished(t[i])
  BY <1>2, <1>6, <1>7, ZenonT(30) DEF IsMessage, MessageFields, Finished, Unfinished
<1>9. IsThread(t) /\ \A x \in ToSet(t) : \E i \in 1..Len(s) : x = t[i]
  BY <1>5, <1>6, <1>8, ThreadListed
<1> QED
  BY <1>4, <1>8, <1>9 DEF Finished

\* The server has named a question: its answer is streamed from then on.
LEMMA CreateDone ==
  ASSUME ThreadInv, NEW c \in awaiting, c.kind = "create", CreateAnswered(c)
  PROVE  ThreadInv'
<1>1. /\ DOMAIN msg = {"messages", "records", "active", "loading", "generating", "loadError"}
      /\ IsThread(msg.messages) /\ IsThread(c.snap.messages)
      /\ DOMAIN server = {"records", "answer"} /\ DOMAIN server.records = ChatRooms
      /\ \A r \in ChatRooms : IsSeq(server.records[r])
      /\ \A id \in DOMAIN server.answer : server.answer[id] \in {"COMPLETE", "ERROR"}
  BY DEF ThreadInv, ThreadShape, IsCall
<1>2. PICK stream : stream = Stream(c.n, c.room, <<"m", c.n>>, <<"a", c.n>>, c.first, c.edit,
                                    c.snap)
  OBVIOUS
<1>3. PICK e : e = [field \in DOMAIN stream \cup {"alone"} |->
                      IF field = "alone" THEN c.alone ELSE stream[field]]
  OBVIOUS
<1>4. awaiting' = (awaiting \ {c}) \cup {e} /\ place' = place /\ (overlaid => overlaid')
  BY <1>2, <1>3 DEF CreateAnswered
<1>5. /\ e.kind = "stream" /\ e.n = c.n /\ e.first = c.first /\ e.snap = c.snap
      /\ e.alone = c.alone /\ ~e.got /\ e.track = <<"a", c.n>> /\ e.local = <<"a", c.n>>
      /\ DOMAIN e = {"kind", "n", "room", "mid", "track", "local", "got", "first", "edit",
                     "snap", "alone"}
  BY <1>2, <1>3 DEF Stream
<1>6. IsCall(e)
  <2>1. ~AskedId(<<"a", c.n>>)
    BY DEF AskedId
  <2> QED
    BY <1>1, <1>5, <2>1 DEF IsCall
<1>7. PICK s : s = msg.messages
  OBVIOUS
<1>8. PICK t : t = namedMessages(c)
  OBVIOUS
<1>9. /\ DOMAIN msg' = DOMAIN msg /\ msg'.messages = t /\ msg'.loading = msg.loading
      /\ msg'.generating = msg.generating
  BY <1>1, <1>8 DEF CreateAnswered
<1>10. PICK mid : mid = <<"m", c.n>>
  OBVIOUS
<1>11. t = [i \in 1..Len(s) |->
              IF s[i].id = <<"q", c.n>> THEN [s[i] EXCEPT !.id = mid, !.mid = mid]
              ELSE IF s[i].id = <<"a", c.n>> THEN [s[i] EXCEPT !.mid = mid, !.parent = mid]
              ELSE s[i]]
  BY <1>7, <1>8, <1>10 DEF namedMessages
<1>12. Len(s) \in Nat /\ \A i \in 1..Len(s) : s[i] \in ToSet(s) /\ IsMessage(s[i])
  BY <1>1, <1>7, ThreadElements
<1>13. \A i \in 1..Len(s) :
         \/ s[i].id = <<"q", c.n>> /\ t[i] = [s[i] EXCEPT !.id = mid, !.mid = mid]
         \/ t[i] = [s[i] EXCEPT !.mid = mid, !.parent = mid]
         \/ t[i] = s[i]
  BY <1>11
<1>14. ~AskedId(mid) /\ AskedId(<<"q", c.n>>)
  BY <1>10 DEF AskedId
<1>15. \A i \in 1..Len(s) :
         IsMessage(t[i]) /\ (Unfinished(t[i]) => t[i].id = s[i].id /\ Unfinished(s[i]))
  BY <1>12, <1>13, <1>14 DEF IsMessage, MessageFields, Unfinished
<1>16. t = [i \in 1..Len(s) |-> t[i]]
  BY <1>11
<1>17. IsThread(t) /\ \A m \in ToSet(t) : \E i \in 1..Len(s) : m = t[i]
  BY <1>12, <1>15, <1>16, ThreadListed
<1>18. ThreadShape'
  <2>1. DOMAIN server' = DOMAIN server /\ server'.answer = server.answer
    BY <1>1 DEF CreateAnswered
  <2>2. /\ DOMAIN server'.records = ChatRooms
        /\ \A r \in ChatRooms : IsSeq(server'.records[r])
    <3>1. PICK q : q = NewRecord(c)
      OBVIOUS
    <3>2. /\ DOMAIN server'.records = ChatRooms
          /\ \A r \in ChatRooms : \/ server'.records[r] = server.records[r]
                                  \/ server'.records[r] = Append(server.records[r], q)
      BY <1>1, <3>1 DEF CreateAnswered
    <3>3. ASSUME NEW u, IsSeq(u) PROVE IsSeq(Append(u, q))
      <4>1. PICK v : v = Append(u, q)
        OBVIOUS
      <4>2. Len(u) \in Nat
        BY <3>3, Elements
      <4>3. v = [i \in 1..(Len(u) + 1) |-> v[i]]
        <5>1. u \in Seq(ToSet(u))
          BY <3>3 DEF IsSeq
        <5>2. v \in Seq(ToSet(u) \cup {q}) /\ Len(v) = Len(u) + 1
          BY <4>1, <5>1
        <5> QED
          BY <5>2
      <4>4. Len(u) + 1 \in Nat
        BY <4>2
      <4>5. PICK n \in Nat : n = Len(u) + 1
        BY <4>4
      <4> QED
        BY <4>1, <4>3, <4>5, Listed
    <3> QED
      BY <1>1, <3>2, <3>3
  <2>3. \A d \in awaiting' : IsCall(d)
    BY <1>4, <1>6 DEF ThreadInv, ThreadShape
  <2>4. DOMAIN place' = {"room", "shown", "pending"}
    BY <1>4 DEF ThreadInv, ThreadShape
  <2> QED
    BY <1>1, <1>9, <1>17, <2>1, <2>2, <2>3, <2>4 DEF ThreadShape
<1>19. overlaid' \/ Settling(awaiting')
  BY <1>4, <1>5 DEF ThreadInv, Settling
<1>20. ASSUME NEW m, \E d \in awaiting : Awaits(d, m)
       PROVE  \A x : x.id = m.id => \E d \in awaiting' : Awaits(d, x)
  BY <1>4, <1>5, <1>20 DEF Awaits
<1>21. overlaid' \/ Waited(t, awaiting')
  <2> SUFFICES ASSUME Waited(s, awaiting) PROVE Waited(t, awaiting')
    BY <1>4, <1>7 DEF ThreadInv
  <2>1. ASSUME NEW m \in ToSet(t), Unfinished(m) PROVE \E d \in awaiting' : Awaits(d, m)
    <3>1. PICK i \in 1..Len(s) : m = t[i]
      BY <1>17, <2>1
    <3>2. m.id = s[i].id /\ Unfinished(s[i]) /\ s[i] \in ToSet(s)
      BY <1>12, <1>15, <2>1, <3>1
    <3>3. \E d \in awaiting : Awaits(d, s[i])
      BY <3>2 DEF Waited
    <3> QED
      BY <1>20, <3>2, <3>3
  <2> QED
    BY <2>1 DEF Waited
<1>22. Indicated(msg', place'.pending, awaiting')
  BY <1>4, <1>5, <1>9 DEF ThreadInv, Indicated
<1> QED
  BY <1>9, <1>18, <1>19, <1>21, <1>22 DEF ThreadInv

\* The whole answer came: nobody waits for it any longer.
LEMMA ContentShown ==
  ASSUME ThreadInv, NEW c \in awaiting, c.kind = "stream", MessageContent(c)
  PROVE  ThreadInv'
<1>1. /\ DOMAIN msg = {"messages", "records", "active", "loading", "generating", "loadError"}
      /\ IsThread(msg.messages) /\ IsThread(c.snap.messages)
      /\ DOMAIN server = {"records", "answer"} /\ DOMAIN server.records = ChatRooms
      /\ \A id \in DOMAIN server.answer : server.answer[id] \in {"COMPLETE", "ERROR"}
      /\ ~AskedId(c.local)
      /\ DOMAIN c = {"kind", "n", "room", "mid", "track", "local", "got", "first", "edit",
                     "snap", "alone"}
  BY DEF ThreadInv, ThreadShape, IsCall
<1>2. PICK id : id = <<"c", c.n>>
  OBVIOUS
<1>3. ~AskedId(id)
  BY <1>2 DEF AskedId
<1>4. PICK s : s = msg.messages
  OBVIOUS
<1>5. PICK status \in {"COMPLETE", "ERROR"} :
        /\ msg' = [msg EXCEPT !.messages =
             [i \in 1..Len(s) |->
                IF s[i].id = c.track
                THEN [s[i] EXCEPT !.id = id, !.mid = c.mid, !.status = status, !.rated = FALSE]
                ELSE s[i]]]
        /\ server' = [server EXCEPT !.answer = Answering(@, c.mid, status)]
  BY <1>2, <1>4 DEF MessageContent, patchAssistantMessage, Map
<1>6. PICK e : e = [c EXCEPT !.track = id, !.got = TRUE]
  OBVIOUS
<1>7. /\ awaiting' = (awaiting \ {c}) \cup {e} /\ place' = place /\ overlaid' = overlaid
      /\ ~c.got
  BY <1>2, <1>6 DEF MessageContent
<1>8. /\ e.kind = "stream" /\ e.n = c.n /\ e.first = c.first /\ e.snap = c.snap
      /\ e.alone = c.alone /\ e.got /\ e.local = c.local
      /\ DOMAIN e = DOMAIN c
  BY <1>1, <1>6
<1>9. IsCall(e)
  BY <1>1, <1>8 DEF IsCall
<1>10. PICK t : t = msg'.messages
  OBVIOUS
<1>11. /\ DOMAIN msg' = DOMAIN msg /\ msg'.loading = msg.loading
       /\ msg'.generating = msg.generating
       /\ t = [i \in 1..Len(s) |->
                 IF s[i].id = c.track
                 THEN [s[i] EXCEPT !.id = id, !.mid = c.mid, !.status = status, !.rated = FALSE]
                 ELSE s[i]]
  BY <1>1, <1>5, <1>10
<1>12. Len(s) \in Nat /\ \A i \in 1..Len(s) : s[i] \in ToSet(s) /\ IsMessage(s[i])
  BY <1>1, <1>4, ThreadElements
<1>13. \A i \in 1..Len(s) :
         /\ IsMessage(t[i])
         /\ Unfinished(t[i]) => t[i] = s[i] /\ s[i].id # c.track
  BY <1>3, <1>11, <1>12 DEF IsMessage, MessageFields, Unfinished
<1>14. t = [i \in 1..Len(s) |-> t[i]]
  BY <1>11
<1>15. IsThread(t) /\ \A m \in ToSet(t) : \E i \in 1..Len(s) : m = t[i]
  BY <1>12, <1>13, <1>14, ThreadListed
<1>16. ThreadShape'
  <2>1. DOMAIN server' = DOMAIN server /\ server'.records = server.records
    BY <1>1, <1>5
  <2>2. \A k \in DOMAIN server'.answer : server'.answer[k] \in {"COMPLETE", "ERROR"}
    BY <1>1, <1>5 DEF Answering
  <2>3. \A d \in awaiting' : IsCall(d)
    BY <1>7, <1>9 DEF ThreadInv, ThreadShape
  <2> QED
    BY <1>7, <1>10, <1>11, <1>15, <2>1, <2>2, <2>3 DEF ThreadInv, ThreadShape
<1>17. overlaid' \/ Settling(awaiting')
  BY <1>7, <1>8 DEF ThreadInv, Settling
<1>18. overlaid' \/ Waited(t, awaiting')
  <2> SUFFICES ASSUME Waited(s, awaiting) PROVE Waited(t, awaiting')
    BY <1>4, <1>7 DEF ThreadInv
  <2>1. ASSUME NEW m \in ToSet(t), Unfinished(m) PROVE \E d \in awaiting' : Awaits(d, m)
    <3>1. PICK i \in 1..Len(s) : m = t[i]
      BY <1>15, <2>1
    <3>2. m \in ToSet(s) /\ m.id # c.track
      BY <1>12, <1>13, <2>1, <3>1
    <3>3. PICK d \in awaiting : Awaits(d, m)
      BY <2>1, <3>2 DEF Waited
    <3>4. d # c
      BY <3>2, <3>3 DEF Awaits
    <3> QED
      BY <1>7, <3>3, <3>4
  <2> QED
    BY <2>1 DEF Waited
<1>19. Indicated(msg', place'.pending, awaiting')
  BY <1>7, <1>8, <1>11 DEF ThreadInv, Indicated
<1> QED
  BY <1>10, <1>16, <1>17, <1>18, <1>19 DEF ThreadInv

\* Nothing is overlaid any more only once the load that was alone has ended.
LEMMA LastEnded ==
  ASSUME Alone(awaiting), NEW c \in awaiting, awaiting' = awaiting \ {c},
         overlaid' = StaysOverlaid(c.alone), ~overlaid'
  PROVE  c.alone /\ awaiting = {c} /\ awaiting' = {} /\ (overlaid => Rooted)
  BY DEF Alone, StaysOverlaid

LEMMA ListDone ==
  ASSUME ThreadInv, Alone(awaiting), NEW c \in awaiting, c.kind = "list", ListAnswered(c)
  PROVE  ThreadInv'
<1>1. PICK records : records = server.records[c.room]
  OBVIOUS
<1>2. IsSeq(records) /\ UNCHANGED <<place, server>>
  BY <1>1 DEF ThreadInv, ThreadShape, IsCall, ListAnswered
<1>3. CASE records = <<>>
  <2>1. /\ msg' = [msg EXCEPT !.messages = <<>>, !.records = <<>>, !.loading = FALSE]
        /\ awaiting' = awaiting \ {c} /\ overlaid' = StaysOverlaid(c.alone)
    BY <1>1, <1>3 DEF ListAnswered
  <2>2. DOMAIN msg = {"messages", "records", "active", "loading", "generating", "loadError"}
    BY DEF ThreadInv, ThreadShape
  <2>3. /\ DOMAIN msg' = DOMAIN msg /\ msg'.messages = <<>> /\ ~msg'.loading
        /\ msg'.generating = msg.generating
    BY <2>1, <2>2
  <2>4. ThreadShape'
    BY <1>2, <2>1, <2>3, EmptyThread DEF ThreadInv, ThreadShape
  <2>5. Waited(msg'.messages, awaiting') /\ (overlaid' \/ Settling(awaiting'))
    BY <2>1, <2>3, LastEnded, EmptyThread DEF Waited, Settling
  <2>6. Indicated(msg', place'.pending, awaiting')
    BY <1>2, <2>1, <2>3 DEF ThreadInv, Indicated
  <2> QED
    BY <2>4, <2>5, <2>6 DEF ThreadInv
<1>4. CASE records # <<>>
  <2>1. PICK e : e = [kind |-> "contents", n |-> c.n, room |-> c.room, alone |-> c.alone,
                      records |-> records]
    OBVIOUS
  <2>2. awaiting' = (awaiting \ {c}) \cup {e} /\ UNCHANGED <<msg, overlaid>>
    BY <1>1, <1>4, <2>1 DEF ListAnswered
  <2>3. e.kind = "contents" /\ IsCall(e)
    BY <1>2, <2>1 DEF IsCall
  <2>4. ThreadShape'
    BY <1>2, <2>2, <2>3 DEF ThreadInv, ThreadShape
  <2>5. overlaid' \/ (Waited(msg'.messages, awaiting') /\ Settling(awaiting'))
    BY <2>2, <2>3 DEF ThreadInv, Waited, Settling, Awaits
  <2>6. Indicated(msg', place'.pending, awaiting')
    BY <1>2, <2>2, <2>3 DEF ThreadInv, Indicated
  <2> QED
    BY <2>4, <2>5, <2>6 DEF ThreadInv
<1> QED
  BY <1>3, <1>4

LEMMA LoadDone ==
  ASSUME ThreadInv, Alone(awaiting), NEW c \in awaiting, c.kind \in {"list", "contents"},
         LoadFails(c) \/ (c.kind = "contents" /\ ContentsAnswered(c))
  PROVE  ThreadInv'
<1>1. /\ DOMAIN msg = {"messages", "records", "active", "loading", "generating", "loadError"}
      /\ \A id \in DOMAIN server.answer : server.answer[id] \in {"COMPLETE", "ERROR"}
  BY DEF ThreadInv, ThreadShape
<1>2. /\ awaiting' = awaiting \ {c} /\ overlaid' = StaysOverlaid(c.alone)
      /\ UNCHANGED <<place, server>>
  BY DEF LoadFails, ContentsAnswered
<1>3. /\ DOMAIN msg' = DOMAIN msg /\ IsThread(msg'.messages) /\ Finished(msg'.messages)
      /\ ~msg'.loading /\ msg'.generating = msg.generating
  <2>1. CASE LoadFails(c)
    <3>1. msg'.messages = <<>>
      BY <1>1, <2>1 DEF LoadFails
    <3> QED
      BY <1>1, <2>1, <3>1, EmptyThread DEF LoadFails, Finished
  <2>2. CASE c.kind = "contents" /\ ContentsAnswered(c)
    <3>1. IsSeq(c.records)
      BY <2>2 DEF ThreadInv, ThreadShape, IsCall
    <3>2. PICK ok \in BOOLEAN : msg' = Loaded(msg, c.records, server.answer, ok)
      BY <2>2 DEF ContentsAnswered
    <3>3. PICK records : records = c.records
      OBVIOUS
    <3>4. PICK new : new = Loaded(msg, records, server.answer, ok)
      OBVIOUS
    <3>5. new = msg'
      BY <3>2, <3>3, <3>4
    <3>6. PICK content : content = server.answer
      OBVIOUS
    <3>7. PICK m : m = msg
      OBVIOUS
    <3>8. IsSeq(records) /\ new = Loaded(m, records, content, ok)
      BY <3>1, <3>3, <3>4, <3>6, <3>7
    <3>9. /\ DOMAIN m = {"messages", "records", "active", "loading", "generating", "loadError"}
          /\ \A id \in DOMAIN content : content[id] \in {"COMPLETE", "ERROR"}
      BY <1>1, <3>6, <3>7
    <3>10. /\ DOMAIN new = DOMAIN m /\ IsThread(new.messages) /\ Finished(new.messages)
           /\ ~new.loading /\ new.generating = m.generating
      BY <3>8, <3>9, LoadedFinished
    <3> QED
      BY <3>5, <3>7, <3>10
  <2> QED
    BY <2>1, <2>2
<1>4. ThreadShape'
  BY <1>2, <1>3 DEF ThreadInv, ThreadShape
<1>5. Waited(msg'.messages, awaiting') /\ (overlaid' \/ Settling(awaiting'))
  BY <1>2, <1>3, LastEnded DEF Waited, Settling, Finished
<1>6. Indicated(msg', place'.pending, awaiting')
  BY <1>2, <1>3 DEF ThreadInv, Indicated
<1> QED
  BY <1>4, <1>5, <1>6 DEF ThreadInv

LEMMA DeletionDone ==
  ASSUME ThreadInv, NEW c \in awaiting, c.kind = "delete", DeleteAnswered(c)
  PROVE  ThreadInv'
<1>1. /\ DOMAIN msg = {"messages", "records", "active", "loading", "generating", "loadError"}
      /\ IsThread(msg.messages)
      /\ DOMAIN server = {"records", "answer"} /\ DOMAIN server.records = ChatRooms
      /\ \A r \in ChatRooms : IsSeq(server.records[r])
      /\ \A id \in DOMAIN server.answer : server.answer[id] \in {"COMPLETE", "ERROR"}
  BY DEF ThreadInv, ThreadShape
<1>2. PICK removed, records, active :
        /\ msg' = [msg EXCEPT
             !.messages = At(@, {i \in 1..Len(@) : {@[i].mid, @[i].id} \cap removed = {}}),
             !.records = records, !.active = active]
        /\ server' = [server EXCEPT !.records =
             [r \in ChatRooms |-> recordsLeft(@[r], removedWith(@[r], c.id))]]
  BY ZenonT(30) DEF DeleteAnswered
<1>3. PICK s : s = msg.messages
  OBVIOUS
<1>4. PICK S \in SUBSET (1..Len(s)) :
        S = {i \in 1..Len(s) : {s[i].mid, s[i].id} \cap removed = {}}
  OBVIOUS
<1>5. /\ DOMAIN msg' = DOMAIN msg /\ msg'.messages = At(s, S) /\ msg'.loading = msg.loading
      /\ msg'.generating = msg.generating
  BY <1>1, <1>2, <1>3, <1>4
<1>6. IsSeq(s) /\ \A m \in ToSet(s) : IsMessage(m)
  BY <1>1, <1>3 DEF IsThread
<1>7. IsSeq(At(s, S)) /\ ToSet(At(s, S)) \subseteq ToSet(s)
  BY <1>6, Chosen
<1>8. IsThread(msg'.messages) /\ ToSet(msg'.messages) \subseteq ToSet(msg.messages)
  BY <1>3, <1>5, <1>6, <1>7 DEF IsThread
<1>9. DOMAIN server' = DOMAIN server /\ server'.answer = server.answer
  BY <1>1, <1>2
<1>10. /\ DOMAIN server'.records = ChatRooms
       /\ \A r \in ChatRooms : IsSeq(server'.records[r])
  <2>1. server'.records =
          [r \in ChatRooms |-> recordsLeft(server.records[r], removedWith(server.records[r], c.id))]
    BY <1>1, <1>2
  <2>2. ASSUME NEW r \in ChatRooms PROVE IsSeq(server'.records[r])
    <3>1. PICK u : u = server.records[r]
      OBVIOUS
    <3>2. PICK gone : gone = removedWith(u, c.id)
      OBVIOUS
    <3>3. PICK U \in SUBSET (1..Len(u)) : U = {i \in 1..Len(u) : u[i].id \notin gone}
      OBVIOUS
    <3>4. server'.records[r] = At(u, U)
      BY <2>1, <3>1, <3>2, <3>3 DEF recordsLeft
    <3>5. IsSeq(u)
      BY <1>1, <3>1
    <3> QED
      BY <3>4, <3>5, Chosen
  <2> QED
    BY <2>1, <2>2
<1>11. /\ awaiting' = awaiting \ {c} /\ place' = place /\ (overlaid => overlaid')
  BY DEF DeleteAnswered
<1>12. \A m : ~Awaits(c, m)
  BY DEF Awaits
<1> QED
  BY <1>1, <1>5, <1>8, <1>9, <1>10, <1>11, <1>12, HandlerEnded

LEMMA RatingDone ==
  ASSUME ThreadInv, NEW c \in awaiting, c.kind = "rate", RateFails(c)
  PROVE  ThreadInv'
<1>1. /\ DOMAIN msg = {"messages", "records", "active", "loading", "generating", "loadError"}
      /\ DOMAIN server.records = ChatRooms
      /\ \A r \in ChatRooms : IsSeq(server.records[r])
      /\ \A id \in DOMAIN server.answer : server.answer[id] \in {"COMPLETE", "ERROR"}
      /\ IsThread(c.snap.messages)
  BY DEF ThreadInv, ThreadShape, IsCall
<1>2. /\ DOMAIN msg' = DOMAIN msg /\ msg'.messages = c.snap.messages
      /\ msg'.loading = msg.loading /\ msg'.generating = msg.generating
  BY <1>1 DEF RateFails
<1>3. /\ awaiting' = awaiting \ {c} /\ UNCHANGED <<place, server>>
      /\ (overlaid => overlaid') /\ (~c.alone => overlaid')
  BY DEF RateFails
<1>4. overlaid' \/ \A m \in ToSet(msg'.messages) : ~Unfinished(m)
  BY <1>2, <1>3 DEF ThreadInv, Settling, Finished
<1> QED
  BY <1>1, <1>2, <1>3, <1>4, HandlerEnded

LEMMA NothingDone ==
  ASSUME ThreadInv, NEW c \in awaiting, c.kind \in {"delete", "rate"},
         awaiting' = awaiting \ {c}, UNCHANGED <<msg, place, server, overlaid>>
  PROVE  ThreadInv'
<1>1. /\ IsThread(msg.messages) /\ DOMAIN server.records = ChatRooms
      /\ \A r \in ChatRooms : IsSeq(server.records[r])
      /\ \A id \in DOMAIN server.answer : server.answer[id] \in {"COMPLETE", "ERROR"}
  BY DEF ThreadInv, ThreadShape
<1>2. \A m : ~Awaits(c, m)
  BY DEF Awaits
<1> QED
  BY <1>1, <1>2, HandlerEnded

----------------------------------------------------------------------------
(* The invariant.                                                          *)

LEMMA ThreadAtFirst ==
  ASSUME ThreadInit
  PROVE  ThreadInv
<1>1. PICK n \in Before :
        LET versions == [i \in 1..n |-> [id |-> <<"m", MaxDid + i>>, room |-> FirstRoom,
                                        parent |-> Null, rated |-> FALSE]]
            content == [id \in Ids(versions) |-> "COMPLETE"]
            room == IF n = 0 THEN NoChatRoom ELSE FirstRoom
        IN  /\ msg = Loaded(ClearedThread, versions, content, TRUE)
            /\ place = [room |-> room, shown |-> room, pending |-> 0]
            /\ awaiting = {}
            /\ server = [answer |-> content,
                         records |-> [r \in ChatRooms |->
                                        IF r = FirstRoom THEN versions ELSE <<>>]]
            /\ overlaid = FALSE /\ did = 0
  BY DEF ThreadInit
<1>2. PICK versions : versions = [i \in 1..n |-> [id |-> <<"m", MaxDid + i>>,
                                    room |-> FirstRoom, parent |-> Null, rated |-> FALSE]]
  OBVIOUS
<1>3. PICK content : content = [id \in Ids(versions) |-> "COMPLETE"]
  OBVIOUS
<1>4. PICK room : room = IF n = 0 THEN NoChatRoom ELSE FirstRoom
  OBVIOUS
<1>5. PICK ok \in BOOLEAN : ok = TRUE
  OBVIOUS
<1>6. PICK m : m = ClearedThread
  OBVIOUS
<1>7. /\ msg = Loaded(m, versions, content, ok)
      /\ place = [room |-> room, shown |-> room, pending |-> 0]
      /\ awaiting = {} /\ overlaid = FALSE
      /\ server = [answer |-> content,
                   records |-> [r \in ChatRooms |-> IF r = FirstRoom THEN versions ELSE <<>>]]
  BY <1>1, <1>2, <1>3, <1>4, <1>5, <1>6
<1>8. IsSeq(versions)
  <2>1. n \in Nat
    BY ThreadAssumption
  <2>2. versions = [i \in 1..n |-> versions[i]]
    BY <1>2
  <2> QED
    BY <2>1, <2>2, Listed
<1>9. \A id \in DOMAIN content : content[id] \in {"COMPLETE", "ERROR"}
  BY <1>3
<1>10. /\ DOMAIN m = {"messages", "records", "active", "loading", "generating", "loadError"}
       /\ ~m.generating
  BY <1>6 DEF ClearedThread
<1>11. PICK new : new = msg
  OBVIOUS
<1>12. new = Loaded(m, versions, content, ok)
  BY <1>7, <1>11
<1>13. /\ DOMAIN new = DOMAIN m /\ IsThread(new.messages) /\ Finished(new.messages)
       /\ ~new.loading /\ new.generating = m.generating
  BY <1>8, <1>9, <1>10, <1>12, LoadedFinished
<1>14. ThreadShape
  BY <1>7, <1>8, <1>9, <1>10, <1>11, <1>13, EmptyThread DEF ThreadShape
<1>15. Waited(msg.messages, awaiting) /\ Settling(awaiting)
  BY <1>7, <1>11, <1>13 DEF Waited, Settling, Finished
<1>16. Indicated(msg, place.pending, awaiting)
  BY <1>7, <1>10, <1>11, <1>13 DEF Indicated
<1> QED
  BY <1>14, <1>15, <1>16 DEF ThreadInv

LEMMA ThreadStep ==
  ASSUME ThreadInv, Alone(awaiting), [ThreadNext]_threadVars
  PROVE  ThreadInv'
<1>1. CASE startNewChat
  BY <1>1, ChatStarted
<1>2. ASSUME NEW r \in ChatRooms, OpenRoomPage(r) \/ selectRoom(r) PROVE ThreadInv'
  BY <1>2, RoomOpened
<1>3. ASSUME NEW r \in ChatRooms, FirstSend(r) PROVE ThreadInv'
  BY <1>3, SentInRoom
<1>4. CASE sendInRoom
  BY <1>4, SentInRoom
<1>5. ASSUME NEW m \in ToSet(msg.messages),
             editMessage(m) \/ resendMessage(m) \/ deleteMessage(m) \/ rateMessage(m)
      PROVE  ThreadInv'
  BY <1>5, SentInRoom, Resent, DeletionBegun, RatingBegun
<1>6. ASSUME NEW g, NEW step, switchVersion(g, step) PROVE ThreadInv'
  BY <1>6, VersionSwitched
<1>7. ASSUME NEW c \in awaiting, Answered(c) PROVE ThreadInv'
  <2>1. CASE c.kind = "create" /\ (CreateAnswered(c) \/ CreateFails(c))
    BY <2>1, CreateDone, CreateFailed
  <2>2. CASE c.kind = "stream" /\ TextDelta(c)
    BY <2>2, DeltaShown
  <2>3. CASE c.kind = "stream" /\ MessageContent(c)
    BY <2>3, ContentShown
  <2>4. CASE c.kind = "stream" /\ (AnswerEnds(c) \/ AnswerFails(c))
    BY <2>4, AnswerEnded
  <2>5. CASE c.kind = "list" /\ ListAnswered(c)
    BY <2>5, ListDone
  <2>6. CASE \/ c.kind \in {"list", "contents"} /\ LoadFails(c)
             \/ c.kind = "contents" /\ ContentsAnswered(c)
    BY <2>6, LoadDone
  <2>7. CASE c.kind = "delete" /\ DeleteAnswered(c)
    BY <2>7, DeletionDone
  <2>8. CASE c.kind = "rate" /\ RateFails(c)
    BY <2>8, RatingDone
  <2>9. CASE /\ c.kind \in {"delete", "rate"}
             /\ awaiting' = awaiting \ {c}
             /\ UNCHANGED <<msg, place, server, overlaid, did>>
    BY <2>9, NothingDone
  <2> QED
    BY <1>7, <2>1, <2>2, <2>3, <2>4, <2>5, <2>6, <2>7, <2>8, <2>9 DEF Answered
<1>8. CASE UNCHANGED threadVars
  BY <1>8 DEF threadVars, ThreadInv, ThreadShape
<1> QED
  BY <1>1, <1>2, <1>3, <1>4, <1>5, <1>6, <1>7, <1>8 DEF ThreadNext

----------------------------------------------------------------------------
(***************************************************************************)
(* The shape of the thread, for any rooms and any number of operations.    *)
(*                                                                         *)
(* Records are a tree of the open room's (OfRoom), an index names a        *)
(* version (Indexed), and a question of the thread is of a record unless   *)
(* the server has not named it (MessageFits).  A call that was alone       *)
(* brings back what is whole (Brings), and one that crossed a load will be *)
(* seen to (Crossed).                                                      *)
(***************************************************************************)

RecordFields == {"id", "room", "parent", "rated"}

\* Records without repetition, and those whose parents are among them.
Apart(recs) ==
  /\ IsSeq(recs)
  /\ \A i \in 1..Len(recs) : DOMAIN recs[i] = RecordFields
  /\ \A i, j \in 1..Len(recs) : recs[i].id = recs[j].id => i = j

IsTree(recs) ==
  /\ IsSeq(recs)
  /\ \A i \in 1..Len(recs) : DOMAIN recs[i] = RecordFields
  /\ \A i, j \in 1..Len(recs) : recs[i].id = recs[j].id => i = j
  /\ \A i \in 1..Len(recs) : recs[i].parent \in Ids(recs) \cup {Null}

HasRecord(recs, id, parent) ==
  \E i \in 1..Len(recs) : recs[i].id = id /\ recs[i].parent = parent

Versions(recs, g) == {i \in 1..Len(recs) : recs[i].parent = g}

----------------------------------------------------------------------------
(* Records.                                                                *)

\* The versions of a question are counted by its siblings.
LEMMA VersionsCounted ==
  ASSUME NEW s, IsSeq(s), NEW g
  PROVE  /\ IsFiniteSet(Versions(s, g)) /\ Cardinality(Versions(s, g)) \in Nat
         /\ Len(getSiblingRecords(s, g)) = Cardinality(Versions(s, g))
         /\ \A i \in Versions(s, g) :
              \E k \in 1..Cardinality(Versions(s, g)) : getSiblingRecords(s, g)[k] = s[i]
<1>1. PICK n \in Nat : n = Len(s)
  BY Elements
<1>2. PICK S : S = Versions(s, g)
  OBVIOUS
<1>3. S = {i \in 1..Len(s) : s[i].parent = g}
  BY <1>2 DEF Versions
<1>3a. S \in SUBSET (1..n)
  BY <1>1, <1>3
<1>4. IsFiniteSet(S)
  <2>1. IsFiniteSet(1..n)
    BY FS_Interval
  <2> QED
    BY <2>1, <1>3a, FS_Subset
<1>5. PICK t : t = getSiblingRecords(s, g)
  OBVIOUS
<1>6. PICK m : m = Cardinality(S)
  OBVIOUS
<1>7. m \in Nat /\ \A i \in S : \E k \in 1..m : i = Nth(S, k)
  <2>1. /\ Cardinality(S) \in Nat
        /\ \A i \in S : \E k \in 1..Cardinality(S) : i = Nth(S, k)
    BY <1>1, <1>3a, Elements, NthCounts
  <2> QED
    BY <2>1, <1>6
<1>8. t = [k \in 1..m |-> s[Nth(S, k)]]
  BY <1>3, <1>5, <1>6 DEF getSiblingRecords, At
<1>9. t = [k \in 1..m |-> t[k]]
  BY <1>8
<1>10. Len(t) = m
  BY <1>7, <1>9, Listed
<1>11. \A i \in S : \E k \in 1..m : t[k] = s[i]
  BY <1>7, <1>8
<1> QED
  BY <1>2, <1>4, <1>5, <1>6, <1>7, <1>10, <1>11

\* More versions are counted among more records.
LEMMA VersionsGrow ==
  ASSUME NEW s, IsSeq(s), NEW t, IsSeq(t), NEW g, Versions(s, g) \subseteq Versions(t, g)
  PROVE  Cardinality(Versions(s, g)) <= Cardinality(Versions(t, g))
  BY VersionsCounted, FS_Subset

LEMMA SameRecord ==
  ASSUME NEW s, IsTree(s), NEW id, NEW p, NEW q, HasRecord(s, id, p), HasRecord(s, id, q)
  PROVE  p = q
  BY DEF IsTree, HasRecord

\* A record the server named is appended.
Longer(t, s, r) == t = Append(s, r)

LEMMA RecordsGrown ==
  ASSUME NEW s, IsTree(s), NEW r, DOMAIN r = RecordFields, r.id \notin Ids(s),
         r.parent \in Ids(s) \cup {Null}, NEW t, Longer(t, s, r)
  PROVE  /\ IsTree(t) /\ Ids(t) = Ids(s) \cup {r.id}
         /\ \A i \in 1..Len(t) : t[i] = r \/ \E j \in 1..Len(s) : t[i] = s[j]
         /\ \A id, p : HasRecord(s, id, p) => HasRecord(t, id, p)
         /\ HasRecord(t, r.id, r.parent)
         /\ \A g : Versions(s, g) \subseteq Versions(t, g)
         /\ Versions(t, r.parent) # {}
<1>1. /\ Len(s) \in Nat /\ s \in Seq(ToSet(s))
      /\ \A i \in 1..Len(s) : s[i] \in ToSet(s)
  BY Elements DEF IsTree, IsSeq
<1>2. t \in Seq(ToSet(s) \cup {r}) /\ Len(t) = Len(s) + 1
  BY <1>1 DEF Longer
<1>3. (\A i \in 1..Len(s) : t[i] = s[i]) /\ t[Len(s) + 1] = r
  BY <1>1 DEF Longer
<1>4. PICK n : n = Len(s)
  OBVIOUS
<1>5. /\ n \in Nat /\ Len(t) = n + 1 /\ Len(s) = n
      /\ \A i \in 1..n : t[i] = s[i] /\ i \in 1..(n + 1)
      /\ t[n + 1] = r /\ n + 1 \in 1..(n + 1)
      /\ \A i \in 1..(n + 1) : i \in 1..n \/ i = n + 1
  BY <1>1, <1>2, <1>3, <1>4
<1>6. IsSeq(t)
  <2>1. PICK m \in Nat : m = Len(t)
    BY <1>5
  <2>2. PICK R : t \in Seq(R)
    BY <1>2
  <2>3. t \in [1..m -> R]
    BY <2>1, <2>2, LenProperties
  <2>4. t = [i \in 1..m |-> t[i]]
    BY <2>3
  <2> QED
    BY <2>4, Listed
<1>7. Ids(t) = Ids(s) \cup {r.id}
  BY <1>5 DEF Ids
<1>8. \A i \in 1..Len(t) : t[i] = r \/ \E j \in 1..Len(s) : t[i] = s[j]
  BY <1>5
<1>9. \A i \in 1..n : s[i].id # r.id
  BY <1>5 DEF Ids
<1>10. IsTree(t)
  <2>1. \A i \in 1..Len(t) : DOMAIN t[i] = RecordFields
    BY <1>5 DEF IsTree
  <2>2. \A i, j \in 1..Len(t) : t[i].id = t[j].id => i = j
    BY <1>5, <1>9 DEF IsTree
  <2>3. \A i \in 1..Len(t) : t[i].parent \in Ids(t) \cup {Null}
    BY <1>5, <1>7 DEF IsTree
  <2> QED
    BY <1>6, <2>1, <2>2, <2>3 DEF IsTree
<1>11. \A id, p : HasRecord(s, id, p) => HasRecord(t, id, p)
  BY <1>5 DEF HasRecord
<1>12. HasRecord(t, r.id, r.parent)
  BY <1>5 DEF HasRecord
<1>13. \A g : Versions(s, g) \subseteq Versions(t, g)
  BY <1>5 DEF Versions
<1>14. n + 1 \in Versions(t, r.parent)
  BY <1>5 DEF Versions
<1> QED
  BY <1>7, <1>8, <1>10, <1>11, <1>12, <1>13, <1>14

LEMMA ApartGrown ==
  ASSUME NEW s, Apart(s), NEW r, DOMAIN r = RecordFields, r.id \notin Ids(s),
         NEW t, Longer(t, s, r)
  PROVE  /\ Apart(t) /\ Ids(t) = Ids(s) \cup {r.id}
         /\ \A i \in 1..Len(t) : t[i] = r \/ \E j \in 1..Len(s) : t[i] = s[j]
<1>1. PICK n \in Nat : n = Len(s) /\ s \in Seq(ToSet(s))
  BY Elements DEF Apart, IsSeq
<1>2. t \in Seq(ToSet(s) \cup {r}) /\ Len(t) = n + 1
  BY <1>1 DEF Longer
<1>3. (\A i \in 1..n : t[i] = s[i]) /\ t[n + 1] = r
  BY <1>1 DEF Longer
<1>4. t = [i \in 1..(n + 1) |-> t[i]]
  <2>1. PICK m \in Nat : m = n + 1
    OBVIOUS
  <2>2. PICK R : t \in Seq(R)
    BY <1>2
  <2>3. t \in [1..m -> R]
    BY <1>2, <2>1, <2>2, LenProperties
  <2> QED
    BY <2>1, <2>3
<1>5. IsSeq(t) /\ Len(t) = n + 1 /\ \A i \in 1..(n + 1) : i \in 1..n \/ i = n + 1
  BY <1>1, <1>2, <1>4, Listed
<1>6. \A i \in 1..n : s[i].id # r.id
  BY <1>1 DEF Ids
<1>7. Ids(t) = Ids(s) \cup {r.id}
  BY <1>1, <1>3, <1>5 DEF Ids
<1>8. \A i \in 1..Len(t) : t[i] = r \/ \E j \in 1..Len(s) : t[i] = s[j]
  BY <1>1, <1>3, <1>5
<1>9. \A i \in 1..Len(t) : DOMAIN t[i] = RecordFields
  BY <1>8 DEF Apart
<1>10. \A i, j \in 1..Len(t) : t[i].id = t[j].id => i = j
  BY <1>1, <1>3, <1>5, <1>6 DEF Apart
<1> QED
  BY <1>5, <1>7, <1>8, <1>9, <1>10 DEF Apart

\* The same records but for what was rated.
Rated(t, s) ==
  /\ IsSeq(t) /\ Len(t) = Len(s)
  /\ \A i \in 1..Len(s) :
       /\ DOMAIN t[i] = DOMAIN s[i]
       /\ t[i].id = s[i].id /\ t[i].room = s[i].room /\ t[i].parent = s[i].parent

LEMMA RecordsRated ==
  ASSUME NEW s, IsTree(s), NEW t, Rated(t, s)
  PROVE  /\ IsTree(t) /\ Ids(t) = Ids(s)
         /\ \A id, p : HasRecord(s, id, p) <=> HasRecord(t, id, p)
         /\ \A g : Versions(s, g) = Versions(t, g)
<1>1. Ids(t) = Ids(s)
  BY DEF Ids, Rated
<1>2. IsTree(t)
  BY <1>1 DEF IsTree, Rated
<1>3. \A id, p : HasRecord(s, id, p) <=> HasRecord(t, id, p)
  BY DEF HasRecord, Rated
<1>4. \A g : Versions(s, g) = Versions(t, g)
  BY DEF Versions, Rated
<1> QED
  BY <1>1, <1>2, <1>3, <1>4

\* The records are taken with all that descends from them.
Whole(recs, removed) ==
  \A i \in 1..Len(recs) : recs[i].parent \in removed \cap Ids(recs) => recs[i].id \in removed

LEMMA RecordsTaken ==
  ASSUME NEW s, IsTree(s), NEW removed, Whole(s, removed), NEW t, t = recordsLeft(s, removed)
  PROVE  /\ IsTree(t) /\ Ids(t) = Ids(s) \ removed
         /\ \A i \in 1..Len(t) : \E j \in 1..Len(s) : t[i] = s[j]
         /\ \A id, p : HasRecord(t, id, p) <=> HasRecord(s, id, p) /\ id \notin removed
         /\ \A g : (\A i \in Versions(s, g) : s[i].id \notin removed)
                     => Cardinality(Versions(s, g)) <= Cardinality(Versions(t, g))
<1>1. PICK n \in Nat : n = Len(s)
  BY Elements DEF IsTree
<1>2. PICK U \in SUBSET (1..n) : U = {i \in 1..Len(s) : s[i].id \notin removed}
  BY <1>1
<1>3. t = At(s, U)
  BY <1>2 DEF recordsLeft
<1>4. PICK m : m = Cardinality(U)
  OBVIOUS
<1>5. /\ m \in Nat
      /\ \A k \in 1..m : Nth(U, k) \in U
      /\ \A k, l \in 1..m : Nth(U, k) = Nth(U, l) => k = l
      /\ \A i \in U : \E k \in 1..m : i = Nth(U, k)
  BY <1>4, NthCounts
<1>6. t = [k \in 1..m |-> s[Nth(U, k)]]
  BY <1>3, <1>4 DEF At
<1>7. t = [k \in 1..m |-> t[k]]
  BY <1>6
<1>8. IsSeq(t) /\ Len(t) = m
  BY <1>5, <1>7, Listed
<1>9. \A k \in 1..m : t[k] = s[Nth(U, k)] /\ Nth(U, k) \in 1..Len(s)
  BY <1>1, <1>5, <1>6
<1>10. \A i \in 1..Len(t) : \E j \in 1..Len(s) : t[i] = s[j]
  BY <1>8, <1>9
<1>11. ASSUME NEW i \in 1..Len(s), s[i].id \notin removed PROVE \E k \in 1..m : t[k] = s[i]
  <2>1. PICK k \in 1..m : i = Nth(U, k)
    BY <1>2, <1>5, <1>11
  <2> QED
    BY <1>9, <2>1
<1>12. \A k \in 1..m : t[k].id \notin removed
  BY <1>2, <1>5, <1>9
<1>13. Ids(t) = Ids(s) \ removed
  BY <1>8, <1>9, <1>11, <1>12 DEF Ids
<1>14. IsTree(t)
  <2>1. \A i \in 1..Len(t) : DOMAIN t[i] = RecordFields
    BY <1>8, <1>9 DEF IsTree
  <2>2. ASSUME NEW i \in 1..m, NEW j \in 1..m, t[i].id = t[j].id PROVE i = j
    <3>1. Nth(U, i) = Nth(U, j)
      BY <1>9, <2>2 DEF IsTree
    <3> QED
      BY <1>5, <3>1
  <2>3. ASSUME NEW i \in 1..m PROVE t[i].parent \in Ids(t) \cup {Null}
    <3>1. PICK j \in 1..Len(s) : t[i] = s[j]
      BY <1>9
    <3>2. s[j].parent \in Ids(s) \cup {Null} /\ s[j].id \notin removed
      BY <1>12, <3>1 DEF IsTree
    <3> QED
      BY <1>13, <3>1, <3>2 DEF Whole
  <2> QED
    BY <1>8, <2>1, <2>2, <2>3 DEF IsTree
<1>15. \A id, p : HasRecord(t, id, p) <=> HasRecord(s, id, p) /\ id \notin removed
  BY <1>8, <1>9, <1>11, <1>12 DEF HasRecord
<1>16. ASSUME NEW g, \A i \in Versions(s, g) : s[i].id \notin removed
       PROVE  Cardinality(Versions(s, g)) <= Cardinality(Versions(t, g))
  <2>1. PICK V : V = Versions(s, g)
    OBVIOUS
  <2>2. PICK W : W = Versions(t, g)
    OBVIOUS
  <2>3. IsFiniteSet(W)
    BY <1>8, <2>2, VersionsCounted
  <2>4. PICK f : f = [k \in W |-> Nth(U, k)]
    OBVIOUS
  <2>5. ASSUME NEW k \in W PROVE f[k] \in V
    BY <1>8, <1>9, <2>1, <2>2, <2>4 DEF Versions
  <2>6. ASSUME NEW i \in V PROVE \E k \in W : f[k] = i
    <3>1. i \in 1..Len(s) /\ s[i].parent = g /\ s[i].id \notin removed
      BY <1>16, <2>1 DEF Versions
    <3>2. PICK k \in 1..m : i = Nth(U, k)
      BY <1>2, <1>5, <3>1
    <3>3. k \in W
      BY <1>8, <1>9, <2>2, <3>1, <3>2 DEF Versions
    <3> QED
      BY <2>4, <3>2, <3>3
  <2>7. f \in Surjection(W, V)
    BY <2>4, <2>5, <2>6 DEF Surjection
  <2> QED
    BY <2>1, <2>2, <2>3, <2>7, FS_Surjection
<1> QED
  BY <1>10, <1>13, <1>14, <1>15, <1>16

LEMMA ApartTaken ==
  ASSUME NEW s, Apart(s), NEW removed, NEW t, t = recordsLeft(s, removed)
  PROVE  Apart(t) /\ \A i \in 1..Len(t) : \E j \in 1..Len(s) : t[i] = s[j]
<1>1. PICK n \in Nat : n = Len(s)
  BY Elements DEF Apart
<1>2. PICK U \in SUBSET (1..n) : U = {i \in 1..Len(s) : s[i].id \notin removed}
  BY <1>1
<1>3. PICK m : m = Cardinality(U)
  OBVIOUS
<1>4. /\ m \in Nat
      /\ \A k \in 1..m : Nth(U, k) \in U
      /\ \A k, l \in 1..m : Nth(U, k) = Nth(U, l) => k = l
  BY <1>3, NthCounts
<1>5. t = [k \in 1..m |-> s[Nth(U, k)]]
  BY <1>2, <1>3 DEF recordsLeft, At
<1>6. IsSeq(t) /\ Len(t) = m
  <2>1. t = [k \in 1..m |-> t[k]]
    BY <1>5
  <2> QED
    BY <1>4, <2>1, Listed
<1>7. \A k \in 1..m : t[k] = s[Nth(U, k)] /\ Nth(U, k) \in 1..Len(s)
  BY <1>1, <1>4, <1>5
<1>8. ASSUME NEW i \in 1..m, NEW j \in 1..m, t[i].id = t[j].id PROVE i = j
  <2>1. Nth(U, i) = Nth(U, j)
    BY <1>7, <1>8 DEF Apart
  <2> QED
    BY <1>4, <2>1
<1> QED
  BY <1>6, <1>7, <1>8 DEF Apart

----------------------------------------------------------------------------
(* What a deletion takes.                                                  *)

\* The descendants are closed, and in every closed set with the record.
LEMMA Descendants ==
  ASSUME NEW s, NEW root, NEW removed, removed = collectDescendantRecordIds(s, root)
  PROVE  /\ root \in removed /\ removed \subseteq Ids(s) \cup {root}
         /\ \A i \in 1..Len(s) : s[i].parent \in removed => s[i].id \in removed
         /\ \A X \in SUBSET (Ids(s) \cup {root}) :
              /\ root \in X
              /\ \A i \in 1..Len(s) : s[i].parent \in X => s[i].id \in X
              => removed \subseteq X
<1>1. PICK D : D = Ids(s) \cup {root}
  OBVIOUS
<1>2. removed = {id \in D : \A X \in SUBSET D :
                   (root \in X /\ \A i \in 1..Len(s) : s[i].parent \in X => s[i].id \in X)
                     => id \in X}
  BY <1>1 DEF collectDescendantRecordIds
<1>3. root \in removed /\ removed \subseteq D
  BY <1>1, <1>2
<1>4. ASSUME NEW i \in 1..Len(s), s[i].parent \in removed PROVE s[i].id \in removed
  <2>1. s[i].id \in D
    BY <1>1 DEF Ids
  <2> QED
    BY <1>2, <1>4, <2>1
<1>5. ASSUME NEW X \in SUBSET D, root \in X,
             \A i \in 1..Len(s) : s[i].parent \in X => s[i].id \in X
      PROVE  removed \subseteq X
  BY <1>2, <1>5
<1> QED
  BY <1>1, <1>3, <1>4, <1>5

\* A deletion takes records with all that descends from them.
LEMMA TakenWhole ==
  ASSUME NEW s, NEW id
  PROVE  Whole(s, removedWith(s, id))
<1>1. CASE id \in Ids(s)
  <2>1. PICK removed : removed = collectDescendantRecordIds(s, id)
    OBVIOUS
  <2>2. removedWith(s, id) = removed
    BY <1>1, <2>1 DEF removedWith
  <2> QED
    BY <2>1, <2>2, Descendants DEF Whole
<1>2. CASE id \notin Ids(s)
  BY <1>2 DEF removedWith, Whole
<1> QED
  BY <1>1, <1>2

\* A record whose parent stays goes only if it is the one deleted.
LEMMA TakenByParent ==
  ASSUME NEW s, IsTree(s), NEW id, id \in Ids(s), NEW i \in 1..Len(s),
         s[i].id \in removedWith(s, id)
  PROVE  s[i].id = id \/ s[i].parent \in removedWith(s, id)
<1>1. PICK removed : removed = collectDescendantRecordIds(s, id)
  OBVIOUS
<1>2. removedWith(s, id) = removed
  BY <1>1 DEF removedWith
<1> SUFFICES ASSUME s[i].id # id, s[i].parent \notin removed PROVE FALSE
  BY <1>2
<1>3. PICK X : X = removed \ {s[i].id}
  OBVIOUS
<1>4. /\ id \in removed /\ removed \subseteq Ids(s) \cup {id}
      /\ \A j \in 1..Len(s) : s[j].parent \in removed => s[j].id \in removed
  BY <1>1, Descendants
<1>5. X \in SUBSET (Ids(s) \cup {id}) /\ id \in X
  BY <1>3, <1>4
<1>6. ASSUME NEW j \in 1..Len(s), s[j].parent \in X PROVE s[j].id \in X
  <2>1. s[j].id \in removed
    BY <1>3, <1>4, <1>6
  <2>2. j # i
    BY <1>3, <1>6
  <2>3. s[j].id # s[i].id
    BY <2>2 DEF IsTree
  <2> QED
    BY <1>3, <2>1, <2>3
<1>7. removed \subseteq X
  BY <1>1, <1>5, <1>6, Descendants
<1> QED
  BY <1>2, <1>3, <1>7

\* What stays of some records of a tree stays of the tree.
LEMMA StaysOfTree ==
  ASSUME NEW s, IsTree(s), NEW t, IsTree(t), Null \notin Ids(t), NEW id,
         \A x, p : HasRecord(s, x, p) => HasRecord(t, x, p),
         NEW x \in Ids(s), x \notin removedWith(s, id)
  PROVE  x \notin removedWith(t, id)
<1>1. CASE id \notin Ids(t)
  <2>1. id \notin Ids(s) => x # id
    OBVIOUS
  <2>2. id \in Ids(s) => id \in removedWith(s, id)
    BY Descendants DEF removedWith
  <2> QED
    BY <1>1, <2>1, <2>2 DEF removedWith
<1>2. CASE id \in Ids(t)
  <2>1. PICK kept : kept = {y \in Ids(s) : y \notin removedWith(s, id)}
    OBVIOUS
  <2>2. PICK X : X = Ids(t) \ kept
    OBVIOUS
  <2>3. id \notin kept
    BY <2>1, Descendants DEF removedWith
  <2>4. X \in SUBSET (Ids(t) \cup {id}) /\ id \in X
    BY <1>2, <2>2, <2>3
  <2>5. ASSUME NEW i \in 1..Len(t), t[i].parent \in X PROVE t[i].id \in X
    <3> SUFFICES ASSUME t[i].id \in kept PROVE FALSE
      BY <2>2 DEF Ids
    <3>1. PICK j \in 1..Len(s) : s[j].id = t[i].id
      BY <2>1 DEF Ids
    <3>2. HasRecord(t, t[i].id, s[j].parent) /\ HasRecord(t, t[i].id, t[i].parent)
      BY <3>1 DEF HasRecord
    <3>3. s[j].parent = t[i].parent
      BY <3>2, SameRecord
    <3>4. s[j].parent \in Ids(s)
      BY <2>2, <2>5, <3>3 DEF IsTree
    <3>5. s[j].parent \in removedWith(s, id)
      BY <2>1, <2>2, <2>5, <3>3, <3>4
    <3>6. s[j].id \in removedWith(s, id)
      BY <3>4, <3>5, TakenWhole DEF Whole
    <3> QED
      BY <2>1, <3>1, <3>6
  <2>6. PICK removed : removed = collectDescendantRecordIds(t, id)
    OBVIOUS
  <2>7. removed \subseteq X
    BY <2>4, <2>5, <2>6, Descendants
  <2>8. x \in kept /\ removedWith(t, id) = removed
    BY <1>2, <2>1, <2>6 DEF removedWith
  <2> QED
    BY <2>2, <2>7, <2>8
<1> QED
  BY <1>1, <1>2

----------------------------------------------------------------------------
(* The thread and its calls.                                               *)

\* An identifier the server has given until the n-th operation, one of a
\* question it has not named, and one of an answer.
Given(id, n) == \E k \in Nat : id = <<"m", k>> /\ (k <= n \/ k > MaxDid)
AskedBy(id, n) == \E k \in Nat : id = <<"q", k>> /\ k <= n
AnswerId(id) == id[1] \in {"a", "c", "e"}

ServerWhole(srv, n) ==
  /\ \A r \in ChatRooms : IsTree(srv[r])
  /\ \A r \in ChatRooms : \A i \in 1..Len(srv[r]) : srv[r][i].room = r /\ Given(srv[r][i].id, n)
  /\ \A q, r \in ChatRooms : Ids(srv[q]) \cap Ids(srv[r]) # {} => q = r

OfRoom(recs, room, srv) ==
  /\ IsTree(recs)
  /\ \A i \in 1..Len(recs) :
       /\ room \in ChatRooms /\ recs[i].room = room
       /\ HasRecord(srv[room], recs[i].id, recs[i].parent)

Indexed(recs, active) ==
  \A g \in DOMAIN active : active[g] \in 1..Cardinality(Versions(recs, g))

MessageFits(m, recs, n) ==
  \/ /\ m.role = "assistant" /\ AnswerId(m.id) /\ m.mid \in Ids(recs) \cup {Null}
  \/ /\ m.role = "user" /\ m.mid = m.id
     /\ AskedBy(m.id, n) \/ HasRecord(recs, m.mid, m.parent)

Fits(messages, recs, n) == \A m \in ToSet(messages) : MessageFits(m, recs, n)

WholeThread(messages, recs, active, room, srv, n) ==
  OfRoom(recs, room, srv) /\ Indexed(recs, active) /\ Fits(messages, recs, n)

\* A question on its way answers a record of the room and gets a new name.
CreateFits(c, messages, recs, room, srv, n) ==
  /\ c.room = room /\ c.room \in ChatRooms
  /\ c.parent \in Ids(recs) \cup {Null}
  /\ c.n \in Nat /\ c.n <= n
  /\ \A r \in ChatRooms : <<"m", c.n>> \notin Ids(srv[r])
  /\ \A m \in ToSet(messages) : m.id = <<"q", c.n>> => m.parent = c.parent

StreamFits(c, recs) == c.mid \in Ids(recs) /\ AnswerId(c.track) /\ AnswerId(c.local)

\* What a handler that was alone brings back is whole.
Brings(c, recs, active, room, srv, n) ==
  /\ c.kind \in {"create", "stream"} /\ c.edit =>
       WholeThread(c.snap.messages, c.snap.records, c.snap.active, room, srv, n)
  /\ c.kind = "rate" => WholeThread(c.snap.messages, c.snap.records, active, room, srv, n)
  /\ c.kind = "delete" => c.before = recs
  /\ c.kind = "contents" => c.records = srv[c.room]
  /\ c.kind \in {"list", "contents"} => DOMAIN active = {}

CallsFit(set, messages, recs, active, room, srv, n) ==
  /\ \A c \in set : c.kind = "create" => CreateFits(c, messages, recs, room, srv, n)
  /\ \A c \in set : c.kind = "stream" => StreamFits(c, recs)
  /\ \A c, d \in set : c.kind = "create" /\ d.kind = "create" /\ c.n = d.n => c = d
  /\ \A c \in set : c.alone => Brings(c, recs, active, room, srv, n)

Fetch(c) == c.kind \in {"list", "contents"}
NoFetch(set) == \A c \in set : ~Fetch(c)

\* A load that has been crossed will be seen to overlay.
Crossed(set) == \E c \in set : Fetch(c) /\ ~c.alone

\* What is kept as long as nothing was overlaid.
Kept ==
  /\ \A c \in awaiting : Fetch(c) => c.room = place.room
  /\ ServerWhole(server.records, did)
  /\ NoFetch(awaiting) =>
       WholeThread(msg.messages, msg.records, msg.active, place.room, server.records, did)
  /\ CallsFit(awaiting, msg.messages, msg.records, msg.active, place.room, server.records, did)

WholeInv ==
  /\ place.room \in ChatRooms \cup {NoChatRoom} /\ did \in 0..MaxDid
  /\ Alone(awaiting)
  /\ overlaid \/ Crossed(awaiting) \/ Kept

\* What the server holds, and what the questions on their way will be named,
\* whatever was overlaid.
Stored(srv, n) ==
  /\ \A r \in ChatRooms : Apart(srv[r])
  /\ \A r \in ChatRooms : \A i \in 1..Len(srv[r]) : srv[r][i].room = r /\ Given(srv[r][i].id, n)
  /\ \A q, r \in ChatRooms : Ids(srv[q]) \cap Ids(srv[r]) # {} => q = r

Asking(set, srv, n) ==
  /\ \A c \in set : c.kind = "create" =>
       c.n \in Nat /\ c.n <= n /\ \A r \in ChatRooms : <<"m", c.n>> \notin Ids(srv[r])
  /\ \A c, d \in set : c.kind = "create" /\ d.kind = "create" /\ c.n = d.n => c = d

StoredInv == Stored(server.records, did) /\ Asking(awaiting, server.records, did)

\* A load that is alone is of the open room and brings what the server has.
AloneLoad ==
  \A c \in awaiting : Fetch(c) /\ c.alone =>
    /\ c.room = place.room /\ DOMAIN msg.active = {}
    /\ c.kind = "contents" => c.records = server.records[c.room]

\* The names of records, questions and answers differ.
LEMMA NamesDiffer ==
  /\ \A id, n : Given(id, n) => ~AnswerId(id) /\ id # Null /\ \A k : id # <<"q", k>>
  /\ \A id, n : AskedBy(id, n) => ~AnswerId(id) /\ id[1] = "q"
  /\ \A k : ~AnswerId(<<"q", k>>) /\ AnswerId(<<"a", k>>) /\ AnswerId(<<"c", k>>)
            /\ AnswerId(<<"e", k>>)
  /\ \A k, l : <<"m", k>> # <<"q", l>> /\ (<<"m", k>> = <<"m", l>> => k = l)
  /\ \A k, l : <<"q", k>> = <<"q", l>> => k = l
  /\ \A k : ~AnswerId(<<"m", k>>)
  /\ Null[1] # "q" /\ ~AnswerId(Null)
  BY DEF Given, AskedBy, AnswerId, Null

LEMMA ServerLasts ==
  ASSUME NEW srv, NEW n \in Nat, NEW k \in Nat, n <= k, ServerWhole(srv, n)
  PROVE  ServerWhole(srv, k)
<1>1. ASSUME NEW id, Given(id, n) PROVE Given(id, k)
  BY <1>1 DEF Given
<1> QED
  BY <1>1 DEF ServerWhole

\* The server keeps one record of an identifier.
LEMMA NoNullRecord ==
  ASSUME NEW srv, NEW n, ServerWhole(srv, n), NEW r \in ChatRooms
  PROVE  Null \notin Ids(srv[r])
  BY NamesDiffer DEF ServerWhole, Ids

\* What the invariant tells of a message.
SameMessage(o, m) == o.id = m.id /\ o.mid = m.mid /\ o.role = m.role /\ o.parent = m.parent

LEMMA MessagesFitOn ==
  ASSUME NEW old, NEW recs, NEW n \in Nat, Fits(old, recs, n),
         NEW new, NEW more, NEW k \in Nat, n <= k, Ids(recs) \subseteq Ids(more),
         \A id, p : HasRecord(recs, id, p) => HasRecord(more, id, p),
         \A m \in ToSet(new) : \E o \in ToSet(old) : SameMessage(o, m)
  PROVE  Fits(new, more, k)
<1>1. ASSUME NEW id, AskedBy(id, n) PROVE AskedBy(id, k)
  BY <1>1 DEF AskedBy
<1> QED
  BY <1>1 DEF Fits, MessageFits, SameMessage

LEMMA WholeLasts ==
  ASSUME NEW messages, NEW recs, NEW active, NEW room, NEW srv, NEW n \in Nat,
         WholeThread(messages, recs, active, room, srv, n),
         NEW more, NEW k \in Nat, n <= k,
         room \in ChatRooms =>
           \A id, p : HasRecord(srv[room], id, p) => HasRecord(more[room], id, p)
  PROVE  WholeThread(messages, recs, active, room, more, k)
<1>1. OfRoom(recs, room, more) /\ Indexed(recs, active)
  BY DEF WholeThread, OfRoom
<1>2. \A m \in ToSet(messages) : SameMessage(m, m)
  BY DEF SameMessage
<1>3. Fits(messages, recs, k)
  BY <1>2, MessagesFitOn DEF WholeThread
<1> QED
  BY <1>1, <1>3 DEF WholeThread

LEMMA CreateLasts ==
  ASSUME NEW c, NEW messages, NEW recs, NEW room, NEW srv, NEW n \in Nat,
         CreateFits(c, messages, recs, room, srv, n),
         NEW new, NEW others, NEW more, NEW k \in Nat, n <= k, Ids(recs) \subseteq Ids(others),
         \A r \in ChatRooms : <<"m", c.n>> \notin Ids(more[r]),
         \A m \in ToSet(new) : m.id = <<"q", c.n>> =>
           \E o \in ToSet(messages) : o.id = m.id /\ o.parent = m.parent
  PROVE  CreateFits(c, new, others, room, more, k)
<1>1. c.n \in Nat /\ c.n <= k
  BY DEF CreateFits
<1>2. \A m \in ToSet(new) : m.id = <<"q", c.n>> => m.parent = c.parent
  BY DEF CreateFits
<1> QED
  BY <1>1, <1>2 DEF CreateFits

\* A call that something overlapped.
LEMMA OverlapKeeps ==
  ASSUME NEW c, IsCall(c), NEW d, d = [c EXCEPT !.alone = FALSE]
  PROVE  /\ d.kind = c.kind /\ ~d.alone
         /\ Fetch(c) => d.room = c.room
         /\ c.kind = "create" => d.room = c.room /\ d.n = c.n /\ d.parent = c.parent
         /\ c.kind = "stream" => d.mid = c.mid /\ d.track = c.track /\ d.local = c.local
<1>1. d.kind = c.kind /\ ~d.alone
  BY Overlapped
<1>2. CASE c.kind = "create"
  BY <1>1, <1>2 DEF IsCall, Fetch
<1>3. CASE c.kind = "stream"
  BY <1>1, <1>3 DEF IsCall, Fetch
<1>4. CASE Fetch(c)
  BY <1>1, <1>4 DEF IsCall, Fetch
<1> QED
  BY <1>1, <1>2, <1>3, <1>4

\* What was overlapped is not alone, and a load that was will be seen to overlay.
LEMMA CallsDisturbed ==
  ASSUME NEW set, \A c \in set : IsCall(c)
  PROVE  /\ Alone(Disturb(set))
         /\ Crossed(Disturb(set)) \/ NoFetch(set)
         /\ NoFetch(set) => NoFetch(Disturb(set))
<1>1. \A d \in Disturb(set) : ~d.alone /\ \E c \in set : d.kind = c.kind
  BY OverlapKeeps DEF Disturb
<1>2. ASSUME NEW c \in set PROVE \E d \in Disturb(set) : d.kind = c.kind /\ ~d.alone
  <2>1. PICK d : d = [c EXCEPT !.alone = FALSE]
    OBVIOUS
  <2>2. d \in Disturb(set)
    BY <2>1 DEF Disturb
  <2> QED
    BY <2>1, <2>2, OverlapKeeps
<1>3. Crossed(Disturb(set)) \/ NoFetch(set)
  BY <1>2 DEF Crossed, NoFetch, Fetch
<1>4. NoFetch(set) => NoFetch(Disturb(set))
  BY <1>1 DEF NoFetch, Fetch
<1> QED
  BY <1>1, <1>3, <1>4 DEF Alone

\* A call as it is when it begins.
Started(set, call) ==
  [field \in DOMAIN call \cup {"alone"} |-> IF field = "alone" THEN set = {} ELSE call[field]]

LEMMA CallBegun ==
  ASSUME NEW set, \A c \in set : IsCall(c), NEW call, NEW e, e = Started(set, call),
         NEW new, new = Begin(set, call)
  PROVE  /\ new = Disturb(set) \cup {e} /\ (e.alone => set = {})
         /\ Alone(new)
         /\ Crossed(new) \/ NoFetch(set)
         /\ NoFetch(set) /\ ~Fetch(e) => NoFetch(new)
<1>1. new = Disturb(set) \cup {e} /\ (e.alone => set = {})
  BY DEF Begin, Started
<1>2. /\ Alone(Disturb(set)) /\ (Crossed(Disturb(set)) \/ NoFetch(set))
      /\ NoFetch(set) => NoFetch(Disturb(set))
  BY CallsDisturbed
<1>3. \A d \in Disturb(set) : ~d.alone
  BY OverlapKeeps DEF Disturb
<1>4. Disturb({}) = {}
  BY DEF Disturb
<1>5. Alone(new)
  BY <1>1, <1>3, <1>4 DEF Alone
<1> QED
  BY <1>1, <1>2, <1>5 DEF Crossed, NoFetch

\* The calls on their way fit on when they were overlapped, or one more began.
LEMMA CallsFitBegun ==
  ASSUME NEW set, \A c \in set : IsCall(c), NEW new, NEW begun, new = Disturb(set) \cup begun,
         \A e, f \in begun : e = f,
         NEW messages, NEW recs, NEW active, NEW room, NEW srv, NEW n,
         \A c \in set : c.kind = "create" => CreateFits(c, messages, recs, room, srv, n),
         \A c \in set : c.kind = "stream" => StreamFits(c, recs),
         \A c, d \in set : c.kind = "create" /\ d.kind = "create" /\ c.n = d.n => c = d,
         \A e \in begun : e.kind = "create" =>
           /\ CreateFits(e, messages, recs, room, srv, n)
           /\ \A c \in set : c.kind = "create" => c.n # e.n,
         \A e \in begun : e.kind = "stream" => StreamFits(e, recs),
         \A e \in begun : e.alone => Brings(e, recs, active, room, srv, n)
  PROVE  CallsFit(new, messages, recs, active, room, srv, n)
<1>1. \A d \in Disturb(set) : \E c \in set :
        /\ d = [c EXCEPT !.alone = FALSE] /\ d.kind = c.kind /\ ~d.alone
        /\ c.kind = "create" => d.room = c.room /\ d.n = c.n /\ d.parent = c.parent
        /\ c.kind = "stream" => d.mid = c.mid /\ d.track = c.track /\ d.local = c.local
  BY OverlapKeeps DEF Disturb
<1>2. ASSUME NEW d \in new, d.kind = "create"
      PROVE  CreateFits(d, messages, recs, room, srv, n)
  <2>1. CASE d \in Disturb(set)
    BY <1>1, <1>2, <2>1 DEF CreateFits
  <2> QED
    BY <1>2, <2>1
<1>3. ASSUME NEW d \in new, d.kind = "stream" PROVE StreamFits(d, recs)
  <2>1. CASE d \in Disturb(set)
    BY <1>1, <1>3, <2>1 DEF StreamFits
  <2> QED
    BY <1>3, <2>1
<1>4. ASSUME NEW c \in new, NEW d \in new, c.kind = "create", d.kind = "create", c.n = d.n
      PROVE  c = d
  <2>1. CASE c \in Disturb(set) /\ d \in Disturb(set)
    <3>1. PICK a \in set : c = [a EXCEPT !.alone = FALSE] /\ a.kind = "create" /\ c.n = a.n
      BY <1>1, <1>4, <2>1
    <3>2. PICK b \in set : d = [b EXCEPT !.alone = FALSE] /\ b.kind = "create" /\ d.n = b.n
      BY <1>1, <1>4, <2>1
    <3>3. a = b
      BY <1>4, <3>1, <3>2
    <3> QED
      BY <3>1, <3>2, <3>3
  <2>2. CASE c \in begun \/ d \in begun
    BY <1>1, <1>4, <2>2
  <2> QED
    BY <2>1, <2>2
<1>5. ASSUME NEW d \in new, d.alone PROVE Brings(d, recs, active, room, srv, n)
  BY <1>1, <1>5
<1> QED
  BY <1>2, <1>3, <1>4, <1>5 DEF CallsFit

----------------------------------------------------------------------------
(* What is shown.                                                          *)

LEMMA WalkIsList ==
  ASSUME NEW recs, IsSeq(recs), NEW active
  PROVE  Len(Walk(recs, active)) \in Nat
<1>1. PICK n \in Nat : n = Len(recs)
  BY Elements
<1>2. IsFiniteSet(Ids(recs))
  <2>1. PICK f : f = [i \in 1..n |-> recs[i].id]
    OBVIOUS
  <2>2. f \in Surjection(1..n, Ids(recs))
    BY <1>1, <2>1 DEF Surjection, Ids
  <2>3. IsFiniteSet(1..n)
    BY FS_Interval
  <2> QED
    BY <2>2, <2>3, FS_Surjection
<1>3. PICK t : t = Walk(recs, active)
  OBVIOUS
<1>4. PICK W : W = Walked(recs, active)
  OBVIOUS
<1>5. W \in SUBSET Ids(recs) /\ t = [k \in 1..Cardinality(W) |-> t[k]]
  <2>1. W \in SUBSET Ids(recs)
    BY <1>4 DEF Walked
  <2>2. t = [k \in 1..Cardinality(W) |-> t[k]]
    BY <1>3, <1>4 DEF Walk
  <2> QED
    BY <2>1, <2>2
<1>6. Cardinality(W) \in Nat
  <2>1. IsFiniteSet(W)
    BY <1>2, <1>5, FS_Subset
  <2> QED
    BY <2>1, FS_CardinalityType
<1>7. Len(t) = Cardinality(W)
  BY <1>5, <1>6, Listed
<1> QED
  BY <1>3, <1>6, <1>7

\* What is shown are messages of the thread.
LEMMA ShownAmong ==
  ASSUME NEW recs, IsSeq(recs), NEW messages, IsSeq(messages), NEW active
  PROVE  /\ IsSeq(buildVisibleThread(recs, messages, active))
         /\ ToSet(buildVisibleThread(recs, messages, active)) \subseteq ToSet(messages)
<1>1. PICK walk : walk = Walk(recs, active)
  OBVIOUS
<1>2. PICK w \in Nat : w = Len(walk)
  BY <1>1, WalkIsList
<1>3. PICK l \in Nat : l = Len(messages)
  BY Elements
<1> DEFINE said(p) == {i \in 1..Len(messages) :
                        /\ messages[i].mid = walk[(p + 1) \div 2]
                        /\ messages[i].role = IF p % 2 = 1 THEN "user" ELSE "assistant"}
           taken == {p \in 1..(2 * Len(walk)) : said(p) # {}}
           chosen(p) == CHOOSE i \in said(p) :
                          \A j \in said(p) : IF p % 2 = 1 THEN i <= j ELSE j <= i
<1>4. PICK t : t = buildVisibleThread(recs, messages, active)
  OBVIOUS
<1>5. t = IF recs = <<>> THEN messages
          ELSE [k \in 1..Cardinality(taken) |-> messages[chosen(Nth(taken, k))]]
  BY <1>1, <1>4, SMTT(40) DEF buildVisibleThread
<1>6. \A p : said(p) \in SUBSET (1..l)
  BY <1>3
<1>7. ASSUME NEW p, said(p) # {} PROVE chosen(p) \in 1..l
  <2>1. PICK S \in SUBSET (1..l) : S = said(p) /\ S # {}
    BY <1>6, <1>7
  <2>2. \E i \in S : \A j \in S : i <= j
    <3>1. S \in SUBSET Nat
      OBVIOUS
    <3> QED
      BY <2>1, <3>1, LeastOne
  <2>3. \E i \in S : \A j \in S : j <= i
    BY <2>1, GreatestOne
  <2>4. \E i \in S : \A j \in S : IF p % 2 = 1 THEN i <= j ELSE j <= i
    BY <2>2, <2>3
  <2>5. (CHOOSE i \in S : \A j \in S : IF p % 2 = 1 THEN i <= j ELSE j <= i) \in S
    BY <2>4
  <2> QED
    BY <2>1, <2>5
<1>8. taken \in SUBSET (1..(2 * w)) /\ 2 * w \in Nat
  BY <1>2
<1>9. \A p \in taken : said(p) # {}
  OBVIOUS
<1> HIDE DEF said, taken, chosen
<1>10. PICK m : m = Cardinality(taken)
  OBVIOUS
<1>11. m \in Nat /\ \A k \in 1..m : Nth(taken, k) \in taken
  BY <1>8, <1>10, NthCounts
<1>12. CASE recs # <<>>
  <2>1. t = [k \in 1..m |-> messages[chosen(Nth(taken, k))]]
    BY <1>5, <1>10, <1>12
  <2>2. t = [k \in 1..m |-> t[k]]
    BY <2>1
  <2>3. IsSeq(t) /\ \A x \in ToSet(t) : \E k \in 1..m : x = t[k]
    BY <1>11, <2>2, Listed
  <2>4. \A k \in 1..m : chosen(Nth(taken, k)) \in 1..l
    BY <1>7, <1>9, <1>11
  <2>5. \A i \in 1..l : messages[i] \in ToSet(messages)
    BY <1>3, Elements
  <2>6. \A k \in 1..m : t[k] \in ToSet(messages)
    BY <2>1, <2>4, <2>5
  <2> QED
    BY <1>4, <2>3, <2>6
<1> QED
  BY <1>4, <1>5, <1>12

\* A question that is sent answers a record, unless the server has not named it.
LEMMA LastShown ==
  ASSUME NEW recs, IsSeq(recs), NEW messages, IsSeq(messages), NEW active, NEW n,
         Fits(messages, recs, n), NEW id, id = getLastActiveRecordId(recs, messages, active)
  PROVE  id \in Ids(recs) \cup {Null} \/ id[1] = "q"
<1>1. PICK t : t = buildVisibleThread(recs, messages, active)
  OBVIOUS
<1>2. IsSeq(t) /\ ToSet(t) \subseteq ToSet(messages)
  BY <1>1, ShownAmong
<1>3. PICK l \in Nat : l = Len(t) /\ \A i \in 1..l : t[i] \in ToSet(t)
  BY <1>2, Elements
<1>4. PICK named \in SUBSET (1..l) : named = {i \in 1..Len(t) : t[i].mid # Null}
  BY <1>3
<1>5. id = IF named = {} THEN Null ELSE t[CHOOSE i \in named : \A j \in named : j <= i].mid
  BY <1>1, <1>4 DEF getLastActiveRecordId
<1>6. CASE named # {}
  <2>1. \E i \in named : \A j \in named : j <= i
    BY <1>6, GreatestOne
  <2>2. PICK i \in named : id = t[i].mid
    BY <1>5, <1>6, <2>1
  <2>3. PICK m \in ToSet(messages) : m = t[i]
    BY <1>2, <1>3, <1>4, <2>2
  <2>4. MessageFits(m, recs, n)
    BY DEF Fits
  <2>5. m.mid \in Ids(recs) \cup {Null} \/ AskedBy(m.mid, n)
    BY <2>4 DEF MessageFits, HasRecord, Ids
  <2> QED
    BY <2>2, <2>3, <2>5, NamesDiffer
<1> QED
  BY <1>5, <1>6

----------------------------------------------------------------------------
(* What the server holds.                                                  *)

LEMMA StoredWhole ==
  ASSUME NEW n, Stored(server.records, n), Rooted
  PROVE  ServerWhole(server.records, n)
<1>1. \A r \in ChatRooms : IsTree(server.records[r])
  BY DEF Stored, Apart, Rooted, IsTree
<1> QED
  BY <1>1 DEF Stored, ServerWhole

LEMMA StoredLasts ==
  ASSUME NEW srv, NEW n \in Nat, NEW k \in Nat, n <= k, Stored(srv, n)
  PROVE  Stored(srv, k)
<1>1. ASSUME NEW id, Given(id, n) PROVE Given(id, k)
  BY <1>1 DEF Given
<1> QED
  BY <1>1 DEF Stored

LEMMA StoredFresh ==
  ASSUME NEW srv, NEW n \in Nat, Stored(srv, n), NEW k \in Nat, n < k, k <= MaxDid,
         NEW r \in ChatRooms
  PROVE  <<"m", k>> \notin Ids(srv[r])
<1>1. ~Given(<<"m", k>>, n)
  BY ThreadAssumption, NamesDiffer DEF Given
<1> QED
  BY <1>1 DEF Stored, Ids

LEMMA AskingOn ==
  ASSUME NEW set, NEW srv, NEW n \in Nat, Asking(set, srv, n), NEW k \in Nat, n <= k,
         NEW new, \A c \in new : c.kind = "create" => c \in set
  PROVE  Asking(new, srv, k)
  BY DEF Asking

LEMMA AskingDisturbed ==
  ASSUME NEW set, \A c \in set : IsCall(c),
         NEW srv, NEW n \in Nat, Asking(set, srv, n), NEW k \in Nat, n <= k
  PROVE  /\ Asking(Disturb(set), srv, k)
         /\ \A d \in Disturb(set) : d.kind = "create" => d.n <= n
<1>1. \A d \in Disturb(set) : \E c \in set :
        /\ d = [c EXCEPT !.alone = FALSE] /\ d.kind = c.kind
        /\ c.kind = "create" => d.n = c.n
  BY OverlapKeeps DEF Disturb
<1>2. ASSUME NEW c \in Disturb(set), NEW d \in Disturb(set),
             c.kind = "create", d.kind = "create", c.n = d.n
      PROVE  c = d
  <2>1. PICK a \in set : c = [a EXCEPT !.alone = FALSE] /\ a.kind = "create" /\ c.n = a.n
    BY <1>1, <1>2
  <2>2. PICK b \in set : d = [b EXCEPT !.alone = FALSE] /\ b.kind = "create" /\ d.n = b.n
    BY <1>1, <1>2
  <2>3. a = b
    BY <1>2, <2>1, <2>2 DEF Asking
  <2> QED
    BY <2>1, <2>2, <2>3
<1>3. ASSUME NEW d \in Disturb(set), d.kind = "create"
      PROVE  /\ d.n \in Nat /\ d.n <= n /\ d.n <= k
             /\ \A r \in ChatRooms : <<"m", d.n>> \notin Ids(srv[r])
  <2>1. PICK c \in set : c.kind = "create" /\ d.n = c.n
    BY <1>1, <1>3
  <2> QED
    BY <2>1 DEF Asking
<1> QED
  BY <1>2, <1>3 DEF Asking

\* A question asked gets a name the server has not given.
LEMMA AskingBegun ==
  ASSUME NEW set, \A c \in set : IsCall(c), NEW srv, NEW n \in Nat, Asking(set, srv, n),
         Stored(srv, n), NEW k \in Nat, n < k, k <= MaxDid, NEW e,
         e.kind = "create" => e.n = k
  PROVE  Asking(Disturb(set) \cup {e}, srv, k)
<1>1. PICK old : old = Disturb(set)
  OBVIOUS
<1>2. Asking(old, srv, k) /\ \A d \in old : d.kind = "create" => d.n <= n
  BY <1>1, AskingDisturbed
<1>3. \A r \in ChatRooms : <<"m", k>> \notin Ids(srv[r])
  BY StoredFresh
<1>4. ASSUME NEW d \in old, d.kind = "create" PROVE d.n # k
  <2>1. d.n \in Nat /\ d.n <= n
    BY <1>2, <1>4 DEF Asking
  <2> QED
    BY <2>1
<1>5. Asking(old \cup {e}, srv, k)
  BY <1>2, <1>3, <1>4 DEF Asking
<1> QED
  BY <1>1, <1>5

----------------------------------------------------------------------------
(* What the user does.                                                     *)

LEMMA ActCounted ==
  ASSUME WholeInv, Do
  PROVE  did \in Nat /\ did' \in 0..MaxDid /\ did' \in Nat /\ did' = did + 1 /\ did <= did'
  BY ThreadAssumption DEF WholeInv, Do

LEMMA NothingWhole ==
  ASSUME NEW active, DOMAIN active = {}, NEW room, NEW srv, NEW n
  PROVE  WholeThread(<<>>, <<>>, active, room, srv, n)
<1>1. PICK s : s = <<>>
  OBVIOUS
<1>2. IsSeq(s) /\ Len(s) = 0 /\ ToSet(s) = {} /\ 1..Len(s) = {}
  BY <1>1, EmptyThread
<1>3. IsTree(s) /\ OfRoom(s, room, srv)
  BY <1>2 DEF IsTree, OfRoom
<1>4. Indexed(s, active) /\ Fits(s, s, n)
  BY <1>2 DEF Indexed, Fits
<1> QED
  BY <1>1, <1>3, <1>4 DEF WholeThread

LEMMA NoCalls ==
  ASSUME NEW messages, NEW recs, NEW active, NEW room, NEW srv, NEW n
  PROVE  CallsFit({}, messages, recs, active, room, srv, n) /\ NoFetch({}) /\ Alone({})
  BY DEF CallsFit, NoFetch, Alone

LEMMA StartWhole ==
  ASSUME ThreadInv, WholeInv, StoredInv, startNewChat
  PROVE  WholeInv'
<1>1. did \in Nat /\ did' \in Nat /\ did <= did' /\ did' \in 0..MaxDid
  BY ActCounted DEF startNewChat
<1>2. /\ place'.room = NoChatRoom /\ msg' = ClearedThread /\ awaiting' = Disturb(awaiting)
      /\ server' = server /\ overlaid' = StaysOverlaid(awaiting = {})
  BY DEF startNewChat
<1>3. Alone(awaiting')
  BY <1>2, CallsDisturbed DEF ThreadInv, ThreadShape
<1>4. ASSUME ~overlaid' PROVE Kept'
  <2>1. awaiting' = {} /\ awaiting = {} /\ (~overlaid \/ Rooted)
    BY <1>2, <1>4 DEF StaysOverlaid, Disturb
  <2>2. ServerWhole(server.records, did)
    <3>1. ~overlaid => ServerWhole(server.records, did)
      BY <2>1 DEF WholeInv, Kept, Crossed
    <3>2. Rooted => ServerWhole(server.records, did)
      BY StoredWhole DEF StoredInv
    <3> QED
      BY <2>1, <3>1, <3>2
  <2>3. ServerWhole(server'.records, did')
    BY <1>1, <1>2, <2>2, ServerLasts
  <2>4. msg'.messages = <<>> /\ msg'.records = <<>> /\ DOMAIN msg'.active = {}
    BY <1>2 DEF ClearedThread, NoIndex
  <2>5. WholeThread(msg'.messages, msg'.records, msg'.active, place'.room, server'.records, did')
    BY <2>4, NothingWhole
  <2>6. CallsFit(awaiting', msg'.messages, msg'.records, msg'.active, place'.room,
                 server'.records, did')
    BY <2>1, NoCalls
  <2> QED
    BY <2>1, <2>3, <2>5, <2>6 DEF Kept
<1> QED
  BY <1>1, <1>2, <1>3, <1>4 DEF WholeInv

\* A load of the open room began while nothing else was on its way.
LEMMA LoadWhole ==
  ASSUME ThreadInv, WholeInv, NEW r \in ChatRooms, NEW init \in BOOLEAN, Do, server' = server,
         NEW load, load = loadMessagesForRoom(msg, awaiting, r, init, did'),
         msg' = load.msg, awaiting' = load.calls, place'.room = r,
         overlaid' = (overlaid \/ awaiting # {})
  PROVE  WholeInv'
<1>1. did \in Nat /\ did' \in Nat /\ did <= did' /\ did' \in 0..MaxDid
  BY ActCounted
<1>2. PICK call : call = [kind |-> "list", n |-> did', room |-> r]
  OBVIOUS
<1>3. PICK e : e = Started(awaiting, call)
  OBVIOUS
<1>4. e.kind = "list" /\ e.room = r
  BY <1>2, <1>3 DEF Started
<1>5. awaiting' = Begin(awaiting, call)
  BY <1>2 DEF loadMessagesForRoom
<1>6. \A c \in awaiting : IsCall(c)
  BY DEF ThreadInv, ThreadShape
<1>7. awaiting' = Disturb(awaiting) \cup {e} /\ Alone(awaiting')
  <2>1. PICK new : new = awaiting'
    OBVIOUS
  <2>2. PICK set : set = awaiting
    OBVIOUS
  <2>3. new = Disturb(set) \cup {e} /\ Alone(new)
    BY <1>3, <1>5, <1>6, <2>1, <2>2, CallBegun
  <2> QED
    BY <2>1, <2>2, <2>3
<1>8. ASSUME ~overlaid' PROVE Kept'
  <2>1. awaiting = {} /\ ~overlaid /\ awaiting' = {e}
    BY <1>7, <1>8 DEF Disturb
  <2>2. ServerWhole(server.records, did)
    BY <2>1 DEF WholeInv, Kept, Crossed
  <2>3. ServerWhole(server'.records, did')
    BY <1>1, <2>2, ServerLasts
  <2>4. DOMAIN msg'.active = {}
    BY DEF loadMessagesForRoom, NoIndex, ThreadInv, ThreadShape
  <2>5. \A messages, recs, active, room, srv, n : DOMAIN active = {} =>
          Brings(e, recs, active, room, srv, n)
    BY <1>4 DEF Brings
  <2>6. CallsFit(awaiting', msg'.messages, msg'.records, msg'.active, place'.room,
                 server'.records, did')
    BY <1>4, <2>1, <2>4, <2>5, ZenonT(30) DEF CallsFit
  <2>7. ~NoFetch(awaiting') /\ \A c \in awaiting' : Fetch(c) => c.room = place'.room
    BY <1>4, <2>1 DEF NoFetch, Fetch
  <2> QED
    BY <2>3, <2>6, <2>7 DEF Kept
<1> QED
  BY <1>1, <1>7, <1>8 DEF WholeInv

LEMMA OpenWhole ==
  ASSUME ThreadInv, WholeInv, NEW r \in ChatRooms, OpenRoomPage(r) \/ selectRoom(r)
  PROVE  WholeInv'
<1>1. /\ Do /\ server' = server /\ place'.room = r
      /\ overlaid' = (overlaid \/ awaiting # {})
  BY DEF OpenRoomPage, selectRoom, ThreadInv, ThreadShape
<1>2. CASE OpenRoomPage(r) /\ place.pending # 0
  <2>1. awaiting' = awaiting /\ awaiting # {}
    BY <1>2 DEF OpenRoomPage, ThreadInv, Indicated
  <2>2. did' \in 0..MaxDid
    BY <1>1, ActCounted
  <2> QED
    BY <1>1, <2>1, <2>2 DEF WholeInv
<1>3. CASE OpenRoomPage(r) /\ place.pending = 0
  <2>1. PICK load : load = loadMessagesForRoom(msg, awaiting, r, TRUE, did')
    OBVIOUS
  <2>2. msg' = load.msg /\ awaiting' = load.calls
    BY <1>3, <2>1 DEF OpenRoomPage
  <2>3. PICK init \in BOOLEAN : init = TRUE
    OBVIOUS
  <2> QED
    BY <1>1, <2>1, <2>2, <2>3, LoadWhole
<1>4. CASE selectRoom(r)
  <2>1. PICK load : load = loadMessagesForRoom(msg, awaiting, r, FALSE, did')
    OBVIOUS
  <2>2. msg' = load.msg /\ awaiting' = load.calls
    BY <1>4, <2>1 DEF selectRoom
  <2>3. PICK init \in BOOLEAN : init = FALSE
    OBVIOUS
  <2> QED
    BY <1>1, <2>1, <2>2, <2>3, LoadWhole
<1> QED
  BY <1>2, <1>3, <1>4

\* No name of a later operation is taken.
LEMMA NamesFresh ==
  ASSUME NEW srv, NEW n \in Nat, ServerWhole(srv, n), NEW messages, NEW recs, NEW active, NEW room,
         WholeThread(messages, recs, active, room, srv, n), NEW k \in Nat, n < k, k <= MaxDid
  PROVE  /\ \A r \in ChatRooms : <<"m", k>> \notin Ids(srv[r])
         /\ \A m \in ToSet(messages) : m.id # <<"q", k>>
<1>1. MaxDid \in Nat
  BY ThreadAssumption
<1>2. ~Given(<<"m", k>>, n)
  BY <1>1, NamesDiffer DEF Given
<1>3. \A r \in ChatRooms : <<"m", k>> \notin Ids(srv[r])
  BY <1>2 DEF ServerWhole, Ids
<1>4. ~AskedBy(<<"q", k>>, n)
  BY NamesDiffer DEF AskedBy
<1>5. \A p : ~HasRecord(recs, <<"q", k>>, p)
  <2> SUFFICES ASSUME NEW p, HasRecord(recs, <<"q", k>>, p) PROVE FALSE
    OBVIOUS
  <2>1. PICK i \in 1..Len(recs) : recs[i].id = <<"q", k>>
    BY DEF HasRecord
  <2>2. room \in ChatRooms /\ HasRecord(srv[room], recs[i].id, recs[i].parent)
    BY DEF WholeThread, OfRoom
  <2>3. PICK j \in 1..Len(srv[room]) : srv[room][j].id = recs[i].id
    BY <2>2 DEF HasRecord
  <2>4. Given(recs[i].id, n)
    BY <2>2, <2>3 DEF ServerWhole
  <2> QED
    BY <2>1, <2>4, NamesDiffer
<1>6. ASSUME NEW m \in ToSet(messages), m.id = <<"q", k>> PROVE FALSE
  <2>1. MessageFits(m, recs, n)
    BY DEF WholeThread, Fits
  <2>2. ~AnswerId(m.id)
    BY <1>6, NamesDiffer
  <2> QED
    BY <1>4, <1>5, <1>6, <2>1, <2>2 DEF MessageFits
<1> QED
  BY <1>3, <1>6

\* A question was asked, in the open room or the first of one that is empty.
LEMMA AskedWhole ==
  ASSUME ThreadInv, WholeInv, Do, server' = server, NEW room \in ChatRooms, place'.room = room,
         place.room = room \/ place.room \notin ChatRooms,
         NEW parent, NEW first \in BOOLEAN, NEW edit \in BOOLEAN, NEW snap,
         edit => snap = Snapshot(msg),
         msg' = Asked(msg, did', parent),
         awaiting' = Begin(awaiting, Create(did', room, parent, first, edit, snap)),
         overlaid => overlaid',
         ~overlaid' /\ Kept /\ NoFetch(awaiting) => parent \in Ids(msg.records) \cup {Null}
  PROVE  WholeInv'
<1>1. did \in Nat /\ did' \in Nat /\ did < did' /\ did <= did' /\ did' \in 0..MaxDid /\ did' <= MaxDid
  BY ActCounted, ThreadAssumption
<1>2. PICK call : call = Create(did', room, parent, first, edit, snap)
  OBVIOUS
<1>3. PICK e : e = Started(awaiting, call)
  OBVIOUS
<1>4. /\ e.kind = "create" /\ e.room = room /\ e.n = did' /\ e.parent = parent
      /\ e.edit = edit /\ e.snap = snap
  BY <1>2, <1>3 DEF Started, Create
<1>5. \A c \in awaiting : IsCall(c)
  BY DEF ThreadInv, ThreadShape
<1>6. /\ awaiting' = Disturb(awaiting) \cup {e} /\ Alone(awaiting')
      /\ e.alone => awaiting = {}
      /\ Crossed(awaiting') \/ NoFetch(awaiting)
  BY <1>2, <1>3, <1>5, CallBegun
<1>7. ASSUME ~overlaid', ~Crossed(awaiting') PROVE Kept'
  <2>1. ~overlaid /\ NoFetch(awaiting) /\ Kept /\ NoFetch(awaiting')
    <3>1. ~overlaid /\ NoFetch(awaiting)
      BY <1>6, <1>7
    <3>2. Kept
      BY <3>1 DEF WholeInv, Crossed, NoFetch
    <3>3. ~Fetch(e)
      BY <1>4 DEF Fetch
    <3>4. NoFetch(awaiting')
      BY <1>2, <1>3, <1>5, <3>1, <3>3, CallBegun
    <3> QED
      BY <3>1, <3>2, <3>4
  <2>2. PICK messages : messages = msg.messages
    OBVIOUS
  <2>3. PICK recs : recs = msg.records
    OBVIOUS
  <2>4. PICK active : active = msg.active
    OBVIOUS
  <2>5. PICK srv : srv = server.records
    OBVIOUS
  <2>6. /\ ServerWhole(srv, did) /\ parent \in Ids(recs) \cup {Null}
        /\ WholeThread(messages, recs, active, place.room, srv, did)
        /\ CallsFit(awaiting, messages, recs, active, place.room, srv, did)
    BY <1>7, <2>1, <2>2, <2>3, <2>4, <2>5 DEF Kept
  <2>7. WholeThread(messages, recs, active, room, srv, did)
    BY <2>6 DEF WholeThread, OfRoom
  <2>8. WholeThread(messages, recs, active, room, srv, did')
    BY <1>1, <2>7, WholeLasts
  <2>9. ServerWhole(srv, did')
    BY <1>1, <2>6, ServerLasts
  <2>10. /\ \A r \in ChatRooms : <<"m", did'>> \notin Ids(srv[r])
         /\ \A m \in ToSet(messages) : m.id # <<"q", did'>>
    BY <1>1, <2>6, <2>7, NamesFresh
  <2>11. PICK q : q = Question(did', parent)
    OBVIOUS
  <2>12. PICK a : a = PendingAnswer(did')
    OBVIOUS
  <2>13. PICK new : new = Joined(messages, q, a)
    OBVIOUS
  <2>14. msg'.messages = new /\ msg'.records = recs /\ msg'.active = active
    BY <2>2, <2>3, <2>4, <2>11, <2>12, <2>13 DEF Joined, Asked, ThreadInv, ThreadShape
  <2>15. ToSet(new) = ToSet(messages) \cup {q, a}
    <3>1. IsSeq(messages)
      BY <2>2 DEF ThreadInv, ThreadShape, IsThread
    <3> QED
      BY <2>13, <3>1, TwoMore
  <2>16. /\ q.id = <<"q", did'>> /\ q.mid = q.id /\ q.role = "user" /\ q.parent = parent
         /\ a.id = <<"a", did'>> /\ a.mid = Null /\ a.role = "assistant"
    BY <2>11, <2>12 DEF Question, PendingAnswer
  <2>17. MessageFits(q, recs, did') /\ MessageFits(a, recs, did')
    <3>1. AskedBy(q.id, did')
      BY <1>1, <2>16 DEF AskedBy
    <3>2. AnswerId(a.id)
      BY <2>16, NamesDiffer
    <3> QED
      BY <2>16, <3>1, <3>2 DEF MessageFits
  <2>18. WholeThread(new, recs, active, room, srv, did')
    BY <2>8, <2>15, <2>17 DEF WholeThread, Fits
  <2>19. \A m \in ToSet(new) : m \in ToSet(messages) \/ m = q \/ m = a
    BY <2>15
  <2>20. ASSUME NEW c \in awaiting, c.kind = "create"
         PROVE  CreateFits(c, new, recs, room, srv, did') /\ c.n # e.n
    <3>1. CreateFits(c, messages, recs, place.room, srv, did)
      BY <2>6, <2>20 DEF CallsFit
    <3>2. place.room = room /\ c.n \in Nat /\ c.n <= did
      BY <3>1 DEF CreateFits
    <3>3. c.n # did' /\ \A r \in ChatRooms : <<"m", c.n>> \notin Ids(srv[r])
      BY <1>1, <3>1, <3>2 DEF CreateFits
    <3>4. \A m \in ToSet(new) : m.id = <<"q", c.n>> => m \in ToSet(messages)
      BY <2>16, <2>19, <3>3, NamesDiffer
    <3>5. PICK n \in Nat : n = did' /\ did <= n
      BY <1>1
    <3>6. CreateFits(c, messages, recs, room, srv, did)
      BY <3>1, <3>2
    <3>7. CreateFits(c, new, recs, room, srv, did')
      BY <1>1, <3>3, <3>4, <3>5, <3>6, CreateLasts
    <3> QED
      BY <1>4, <3>3, <3>7
  <2>21. CreateFits(e, new, recs, room, srv, did')
    <3>1. \A m \in ToSet(new) : m.id = <<"q", did'>> => m.parent = parent
      BY <2>10, <2>16, <2>19, NamesDiffer
    <3> QED
      BY <1>1, <1>4, <2>6, <2>10, <3>1 DEF CreateFits
  <2>22. e.alone => Brings(e, recs, active, room, srv, did')
    <3>1. e.edit => WholeThread(e.snap.messages, e.snap.records, e.snap.active, room, srv, did')
      BY <1>4, <2>2, <2>3, <2>4, <2>8 DEF Snapshot
    <3> QED
      BY <1>4, <3>1 DEF Brings
  <2>23. CallsFit(awaiting', new, recs, active, room, srv, did')
    <3>1. PICK begun : begun = {e}
      OBVIOUS
    <3>2. /\ \A c \in awaiting : c.kind = "stream" => StreamFits(c, recs)
          /\ \A c, d \in awaiting : c.kind = "create" /\ d.kind = "create" /\ c.n = d.n => c = d
      BY <2>6 DEF CallsFit
    <3>3. /\ awaiting' = Disturb(awaiting) \cup begun /\ \A x, y \in begun : x = y
          /\ \A x \in begun : x = e
      BY <1>6, <3>1
    <3>4. PICK others : others = awaiting'
      OBVIOUS
    <3>5. PICK n \in Nat : n = did'
      BY <1>1
    <3>6. \A c \in awaiting : c.kind = "create" =>
            CreateFits(c, new, recs, room, srv, n) /\ c.n # e.n
      BY <2>20, <3>5
    <3>7. /\ \A x \in begun : x.kind = "create" =>
               /\ CreateFits(x, new, recs, room, srv, n)
               /\ \A c \in awaiting : c.kind = "create" => c.n # x.n
          /\ \A x \in begun : x.kind = "stream" => StreamFits(x, recs)
          /\ \A x \in begun : x.alone => Brings(x, recs, active, room, srv, n)
      BY <1>4, <2>21, <2>22, <3>3, <3>5, <3>6
    <3>8. CallsFit(others, new, recs, active, room, srv, n)
      BY <1>5, <3>2, <3>3, <3>4, <3>6, <3>7, CallsFitBegun
    <3> QED
      BY <3>4, <3>5, <3>8
  <2> QED
    BY <2>1, <2>5, <2>9, <2>14, <2>18, <2>23 DEF Kept, NoFetch
<1> QED
  BY <1>1, <1>6, <1>7 DEF WholeInv

LEMMA SentWhole ==
  ASSUME ThreadInv, WholeInv, NEW r \in ChatRooms, FirstSend(r) \/ sendInRoom
  PROVE  WholeInv'
<1>1. PICK parent :
        parent = getLastActiveRecordId(msg.records, msg.messages, msg.active)
  OBVIOUS
<1>2. PICK room \in ChatRooms, first \in BOOLEAN :
        /\ place'.room = room /\ sendMessage(did', room, first)
        /\ place.room = room \/ place.room \notin ChatRooms
  <2>1. PICK yes \in BOOLEAN : yes = TRUE
    OBVIOUS
  <2>2. PICK no \in BOOLEAN : no = FALSE
    OBVIOUS
  <2>3. CASE FirstSend(r)
    BY <2>1, <2>3, ThreadAssumption DEF FirstSend
  <2>4. CASE sendInRoom
    BY <2>2, <2>4 DEF sendInRoom, WholeInv
  <2> QED
    BY <2>3, <2>4
<1>3. Do /\ server' = server
  BY DEF FirstSend, sendInRoom
<1>4. /\ msg' = Asked(msg, did', parent)
      /\ awaiting' = Begin(awaiting, Create(did', room, parent, first, FALSE, NoSnapshot))
      /\ overlaid' = (overlaid \/ parent[1] = "q")
  BY <1>1, <1>2 DEF sendMessage
<1>5. ASSUME ~overlaid', Kept, NoFetch(awaiting) PROVE parent \in Ids(msg.records) \cup {Null}
  <2>1. IsSeq(msg.records) /\ Fits(msg.messages, msg.records, did)
    BY <1>5 DEF Kept, WholeThread, OfRoom, IsTree
  <2>2. IsSeq(msg.messages)
    BY DEF ThreadInv, ThreadShape, IsThread
  <2> QED
    BY <1>1, <1>4, <1>5, <2>1, <2>2, LastShown
<1>6. PICK edit \in BOOLEAN : edit = FALSE
  OBVIOUS
<1>7. PICK snap : snap = NoSnapshot
  OBVIOUS
<1> QED
  BY <1>2, <1>3, <1>4, <1>5, <1>6, <1>7, AskedWhole

LEMMA EditedWhole ==
  ASSUME ThreadInv, WholeInv, NEW m \in ToSet(msg.messages), editMessage(m)
  PROVE  WholeInv'
<1>1. /\ Do /\ server' = server /\ place' = place /\ place.room # NoChatRoom /\ m.role = "user"
      /\ msg' = Asked(msg, did', m.parent)
      /\ awaiting' = Begin(awaiting, Create(did', place.room, m.parent, FALSE, TRUE,
                                            Snapshot(msg)))
      /\ overlaid' = (overlaid \/ (m.id[1] = "q" /\ m.parent \notin Ids(msg.records) \cup {Null}))
  BY DEF editMessage
<1>2. PICK room \in ChatRooms : room = place.room
  BY <1>1 DEF WholeInv
<1>3. PICK parent : parent = m.parent
  OBVIOUS
<1>4. ASSUME ~overlaid', Kept, NoFetch(awaiting) PROVE parent \in Ids(msg.records) \cup {Null}
  <2>1. MessageFits(m, msg.records, did) /\ IsTree(msg.records)
    BY <1>4 DEF Kept, WholeThread, OfRoom, Fits
  <2>2. CASE AskedBy(m.id, did)
    BY <1>1, <1>3, <1>4, <2>2, NamesDiffer
  <2>3. CASE HasRecord(msg.records, m.mid, m.parent)
    BY <1>3, <2>1, <2>3 DEF HasRecord, IsTree
  <2> QED
    BY <1>1, <2>1, <2>2, <2>3 DEF MessageFits
<1>5. PICK edit \in BOOLEAN : edit = TRUE
  OBVIOUS
<1>6. PICK first \in BOOLEAN : first = FALSE
  OBVIOUS
<1>7. PICK snap : snap = Snapshot(msg)
  OBVIOUS
<1>8. place'.room = room
  BY <1>1, <1>2
<1> QED
  BY <1>1, <1>2, <1>3, <1>4, <1>5, <1>6, <1>7, <1>8, AskedWhole

\* Ratings and what is said of an answer leave a thread whole.
LEMMA WholeRated ==
  ASSUME NEW messages, NEW recs, NEW active, NEW room, NEW srv, NEW n \in Nat,
         WholeThread(messages, recs, active, room, srv, n),
         NEW new, \A m \in ToSet(new) : \E o \in ToSet(messages) : SameMessage(o, m),
         NEW rated, Rated(rated, recs), NEW k \in Nat, n <= k
  PROVE  WholeThread(new, rated, active, room, srv, k)
<1>1. /\ IsTree(rated) /\ Ids(rated) = Ids(recs)
      /\ \A id, p : HasRecord(recs, id, p) => HasRecord(rated, id, p)
      /\ \A g : Versions(recs, g) = Versions(rated, g)
  BY RecordsRated DEF WholeThread, OfRoom
<1>2. OfRoom(rated, room, srv)
  BY <1>1 DEF WholeThread, OfRoom, Rated
<1>3. Indexed(rated, active)
  BY <1>1 DEF WholeThread, Indexed
<1>4. Fits(new, rated, k)
  BY <1>1, MessagesFitOn DEF WholeThread
<1> QED
  BY <1>2, <1>3, <1>4 DEF WholeThread

LEMMA RatedItself ==
  ASSUME NEW s, IsSeq(s)
  PROVE  Rated(s, s)
  BY DEF Rated

\* A handler began that asks no question; ratings and answers may have changed.
LEMMA BegunWhole ==
  ASSUME ThreadInv, WholeInv, Do, server' = server, place' = place, overlaid' = overlaid,
         NEW call, awaiting' = Begin(awaiting, call), NEW e, e = Started(awaiting, call),
         e.kind \in {"stream", "delete", "rate"},
         msg'.active = msg.active, IsTree(msg.records) => Rated(msg'.records, msg.records),
         \A m \in ToSet(msg'.messages) : \E o \in ToSet(msg.messages) : SameMessage(o, m),
         Kept /\ NoFetch(awaiting) /\ e.kind = "stream" => StreamFits(e, msg.records),
         /\ did' \in Nat /\ did <= did' /\ e.alone
         /\ WholeThread(msg.messages, msg.records, msg.active, place.room, server.records, did')
         => Brings(e, msg'.records, msg.active, place.room, server.records, did')
  PROVE  WholeInv'
<1>1. did \in Nat /\ did' \in Nat /\ did <= did' /\ did' \in 0..MaxDid
  BY ActCounted
<1>2. \A c \in awaiting : IsCall(c)
  BY DEF ThreadInv, ThreadShape
<1>3. /\ awaiting' = Disturb(awaiting) \cup {e} /\ Alone(awaiting')
      /\ Crossed(awaiting') \/ NoFetch(awaiting)
      /\ NoFetch(awaiting) /\ ~Fetch(e) => NoFetch(awaiting')
  <2>1. PICK new : new = awaiting'
    OBVIOUS
  <2>2. PICK set : set = awaiting
    OBVIOUS
  <2>3. /\ new = Disturb(set) \cup {e} /\ Alone(new)
        /\ Crossed(new) \/ NoFetch(set)
        /\ NoFetch(set) /\ ~Fetch(e) => NoFetch(new)
    BY <1>2, <2>1, <2>2, CallBegun
  <2> QED
    BY <2>1, <2>2, <2>3
<1>4. ASSUME ~overlaid', ~Crossed(awaiting') PROVE Kept'
  <2>1. NoFetch(awaiting) /\ Kept /\ NoFetch(awaiting')
    BY <1>3, <1>4 DEF WholeInv, Crossed, NoFetch, Fetch
  <2>2. PICK recs : recs = msg.records
    OBVIOUS
  <2>3. PICK rated : rated = msg'.records
    OBVIOUS
  <2>4. PICK active : active = msg.active
    OBVIOUS
  <2>5. PICK srv : srv = server.records
    OBVIOUS
  <2>6. PICK room : room = place.room
    OBVIOUS
  <2>7. PICK messages : messages = msg.messages
    OBVIOUS
  <2>8. PICK new : new = msg'.messages
    OBVIOUS
  <2>9. PICK n \in Nat : n = did'
    BY <1>1
  <2>10. /\ ServerWhole(srv, did) /\ WholeThread(messages, recs, active, room, srv, did)
         /\ CallsFit(awaiting, messages, recs, active, room, srv, did)
    BY <2>1, <2>2, <2>4, <2>5, <2>6, <2>7 DEF Kept
  <2>11. ServerWhole(srv, n) /\ WholeThread(messages, recs, active, room, srv, n)
    BY <1>1, <2>9, <2>10, ServerLasts, WholeLasts
  <2>12. Rated(rated, recs) /\ \A m \in ToSet(new) : \E o \in ToSet(messages) : SameMessage(o, m)
    BY <2>2, <2>3, <2>7, <2>8, <2>10 DEF WholeThread, OfRoom
  <2>13. WholeThread(new, rated, active, room, srv, n)
    BY <1>1, <2>9, <2>10, <2>12, WholeRated
  <2>14. Ids(rated) = Ids(recs)
    BY <2>10, <2>12, RecordsRated DEF WholeThread, OfRoom
  <2>15. ASSUME NEW c \in awaiting, c.kind = "create"
         PROVE  CreateFits(c, new, rated, room, srv, n)
    <3>1. CreateFits(c, messages, recs, room, srv, did)
      BY <2>10, <2>15 DEF CallsFit
    <3>2. \A r \in ChatRooms : <<"m", c.n>> \notin Ids(srv[r])
      BY <3>1 DEF CreateFits
    <3>3. \A m \in ToSet(new) : m.id = <<"q", c.n>> =>
            \E o \in ToSet(messages) : o.id = m.id /\ o.parent = m.parent
      BY <2>12 DEF SameMessage
    <3> QED
      BY <1>1, <2>9, <2>14, <3>1, <3>2, <3>3, CreateLasts
  <2>16. \A c \in awaiting : c.kind = "stream" => StreamFits(c, rated)
    BY <2>10, <2>14 DEF CallsFit, StreamFits
  <2>17. e.kind = "stream" => StreamFits(e, rated)
    BY <2>1, <2>2, <2>14 DEF StreamFits
  <2>18. e.alone => Brings(e, rated, active, room, srv, n)
    BY <1>1, <2>2, <2>3, <2>4, <2>5, <2>6, <2>7, <2>9, <2>11
  <2>19. \A c, d \in awaiting : c.kind = "create" /\ d.kind = "create" /\ c.n = d.n => c = d
    BY <2>10 DEF CallsFit
  <2>20. CallsFit(awaiting', new, rated, active, room, srv, n)
    <3>1. PICK begun : begun = {e}
      OBVIOUS
    <3>2. PICK others : others = awaiting'
      OBVIOUS
    <3>3. others = Disturb(awaiting) \cup begun /\ \A x \in begun : x = e
      BY <1>3, <3>1, <3>2
    <3>4. CallsFit(others, new, rated, active, room, srv, n)
      BY <1>2, <2>15, <2>16, <2>17, <2>18, <2>19, <3>3, CallsFitBegun, ZenonT(30)
    <3> QED
      BY <3>2, <3>4
  <2> QED
    BY <2>1, <2>3, <2>4, <2>5, <2>6, <2>8, <2>9, <2>11, <2>13, <2>20 DEF Kept, NoFetch
<1> QED
  BY <1>1, <1>3, <1>4 DEF WholeInv

\* A status says nothing of the thread's shape.
LEMMA MarkedSame ==
  ASSUME NEW s, IsThread(s), NEW id, NEW status, NEW t, Marked(t, s, id, status)
  PROVE  \A m \in ToSet(t) : \E o \in ToSet(s) : SameMessage(o, m)
<1>1. Len(s) \in Nat /\ \A i \in 1..Len(s) : s[i] \in ToSet(s) /\ IsMessage(s[i])
  BY ThreadElements
<1>2. \A i \in 1..Len(s) : t[i] = s[i] \/ t[i] = [s[i] EXCEPT !.status = status]
  BY DEF Marked
<1>3. \A i \in 1..Len(s) : SameMessage(s[i], t[i])
  BY <1>1, <1>2 DEF SameMessage, IsMessage, MessageFields
<1>4. t = [i \in 1..Len(s) |-> t[i]]
  BY DEF Marked
<1>5. \A m \in ToSet(t) : \E i \in 1..Len(s) : m = t[i]
  BY <1>1, <1>4, Listed
<1> QED
  BY <1>1, <1>3, <1>5

LEMMA MessagesSame ==
  ASSUME NEW s, NEW t, t = s
  PROVE  \A m \in ToSet(t) : \E o \in ToSet(s) : SameMessage(o, m)
  BY DEF SameMessage

LEMMA ResentWhole ==
  ASSUME ThreadInv, WholeInv, NEW m \in ToSet(msg.messages), resendMessage(m)
  PROVE  WholeInv'
<1>1. PICK call : call = Stream(m.mid[2], place.room, m.mid, m.id, FALSE, FALSE, NoSnapshot)
  OBVIOUS
<1>2. PICK e : e = Started(awaiting, call)
  OBVIOUS
<1>3. /\ e.kind = "stream" /\ e.track = m.id /\ e.local = m.id /\ e.mid = m.mid /\ ~e.edit
  BY <1>1, <1>2 DEF Started, Stream
<1>4. /\ Do /\ server' = server /\ place' = place /\ overlaid' = overlaid
      /\ awaiting' = Begin(awaiting, call) /\ m.role = "assistant" /\ m.mid # Null
  BY <1>1 DEF resendMessage
<1>5. /\ msg'.active = msg.active /\ msg'.records = msg.records
      /\ Marked(msg'.messages, msg.messages, m.id, "PENDING")
  BY DEF resendMessage, ThreadInv, ThreadShape, patchAssistantMessage, Map, Marked
<1>6. IsTree(msg.records) => Rated(msg'.records, msg.records)
  BY <1>5, RatedItself DEF IsTree
<1>7. \A x \in ToSet(msg'.messages) : \E o \in ToSet(msg.messages) : SameMessage(o, x)
  <2>1. PICK id : id = m.id
    OBVIOUS
  <2>2. IsThread(msg.messages) /\ Marked(msg'.messages, msg.messages, id, "PENDING")
    BY <1>5, <2>1 DEF ThreadInv, ThreadShape
  <2> QED
    BY <2>2, MarkedSame
<1>8. ASSUME Kept, NoFetch(awaiting) PROVE StreamFits(e, msg.records)
  <2>1. MessageFits(m, msg.records, did)
    BY <1>8 DEF Kept, WholeThread, Fits
  <2> QED
    BY <1>3, <1>4, <2>1 DEF MessageFits, StreamFits
<1>9. \A recs, active, room, srv, n : Brings(e, recs, active, room, srv, n)
  BY <1>3 DEF Brings
<1> QED
  BY <1>2, <1>3, <1>4, <1>5, <1>6, <1>7, <1>8, <1>9, BegunWhole

LEMMA DeletionBegunWhole ==
  ASSUME ThreadInv, WholeInv, NEW m, deleteMessage(m)
  PROVE  WholeInv'
<1>1. PICK call : call = [kind |-> "delete", n |-> did', room |-> place.room,
                          id |-> m.mid, before |-> msg.records]
  OBVIOUS
<1>2. PICK e : e = Started(awaiting, call)
  OBVIOUS
<1>3. e.kind = "delete" /\ e.before = msg.records
  BY <1>1, <1>2 DEF Started
<1>4. /\ Do /\ server' = server /\ place' = place /\ overlaid' = overlaid /\ msg' = msg
      /\ awaiting' = Begin(awaiting, call)
  BY <1>1 DEF deleteMessage
<1>5. IsTree(msg.records) => Rated(msg'.records, msg.records)
  BY <1>4, RatedItself DEF IsTree
<1>6. \A x \in ToSet(msg'.messages) : \E o \in ToSet(msg.messages) : SameMessage(o, x)
  BY <1>4, MessagesSame
<1>7. \A active, room, srv, n : Brings(e, msg'.records, active, room, srv, n)
  BY <1>3, <1>4 DEF Brings
<1> QED
  BY <1>2, <1>3, <1>4, <1>5, <1>6, <1>7, BegunWhole

LEMMA RatingBegunWhole ==
  ASSUME ThreadInv, WholeInv, NEW m, rateMessage(m)
  PROVE  WholeInv'
<1>1. PICK call : call = [kind |-> "rate", n |-> did', room |-> place.room,
                          snap |-> Snapshot(msg)]
  OBVIOUS
<1>2. PICK e : e = Started(awaiting, call)
  OBVIOUS
<1>3. /\ e.kind = "rate" /\ e.snap.messages = msg.messages /\ e.snap.records = msg.records
  BY <1>1, <1>2 DEF Started, Snapshot
<1>4. /\ Do /\ server' = server /\ place' = place /\ overlaid' = overlaid
      /\ awaiting' = Begin(awaiting, call)
  BY <1>1 DEF rateMessage
<1>5. PICK s : s = msg.messages
  OBVIOUS
<1>6. PICK recs : recs = msg.records
  OBVIOUS
<1>7. PICK t : t = [i \in 1..Len(s) |-> IF s[i].mid = m.mid THEN [s[i] EXCEPT !.rated = TRUE]
                                        ELSE s[i]]
  OBVIOUS
<1>8. PICK rated : rated = [i \in 1..Len(recs) |->
        IF recs[i].id = m.mid THEN [recs[i] EXCEPT !.rated = TRUE] ELSE recs[i]]
  OBVIOUS
<1>9. msg'.active = msg.active /\ msg'.messages = t /\ msg'.records = rated
  BY <1>5, <1>6, <1>7, <1>8 DEF rateMessage, ThreadInv, ThreadShape, Map
<1>10. \A x \in ToSet(t) : \E o \in ToSet(s) : SameMessage(o, x)
  <2>1. IsThread(s)
    BY <1>5 DEF ThreadInv, ThreadShape
  <2>2. Len(s) \in Nat /\ \A i \in 1..Len(s) : s[i] \in ToSet(s) /\ IsMessage(s[i])
    BY <2>1, ThreadElements
  <2>3. \A i \in 1..Len(s) : SameMessage(s[i], t[i])
    BY <1>7, <2>2 DEF SameMessage, IsMessage, MessageFields
  <2>4. t = [i \in 1..Len(s) |-> t[i]]
    BY <1>7
  <2>5. \A x \in ToSet(t) : \E i \in 1..Len(s) : x = t[i]
    BY <2>2, <2>4, Listed
  <2> QED
    BY <2>2, <2>3, <2>5
<1>11. ASSUME IsTree(recs) PROVE Rated(rated, recs)
  <2>1. /\ Len(recs) \in Nat
        /\ \A i \in 1..Len(recs) : DOMAIN recs[i] = RecordFields
    BY <1>11, Elements DEF IsTree
  <2>2. rated = [i \in 1..Len(recs) |-> rated[i]]
    BY <1>8
  <2>3. IsSeq(rated) /\ Len(rated) = Len(recs)
    BY <2>1, <2>2, Listed
  <2>4. \A i \in 1..Len(recs) :
          rated[i] = recs[i] \/ rated[i] = [recs[i] EXCEPT !.rated = TRUE]
    BY <1>8
  <2> QED
    BY <2>1, <2>3, <2>4 DEF Rated, RecordFields
<1>12. ASSUME WholeThread(msg.messages, msg.records, msg.active, place.room,
                          server.records, did')
       PROVE  Brings(e, msg'.records, msg.active, place.room, server.records, did')
  BY <1>3, <1>12 DEF Brings
<1>13. IsTree(msg.records) => Rated(msg'.records, msg.records)
  BY <1>6, <1>9, <1>11
<1>14. \A x \in ToSet(msg'.messages) : \E o \in ToSet(msg.messages) : SameMessage(o, x)
  BY <1>5, <1>9, <1>10
<1>15. msg'.active = msg.active /\ e.kind \in {"stream", "delete", "rate"}
  BY <1>3, <1>9
<1>16. Kept /\ NoFetch(awaiting) /\ e.kind = "stream" => StreamFits(e, msg.records)
  BY <1>3
<1>17. /\ did' \in Nat /\ did <= did' /\ e.alone
       /\ WholeThread(msg.messages, msg.records, msg.active, place.room, server.records, did')
       => Brings(e, msg'.records, msg.active, place.room, server.records, did')
  BY <1>12
<1> QED
  BY <1>2, <1>4, <1>13, <1>14, <1>15, <1>16, <1>17, BegunWhole

LEMMA SwitchedWhole ==
  ASSUME ThreadInv, WholeInv, NEW g, NEW step, switchVersion(g, step)
  PROVE  WholeInv'
<1>1. PICK siblings : siblings = getSiblingRecords(msg.records, g)
  OBVIOUS
<1>2. PICK at : at = IndexOf(msg.active, g, siblings)
  OBVIOUS
<1>3. PICK next : next = IF step < 0 THEN (IF at > 1 THEN at - 1 ELSE 1)
              ELSE (IF at < Len(siblings) THEN at + 1 ELSE Len(siblings))
  OBVIOUS
<1>4. /\ Do /\ Len(siblings) > 1 /\ msg' = [msg EXCEPT !.active = With(@, g, next)]
      /\ awaiting' = Disturb(awaiting) /\ place' = place /\ server' = server
      /\ overlaid' = overlaid
  BY <1>1, <1>2, <1>3 DEF switchVersion
<1>5. did \in Nat /\ did' \in Nat /\ did <= did' /\ did' \in 0..MaxDid
  BY <1>4, ActCounted
<1>6. \A c \in awaiting : IsCall(c)
  BY DEF ThreadInv, ThreadShape
<1>7. /\ Alone(awaiting') /\ (Crossed(awaiting') \/ NoFetch(awaiting))
      /\ NoFetch(awaiting) => NoFetch(awaiting')
  BY <1>4, <1>6, CallsDisturbed
<1>8. ASSUME ~overlaid', ~Crossed(awaiting') PROVE Kept'
  <2>1. NoFetch(awaiting) /\ Kept /\ NoFetch(awaiting')
    BY <1>4, <1>7, <1>8 DEF WholeInv, Crossed, NoFetch
  <2>2. PICK recs : recs = msg.records
    OBVIOUS
  <2>3. PICK active : active = msg.active
    OBVIOUS
  <2>4. PICK srv : srv = server.records
    OBVIOUS
  <2>5. PICK room : room = place.room
    OBVIOUS
  <2>6. PICK messages : messages = msg.messages
    OBVIOUS
  <2>7. PICK n \in Nat : n = did'
    BY <1>5
  <2>8. /\ ServerWhole(srv, did) /\ WholeThread(messages, recs, active, room, srv, did)
        /\ CallsFit(awaiting, messages, recs, active, room, srv, did)
    BY <2>1, <2>2, <2>3, <2>4, <2>5, <2>6 DEF Kept
  <2>9. ServerWhole(srv, n) /\ WholeThread(messages, recs, active, room, srv, n)
    BY <1>5, <2>7, <2>8, ServerLasts, WholeLasts
  <2>10. PICK shown : shown = With(active, g, next)
    OBVIOUS
  <2>11. msg'.messages = messages /\ msg'.records = recs /\ msg'.active = shown
    BY <1>4, <2>2, <2>3, <2>6, <2>10 DEF ThreadInv, ThreadShape
  <2>12. PICK count \in Nat : count = Len(siblings) /\ count = Cardinality(Versions(recs, g))
    BY <1>1, <2>2, <2>8, VersionsCounted DEF WholeThread, OfRoom, IsTree
  <2>13. at \in 1..count
    BY <1>2, <1>4, <2>3, <2>8, <2>12 DEF IndexOf, WholeThread, Indexed
  <2>14. next \in 1..count
    BY <1>3, <1>4, <2>12, <2>13
  <2>15. Indexed(recs, shown)
    BY <2>8, <2>10, <2>12, <2>14 DEF With, WholeThread, Indexed
  <2>16. WholeThread(messages, recs, shown, room, srv, n)
    BY <2>9, <2>15 DEF WholeThread
  <2>17. ASSUME NEW c \in awaiting, c.kind = "create"
         PROVE  CreateFits(c, messages, recs, room, srv, n)
    <3>1. CreateFits(c, messages, recs, room, srv, did)
      BY <2>8, <2>17 DEF CallsFit
    <3>2. \A r \in ChatRooms : <<"m", c.n>> \notin Ids(srv[r])
      BY <3>1 DEF CreateFits
    <3> QED
      BY <1>5, <2>7, <3>1, <3>2, CreateLasts
  <2>18. /\ \A c \in awaiting : c.kind = "stream" => StreamFits(c, recs)
         /\ \A c, d \in awaiting : c.kind = "create" /\ d.kind = "create" /\ c.n = d.n => c = d
    BY <2>8 DEF CallsFit
  <2>19. CallsFit(awaiting', messages, recs, shown, room, srv, n)
    <3>1. PICK begun : begun = {}
      OBVIOUS
    <3>2. PICK others : others = awaiting'
      OBVIOUS
    <3>3. others = Disturb(awaiting) \cup begun /\ \A x \in begun : FALSE
      BY <1>4, <3>1, <3>2
    <3>4. CallsFit(others, messages, recs, shown, room, srv, n)
      BY <1>6, <2>17, <2>18, <3>3, CallsFitBegun
    <3> QED
      BY <3>2, <3>4
  <2> QED
    BY <1>4, <2>1, <2>4, <2>5, <2>7, <2>9, <2>11, <2>16, <2>19 DEF Kept, NoFetch
<1>9. place'.room \in ChatRooms \cup {NoChatRoom}
  BY <1>4 DEF WholeInv
<1> QED
  BY <1>5, <1>7, <1>8, <1>9 DEF WholeInv

----------------------------------------------------------------------------
(* What follows the awaits.                                                *)

\* A handler that is not a load's went on, and no load was crossed: none is out.
LEMMA Uncrossed ==
  ASSUME WholeInv, NEW c \in awaiting, ~Fetch(c), awaiting \ {c} \subseteq awaiting',
         overlaid => overlaid', ~overlaid', ~Crossed(awaiting')
  PROVE  NoFetch(awaiting) /\ Kept /\ ~overlaid
<1>1. NoFetch(awaiting)
  <2> SUFFICES ASSUME NEW f \in awaiting, Fetch(f) PROVE FALSE
    BY DEF NoFetch
  <2>1. f # c /\ f \in awaiting'
    OBVIOUS
  <2>2. f.alone
    BY <2>1 DEF Crossed
  <2> QED
    BY <2>1, <2>2 DEF WholeInv, Alone
<1> QED
  BY <1>1 DEF WholeInv, Crossed, NoFetch

\* A handler that was alone has what it brings back.
LEMMA AloneBrings ==
  ASSUME WholeInv, NEW c \in awaiting, c.alone, ~overlaid
  PROVE  /\ awaiting = {c} /\ Kept
         /\ Brings(c, msg.records, msg.active, place.room, server.records, did)
<1>1. awaiting = {c}
  BY DEF WholeInv, Alone
<1>2. Kept
  BY <1>1 DEF WholeInv, Crossed
<1> QED
  BY <1>1, <1>2 DEF Kept, CallsFit

\* No handler becomes alone.
LEMMA AloneOn ==
  ASSUME WholeInv, NEW c \in awaiting, NEW more, \A x, y \in more : x = y,
         \A x \in more : x.alone => c.alone, awaiting' = (awaiting \ {c}) \cup more
  PROVE  Alone(awaiting')
<1> SUFFICES ASSUME NEW x \in awaiting', x.alone PROVE awaiting' = {x}
  BY DEF Alone
<1>1. Alone(awaiting)
  BY DEF WholeInv
<1>2. CASE x \in awaiting \ {c}
  BY <1>1, <1>2 DEF Alone
<1>3. CASE x \in more
  <2>1. c.alone
    BY <1>3
  <2>2. awaiting = {c}
    BY <1>1, <2>1 DEF Alone
  <2> QED
    BY <1>3, <2>2
<1> QED
  BY <1>2, <1>3

\* Nothing is on its way any more and the thread is whole.
LEMMA RestWhole ==
  ASSUME place'.room \in ChatRooms \cup {NoChatRoom}, did' \in 0..MaxDid, awaiting' = {},
         \/ overlaid'
         \/ /\ ServerWhole(server'.records, did')
            /\ WholeThread(msg'.messages, msg'.records, msg'.active, place'.room,
                           server'.records, did')
  PROVE  WholeInv'
<1>1. Alone(awaiting')
  BY NoCalls
<1>2. CallsFit(awaiting', msg'.messages, msg'.records, msg'.active, place'.room,
               server'.records, did')
  BY NoCalls
<1> QED
  BY <1>1, <1>2 DEF WholeInv, Kept

\* A handler went on, or ended, that left the records alone.
LEMMA WentOnWhole ==
  ASSUME WholeInv, NEW c \in awaiting, ~Fetch(c), NEW more, \A x, y \in more : x = y,
         \A x \in more : /\ c.kind = "stream" /\ x.kind = "stream" /\ x.edit = c.edit
                         /\ x.snap = c.snap /\ x.alone = c.alone,
         awaiting' = (awaiting \ {c}) \cup more, did' = did, place'.room = place.room,
         server'.records = server.records, overlaid => overlaid',
         msg'.records = msg.records, msg'.active = msg.active,
         ~overlaid' /\ NoFetch(awaiting) /\ Kept =>
           /\ Fits(msg'.messages, msg.records, did)
           /\ \A m \in ToSet(msg'.messages) : m.id[1] = "q" =>
                \E o \in ToSet(msg.messages) : o.id = m.id /\ o.parent = m.parent
           /\ \A x \in more : StreamFits(x, msg.records)
  PROVE  WholeInv'
<1>1. Alone(awaiting')
  BY AloneOn
<1>2. did \in Nat /\ did' \in 0..MaxDid /\ place'.room \in ChatRooms \cup {NoChatRoom}
  BY ThreadAssumption DEF WholeInv
<1>3. ASSUME ~overlaid', ~Crossed(awaiting') PROVE Kept'
  <2>1. NoFetch(awaiting) /\ Kept
    BY <1>3, Uncrossed
  <2>2. PICK recs : recs = msg.records
    OBVIOUS
  <2>3. PICK active : active = msg.active
    OBVIOUS
  <2>4. PICK srv : srv = server.records
    OBVIOUS
  <2>5. PICK room : room = place.room
    OBVIOUS
  <2>6. PICK messages : messages = msg.messages
    OBVIOUS
  <2>7. PICK new : new = msg'.messages
    OBVIOUS
  <2>8. /\ ServerWhole(srv, did) /\ WholeThread(messages, recs, active, room, srv, did)
        /\ CallsFit(awaiting, messages, recs, active, room, srv, did)
    BY <2>1, <2>2, <2>3, <2>4, <2>5, <2>6 DEF Kept
  <2>9. /\ Fits(new, recs, did) /\ \A x \in more : StreamFits(x, recs)
        /\ \A m \in ToSet(new) : m.id[1] = "q" =>
             \E o \in ToSet(messages) : o.id = m.id /\ o.parent = m.parent
    BY <1>3, <2>1, <2>2, <2>6, <2>7
  <2>10. WholeThread(new, recs, active, room, srv, did)
    BY <2>8, <2>9 DEF WholeThread
  <2>11. \A x \in awaiting' : x \in awaiting \/ x \in more
    OBVIOUS
  <2>12. ASSUME NEW x \in awaiting', x.kind = "create"
         PROVE  x \in awaiting /\ CreateFits(x, new, recs, room, srv, did)
    <3>1. x \in awaiting
      BY <2>11, <2>12
    <3>2. CreateFits(x, messages, recs, room, srv, did)
      BY <2>8, <2>12, <3>1 DEF CallsFit
    <3>3. \A r \in ChatRooms : <<"m", x.n>> \notin Ids(srv[r])
      BY <3>2 DEF CreateFits
    <3>4. \A m \in ToSet(new) : m.id = <<"q", x.n>> =>
            \E o \in ToSet(messages) : o.id = m.id /\ o.parent = m.parent
      BY <2>9
    <3>5. PICK n \in Nat : n = did /\ n <= n
      BY <1>2
    <3>6. CreateFits(x, messages, recs, room, srv, n)
      BY <3>2, <3>5
    <3>7. CreateFits(x, new, recs, room, srv, n)
      BY <3>3, <3>4, <3>5, <3>6, CreateLasts
    <3> QED
      BY <3>1, <3>5, <3>7
  <2>13. ASSUME NEW x \in awaiting', x.kind = "stream" PROVE StreamFits(x, recs)
    BY <2>8, <2>9, <2>11, <2>13 DEF CallsFit
  <2>14. \A x, y \in awaiting' : x.kind = "create" /\ y.kind = "create" /\ x.n = y.n => x = y
    BY <2>8, <2>12 DEF CallsFit
  <2>15. ASSUME NEW x \in awaiting', x.alone PROVE Brings(x, recs, active, room, srv, did)
    <3>1. CASE x \in more
      <4>1. Brings(c, recs, active, room, srv, did)
        BY <2>8, <2>15, <3>1 DEF CallsFit
      <4> QED
        BY <3>1, <4>1 DEF Brings
    <3> QED
      BY <2>8, <2>11, <2>15, <3>1 DEF CallsFit
  <2>16. CallsFit(awaiting', new, recs, active, room, srv, did)
    BY <2>12, <2>13, <2>14, <2>15 DEF CallsFit
  <2>17. NoFetch(awaiting')
    BY <2>1, <2>11 DEF NoFetch, Fetch
  <2> QED
    BY <2>2, <2>3, <2>4, <2>5, <2>7, <2>8, <2>10, <2>16, <2>17 DEF Kept, NoFetch
<1> QED
  BY <1>1, <1>2, <1>3 DEF WholeInv

\* A record's name is one the server has given.
LEMMA RecordsNamed ==
  ASSUME NEW srv, NEW n, ServerWhole(srv, n), NEW recs, NEW room, OfRoom(recs, room, srv),
         NEW id \in Ids(recs)
  PROVE  Given(id, n) /\ room \in ChatRooms /\ id \in Ids(srv[room])
<1>1. PICK i \in 1..Len(recs) : recs[i].id = id
  BY DEF Ids
<1>2. room \in ChatRooms /\ HasRecord(srv[room], id, recs[i].parent)
  BY <1>1 DEF OfRoom
<1>3. PICK j \in 1..Len(srv[room]) : srv[room][j].id = id
  BY <1>2 DEF HasRecord
<1> QED
  BY <1>2, <1>3 DEF ServerWhole, Ids

\* What is said of an answer leaves the questions alone.
LEMMA SameOn ==
  ASSUME NEW old, NEW recs, NEW n \in Nat, Fits(old, recs, n),
         NEW new, \A m \in ToSet(new) : \E o \in ToSet(old) : SameMessage(o, m)
  PROVE  /\ Fits(new, recs, n)
         /\ \A m \in ToSet(new) : m.id[1] = "q" =>
              \E o \in ToSet(old) : o.id = m.id /\ o.parent = m.parent
<1>1. n <= n
  OBVIOUS
<1>2. Fits(new, recs, n)
  BY <1>1, MessagesFitOn
<1>3. \A m \in ToSet(new) : \E o \in ToSet(old) : o.id = m.id /\ o.parent = m.parent
  BY DEF SameMessage
<1> QED
  BY <1>2, <1>3

LEMMA DeltaWhole ==
  ASSUME ThreadInv, WholeInv, NEW c \in awaiting, c.kind = "stream", TextDelta(c)
  PROVE  WholeInv'
<1>1. /\ awaiting' = awaiting /\ did' = did /\ place' = place /\ server' = server
      /\ overlaid' = overlaid
  BY DEF TextDelta
<1>2. /\ msg'.active = msg.active /\ msg'.records = msg.records
      /\ Marked(msg'.messages, msg.messages, c.track, "STREAMING")
  BY DEF TextDelta, ThreadInv, ThreadShape, patchAssistantMessage, Map, Marked
<1>3. \A x \in ToSet(msg'.messages) : \E o \in ToSet(msg.messages) : SameMessage(o, x)
  <2>1. PICK id : id = c.track
    OBVIOUS
  <2>2. IsThread(msg.messages) /\ Marked(msg'.messages, msg.messages, id, "STREAMING")
    BY <1>2, <2>1 DEF ThreadInv, ThreadShape
  <2> QED
    BY <2>2, MarkedSame
<1>4. ASSUME NoFetch(awaiting), Kept
      PROVE  /\ Fits(msg'.messages, msg.records, did)
             /\ \A m \in ToSet(msg'.messages) : m.id[1] = "q" =>
                  \E o \in ToSet(msg.messages) : o.id = m.id /\ o.parent = m.parent
             /\ StreamFits(c, msg.records)
  <2>1. PICK n \in Nat : n = did
    BY ThreadAssumption DEF WholeInv
  <2>2. Fits(msg.messages, msg.records, n)
    BY <1>4, <2>1 DEF Kept, WholeThread
  <2>3. StreamFits(c, msg.records)
    BY <1>4 DEF Kept, CallsFit
  <2> QED
    BY <1>3, <2>1, <2>2, <2>3, SameOn
<1>5. PICK more : more = {c}
  OBVIOUS
<1>6. /\ awaiting' = (awaiting \ {c}) \cup more /\ ~Fetch(c)
      /\ \A x, y \in more : x = y
      /\ \A x \in more : x = c
  BY <1>1, <1>5 DEF Fetch
<1> QED
  BY <1>1, <1>2, <1>4, <1>6, WentOnWhole

LEMMA ContentWhole ==
  ASSUME ThreadInv, WholeInv, NEW c \in awaiting, c.kind = "stream", MessageContent(c)
  PROVE  WholeInv'
<1>1. PICK id : id = <<"c", c.n>>
  OBVIOUS
<1>2. PICK s : s = msg.messages
  OBVIOUS
<1>3. PICK status \in {"COMPLETE", "ERROR"} :
        /\ msg' = [msg EXCEPT !.messages =
             [i \in 1..Len(s) |->
                IF s[i].id = c.track
                THEN [s[i] EXCEPT !.id = id, !.mid = c.mid, !.status = status, !.rated = FALSE]
                ELSE s[i]]]
        /\ server' = [server EXCEPT !.answer = Answering(@, c.mid, status)]
  BY <1>1, <1>2 DEF MessageContent, patchAssistantMessage, Map
<1>5. PICK d : d = [c EXCEPT !.track = id, !.got = TRUE]
  OBVIOUS
<1>4. /\ d.kind = "stream" /\ d.edit = c.edit /\ d.snap = c.snap /\ d.alone = c.alone
      /\ d.mid = c.mid /\ d.track = id /\ d.local = c.local
  BY <1>5 DEF ThreadInv, ThreadShape, IsCall
<1>6. PICK t : t = [i \in 1..Len(s) |->
        IF s[i].id = c.track
        THEN [s[i] EXCEPT !.id = id, !.mid = c.mid, !.status = status, !.rated = FALSE]
        ELSE s[i]]
  OBVIOUS
<1>7. /\ msg'.messages = t /\ msg'.records = msg.records /\ msg'.active = msg.active
      /\ server'.records = server.records
  BY <1>3, <1>6 DEF ThreadInv, ThreadShape
<1>8. /\ did' = did /\ place' = place /\ overlaid' = overlaid
      /\ awaiting' = (awaiting \ {c}) \cup {d}
  BY <1>1, <1>5 DEF MessageContent
<1>9. ASSUME NEW m \in ToSet(t)
      PROVE  \/ m \in ToSet(s)
             \/ \E o \in ToSet(s) : o.id = c.track /\ m.id = id /\ m.mid = c.mid /\ m.role = o.role
  <2>1. IsThread(s)
    BY <1>2 DEF ThreadInv, ThreadShape
  <2>2. Len(s) \in Nat /\ \A i \in 1..Len(s) : s[i] \in ToSet(s) /\ IsMessage(s[i])
    BY <2>1, ThreadElements
  <2>3. t = [i \in 1..Len(s) |-> t[i]]
    BY <1>6
  <2>4. PICK i \in 1..Len(s) : m = t[i]
    BY <2>2, <2>3, Listed
  <2>5. CASE s[i].id = c.track
    <3>1. m.id = id /\ m.mid = c.mid /\ m.role = s[i].role
      BY <1>6, <2>2, <2>4, <2>5 DEF IsMessage, MessageFields
    <3> QED
      BY <2>2, <2>5, <3>1
  <2>6. CASE s[i].id # c.track
    BY <1>6, <2>2, <2>4, <2>6
  <2> QED
    BY <2>5, <2>6
<1>10. ASSUME NoFetch(awaiting), Kept
       PROVE  /\ Fits(msg'.messages, msg.records, did)
              /\ \A m \in ToSet(msg'.messages) : m.id[1] = "q" =>
                   \E o \in ToSet(msg.messages) : o.id = m.id /\ o.parent = m.parent
              /\ StreamFits(d, msg.records)
  <2>1. PICK recs : recs = msg.records
    OBVIOUS
  <2>2. /\ Fits(s, recs, did) /\ StreamFits(c, recs) /\ OfRoom(recs, place.room, server.records)
        /\ ServerWhole(server.records, did)
    BY <1>2, <1>10, <2>1 DEF Kept, WholeThread, CallsFit
  <2>3. AnswerId(id) /\ id[1] # "q"
    BY <1>1, NamesDiffer DEF AnswerId
  <2>4. ASSUME NEW o \in ToSet(s), o.id = c.track PROVE o.role = "assistant"
    <3>1. MessageFits(o, recs, did) /\ AnswerId(o.id)
      BY <2>2, <2>4 DEF Fits, StreamFits
    <3>2. o.mid \in Ids(recs) => ~AnswerId(o.mid)
      BY <2>2, RecordsNamed, NamesDiffer
    <3>3. \A p : HasRecord(recs, o.mid, p) => o.mid \in Ids(recs)
      BY DEF HasRecord, Ids
    <3>4. AskedBy(o.id, did) => ~AnswerId(o.id)
      BY NamesDiffer
    <3> QED
      BY <3>1, <3>2, <3>3, <3>4 DEF MessageFits
  <2>5. Fits(t, recs, did)
    BY <1>9, <2>2, <2>3, <2>4 DEF Fits, MessageFits, StreamFits
  <2>6. \A m \in ToSet(t) : m.id[1] = "q" => \E o \in ToSet(s) : o.id = m.id /\ o.parent = m.parent
    BY <1>9, <2>3
  <2>7. StreamFits(d, recs)
    BY <1>4, <2>2, <2>3 DEF StreamFits
  <2> QED
    BY <1>2, <1>7, <2>1, <2>5, <2>6, <2>7
<1>11. PICK more : more = {d}
  OBVIOUS
<1>12. /\ awaiting' = (awaiting \ {c}) \cup more /\ ~Fetch(c)
       /\ \A x, y \in more : x = y
       /\ \A x \in more : x = d
  BY <1>8, <1>11 DEF Fetch
<1> QED
  BY <1>4, <1>7, <1>8, <1>10, <1>12, WentOnWhole

\* A question or an answer ended; a failed edit brings back what it found.
LEMMA SettledWhole ==
  ASSUME ThreadInv, WholeInv, NEW c \in awaiting, c.kind \in {"create", "stream"}, NEW local,
         NEW ok \in BOOLEAN, Settled(c, local, ok), server'.records = server.records
  PROVE  WholeInv'
<1>1. /\ DOMAIN msg = {"messages", "records", "active", "loading", "generating", "loadError"}
      /\ IsThread(msg.messages) /\ DOMAIN place = {"room", "shown", "pending"}
  BY DEF ThreadInv, ThreadShape
<1>2. /\ awaiting' = awaiting \ {c} /\ did' = did /\ (overlaid => overlaid')
      /\ ~ok /\ c.edit /\ ~c.alone => overlaid'
  BY DEF Settled
<1>3. place'.room = place.room
  BY <1>1 DEF Settled
<1>4. PICK s : s = msg.messages
  OBVIOUS
<1>5. \/ ok /\ msg' = [msg EXCEPT !.generating = FALSE]
      \/ ~ok /\ c.edit /\ msg' = [Restore(msg, c.snap) EXCEPT !.generating = FALSE]
      \/ /\ ~ok /\ ~c.edit
         /\ msg' = [[msg EXCEPT !.messages =
                       [i \in 1..Len(s) |->
                          IF s[i].id = local THEN [s[i] EXCEPT !.status = "ERROR"]
                          ELSE s[i]]] EXCEPT !.generating = FALSE]
  BY <1>4 DEF Settled, patchAssistantMessage, Map
<1>6. \/ /\ msg'.records = msg.records /\ msg'.active = msg.active
         /\ msg'.messages = s \/ Marked(msg'.messages, s, local, "ERROR")
      \/ /\ ~ok /\ c.edit /\ msg'.messages = c.snap.messages
         /\ msg'.records = c.snap.records /\ msg'.active = c.snap.active
  BY <1>1, <1>4, <1>5 DEF Restore, Marked
<1>7. CASE /\ msg'.records = msg.records /\ msg'.active = msg.active
           /\ msg'.messages = s \/ Marked(msg'.messages, s, local, "ERROR")
  <2>1. \A x \in ToSet(msg'.messages) : \E o \in ToSet(s) : SameMessage(o, x)
    <3>1. PICK t : t = msg'.messages
      OBVIOUS
    <3>2. \A x \in ToSet(t) : \E o \in ToSet(s) : SameMessage(o, x)
      BY <1>1, <1>4, <1>7, <3>1, MarkedSame, MessagesSame
    <3> QED
      BY <3>1, <3>2
  <2>2. ASSUME NoFetch(awaiting), Kept
        PROVE  /\ Fits(msg'.messages, msg.records, did)
               /\ \A m \in ToSet(msg'.messages) : m.id[1] = "q" =>
                    \E o \in ToSet(msg.messages) : o.id = m.id /\ o.parent = m.parent
    <3>1. PICK n \in Nat : n = did
      BY ThreadAssumption DEF WholeInv
    <3>2. Fits(s, msg.records, n)
      BY <1>4, <2>2, <3>1 DEF Kept, WholeThread
    <3> QED
      BY <1>4, <2>1, <3>1, <3>2, SameOn
  <2>3. PICK more : more = {}
    OBVIOUS
  <2>4. awaiting' = (awaiting \ {c}) \cup more /\ ~Fetch(c) /\ \A x \in more : FALSE
    BY <1>2, <2>3 DEF Fetch
  <2> QED
    BY <1>2, <1>3, <1>7, <2>2, <2>4, WentOnWhole
<1>8. CASE /\ ~ok /\ c.edit /\ msg'.messages = c.snap.messages
           /\ msg'.records = c.snap.records /\ msg'.active = c.snap.active
  <2>1. CASE overlaid'
    <3>1. PICK more : more = {}
      OBVIOUS
    <3>2. awaiting' = (awaiting \ {c}) \cup more /\ \A x \in more : FALSE
      BY <1>2, <3>1
    <3>3. Alone(awaiting')
      BY <3>2, AloneOn
    <3> QED
      BY <1>2, <1>3, <2>1, <3>3 DEF WholeInv
  <2>2. CASE ~overlaid'
    <3>1. /\ awaiting = {c} /\ Kept
          /\ Brings(c, msg.records, msg.active, place.room, server.records, did)
      BY <1>2, <1>8, <2>2, AloneBrings
    <3>2. awaiting' = {}
      BY <1>2, <3>1
    <3>3. /\ ServerWhole(server'.records, did')
          /\ WholeThread(msg'.messages, msg'.records, msg'.active, place'.room,
                         server'.records, did')
      BY <1>2, <1>3, <1>8, <3>1 DEF Brings, Kept
    <3> QED
      BY <1>2, <1>3, <3>2, <3>3, RestWhole DEF WholeInv
  <2> QED
    BY <2>1, <2>2
<1> QED
  BY <1>6, <1>7, <1>8

LEMMA EndedWhole ==
  ASSUME ThreadInv, WholeInv, NEW c \in awaiting,
         \/ c.kind = "create" /\ CreateFails(c)
         \/ c.kind = "stream" /\ (AnswerEnds(c) \/ AnswerFails(c))
  PROVE  WholeInv'
<1>1. PICK no \in BOOLEAN : no = FALSE
  OBVIOUS
<1>2. CASE c.kind = "create" /\ CreateFails(c)
  <2>1. PICK local : local = <<"a", c.n>>
    OBVIOUS
  <2>2. Settled(c, local, no) /\ server' = server
    BY <1>1, <1>2, <2>1 DEF CreateFails
  <2> QED
    BY <1>2, <2>2, SettledWhole
<1>3. PICK local : local = c.local
  OBVIOUS
<1>4. CASE c.kind = "stream" /\ AnswerEnds(c)
  <2>1. PICK ok \in BOOLEAN : ok <=> c.got
    OBVIOUS
  <2>2. Settled(c, local, ok) /\ server' = server
    BY <1>3, <1>4, <2>1 DEF AnswerEnds, Settled
  <2> QED
    BY <1>4, <2>2, SettledWhole
<1>5. CASE c.kind = "stream" /\ AnswerFails(c)
  <2>1. Settled(c, local, no)
    BY <1>1, <1>3, <1>5 DEF AnswerFails
  <2>2. server'.records = server.records
    BY <1>5 DEF AnswerFails, ThreadInv, ThreadShape
  <2> QED
    BY <1>5, <2>1, <2>2, SettledWhole
<1> QED
  BY <1>2, <1>4, <1>5

LEMMA RefusedWhole ==
  ASSUME ThreadInv, WholeInv, NEW c \in awaiting, c.kind \in {"delete", "rate"},
         awaiting' = awaiting \ {c}, UNCHANGED <<msg, place, server, overlaid, did>>
  PROVE  WholeInv'
<1>1. PICK more : more = {}
  OBVIOUS
<1>2. awaiting' = (awaiting \ {c}) \cup more /\ ~Fetch(c) /\ \A x \in more : FALSE
  BY <1>1 DEF Fetch
<1>3. Kept /\ NoFetch(awaiting) => Fits(msg'.messages, msg.records, did)
  BY DEF Kept, WholeThread
<1> QED
  BY <1>2, <1>3, WentOnWhole

LEMMA UnratedWhole ==
  ASSUME ThreadInv, WholeInv, NEW c \in awaiting, c.kind = "rate", RateFails(c)
  PROVE  WholeInv'
<1>1. /\ msg'.messages = c.snap.messages /\ msg'.records = c.snap.records
      /\ msg'.active = msg.active
  BY DEF RateFails, ThreadInv, ThreadShape
<1>2. /\ awaiting' = awaiting \ {c} /\ did' = did /\ place' = place /\ server' = server
      /\ overlaid' = (overlaid \/ ~c.alone)
  BY DEF RateFails
<1>3. CASE overlaid'
  <2>1. PICK more : more = {}
    OBVIOUS
  <2>2. awaiting' = (awaiting \ {c}) \cup more /\ \A x \in more : FALSE
    BY <1>2, <2>1
  <2>3. Alone(awaiting')
    BY <2>2, AloneOn
  <2> QED
    BY <1>2, <1>3, <2>3 DEF WholeInv
<1>4. CASE ~overlaid'
  <2>1. /\ awaiting = {c} /\ Kept
        /\ Brings(c, msg.records, msg.active, place.room, server.records, did)
    BY <1>2, <1>4, AloneBrings
  <2>2. /\ ServerWhole(server'.records, did')
        /\ WholeThread(msg'.messages, msg'.records, msg'.active, place'.room,
                       server'.records, did')
    BY <1>1, <1>2, <2>1 DEF Brings, Kept
  <2>3. awaiting' = {}
    BY <1>2, <2>1
  <2> QED
    BY <1>2, <2>2, <2>3, RestWhole DEF WholeInv
<1> QED
  BY <1>3, <1>4

\* A message of a record that was listed, its parent not said yet.
ListedOf(m, recs) ==
  /\ DOMAIN m = MessageFields /\ m.mid \in Ids(recs)
  /\ \/ m.role = "assistant" /\ AnswerId(m.id)
     \/ m.role = "user" /\ m.mid = m.id /\ m.parent = Null

LEMMA ContentsListed ==
  ASSUME NEW recs, IsSeq(recs), NEW content, NEW ok \in BOOLEAN,
         NEW s, s = mapMessageContentsToMessages(recs, content, ok)
  PROVE  IsSeq(s) /\ \A m \in ToSet(s) : ListedOf(m, recs)
<1> DEFINE question(r) == [Question(r.id[2], Null) EXCEPT !.id = r.id, !.mid = r.id]
           answer(r, id, status) == [PendingAnswer(r.id[2]) EXCEPT
             !.id = id, !.mid = r.id, !.status = status, !.parent = Null]
<1>1. ASSUME NEW r, r.id \in Ids(recs) PROVE ListedOf(question(r), recs)
  BY <1>1 DEF Question, ListedOf, MessageFields
<1>2. ASSUME NEW r, r.id \in Ids(recs), NEW id, AnswerId(id), NEW status
      PROVE  ListedOf(answer(r, id, status), recs)
  BY <1>2 DEF PendingAnswer, ListedOf, MessageFields
<1>3. PICK l \in Nat : l = Len(recs)
  BY Elements
<1>4. \A i \in 1..l : recs[i].id \in Ids(recs)
  BY <1>3 DEF Ids
<1>5. CASE ~ok
  <2>1. s = [i \in 1..l |-> answer(recs[i], <<"e", recs[i].id[2]>>, "ERROR")]
    BY <1>3, <1>5 DEF mapMessageContentsToMessages
  <2>2. \A i \in 1..l : ListedOf(s[i], recs)
    <3> TAKE i \in 1..l
    <3>1. PICK id : id = <<"e", recs[i].id[2]>>
      OBVIOUS
    <3>2. PICK status : status = "ERROR"
      OBVIOUS
    <3>3. PICK r : r = recs[i] /\ r.id \in Ids(recs)
      BY <1>4
    <3>4. s[i] = answer(r, id, status)
      BY <2>1, <3>1, <3>2, <3>3
    <3>5. AnswerId(id)
      BY <3>1, NamesDiffer
    <3> HIDE DEF answer
    <3> QED
      BY <1>2, <3>3, <3>4, <3>5
  <2>3. s = [i \in 1..l |-> s[i]]
    BY <2>1
  <2> HIDE DEF answer
  <2> QED
    BY <1>3, <2>2, <2>3, Listed
<1>6. CASE ok
  <2>1. PICK held \in SUBSET (1..l) : held = {i \in 1..Len(recs) : recs[i].id \in DOMAIN content}
    BY <1>3
  <2>2. PICK k : k = Cardinality(held)
    OBVIOUS
  <2>3. k \in Nat /\ \A i \in 1..k : Nth(held, i) \in held
    BY <2>2, NthCounts
  <2>4. PICK size \in Nat : size = 2 * Cardinality(held) /\ size = 2 * k
    BY <2>2, <2>3
  <2> DEFINE turn(p) == recs[Nth(held, (p + 1) \div 2)]
  <2>5. s = [p \in 1..size |->
               IF p % 2 = 1 THEN question(turn(p))
               ELSE answer(turn(p), <<"c", turn(p).id[2]>>, content[turn(p).id])]
    BY <1>6, <2>1, <2>4 DEF mapMessageContentsToMessages
  <2>6. \A p \in 1..size : ListedOf(s[p], recs)
    <3> TAKE p \in 1..size
    <3>1. (p + 1) \div 2 \in 1..k
      BY <2>3, <2>4
    <3>2. Nth(held, (p + 1) \div 2) \in 1..l
      BY <2>1, <2>3, <3>1
    <3>3. PICK r : r = turn(p)
      OBVIOUS
    <3>4. r.id \in Ids(recs)
      BY <1>4, <3>2, <3>3
    <3>5. PICK id : id = <<"c", r.id[2]>>
      OBVIOUS
    <3>6. PICK status : status = content[r.id]
      OBVIOUS
    <3>7. s[p] = question(r) \/ s[p] = answer(r, id, status)
      BY <2>5, <3>3, <3>5, <3>6
    <3>8. AnswerId(id)
      BY <3>5, NamesDiffer
    <3> HIDE DEF question, answer
    <3> QED
      BY <1>1, <1>2, <3>4, <3>7, <3>8
  <2>7. s = [p \in 1..size |-> s[p]]
    BY <2>5
  <2> HIDE DEF question, answer, turn
  <2> QED
    BY <2>4, <2>6, <2>7, Listed
<1> QED
  BY <1>5, <1>6

\* What is loaded of a room is whole.
LEMMA LoadedWhole ==
  ASSUME NEW m,
         DOMAIN m = {"messages", "records", "active", "loading", "generating", "loadError"},
         NEW recs, NEW content, NEW ok \in BOOLEAN, NEW room, NEW srv, NEW n,
         OfRoom(recs, room, srv), NEW new, new = Loaded(m, recs, content, ok)
  PROVE  WholeThread(new.messages, new.records, new.active, room, srv, n)
<1>1. PICK s : s = mapMessageContentsToMessages(recs, content, ok)
  OBVIOUS
<1>2. PICK t : t = applyMessageMetadataToMessages(s, recs)
  OBVIOUS
<1>3. PICK active : active = initializeActiveVersionIndex(recs)
  OBVIOUS
<1>4. new.messages = t /\ new.records = recs /\ new.active = active
  BY <1>1, <1>2, <1>3 DEF Loaded
<1>5. IsSeq(recs)
  BY DEF OfRoom, IsTree
<1>6. Indexed(recs, active)
  <2> SUFFICES ASSUME NEW g \in DOMAIN active
               PROVE  active[g] \in 1..Cardinality(Versions(recs, g))
    BY DEF Indexed
  <2>1. active[g] = Len(getSiblingRecords(recs, g)) /\ Len(getSiblingRecords(recs, g)) > 1
    BY <1>3 DEF initializeActiveVersionIndex
  <2> QED
    BY <1>5, <2>1, VersionsCounted
<1>7. IsSeq(s) /\ \A x \in ToSet(s) : ListedOf(x, recs)
  BY <1>1, <1>5, ContentsListed
<1>8. Len(s) \in Nat /\ \A i \in 1..Len(s) : ListedOf(s[i], recs)
  BY <1>7, Elements
<1>9. t = [i \in 1..Len(s) |-> t[i]]
  BY <1>2 DEF applyMessageMetadataToMessages
<1>10. ASSUME NEW i \in 1..Len(s) PROVE MessageFits(t[i], recs, n)
  <2>1. PICK x : x = s[i] /\ ListedOf(x, recs)
    BY <1>8
  <2>2. PICK r : r = RecordOf(recs, x.mid)
    OBVIOUS
  <2>3. r.id = x.mid /\ HasRecord(recs, x.mid, r.parent)
    <3>1. \E j \in 1..Len(recs) : recs[j].id = x.mid
      BY <2>1 DEF ListedOf, Ids
    <3>2. PICK j \in 1..Len(recs) : recs[j].id = x.mid /\ r = recs[j]
      BY <2>2, <3>1 DEF RecordOf
    <3> QED
      BY <3>2 DEF HasRecord
  <2>4. t[i] = [x EXCEPT !.parent = IF r.parent # Null THEN r.parent ELSE x.parent,
                         !.rated = r.rated]
    BY <1>2, <2>1, <2>2 DEF applyMessageMetadataToMessages, ListedOf
  <2>5. /\ t[i].id = x.id /\ t[i].mid = x.mid /\ t[i].role = x.role
        /\ t[i].parent = IF r.parent # Null THEN r.parent ELSE x.parent
    BY <2>1, <2>4 DEF ListedOf, MessageFields
  <2>6. x.role = "user" => t[i].parent = r.parent
    BY <2>1, <2>5 DEF ListedOf
  <2> QED
    BY <2>1, <2>3, <2>5, <2>6 DEF ListedOf, MessageFits
<1>11. \A x \in ToSet(t) : \E i \in 1..Len(s) : x = t[i]
  BY <1>8, <1>9, Listed
<1>12. Fits(t, recs, n)
  BY <1>10, <1>11 DEF Fits
<1> QED
  BY <1>4, <1>6, <1>12 DEF WholeThread

\* A room's records are its own.
LEMMA RoomsRecords ==
  ASSUME NEW srv, NEW n, ServerWhole(srv, n), NEW room \in ChatRooms
  PROVE  OfRoom(srv[room], room, srv)
  BY DEF ServerWhole, OfRoom, HasRecord

\* A load that was alone ended: what was overlaid before it is gone.
LEMMA LoadEndedWhole ==
  ASSUME ThreadInv, WholeInv, StoredInv, AloneLoad, NEW c \in awaiting, Fetch(c),
         awaiting' = awaiting \ {c}, overlaid' = StaysOverlaid(c.alone),
         did' = did, place' = place, server' = server,
         ServerWhole(server.records, did) /\ DOMAIN msg.active = {} /\ (c.kind = "contents" => c.records = server.records[c.room])
         /\ c.room = place.room =>
           WholeThread(msg'.messages, msg'.records, msg'.active, place.room, server.records, did)
  PROVE  WholeInv'
<1>1. CASE overlaid'
  <2>1. PICK more : more = {}
    OBVIOUS
  <2>2. awaiting' = (awaiting \ {c}) \cup more /\ \A x \in more : FALSE
    BY <2>1
  <2>3. Alone(awaiting')
    BY <2>2, AloneOn
  <2> QED
    BY <1>1, <2>3 DEF WholeInv
<1>2. CASE ~overlaid'
  <2>1. c.alone /\ awaiting = {c} /\ awaiting' = {} /\ (~overlaid \/ Rooted)
    BY <1>2, LastEnded DEF WholeInv
  <2>2. ServerWhole(server.records, did)
    <3>1. ~overlaid => Kept
      BY <2>1 DEF WholeInv, Crossed
    <3>2. Rooted => ServerWhole(server.records, did)
      BY StoredWhole DEF StoredInv
    <3> QED
      BY <2>1, <3>1, <3>2 DEF Kept
  <2>3. /\ ServerWhole(server'.records, did')
        /\ WholeThread(msg'.messages, msg'.records, msg'.active, place'.room,
                       server'.records, did')
    BY <2>1, <2>2 DEF AloneLoad
  <2> QED
    BY <2>1, <2>3, RestWhole DEF WholeInv
<1> QED
  BY <1>1, <1>2

\* A load is of a room, and of the open one unless something was overlaid.
LoadsHere ==
  \A c \in awaiting : Fetch(c) => c.room \in ChatRooms /\ (overlaid \/ c.room = place.room)

LEMMA LoadDoneWhole ==
  ASSUME ThreadInv, WholeInv, LoadsHere, StoredInv, AloneLoad, NEW c \in awaiting, Fetch(c),
         LoadFails(c) \/ (c.kind = "contents" /\ ContentsAnswered(c))
  PROVE  WholeInv'
<1>1. DOMAIN msg = {"messages", "records", "active", "loading", "generating", "loadError"}
  BY DEF ThreadInv, ThreadShape
<1>2. /\ awaiting' = awaiting \ {c} /\ overlaid' = StaysOverlaid(c.alone)
      /\ did' = did /\ place' = place /\ server' = server
  BY DEF LoadFails, ContentsAnswered
<1>3. ASSUME ServerWhole(server.records, did), DOMAIN msg.active = {}, c.room = place.room,
             c.kind = "contents" => c.records = server.records[c.room]
      PROVE  WholeThread(msg'.messages, msg'.records, msg'.active, place.room,
                         server.records, did)
  <2>1. CASE LoadFails(c)
    <3>1. msg'.messages = <<>> /\ msg'.records = <<>> /\ msg'.active = msg.active
      BY <1>1, <2>1 DEF LoadFails
    <3> QED
      BY <1>3, <3>1, NothingWhole
  <2>2. CASE c.kind = "contents" /\ ContentsAnswered(c)
    <3>1. PICK ok \in BOOLEAN : msg' = Loaded(msg, c.records, server.answer, ok)
      BY <2>2 DEF ContentsAnswered
    <3>2. PICK recs : recs = server.records[place.room]
      OBVIOUS
    <3>3. PICK srv : srv = server.records
      OBVIOUS
    <3>4. PICK room \in ChatRooms : room = place.room
      BY <1>3 DEF LoadsHere
    <3>5. OfRoom(recs, room, srv)
      BY <1>3, <3>2, <3>3, <3>4, RoomsRecords
    <3>6. PICK content : content = server.answer
      OBVIOUS
    <3>7. PICK new : new = msg'
      OBVIOUS
    <3>8. PICK m : m = msg
      OBVIOUS
    <3>9. new = Loaded(m, recs, content, ok)
      BY <1>3, <2>2, <3>1, <3>2, <3>6, <3>7, <3>8
    <3>10. WholeThread(new.messages, new.records, new.active, room, srv, did)
      BY <1>1, <3>5, <3>8, <3>9, LoadedWhole
    <3> QED
      BY <3>3, <3>4, <3>7, <3>10
  <2> QED
    BY <2>1, <2>2
<1> QED
  BY <1>2, <1>3, LoadEndedWhole

LEMMA ListWhole ==
  ASSUME ThreadInv, WholeInv, StoredInv, AloneLoad, NEW c \in awaiting, c.kind = "list", ListAnswered(c)
  PROVE  WholeInv'
<1>1. PICK records : records = server.records[c.room]
  OBVIOUS
<1>2. did' = did /\ place' = place /\ server' = server /\ Fetch(c)
  BY DEF ListAnswered, Fetch
<1>3. CASE records = <<>>
  <2>1. /\ msg' = [msg EXCEPT !.messages = <<>>, !.records = <<>>, !.loading = FALSE]
        /\ awaiting' = awaiting \ {c} /\ overlaid' = StaysOverlaid(c.alone)
    BY <1>1, <1>3 DEF ListAnswered
  <2>2. msg'.messages = <<>> /\ msg'.records = <<>> /\ msg'.active = msg.active
    BY <2>1 DEF ThreadInv, ThreadShape
  <2>3. DOMAIN msg.active = {} =>
          WholeThread(msg'.messages, msg'.records, msg'.active, place.room, server.records, did)
    BY <2>2, NothingWhole
  <2> QED
    BY <1>2, <2>1, <2>3, LoadEndedWhole
<1>4. CASE records # <<>>
  <2>1. PICK e : e = [kind |-> "contents", n |-> c.n, room |-> c.room, alone |-> c.alone,
                      records |-> records]
    OBVIOUS
  <2>2. awaiting' = (awaiting \ {c}) \cup {e} /\ msg' = msg /\ overlaid' = overlaid
    BY <1>1, <1>4, <2>1 DEF ListAnswered
  <2>3. /\ e.kind = "contents" /\ e.room = c.room /\ e.alone = c.alone /\ e.records = records
        /\ Fetch(e)
    BY <2>1 DEF Fetch
  <2>4. Alone(awaiting')
    <3>1. PICK more : more = {e}
      OBVIOUS
    <3>2. awaiting' = (awaiting \ {c}) \cup more /\ \A x \in more : x = e
      BY <2>2, <3>1
    <3> QED
      BY <2>3, <3>2, AloneOn
  <2>5. ASSUME ~overlaid', ~Crossed(awaiting') PROVE Kept'
    <3>1. c.alone /\ ~overlaid
      BY <2>2, <2>3, <2>5 DEF Crossed
    <3>2. /\ awaiting = {c} /\ Kept
          /\ Brings(c, msg.records, msg.active, place.room, server.records, did)
      BY <3>1, AloneBrings
    <3>3. awaiting' = {e}
      BY <2>2, <3>2
    <3>4. DOMAIN msg.active = {} /\ c.room = place.room /\ ServerWhole(server.records, did)
      BY <1>2, <3>2 DEF Brings, Kept
    <3>5. PICK srv : srv = server.records
      OBVIOUS
    <3>6. Brings(e, msg.records, msg.active, place.room, srv, did)
      BY <1>1, <2>3, <3>4, <3>5 DEF Brings
    <3>7. CallsFit(awaiting', msg.messages, msg.records, msg.active, place.room, srv, did)
      BY <2>3, <3>3, <3>6 DEF CallsFit
    <3>8. ~NoFetch(awaiting')
      BY <2>3, <3>3 DEF NoFetch
    <3> QED
      BY <1>2, <2>2, <2>3, <3>3, <3>4, <3>5, <3>7, <3>8 DEF Kept
  <2> QED
    BY <1>2, <2>2, <2>4, <2>5 DEF WholeInv
<1> QED
  BY <1>3, <1>4

\* The same loads are out, or fewer.
SameLoads(old, new) == \A d \in new : Fetch(d) => \E c \in old : Fetch(c) /\ d.room = c.room

LEMMA LoadsDisturbed ==
  ASSUME NEW set, \A c \in set : IsCall(c)
  PROVE  SameLoads(set, Disturb(set))
<1>1. ASSUME NEW c \in set, NEW d, d = [c EXCEPT !.alone = FALSE], Fetch(d)
      PROVE  Fetch(c) /\ d.room = c.room
  BY <1>1, OverlapKeeps DEF Fetch
<1> QED
  BY <1>1 DEF SameLoads, Disturb

LEMMA LoadsBegun ==
  ASSUME NEW set, \A c \in set : IsCall(c), NEW call, ~Fetch(call), "kind" \in DOMAIN call,
         NEW new, new = Begin(set, call)
  PROVE  SameLoads(set, new)
<1>1. PICK e : e = Started(set, call)
  OBVIOUS
<1>2. new = Disturb(set) \cup {e}
  BY <1>1 DEF Begin, Started
<1>3. ~Fetch(e)
  BY <1>1 DEF Started, Fetch
<1> QED
  BY <1>2, <1>3, LoadsDisturbed DEF SameLoads

\* No load that is alone is among what was overlapped, or went on beside another.
LEMMA NoneAlone ==
  ASSUME NEW set, \A c \in set : IsCall(c)
  PROVE  \A d \in Disturb(set) : ~d.alone
  BY OverlapKeeps DEF Disturb

LEMMA AloneWentOn ==
  ASSUME WholeInv, NEW c \in awaiting, NEW more, awaiting' \subseteq (awaiting \ {c}) \cup more,
         \A x \in more : Fetch(x) /\ x.alone =>
           /\ x.room = place'.room /\ DOMAIN msg'.active = {}
           /\ x.kind = "contents" => x.records = server'.records[x.room]
  PROVE  AloneLoad'
<1>1. ASSUME NEW d \in awaiting', d.alone PROVE d \in more
  BY <1>1 DEF WholeInv, Alone
<1> QED
  BY <1>1 DEF AloneLoad

LEMMA AloneAnswered ==
  ASSUME ThreadInv, WholeInv, AloneLoad, NEW c \in awaiting, Answered(c)
  PROVE  AloneLoad'
<1>1. CASE awaiting' \subseteq awaiting \ {c}
  <2>1. PICK more : more = {}
    OBVIOUS
  <2> QED
    BY <1>1, <2>1, AloneWentOn
<1>2. ASSUME NEW e, awaiting' = (awaiting \ {c}) \cup {e}, ~Fetch(e)
      PROVE  AloneLoad'
  <2>1. PICK more : more = {e}
    OBVIOUS
  <2> QED
    BY <1>2, <2>1, AloneWentOn
<1>3. CASE c.kind = "create" /\ CreateAnswered(c)
  <2>1. PICK stream :
          stream = Stream(c.n, c.room, <<"m", c.n>>, <<"a", c.n>>, c.first, c.edit, c.snap)
    OBVIOUS
  <2>2. PICK e : e = [field \in DOMAIN stream \cup {"alone"} |->
                        IF field = "alone" THEN c.alone ELSE stream[field]]
    OBVIOUS
  <2>3. awaiting' = (awaiting \ {c}) \cup {e}
    BY <1>3, <2>1, <2>2 DEF CreateAnswered
  <2>4. ~Fetch(e)
    BY <2>1, <2>2 DEF Stream, Fetch
  <2> QED
    BY <1>2, <2>3, <2>4
<1>4. CASE c.kind = "stream" /\ MessageContent(c)
  <2>1. PICK id : id = <<"c", c.n>>
    OBVIOUS
  <2>2. PICK e : e = [c EXCEPT !.track = id, !.got = TRUE]
    OBVIOUS
  <2>3. awaiting' = (awaiting \ {c}) \cup {e}
    BY <1>4, <2>1, <2>2 DEF MessageContent
  <2>4. ~Fetch(e)
    BY <1>4, <2>2 DEF Fetch, ThreadInv, ThreadShape, IsCall
  <2> QED
    BY <1>2, <2>3, <2>4
<1>5. CASE c.kind = "stream" /\ TextDelta(c)
  <2>1. PICK more : more = {c}
    OBVIOUS
  <2>2. awaiting' = awaiting /\ ~Fetch(c)
    BY <1>5 DEF TextDelta, Fetch
  <2> QED
    BY <2>1, <2>2, AloneWentOn
<1>6. CASE c.kind = "list" /\ ListAnswered(c)
  <2>1. PICK e : e = [kind |-> "contents", n |-> c.n, room |-> c.room, alone |-> c.alone,
                      records |-> server.records[c.room]]
    OBVIOUS
  <2>2. \/ awaiting' = awaiting \ {c}
        \/ awaiting' = (awaiting \ {c}) \cup {e} /\ msg' = msg
    BY <1>6, <2>1 DEF ListAnswered
  <2>3. place' = place /\ server' = server
    BY <1>6 DEF ListAnswered
  <2>4. CASE msg' = msg /\ awaiting' = (awaiting \ {c}) \cup {e}
    <3>1. e.alone => e.room = place.room /\ DOMAIN msg.active = {}
      BY <1>6, <2>1 DEF AloneLoad, Fetch
    <3>2. PICK more : more = {e}
      OBVIOUS
    <3> QED
      BY <2>1, <2>3, <2>4, <3>1, <3>2, AloneWentOn
  <2> QED
    BY <1>1, <2>2, <2>4
<1>7. \/ awaiting' \subseteq awaiting \ {c}
      \/ c.kind = "create" /\ CreateAnswered(c)
      \/ c.kind = "stream" /\ (MessageContent(c) \/ TextDelta(c))
      \/ c.kind = "list" /\ ListAnswered(c)
  BY DEF Answered, CreateFails, AnswerEnds, AnswerFails, Settled, LoadFails,
         ContentsAnswered, DeleteAnswered, RateFails
<1> QED
  BY <1>1, <1>3, <1>4, <1>5, <1>6, <1>7

LEMMA AloneOpened ==
  ASSUME ThreadInv, WholeInv, AloneLoad, NEW r \in ChatRooms, OpenRoomPage(r) \/ selectRoom(r)
  PROVE  AloneLoad'
<1>1. place'.room = r /\ server' = server
  BY DEF OpenRoomPage, selectRoom, ThreadInv, ThreadShape
<1>2. CASE OpenRoomPage(r) /\ place.pending # 0
  <2>1. awaiting' = awaiting
    BY <1>2 DEF OpenRoomPage
  <2>2. PICK c \in awaiting : ~Fetch(c)
    BY <1>2 DEF ThreadInv, Indicated, Fetch
  <2>3. \A d \in awaiting : Fetch(d) => ~d.alone
    BY <2>2 DEF WholeInv, Alone
  <2> QED
    BY <2>1, <2>3 DEF AloneLoad
<1>3. ASSUME NEW init \in BOOLEAN, NEW load, load = loadMessagesForRoom(msg, awaiting, r, init, did'),
             msg' = load.msg, awaiting' = load.calls
      PROVE  AloneLoad'
  <2>1. PICK call : call = [kind |-> "list", n |-> did', room |-> r]
    OBVIOUS
  <2>2. PICK e : e = Started(awaiting, call)
    OBVIOUS
  <2>3. e.kind = "list" /\ e.room = r
    BY <2>1, <2>2 DEF Started
  <2>4. awaiting' = Disturb(awaiting) \cup {e}
    BY <1>3, <2>1, <2>2 DEF loadMessagesForRoom, Begin, Started
  <2>5. DOMAIN msg'.active = {}
    BY <1>3 DEF loadMessagesForRoom, NoIndex, ThreadInv, ThreadShape
  <2>6. \A d \in Disturb(awaiting) : ~d.alone
    BY NoneAlone DEF ThreadInv, ThreadShape
  <2> QED
    BY <1>1, <2>3, <2>4, <2>5, <2>6 DEF AloneLoad
<1>4. CASE OpenRoomPage(r) /\ place.pending = 0
  <2>1. PICK load : load = loadMessagesForRoom(msg, awaiting, r, TRUE, did')
    OBVIOUS
  <2>2. msg' = load.msg /\ awaiting' = load.calls
    BY <1>4, <2>1 DEF OpenRoomPage
  <2> QED
    BY <1>3, <2>1, <2>2
<1>5. CASE selectRoom(r)
  <2>1. PICK load : load = loadMessagesForRoom(msg, awaiting, r, FALSE, did')
    OBVIOUS
  <2>2. msg' = load.msg /\ awaiting' = load.calls
    BY <1>5, <2>1 DEF selectRoom
  <2> QED
    BY <1>3, <2>1, <2>2
<1> QED
  BY <1>2, <1>4, <1>5

\* The server has one more record.
Grown(more, srv, room, r) == more = [srv EXCEPT ![room] = Append(@, r)]

LEMMA StoredGrown ==
  ASSUME NEW srv, DOMAIN srv = ChatRooms, NEW n, Stored(srv, n), NEW room,
         NEW r, DOMAIN r = RecordFields, r.room = room, Given(r.id, n),
         \A q \in ChatRooms : r.id \notin Ids(srv[q]), NEW more, Grown(more, srv, room, r)
  PROVE  Stored(more, n) /\ \A q \in ChatRooms : Ids(more[q]) \subseteq Ids(srv[q]) \cup {r.id}
<1>1. CASE room \notin ChatRooms
  <2>1. \A q \in ChatRooms : more[q] = srv[q]
    BY <1>1 DEF Grown
  <2> QED
    BY <2>1 DEF Stored
<1>2. CASE room \in ChatRooms
  <2>1. PICK s : s = srv[room]
    OBVIOUS
  <2>2. PICK t : Longer(t, s, r)
    BY DEF Longer
  <2>3. more[room] = t /\ \A q \in ChatRooms : q # room => more[q] = srv[q]
    BY <1>2, <2>1, <2>2 DEF Longer, Grown
  <2>4. /\ Apart(t) /\ Ids(t) = Ids(s) \cup {r.id}
        /\ \A i \in 1..Len(t) : t[i] = r \/ \E j \in 1..Len(s) : t[i] = s[j]
    BY <1>2, <2>1, <2>2, ApartGrown DEF Stored
  <2>5. \A q \in ChatRooms : Apart(more[q])
    BY <2>3, <2>4 DEF Stored
  <2>6. \A q \in ChatRooms : \A i \in 1..Len(more[q]) :
          more[q][i].room = q /\ Given(more[q][i].id, n)
    BY <2>1, <2>3, <2>4 DEF Stored
  <2>7. \A q \in ChatRooms :
          /\ q # room => Ids(more[q]) = Ids(srv[q])
          /\ q = room => Ids(more[q]) = Ids(srv[q]) \cup {r.id}
    BY <2>1, <2>3, <2>4
  <2>8. ASSUME NEW p \in ChatRooms, NEW q \in ChatRooms, NEW id,
               id \in Ids(more[p]), id \in Ids(more[q])
        PROVE  p = q
    <3>1. id \in Ids(srv[p]) \/ (p = room /\ id = r.id)
      BY <2>7, <2>8
    <3>2. id \in Ids(srv[q]) \/ (q = room /\ id = r.id)
      BY <2>7, <2>8
    <3>3. id \in Ids(srv[p]) /\ id \in Ids(srv[q]) => p = q
      BY DEF Stored
    <3> QED
      BY <3>1, <3>2, <3>3
  <2> QED
    BY <2>5, <2>6, <2>7, <2>8 DEF Stored
<1> QED
  BY <1>1, <1>2

\* The server's records after a deletion, of each room what does not descend.
Cascaded(less, srv, id) == less = [r \in ChatRooms |-> recordsLeft(srv[r], removedWith(srv[r], id))]

LEMMA StoredTaken ==
  ASSUME NEW srv, NEW n, Stored(srv, n), NEW id, NEW less, Cascaded(less, srv, id)
  PROVE  Stored(less, n) /\ \A r \in ChatRooms : Ids(less[r]) \subseteq Ids(srv[r])
<1>1. ASSUME NEW r \in ChatRooms
      PROVE  /\ Apart(less[r])
             /\ \A i \in 1..Len(less[r]) : \E j \in 1..Len(srv[r]) : less[r][i] = srv[r][j]
  BY ApartTaken DEF Cascaded, Stored
<1>2. \A r \in ChatRooms : Ids(less[r]) \subseteq Ids(srv[r])
  BY <1>1 DEF Ids
<1>3. \A r \in ChatRooms : \A i \in 1..Len(less[r]) : less[r][i].room = r /\ Given(less[r][i].id, n)
  BY <1>1 DEF Stored
<1>4. \A q, r \in ChatRooms : Ids(less[q]) \cap Ids(less[r]) # {} => q = r
  BY <1>2 DEF Stored
<1> QED
  BY <1>1, <1>2, <1>3, <1>4 DEF Stored

LEMMA StoredAnswered ==
  ASSUME ThreadInv, WholeInv, StoredInv, NEW c \in awaiting, Answered(c)
  PROVE  StoredInv'
<1>1. /\ did \in Nat /\ did' = did
      /\ DOMAIN server = {"records", "answer"} /\ DOMAIN server.records = ChatRooms
  BY DEF WholeInv, ThreadInv, ThreadShape, Answered, CreateAnswered, CreateFails, TextDelta,
         MessageContent, AnswerEnds, AnswerFails, Settled, ListAnswered, ContentsAnswered,
         LoadFails, DeleteAnswered, RateFails
<1>2. ASSUME server'.records = server.records,
             \A d \in awaiting' : d.kind = "create" => d \in awaiting
      PROVE  StoredInv'
  <2>1. Asking(awaiting', server.records, did)
    BY <1>1, <1>2, AskingOn DEF StoredInv
  <2> QED
    BY <1>1, <1>2, <2>1 DEF StoredInv
<1>3. CASE c.kind = "create" /\ CreateAnswered(c)
  <2>1. PICK stream :
          stream = Stream(c.n, c.room, <<"m", c.n>>, <<"a", c.n>>, c.first, c.edit, c.snap)
    OBVIOUS
  <2>2. PICK e : e = [field \in DOMAIN stream \cup {"alone"} |->
                        IF field = "alone" THEN c.alone ELSE stream[field]]
    OBVIOUS
  <2>3. awaiting' = (awaiting \ {c}) \cup {e} /\ e.kind = "stream"
    BY <1>3, <2>1, <2>2 DEF CreateAnswered, Stream
  <2>4. PICK r : r = NewRecord(c)
    OBVIOUS
  <2>5. DOMAIN r = RecordFields /\ r.id = <<"m", c.n>> /\ r.room = c.room
    BY <2>4 DEF NewRecord, RecordFields
  <2>6. PICK srv : srv = server.records
    OBVIOUS
  <2>7. PICK more : more = server'.records
    OBVIOUS
  <2>8. Grown(more, srv, c.room, r)
    BY <1>1, <1>3, <2>4, <2>6, <2>7 DEF CreateAnswered, Grown
  <2>9. Asking(awaiting, srv, did) /\ Stored(srv, did)
    BY <2>6 DEF StoredInv
  <2>10. /\ c.n \in Nat /\ c.n <= did
         /\ \A q \in ChatRooms : r.id \notin Ids(srv[q])
    BY <1>3, <2>5, <2>9 DEF Asking
  <2>11. Given(r.id, did)
    BY <2>5, <2>10 DEF Given
  <2>12. Stored(more, did) /\ \A q \in ChatRooms : Ids(more[q]) \subseteq Ids(srv[q]) \cup {r.id}
    BY <1>1, <2>5, <2>6, <2>8, <2>9, <2>10, <2>11, StoredGrown
  <2>13. \A d \in awaiting' : d.kind = "create" => d \in awaiting /\ d.n # c.n
    BY <1>3, <2>3, <2>9 DEF Asking
  <2>14. Asking(awaiting', more, did)
    BY <2>5, <2>9, <2>12, <2>13, NamesDiffer DEF Asking
  <2> QED
    BY <1>1, <2>7, <2>12, <2>14 DEF StoredInv
<1>4. CASE c.kind = "delete" /\ DeleteAnswered(c)
  <2>1. PICK srv : srv = server.records
    OBVIOUS
  <2>2. PICK less : less = server'.records
    OBVIOUS
  <2>3. Cascaded(less, srv, c.id)
    BY <1>1, <1>4, <2>1, <2>2 DEF DeleteAnswered, Cascaded
  <2>4. Stored(less, did) /\ \A r \in ChatRooms : Ids(less[r]) \subseteq Ids(srv[r])
    BY <2>1, <2>3, StoredTaken DEF StoredInv
  <2>5. awaiting' \subseteq awaiting /\ Asking(awaiting, srv, did)
    BY <1>4, <2>1 DEF DeleteAnswered, StoredInv
  <2>6. Asking(awaiting', less, did)
    BY <2>4, <2>5 DEF Asking
  <2> QED
    BY <1>1, <2>2, <2>4, <2>6 DEF StoredInv
<1>5. CASE c.kind = "stream" /\ MessageContent(c)
  <2>1. PICK id : id = <<"c", c.n>>
    OBVIOUS
  <2>2. PICK e : e = [c EXCEPT !.track = id, !.got = TRUE]
    OBVIOUS
  <2>3. awaiting' = (awaiting \ {c}) \cup {e} /\ server'.records = server.records
    BY <1>1, <1>5, <2>1, <2>2 DEF MessageContent
  <2>4. e.kind = "stream"
    BY <1>5, <2>2 DEF ThreadInv, ThreadShape, IsCall
  <2> QED
    BY <1>2, <2>3, <2>4
<1>6. CASE c.kind = "list" /\ ListAnswered(c)
  <2>1. PICK e : e = [kind |-> "contents", n |-> c.n, room |-> c.room, alone |-> c.alone,
                      records |-> server.records[c.room]]
    OBVIOUS
  <2>2. awaiting' \subseteq (awaiting \ {c}) \cup {e} /\ server' = server
    BY <1>6, <2>1 DEF ListAnswered
  <2> QED
    BY <1>2, <2>1, <2>2
<1>7. \/ c.kind = "create" /\ CreateAnswered(c)
      \/ c.kind = "delete" /\ DeleteAnswered(c)
      \/ c.kind = "stream" /\ MessageContent(c)
      \/ c.kind = "list" /\ ListAnswered(c)
      \/ awaiting' \subseteq awaiting /\ server'.records = server.records
  BY <1>1 DEF Answered, CreateFails, TextDelta, AnswerEnds, AnswerFails, Settled, LoadFails,
              ContentsAnswered, RateFails
<1> QED
  BY <1>2, <1>3, <1>4, <1>5, <1>6, <1>7

LEMMA LoadsOn ==
  ASSUME LoadsHere, overlaid => overlaid', place'.room = place.room, SameLoads(awaiting, awaiting')
  PROVE  LoadsHere'
  BY DEF LoadsHere, SameLoads

LEMMA LoadsOpened ==
  ASSUME ThreadInv, LoadsHere, NEW r \in ChatRooms, OpenRoomPage(r) \/ selectRoom(r)
  PROVE  LoadsHere'
<1>1. place'.room = r /\ overlaid' = (overlaid \/ awaiting # {})
  BY DEF OpenRoomPage, selectRoom, ThreadInv, ThreadShape
<1>2. CASE awaiting' = awaiting
  BY <1>1, <1>2 DEF LoadsHere
<1>3. ASSUME NEW init, awaiting' = loadMessagesForRoom(msg, awaiting, r, init, did').calls
      PROVE  LoadsHere'
  <2>1. PICK call : call = [kind |-> "list", n |-> did', room |-> r]
    OBVIOUS
  <2>2. PICK e : e = Started(awaiting, call)
    OBVIOUS
  <2>3. e.kind = "list" /\ e.room = r
    BY <2>1, <2>2 DEF Started
  <2>4. awaiting' = Disturb(awaiting) \cup {e}
    BY <1>3, <2>1, <2>2 DEF loadMessagesForRoom, Begin, Started
  <2>5. SameLoads(awaiting, Disturb(awaiting))
    BY LoadsDisturbed DEF ThreadInv, ThreadShape
  <2>6. ASSUME NEW d \in awaiting', Fetch(d)
        PROVE  d.room \in ChatRooms /\ (overlaid' \/ d.room = place'.room)
    <3>1. CASE d \in Disturb(awaiting)
      <4>1. awaiting # {}
        BY <3>1 DEF Disturb
      <4>2. d.room \in ChatRooms
        BY <2>5, <2>6, <3>1 DEF SameLoads, LoadsHere
      <4> QED
        BY <1>1, <4>1, <4>2
    <3>2. CASE d = e
      BY <1>1, <2>3, <3>2
    <3> QED
      BY <2>4, <3>1, <3>2
  <2> QED
    BY <2>6 DEF LoadsHere
<1> QED
  BY <1>2, <1>3 DEF OpenRoomPage, selectRoom

LEMMA LoadsAnswered ==
  ASSUME ThreadInv, WholeInv, LoadsHere, NEW c \in awaiting, Answered(c)
  PROVE  LoadsHere'
<1>1. DOMAIN place = {"room", "shown", "pending"}
  BY DEF ThreadInv, ThreadShape
<1>2. ((overlaid => overlaid') \/ awaiting' = {}) /\ place'.room = place.room
  <2>1. ASSUME NEW local, NEW ok, Settled(c, local, ok)
        PROVE  (overlaid => overlaid') /\ place'.room = place.room
    BY <1>1, <2>1 DEF Settled
  <2>2. CASE CreateFails(c) \/ AnswerEnds(c) \/ AnswerFails(c)
    BY <2>1, <2>2 DEF CreateFails, AnswerEnds, AnswerFails
  <2>3. CASE CreateAnswered(c) \/ DeleteAnswered(c)
    BY <2>3 DEF CreateAnswered, DeleteAnswered
  <2>4. CASE TextDelta(c) \/ MessageContent(c)
    BY <2>4 DEF TextDelta, MessageContent
  <2>5. CASE ListAnswered(c) \/ LoadFails(c) \/ ContentsAnswered(c)
    <3>1. \/ overlaid' = overlaid
          \/ awaiting' = awaiting \ {c} /\ overlaid' = StaysOverlaid(c.alone)
      BY <2>5 DEF ListAnswered, LoadFails, ContentsAnswered
    <3>2. place' = place
      BY <2>5 DEF ListAnswered, LoadFails, ContentsAnswered
    <3> QED
      BY <3>1, <3>2, LastEnded DEF WholeInv
  <2>6. CASE RateFails(c)
    BY <2>6 DEF RateFails
  <2> QED
    BY <2>2, <2>3, <2>4, <2>5, <2>6 DEF Answered
<1>3. CASE awaiting' \subseteq awaiting
  <2>1. SameLoads(awaiting, awaiting')
    BY <1>3 DEF SameLoads
  <2> QED
    BY <1>2, <2>1, LoadsOn DEF LoadsHere
<1>4. ASSUME NEW e, awaiting' = (awaiting \ {c}) \cup {e},
             ~Fetch(e) \/ (Fetch(c) /\ e.room = c.room)
      PROVE  LoadsHere'
  <2>1. SameLoads(awaiting, awaiting')
    BY <1>4 DEF SameLoads
  <2> QED
    BY <1>2, <2>1, LoadsOn DEF LoadsHere
<1>5. CASE c.kind = "create" /\ CreateAnswered(c)
  <2>1. PICK stream :
          stream = Stream(c.n, c.room, <<"m", c.n>>, <<"a", c.n>>, c.first, c.edit, c.snap)
    OBVIOUS
  <2>2. PICK e : e = [field \in DOMAIN stream \cup {"alone"} |->
                        IF field = "alone" THEN c.alone ELSE stream[field]]
    OBVIOUS
  <2>3. awaiting' = (awaiting \ {c}) \cup {e}
    BY <1>5, <2>1, <2>2 DEF CreateAnswered
  <2>4. ~Fetch(e)
    BY <2>1, <2>2 DEF Stream, Fetch
  <2> QED
    BY <1>4, <2>3, <2>4
<1>6. CASE c.kind = "stream" /\ MessageContent(c)
  <2>1. PICK id : id = <<"c", c.n>>
    OBVIOUS
  <2>2. PICK e : e = [c EXCEPT !.track = id, !.got = TRUE]
    OBVIOUS
  <2>3. awaiting' = (awaiting \ {c}) \cup {e}
    BY <1>6, <2>1, <2>2 DEF MessageContent
  <2>4. ~Fetch(e)
    BY <1>6, <2>2 DEF Fetch, ThreadInv, ThreadShape, IsCall
  <2> QED
    BY <1>4, <2>3, <2>4
<1>7. CASE c.kind = "list" /\ ListAnswered(c)
  <2>1. PICK e : e = [kind |-> "contents", n |-> c.n, room |-> c.room, alone |-> c.alone,
                      records |-> server.records[c.room]]
    OBVIOUS
  <2>2. awaiting' = awaiting \ {c} \/ awaiting' = (awaiting \ {c}) \cup {e}
    BY <1>7, <2>1 DEF ListAnswered
  <2>3. Fetch(c) /\ e.room = c.room
    BY <1>7, <2>1 DEF Fetch
  <2> QED
    BY <1>3, <1>4, <2>2, <2>3
<1>8. \/ awaiting' \subseteq awaiting
      \/ c.kind = "create" /\ CreateAnswered(c)
      \/ c.kind = "stream" /\ MessageContent(c)
      \/ c.kind = "list" /\ ListAnswered(c)
  BY DEF Answered, CreateFails, TextDelta, AnswerEnds, AnswerFails, Settled, LoadFails,
         ContentsAnswered, DeleteAnswered, RateFails
<1> QED
  BY <1>3, <1>5, <1>6, <1>7, <1>8

\* What the user does leaves the server alone; a question asked gets a new name.
LEMMA StoredOn ==
  ASSUME WholeInv, StoredInv, Do, server' = server, awaiting' = awaiting
  PROVE  StoredInv'
<1>1. did \in Nat /\ did' \in Nat /\ did <= did'
  BY ActCounted
<1>2. Stored(server.records, did') /\ Asking(awaiting, server.records, did')
  BY <1>1, StoredLasts, AskingOn DEF StoredInv
<1> QED
  BY <1>2 DEF StoredInv

LEMMA StoredBegun ==
  ASSUME ThreadInv, WholeInv, StoredInv, Do, server' = server,
         NEW call, "kind" \in DOMAIN call,
         call.kind = "create" => "n" \in DOMAIN call /\ call.n = did',
         awaiting' = Begin(awaiting, call)
  PROVE  StoredInv'
<1>1. did \in Nat /\ did' \in Nat /\ did < did' /\ did <= did' /\ did' <= MaxDid
  BY ActCounted, ThreadAssumption DEF Do
<1>2. PICK e : e = Started(awaiting, call)
  OBVIOUS
<1>3. awaiting' = Disturb(awaiting) \cup {e}
  BY <1>2 DEF Begin, Started
<1>4. e.kind = "create" => e.n = did'
  BY <1>2 DEF Started
<1>5. Stored(server.records, did')
  BY <1>1, StoredLasts DEF StoredInv
<1>6. \A c \in awaiting : IsCall(c)
  BY DEF ThreadInv, ThreadShape
<1>7. Asking(Disturb(awaiting) \cup {e}, server.records, did')
  BY <1>1, <1>4, <1>6, AskingBegun DEF StoredInv
<1> QED
  BY <1>3, <1>5, <1>7 DEF StoredInv

\* Every call was overlapped and none began.
LEMMA Overtaken ==
  ASSUME ThreadInv, WholeInv, StoredInv, Do, server' = server, awaiting' = Disturb(awaiting)
  PROVE  StoredInv' /\ AloneLoad'
<1>1. did \in Nat /\ did' \in Nat /\ did <= did'
  BY ActCounted
<1>2. \A c \in awaiting : IsCall(c)
  BY DEF ThreadInv, ThreadShape
<1>3. Stored(server.records, did') /\ Asking(Disturb(awaiting), server.records, did')
  BY <1>1, <1>2, StoredLasts, AskingDisturbed DEF StoredInv
<1>4. \A d \in Disturb(awaiting) : ~d.alone
  BY <1>2, NoneAlone
<1> QED
  BY <1>3, <1>4 DEF StoredInv, AloneLoad

LEMMA AloneBegun ==
  ASSUME ThreadInv, NEW call, ~Fetch(call), "kind" \in DOMAIN call,
         awaiting' = Begin(awaiting, call)
  PROVE  AloneLoad'
<1>1. PICK e : e = Started(awaiting, call)
  OBVIOUS
<1>2. awaiting' = Disturb(awaiting) \cup {e}
  BY <1>1 DEF Begin, Started
<1>3. ~Fetch(e)
  BY <1>1 DEF Started, Fetch
<1>4. \A d \in Disturb(awaiting) : ~d.alone
  BY NoneAlone DEF ThreadInv, ThreadShape
<1> QED
  BY <1>2, <1>3, <1>4 DEF AloneLoad

LEMMA LoadsStep ==
  ASSUME ThreadInv, WholeInv, LoadsHere, StoredInv, AloneLoad, [ThreadNext]_threadVars
  PROVE  LoadsHere' /\ StoredInv' /\ AloneLoad'
<1>1. \A c \in awaiting : IsCall(c)
  BY DEF ThreadInv, ThreadShape
<1> DEFINE Goal == LoadsHere' /\ StoredInv' /\ AloneLoad'
<1>2. CASE startNewChat
  <2>1. awaiting' = Disturb(awaiting)
    BY <1>2 DEF startNewChat
  <2>2. LoadsHere'
    <3>1. overlaid' \/ awaiting' = {}
      BY <1>2, <2>1 DEF startNewChat, StaysOverlaid, Disturb
    <3>2. SameLoads(awaiting, awaiting')
      BY <1>1, <2>1, LoadsDisturbed
    <3> QED
      BY <3>1, <3>2 DEF LoadsHere, SameLoads
  <2> QED
    BY <1>2, <2>1, <2>2, Overtaken DEF startNewChat
<1>3. ASSUME NEW r \in ChatRooms, OpenRoomPage(r) \/ selectRoom(r) PROVE Goal
  <2>1. Do /\ server' = server
    BY <1>3 DEF OpenRoomPage, selectRoom
  <2>2. StoredInv'
    <3>1. CASE awaiting' = awaiting
      BY <2>1, <3>1, StoredOn
    <3>2. ASSUME NEW init, awaiting' = loadMessagesForRoom(msg, awaiting, r, init, did').calls
          PROVE  StoredInv'
      <4>1. PICK call : call = [kind |-> "list", n |-> did', room |-> r]
        OBVIOUS
      <4>2. awaiting' = Begin(awaiting, call)
        BY <3>2, <4>1 DEF loadMessagesForRoom
      <4>3. call.kind = "list" /\ DOMAIN call = {"kind", "n", "room"}
        BY <4>1
      <4> QED
        BY <2>1, <4>2, <4>3, StoredBegun
    <3> QED
      BY <1>3, <3>1, <3>2 DEF OpenRoomPage, selectRoom
  <2> QED
    BY <1>3, <2>2, LoadsOpened, AloneOpened
<1>4. ASSUME NEW call, ~Fetch(call), "kind" \in DOMAIN call, awaiting' = Begin(awaiting, call),
             overlaid => overlaid', place'.room = place.room,
             Do, server' = server, call.kind = "create" => "n" \in DOMAIN call /\ call.n = did'
      PROVE  Goal
  <2>1. SameLoads(awaiting, awaiting')
    BY <1>1, <1>4, LoadsBegun
  <2>2. LoadsHere'
    BY <1>4, <2>1, LoadsOn
  <2> QED
    BY <1>4, <2>2, StoredBegun, AloneBegun
<1>5. \A n, room, parent, first, edit, snap :
        /\ ~Fetch(Create(n, room, parent, first, edit, snap))
        /\ "kind" \in DOMAIN Create(n, room, parent, first, edit, snap)
  BY DEF Create, Fetch
<1>6. ASSUME NEW r \in ChatRooms, FirstSend(r) PROVE Goal
  <2>1. PICK parent :
          parent = getLastActiveRecordId(msg.records, msg.messages, msg.active)
    OBVIOUS
  <2>2. PICK call : call = Create(did', r, parent, TRUE, FALSE, NoSnapshot)
    OBVIOUS
  <2>3. /\ awaiting' = Begin(awaiting, call) /\ place.room = NoChatRoom
        /\ (overlaid => overlaid') /\ Do /\ server' = server
    BY <1>6, <2>1, <2>2 DEF FirstSend, sendMessage
  <2>4. ~Fetch(call) /\ {"kind", "n"} \subseteq DOMAIN call /\ call.n = did'
    BY <2>2 DEF Create, Fetch
  <2>5. SameLoads(awaiting, awaiting')
    BY <1>1, <2>3, <2>4, LoadsBegun
  <2>6. LoadsHere'
    BY <2>3, <2>5, ThreadAssumption DEF LoadsHere, SameLoads
  <2> QED
    BY <2>3, <2>4, <2>6, StoredBegun, AloneBegun
<1>7. CASE sendInRoom
  <2>1. PICK parent :
          parent = getLastActiveRecordId(msg.records, msg.messages, msg.active)
    OBVIOUS
  <2>2. PICK call : call = Create(did', place.room, parent, FALSE, FALSE, NoSnapshot)
    OBVIOUS
  <2>3. /\ awaiting' = Begin(awaiting, call) /\ place' = place /\ (overlaid => overlaid')
        /\ Do /\ server' = server
    BY <1>7, <2>1, <2>2 DEF sendInRoom, sendMessage
  <2>4. ~Fetch(call) /\ {"kind", "n"} \subseteq DOMAIN call /\ call.n = did'
    BY <2>2 DEF Create, Fetch
  <2> QED
    BY <1>4, <2>3, <2>4
<1>8. ASSUME NEW m, editMessage(m) PROVE Goal
  <2>1. PICK call : call = Create(did', place.room, m.parent, FALSE, TRUE, Snapshot(msg))
    OBVIOUS
  <2>2. /\ awaiting' = Begin(awaiting, call) /\ place' = place /\ (overlaid => overlaid')
        /\ Do /\ server' = server
    BY <1>8, <2>1 DEF editMessage
  <2>3. ~Fetch(call) /\ {"kind", "n"} \subseteq DOMAIN call /\ call.n = did'
    BY <2>1 DEF Create, Fetch
  <2> QED
    BY <1>4, <2>2, <2>3
<1>9. ASSUME NEW m, resendMessage(m) PROVE Goal
  <2>1. PICK call : call = Stream(m.mid[2], place.room, m.mid, m.id, FALSE, FALSE, NoSnapshot)
    OBVIOUS
  <2>2. /\ awaiting' = Begin(awaiting, call) /\ place' = place /\ (overlaid => overlaid')
        /\ Do /\ server' = server
    BY <1>9, <2>1 DEF resendMessage
  <2>3. ~Fetch(call) /\ "kind" \in DOMAIN call /\ call.kind = "stream"
    BY <2>1 DEF Stream, Fetch
  <2> QED
    BY <1>4, <2>2, <2>3
<1>10. ASSUME NEW m, deleteMessage(m) PROVE Goal
  <2>1. PICK call : call = [kind |-> "delete", n |-> did', room |-> place.room,
                            id |-> m.mid, before |-> msg.records]
    OBVIOUS
  <2>2. /\ awaiting' = Begin(awaiting, call) /\ place' = place /\ (overlaid => overlaid')
        /\ Do /\ server' = server
    BY <1>10, <2>1 DEF deleteMessage
  <2>3. ~Fetch(call) /\ "kind" \in DOMAIN call /\ call.kind # "create"
    BY <2>1 DEF Fetch
  <2> QED
    BY <1>4, <2>2, <2>3
<1>11. ASSUME NEW m, rateMessage(m) PROVE Goal
  <2>1. PICK call : call = [kind |-> "rate", n |-> did', room |-> place.room,
                            snap |-> Snapshot(msg)]
    OBVIOUS
  <2>2. /\ awaiting' = Begin(awaiting, call) /\ place' = place /\ (overlaid => overlaid')
        /\ Do /\ server' = server
    BY <1>11, <2>1 DEF rateMessage
  <2>3. ~Fetch(call) /\ "kind" \in DOMAIN call /\ call.kind # "create"
    BY <2>1 DEF Fetch
  <2> QED
    BY <1>4, <2>2, <2>3
<1>12. ASSUME NEW g, NEW step, switchVersion(g, step) PROVE Goal
  <2>1. /\ awaiting' = Disturb(awaiting) /\ place' = place /\ overlaid' = overlaid
        /\ Do /\ server' = server
    BY <1>12 DEF switchVersion
  <2>2. SameLoads(awaiting, awaiting')
    BY <1>1, <2>1, LoadsDisturbed
  <2>3. LoadsHere'
    BY <2>1, <2>2, LoadsOn
  <2> QED
    BY <2>1, <2>3, Overtaken
<1>13. ASSUME NEW c \in awaiting, Answered(c) PROVE Goal
  BY <1>13, LoadsAnswered, StoredAnswered, AloneAnswered
<1>14. CASE UNCHANGED threadVars
  BY <1>14 DEF threadVars, LoadsHere, StoredInv, AloneLoad
<1> QED
  BY <1>2, <1>3, <1>6, <1>7, <1>8, <1>9, <1>10, <1>11, <1>12, <1>13, <1>14 DEF ThreadNext

LEMMA ServerGrown ==
  ASSUME NEW srv, DOMAIN srv = ChatRooms, NEW n \in Nat, ServerWhole(srv, n),
         NEW room \in ChatRooms,
         NEW r, DOMAIN r = RecordFields, r.room = room, Given(r.id, n),
         \A q \in ChatRooms : r.id \notin Ids(srv[q]), r.parent \in Ids(srv[room]) \cup {Null},
         NEW more, Grown(more, srv, room, r)
  PROVE  /\ ServerWhole(more, n)
         /\ \A id, p : HasRecord(srv[room], id, p) => HasRecord(more[room], id, p)
         /\ HasRecord(more[room], r.id, r.parent)
         /\ \A q \in ChatRooms : Ids(more[q]) \subseteq Ids(srv[q]) \cup {r.id}
<1>1. PICK s : s = srv[room]
  OBVIOUS
<1>2. PICK t : Longer(t, s, r)
  BY DEF Longer
<1>3. more[room] = t /\ \A q \in ChatRooms : q # room => more[q] = srv[q]
  BY <1>1, <1>2 DEF Longer, Grown
<1>4. IsTree(s) /\ r.id \notin Ids(s) /\ r.parent \in Ids(s) \cup {Null}
  BY <1>1 DEF ServerWhole
<1>5. /\ IsTree(t) /\ Ids(t) = Ids(s) \cup {r.id}
      /\ \A i \in 1..Len(t) : t[i] = r \/ \E j \in 1..Len(s) : t[i] = s[j]
      /\ \A id, p : HasRecord(s, id, p) => HasRecord(t, id, p)
      /\ HasRecord(t, r.id, r.parent)
  BY <1>2, <1>4, RecordsGrown
<1>6. \A q \in ChatRooms : IsTree(more[q])
  BY <1>3, <1>5 DEF ServerWhole
<1>7. \A q \in ChatRooms : \A i \in 1..Len(more[q]) :
        more[q][i].room = q /\ Given(more[q][i].id, n)
  BY <1>1, <1>3, <1>5 DEF ServerWhole
<1>8. \A q \in ChatRooms :
        /\ q # room => Ids(more[q]) = Ids(srv[q])
        /\ q = room => Ids(more[q]) = Ids(srv[q]) \cup {r.id}
  BY <1>1, <1>3, <1>5
<1>9. \A p, q \in ChatRooms : Ids(more[p]) \cap Ids(more[q]) # {} => p = q
  <2> SUFFICES ASSUME NEW p \in ChatRooms, NEW q \in ChatRooms, NEW id,
                      id \in Ids(more[p]), id \in Ids(more[q])
               PROVE  p = q
    OBVIOUS
  <2>1. id \in Ids(srv[p]) \/ (p = room /\ id = r.id)
    BY <1>8
  <2>2. id \in Ids(srv[q]) \/ (q = room /\ id = r.id)
    BY <1>8
  <2>3. id \in Ids(srv[p]) /\ id \in Ids(srv[q]) => p = q
    BY DEF ServerWhole
  <2> QED
    BY <2>1, <2>2, <2>3
<1> QED
  BY <1>1, <1>3, <1>5, <1>6, <1>7, <1>8, <1>9 DEF ServerWhole

\* The question and the answer of a call under the server's name.
Named(t, s, n) ==
  t = [i \in 1..Len(s) |->
         IF s[i].id = <<"q", n>> THEN [s[i] EXCEPT !.id = <<"m", n>>, !.mid = <<"m", n>>]
         ELSE IF s[i].id = <<"a", n>> THEN [s[i] EXCEPT !.mid = <<"m", n>>, !.parent = <<"m", n>>]
         ELSE s[i]]

LEMMA NamedAre ==
  ASSUME NEW s, IsThread(s), NEW n, NEW t, Named(t, s, n), NEW m \in ToSet(t)
  PROVE  \E o \in ToSet(s) :
           \/ m = o /\ m.id # <<"q", n>> /\ m.id # <<"a", n>>
           \/ /\ o.id = <<"q", n>> /\ m.id = <<"m", n>> /\ m.mid = <<"m", n>>
              /\ m.role = o.role /\ m.parent = o.parent
           \/ o.id = <<"a", n>> /\ m.id = o.id /\ m.mid = <<"m", n>> /\ m.role = o.role
<1>1. Len(s) \in Nat /\ \A i \in 1..Len(s) : s[i] \in ToSet(s) /\ IsMessage(s[i])
  BY ThreadElements
<1>2. PICK mid : mid = <<"m", n>>
  OBVIOUS
<1>3. t = [i \in 1..Len(s) |->
         IF s[i].id = <<"q", n>> THEN [s[i] EXCEPT !.id = mid, !.mid = mid]
         ELSE IF s[i].id = <<"a", n>> THEN [s[i] EXCEPT !.mid = mid, !.parent = mid]
         ELSE s[i]]
  BY <1>2 DEF Named
<1>4. t = [i \in 1..Len(s) |-> t[i]]
  BY <1>3
<1>5. PICK i \in 1..Len(s) : m = t[i]
  BY <1>1, <1>4, Listed
<1>6. PICK o \in ToSet(s) : o = s[i] /\ IsMessage(o)
  BY <1>1
<1>7. CASE o.id = <<"q", n>>
  <2>1. m = [o EXCEPT !.id = mid, !.mid = mid]
    BY <1>3, <1>5, <1>6, <1>7
  <2>2. m.id = mid /\ m.mid = mid /\ m.role = o.role /\ m.parent = o.parent
    BY <1>6, <2>1 DEF IsMessage, MessageFields
  <2> QED
    BY <1>2, <1>7, <2>2
<1>8. CASE o.id # <<"q", n>> /\ o.id = <<"a", n>>
  <2>1. m = [o EXCEPT !.mid = mid, !.parent = mid]
    BY <1>3, <1>5, <1>6, <1>8
  <2>2. m.id = o.id /\ m.mid = mid /\ m.role = o.role
    BY <1>6, <2>1 DEF IsMessage, MessageFields
  <2> QED
    BY <1>2, <1>8, <2>2
<1>9. CASE o.id # <<"q", n>> /\ o.id # <<"a", n>>
  BY <1>3, <1>5, <1>6, <1>9
<1> QED
  BY <1>7, <1>8, <1>9

\* The named messages fit the records with the one named.
LEMMA NamedFit ==
  ASSUME NEW s, IsThread(s), NEW n \in Nat, NEW t, Named(t, s, n),
         NEW recs, NEW room, NEW srv, NEW k \in Nat, ServerWhole(srv, k), OfRoom(recs, room, srv),
         Fits(s, recs, k), NEW parent, \A m \in ToSet(s) : m.id = <<"q", n>> => m.parent = parent,
         NEW new, Ids(new) = Ids(recs) \cup {<<"m", n>>},
         \A id, p : HasRecord(recs, id, p) => HasRecord(new, id, p),
         HasRecord(new, <<"m", n>>, parent)
  PROVE  Fits(t, new, k)
<1> SUFFICES ASSUME NEW m \in ToSet(t) PROVE MessageFits(m, new, k)
  BY DEF Fits
<1>1. PICK o \in ToSet(s) :
           \/ m = o /\ m.id # <<"q", n>> /\ m.id # <<"a", n>>
           \/ /\ o.id = <<"q", n>> /\ m.id = <<"m", n>> /\ m.mid = <<"m", n>>
              /\ m.role = o.role /\ m.parent = o.parent
           \/ o.id = <<"a", n>> /\ m.id = o.id /\ m.mid = <<"m", n>> /\ m.role = o.role
  BY NamedAre
<1>2. MessageFits(o, recs, k)
  BY DEF Fits
<1>3. CASE m = o
  BY <1>2, <1>3 DEF MessageFits
<1>4. CASE /\ o.id = <<"q", n>> /\ m.id = <<"m", n>> /\ m.mid = <<"m", n>>
           /\ m.role = o.role /\ m.parent = o.parent
  <2>1. o.role = "user"
    BY <1>2, <1>4, NamesDiffer DEF MessageFits
  <2>2. m.parent = parent
    BY <1>4
  <2> QED
    BY <1>4, <2>1, <2>2 DEF MessageFits
<1>5. CASE o.id = <<"a", n>> /\ m.id = o.id /\ m.mid = <<"m", n>> /\ m.role = o.role
  <2>1. AnswerId(o.id)
    BY <1>5, NamesDiffer
  <2>2. \A p : HasRecord(recs, o.mid, p) => ~AnswerId(o.mid)
    <3>1. o.mid \in Ids(recs) => ~AnswerId(o.mid)
      BY RecordsNamed, NamesDiffer
    <3> QED
      BY <3>1 DEF HasRecord, Ids
  <2>3. o.role = "assistant"
    BY <1>2, <2>1, <2>2, NamesDiffer DEF MessageFits
  <2> QED
    BY <1>5, <2>1, <2>3 DEF MessageFits
<1> QED
  BY <1>1, <1>3, <1>4, <1>5

LEMMA CreatedWhole ==
  ASSUME ThreadInv, WholeInv, NEW c \in awaiting, c.kind = "create", CreateAnswered(c)
  PROVE  WholeInv'
<1>1. /\ DOMAIN msg = {"messages", "records", "active", "loading", "generating", "loadError"}
      /\ DOMAIN server = {"records", "answer"} /\ DOMAIN server.records = ChatRooms
      /\ IsThread(msg.messages)
  BY DEF ThreadInv, ThreadShape
<1>2. PICK stream : stream = Stream(c.n, c.room, <<"m", c.n>>, <<"a", c.n>>, c.first, c.edit,
                                    c.snap)
  OBVIOUS
<1>3. PICK e : e = [field \in DOMAIN stream \cup {"alone"} |->
                      IF field = "alone" THEN c.alone ELSE stream[field]]
  OBVIOUS
<1>4. /\ awaiting' = (awaiting \ {c}) \cup {e} /\ place' = place /\ did' = did
      /\ overlaid' = (overlaid \/ place.room # c.room)
  BY <1>2, <1>3 DEF CreateAnswered
<1>5. /\ e.kind = "stream" /\ e.mid = <<"m", c.n>> /\ e.track = <<"a", c.n>>
      /\ e.local = <<"a", c.n>> /\ e.edit = c.edit /\ e.snap = c.snap /\ e.alone = c.alone
  BY <1>2, <1>3 DEF Stream
<1>6. Alone(awaiting')
  <2>1. PICK more : more = {e}
    OBVIOUS
  <2>2. awaiting' = (awaiting \ {c}) \cup more /\ \A x \in more : x = e
    BY <1>4, <2>1
  <2> QED
    BY <1>5, <2>2, AloneOn
<1>7. did \in Nat /\ did' \in 0..MaxDid /\ place'.room \in ChatRooms \cup {NoChatRoom}
  BY <1>4, ThreadAssumption DEF WholeInv
<1>8. ASSUME ~overlaid', ~Crossed(awaiting') PROVE Kept'
  <2>1. NoFetch(awaiting) /\ Kept /\ place.room = c.room
    <3>1. awaiting \ {c} \subseteq awaiting' /\ (overlaid => overlaid')
      BY <1>4
    <3>2. ~Fetch(c)
      BY DEF Fetch
    <3> QED
      BY <1>4, <1>8, <3>1, <3>2, Uncrossed
  <2>2. PICK recs : recs = msg.records
    OBVIOUS
  <2>3. PICK active : active = msg.active
    OBVIOUS
  <2>4. PICK srv : srv = server.records
    OBVIOUS
  <2>5. PICK room : room = place.room
    OBVIOUS
  <2>6. PICK s : s = msg.messages
    OBVIOUS
  <2>7. PICK k \in Nat : k = did
    BY <1>7
  <2>8. /\ ServerWhole(srv, k) /\ OfRoom(recs, room, srv) /\ Indexed(recs, active)
        /\ Fits(s, recs, k) /\ CallsFit(awaiting, s, recs, active, room, srv, k)
        /\ WholeThread(s, recs, active, room, srv, k)
    BY <2>1, <2>2, <2>3, <2>4, <2>5, <2>6, <2>7 DEF Kept, WholeThread
  <2>9. /\ room \in ChatRooms /\ c.room = room /\ c.parent \in Ids(recs) \cup {Null}
        /\ c.n \in Nat /\ c.n <= k
        /\ \A q \in ChatRooms : <<"m", c.n>> \notin Ids(srv[q])
        /\ \A m \in ToSet(s) : m.id = <<"q", c.n>> => m.parent = c.parent
    BY <2>8 DEF CallsFit, CreateFits
  <2>10. PICK mid : mid = <<"m", c.n>>
    OBVIOUS
  <2>11. PICK parent : parent = c.parent
    OBVIOUS
  <2>12. PICK r : r = [id |-> mid, room |-> c.room, parent |-> parent, rated |-> FALSE]
    OBVIOUS
  <2>13. /\ DOMAIN r = RecordFields /\ r.id = mid /\ r.room = room /\ r.parent = parent
    BY <2>9, <2>12 DEF RecordFields
  <2>14. Ids(recs) \subseteq Ids(srv[room])
    BY <2>8, RecordsNamed
  <2>15. NewRecord(c) = r
    <3>1. parent \in Ids(srv[room]) \cup {Null}
      BY <2>9, <2>11, <2>14
    <3>2. (IF parent \in UNION {Ids(srv[q]) : q \in ChatRooms} THEN parent ELSE Null) = parent
      BY <2>9, <3>1
    <3> QED
      BY <2>4, <2>10, <2>11, <2>12, <3>2 DEF NewRecord
  <2>16. Given(mid, k)
    BY <2>9, <2>10 DEF Given
  <2>17. PICK more : Grown(more, srv, room, r)
    BY DEF Grown
  <2>18. /\ ServerWhole(more, k)
         /\ \A id, p : HasRecord(srv[room], id, p) => HasRecord(more[room], id, p)
         /\ HasRecord(more[room], mid, parent)
         /\ \A q \in ChatRooms : Ids(more[q]) \subseteq Ids(srv[q]) \cup {mid}
    <3>1. /\ DOMAIN srv = ChatRooms /\ r.room = room /\ Given(r.id, k) /\ DOMAIN r = RecordFields
          /\ \A q \in ChatRooms : r.id \notin Ids(srv[q])
          /\ r.parent \in Ids(srv[room]) \cup {Null}
      BY <1>1, <2>4, <2>9, <2>10, <2>11, <2>13, <2>14, <2>16
    <3>2. /\ ServerWhole(more, k)
          /\ \A id, p : HasRecord(srv[room], id, p) => HasRecord(more[room], id, p)
          /\ HasRecord(more[room], r.id, r.parent)
          /\ \A q \in ChatRooms : Ids(more[q]) \subseteq Ids(srv[q]) \cup {r.id}
      BY <2>8, <2>9, <2>17, <3>1, ServerGrown
    <3> QED
      BY <2>13, <3>2
  <2>19. PICK new : Longer(new, recs, r)
    BY DEF Longer
  <2>20. /\ IsTree(new) /\ Ids(new) = Ids(recs) \cup {mid}
         /\ \A i \in 1..Len(new) : new[i] = r \/ \E j \in 1..Len(recs) : new[i] = recs[j]
         /\ \A id, p : HasRecord(recs, id, p) => HasRecord(new, id, p)
         /\ HasRecord(new, mid, parent)
         /\ \A g : Versions(recs, g) \subseteq Versions(new, g)
         /\ Versions(new, parent) # {}
    <3>1. IsTree(recs) /\ r.id \notin Ids(recs) /\ r.parent \in Ids(recs) \cup {Null}
      BY <2>8, <2>9, <2>10, <2>11, <2>13, <2>14 DEF OfRoom
    <3> QED
      BY <2>13, <2>19, <3>1, RecordsGrown
  <2>21. PICK t : t = namedMessages(c)
    OBVIOUS
  <2>22. Named(t, s, c.n)
    BY <2>6, <2>21 DEF namedMessages, Named
  <2>23. PICK shown : shown = IF c.edit THEN editedIndex(c) ELSE active
    OBVIOUS
  <2>24. new = withRecord(c)
    BY <2>2, <2>10, <2>11, <2>12, <2>19 DEF withRecord, Longer
  <2>25. msg'.messages = t /\ msg'.records = new /\ msg'.active = shown
    BY <1>1, <2>3, <2>21, <2>23, <2>24 DEF CreateAnswered
  <2>26. server'.records = more
    BY <1>1, <2>4, <2>9, <2>15, <2>17 DEF CreateAnswered, Grown
  <2>27. OfRoom(new, room, more)
    BY <2>8, <2>9, <2>13, <2>18, <2>20 DEF OfRoom
  <2>28. Fits(t, new, k)
    <3>1. PICK n \in Nat : n = c.n
      BY <2>9
    <3>2. Named(t, s, n) /\ Ids(new) = Ids(recs) \cup {<<"m", n>>} /\ HasRecord(new, <<"m", n>>, parent)
      BY <2>10, <2>20, <2>22, <3>1
    <3>3. \A m \in ToSet(s) : m.id = <<"q", n>> => m.parent = parent
      BY <2>9, <2>11, <3>1
    <3>4. IsThread(s)
      BY <1>1, <2>6
    <3> QED
      BY <2>8, <2>20, <3>2, <3>3, <3>4, NamedFit
  <2>29. Indexed(new, shown)
    <3>1. IsSeq(recs) /\ IsSeq(new)
      BY <2>8, <2>20 DEF OfRoom, IsTree
    <3>2. \A g : /\ Cardinality(Versions(recs, g)) \in Nat /\ Cardinality(Versions(new, g)) \in Nat
                 /\ Cardinality(Versions(recs, g)) <= Cardinality(Versions(new, g))
      BY <2>20, <3>1, VersionsCounted, VersionsGrow
    <3>3. \A g \in DOMAIN active : active[g] \in 1..Cardinality(Versions(new, g))
      BY <2>8, <3>2 DEF Indexed
    <3>4. CASE c.edit
      <4>1. PICK last : last = Len(getSiblingRecords(new, parent))
        OBVIOUS
      <4>2. last \in 1..Cardinality(Versions(new, parent))
        <5>1. last = Cardinality(Versions(new, parent)) /\ IsFiniteSet(Versions(new, parent))
          BY <3>1, <4>1, VersionsCounted
        <5>2. Cardinality(Versions(new, parent)) # 0
          BY <2>20, <5>1, FS_EmptySet
        <5> QED
          BY <3>2, <5>1, <5>2
      <4>3. shown = With(active, parent, last)
        BY <2>3, <2>11, <2>23, <2>24, <3>4, <4>1 DEF editedIndex, toMessageGroupKey
      <4> QED
        BY <3>3, <4>2, <4>3 DEF Indexed, With
    <3>5. CASE ~c.edit
      BY <2>23, <3>3, <3>5 DEF Indexed
    <3> QED
      BY <3>4, <3>5
  <2>30. WholeThread(t, new, shown, room, more, k)
    BY <2>27, <2>28, <2>29 DEF WholeThread
  <2>31. \A x \in awaiting' : (x \in awaiting /\ x # c) \/ x = e
    BY <1>4
  <2>32. ASSUME NEW x \in awaiting', x.kind = "create"
         PROVE  x \in awaiting /\ CreateFits(x, t, new, room, more, k)
    <3>1. x \in awaiting /\ x # c
      BY <1>5, <2>31, <2>32
    <3>2. CreateFits(x, s, recs, room, srv, k) /\ x.n # c.n
      BY <2>8, <2>32, <3>1 DEF CallsFit
    <3>3. \A q \in ChatRooms : <<"m", x.n>> \notin Ids(more[q])
      BY <2>10, <2>18, <3>2, NamesDiffer DEF CreateFits
    <3>4. ASSUME NEW m \in ToSet(t), m.id = <<"q", x.n>>
          PROVE  \E o \in ToSet(s) : o.id = m.id /\ o.parent = m.parent
      <4>1. IsThread(s)
        BY <1>1, <2>6
      <4>2. m.id # <<"m", c.n>> /\ m.id # <<"a", c.n>>
        BY <3>4
      <4>3. m \in ToSet(s)
        BY <2>22, <4>1, <4>2, NamedAre
      <4> QED
        BY <4>3
    <3>5. Ids(recs) \subseteq Ids(new) /\ k <= k
      BY <2>7, <2>20
    <3> QED
      BY <3>1, <3>2, <3>3, <3>4, <3>5, CreateLasts
  <2>33. ASSUME NEW x \in awaiting', x.kind = "stream" PROVE StreamFits(x, new)
    <3>1. CASE x \in awaiting
      BY <2>8, <2>20, <2>33, <3>1 DEF CallsFit, StreamFits
    <3>2. CASE x = e
      BY <1>5, <2>10, <2>20, <3>2, NamesDiffer DEF StreamFits
    <3> QED
      BY <2>31, <3>1, <3>2
  <2>34. \A x, y \in awaiting' : x.kind = "create" /\ y.kind = "create" /\ x.n = y.n => x = y
    BY <2>8, <2>32 DEF CallsFit
  <2>35. ASSUME NEW x \in awaiting', x.alone PROVE Brings(x, new, shown, room, more, k)
    <3>1. CASE x \in awaiting /\ x # c
      BY <2>35, <3>1 DEF WholeInv, Alone
    <3>2. CASE x = e
      <4>1. Brings(c, recs, active, room, srv, k)
        BY <1>5, <2>8, <2>35, <3>2 DEF CallsFit
      <4>2. c.edit => WholeThread(c.snap.messages, c.snap.records, c.snap.active, room, more, k)
        <5> SUFFICES ASSUME c.edit
                     PROVE  WholeThread(c.snap.messages, c.snap.records, c.snap.active, room, more, k)
          OBVIOUS
        <5>1. WholeThread(c.snap.messages, c.snap.records, c.snap.active, room, srv, k)
          BY <4>1 DEF Brings
        <5>2. k <= k
          BY <2>7
        <5> QED
          BY <2>18, <5>1, <5>2, WholeLasts
      <4> QED
        BY <1>5, <3>2, <4>2 DEF Brings
    <3> QED
      BY <2>31, <3>1, <3>2
  <2>36. CallsFit(awaiting', t, new, shown, room, more, k)
    BY <2>32, <2>33, <2>34, <2>35 DEF CallsFit
  <2>37. NoFetch(awaiting')
    BY <1>5, <2>1, <2>31 DEF NoFetch, Fetch
  <2> QED
    BY <1>4, <2>5, <2>7, <2>18, <2>25, <2>26, <2>30, <2>36, <2>37 DEF Kept, NoFetch
<1> QED
  BY <1>6, <1>7, <1>8 DEF WholeInv

\* What is chosen is at a chosen position.
LEMMA ChosenAre ==
  ASSUME NEW s, IsSeq(s), NEW S \in SUBSET (1..Len(s)), NEW m \in ToSet(At(s, S))
  PROVE  \E i \in S : m = s[i]
<1>1. PICK n \in Nat : n = Len(s)
  BY Elements
<1>2. PICK k : k = Cardinality(S)
  OBVIOUS
<1>3. k \in Nat /\ \A i \in 1..k : Nth(S, i) \in S
  BY <1>1, <1>2, NthCounts
<1>4. PICK t : t = At(s, S)
  OBVIOUS
<1>5. t = [i \in 1..k |-> s[Nth(S, i)]]
  BY <1>2, <1>4 DEF At
<1>6. t = [i \in 1..k |-> t[i]]
  BY <1>5
<1>7. PICK i \in 1..k : m = t[i]
  BY <1>3, <1>4, <1>6, Listed
<1> QED
  BY <1>3, <1>5, <1>7

LEMMA ServerTaken ==
  ASSUME NEW srv, NEW n, ServerWhole(srv, n), NEW id, NEW less, Cascaded(less, srv, id)
  PROVE  /\ ServerWhole(less, n)
         /\ \A r \in ChatRooms : \A x, p :
              HasRecord(less[r], x, p) <=> HasRecord(srv[r], x, p) /\ x \notin removedWith(srv[r], id)
<1>1. ASSUME NEW r \in ChatRooms
      PROVE  /\ IsTree(less[r]) /\ Ids(less[r]) \subseteq Ids(srv[r])
             /\ \A i \in 1..Len(less[r]) : \E j \in 1..Len(srv[r]) : less[r][i] = srv[r][j]
             /\ \A x, p : HasRecord(less[r], x, p)
                            <=> HasRecord(srv[r], x, p) /\ x \notin removedWith(srv[r], id)
  <2>1. PICK s : s = srv[r]
    OBVIOUS
  <2>2. PICK removed : removed = removedWith(s, id)
    OBVIOUS
  <2>3. PICK t : t = recordsLeft(s, removed)
    OBVIOUS
  <2>4. less[r] = t /\ IsTree(s) /\ Whole(s, removed)
    BY <2>1, <2>2, <2>3, TakenWhole DEF Cascaded, ServerWhole
  <2>5. /\ IsTree(t) /\ Ids(t) = Ids(s) \ removed
        /\ \A i \in 1..Len(t) : \E j \in 1..Len(s) : t[i] = s[j]
        /\ \A x, p : HasRecord(t, x, p) <=> HasRecord(s, x, p) /\ x \notin removed
    BY <2>3, <2>4, RecordsTaken
  <2> QED
    BY <2>1, <2>2, <2>4, <2>5
<1>2. \A r \in ChatRooms : \A i \in 1..Len(less[r]) : less[r][i].room = r /\ Given(less[r][i].id, n)
  BY <1>1 DEF ServerWhole
<1>3. \A q, r \in ChatRooms : Ids(less[q]) \cap Ids(less[r]) # {} => q = r
  BY <1>1 DEF ServerWhole
<1> QED
  BY <1>1, <1>2, <1>3 DEF ServerWhole

\* After a deletion every index names a version that is left.
LEMMA AdjustedIndexed ==
  ASSUME NEW recs, IsTree(recs), NEW active, Indexed(recs, active), NEW id \in Ids(recs),
         NEW removed, removed = removedWith(recs, id),
         NEW after, after = recordsLeft(recs, removed),
         NEW new, new = adjustActiveVersionIndexAfterDelete(active, RecordOf(recs, id), recs,
                                                            removed, after)
  PROVE  Indexed(after, new)
<1>1. PICK deleted : deleted = RecordOf(recs, id)
  OBVIOUS
<1>2. PICK d \in 1..Len(recs) : deleted = recs[d] /\ recs[d].id = id
  <2>1. \E i \in 1..Len(recs) : recs[i].id = id
    BY DEF Ids
  <2> QED
    BY <1>1, <2>1 DEF RecordOf
<1>3. PICK g : g = deleted.parent
  OBVIOUS
<1>4. PICK kept : kept = Without(active, removed)
  OBVIOUS
<1>5. PICK was : was = getSiblingRecords(recs, g)
  OBVIOUS
<1>6. PICK left : left = Len(getSiblingRecords(after, g))
  OBVIOUS
<1>7. PICK gone : gone = CHOOSE i \in 1..Len(was) : was[i].id = deleted.id
  OBVIOUS
<1>8. PICK at : at = IndexOf(active, g, was)
  OBVIOUS
<1>9. PICK next : next = CASE gone = at -> left
                           [] gone < at -> at - 1
                           [] OTHER -> at
  OBVIOUS
<1>10. new = IF left <= 1 THEN Without(kept, {g})
             ELSE With(kept, g, IF next < left THEN next ELSE left)
  BY <1>1, <1>3, <1>4, <1>5, <1>6, <1>7, <1>8, <1>9
     DEF adjustActiveVersionIndexAfterDelete, toMessageGroupKey
<1>11. /\ IsTree(after)
       /\ \A h : (\A i \in Versions(recs, h) : recs[i].id \notin removed)
                   => Cardinality(Versions(recs, h)) <= Cardinality(Versions(after, h))
  BY TakenWhole, RecordsTaken
<1>12. \A h : /\ Cardinality(Versions(recs, h)) \in Nat
              /\ Cardinality(Versions(after, h)) \in Nat
  BY <1>11, VersionsCounted DEF IsTree
<1>13. ASSUME NEW h \in DOMAIN kept, h # g
       PROVE  kept[h] \in 1..Cardinality(Versions(after, h))
  <2>1. h \in DOMAIN active /\ h \notin removed /\ kept[h] = active[h]
    BY <1>4, <1>13 DEF Without
  <2>2. ASSUME NEW i \in Versions(recs, h) PROVE recs[i].id \notin removed
    <3> SUFFICES ASSUME recs[i].id \in removed PROVE FALSE
      OBVIOUS
    <3>1. i \in 1..Len(recs) /\ recs[i].parent = h
      BY DEF Versions
    <3>2. recs[i].id = id
      BY <2>1, <3>1, TakenByParent
    <3>3. i = d
      BY <1>2, <3>1, <3>2 DEF IsTree
    <3> QED
      BY <1>2, <1>3, <1>13, <3>1, <3>3
  <2>3. active[h] \in 1..Cardinality(Versions(recs, h))
    BY <2>1 DEF Indexed
  <2> QED
    BY <1>11, <1>12, <2>1, <2>2, <2>3
<1>14. CASE left <= 1
  BY <1>10, <1>13, <1>14 DEF Without, Indexed
<1>15. CASE ~(left <= 1)
  <2>1. left \in Nat /\ left = Cardinality(Versions(after, g)) /\ left > 1
    BY <1>6, <1>11, <1>12, <1>15, VersionsCounted DEF IsTree
  <2>2. PICK count \in Nat : count = Len(was) /\ count = Cardinality(Versions(recs, g))
    BY <1>5, <1>12, VersionsCounted DEF IsTree
  <2>3. \E i \in 1..count : was[i].id = deleted.id
    <3>1. d \in Versions(recs, g)
      BY <1>2, <1>3 DEF Versions
    <3>2. \E i \in 1..Cardinality(Versions(recs, g)) : was[i] = recs[d]
      BY <1>5, <3>1, VersionsCounted DEF IsTree
    <3> QED
      BY <1>2, <2>2, <3>2
  <2>4. gone \in 1..count
    BY <1>7, <2>2, <2>3
  <2>5. at \in 1..count
    BY <1>8, <2>2, <2>4 DEF IndexOf, Indexed
  <2>6. next \in Nat /\ next > 0
    BY <1>9, <2>1, <2>4, <2>5
  <2>7. PICK to : to = IF next < left THEN next ELSE left
    OBVIOUS
  <2>8. to \in 1..left
    BY <2>1, <2>6, <2>7
  <2>9. new = With(kept, g, to)
    BY <1>10, <1>15, <2>7
  <2> QED
    BY <1>13, <2>1, <2>8, <2>9 DEF With, Indexed
<1> QED
  BY <1>14, <1>15

\* What a deletion leaves of a whole thread is whole.
LEMMA ThreadTaken ==
  ASSUME NEW s, IsSeq(s), NEW recs, NEW active, NEW room, NEW srv, NEW n,
         ServerWhole(srv, n), WholeThread(s, recs, active, room, srv, n), NEW id,
         NEW removed, removed = removedWith(recs, id),
         NEW after, after = recordsLeft(recs, removed),
         NEW S \in SUBSET (1..Len(s)),
         S = {i \in 1..Len(s) : {s[i].mid, s[i].id} \cap removed = {}},
         NEW new, id \notin Ids(recs) => new = active,
         id \in Ids(recs) =>
           new = adjustActiveVersionIndexAfterDelete(active, RecordOf(recs, id), recs,
                                                     removed, after),
         NEW less, Cascaded(less, srv, id)
  PROVE  WholeThread(At(s, S), after, new, room, less, n)
<1>1. OfRoom(recs, room, srv) /\ Indexed(recs, active) /\ Fits(s, recs, n) /\ IsTree(recs)
  BY DEF WholeThread, OfRoom
<1>2. /\ IsTree(after) /\ Ids(after) = Ids(recs) \ removed
      /\ \A i \in 1..Len(after) : \E j \in 1..Len(recs) : after[i] = recs[j]
      /\ \A x, p : HasRecord(after, x, p) <=> HasRecord(recs, x, p) /\ x \notin removed
      /\ \A g : (\A i \in Versions(recs, g) : recs[i].id \notin removed)
                  => Cardinality(Versions(recs, g)) <= Cardinality(Versions(after, g))
  BY <1>1, TakenWhole, RecordsTaken
<1>3. OfRoom(after, room, less)
  <2> SUFFICES ASSUME NEW i \in 1..Len(after)
               PROVE  /\ room \in ChatRooms /\ after[i].room = room
                      /\ HasRecord(less[room], after[i].id, after[i].parent)
    BY <1>2 DEF OfRoom
  <2>1. PICK j \in 1..Len(recs) : after[i] = recs[j]
    BY <1>2
  <2>2. room \in ChatRooms /\ recs[j].room = room
    BY <1>1 DEF OfRoom
  <2>3. PICK all : all = srv[room]
    OBVIOUS
  <2>4. IsTree(all) /\ Null \notin Ids(all)
    BY <2>2, <2>3, NoNullRecord DEF ServerWhole
  <2>5. \A x, p : HasRecord(recs, x, p) => HasRecord(all, x, p)
    <3>1. \A x, p : HasRecord(recs, x, p) => \E l \in 1..Len(recs) : x = recs[l].id /\ p = recs[l].parent
      BY DEF HasRecord
    <3> QED
      BY <1>1, <2>3, <3>1 DEF OfRoom
  <2>6. PICK x : x = recs[j].id
    OBVIOUS
  <2>7. x \in Ids(recs) /\ x \notin removedWith(recs, id)
    <3>1. x \in Ids(after)
      BY <2>1, <2>6 DEF Ids
    <3> QED
      BY <1>2, <3>1
  <2>8. x \notin removedWith(all, id)
    BY <1>1, <2>4, <2>5, <2>7, StaysOfTree
  <2>9. HasRecord(all, x, recs[j].parent)
    BY <2>5, <2>6, SMTT(20) DEF HasRecord
  <2>10. HasRecord(less[room], x, recs[j].parent)
    BY <2>2, <2>3, <2>8, <2>9, ServerTaken
  <2> QED
    BY <2>1, <2>2, <2>6, <2>10
<1>4. Indexed(after, new)
  <2>1. CASE id \in Ids(recs)
    BY <1>1, <2>1, AdjustedIndexed
  <2>2. CASE id \notin Ids(recs)
    <3>1. removed = {id}
      BY <2>2 DEF removedWith
    <3>2. \A g : \A i \in Versions(recs, g) : recs[i].id \notin removed
      BY <2>2, <3>1 DEF Versions, Ids
    <3>3. \A g : /\ Cardinality(Versions(recs, g)) <= Cardinality(Versions(after, g))
                 /\ Cardinality(Versions(recs, g)) \in Nat
                 /\ Cardinality(Versions(after, g)) \in Nat
      BY <1>1, <1>2, <3>2, VersionsCounted DEF IsTree
    <3> QED
      BY <1>1, <2>2, <3>3 DEF Indexed
  <2> QED
    BY <2>1, <2>2
<1>5. Fits(At(s, S), after, n)
  <2> SUFFICES ASSUME NEW m \in ToSet(At(s, S)) PROVE MessageFits(m, after, n)
    BY DEF Fits
  <2>1. PICK i \in S : m = s[i]
    BY ChosenAre
  <2>2. m.mid \notin removed
    BY <2>1
  <2>3. MessageFits(m, recs, n)
    BY <1>1, <2>1, Elements DEF Fits
  <2> QED
    BY <1>2, <2>2, <2>3 DEF MessageFits
<1> QED
  BY <1>3, <1>4, <1>5 DEF WholeThread

LEMMA DeletedWhole ==
  ASSUME ThreadInv, WholeInv, NEW c \in awaiting, c.kind = "delete", DeleteAnswered(c)
  PROVE  WholeInv'
<1>1. /\ DOMAIN msg = {"messages", "records", "active", "loading", "generating", "loadError"}
      /\ IsSeq(msg.messages) /\ DOMAIN server = {"records", "answer"}
  BY DEF ThreadInv, ThreadShape, IsThread
<1>2. /\ awaiting' = awaiting \ {c} /\ overlaid' = (overlaid \/ ~c.alone)
      /\ place' = place /\ did' = did
  BY DEF DeleteAnswered
<1>3. CASE overlaid'
  <2>1. PICK more : more = {}
    OBVIOUS
  <2>2. awaiting' = (awaiting \ {c}) \cup more /\ \A x \in more : FALSE
    BY <1>2, <2>1
  <2>3. Alone(awaiting')
    BY <2>2, AloneOn
  <2> QED
    BY <1>2, <1>3, <2>3 DEF WholeInv
<1>4. CASE ~overlaid'
  <2>1. /\ awaiting = {c} /\ Kept
        /\ Brings(c, msg.records, msg.active, place.room, server.records, did)
    BY <1>2, <1>4, AloneBrings
  <2>2. PICK recs : recs = msg.records
    OBVIOUS
  <2>3. PICK active : active = msg.active
    OBVIOUS
  <2>4. PICK srv : srv = server.records
    OBVIOUS
  <2>5. PICK room : room = place.room
    OBVIOUS
  <2>6. PICK s : s = msg.messages
    OBVIOUS
  <2>7. NoFetch(awaiting) /\ c.before = recs
    BY <2>1, <2>2 DEF NoFetch, Fetch, Brings
  <2>8. ServerWhole(srv, did) /\ WholeThread(s, recs, active, room, srv, did)
    BY <2>1, <2>2, <2>3, <2>4, <2>5, <2>6, <2>7 DEF Kept
  <2>9. PICK id : id = c.id
    OBVIOUS
  <2>10. PICK removed : removed = removedWith(recs, id)
    OBVIOUS
  <2>11. PICK after : after = recordsLeft(recs, removed)
    OBVIOUS
  <2>12. PICK S \in SUBSET (1..Len(s)) :
           S = {i \in 1..Len(s) : {s[i].mid, s[i].id} \cap removed = {}}
    OBVIOUS
  <2>13. PICK new : new = IF id \in Ids(recs)
                          THEN adjustActiveVersionIndexAfterDelete(active, RecordOf(recs, id),
                                                                   recs, removed, after)
                          ELSE active
    OBVIOUS
  <2>14. PICK less : Cascaded(less, srv, id)
    BY DEF Cascaded
  <2>15. msg'.messages = At(s, S) /\ msg'.records = after /\ msg'.active = new
    BY <1>1, <2>2, <2>3, <2>6, <2>7, <2>9, <2>10, <2>11, <2>12, <2>13 DEF DeleteAnswered
  <2>16. server'.records = less
    BY <1>1, <2>4, <2>9, <2>14 DEF DeleteAnswered, Cascaded
  <2>17. ServerWhole(less, did)
    BY <2>8, <2>14, ServerTaken
  <2>18. WholeThread(At(s, S), after, new, room, less, did)
    <3>1. IsSeq(s)
      BY <1>1, <2>6
    <3>2. /\ id \notin Ids(recs) => new = active
          /\ id \in Ids(recs) =>
               new = adjustActiveVersionIndexAfterDelete(active, RecordOf(recs, id), recs,
                                                         removed, after)
      BY <2>13
    <3> QED
      BY <2>8, <2>10, <2>11, <2>12, <2>14, <3>1, <3>2, ThreadTaken
  <2>19. awaiting' = {}
    BY <1>2, <2>1
  <2> QED
    BY <1>2, <2>5, <2>15, <2>16, <2>17, <2>18, <2>19, RestWhole DEF WholeInv
<1> QED
  BY <1>3, <1>4

LEMMA WholeAtFirst ==
  ASSUME ThreadInit
  PROVE  WholeInv /\ LoadsHere /\ StoredInv /\ AloneLoad
<1>1. PICK n \in Before :
        LET versions == [i \in 1..n |-> [id |-> <<"m", MaxDid + i>>, room |-> FirstRoom,
                                        parent |-> Null, rated |-> FALSE]]
            content == [id \in Ids(versions) |-> "COMPLETE"]
            room == IF n = 0 THEN NoChatRoom ELSE FirstRoom
        IN  /\ msg = Loaded(ClearedThread, versions, content, TRUE)
            /\ place = [room |-> room, shown |-> room, pending |-> 0]
            /\ awaiting = {}
            /\ server = [answer |-> content,
                         records |-> [r \in ChatRooms |->
                                        IF r = FirstRoom THEN versions ELSE <<>>]]
            /\ overlaid = FALSE /\ did = 0
  BY DEF ThreadInit
<1>2. PICK versions : versions = [i \in 1..n |-> [id |-> <<"m", MaxDid + i>>,
                                    room |-> FirstRoom, parent |-> Null, rated |-> FALSE]]
  OBVIOUS
<1>3. PICK content : content = [id \in Ids(versions) |-> "COMPLETE"]
  OBVIOUS
<1>4. PICK room : room = IF n = 0 THEN NoChatRoom ELSE FirstRoom
  OBVIOUS
<1>5. PICK ok \in BOOLEAN : ok = TRUE
  OBVIOUS
<1>6. PICK m : m = ClearedThread
  OBVIOUS
<1>7. PICK srv : srv = [r \in ChatRooms |-> IF r = FirstRoom THEN versions ELSE <<>>]
  OBVIOUS
<1>8. /\ msg = Loaded(m, versions, content, ok)
      /\ place = [room |-> room, shown |-> room, pending |-> 0]
      /\ awaiting = {} /\ did = 0
      /\ server = [answer |-> content, records |-> srv]
  BY <1>1, <1>2, <1>3, <1>4, <1>5, <1>6, <1>7
<1>9. /\ n \in Nat /\ MaxDid \in Nat /\ FirstRoom \in ChatRooms
      /\ room \in ChatRooms \cup {NoChatRoom}
  BY <1>4, ThreadAssumption
<1>10. IsSeq(versions) /\ Len(versions) = n
  <2>1. versions = [i \in 1..n |-> versions[i]]
    BY <1>2
  <2> QED
    BY <1>9, <2>1, Listed
<1>11. \A i \in 1..n :
         /\ DOMAIN versions[i] = RecordFields /\ versions[i].id = <<"m", MaxDid + i>>
         /\ versions[i].room = FirstRoom /\ versions[i].parent = Null
  BY <1>2 DEF RecordFields
<1>12. IsTree(versions)
  <2>1. \A i, j \in 1..n : versions[i].id = versions[j].id => i = j
    <3> TAKE i \in 1..n, j \in 1..n
    <3> HAVE versions[i].id = versions[j].id
    <3>1. MaxDid + i = MaxDid + j
      BY <1>11, NamesDiffer
    <3> QED
      BY <1>9, <3>1
  <2> QED
    BY <1>10, <1>11, <2>1 DEF IsTree
<1>13. \A i \in 1..n : Given(versions[i].id, did)
  <2> TAKE i \in 1..n
  <2>1. PICK k \in Nat : k = MaxDid + i /\ k > MaxDid
    BY <1>9
  <2> QED
    BY <1>11, <2>1 DEF Given
<1>14. PICK nothing : nothing = <<>>
  OBVIOUS
<1>15. IsSeq(nothing) /\ Len(nothing) = 0 /\ 1..Len(nothing) = {} /\ Ids(nothing) = {}
       /\ IsTree(nothing)
  <2>1. IsSeq(nothing) /\ Len(nothing) = 0 /\ 1..Len(nothing) = {}
    BY <1>14, EmptyThread
  <2> QED
    BY <2>1 DEF Ids, IsTree
<1>16. \A r \in ChatRooms : srv[r] = IF r = FirstRoom THEN versions ELSE nothing
  BY <1>7, <1>14
<1>17. ServerWhole(srv, did)
  <2>1. \A r \in ChatRooms : IsTree(srv[r])
    BY <1>12, <1>15, <1>16
  <2>2. \A r \in ChatRooms : \A i \in 1..Len(srv[r]) :
          srv[r][i].room = r /\ Given(srv[r][i].id, did)
    BY <1>10, <1>11, <1>13, <1>15, <1>16
  <2>3. \A q, r \in ChatRooms : Ids(srv[q]) \cap Ids(srv[r]) # {} => q = r
    BY <1>15, <1>16
  <2> QED
    BY <2>1, <2>2, <2>3 DEF ServerWhole
<1>18. OfRoom(versions, room, srv)
  <2>1. CASE n = 0
    <3>1. 1..Len(versions) = {}
      BY <1>10, <2>1
    <3> QED
      BY <1>12, <3>1 DEF OfRoom
  <2>2. CASE n # 0
    <3>1. room = FirstRoom /\ srv[FirstRoom] = versions
      BY <1>4, <1>9, <1>16, <2>2
    <3> QED
      BY <1>9, <1>17, <3>1, RoomsRecords
  <2> QED
    BY <2>1, <2>2
<1>19. PICK new : new = msg
  OBVIOUS
<1>20. WholeThread(new.messages, new.records, new.active, room, srv, did)
  <2>1. DOMAIN m = {"messages", "records", "active", "loading", "generating", "loadError"}
    BY <1>6 DEF ClearedThread
  <2>2. new = Loaded(m, versions, content, ok)
    BY <1>8, <1>19
  <2> QED
    BY <1>18, <2>1, <2>2, LoadedWhole
<1>21. place.room = room /\ server.records = srv
  BY <1>8
<1>22. CallsFit(awaiting, msg.messages, msg.records, msg.active, place.room, server.records, did)
  BY <1>8, NoCalls
<1>23. Kept
  BY <1>8, <1>17, <1>19, <1>20, <1>21, <1>22 DEF Kept
<1>24. WholeInv
  BY <1>8, <1>9, <1>21, <1>23, NoCalls DEF WholeInv
<1>25. LoadsHere /\ AloneLoad
  BY <1>8 DEF LoadsHere, AloneLoad
<1>26. StoredInv
  BY <1>8, <1>17, <1>21 DEF StoredInv, Stored, Asking, ServerWhole, IsTree, Apart
<1> QED
  BY <1>24, <1>25, <1>26

LEMMA WholeStep ==
  ASSUME ThreadInv, WholeInv, LoadsHere, StoredInv, AloneLoad, [ThreadNext]_threadVars
  PROVE  WholeInv'
<1>1. CASE startNewChat
  BY <1>1, StartWhole
<1>2. ASSUME NEW r \in ChatRooms, OpenRoomPage(r) \/ selectRoom(r) PROVE WholeInv'
  BY <1>2, OpenWhole
<1>3. ASSUME NEW r \in ChatRooms, FirstSend(r) PROVE WholeInv'
  BY <1>3, SentWhole
<1>4. CASE sendInRoom
  BY <1>4, SentWhole, ThreadAssumption
<1>5. ASSUME NEW m \in ToSet(msg.messages),
             editMessage(m) \/ resendMessage(m) \/ deleteMessage(m) \/ rateMessage(m)
      PROVE  WholeInv'
  BY <1>5, EditedWhole, ResentWhole, DeletionBegunWhole, RatingBegunWhole
<1>6. ASSUME NEW g, NEW step, switchVersion(g, step) PROVE WholeInv'
  BY <1>6, SwitchedWhole
<1>7. ASSUME NEW c \in awaiting, Answered(c) PROVE WholeInv'
  <2>1. CASE c.kind = "create" /\ CreateAnswered(c)
    BY <2>1, CreatedWhole
  <2>2. CASE \/ c.kind = "create" /\ CreateFails(c)
             \/ c.kind = "stream" /\ (AnswerEnds(c) \/ AnswerFails(c))
    BY <2>2, EndedWhole
  <2>3. CASE c.kind = "stream" /\ TextDelta(c)
    BY <2>3, DeltaWhole
  <2>4. CASE c.kind = "stream" /\ MessageContent(c)
    BY <2>4, ContentWhole
  <2>5. CASE c.kind = "list" /\ ListAnswered(c)
    BY <2>5, ListWhole
  <2>6. CASE \/ c.kind \in {"list", "contents"} /\ LoadFails(c)
             \/ c.kind = "contents" /\ ContentsAnswered(c)
    BY <2>6, LoadDoneWhole DEF Fetch
  <2>7. CASE c.kind = "delete" /\ DeleteAnswered(c)
    BY <2>7, DeletedWhole
  <2>8. CASE c.kind = "rate" /\ RateFails(c)
    BY <2>8, UnratedWhole
  <2>9. CASE /\ c.kind \in {"delete", "rate"}
             /\ awaiting' = awaiting \ {c}
             /\ UNCHANGED <<msg, place, server, overlaid, did>>
    BY <2>9, RefusedWhole
  <2> QED
    BY <1>7, <2>1, <2>2, <2>3, <2>4, <2>5, <2>6, <2>7, <2>8, <2>9 DEF Answered
<1>8. CASE UNCHANGED threadVars
  BY <1>8 DEF threadVars, WholeInv, Kept
<1> QED
  BY <1>1, <1>2, <1>3, <1>4, <1>5, <1>6, <1>7, <1>8 DEF ThreadNext

LEMMA WholeIsOfRoom ==
  ASSUME WholeInv, LoadsHere
  PROVE  ThreadOfRoom
<1>1. CASE overlaid
  BY <1>1 DEF ThreadOfRoom
<1>2. CASE ~overlaid /\ ~NoFetch(awaiting)
  BY <1>2 DEF LoadsHere, NoFetch, Fetch, ThreadOfRoom, Fetching
<1>3. CASE ~overlaid /\ NoFetch(awaiting)
  <2>1. PICK recs : recs = msg.records
    OBVIOUS
  <2>2. PICK active : active = msg.active
    OBVIOUS
  <2>3. Kept
    BY <1>3 DEF WholeInv, Crossed, NoFetch
  <2>4. OfRoom(recs, place.room, server.records) /\ Indexed(recs, active) /\ IsTree(recs)
    BY <1>3, <2>1, <2>2, <2>3 DEF Kept, WholeThread, OfRoom
  <2>5. \A i \in 1..Len(recs) :
          recs[i].room = place.room /\ recs[i].parent \in Ids(recs) \cup {Null}
    BY <2>4 DEF OfRoom, IsTree
  <2>6. \A g \in DOMAIN active : active[g] \in 1..Len(getSiblingRecords(recs, g))
    BY <2>4, VersionsCounted DEF Indexed, IsTree
  <2> QED
    BY <2>1, <2>2, <2>5, <2>6 DEF ThreadOfRoom
<1> QED
  BY <1>1, <1>2, <1>3

\* The invariant of the thread, which both theorems rest on.
RoomInv == ThreadInv /\ WholeInv /\ LoadsHere /\ StoredInv /\ AloneLoad

LEMMA RoomAtFirst ==
  ASSUME ThreadInit
  PROVE  RoomInv
  BY ThreadAtFirst, WholeAtFirst DEF RoomInv

LEMMA RoomStep ==
  ASSUME RoomInv, [ThreadNext]_threadVars
  PROVE  RoomInv'
<1>1. Alone(awaiting)
  BY DEF RoomInv, WholeInv
<1>2. ThreadInv' /\ WholeInv'
  BY <1>1, ThreadStep, WholeStep DEF RoomInv
<1>3. LoadsHere' /\ StoredInv' /\ AloneLoad'
  BY LoadsStep DEF RoomInv
<1> QED
  BY <1>2, <1>3 DEF RoomInv

\* What looks unfinished, and whatever keeps an indicator on, has a handler that
\* will still write it or turn it off, for any rooms and any number of operations,
\* loads and failures that overlap.  Unfinished answers are excused from an
\* overlay (overlaid) until a room is loaded, or a new chat begun, with nothing
\* else on its way; the indicators never are (MessagesService).
THEOREM AnswersAreSettled == ThreadSpec => []AnswersSettle
<1>1. ThreadInit => RoomInv
  BY RoomAtFirst
<1>2. RoomInv /\ [ThreadNext]_threadVars => RoomInv'
  BY RoomStep
<1>3. RoomInv => AnswersSettle
  <2> SUFFICES ASSUME ThreadInv PROVE AnswersTracked /\ IndicatorsEnd
    BY DEF AnswersSettle, RoomInv
  <2>1. AnswersTracked
    BY DEF ThreadInv, Waited, Unfinished, AnswersTracked, Awaits, Tracks
  <2>2. IndicatorsEnd
    BY DEF ThreadInv, Indicated, IndicatorsEnd
  <2> QED
    BY <2>1, <2>2
<1> QED
  BY <1>1, <1>2, <1>3, PTL DEF ThreadSpec

\* The thread is the open room's, its records descend from their root and every
\* index names a version, for any rooms and any number of operations, loads and
\* failures that overlap, unless the room's load is out or something is overlaid:
\* a question sent beside a deletion, say, whose record the
\* deletion's answer drops.  The excuse ends when a room is loaded, or a new chat
\* begun, with nothing else on its way, and lasts only if the server took a
\* question under one of another room (MessagesService).
THEOREM ThreadsAreOfRoom == ThreadSpec => []ThreadOfRoom
<1>1. ThreadInit => RoomInv
  BY RoomAtFirst
<1>2. RoomInv /\ [ThreadNext]_threadVars => RoomInv'
  BY RoomStep
<1>3. RoomInv => ThreadOfRoom
  BY WholeIsOfRoom DEF RoomInv
<1> QED
  BY <1>1, <1>2, <1>3, PTL DEF ThreadSpec

----------------------------------------------------------------------------
(***************************************************************************)
(* Proofs about CatalogLists, for any rows and number of steps.            *)
(*                                                                         *)
(* What the rows are at rest depends on the calls on their way.  Library   *)
(* contents have numbered GETs: Latest says that the answer to the latest, *)
(* and no other, will show what is wanted, whatever the others do.  The    *)
(* other lists are right only while nothing crossed: Calm says that at     *)
(* most one GET is out and that it is the latest; RowsThere and AllThere,  *)
(* that with none out the rows are the service's but for those a deletion  *)
(* of several has taken already.                                           *)
(***************************************************************************)

LEMMA Filtered ==
  ASSUME NEW R, NEW s \in Seq(R), NEW S \in SUBSET (1..Len(s))
  PROVE  /\ At(s, S) \in Seq(R) /\ Len(At(s, S)) = Cardinality(S)
         /\ ToSet(At(s, S)) = {s[i] : i \in S}
         /\ IsInjective(s) => IsInjective(At(s, S))
<1>1. /\ Cardinality(S) \in Nat
      /\ \A k \in 1..Cardinality(S) : Nth(S, k) \in S
      /\ \A k, l \in 1..Cardinality(S) : Nth(S, k) = Nth(S, l) => k = l
      /\ \A i \in S : \E k \in 1..Cardinality(S) : i = Nth(S, k)
  <2>1. Len(s) \in Nat
    OBVIOUS
  <2> QED
    BY <2>1, NthCounts, ZenonT(30)
<1>2. PICK t : t = At(s, S)
  OBVIOUS
<1>3. t = [k \in 1..Cardinality(S) |-> s[Nth(S, k)]]
  BY <1>2 DEF At
<1>4. DOMAIN t = 1..Cardinality(S) /\ DOMAIN s = 1..Len(s)
  BY <1>3
<1>5. \A k \in 1..Cardinality(S) : t[k] = s[Nth(S, k)] /\ t[k] \in R
  <2>1. \A i \in S : s[i] \in R
    OBVIOUS
  <2> QED
    BY <1>1, <1>3, <2>1
<1>6. t \in [1..Cardinality(S) -> R]
  BY <1>3, <1>5
<1>7. t \in Seq(R) /\ Len(t) = Cardinality(S)
  BY <1>1, <1>6
<1>8. ToSet(t) = {s[i] : i \in S}
  <2>1. ASSUME NEW i \in S PROVE s[i] \in ToSet(t)
    <3>1. PICK k \in 1..Cardinality(S) : i = Nth(S, k)
      BY <1>1
    <3>2. t[k] = s[i]
      BY <1>5, <3>1
    <3> QED
      BY <1>4, <3>1, <3>2 DEF ToSet
  <2>2. ASSUME NEW x \in ToSet(t) PROVE x \in {s[i] : i \in S}
    <3>1. PICK k \in 1..Cardinality(S) : x = t[k]
      BY <1>4 DEF ToSet
    <3> QED
      BY <1>1, <1>5, <3>1
  <2> QED
    BY <2>1, <2>2
<1>9. ASSUME IsInjective(s) PROVE IsInjective(t)
  <2> SUFFICES ASSUME NEW k \in 1..Cardinality(S), NEW l \in 1..Cardinality(S), t[k] = t[l]
               PROVE  k = l
    BY <1>4 DEF IsInjective
  <2>1. s[Nth(S, k)] = s[Nth(S, l)] /\ Nth(S, k) \in DOMAIN s /\ Nth(S, l) \in DOMAIN s
    BY <1>1, <1>4, <1>5
  <2>2. Nth(S, k) = Nth(S, l)
    BY <1>9, <2>1 DEF IsInjective
  <2> QED
    BY <1>1, <2>2
<1> QED
  BY <1>2, <1>7, <1>8, <1>9

LEMMA LessIs ==
  ASSUME NEW R, NEW q \in Seq(R), NEW ids
  PROVE  /\ Less(q, ids) \in Seq(R) /\ ToSet(Less(q, ids)) = ToSet(q) \ ids
         /\ IsInjective(q) => IsInjective(Less(q, ids))
<1>1. PICK S : S = {i \in 1..Len(q) : q[i] \notin ids}
  OBVIOUS
<1>2. S \in SUBSET (1..Len(q)) /\ Less(q, ids) = At(q, S)
  BY <1>1 DEF Less
<1>3. {q[i] : i \in S} = ToSet(q) \ ids
  BY <1>1 DEF ToSet
<1> QED
  BY <1>2, <1>3, Filtered

LEMMA MatchingIs ==
  ASSUME NEW R, NEW q \in Seq(R), NEW query
  PROVE  /\ Matching(query, q) \in Seq(R) /\ ToSet(Matching(query, q)) \subseteq ToSet(q)
         /\ query = "all" => Len(Matching(query, q)) = Len(q)
<1>1. PICK S : S = {i \in 1..Len(q) : query = "all" \/ q[i] \in Found}
  OBVIOUS
<1>2. S \in SUBSET (1..Len(q)) /\ Matching(query, q) = At(q, S)
  BY <1>1 DEF Matching
<1>3. {q[i] : i \in S} \subseteq ToSet(q)
  BY <1>2 DEF ToSet
<1>4. query = "all" => Cardinality(S) = Len(q)
  <2>1. Len(q) \in Nat /\ (query = "all" => S = 1..Len(q))
    BY <1>1
  <2>2. Cardinality(1..Len(q)) = Len(q)
    <3>1. \A n \in Nat : Cardinality(1..n) = IF 1 > n THEN 0 ELSE n - 1 + 1
      BY FS_Interval
    <3>2. \A n \in Nat : (IF 1 > n THEN 0 ELSE n - 1 + 1) = n
      OBVIOUS
    <3> QED
      BY <2>1, <3>1, <3>2
  <2> QED
    BY <2>1, <2>2
<1> QED
  BY <1>2, <1>3, <1>4, Filtered

LEMMA SliceIs ==
  ASSUME NEW R, NEW q \in Seq(R), NEW p \in Nat \ {0}
  PROVE  Slice(p, q) \in Seq(R) /\ ToSet(Slice(p, q)) \subseteq ToSet(q)
<1>1. PICK n \in Int : n = IF p * PageSize < Len(q) THEN p * PageSize ELSE Len(q)
  BY DEF PageSize
<1>2. n <= Len(q) /\ n \in Int /\ Len(q) \in Nat
  BY <1>1 DEF PageSize
<1>3. Slice(p, q) = SubSeq(q, p, n)
  <2>1. (p - 1) * PageSize + 1 = p
    BY DEF PageSize
  <2> QED
    BY <1>1, <2>1 DEF Slice
<1>4. \A i \in p..n : i \in 1..Len(q)
  BY <1>2
<1>5. /\ SubSeq(q, p, n) \in Seq(R)
      /\ \A i \in DOMAIN SubSeq(q, p, n) : SubSeq(q, p, n)[i] = q[p + i - 1] /\ p + i - 1 \in 1..Len(q)
  BY <1>2, <1>4, SubSeqProperties
<1> QED
  BY <1>3, <1>5 DEF ToSet

\* Lists without repetition of the same elements are equally long.
LEMMA SameLength ==
  ASSUME NEW R, NEW q \in Seq(R), NEW r \in Seq(R), IsInjective(q), IsInjective(r), ToSet(q) = ToSet(r)
  PROVE  Len(q) = Len(r)
<1>1. ASSUME NEW s \in Seq(R), IsInjective(s) PROVE Cardinality(ToSet(s)) = Len(s)
  <2>1. DOMAIN s = 1..Len(s) /\ Len(s) \in Nat
    OBVIOUS
  <2>2. s \in Bijection(1..Len(s), ToSet(s))
    <3>1. s \in [1..Len(s) -> ToSet(s)]
      BY <2>1 DEF ToSet
    <3>2. s \in Injection(1..Len(s), ToSet(s))
      BY <1>1, <3>1 DEF Injection, IsInjective
    <3>3. s \in Surjection(1..Len(s), ToSet(s))
      BY <2>1, <3>1 DEF Surjection, ToSet
    <3> QED
      BY <3>2, <3>3 DEF Bijection
  <2>3. ExistsBijection(1..Len(s), ToSet(s))
    BY <2>2 DEF ExistsBijection
  <2>4. IsFiniteSet(1..Len(s)) /\ Cardinality(1..Len(s)) = Len(s)
    <3>1. \A n \in Nat : IsFiniteSet(1..n) /\ Cardinality(1..n) = IF 1 > n THEN 0 ELSE n - 1 + 1
      BY FS_Interval
    <3>2. \A n \in Nat : (IF 1 > n THEN 0 ELSE n - 1 + 1) = n
      OBVIOUS
    <3> QED
      BY <2>1, <3>1, <3>2
  <2> QED
    BY <2>3, <2>4, FS_Bijection
<1> QED
  BY <1>1

LEMMA Appended ==
  ASSUME NEW R, NEW q \in Seq(R), NEW x
  PROVE  /\ ToSet(Append(q, x)) = ToSet(q) \cup {x}
         /\ Append(q, x) \in Seq(ToSet(Append(q, x)))
         /\ Len(Append(q, x)) = Len(q) + 1 /\ Append(q, x) # <<>>
         /\ q = <<>> => ToSet(Append(q, x)) = {x}
<1>1. PICK t : t = Append(q, x)
  OBVIOUS
<1>2. /\ t \in Seq(R \cup {x}) /\ Len(t) = Len(q) + 1 /\ Len(q) \in Nat
      /\ t[Len(q) + 1] = x /\ \A i \in 1..Len(q) : t[i] = q[i]
  BY <1>1
<1>3. DOMAIN t = 1..(Len(q) + 1) /\ DOMAIN q = 1..Len(q)
  BY <1>2
<1>4. ToSet(t) = ToSet(q) \cup {x}
  <2>1. ASSUME NEW y \in ToSet(t) PROVE y \in ToSet(q) \cup {x}
    <3>1. PICK i \in 1..(Len(q) + 1) : y = t[i]
      BY <1>3 DEF ToSet
    <3>2. i \in 1..Len(q) \/ i = Len(q) + 1
      BY <1>2, <3>1
    <3> QED
      BY <1>2, <1>3, <3>1, <3>2 DEF ToSet
  <2>2. ASSUME NEW y \in ToSet(q) PROVE y \in ToSet(t)
    <3>1. PICK i \in 1..Len(q) : y = q[i]
      BY <1>3 DEF ToSet
    <3>2. i \in 1..(Len(q) + 1) /\ t[i] = y
      BY <1>2, <3>1
    <3> QED
      BY <1>3, <3>2 DEF ToSet
  <2>3. x \in ToSet(t)
    <3>1. Len(q) + 1 \in 1..(Len(q) + 1)
      BY <1>2
    <3> QED
      BY <1>2, <1>3, <3>1 DEF ToSet
  <2> QED
    BY <2>1, <2>2, <2>3
<1>5. t \in Seq(ToSet(t))
  <2>1. t \in [1..Len(t) -> ToSet(t)]
    BY <1>2, <1>3 DEF ToSet
  <2> QED
    BY <1>2, <2>1
<1>6. ToSet(<<>>) = {}
  BY DEF ToSet
<1>7. t # <<>>
  BY <1>2
<1> QED
  BY <1>1, <1>2, <1>4, <1>5, <1>6, <1>7

CatRows == ToSet(Rows0) \cup {Fresh}
PageTurns == [query : {"all", "some"}, page : Nat \ {0}]
NoRepeats(q) == q \in Seq(CatRows) /\ IsInjective(q)
Gone == UNION {j.ids \ j.left : j \in work}
OnItsWay == ToSet(cat.gets)
CatFields == {"all", "rows", "total", "filter", "loading", "chosen", "busy", "gets", "id",
              "editing", "form"}

WorkFields == {"kind", "ids", "left", "ref", "failed"}

WorkShape ==
  \A j \in work :
    /\ DOMAIN j = WorkFields /\ j.left \subseteq j.ids
    /\ (j.kind # "delete" \/ catalogue \in {"contents", "tags"}) => j.left = j.ids

CatShape ==
  /\ catalogue \in Pages
  /\ NoRepeats(saved)
  /\ DOMAIN cat = CatFields
  /\ cat.all \in Seq(CatRows) /\ cat.rows \in Seq(CatRows) /\ cat.id \in Nat
  /\ cat.filter \in PageTurns
  /\ catalogue = "contents" => cat.total \in Nat
  /\ cat.gets \in Seq(OnItsWay)
  /\ \A g \in OnItsWay : /\ g.filter \in PageTurns /\ g.id \in Nat /\ g.id <= cat.id
                         /\ g.after = "delete" => catalogue = "contents"
  /\ WorkShape

Served ==
  /\ cat.rows = Slice(cat.filter.page, Matching(cat.filter.query, saved))
  /\ cat.total = Len(Matching(cat.filter.query, saved))

\* What the latest GET to be issued asked for is what is wanted, and is shown
\* once it is answered.
Latest ==
  catalogue = "contents" =>
    /\ \A g \in OnItsWay : g.id = cat.id => g.filter = cat.filter
    /\ (current /\ \A g \in OnItsWay : g.id # cat.id) => Served

\* As long as nothing crossed, at most one GET is out, the latest, and what a
\* deletion of several has done so far is not listed by the service.
Calm ==
  ~overlap =>
    /\ current
    /\ Len(cat.gets) <= 1
    /\ \A g \in OnItsWay : g.id = cat.id /\ (catalogue # "categories" => g.filter = cat.filter)
    /\ \A j \in work : ~j.failed
    /\ Gone \cap ToSet(saved) = {}

Least(n) == IF n < 1 THEN 1 ELSE n

\* Only a GET that follows a deletion may ask for a page that is no more.
OnPage ==
  (~overlap /\ catalogue = "contents" /\ \A g \in OnItsWay : g.after # "delete") =>
    cat.filter.page <= Least(Len(Matching(cat.filter.query, saved)))

RowsThere ==
  (~overlap /\ cat.gets = <<>> /\ catalogue \in {"assistants", "tags"}) =>
    /\ ToSet(cat.rows) \subseteq ToSet(saved) \cup Gone
    /\ catalogue = "tags" => cat.total = Len(Matching(cat.filter.query, saved))

Mirrors ==
  /\ NoRepeats(cat.all)
  /\ ToSet(saved) \subseteq ToSet(cat.all) /\ ToSet(cat.all) \subseteq ToSet(saved) \cup Gone
  /\ cat.rows = Slice(cat.filter.page, cat.all)
  /\ cat.total = Len(cat.all)

AllThere ==
  catalogue = "categories" =>
    /\ cat.filter.query = "all"
    /\ (~overlap /\ cat.gets = <<>>) => Mirrors

CatInv == CatShape /\ Latest /\ Calm /\ OnPage /\ RowsThere /\ AllThere

----------------------------------------------------------------------------
(* What the actions do to the list.                                        *)

SameList ==
  /\ DOMAIN cat' = CatFields
  /\ cat'.all = cat.all /\ cat'.rows = cat.rows /\ cat'.total = cat.total
  /\ cat'.filter = cat.filter /\ cat'.gets = cat.gets /\ cat'.id = cat.id

Loads(f, after) ==
  /\ DOMAIN cat' = CatFields
  /\ cat'.all = cat.all /\ cat'.rows = cat.rows /\ cat'.total = cat.total
  /\ cat'.filter = f /\ cat'.id = cat.id + 1
  /\ \E ids : cat'.gets = Append(cat.gets, [id |-> cat.id + 1, filter |-> f,
                                            after |-> after, ids |-> ids])

\* What is asked of submissions by each step.
WorkKept ==
  /\ WorkShape'
  /\ ~overlap' => /\ ~overlap /\ \A j \in work' : ~j.failed
                  /\ Gone' \cap ToSet(saved') = {}

LEMMA KeepsList ==
  ASSUME CatInv, SameList, UNCHANGED <<catalogue, saved, current>>, WorkKept,
         ~overlap' => Gone' = Gone
  PROVE  CatInv'
<1>1. CatShape'
  BY DEF CatInv, CatShape, SameList, WorkKept, OnItsWay
<1>2. Latest'
  BY DEF CatInv, Latest, SameList, OnItsWay, Served
<1>3. Calm'
  BY DEF CatInv, Calm, SameList, OnItsWay, WorkKept
<1>4. OnPage'
  BY DEF CatInv, OnPage, SameList, OnItsWay, WorkKept
<1>5. RowsThere'
  BY DEF CatInv, RowsThere, SameList, WorkKept
<1>6. AllThere'
  BY DEF CatInv, AllThere, SameList, WorkKept, Mirrors
<1> QED
  BY <1>1, <1>2, <1>3, <1>4, <1>5, <1>6 DEF CatInv

LEMMA KeepsLoad ==
  ASSUME CatInv, NEW f \in PageTurns, NEW after, Loads(f, after),
         UNCHANGED <<catalogue, current>>, NoRepeats(saved'), WorkKept,
         after = "delete" => catalogue = "contents",
         catalogue = "categories" => f.query = "all",
         ~overlap' => cat.gets = <<>>,
         (~overlap' /\ catalogue = "contents" /\ after # "delete") =>
           f.page <= Least(Len(Matching(f.query, saved')))
  PROVE  CatInv'
<1>1. PICK ids : cat'.gets = Append(cat.gets, [id |-> cat.id + 1, filter |-> f,
                                               after |-> after, ids |-> ids])
  BY DEF Loads
<1>2. PICK g : g = [id |-> cat.id + 1, filter |-> f, after |-> after, ids |-> ids]
  OBVIOUS
<1>3. g.id = cat.id + 1 /\ g.filter = f /\ g.after = after
  BY <1>2
<1>4. cat.gets \in Seq(OnItsWay) /\ cat'.gets = Append(cat.gets, g)
  BY <1>1, <1>2 DEF CatInv, CatShape
<1>5. /\ OnItsWay' = OnItsWay \cup {g} /\ cat'.gets \in Seq(OnItsWay')
      /\ Len(cat'.gets) = Len(cat.gets) + 1 /\ cat'.gets # <<>>
      /\ (cat.gets = <<>> => OnItsWay' = {g})
  BY <1>4, Appended DEF OnItsWay
<1>6. CatShape'
  <2>0. /\ cat.id \in Nat /\ cat'.id = cat.id + 1
        /\ \A h \in OnItsWay : /\ h.filter \in PageTurns /\ h.id \in Nat /\ h.id <= cat.id
                               /\ h.after = "delete" => catalogue = "contents"
    <3>1. cat.id \in Nat
      BY DEF CatInv, CatShape
    <3>2. cat'.id = cat.id + 1
      BY DEF Loads
    <3>3. \A h \in OnItsWay : /\ h.filter \in PageTurns /\ h.id \in Nat /\ h.id <= cat.id
                              /\ h.after = "delete" => catalogue = "contents"
      BY DEF CatInv, CatShape
    <3> QED
      BY <3>1, <3>2, <3>3
  <2>1. \A h \in OnItsWay' : /\ h.filter \in PageTurns /\ h.id \in Nat /\ h.id <= cat'.id
                             /\ h.after = "delete" => catalogue' = "contents"
    <3> SUFFICES ASSUME NEW h \in OnItsWay'
                 PROVE  /\ h.filter \in PageTurns /\ h.id \in Nat /\ h.id <= cat'.id
                        /\ h.after = "delete" => catalogue = "contents"
      OBVIOUS
    <3>1. CASE h = g
      BY <1>3, <2>0, <3>1
    <3>2. CASE h \in OnItsWay
      BY <2>0, <3>2
    <3> QED
      BY <1>5, <3>1, <3>2
  <2>2. cat'.id \in Nat
    BY DEF CatInv, CatShape, Loads
  <2> QED
    BY <1>5, <2>1, <2>2 DEF CatInv, CatShape, Loads, WorkKept
<1>7. Latest'
  <2>1. g \in OnItsWay' /\ g.id = cat'.id
    BY <1>3, <1>5 DEF Loads
  <2>2. \A h \in OnItsWay' : catalogue = "contents" /\ h.id = cat'.id => h.filter = cat'.filter
    <3>1. /\ cat.id \in Nat /\ cat'.id = cat.id + 1
          /\ \A h \in OnItsWay : h.id \in Nat /\ h.id <= cat.id
      <4>1. cat.id \in Nat
        BY DEF CatInv, CatShape
      <4>2. cat'.id = cat.id + 1
        BY DEF Loads
      <4>3. \A h \in OnItsWay : h.id \in Nat /\ h.id <= cat.id
        BY DEF CatInv, CatShape
      <4> QED
        BY <4>1, <4>2, <4>3
    <3>2. \A h \in OnItsWay : h.id # cat'.id
      BY <3>1
    <3> QED
      BY <1>3, <1>5, <3>2 DEF Loads
  <2> QED
    BY <2>1, <2>2 DEF Latest
<1>8. Calm'
  <2>1. ~overlap' => /\ current' /\ Len(cat'.gets) <= 1
                     /\ \A h \in OnItsWay' : h.id = cat'.id /\ h.filter = cat'.filter
    <3>1. ~overlap' => cat.gets = <<>> /\ current
      BY DEF CatInv, Calm, WorkKept
    <3>2. Len(<<>>) = 0
      OBVIOUS
    <3> QED
      BY <1>3, <1>5, <3>1, <3>2 DEF Loads
  <2> QED
    BY <2>1 DEF Calm, WorkKept
<1>9. OnPage'
  <2>1. g \in OnItsWay' /\ cat'.filter = f
    BY <1>5 DEF Loads
  <2> QED
    BY <1>3, <2>1 DEF OnPage
<1>10. RowsThere'
  BY <1>5 DEF RowsThere
<1>11. AllThere'
  BY <1>5 DEF AllThere, Loads
<1> QED
  BY <1>6, <1>7, <1>8, <1>9, <1>10, <1>11 DEF CatInv

\* Categories: all of them are there, and a page of them is shown.
LEMMA KeepsMirror ==
  ASSUME CatInv, catalogue = "categories", UNCHANGED <<catalogue, current>>, WorkKept,
         DOMAIN cat' = CatFields, cat'.gets = cat.gets, cat'.id = cat.id,
         cat'.filter \in PageTurns, cat'.filter.query = "all",
         cat'.all \in Seq(CatRows), cat'.rows = Slice(cat'.filter.page, cat'.all),
         cat'.total = Len(cat'.all), NoRepeats(saved'),
         (~overlap' /\ cat.gets = <<>>) =>
           /\ NoRepeats(cat'.all) /\ ToSet(saved') \subseteq ToSet(cat'.all)
           /\ ToSet(cat'.all) \subseteq ToSet(saved') \cup Gone'
  PROVE  CatInv'
<1>1. cat'.rows \in Seq(CatRows)
  <2>1. cat'.filter.page \in Nat \ {0}
    BY DEF PageTurns
  <2> QED
    BY <2>1, SliceIs
<1>2. CatShape'
  BY <1>1 DEF CatInv, CatShape, OnItsWay, WorkKept
<1>3. Calm'
  BY DEF CatInv, Calm, OnItsWay, WorkKept
<1>4. Latest' /\ OnPage' /\ RowsThere'
  BY DEF Latest, OnPage, RowsThere
<1>5. AllThere'
  BY DEF AllThere, Mirrors
<1> QED
  BY <1>2, <1>3, <1>4, <1>5 DEF CatInv

\* Assistants: rows leave the list and the service.
LEMMA KeepsRows ==
  ASSUME CatInv, catalogue \in {"assistants", "categories"}, UNCHANGED <<catalogue, current>>,
         WorkKept, NoRepeats(saved'), DOMAIN cat' = CatFields, cat'.all = cat.all,
         cat'.filter = cat.filter, cat'.gets = cat.gets, cat'.id = cat.id,
         cat'.rows \in Seq(CatRows),
         (~overlap' /\ catalogue = "assistants" /\ cat.gets = <<>>) =>
           ToSet(cat'.rows) \subseteq ToSet(saved') \cup Gone',
         catalogue = "categories" =>
           /\ cat' = cat /\ ToSet(saved') \subseteq ToSet(saved)
           /\ ToSet(saved) \cup Gone \subseteq ToSet(saved') \cup Gone'
  PROVE  CatInv'
<1>1. CatShape'
  BY DEF CatInv, CatShape, OnItsWay, WorkKept
<1>2. Calm'
  BY DEF CatInv, Calm, OnItsWay, WorkKept
<1>3. Latest' /\ OnPage' /\ RowsThere'
  BY DEF Latest, OnPage, RowsThere
<1>4. AllThere'
  BY DEF CatInv, AllThere, Mirrors, WorkKept
<1> QED
  BY <1>1, <1>2, <1>3, <1>4 DEF CatInv

----------------------------------------------------------------------------
(* What the user does.                                                     *)

LEMMA WorkStays ==
  ASSUME CatInv, UNCHANGED <<catalogue, saved, work>>, ~overlap' => ~overlap
  PROVE  WorkKept /\ Gone' = Gone
<1>1. Gone' = Gone
  BY DEF Gone
<1>2. WorkShape'
  BY DEF CatInv, CatShape, WorkShape
<1> QED
  BY <1>1, <1>2 DEF CatInv, Calm, WorkKept

\* A change of what is chosen or open, with the submissions as they are.
LEMMA PlainStep ==
  ASSUME CatInv, NEW l, Step(l), UNCHANGED work, DOMAIN l = CatFields,
         l.all = cat.all, l.rows = cat.rows, l.total = cat.total, l.filter = cat.filter,
         l.gets = cat.gets, l.id = cat.id
  PROVE  CatInv'
<1>1. SameList /\ UNCHANGED <<catalogue, saved, current>> /\ (overlap => overlap')
  BY DEF Step, SameList
<1>2. WorkKept /\ Gone' = Gone
  BY <1>1, WorkStays
<1> QED
  BY <1>1, <1>2, KeepsList

LEMMA LoadedPage ==
  ASSUME NEW l, DOMAIN l = CatFields, NEW after, NEW ids
  PROVE  /\ DOMAIN loadPage(l, after, ids) = CatFields
         /\ loadPage(l, after, ids).all = l.all /\ loadPage(l, after, ids).rows = l.rows
         /\ loadPage(l, after, ids).total = l.total
         /\ loadPage(l, after, ids).filter = l.filter
         /\ loadPage(l, after, ids).id = l.id + 1
         /\ loadPage(l, after, ids).gets =
              Append(l.gets, [id |-> l.id + 1, filter |-> l.filter, after |-> after, ids |-> ids])
  BY DEF loadPage, CatFields

\* A step that asks for a page, at rest unless it crosses.
LEMMA LoadingStep ==
  ASSUME CatInv, NEW l, Step(loadItems(l)), UNCHANGED work, DOMAIN l = CatFields,
         l.all = cat.all, l.rows = cat.rows, l.total = cat.total, l.filter \in PageTurns,
         l.gets = cat.gets, l.id = cat.id,
         catalogue = "categories" => l.filter.query = "all",
         (~overlap /\ cat.gets = <<>> /\ catalogue = "contents") =>
           l.filter.page <= Least(Len(Matching(l.filter.query, saved)))
  PROVE  CatInv'
<1>1. cat' = loadPage(l, "nothing", {}) /\ UNCHANGED <<catalogue, saved, current>>
  BY DEF Step, loadItems
<1>2. Loads(l.filter, "nothing")
  <2>1. PICK none : none = {}
    OBVIOUS
  <2>2. cat' = loadPage(l, "nothing", none)
    BY <1>1, <2>1
  <2>3. /\ DOMAIN cat' = CatFields /\ cat'.all = l.all /\ cat'.rows = l.rows /\ cat'.total = l.total
        /\ cat'.filter = l.filter /\ cat'.id = l.id + 1
        /\ cat'.gets = Append(l.gets, [id |-> l.id + 1, filter |-> l.filter,
                                       after |-> "nothing", ids |-> none])
    BY <2>2, LoadedPage
  <2> QED
    BY <2>3 DEF Loads
<1>3. cat.gets \in Seq(OnItsWay)
  BY DEF CatInv, CatShape
<1>4. cat'.gets # cat.gets
  <2>1. PICK x : cat'.gets = Append(cat.gets, x)
    BY <1>2 DEF Loads
  <2>2. Len(cat'.gets) = Len(cat.gets) + 1 /\ Len(cat.gets) \in Nat
    BY <1>3, <2>1, Appended
  <2> QED
    BY <2>2
<1>5. ~overlap' => ~overlap /\ cat.gets = <<>>
  BY <1>1, <1>4 DEF Step, Idle, loadItems
<1>6. WorkKept
  BY <1>1, <1>5, WorkStays
<1>7. NoRepeats(saved')
  BY <1>1 DEF CatInv, CatShape, NoRepeats
<1> QED
  BY <1>1, <1>2, <1>5, <1>6, <1>7, KeepsLoad

LEMMA CatIsRecord ==
  ASSUME CatInv
  PROVE  DOMAIN cat = CatFields /\ cat.filter \in PageTurns /\ cat.id \in Nat
  BY DEF CatInv, CatShape

LEMMA PageCounted ==
  ASSUME NEW l, l.total \in Nat
  PROVE  pageCount(l) = Least(l.total) /\ pageCount(l) \in Nat \ {0}
  BY DEF pageCount, Least, PageSize

\* At rest the page that is shown is there, and so is each that may be turned to.
LEMMA PagesThere ==
  ASSUME CatInv, catalogue = "contents", ~overlap, cat.gets = <<>>
  PROVE  /\ cat.filter.page <= Least(Len(Matching(cat.filter.query, saved)))
         /\ pageCount(cat) = Least(Len(Matching(cat.filter.query, saved)))
         /\ \A query : 1 <= Least(Len(Matching(query, saved)))
<1>1. OnItsWay = {}
  BY DEF OnItsWay, ToSet
<1>2. cat.filter.page <= Least(Len(Matching(cat.filter.query, saved)))
  BY <1>1 DEF CatInv, OnPage
<1>3. Served
  BY <1>1 DEF CatInv, Calm, Latest
<1>4. cat.total \in Nat
  BY DEF CatInv, CatShape
<1>5. ASSUME NEW query PROVE 1 <= Least(Len(Matching(query, saved)))
  <2>1. saved \in Seq(CatRows)
    BY DEF CatInv, CatShape, NoRepeats
  <2>2. Matching(query, saved) \in Seq(CatRows)
    BY <2>1, MatchingIs
  <2>3. Len(Matching(query, saved)) \in Nat
    BY <2>2
  <2> QED
    BY <2>3 DEF Least
<1> QED
  BY <1>2, <1>3, <1>4, <1>5, PageCounted DEF Served

LEMMA EnterKeeps ==
  ASSUME CatInv, Enter
  PROVE  CatInv'
<1>1. Step(loadItems(cat)) /\ UNCHANGED work
  BY DEF Enter
<1>2. catalogue = "categories" => cat.filter.query = "all"
  BY DEF CatInv, AllThere
<1> QED
  BY <1>1, <1>2, CatIsRecord, PagesThere, LoadingStep

LEMMA TurnPageKeeps ==
  ASSUME CatInv, TurnPage
  PROVE  CatInv'
<1>1. PICK f \in pageTurns \cup searches :
        /\ Step(updateFilter(cat, f)) /\ UNCHANGED work
        /\ catalogue = "categories" => f \in pageTurns
        /\ catalogue \in Pages
  BY DEF TurnPage, onFilterChange, onSortChange, onUserFilterChange, onTagsPageChange, TurnTo, Pages
<1>2. f \in PageTurns /\ (catalogue = "categories" => f.query = "all")
  <2>1. CASE f \in searches
    BY <1>1, <2>1 DEF searches, PageTurns, pageTurns, CatInv, AllThere
  <2>2. CASE f \in pageTurns
    <3>1. PICK p \in 1..pageCount(cat) : f = [cat.filter EXCEPT !.page = p]
      BY <2>2 DEF pageTurns
    <3>2. p \in Nat \ {0}
      BY <3>1
    <3> QED
      BY <3>1, <3>2, CatIsRecord DEF PageTurns, CatInv, AllThere
  <2> QED
    BY <1>1, <2>1, <2>2
<1>3. CASE catalogue = "categories"
  <2>1. cat' = applyFilter([cat EXCEPT !.filter = f], cat.all)
    BY <1>1, <1>3 DEF Step, updateFilter
  <2>2. /\ DOMAIN cat' = CatFields /\ cat'.all = cat.all /\ cat'.gets = cat.gets /\ cat'.id = cat.id
        /\ cat'.filter = f /\ cat'.rows = Slice(f.page, cat.all) /\ cat'.total = Len(cat.all)
    BY <2>1, CatIsRecord DEF applyFilter, CatFields
  <2>3. UNCHANGED <<catalogue, saved, current>> /\ (overlap => overlap')
    BY <1>1 DEF Step
  <2>4. WorkKept /\ Gone' = Gone
    BY <1>1, <2>3, WorkStays
  <2>5. cat.all \in Seq(CatRows) /\ NoRepeats(saved')
    BY <2>3 DEF CatInv, CatShape, NoRepeats
  <2>6. (~overlap' /\ cat.gets = <<>>) => Mirrors
    BY <1>3, <2>3 DEF CatInv, AllThere
  <2> QED
    BY <1>2, <1>3, <2>2, <2>3, <2>4, <2>5, <2>6, KeepsMirror DEF Mirrors
<1>4. CASE catalogue # "categories"
  <2>1. PICK l : /\ Step(loadItems(l)) /\ DOMAIN l = CatFields /\ l.all = cat.all /\ l.rows = cat.rows
                 /\ l.total = cat.total /\ l.filter = f /\ l.gets = cat.gets /\ l.id = cat.id
    <3>1. CASE catalogue = "tags"
      <4>1. PICK l : l = [cat EXCEPT !.filter = f, !.chosen = {}]
        OBVIOUS
      <4>2. Step(loadItems(l))
        BY <1>1, <3>1, <4>1 DEF updateFilter
      <4>3. /\ DOMAIN l = CatFields /\ l.all = cat.all /\ l.rows = cat.rows
            /\ l.total = cat.total /\ l.filter = f /\ l.gets = cat.gets /\ l.id = cat.id
        BY <4>1, CatIsRecord DEF CatFields
      <4> QED
        BY <4>2, <4>3
    <3>2. CASE catalogue # "tags"
      <4>1. PICK l : l = [cat EXCEPT !.filter = f]
        OBVIOUS
      <4>2. Step(loadItems(l))
        BY <1>1, <1>4, <3>2, <4>1 DEF updateFilter
      <4>3. /\ DOMAIN l = CatFields /\ l.all = cat.all /\ l.rows = cat.rows
            /\ l.total = cat.total /\ l.filter = f /\ l.gets = cat.gets /\ l.id = cat.id
        BY <4>1, CatIsRecord DEF CatFields
      <4> QED
        BY <4>2, <4>3
    <3> QED
      BY <3>1, <3>2
  <2>2. (~overlap /\ cat.gets = <<>> /\ catalogue = "contents") =>
           f.page <= Least(Len(Matching(f.query, saved)))
    <3> SUFFICES ASSUME ~overlap, cat.gets = <<>>, catalogue = "contents"
                 PROVE  f.page <= Least(Len(Matching(f.query, saved)))
      OBVIOUS
    <3>1. CASE f \in searches
      BY <3>1, PagesThere DEF searches
    <3>2. CASE f \in pageTurns
      <4>1. PICK p \in 1..pageCount(cat) : f = [cat.filter EXCEPT !.page = p]
        BY <3>2 DEF pageTurns
      <4>2. f.page = p /\ f.query = cat.filter.query
        BY <4>1, CatIsRecord DEF PageTurns
      <4>3. p <= pageCount(cat)
        BY <4>1
      <4> QED
        BY <4>2, <4>3, PagesThere
    <3> QED
      BY <1>1, <3>1, <3>2
  <2> QED
    BY <1>1, <1>2, <1>4, <2>1, <2>2, LoadingStep
<1> QED
  BY <1>3, <1>4

LEMMA ChooseKeeps ==
  ASSUME CatInv, Choose
  PROVE  CatInv'
<1>1. PICK ids : Step([cat EXCEPT !.chosen = ids]) /\ UNCHANGED work
  BY DEF Choose, toggleAssistant, toggleCategory, toggleTag, selectAllAssistants,
         selectAllCategories, toggleAllSelection, Chooses
<1> QED
  BY <1>1, CatIsRecord, PlainStep DEF CatFields

LEMMA OpenKeeps ==
  ASSUME CatInv, OpenCatalogForm
  PROVE  CatInv'
<1>1. PICK kind, ids : Open(kind, ids)
  BY DEF OpenCatalogForm, onAddAssistant, onAddCategory, onCreateLibraryTag, onEditAssistant,
         onEditCategory, onEditSettings, onEditLibraryTag, onDeleteAssistant, onDeleteCategory,
         onDeleteItem, onDeleteLibraryTag, onDeleteTags
<1>2. PICK form, busy, editing :
        Step([cat EXCEPT !.form = form, !.busy = busy, !.editing = editing]) /\ UNCHANGED work
  BY <1>1 DEF Open
<1> QED
  BY <1>2, CatIsRecord, PlainStep DEF CatFields

LEMMA CancelKeeps ==
  ASSUME CatInv, Cancel
  PROVE  CatInv'
<1>1. Step([cat EXCEPT !.form = FormClosed]) /\ UNCHANGED work
  BY DEF Cancel
<1> QED
  BY <1>1, CatIsRecord, PlainStep DEF CatFields

LEMMA SubmitKeeps ==
  ASSUME CatInv, Submit
  PROVE  CatInv'
<1>1. PICK left : SubmitForm(left)
  BY DEF Submit, submitOrConfirm, saveEditSettings, saveEditTag, confirmDeleteTags
<1>2. PICK form, busy : Step([cat EXCEPT !.busy = busy, !.form = form])
  BY <1>1 DEF SubmitForm
<1>3. SameList /\ UNCHANGED <<catalogue, saved, current>> /\ (overlap => overlap')
  BY <1>2, CatIsRecord DEF Step, SameList, CatFields
<1>4. PICK j : /\ work' = work \cup {j} /\ j.left = j.ids /\ ~j.failed /\ DOMAIN j = WorkFields
  <2>1. PICK j : j = [kind |-> cat.form.kind, ids |-> cat.form.ids, left |-> cat.form.ids,
                      ref |-> cat.form.ref, failed |-> FALSE]
    OBVIOUS
  <2>2. work' = work \cup {j}
    BY <1>1, <2>1 DEF SubmitForm
  <2>3. j.left = j.ids /\ j.failed = FALSE /\ DOMAIN j = WorkFields
    BY <2>1 DEF WorkFields
  <2> QED
    BY <2>2, <2>3
<1>5. Gone' = Gone
  BY <1>4 DEF Gone
<1>6. WorkShape'
  BY <1>3, <1>4 DEF CatInv, CatShape, WorkShape
<1>7. WorkKept
  BY <1>3, <1>4, <1>5, <1>6 DEF WorkKept, CatInv, Calm
<1> QED
  BY <1>3, <1>5, <1>7, KeepsList

----------------------------------------------------------------------------
(* Answers to list GETs.                                                   *)

\* The list without its element i, given by its elements.
Skips(r, q, i) ==
  /\ Len(r) = Len(q) - 1
  /\ \A j \in 1..(Len(q) - 1) : r[j] = IF j < i THEN q[j] ELSE q[j + 1]

LEMMA WithoutOne ==
  ASSUME NEW R, NEW q \in Seq(R), NEW i \in 1..Len(q), NEW r \in Seq(R), Skips(r, q, i)
  PROVE  /\ r \in Seq(ToSet(r))
         /\ ToSet(r) \subseteq ToSet(q) /\ ToSet(q) \subseteq ToSet(r) \cup {q[i]}
         /\ Len(q) <= 1 => r = <<>>
<1>1. Len(q) \in Nat /\ i \in Nat /\ DOMAIN q = 1..Len(q) /\ i >= 1 /\ i <= Len(q)
  OBVIOUS
<1>2. /\ Len(r) \in Nat /\ DOMAIN r = 1..(Len(q) - 1) /\ Len(r) = Len(q) - 1
      /\ \A j \in 1..(Len(q) - 1) : r[j] = IF j < i THEN q[j] ELSE q[j + 1]
  BY DEF Skips
<1>3. ToSet(r) \subseteq ToSet(q)
  <2> SUFFICES ASSUME NEW j \in 1..(Len(q) - 1) PROVE r[j] \in ToSet(q)
    BY <1>2 DEF ToSet
  <2>1. j \in 1..Len(q) /\ j + 1 \in 1..Len(q)
    BY <1>1
  <2> QED
    BY <1>1, <1>2, <2>1 DEF ToSet
<1>4. ToSet(q) \subseteq ToSet(r) \cup {q[i]}
  <2> SUFFICES ASSUME NEW j \in 1..Len(q), j # i PROVE q[j] \in ToSet(r)
    BY <1>1 DEF ToSet
  <2>1. CASE j < i
    <3>1. j \in 1..(Len(q) - 1)
      BY <1>1, <2>1
    <3> QED
      BY <1>2, <2>1, <3>1 DEF ToSet
  <2>2. CASE ~(j < i)
    <3>1. j - 1 \in 1..(Len(q) - 1) /\ ~(j - 1 < i) /\ (j - 1) + 1 = j
      BY <1>1, <2>2
    <3> QED
      BY <1>2, <3>1 DEF ToSet
  <2> QED
    BY <2>1, <2>2
<1>5. r \in Seq(ToSet(r))
  <2>1. \A j \in 1..Len(r) : r[j] \in ToSet(r)
    BY <1>2 DEF ToSet
  <2> HIDE DEF ToSet
  <2> QED
    BY <1>2, <2>1
<1>6. Len(q) <= 1 => r = <<>>
  BY <1>1, <1>2
<1> QED
  BY <1>3, <1>4, <1>5, <1>6

Cut(r, q, i) == r = SubSeq(q, 1, i - 1) \o SubSeq(q, i + 1, Len(q))

LEMMA Dropped ==
  ASSUME NEW R, NEW q \in Seq(R), NEW i \in 1..Len(q), NEW r, Cut(r, q, i)
  PROVE  /\ r \in Seq(ToSet(r))
         /\ ToSet(r) \subseteq ToSet(q) /\ ToSet(q) \subseteq ToSet(r) \cup {q[i]}
         /\ Len(q) <= 1 => r = <<>>
<1>1. /\ Len(q) \in Nat /\ i \in Nat /\ DOMAIN q = 1..Len(q) /\ i >= 1 /\ i <= Len(q)
      /\ \A j \in 1..Len(q) : q[j] \in R
  OBVIOUS
<1>2. ASSUME NEW a, NEW b, a = SubSeq(q, 1, i - 1), b = SubSeq(q, i + 1, Len(q))
      PROVE  /\ a \o b \in Seq(R) /\ Len(a \o b) = Len(q) - 1
             /\ \A j \in 1..(Len(q) - 1) : (a \o b)[j] = IF j < i THEN q[j] ELSE q[j + 1]
  <2>1. /\ a \in Seq(R) /\ Len(a) = i - 1 /\ \A j \in 1..(i - 1) : a[j] = q[j]
    <3>1. \A j \in 1..(i - 1) : j \in 1..Len(q)
      BY <1>1
    <3> QED
      BY <1>1, <1>2, <3>1, SubSeqProperties
  <2>2. /\ b \in Seq(R) /\ Len(b) = Len(q) - i /\ \A j \in 1..(Len(q) - i) : b[j] = q[i + j]
    <3>1. PICK m : m = i + 1 /\ m \in Int
      BY <1>1
    <3>2. PICK n : n = Len(q) /\ n \in Int
      BY <1>1
    <3>3. \A j \in m..n : q[j] \in R
      BY <1>1, <3>1, <3>2
    <3>4. /\ SubSeq(q, m, n) \in Seq(R) /\ Len(SubSeq(q, m, n)) = IF m <= n THEN n - m + 1 ELSE 0
          /\ \A j \in 1..(n - m + 1) : SubSeq(q, m, n)[j] = q[m + j - 1]
      BY <3>1, <3>2, <3>3, SubSeqProperties
    <3>5. i <= n /\ i \in Int
      BY <1>1, <3>2
    <3>6. n - m + 1 = n - i /\ (IF m <= n THEN n - m + 1 ELSE 0) = n - i
      BY <3>1, <3>2, <3>5
    <3>7. \A j \in 1..(n - i) : m + j - 1 = i + j
      BY <3>1, <3>5
    <3> QED
      BY <1>2, <3>1, <3>2, <3>4, <3>6, <3>7
  <2>3. /\ a \o b \in Seq(R) /\ Len(a \o b) = Len(a) + Len(b)
        /\ \A j \in 1..(Len(a) + Len(b)) : (a \o b)[j] = IF j <= Len(a) THEN a[j] ELSE b[j - Len(a)]
    BY <2>1, <2>2, ConcatProperties
  <2>4. Len(a) + Len(b) = Len(q) - 1
    BY <1>1, <2>1, <2>2
  <2>5. ASSUME NEW j \in 1..(Len(q) - 1) PROVE (a \o b)[j] = IF j < i THEN q[j] ELSE q[j + 1]
    <3>1. (a \o b)[j] = IF j <= i - 1 THEN a[j] ELSE b[j - (i - 1)]
      BY <2>1, <2>3, <2>4
    <3>2. CASE j < i
      <4>1. j \in 1..(i - 1)
        BY <1>1, <3>2
      <4>2. j <= i - 1
        BY <4>1
      <4> QED
        BY <2>1, <3>1, <3>2, <4>1, <4>2
    <3>3. CASE ~(j < i)
      <4>1. j - (i - 1) \in 1..(Len(q) - i) /\ i + (j - (i - 1)) = j + 1 /\ ~(j <= i - 1)
        BY <1>1, <3>3
      <4> QED
        BY <2>2, <3>1, <3>3, <4>1
    <3> QED
      BY <3>2, <3>3
  <2> QED
    BY <2>3, <2>4, <2>5
<1>3. r \in Seq(R) /\ Skips(r, q, i)
  BY <1>2 DEF Cut, Skips
<1> QED
  BY <1>3, WithoutOne

\* The list l after the answer to g, with the GETs q still out.
CatAnswered(l, g, q, ok) ==
  /\ DOMAIN l = CatFields /\ l.gets = q /\ l.id = cat.id /\ l.filter = cat.filter
  /\ catalogue = "categories" /\ ok =>
       l.all = saved /\ l.rows = Slice(cat.filter.page, saved) /\ l.total = Len(saved)
  /\ catalogue # "categories" \/ ~ok => l.all = cat.all
  /\ catalogue # "categories" /\ ok /\ (catalogue = "contents" => g.id = cat.id) =>
       /\ l.rows = Slice(g.filter.page, Matching(g.filter.query, saved))
       /\ l.total = Len(Matching(g.filter.query, saved))
  /\ ~ok \/ (catalogue = "contents" /\ g.id # cat.id) =>
       l.rows = cat.rows /\ l.total = cat.total

SameAs(l) ==
  /\ DOMAIN cat' = CatFields /\ cat'.all = l.all /\ cat'.rows = l.rows /\ cat'.total = l.total
  /\ cat'.filter = l.filter /\ cat'.gets = l.gets /\ cat'.id = l.id

TurnsBack(l) ==
  /\ DOMAIN cat' = CatFields /\ cat'.all = l.all /\ cat'.rows = l.rows /\ cat'.total = l.total
  /\ cat'.filter = [l.filter EXCEPT !.page = pageCount(l)] /\ cat'.id = l.id + 1
  /\ cat'.gets = Append(l.gets, [id |-> l.id + 1,
                                 filter |-> [l.filter EXCEPT !.page = pageCount(l)],
                                 after |-> "close", ids |-> {}])

LEMMA AnswerIs ==
  ASSUME CatInv, NEW i \in DOMAIN cat.gets, NEW ok \in BOOLEAN, CatalogAnswer(i, ok)
  PROVE  \E l, g, q :
           /\ g = cat.gets[i]
           /\ Cut(q, cat.gets, i)
           /\ CatAnswered(l, g, q, ok)
           /\ \/ SameAs(l) /\ (g.after = "delete" => ~(l.filter.page > pageCount(l)))
              \/ g.after = "delete" /\ TurnsBack(l)
<1>1. PICK g, q : /\ g = cat.gets[i]
                  /\ q = SubSeq(cat.gets, 1, i - 1) \o SubSeq(cat.gets, i + 1, Len(cat.gets))
  OBVIOUS
<1>12. Cut(q, cat.gets, i)
  BY <1>1 DEF Cut
<1>2. PICK rest : rest = [cat EXCEPT !.gets = q]
  OBVIOUS
<1>3. /\ DOMAIN rest = CatFields /\ rest.gets = q /\ rest.id = cat.id /\ rest.filter = cat.filter
      /\ rest.all = cat.all /\ rest.rows = cat.rows /\ rest.total = cat.total
  BY <1>2, CatIsRecord DEF CatFields
<1>4. PICK l : l = IF ok THEN answered(rest, g) ELSE notAnswered(rest, g)
  OBVIOUS
<1>5. cat' = IF g.after = "delete" /\ l.filter.page > pageCount(l)
             THEN loadPage([l EXCEPT !.filter.page = pageCount(l)], "close", {})
             ELSE goesOn(l, g)
  BY <1>1, <1>2, <1>4 DEF CatalogAnswer
<1>6. CatAnswered(l, g, q, ok)
  <2>1. catalogue \in Pages
    BY DEF CatInv, CatShape
  <2>2. CASE ~ok
    <3>1. l = rest \/ l = [rest EXCEPT !.loading = FALSE]
      BY <1>4, <2>2 DEF notAnswered
    <3> QED
      BY <1>3, <2>2, <3>1 DEF CatAnswered, CatFields
  <2>3. CASE ok /\ catalogue = "categories"
    <3>1. l = [applyFilter(rest, saved) EXCEPT !.loading = FALSE]
      BY <1>4, <2>3 DEF answered, categoriesAnswered
    <3> QED
      BY <1>3, <2>3, <3>1 DEF CatAnswered, CatFields, applyFilter
  <2>4. CASE ok /\ catalogue # "categories"
    <3>1. CASE catalogue = "contents" => g.id = cat.id
      <4>1. l = served(rest, g.filter)
        BY <1>3, <1>4, <2>1, <2>4, <3>1 DEF answered, assistantsAnswered, contentsAnswered, tagsAnswered, Pages
      <4> QED
        BY <1>3, <2>4, <3>1, <4>1 DEF CatAnswered, CatFields, served
    <3>2. CASE catalogue = "contents" /\ g.id # cat.id
      <4>1. l = rest
        BY <1>3, <1>4, <2>4, <3>2 DEF answered, contentsAnswered
      <4> QED
        BY <1>3, <2>4, <3>2, <4>1 DEF CatAnswered
    <3> QED
      BY <3>1, <3>2
  <2> QED
    BY <2>2, <2>3, <2>4
<1>7. DOMAIN l = CatFields
  BY <1>6 DEF CatAnswered
<1>8. CASE g.after = "delete" /\ l.filter.page > pageCount(l)
  <2>1. PICK m : m = [l EXCEPT !.filter.page = pageCount(l)]
    OBVIOUS
  <2>2. /\ DOMAIN m = CatFields /\ m.all = l.all /\ m.rows = l.rows /\ m.total = l.total
        /\ m.filter = [l.filter EXCEPT !.page = pageCount(l)] /\ m.id = l.id /\ m.gets = l.gets
    BY <1>7, <2>1 DEF CatFields
  <2>3. cat' = loadPage(m, "close", {})
    BY <1>5, <1>8, <2>1
  <2>4. TurnsBack(l)
    <3>1. PICK none : none = {}
      OBVIOUS
    <3>2. cat' = loadPage(m, "close", none)
      BY <2>3, <3>1
    <3>3. /\ DOMAIN cat' = CatFields /\ cat'.all = m.all /\ cat'.rows = m.rows /\ cat'.total = m.total
          /\ cat'.filter = m.filter /\ cat'.id = m.id + 1
          /\ cat'.gets = Append(m.gets, [id |-> m.id + 1, filter |-> m.filter,
                                         after |-> "close", ids |-> none])
      BY <2>2, <3>2, LoadedPage
    <3> QED
      BY <2>2, <3>1, <3>3 DEF TurnsBack
  <2> QED
    BY <1>1, <1>12, <1>6, <1>8, <2>4
<1>9. CASE ~(g.after = "delete" /\ l.filter.page > pageCount(l))
  <2>1. \/ \E x : cat' = [l EXCEPT !.form = x]
        \/ \E x : cat' = [l EXCEPT !.chosen = x]
        \/ cat' = l
    BY <1>5, <1>9 DEF goesOn
  <2>2. SameAs(l)
    BY <1>7, <2>1 DEF SameAs, CatFields
  <2> QED
    BY <1>1, <1>12, <1>6, <1>9, <2>2
<1> QED
  BY <1>8, <1>9

\* The list after an answer: of the right kind, and what it should be.
AnswerFacts(l, g, q, ok) ==
  /\ g \in OnItsWay /\ g.filter \in PageTurns
  /\ q \in Seq(ToSet(q)) /\ ToSet(q) \subseteq OnItsWay /\ OnItsWay \subseteq ToSet(q) \cup {g}
  /\ l.all \in Seq(CatRows) /\ l.rows \in Seq(CatRows)
  /\ catalogue = "contents" => l.total \in Nat
  /\ (~overlap /\ ok) => /\ q = <<>> /\ g.id = cat.id /\ OnItsWay = {g}
                         /\ catalogue # "categories" => g.filter = cat.filter

LEMMA AnsweredWell ==
  ASSUME CatInv, NEW i \in DOMAIN cat.gets, NEW ok \in BOOLEAN, NEW l, NEW g, NEW q,
         g = cat.gets[i],
         Cut(q, cat.gets, i),
         CatAnswered(l, g, q, ok)
  PROVE  AnswerFacts(l, g, q, ok)
<1>1. /\ cat.gets \in Seq(OnItsWay) /\ cat.all \in Seq(CatRows) /\ cat.rows \in Seq(CatRows)
      /\ saved \in Seq(CatRows) /\ IsInjective(saved) /\ cat.filter \in PageTurns
      /\ (catalogue = "contents" => cat.total \in Nat)
      /\ \A h \in OnItsWay : h.filter \in PageTurns
  BY DEF CatInv, CatShape, NoRepeats
<1>2. i \in 1..Len(cat.gets) /\ g \in OnItsWay
  BY <1>1 DEF OnItsWay, ToSet
<1>3. /\ q \in Seq(ToSet(q)) /\ ToSet(q) \subseteq OnItsWay /\ OnItsWay \subseteq ToSet(q) \cup {g}
      /\ (Len(cat.gets) <= 1 => q = <<>>)
  <2>1. PICK gs : gs = cat.gets
    OBVIOUS
  <2>2. gs \in Seq(ToSet(gs)) /\ i \in 1..Len(gs) /\ g = gs[i] /\ OnItsWay = ToSet(gs)
    BY <1>1, <1>2, <2>1 DEF OnItsWay
  <2>3. Cut(q, gs, i)
    BY <2>1
  <2> QED
    BY <2>1, <2>2, <2>3, Dropped
<1>4. g.filter.page \in Nat \ {0} /\ cat.filter.page \in Nat \ {0}
  BY <1>1, <1>2 DEF PageTurns
<1>5. \A query : /\ Matching(query, saved) \in Seq(CatRows)
                 /\ Len(Matching(query, saved)) \in Nat
  <2> TAKE query
  <2>1. Matching(query, saved) \in Seq(CatRows)
    BY <1>1, MatchingIs
  <2> QED
    BY <2>1
<1>6. \A query, p : p \in Nat \ {0} => /\ Slice(p, Matching(query, saved)) \in Seq(CatRows)
                                       /\ Slice(p, saved) \in Seq(CatRows)
  BY <1>1, <1>5, SliceIs
<1>7. l.all \in Seq(CatRows) /\ l.rows \in Seq(CatRows) /\ (catalogue = "contents" => l.total \in Nat)
  BY <1>1, <1>4, <1>5, <1>6 DEF CatAnswered
<1>8. ASSUME ~overlap, ok PROVE /\ q = <<>> /\ g.id = cat.id /\ OnItsWay = {g}
                                /\ catalogue # "categories" => g.filter = cat.filter
  <2>1. /\ Len(cat.gets) <= 1 /\ g.id = cat.id
        /\ catalogue # "categories" => g.filter = cat.filter
    BY <1>2, <1>8 DEF CatInv, Calm
  <2>2. ToSet(<<>>) = {}
    BY DEF ToSet
  <2> QED
    BY <1>2, <1>3, <2>1, <2>2
<1> QED
  BY <1>1, <1>2, <1>3, <1>7, <1>8 DEF AnswerFacts

\* The rows and the total of an answer are what the service listed.
LEMMA ListedRows ==
  ASSUME CatInv, NEW query, NEW p \in Nat \ {0}
  PROVE  /\ ToSet(Slice(p, Matching(query, saved))) \subseteq ToSet(saved)
         /\ Len(Matching(query, saved)) \in Nat
<1>1. saved \in Seq(CatRows)
  BY DEF CatInv, CatShape, NoRepeats
<1>2. Matching(query, saved) \in Seq(CatRows) /\ ToSet(Matching(query, saved)) \subseteq ToSet(saved)
  BY <1>1, MatchingIs
<1>3. ToSet(Slice(p, Matching(query, saved))) \subseteq ToSet(Matching(query, saved))
  BY <1>2, SliceIs
<1>4. Len(Matching(query, saved)) \in Nat
  BY <1>2
<1> QED
  BY <1>2, <1>3, <1>4

AnswerFrame(g, ok) ==
  /\ UNCHANGED <<catalogue, work, saved>>
  /\ current' = IF g.id = cat.id THEN ok ELSE current
  /\ overlap' = (overlap \/ ~ok)

LEMMA AnswerInFrame ==
  ASSUME CatInv, NEW g, NEW ok \in BOOLEAN, AnswerFrame(g, ok)
  PROVE  /\ WorkKept /\ Gone' = Gone /\ NoRepeats(saved') /\ catalogue' \in Pages
         /\ ~overlap' => ~overlap /\ ok /\ current
<1>1. UNCHANGED <<catalogue, saved, work>> /\ (~overlap' => ~overlap)
  BY DEF AnswerFrame
<1>2. WorkKept /\ Gone' = Gone
  BY <1>1, WorkStays
<1>3. NoRepeats(saved') /\ catalogue' \in Pages
  BY <1>1 DEF CatInv, CatShape, NoRepeats
<1> QED
  BY <1>2, <1>3 DEF AnswerFrame, CatInv, Calm

LEMMA ShownKeeps ==
  ASSUME CatInv, NEW ok \in BOOLEAN, NEW l, NEW g, NEW q, CatAnswered(l, g, q, ok),
         AnswerFacts(l, g, q, ok), AnswerFrame(g, ok), SameAs(l),
         g.after = "delete" => ~(l.filter.page > pageCount(l))
  PROVE  CatInv'
<1>1. OnItsWay' = ToSet(q) /\ cat'.gets = q
  BY DEF OnItsWay, SameAs, CatAnswered
<1>2. /\ WorkKept /\ Gone' = Gone /\ NoRepeats(saved') /\ catalogue' \in Pages
      /\ ~overlap' => ~overlap /\ ok /\ current
  BY AnswerInFrame
<1>3. ~overlap' => /\ q = <<>> /\ g.id = cat.id /\ OnItsWay = {g} /\ ToSet(q) = {}
                   /\ catalogue # "categories" => g.filter = cat.filter
  <2>1. ToSet(<<>>) = {}
    BY DEF ToSet
  <2> QED
    BY <1>2, <2>1 DEF AnswerFacts
<1>4. cat'.id = cat.id /\ cat'.filter = cat.filter /\ DOMAIN cat' = CatFields
  BY DEF SameAs, CatAnswered
<1>5. CatShape'
  <2>1. cat'.all \in Seq(CatRows) /\ cat'.rows \in Seq(CatRows) /\ (catalogue' = "contents" => cat'.total \in Nat)
    BY DEF SameAs, AnswerFacts, AnswerFrame
  <2>2. \A h \in OnItsWay' : /\ h.filter \in PageTurns /\ h.id \in Nat /\ h.id <= cat'.id
                             /\ h.after = "delete" => catalogue' = "contents"
    BY <1>1, <1>4 DEF CatInv, CatShape, AnswerFacts, AnswerFrame
  <2>3. cat'.gets \in Seq(OnItsWay')
    BY <1>1 DEF AnswerFacts
  <2> QED
    BY <1>2, <1>4, <2>1, <2>2, <2>3, CatIsRecord DEF CatShape, WorkKept
<1>6. Latest'
  <2> SUFFICES ASSUME catalogue = "contents"
               PROVE  /\ \A h \in OnItsWay' : h.id = cat'.id => h.filter = cat'.filter
                      /\ (current' /\ \A h \in OnItsWay' : h.id # cat'.id) => Served'
    BY DEF Latest, AnswerFrame
  <2>1. \A h \in OnItsWay : h.id = cat.id => h.filter = cat.filter
    BY DEF CatInv, Latest
  <2>2. \A h \in OnItsWay' : h.id = cat'.id => h.filter = cat'.filter
    BY <1>1, <1>4, <2>1 DEF AnswerFacts
  <2>3. ASSUME current', \A h \in OnItsWay' : h.id # cat'.id PROVE Served'
    <3>1. CASE g.id = cat.id
      <4>1. ok /\ g.filter = cat.filter
        BY <2>1, <2>3, <3>1 DEF AnswerFrame, AnswerFacts
      <4> QED
        BY <3>1, <4>1, <1>4 DEF CatAnswered, Served, SameAs, AnswerFrame
    <3>2. CASE g.id # cat.id
      <4>1. current /\ \A h \in OnItsWay : h.id # cat.id
        BY <1>1, <1>4, <2>3, <3>2 DEF AnswerFrame, AnswerFacts
      <4>2. Served
        BY <4>1 DEF CatInv, Latest
      <4> QED
        BY <3>2, <4>2, <1>4 DEF CatAnswered, Served, SameAs, AnswerFrame
    <3> QED
      BY <3>1, <3>2
  <2> QED
    BY <2>2, <2>3
<1>7. Calm'
  <2>1. Len(<<>>) = 0
    OBVIOUS
  <2>2. ~overlap' => current' /\ Len(cat'.gets) <= 1 /\ OnItsWay' = {}
    BY <1>1, <1>2, <1>3, <2>1 DEF AnswerFrame
  <2> QED
    BY <2>2, <1>2 DEF Calm, WorkKept
<1>8. OnPage'
  <2> SUFFICES ASSUME ~overlap', catalogue = "contents"
               PROVE  cat.filter.page <= Least(Len(Matching(cat.filter.query, saved)))
    BY <1>4 DEF OnPage, AnswerFrame
  <2>1. CASE g.after = "delete"
    <3>1. l.total = Len(Matching(cat.filter.query, saved)) /\ l.total \in Nat /\ l.filter = cat.filter
      BY <1>2, <1>3 DEF CatAnswered, AnswerFacts
    <3>2. ~(cat.filter.page > Least(l.total))
      BY <2>1, <3>1, PageCounted
    <3>3. cat.filter.page \in Nat
      BY CatIsRecord DEF PageTurns
    <3>4. PICK n \in Nat : n = l.total
      BY <3>1
    <3>5. Least(n) \in Nat /\ ~(cat.filter.page > Least(n))
      BY <3>2, <3>4 DEF Least
    <3>6. cat.filter.page <= Least(n)
      BY <3>3, <3>5
    <3> QED
      BY <3>1, <3>4, <3>6
  <2>2. CASE g.after # "delete"
    BY <1>2, <1>3, <2>2 DEF CatInv, OnPage
  <2> QED
    BY <2>1, <2>2
<1>9. RowsThere'
  <2> SUFFICES ASSUME ~overlap', catalogue \in {"assistants", "tags"}
               PROVE  /\ ToSet(cat'.rows) \subseteq ToSet(saved)
                      /\ cat'.total = Len(Matching(cat'.filter.query, saved))
    BY DEF RowsThere, AnswerFrame
  <2>1. /\ cat'.rows = Slice(g.filter.page, Matching(g.filter.query, saved))
        /\ cat'.total = Len(Matching(g.filter.query, saved)) /\ g.filter = cat'.filter
    BY <1>2, <1>3, <1>4 DEF CatAnswered, SameAs
  <2>2. g.filter.page \in Nat \ {0}
    BY DEF AnswerFacts, PageTurns
  <2> QED
    BY <2>1, <2>2, ListedRows
<1>10. AllThere'
  <2>1. catalogue = "categories" => cat'.filter.query = "all"
    BY <1>4 DEF CatInv, AllThere
  <2>2. ASSUME catalogue = "categories", ~overlap' PROVE Mirrors'
    <3>1. /\ cat'.all = saved /\ cat'.rows = Slice(cat'.filter.page, saved) /\ cat'.total = Len(saved)
      BY <1>2, <1>4, <2>2 DEF CatAnswered, SameAs
    <3>2. saved' = saved
      BY DEF AnswerFrame
    <3> QED
      BY <1>2, <3>1, <3>2 DEF Mirrors
  <2> QED
    BY <2>1, <2>2 DEF AllThere, AnswerFrame
<1> QED
  BY <1>5, <1>6, <1>7, <1>8, <1>9, <1>10 DEF CatInv

LEMMA TurnedBackKeeps ==
  ASSUME CatInv, NEW ok \in BOOLEAN, NEW l, NEW g, NEW q, CatAnswered(l, g, q, ok),
         AnswerFacts(l, g, q, ok), AnswerFrame(g, ok), TurnsBack(l), g.after = "delete"
  PROVE  CatInv'
<1>1. catalogue = "contents" /\ catalogue' = "contents"
  BY DEF CatInv, CatShape, AnswerFacts, AnswerFrame
<1>2. /\ WorkKept /\ Gone' = Gone /\ NoRepeats(saved') /\ catalogue' \in Pages
      /\ ~overlap' => ~overlap /\ ok /\ current
  BY AnswerInFrame
<1>3. l.total \in Nat /\ pageCount(l) = Least(l.total) /\ pageCount(l) \in Nat \ {0}
  BY <1>1, PageCounted DEF AnswerFacts
<1>4. PICK f : f = [cat.filter EXCEPT !.page = pageCount(l)]
  OBVIOUS
<1>5. f \in PageTurns /\ f.page = pageCount(l) /\ f.query = cat.filter.query
  BY <1>3, <1>4, CatIsRecord DEF PageTurns
<1>6. PICK none : none = {}
  OBVIOUS
<1>7. PICK h : h = [id |-> cat.id + 1, filter |-> f, after |-> "close", ids |-> none]
  OBVIOUS
<1>8. h.id = cat.id + 1 /\ h.filter = f /\ h.after # "delete"
  BY <1>7
<1>9. /\ DOMAIN cat' = CatFields /\ cat'.all = l.all /\ cat'.rows = l.rows /\ cat'.total = l.total
      /\ cat'.filter = f /\ cat'.id = cat.id + 1 /\ cat'.gets = Append(q, h)
  BY <1>4, <1>6, <1>7 DEF TurnsBack, CatAnswered
<1>10. /\ OnItsWay' = ToSet(q) \cup {h} /\ cat'.gets \in Seq(OnItsWay')
       /\ Len(cat'.gets) = Len(q) + 1 /\ (q = <<>> => OnItsWay' = {h})
  <2>1. q \in Seq(ToSet(q))
    BY DEF AnswerFacts
  <2> QED
    BY <1>9, <2>1, Appended DEF OnItsWay
<1>11. /\ cat.id \in Nat /\ cat'.id = cat.id + 1
       /\ \A x \in ToSet(q) : x.filter \in PageTurns /\ x.id \in Nat /\ x.id <= cat.id
  <2>1. \A x \in ToSet(q) : x.filter \in PageTurns /\ x.id \in Nat /\ x.id <= cat.id
    BY DEF CatInv, CatShape, AnswerFacts
  <2> QED
    BY <1>9, <2>1, CatIsRecord
<1>12. \A x \in ToSet(q) : x.filter \in PageTurns /\ x.id \in Nat /\ x.id <= cat'.id /\ x.id # cat'.id
  BY <1>11
<1>13. CatShape'
  <2>1. cat'.id \in Nat /\ h.id \in Nat /\ h.id <= cat'.id /\ h.filter \in PageTurns
    BY <1>5, <1>8, <1>11
  <2>2. \A x \in OnItsWay' : /\ x.filter \in PageTurns /\ x.id \in Nat /\ x.id <= cat'.id
                             /\ x.after = "delete" => catalogue' = "contents"
    BY <1>1, <1>10, <1>12, <2>1
  <2> QED
    BY <1>1, <1>2, <1>5, <1>9, <1>10, <2>1, <2>2 DEF CatShape, WorkKept, AnswerFacts
<1>14. Latest'
  <2>1. h \in OnItsWay' /\ h.id = cat'.id
    BY <1>8, <1>9, <1>10
  <2>2. \A x \in OnItsWay' : x.id = cat'.id => x.filter = cat'.filter
    BY <1>8, <1>9, <1>10, <1>12
  <2> QED
    BY <2>1, <2>2 DEF Latest
<1>15. ~overlap' => /\ q = <<>> /\ g.id = cat.id /\ g.filter = cat.filter
  BY <1>1, <1>2 DEF AnswerFacts
<1>16. Calm'
  <2>1. Len(<<>>) = 0
    OBVIOUS
  <2>2. ~overlap' => /\ current' /\ Len(cat'.gets) <= 1
                     /\ \A x \in OnItsWay' : x.id = cat'.id /\ x.filter = cat'.filter
    BY <1>2, <1>8, <1>9, <1>10, <1>15, <2>1 DEF AnswerFrame
  <2> QED
    BY <2>2, <1>2 DEF Calm, WorkKept
<1>17. OnPage'
  <2>1. ASSUME ~overlap' PROVE f.page <= Least(Len(Matching(f.query, saved)))
    <3>1. l.total = Len(Matching(f.query, saved))
      BY <1>1, <1>2, <1>5, <1>15, <2>1 DEF CatAnswered
    <3>2. f.page = Least(Len(Matching(f.query, saved))) /\ f.page \in Nat
      BY <1>3, <1>5, <3>1
    <3> QED
      BY <3>2
  <2> QED
    BY <1>9, <2>1 DEF OnPage, AnswerFrame
<1>18. RowsThere' /\ AllThere'
  BY <1>1 DEF RowsThere, AllThere
<1> QED
  BY <1>13, <1>14, <1>16, <1>17, <1>18 DEF CatInv

LEMMA AnswerKeeps ==
  ASSUME CatInv, NEW i \in DOMAIN cat.gets, NEW ok \in BOOLEAN, CatalogAnswer(i, ok)
  PROVE  CatInv'
<1>1. PICK l, g, q :
        /\ g = cat.gets[i] /\ Cut(q, cat.gets, i) /\ CatAnswered(l, g, q, ok)
        /\ \/ SameAs(l) /\ (g.after = "delete" => ~(l.filter.page > pageCount(l)))
           \/ g.after = "delete" /\ TurnsBack(l)
  BY AnswerIs
<1>2. AnswerFacts(l, g, q, ok)
  BY <1>1, AnsweredWell
<1>3. AnswerFrame(g, ok)
  BY <1>1 DEF AnswerFrame, CatalogAnswer
<1> QED
  BY <1>1, <1>2, <1>3, ShownKeeps, TurnedBackKeeps

----------------------------------------------------------------------------
(* Submissions.                                                            *)

LEMMA Prepended ==
  ASSUME NEW R, NEW q \in Seq(R), NEW x \in R
  PROVE  /\ <<x>> \o q \in Seq(R) /\ ToSet(<<x>> \o q) = ToSet(q) \cup {x}
         /\ IsInjective(q) /\ x \notin ToSet(q) => IsInjective(<<x>> \o q)
<1>1. PICK r : r = <<x>> \o q
  OBVIOUS
<1>2. /\ r \in Seq(R) /\ Len(r) = Len(q) + 1 /\ Len(q) \in Nat /\ r[1] = x
      /\ \A k \in 1..Len(q) : r[k + 1] = q[k]
  BY <1>1
<1>3. DOMAIN r = 1..(Len(q) + 1) /\ DOMAIN q = 1..Len(q)
  BY <1>2
<1>4. \A k \in 1..(Len(q) + 1) : k = 1 \/ (k - 1 \in 1..Len(q) /\ r[k] = q[k - 1])
  <2> TAKE k \in 1..(Len(q) + 1)
  <2>1. CASE k # 1
    <3>1. k - 1 \in 1..Len(q) /\ (k - 1) + 1 = k
      BY <1>2, <2>1
    <3>2. r[(k - 1) + 1] = q[k - 1]
      BY <1>2, <3>1
    <3> QED
      BY <3>1, <3>2
  <2> QED
    BY <2>1
<1>5. ToSet(r) = ToSet(q) \cup {x}
  <2>1. ASSUME NEW k \in 1..(Len(q) + 1) PROVE r[k] \in ToSet(q) \cup {x}
    BY <1>2, <1>3, <1>4 DEF ToSet
  <2>2. ASSUME NEW k \in 1..Len(q) PROVE q[k] \in ToSet(r)
    <3>1. k + 1 \in 1..(Len(q) + 1)
      BY <1>2
    <3> QED
      BY <1>2, <1>3, <3>1 DEF ToSet
  <2>3. x \in ToSet(r)
    <3>1. 1 \in 1..(Len(q) + 1)
      BY <1>2
    <3> QED
      BY <1>2, <1>3, <3>1 DEF ToSet
  <2>4. ToSet(r) \subseteq ToSet(q) \cup {x}
    BY <1>3, <2>1 DEF ToSet
  <2>5. ToSet(q) \subseteq ToSet(r)
    BY <1>3, <2>2 DEF ToSet
  <2> QED
    BY <2>3, <2>4, <2>5
<1>6. ASSUME IsInjective(q), x \notin ToSet(q) PROVE IsInjective(r)
  <2> SUFFICES ASSUME NEW k \in 1..(Len(q) + 1), NEW m \in 1..(Len(q) + 1), r[k] = r[m]
               PROVE  k = m
    BY <1>3 DEF IsInjective
  <2>1. \A n \in 1..Len(q) : q[n] # x
    BY <1>3, <1>6 DEF ToSet
  <2>2. CASE k = 1 \/ m = 1
    BY <1>2, <1>4, <2>1, <2>2
  <2>3. CASE k # 1 /\ m # 1
    <3>1. k - 1 = m - 1
      <4>1. k - 1 \in DOMAIN q /\ m - 1 \in DOMAIN q /\ q[k - 1] = q[m - 1]
        BY <1>3, <1>4, <2>3
      <4> QED
        BY <1>6, <4>1 DEF IsInjective
    <3> QED
      BY <3>1
  <2> QED
    BY <2>2, <2>3
<1> QED
  BY <1>1, <1>2, <1>5, <1>6

\* A submission j has ended; as long as nothing crossed it was alone.
EndOf(j) ==
  /\ work' = work \ {j} /\ UNCHANGED <<catalogue, current>>
  /\ ~overlap' => ~overlap /\ cat.gets = <<>> /\ work = {j}

LEMMA EndIs ==
  ASSUME NEW j, NEW l, Ends(j, l, Crossing(j)) \/ Ends(j, l, Crossing(j) \/ cat.editing # RowOf(j))
  PROVE  EndOf(j) /\ cat' = l
  BY DEF Ends, Crossing, EndOf

LEMMA EndKept ==
  ASSUME CatInv, NEW j \in work, EndOf(j)
  PROVE  /\ WorkKept
         /\ ~overlap' => ~overlap /\ cat.gets = <<>> /\ Gone' = {} /\ Gone = j.ids \ j.left /\ ~j.failed
<1>1. WorkShape'
  BY DEF CatInv, CatShape, WorkShape, EndOf
<1>2. ~overlap' => /\ ~overlap /\ cat.gets = <<>> /\ Gone' = {} /\ Gone = j.ids \ j.left
                   /\ ~j.failed /\ \A k \in work' : ~k.failed
  BY DEF Gone, EndOf, CatInv, Calm
<1> QED
  BY <1>1, <1>2 DEF WorkKept

LEMMA SavedKept ==
  ASSUME CatInv, NEW j,
         (\E kind : Removed(j, kind)) \/ Created(j) \/ Amended(j) \/ UNCHANGED saved
  PROVE  NoRepeats(saved')
<1>1. saved \in Seq(CatRows) /\ IsInjective(saved) /\ Fresh \in CatRows
  BY DEF CatInv, CatShape, NoRepeats, CatRows
<1>2. CASE Created(j)
  BY <1>1, <1>2, Prepended DEF Created, NoRepeats
<1>3. CASE saved' = Less(saved, j.ids)
  BY <1>1, <1>3, LessIs DEF NoRepeats
<1>4. CASE saved' = saved
  BY <1>1, <1>4 DEF NoRepeats
<1> QED
  BY <1>2, <1>3, <1>4 DEF Removed, Amended

\* A submission that asks for the list again.
LEMMA ReloadKeeps ==
  ASSUME CatInv, NEW j \in work, EndOf(j), NoRepeats(saved'), NEW l, DOMAIN l = CatFields,
         l.all = cat.all, l.rows = cat.rows, l.total = cat.total, l.filter \in PageTurns,
         l.gets = cat.gets, l.id = cat.id,
         NEW after, NEW ids, NEW m, m = loadPage(l, after, ids),
         DOMAIN cat' = DOMAIN m, cat'.all = m.all, cat'.rows = m.rows, cat'.total = m.total,
         cat'.filter = m.filter, cat'.id = m.id, cat'.gets = m.gets,
         after = "delete" => catalogue = "contents",
         catalogue # "categories",
         (catalogue = "contents" /\ after # "delete") => l.filter = cat.filter /\ UNCHANGED saved
  PROVE  CatInv'
<1>1. Loads(l.filter, after)
  <2>1. /\ DOMAIN m = CatFields /\ m.all = l.all /\ m.rows = l.rows /\ m.total = l.total
        /\ m.filter = l.filter /\ m.id = l.id + 1
        /\ m.gets = Append(l.gets, [id |-> l.id + 1, filter |-> l.filter, after |-> after, ids |-> ids])
    BY LoadedPage
  <2> QED
    BY <2>1 DEF Loads
<1>2. WorkKept /\ (~overlap' => ~overlap /\ cat.gets = <<>>)
  BY EndKept
<1>3. (~overlap' /\ catalogue = "contents" /\ after # "delete") =>
        l.filter.page <= Least(Len(Matching(l.filter.query, saved')))
  BY <1>2, PagesThere
<1>4. UNCHANGED <<catalogue, current>>
  BY DEF EndOf
<1> QED
  BY <1>1, <1>2, <1>3, <1>4, KeepsLoad

LEMMA AssistantKeeps ==
  ASSUME CatInv, NEW j \in work, submitAddAssistant(j) \/ submitEditAssistant(j)
  PROVE  CatInv'
<1>1. EndOf(j) /\ cat' = closed(loadItems(cat), j) /\ catalogue = "assistants"
  BY EndIs DEF submitAddAssistant, submitEditAssistant
<1>2. NoRepeats(saved')
  BY SavedKept DEF submitAddAssistant, submitEditAssistant
<1>3. PICK none : none = {}
  OBVIOUS
<1>4. PICK m : m = loadPage(cat, "nothing", none)
  OBVIOUS
<1>5. PICK busy, form : cat' = [m EXCEPT !.busy = busy, !.form = form]
  BY <1>1, <1>3, <1>4 DEF closed, loadItems
<1>6. DOMAIN m = CatFields
  BY <1>4, CatIsRecord, LoadedPage
<1>7. /\ DOMAIN cat' = DOMAIN m /\ cat'.all = m.all /\ cat'.rows = m.rows /\ cat'.total = m.total
      /\ cat'.filter = m.filter /\ cat'.id = m.id /\ cat'.gets = m.gets
  BY <1>5, <1>6 DEF CatFields
<1> QED
  BY <1>1, <1>2, <1>4, <1>7, CatIsRecord, ReloadKeeps

LEMMA ItemKeeps ==
  ASSUME CatInv, NEW j \in work, updateItem(j) \/ deleteItem(j)
  PROVE  CatInv'
<1>1. EndOf(j) /\ catalogue = "contents" /\ NoRepeats(saved')
  BY EndIs, SavedKept DEF updateItem, deleteItem
<1>2. PICK after, ids : /\ cat' = loadPage(cat, after, ids)
                        /\ after # "delete" => UNCHANGED saved
  <2>1. CASE updateItem(j)
    BY <2>1, EndIs DEF updateItem, Amended
  <2>2. CASE deleteItem(j)
    <3>1. PICK after : after = "delete"
      OBVIOUS
    <3>2. cat' = loadPage(cat, after, {})
      BY <2>2, <3>1, EndIs DEF deleteItem
    <3> QED
      BY <3>1, <3>2
  <2> QED
    BY <2>1, <2>2
<1> QED
  BY <1>1, <1>2, CatIsRecord, ReloadKeeps

LEMMA TagKeeps ==
  ASSUME CatInv, NEW j \in work, createTag(j) \/ deleteTag(j) \/ deleteTags(j)
  PROVE  CatInv'
<1>1. EndOf(j) /\ catalogue = "tags" /\ NoRepeats(saved')
  BY EndIs, SavedKept DEF createTag, deleteTag, deleteTags
<1>2. PICK l, after, ids :
        /\ cat' = loadPage(l, after, ids) /\ after # "delete"
        /\ l = cat \/ l = [cat EXCEPT !.filter.page = 1]
  <2>1. CASE createTag(j)
    <3>1. cat' = loadPage([cat EXCEPT !.filter.page = 1], "close", {})
      BY <2>1, EndIs DEF createTag
    <3> QED
      BY <3>1
  <2>2. CASE deleteTag(j)
    <3>1. cat' = loadPage(cat, "drop", j.ids)
      BY <2>2, EndIs DEF deleteTag
    <3> QED
      BY <3>1
  <2>3. CASE deleteTags(j)
    <3>1. cat' = loadPage(cat, "dropAll", {})
      BY <2>3, EndIs DEF deleteTags
    <3> QED
      BY <3>1
  <2> QED
    BY <2>1, <2>2, <2>3
<1>3. /\ DOMAIN l = CatFields /\ l.all = cat.all /\ l.rows = cat.rows /\ l.total = cat.total
      /\ l.filter \in PageTurns /\ l.gets = cat.gets /\ l.id = cat.id
  BY <1>2, CatIsRecord DEF CatFields, PageTurns
<1> QED
  BY <1>1, <1>2, <1>3, ReloadKeeps

\* What leaves the rows as they are.
LEMMA PlainEnd ==
  ASSUME CatInv, NEW j \in work, updateTag(j) \/ (submitDeleteMany(j) /\ j.failed)
  PROVE  CatInv'
<1>1. SameList /\ UNCHANGED <<catalogue, saved, current>> /\ work' = work \ {j}
  <2>1. CASE updateTag(j)
    <3>1. cat' = [cat EXCEPT !.form = FormClosed] /\ EndOf(j)
      BY <2>1, EndIs DEF updateTag
    <3> QED
      BY <2>1, <3>1, CatIsRecord DEF updateTag, Amended, EndOf, SameList, CatFields
  <2>2. CASE submitDeleteMany(j) /\ j.failed
    <3>1. Ends(j, cat, FALSE) /\ UNCHANGED saved
      BY <2>2 DEF submitDeleteMany
    <3> QED
      BY <3>1, CatIsRecord DEF Ends, SameList
  <2> QED
    BY <2>1, <2>2
<1>2. WorkKept /\ (~overlap' => Gone' = Gone)
  <2>1. CASE updateTag(j)
    <3>1. EndOf(j) /\ j.left = j.ids
      BY <2>1, EndIs DEF updateTag, Amended, CatInv, CatShape, WorkShape
    <3> QED
      BY <3>1, EndKept
  <2>2. CASE submitDeleteMany(j) /\ j.failed
    <3>1. overlap'
      BY <2>2 DEF submitDeleteMany, Ends, CatInv, Calm
    <3>2. WorkShape'
      BY <1>1 DEF CatInv, CatShape, WorkShape
    <3> QED
      BY <3>1, <3>2 DEF WorkKept
  <2> QED
    BY <2>1, <2>2
<1> QED
  BY <1>1, <1>2, KeepsList

LEMMA RefusedKeeps ==
  ASSUME CatInv, NEW j \in work, j.kind # "delete" \/ catalogue \in {"contents", "tags"}, Refused(j)
  PROVE  CatInv'
<1>1. PICK busy : Ends(j, [cat EXCEPT !.busy = busy], FALSE) /\ UNCHANGED saved
  BY DEF Refused
<1>2. /\ SameList /\ UNCHANGED <<catalogue, saved, current>> /\ work' = work \ {j}
      /\ (overlap => overlap')
  BY <1>1, CatIsRecord DEF Ends, SameList, CatFields
<1>3. j.left = j.ids
  BY DEF CatInv, CatShape, WorkShape
<1>4. Gone' = Gone
  BY <1>2, <1>3 DEF Gone
<1>5. WorkShape'
  BY <1>2 DEF CatInv, CatShape, WorkShape
<1>6. WorkKept
  BY <1>2, <1>4, <1>5 DEF WorkKept, CatInv, Calm
<1> QED
  BY <1>2, <1>4, <1>6, KeepsList

\* One deletion of several.
LEMMA DeleteOneKeeps ==
  ASSUME CatInv, NEW j \in work, deleteOne(j)
  PROVE  CatInv'
<1>1. PICK r \in j.left, ok \in BOOLEAN :
        /\ saved' = IF ok THEN Less(saved, {r}) ELSE saved
        /\ work' = (work \ {j}) \cup {[j EXCEPT !.left = @ \ {r}, !.failed = @ \/ ~ok]}
        /\ overlap' = (overlap \/ ~ok)
  BY DEF deleteOne
<1>2. /\ j.kind = "delete" /\ catalogue \in {"assistants", "categories"}
      /\ UNCHANGED <<catalogue, cat, current>>
  BY DEF deleteOne
<1>3. DOMAIN j = WorkFields /\ j.left \subseteq j.ids
  BY DEF CatInv, CatShape, WorkShape
<1>4. PICK left, failed : left = j.left \ {r} /\ failed = (j.failed \/ ~ok)
  OBVIOUS
<1>5. PICK k : k = [j EXCEPT !.left = left, !.failed = failed]
  OBVIOUS
<1>6. k = [j EXCEPT !.left = @ \ {r}, !.failed = @ \/ ~ok]
  BY <1>3, <1>4, <1>5
<1>7. /\ work' = (work \ {j}) \cup {k} /\ DOMAIN k = WorkFields /\ k.kind = "delete"
      /\ k.ids = j.ids /\ k.left = j.left \ {r} /\ k.failed = failed
  BY <1>1, <1>2, <1>3, <1>4, <1>5, <1>6 DEF WorkFields
<1>8. saved \in Seq(CatRows) /\ IsInjective(saved)
  BY DEF CatInv, CatShape, NoRepeats
<1>9. /\ NoRepeats(saved') /\ ToSet(saved') \subseteq ToSet(saved)
      /\ ToSet(saved) \subseteq ToSet(saved') \cup {r} /\ (ok => r \notin ToSet(saved'))
  <2>1. CASE ok
    <3>1. PICK one : one = {r}
      OBVIOUS
    <3>2. saved' = Less(saved, one)
      BY <1>1, <2>1, <3>1
    <3> QED
      BY <1>8, <3>1, <3>2, LessIs DEF NoRepeats
  <2>2. CASE ~ok
    BY <1>1, <1>8, <2>2 DEF NoRepeats
  <2> QED
    BY <2>1, <2>2
<1>10. Gone \subseteq Gone' /\ Gone' \subseteq Gone \cup {r} /\ r \in Gone'
  <2>1. \A x \in Gone : x \in Gone'
    BY <1>7 DEF Gone
  <2>2. \A x \in Gone' : x \in Gone \/ x = r
    BY <1>7 DEF Gone
  <2>3. r \in k.ids \ k.left /\ k \in work'
    BY <1>3, <1>7
  <2> QED
    BY <2>1, <2>2, <2>3 DEF Gone
<1>11. WorkShape'
  BY <1>2, <1>3, <1>7 DEF CatInv, CatShape, WorkShape
<1>12. WorkKept
  <2>1. ~overlap' => ~overlap /\ ok /\ \A h \in work : ~h.failed
    BY <1>1 DEF CatInv, Calm
  <2>2. ~overlap' => \A h \in work' : ~h.failed
    BY <1>4, <1>7, <2>1
  <2>3. ~overlap' => Gone' \cap ToSet(saved') = {}
    BY <1>9, <1>10, <2>1 DEF CatInv, Calm
  <2> QED
    BY <1>11, <2>1, <2>2, <2>3 DEF WorkKept
<1>13. ToSet(saved) \cup Gone \subseteq ToSet(saved') \cup Gone'
  BY <1>9, <1>10
<1>14. cat.rows \in Seq(CatRows)
  BY DEF CatInv, CatShape
<1>15. (~overlap' /\ catalogue = "assistants" /\ cat.gets = <<>>) =>
         ToSet(cat.rows) \subseteq ToSet(saved') \cup Gone'
  BY <1>12, <1>13 DEF CatInv, RowsThere, WorkKept
<1> QED
  BY <1>2, <1>9, <1>12, <1>13, <1>14, <1>15, CatIsRecord, KeepsRows

\* All of them are gone.
LEMMA DeletedManyKeeps ==
  ASSUME CatInv, NEW j \in work, submitDeleteMany(j), ~j.failed
  PROVE  CatInv'
<1>1. /\ EndOf(j) /\ UNCHANGED saved /\ j.left = {} /\ catalogue \in {"assistants", "categories"}
      /\ cat' = closed([removeMany(cat, j.ids) EXCEPT !.chosen = @ \ j.ids], j)
  BY EndIs DEF submitDeleteMany
<1>2. NoRepeats(saved')
  BY <1>1 DEF CatInv, CatShape, NoRepeats
<1>3. /\ WorkKept /\ UNCHANGED <<catalogue, current>>
      /\ ~overlap' => /\ ~overlap /\ cat.gets = <<>> /\ Gone' = {} /\ Gone = j.ids
                      /\ Gone \cap ToSet(saved) = {}
  BY <1>1, EndKept DEF EndOf, CatInv, Calm
<1>4. cat.all \in Seq(CatRows) /\ cat.rows \in Seq(CatRows)
  BY DEF CatInv, CatShape
<1>5. PICK m, chosen, busy, form :
        m = removeMany(cat, j.ids) /\ cat' = [m EXCEPT !.chosen = chosen, !.busy = busy, !.form = form]
  <2>1. PICK m : m = removeMany(cat, j.ids)
    OBVIOUS
  <2>2. PICK chosen : chosen = m.chosen \ j.ids
    OBVIOUS
  <2>3. PICK l : l = [m EXCEPT !.chosen = chosen]
    OBVIOUS
  <2>4. cat' = closed(l, j)
    BY <1>1, <2>1, <2>2, <2>3
  <2>5. PICK busy, form : cat' = [l EXCEPT !.busy = busy, !.form = form]
    BY <2>4 DEF closed
  <2>6. DOMAIN m = CatFields
    BY <2>1, CatIsRecord DEF removeMany, applyFilter, CatFields
  <2>7. cat' = [m EXCEPT !.chosen = chosen, !.busy = busy, !.form = form]
    BY <2>3, <2>5, <2>6 DEF CatFields
  <2> QED
    BY <2>1, <2>7
<1>6. CASE catalogue = "categories"
  <2>1. PICK all : all = Less(cat.all, j.ids)
    OBVIOUS
  <2>2. m = applyFilter(cat, all)
    BY <1>5, <1>6, <2>1 DEF removeMany
  <2>3. /\ DOMAIN cat' = CatFields /\ cat'.all = all /\ cat'.rows = Slice(cat.filter.page, all)
        /\ cat'.total = Len(all) /\ cat'.filter = cat.filter /\ cat'.gets = cat.gets /\ cat'.id = cat.id
    BY <1>5, <2>2, CatIsRecord DEF applyFilter, CatFields
  <2>4. /\ all \in Seq(CatRows) /\ ToSet(all) = ToSet(cat.all) \ j.ids
        /\ IsInjective(cat.all) => IsInjective(all)
    BY <1>4, <2>1, LessIs
  <2>5. cat.filter.query = "all"
    BY <1>6 DEF CatInv, AllThere
  <2>6. ~overlap' => /\ NoRepeats(all) /\ ToSet(saved) \subseteq ToSet(all)
                     /\ ToSet(all) \subseteq ToSet(saved)
    BY <1>3, <1>6, <2>4 DEF CatInv, AllThere, Mirrors, NoRepeats
  <2> QED
    BY <1>1, <1>2, <1>3, <1>6, <2>3, <2>4, <2>5, <2>6, CatIsRecord, KeepsMirror
<1>7. CASE catalogue = "assistants"
  <2>1. PICK rows : rows = Less(cat.rows, j.ids)
    OBVIOUS
  <2>2. PICK total : m = [cat EXCEPT !.rows = rows, !.total = total]
    BY <1>5, <1>7, <2>1, CatIsRecord DEF removeMany, CatFields
  <2>3. /\ DOMAIN cat' = CatFields /\ cat'.all = cat.all /\ cat'.rows = rows
        /\ cat'.filter = cat.filter /\ cat'.gets = cat.gets /\ cat'.id = cat.id
    BY <1>5, <2>2, CatIsRecord DEF CatFields
  <2>4. rows \in Seq(CatRows) /\ ToSet(rows) = ToSet(cat.rows) \ j.ids
    BY <1>4, <2>1, LessIs
  <2>5. ~overlap' => ToSet(rows) \subseteq ToSet(saved)
    BY <1>3, <1>7, <2>4 DEF CatInv, RowsThere
  <2> QED
    BY <1>1, <1>2, <1>3, <1>7, <2>3, <2>4, <2>5, KeepsRows
<1> QED
  BY <1>1, <1>6, <1>7

LEMMA ClosedKeeps ==
  ASSUME NEW l, DOMAIN l = CatFields, NEW j, cat' = closed(l, j)
  PROVE  /\ DOMAIN cat' = CatFields /\ cat'.all = l.all /\ cat'.rows = l.rows /\ cat'.total = l.total
         /\ cat'.filter = l.filter /\ cat'.gets = l.gets /\ cat'.id = l.id
<1>1. PICK busy, form : cat' = [l EXCEPT !.busy = busy, !.form = form]
  BY DEF closed
<1> QED
  BY <1>1 DEF CatFields

LEMMA AddCategoryKeeps ==
  ASSUME CatInv, NEW j \in work, submitAddCategory(j)
  PROVE  CatInv'
<1>1. /\ EndOf(j) /\ catalogue = "categories" /\ j.kind = "add"
      /\ Fresh \notin ToSet(saved) /\ saved' = <<Fresh>> \o saved
      /\ cat' = closed(addOne(cat, Fresh), j)
  BY EndIs DEF submitAddCategory, Created
<1>2. NoRepeats(saved')
  BY SavedKept DEF submitAddCategory
<1>3. /\ WorkKept /\ UNCHANGED <<catalogue, current>>
      /\ ~overlap' => ~overlap /\ cat.gets = <<>> /\ Gone' = {} /\ Gone = {}
  <2>1. j.left = j.ids
    BY <1>1 DEF CatInv, CatShape, WorkShape
  <2> QED
    BY <1>1, <2>1, EndKept DEF EndOf
<1>4. PICK all : all = <<Fresh>> \o cat.all
  OBVIOUS
<1>5. PICK m : m = applyFilter(cat, all)
  OBVIOUS
<1>6. /\ DOMAIN m = CatFields /\ m.all = all /\ m.rows = Slice(cat.filter.page, all)
      /\ m.total = Len(all) /\ m.filter = cat.filter /\ m.gets = cat.gets /\ m.id = cat.id
  BY <1>5, CatIsRecord DEF applyFilter, CatFields
<1>7. cat' = closed(m, j)
  BY <1>1, <1>4, <1>5 DEF addOne
<1>8. /\ DOMAIN cat' = CatFields /\ cat'.all = all /\ cat'.rows = Slice(cat.filter.page, all)
      /\ cat'.total = Len(all) /\ cat'.filter = cat.filter /\ cat'.gets = cat.gets /\ cat'.id = cat.id
  BY <1>6, <1>7, ClosedKeeps
<1>9. cat.all \in Seq(CatRows) /\ saved \in Seq(CatRows) /\ Fresh \in CatRows
  BY DEF CatInv, CatShape, NoRepeats, CatRows
<1>10. /\ all \in Seq(CatRows) /\ ToSet(all) = ToSet(cat.all) \cup {Fresh}
       /\ IsInjective(cat.all) /\ Fresh \notin ToSet(cat.all) => IsInjective(all)
  BY <1>4, <1>9, Prepended
<1>11. ToSet(saved') = ToSet(saved) \cup {Fresh}
  BY <1>1, <1>9, Prepended
<1>12. cat.filter.query = "all"
  BY <1>1 DEF CatInv, AllThere
<1>13. ~overlap' => /\ NoRepeats(all) /\ ToSet(saved') \subseteq ToSet(all)
                    /\ ToSet(all) \subseteq ToSet(saved')
  BY <1>1, <1>3, <1>10, <1>11 DEF CatInv, AllThere, Mirrors, NoRepeats
<1> QED
  BY <1>1, <1>2, <1>3, <1>8, <1>10, <1>12, <1>13, CatIsRecord, KeepsMirror

LEMMA EditCategoryKeeps ==
  ASSUME CatInv, NEW j \in work, submitEditCategory(j)
  PROVE  CatInv'
<1>1. /\ EndOf(j) /\ catalogue = "categories" /\ j.kind = "edit"
      /\ RowOf(j) \in ToSet(saved) /\ saved' = saved
      /\ cat' = closed(updateOne(cat, cat.editing, RowOf(j)), j)
      /\ ~overlap' => cat.editing = RowOf(j)
  <2>1. Ends(j, closed(updateOne(cat, cat.editing, RowOf(j)), j), Crossing(j) \/ cat.editing # RowOf(j))
    BY DEF submitEditCategory
  <2>2. EndOf(j) /\ cat' = closed(updateOne(cat, cat.editing, RowOf(j)), j)
    BY <2>1, EndIs
  <2>3. ~overlap' => cat.editing = RowOf(j)
    BY <2>1 DEF Ends
  <2> QED
    BY <2>2, <2>3 DEF submitEditCategory, Amended
<1>2. NoRepeats(saved')
  BY <1>1 DEF CatInv, CatShape, NoRepeats
<1>3. /\ WorkKept /\ UNCHANGED <<catalogue, current>>
      /\ ~overlap' => ~overlap /\ cat.gets = <<>> /\ Gone' = {} /\ Gone = {}
  <2>1. j.left = j.ids
    BY <1>1 DEF CatInv, CatShape, WorkShape
  <2> QED
    BY <1>1, <2>1, EndKept DEF EndOf
<1>4. PICK r, old : r = RowOf(j) /\ old = cat.all
  OBVIOUS
<1>5. r \in CatRows /\ old \in Seq(CatRows)
  BY <1>1, <1>4 DEF CatInv, CatShape, NoRepeats, ToSet
<1>6. PICK all : all = [i \in DOMAIN old |-> IF old[i] = cat.editing THEN r ELSE old[i]]
  OBVIOUS
<1>7. all \in Seq(CatRows)
  <2>1. DOMAIN old = 1..Len(old) /\ Len(old) \in Nat /\ \A i \in 1..Len(old) : old[i] \in CatRows
    BY <1>5
  <2>2. all \in [1..Len(old) -> CatRows]
    BY <1>5, <1>6, <2>1
  <2> QED
    BY <2>1, <2>2
<1>8. cat.editing = r => all = old
  <2>1. old = [i \in DOMAIN old |-> old[i]]
    BY <1>5
  <2> QED
    BY <1>6, <2>1
<1>9. PICK m : m = applyFilter(cat, all)
  OBVIOUS
<1>10. /\ DOMAIN m = CatFields /\ m.all = all /\ m.rows = Slice(cat.filter.page, all)
       /\ m.total = Len(all) /\ m.filter = cat.filter /\ m.gets = cat.gets /\ m.id = cat.id
  BY <1>9, CatIsRecord DEF applyFilter, CatFields
<1>11. cat' = closed(m, j)
  BY <1>1, <1>4, <1>6, <1>9 DEF updateOne
<1>12. /\ DOMAIN cat' = CatFields /\ cat'.all = all /\ cat'.rows = Slice(cat.filter.page, all)
       /\ cat'.total = Len(all) /\ cat'.filter = cat.filter /\ cat'.gets = cat.gets /\ cat'.id = cat.id
  BY <1>10, <1>11, ClosedKeeps
<1>13. cat.filter.query = "all"
  BY <1>1 DEF CatInv, AllThere
<1>14. ~overlap' => /\ NoRepeats(all) /\ ToSet(saved') \subseteq ToSet(all)
                    /\ ToSet(all) \subseteq ToSet(saved')
  BY <1>1, <1>3, <1>4, <1>8 DEF CatInv, AllThere, Mirrors
<1> QED
  BY <1>1, <1>2, <1>3, <1>7, <1>12, <1>13, <1>14, CatIsRecord, KeepsMirror

LEMMA GoesKeeps ==
  ASSUME CatInv, NEW j \in work, Goes(j)
  PROVE  CatInv'
<1>1. \/ submitAddAssistant(j) \/ submitEditAssistant(j) \/ submitAddCategory(j)
      \/ submitEditCategory(j) \/ createTag(j) \/ deleteTag(j) \/ deleteTags(j)
      \/ updateItem(j) \/ deleteItem(j) \/ updateTag(j) \/ deleteOne(j)
      \/ submitDeleteMany(j) /\ (j.failed \/ ~j.failed)
      \/ (j.kind # "delete" \/ catalogue \in {"contents", "tags"}) /\ Refused(j)
  BY DEF Goes
<1> QED
  BY <1>1, AssistantKeeps, AddCategoryKeeps, EditCategoryKeeps, TagKeeps, ItemKeeps, PlainEnd,
     DeleteOneKeeps, DeletedManyKeeps, RefusedKeeps

----------------------------------------------------------------------------
LEMMA CatInitInv ==
  ASSUME CatInit
  PROVE  CatInv
<1>1. PICK l0 : l0 = [all |-> <<>>, rows |-> <<>>, total |-> 0, filter |-> Everything,
                      loading |-> FALSE, chosen |-> {}, busy |-> {}, gets |-> <<>>,
                      id |-> 0, editing |-> 0, form |-> FormClosed]
  OBVIOUS
<1>2. PICK none : none = {}
  OBVIOUS
<1>3. PICK nothing : nothing = "nothing"
  OBVIOUS
<1>4. /\ DOMAIN l0 = CatFields /\ l0.all = <<>> /\ l0.rows = <<>> /\ l0.total = 0
      /\ l0.filter = Everything /\ l0.gets = <<>> /\ l0.id = 0
  BY <1>1 DEF CatFields
<1>5. cat = loadPage(l0, nothing, none)
  BY <1>1, <1>2, <1>3 DEF CatInit, loadItems
<1>6. PICK g : g = [id |-> 0 + 1, filter |-> Everything, after |-> nothing, ids |-> none]
  OBVIOUS
<1>7. g.id = 1 /\ g.filter = Everything /\ g.after = nothing
  BY <1>6
<1>8. /\ DOMAIN cat = CatFields /\ cat.all = <<>> /\ cat.rows = <<>> /\ cat.total = 0
      /\ cat.filter = Everything /\ cat.id = 1 /\ cat.gets = Append(<<>>, g)
  <2>1. /\ DOMAIN cat = CatFields /\ cat.all = l0.all /\ cat.rows = l0.rows /\ cat.total = l0.total
        /\ cat.filter = l0.filter /\ cat.id = l0.id + 1
        /\ cat.gets = Append(l0.gets, [id |-> l0.id + 1, filter |-> l0.filter,
                                       after |-> nothing, ids |-> none])
    BY <1>4, <1>5, LoadedPage
  <2> QED
    BY <1>4, <1>6, <2>1
<1>9. /\ OnItsWay = {g} /\ cat.gets \in Seq(OnItsWay) /\ cat.gets # <<>>
      /\ Len(cat.gets) = 1
  <2>1. <<>> \in Seq(CatRows) /\ Len(<<>>) = 0
    OBVIOUS
  <2>2. PICK empty : empty = <<>>
    OBVIOUS
  <2>3. empty \in Seq(CatRows) /\ Len(empty) = 0
    BY <2>1, <2>2
  <2>4. /\ Append(empty, g) \in Seq(ToSet(Append(empty, g))) /\ Append(empty, g) # <<>>
        /\ Len(Append(empty, g)) = Len(empty) + 1 /\ ToSet(Append(empty, g)) = {g}
    BY <2>2, <2>3, Appended
  <2> QED
    BY <1>8, <2>2, <2>3, <2>4 DEF OnItsWay
<1>10. Everything \in PageTurns /\ Everything.query = "all" /\ Everything.page = 1
  BY DEF Everything, PageTurns
<1>11. /\ work = {} /\ Gone = {} /\ saved = Rows0 /\ current /\ catalogue \in Pages /\ ~overlap
  BY DEF CatInit, Gone
<1>12. NoRepeats(saved)
  <2>1. ToSet(Rows0) \subseteq CatRows
    BY DEF CatRows
  <2>2. Rows0 \in Seq(CatRows)
    BY <2>1, CatalogAssumption
  <2> QED
    BY <1>11, <2>2, CatalogAssumption DEF NoRepeats
<1>13. CatShape
  <2>1. <<>> \in Seq(CatRows)
    OBVIOUS
  <2>2. WorkShape
    BY <1>11 DEF WorkShape
  <2>3. \A h \in OnItsWay : /\ h.filter \in PageTurns /\ h.id \in Nat /\ h.id <= cat.id
                            /\ h.after = "delete" => catalogue = "contents"
    BY <1>3, <1>7, <1>8, <1>9, <1>10
  <2> QED
    BY <1>8, <1>9, <1>10, <1>11, <1>12, <2>1, <2>2, <2>3 DEF CatShape
<1>14. Latest
  BY <1>7, <1>8, <1>9 DEF Latest
<1>15. Calm
  BY <1>7, <1>8, <1>9, <1>11 DEF Calm
<1>16. OnPage
  <2>1. saved \in Seq(CatRows)
    BY <1>12 DEF NoRepeats
  <2>2. Matching("all", saved) \in Seq(CatRows)
    BY <2>1, MatchingIs
  <2>3. PICK n \in Nat : n = Len(Matching("all", saved))
    BY <2>2
  <2>4. 1 <= Least(n)
    BY DEF Least
  <2> QED
    BY <1>8, <1>10, <2>3, <2>4 DEF OnPage
<1>17. RowsThere
  BY <1>9 DEF RowsThere
<1>18. AllThere
  BY <1>8, <1>9, <1>10 DEF AllThere
<1> QED
  BY <1>13, <1>14, <1>15, <1>16, <1>17, <1>18 DEF CatInv

LEMMA CatStepInv ==
  ASSUME CatInv, [CatNext]_catVars
  PROVE  CatInv'
<1>1. CASE \E i \in DOMAIN cat.gets, ok \in BOOLEAN : CatalogAnswer(i, ok)
  BY <1>1, AnswerKeeps
<1>2. CASE \E j \in work : Goes(j)
  BY <1>2, GoesKeeps
<1>3. CASE UNCHANGED catVars
  BY <1>3 DEF catVars, CatInv, CatShape, WorkShape, OnItsWay, Latest, Served, Calm, Gone, OnPage,
              RowsThere, AllThere, Mirrors
<1> QED
  BY <1>1, <1>2, <1>3, EnterKeeps, TurnPageKeeps, ChooseKeeps, OpenKeeps, CancelKeeps, SubmitKeeps
  DEF CatNext

LEMMA CatAlways == CatSpec => []CatInv
<1>1. CatInit => CatInv
  BY CatInitInv
<1>2. CatInv /\ [CatNext]_catVars => CatInv'
  BY CatStepInv
<1> QED
  BY <1>1, <1>2, PTL DEF CatSpec

LEMMA RowsHold ==
  ASSUME CatInv
  PROVE  RowsOfService
<1> SUFFICES ASSUME Idle, current, catalogue = "contents" \/ ~overlap
             PROVE  /\ ToSet(cat.rows) \subseteq ToSet(saved)
                    /\ catalogue # "assistants" => cat.total = Len(Matching(cat.filter.query, saved))
                    /\ catalogue = "contents" =>
                         cat.rows = Slice(cat.filter.page, Matching(cat.filter.query, saved))
  BY DEF RowsOfService
<1>1. cat.gets = <<>> /\ Gone = {} /\ OnItsWay = {}
  BY DEF Idle, Gone, OnItsWay, ToSet
<1>2. cat.filter.page \in Nat \ {0} /\ catalogue \in Pages
  BY DEF CatInv, CatShape, PageTurns
<1>3. CASE catalogue = "contents"
  <2>1. Served
    BY <1>1, <1>3 DEF CatInv, Latest
  <2> QED
    BY <1>2, <1>3, <2>1, ListedRows DEF Served
<1>4. CASE catalogue = "categories"
  <2>1. Mirrors /\ cat.filter.query = "all"
    BY <1>1, <1>4 DEF CatInv, AllThere
  <2>2. /\ cat.all \in Seq(CatRows) /\ saved \in Seq(CatRows) /\ ToSet(cat.all) = ToSet(saved)
        /\ IsInjective(cat.all) /\ IsInjective(saved)
    BY <1>1, <2>1 DEF Mirrors, NoRepeats, CatInv, CatShape
  <2>3. Len(cat.all) = Len(saved)
    BY <2>2, SameLength
  <2>4. Len(Matching(cat.filter.query, saved)) = Len(saved)
    BY <2>1, <2>2, MatchingIs
  <2>5. ToSet(cat.rows) \subseteq ToSet(saved)
    BY <1>2, <2>1, <2>2, SliceIs DEF Mirrors
  <2> QED
    BY <1>4, <2>1, <2>3, <2>4, <2>5 DEF Mirrors
<1>5. CASE catalogue \in {"assistants", "tags"}
  BY <1>1, <1>5 DEF CatInv, RowsThere
<1> QED
  BY <1>2, <1>3, <1>4, <1>5 DEF Pages

LEMMA PageHolds ==
  ASSUME CatInv
  PROVE  PageExists
BY PagesThere DEF PageExists, Idle, CatInv, CatShape

\* Once all calls are answered and the last GET of the list succeeded, the rows of the
\* administration's catalogues are the service's (LibraryStore, and the stores of the
\* tabs), and so is every total but the assistants'; for the library contents however
\* answers are ordered, for the others unless calls overlapped or one failed.  Without
\* such an overlap a library's page is one of those there are.
THEOREM CataloguesSettle == CatSpec => []SettledRows
<1>1. CatInv => SettledRows
  BY RowsHold, PageHolds DEF SettledRows
<1> QED
  BY <1>1, CatAlways, PTL
=============================================================================
