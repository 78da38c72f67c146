---------------------------- MODULE ClientProofs ----------------------------
(***************************************************************************)
(* Proofs about parts of the web application, each of which keeps its own  *)
(* variables: ViewerPanel, FolderForm, Glossary, ClientSession, ChatPages. *)
(***************************************************************************)
EXTENDS ViewerPanel, Glossary, FolderForm, ClientSession, ChatPages,
        FiniteSetTheorems, TLAPS

----------------------------------------------------------------------------
(***************************************************************************)
(* Proofs about ViewerPanel, for any rooms, libraries and answers, and any *)
(* number of steps of the user.                                            *)
(*                                                                         *)
(* A stream's ownership of the panel is not inductive: it rests on what    *)
(* the requests on their way may still do.  Sound says it of the panel:    *)
(* no token is ahead of the panel's, and while a stream shows, no content  *)
(* is on its way with the token of the moment.  Every operation of         *)
(* ViewerService keeps it, so that a handler, which is a composition of    *)
(* operations, keeps it too.                                               *)
(***************************************************************************)

\* What the content of a panel that streams may be.
Owned(v, st) ==
  v.streaming =>
    \/ v.content = Blank
    \/ \E s \in Streams : st[s].token = v.token /\ v.content = Text("stream", s)

NoneAhead(v, st) ==
  /\ \A s \in Streams : st[s].token <= v.token
  /\ \A g \in v.gets : g.token <= v.token

NoneOfTheStream(v) == v.streaming => \A g \in v.gets : g.token # v.token

Asked(v) == \A q \in v.lists : q.then.kind # "auto" => q.then.library \in Library

Sound(v, st) ==
  v \in View /\ NoneAhead(v, st) /\ NoneOfTheStream(v) /\ Asked(v) /\ Owned(v, st)

Sent == \A s \in Streams : stream[s].at = "sent" => stream[s].room \in Rooms

PanelInv == TypeOK /\ Sent /\ Sound(view, stream)

Tokens(st) == st \in [Streams -> Answer]

----------------------------------------------------------------------------
(* One field at a time.                                                    *)

\* w is v in what Sound speaks of.
Beside(v, w) ==
  /\ v \in View /\ w \in View
  /\ w.gets = v.gets /\ w.lists = v.lists /\ w.token = v.token
  /\ w.streaming = v.streaming /\ w.content = v.content

LEMMA Flags ==
  ASSUME NEW v \in View, NEW b \in BOOLEAN
  PROVE  /\ Beside(v, [v EXCEPT !.loading = b])
         /\ Beside(v, [v EXCEPT !.contentError = b])
         /\ Beside(v, [v EXCEPT !.listLoading = b])
         /\ Beside(v, [v EXCEPT !.listError = b])
<1>1. Beside(v, [v EXCEPT !.loading = b]) BY DEF Beside, View
<1>2. Beside(v, [v EXCEPT !.contentError = b]) BY DEF Beside, View
<1>3. Beside(v, [v EXCEPT !.listLoading = b]) BY DEF Beside, View
<1>4. Beside(v, [v EXCEPT !.listError = b]) BY DEF Beside, View
<1> QED BY <1>1, <1>2, <1>3, <1>4

LEMMA Places ==
  ASSUME NEW v \in View, NEW l \in Library \cup {NoLibrary}, NEW r \in Rooms \cup {NoRoom}
  PROVE  /\ Beside(v, [v EXCEPT !.active = l])
         /\ Beside(v, [v EXCEPT !.loadedRoom = r])
         /\ Beside(v, [v EXCEPT !.room = r])
         /\ Beside(v, [v EXCEPT !.listToken = @ + 1])
<1>1. Beside(v, [v EXCEPT !.active = l]) BY DEF Beside, View
<1>2. Beside(v, [v EXCEPT !.loadedRoom = r]) BY DEF Beside, View
<1>3. Beside(v, [v EXCEPT !.room = r]) BY DEF Beside, View
<1>4. Beside(v, [v EXCEPT !.listToken = @ + 1]) BY DEF Beside, View
<1> QED BY <1>1, <1>2, <1>3, <1>4

LEMMA Shelved ==
  ASSUME NEW v \in View, NEW q \in Seq(Library)
  PROVE  Beside(v, [v EXCEPT !.viewers = q])
BY DEF Beside, View

LEMMA BesideSound ==
  ASSUME NEW v, NEW w, NEW st, Sound(v, st), Beside(v, w)
  PROVE  Sound(w, st) /\ w.streaming = v.streaming
BY DEF Sound, NoneAhead, NoneOfTheStream, Asked, Owned, Beside

\* A token more, while nothing streams.
LEMMA BumpSound ==
  ASSUME NEW v, NEW st, Tokens(st), Sound(v, st), ~v.streaming
  PROVE  /\ Sound([v EXCEPT !.token = @ + 1], st)
         /\ ~[v EXCEPT !.token = @ + 1].streaming
<1> DEFINE w == [v EXCEPT !.token = @ + 1]
<1>1. w \in View /\ ~w.streaming /\ w.gets = v.gets /\ w.lists = v.lists /\ w.token = v.token + 1
  BY DEF Sound, View
<1>2. NoneAhead(w, st)
  BY <1>1 DEF Sound, NoneAhead, View, ContentGet, Tokens, Answer
<1> QED BY <1>1, <1>2 DEF Sound, NoneOfTheStream, Owned, Asked

LEMMA StopSound ==
  ASSUME NEW v, NEW st, Sound(v, st)
  PROVE  /\ Sound([v EXCEPT !.streaming = FALSE], st)
         /\ ~[v EXCEPT !.streaming = FALSE].streaming
<1> DEFINE w == [v EXCEPT !.streaming = FALSE]
<1>1. w \in View /\ ~w.streaming /\ w.gets = v.gets /\ w.lists = v.lists /\ w.token = v.token
  BY DEF Sound, View
<1> QED BY <1>1 DEF Sound, NoneAhead, NoneOfTheStream, Owned, Asked

\* Its content may be anything while nothing streams.
LEMMA FillSound ==
  ASSUME NEW v, NEW st, Sound(v, st), ~v.streaming, NEW c \in Contents
  PROVE  /\ Sound([v EXCEPT !.content = c], st)
         /\ ~[v EXCEPT !.content = c].streaming
<1> DEFINE w == [v EXCEPT !.content = c]
<1>1. w \in View /\ ~w.streaming /\ w.gets = v.gets /\ w.lists = v.lists /\ w.token = v.token
  BY DEF Sound, View
<1> QED BY <1>1 DEF Sound, NoneAhead, NoneOfTheStream, Owned, Asked

LEMMA ContentsTyped ==
  Blank \in Contents /\ \A l \in Library : Text("library", l) \in Contents /\ Text("stream", l) \in Contents
BY DEF Blank, Contents, Text

\* A content is asked for with the token of the moment.
LEMMA AskSound ==
  ASSUME NEW v, NEW st, Sound(v, st), ~v.streaming, NEW l \in Library
  PROVE  LET w == [v EXCEPT !.gets = @ \cup {[library |-> l, token |-> v.token]}]
         IN  Sound(w, st) /\ ~w.streaming
<1> DEFINE g == [library |-> l, token |-> v.token]
           w == [v EXCEPT !.gets = @ \cup {g}]
<1>1. g \in ContentGet /\ g.token = v.token BY DEF ContentGet, Sound, View
<1> HIDE DEF g
<1>2. w \in View /\ ~w.streaming /\ w.gets = v.gets \cup {g} /\ w.lists = v.lists /\ w.token = v.token
  BY <1>1 DEF Sound, View
<1>3. NoneAhead(w, st)
  BY <1>1, <1>2 DEF Sound, NoneAhead, View
<1>4. Sound(w, st) BY <1>2, <1>3 DEF Sound, NoneOfTheStream, Owned, Asked
<1> QED BY <1>2, <1>4 DEF g

\* A request that was answered.
LEMMA AnsweredSound ==
  ASSUME NEW v, NEW st, Sound(v, st), NEW x
  PROVE  /\ Sound([v EXCEPT !.gets = @ \ {x}], st)
         /\ Sound([v EXCEPT !.lists = @ \ {x}], st)
<1>1. ASSUME NEW w \in View, w.gets \subseteq v.gets, w.lists \subseteq v.lists, w.token = v.token,
             w.streaming = v.streaming, w.content = v.content
      PROVE  Sound(w, st)
  BY <1>1 DEF Sound, NoneAhead, NoneOfTheStream, Owned, Asked
<1>2. Sound([v EXCEPT !.gets = @ \ {x}], st)
  <2> DEFINE w == [v EXCEPT !.gets = @ \ {x}]
  <2>1. w \in View /\ w.gets \subseteq v.gets /\ w.lists = v.lists /\ w.token = v.token
          /\ w.streaming = v.streaming /\ w.content = v.content
    BY DEF Sound, View
  <2> QED BY <2>1, <1>1
<1>3. Sound([v EXCEPT !.lists = @ \ {x}], st)
  <2> DEFINE w == [v EXCEPT !.lists = @ \ {x}]
  <2>1. w \in View /\ w.gets = v.gets /\ w.lists \subseteq v.lists /\ w.token = v.token
          /\ w.streaming = v.streaming /\ w.content = v.content
    BY DEF Sound, View
  <2> QED BY <2>1, <1>1
<1> QED BY <1>2, <1>3

----------------------------------------------------------------------------
(* What the operations of ViewerService keep.                              *)

\* The panel is taken away from what streams.
LEMMA DetachSound ==
  ASSUME NEW v, NEW st, Tokens(st), Sound(v, st)
  PROVE  Sound(detachLibraryStream(v), st) /\ ~detachLibraryStream(v).streaming
<1> DEFINE a == [v EXCEPT !.token = @ + 1]
           b == [a EXCEPT !.streaming = FALSE]
           c == [b EXCEPT !.room = NoRoom]
<1>1. a \in View /\ a.gets = v.gets /\ a.lists = v.lists /\ a.token = v.token + 1
  BY DEF Sound, View
<1> HIDE DEF a
<1>2. b \in View /\ ~b.streaming /\ b.gets = a.gets /\ b.lists = a.lists /\ b.token = a.token
  BY <1>1 DEF View
<1>3. Sound(b, st)
  <2>1. NoneAhead(b, st)
    BY <1>1, <1>2 DEF Sound, NoneAhead, View, ContentGet, Tokens, Answer
  <2> QED BY <1>1, <1>2, <2>1 DEF Sound, NoneOfTheStream, Owned, Asked
<1> HIDE DEF b
<1>4. Sound(c, st) /\ ~c.streaming BY <1>2, <1>3, Places, BesideSound
<1>5. c = detachLibraryStream(v) BY Zenon DEF a, b, detachLibraryStream
<1> QED BY <1>4, <1>5

LEMMA LoadContentSound ==
  ASSUME NEW v, NEW st, Sound(v, st), ~v.streaming, NEW l \in Library \cup {NoLibrary}
  PROVE  Sound(loadContent(v, l), st) /\ ~loadContent(v, l).streaming
<1>1. CASE l = NoLibrary
  BY <1>1, FillSound, ContentsTyped DEF loadContent
<1>2. CASE l # NoLibrary
  <2> DEFINE a == [v EXCEPT !.gets = @ \cup {[library |-> l, token |-> v.token]}]
             b == [a EXCEPT !.loading = TRUE]
             c == [b EXCEPT !.contentError = FALSE]
  <2>1. Sound(a, st) /\ ~a.streaming BY <1>2, AskSound
  <2> HIDE DEF a
  <2>2. Beside(a, b) BY <2>1, Flags DEF Sound
  <2>3. Sound(b, st) /\ ~b.streaming BY <2>1, <2>2, BesideSound
  <2> HIDE DEF b
  <2>4. Beside(b, c) BY <2>3, Flags DEF Sound
  <2>5. Sound(c, st) /\ ~c.streaming BY <2>3, <2>4, BesideSound
  <2>6. c = loadContent(v, l) BY <1>2, Zenon DEF a, b, loadContent
  <2> QED BY <2>5, <2>6
<1> QED BY <1>1, <1>2

LEMMA ActivateSound ==
  ASSUME NEW v, NEW st, Sound(v, st), ~v.streaming, NEW l \in Library \cup {NoLibrary}
  PROVE  Sound(activate(v, l), st) /\ ~activate(v, l).streaming
<1> DEFINE w == [v EXCEPT !.active = l]
<1>1. Beside(v, w) BY Places DEF Sound
<1>2. Sound(w, st) /\ ~w.streaming BY <1>1, BesideSound
<1> QED BY <1>2, LoadContentSound DEF activate

LEMMA SelectSound ==
  ASSUME NEW v, NEW st, Tokens(st), Sound(v, st), NEW l \in Library
  PROVE  Sound(selectLibrary(v, l), st)
<1>1. CASE v.streaming
  BY <1>1, DetachSound, ActivateSound DEF selectLibrary
<1>2. CASE ~v.streaming
  BY <1>2, BumpSound, ActivateSound DEF selectLibrary
<1> QED BY <1>1, <1>2

LEMMA ShowSound ==
  ASSUME NEW v, NEW st, Tokens(st), Sound(v, st), NEW l \in Library
  PROVE  Sound(showLibrary(v, l), st)
<1> DEFINE d == detachLibraryStream(v)
           w == [d EXCEPT !.viewers = <<l>>]
<1>1. Sound(d, st) /\ ~d.streaming BY DetachSound
<1> HIDE DEF d
<1>a. <<l>> \in Seq(Library) OBVIOUS
<1>2. Beside(d, w) BY <1>1, <1>a, Shelved DEF Sound
<1>3. Sound(w, st) /\ ~w.streaming BY <1>1, <1>2, BesideSound
<1> QED BY <1>3, ActivateSound DEF showLibrary, d

LEMMA LoadListSound ==
  ASSUME NEW v, NEW st, Tokens(st), Sound(v, st), NEW r \in Rooms, NEW then \in Then,
         then.kind # "auto" => then.library \in Library
  PROVE  Sound(loadList(v, r, then), st)
<1> DEFINE own == IF v.streaming /\ v.room # r THEN detachLibraryStream(v) ELSE v
           q == [room |-> r, token |-> v.listToken + 1, then |-> then]
           a == [own EXCEPT !.listToken = @ + 1]
           b == [a EXCEPT !.listLoading = TRUE]
           c == [b EXCEPT !.listError = FALSE]
           d == [c EXCEPT !.contentError = FALSE]
           e == [d EXCEPT !.lists = @ \cup {q}]
<1>1. Sound(own, st) BY DetachSound
<1>2. q \in ListGet /\ q.then = then BY DEF ListGet, Sound, View
<1> HIDE DEF own
<1>3. Beside(own, a) BY <1>1, Places DEF Sound
<1> HIDE DEF a
<1>4. Beside(a, b) BY <1>3, Flags DEF Beside
<1> HIDE DEF b
<1>5. Beside(b, c) BY <1>4, Flags DEF Beside
<1> HIDE DEF c
<1>6. Beside(c, d) BY <1>5, Flags DEF Beside
<1>7. Sound(d, st) BY <1>1, <1>3, <1>4, <1>5, <1>6, BesideSound
<1> HIDE DEF d, q
<1>8. /\ e \in View /\ e.lists = d.lists \cup {q} /\ e.gets = d.gets /\ e.token = d.token
      /\ e.streaming = d.streaming /\ e.content = d.content
  BY <1>2, <1>7 DEF Sound, View
<1>9. Sound(e, st) BY <1>2, <1>7, <1>8 DEF Sound, NoneAhead, NoneOfTheStream, Owned, Asked
<1>10. e = loadList(v, r, then) BY Zenon DEF own, q, a, b, c, d, loadList
<1> QED BY <1>9, <1>10

LEMMA AbortSound ==
  ASSUME NEW v, NEW st, Tokens(st), Sound(v, st), NEW t
  PROVE  Sound(abortLibraryStream(v, t), st)
<1>1. v.active \in Library \cup {NoLibrary} BY DEF Sound, View
<1>2. detachLibraryStream(v).active = v.active BY DEF Sound, View, detachLibraryStream
<1> QED BY <1>1, <1>2, DetachSound, LoadContentSound DEF abortLibraryStream

LEMMA EndSound ==
  ASSUME NEW v, NEW st, Tokens(st), Sound(v, st), NEW t, NEW s \in Streams, NEW r \in Rooms
  PROVE  Sound(endLibraryStream(v, t, s, r), st)
<1> DEFINE a == [v EXCEPT !.streaming = FALSE]
           b == [a EXCEPT !.room = NoRoom]
           then == [kind |-> "end", library |-> s]
<1>1. Sound(a, st) BY StopSound
<1> HIDE DEF a
<1>2. Beside(a, b) BY <1>1, Places DEF Sound
<1>3. Sound(b, st) BY <1>1, <1>2, BesideSound
<1>4. then \in Then /\ then.library \in Library BY DEF Then, Library
<1> HIDE DEF b, then
<1>5. Sound(loadList(b, r, then), st) BY <1>3, <1>4, LoadListSound
<1>6. b = [v EXCEPT !.streaming = FALSE, !.room = NoRoom] BY Zenon DEF a, b
<1> QED BY <1>5, <1>6 DEF endLibraryStream, then

LEMMA AutoSelectSound ==
  ASSUME NEW v, NEW st, Tokens(st), Sound(v, st)
  PROVE  Sound(autoSelect(v), st)
<1>1. CASE v.streaming \/ Listed(v, v.active) BY <1>1 DEF autoSelect
<1>2. CASE ~v.streaming /\ ~Listed(v, v.active) /\ v.viewers = <<>>
  <2> DEFINE a == [v EXCEPT !.active = NoLibrary]
             b == [a EXCEPT !.token = @ + 1]
             c == [b EXCEPT !.content = Blank]
  <2>1. Beside(v, a) BY Places DEF Sound
  <2>2. Sound(a, st) /\ ~a.streaming BY <1>2, <2>1, BesideSound
  <2> HIDE DEF a
  <2>3. Sound(b, st) /\ ~b.streaming BY <2>2, BumpSound
  <2> HIDE DEF b
  <2>4. Sound(c, st) BY <2>3, FillSound, ContentsTyped
  <2>5. c = autoSelect(v) BY <1>2, Zenon DEF a, b, autoSelect
  <2> QED BY <2>4, <2>5
<1>3. CASE ~v.streaming /\ ~Listed(v, v.active) /\ v.viewers # <<>>
  <2>1. v.viewers[Len(v.viewers)] \in Library BY <1>3 DEF Sound, View
  <2> QED BY <1>3, <2>1, BumpSound, ActivateSound DEF autoSelect
<1> QED BY <1>1, <1>2, <1>3

LEMMA MatchTitleSound ==
  ASSUME NEW v, NEW st, Sound(v, st), NEW s \in Library
  PROVE  Sound(matchTitle(v, s), st)
<1>1. Beside(v, [v EXCEPT !.active = s]) BY Places DEF Sound
<1> QED BY <1>1, BesideSound DEF matchTitle

LEMMA PickSound ==
  ASSUME NEW v, NEW st, Tokens(st), Sound(v, st), NEW l \in Library
  PROVE  Sound(pickLibrary(v, l), st)
BY SelectSound, ShowSound DEF pickLibrary

LEMMA ListAnsweredSound ==
  ASSUME NEW v, NEW st, Tokens(st), Sound(v, st), NEW q \in v.lists,
         NEW list \in Seq(Library), NEW ok \in BOOLEAN
  PROVE  Sound(listAnswered(v, q, list, ok), st)
<1> DEFINE taken == [v EXCEPT !.lists = @ \ {q}]
           a == [taken EXCEPT !.viewers = list]
           err == a.listError \/ ~ok
           b == [a EXCEPT !.listError = err]
           c == [b EXCEPT !.listLoading = FALSE]
           d == [c EXCEPT !.loadedRoom = q.room]
           fresh == q.token = v.listToken
           shown == IF fresh THEN d ELSE taken
<1>1. Sound(taken, st) BY AnsweredSound
<1>2. q \in ListGet BY DEF Sound, View
<1>3. q.then.kind # "auto" => q.then.library \in Library BY DEF Sound, Asked
<1> HIDE DEF taken
<1>4. Beside(taken, a) BY <1>1, Shelved DEF Sound
<1> HIDE DEF a
<1>5. err \in BOOLEAN BY Zenon
<1> HIDE DEF err
<1>6. Beside(a, b) BY <1>4, <1>5, Flags DEF Beside
<1> HIDE DEF b
<1>7. Beside(b, c) BY <1>6, Flags DEF Beside
<1> HIDE DEF c
<1>a. q.room \in Rooms \cup {NoRoom} BY <1>2 DEF ListGet
<1>b. c \in View BY <1>7 DEF Beside
<1>8. Beside(c, d) BY <1>a, <1>b, Places
<1> HIDE DEF d
<1>9. Sound(d, st) BY <1>1, <1>4, <1>6, <1>7, <1>8, BesideSound
<1>10. Sound(shown, st) BY <1>1, <1>9
<1>11. shown = IF fresh
               THEN [taken EXCEPT !.viewers = list, !.listError = @ \/ ~ok,
                                 !.listLoading = FALSE, !.loadedRoom = q.room]
               ELSE taken
  BY Zenon DEF err, a, b, c, d
<1> HIDE DEF shown
<1>12. listAnswered(v, q, list, ok) =
         CASE q.then.kind = "auto" -> IF fresh THEN autoSelect(shown) ELSE shown
           [] q.then.kind = "end" -> matchTitle(shown, q.then.library)
           [] OTHER -> pickLibrary(shown, q.then.library)
  BY <1>11, Zenon DEF listAnswered, taken
<1>13. q.then.kind \in {"auto", "end", "pick"} BY <1>2 DEF ListGet, Then
<1>14. CASE q.then.kind = "auto"
  BY <1>10, <1>12, <1>14, AutoSelectSound
<1>15. CASE q.then.kind = "end"
  BY <1>3, <1>10, <1>12, <1>15, MatchTitleSound
<1>16. CASE q.then.kind = "pick"
  BY <1>3, <1>10, <1>12, <1>16, PickSound
<1> QED BY <1>13, <1>14, <1>15, <1>16

\* The token is what keeps a late content from a panel that streams.
LEMMA ContentAnsweredSound ==
  ASSUME NEW v, NEW st, Sound(v, st), NEW g \in v.gets, NEW ok \in BOOLEAN
  PROVE  Sound(contentAnswered(v, g, ok), st)
<1> DEFINE taken == [v EXCEPT !.gets = @ \ {g}]
           x == IF ok THEN Text("library", g.library) ELSE Blank
           a == [taken EXCEPT !.content = x]
           err == a.contentError \/ ~ok
           b == [a EXCEPT !.contentError = err]
           c == [b EXCEPT !.loading = FALSE]
<1>1. Sound(taken, st) /\ taken.streaming = v.streaming
  BY AnsweredSound DEF Sound, View
<1>2. CASE g.token # v.token
  BY <1>1, <1>2 DEF contentAnswered
<1>3. CASE g.token = v.token
  <2>1. ~v.streaming BY <1>3 DEF Sound, NoneOfTheStream
  <2>2. x \in Contents BY ContentsTyped DEF Sound, View, ContentGet
  <2> HIDE DEF taken, x
  <2>3. Sound(a, st) BY <1>1, <2>1, <2>2, FillSound
  <2> HIDE DEF a
  <2>4. err \in BOOLEAN BY Zenon
  <2> HIDE DEF err
  <2>5. Beside(a, b) BY <2>3, <2>4, Flags DEF Sound
  <2> HIDE DEF b
  <2>6. Beside(b, c) BY <2>5, Flags DEF Beside
  <2>7. Sound(c, st) BY <2>3, <2>5, <2>6, BesideSound
  <2>8. c = contentAnswered(v, g, ok)
    BY <1>3, Zenon DEF taken, x, err, a, b, contentAnswered
  <2> QED BY <2>7, <2>8
<1> QED BY <1>2, <1>3

----------------------------------------------------------------------------
(* The steps.                                                              *)

LEMMA PanelInvInit == Init => PanelInv
<1> SUFFICES ASSUME Init PROVE PanelInv OBVIOUS
<1> USE ViewerAssumption
<1>1. shelf \in [Rooms -> Seq(Library)]
  <2>1. \A q \in Seq(Libraries) : q \in Seq(Library) BY DEF Library
  <2> QED BY <2>1 DEF Init
<1>2. Blank \in Contents BY ContentsTyped
<1>3. view \in View BY <1>2 DEF Init, View
<1>4. stream \in [Streams -> Answer] BY DEF Init, Answer
<1>5. TypeOK BY <1>1, <1>3, <1>4 DEF TypeOK, Init
<1>6. Sent BY DEF Sent, Init
<1>7. Sound(view, stream)
  BY <1>3 DEF Init, Sound, NoneAhead, NoneOfTheStream, Asked, Owned
<1> QED BY <1>5, <1>6, <1>7 DEF PanelInv

\* What a user does that asks the panel for something.
LEMMA UserStep ==
  ASSUME PanelInv
  PROVE  /\ \A r \in Rooms : OpenRoom(r) => PanelInv'
         /\ \A r \in Rooms, l \in Libraries : OpenViewer(r, l) => PanelInv'
         /\ \A l \in Libraries : OpenLibrary(l) => PanelInv'
         /\ \A l \in Library : Select(l) => PanelInv'
<1> USE ViewerAssumption
<1>1. Tokens(stream) BY DEF PanelInv, TypeOK, Tokens
<1>2. ASSUME Act, Sound(view', stream), UNCHANGED <<shelf, stream, fold>> PROVE PanelInv'
  <2>1. ops' \in 0..MaxOps BY <1>2 DEF Act, PanelInv, TypeOK
  <2> QED BY <1>2, <2>1 DEF PanelInv, TypeOK, Sent, Sound, NoneAhead, NoneOfTheStream, Asked, Owned
<1>3. ASSUME NEW r \in Rooms, OpenRoom(r) PROVE PanelInv'
  <2> DEFINE then == [kind |-> "auto", library |-> NoLibrary]
  <2>1. then \in Then /\ then.kind = "auto" BY DEF Then
  <2> HIDE DEF then
  <2>2. Sound(loadList(view, r, then), stream) BY <1>1, <2>1, LoadListSound DEF PanelInv
  <2> QED BY <1>2, <1>3, <2>2 DEF OpenRoom, then
<1>4. ASSUME NEW r \in Rooms, NEW l \in Libraries, OpenViewer(r, l) PROVE PanelInv'
  <2> DEFINE then == [kind |-> "pick", library |-> l]
  <2>1. then \in Then /\ then.library \in Library BY DEF Then, Library
  <2> HIDE DEF then
  <2>2. Sound(loadList(view, r, then), stream) BY <1>1, <2>1, LoadListSound DEF PanelInv
  <2> QED BY <1>2, <1>4, <2>2 DEF OpenViewer, then
<1>5. ASSUME NEW l \in Libraries, OpenLibrary(l) PROVE PanelInv'
  <2>1. l \in Library BY DEF Library
  <2> QED BY <1>1, <1>2, <1>5, <2>1, ShowSound DEF OpenLibrary, PanelInv
<1>6. ASSUME NEW l \in Library, Select(l) PROVE PanelInv'
  BY <1>1, <1>2, <1>6, SelectSound DEF Select, PanelInv
<1> QED BY <1>3, <1>4, <1>5, <1>6

LEMMA SendStep ==
  ASSUME PanelInv, NEW s \in Streams, NEW r \in Rooms, Send(s, r)
  PROVE  PanelInv'
<1> USE ViewerAssumption
<1>1. stream' \in [Streams -> Answer] /\ \A x \in Streams : stream'[x].token = stream[x].token
  BY DEF Send, PanelInv, TypeOK, Answer
<1>2. ops' \in 0..MaxOps BY DEF Send, Act, PanelInv, TypeOK
<1>3. Sent'
  BY DEF Sent, Send, PanelInv, TypeOK, Answer
<1>4. Sound(view, stream')
  BY <1>1 DEF PanelInv, Sound, NoneAhead, Owned
<1> QED BY <1>1, <1>2, <1>3, <1>4
        DEF Send, PanelInv, TypeOK, Sound, NoneAhead, NoneOfTheStream, Asked, Owned

\* A delta begins the stream of its answer, or writes if it holds the token.
LEMMA DeltaStep ==
  ASSUME PanelInv, NEW s \in Streams, Delta(s)
  PROVE  PanelInv'
<1> DEFINE begun == IF stream[s].token = 0 THEN beginLibraryStream(view, stream[s].room)
                    ELSE view
           t == IF stream[s].token = 0 THEN begun.token ELSE stream[s].token
<1>1. /\ stream[s].at = "sent" /\ stream[s].room \in Rooms
      /\ view' = appendDelta(begun, t, s)
      /\ stream' = [stream EXCEPT ![s].token = t]
      /\ UNCHANGED <<shelf, fold, ops>>
  BY DEF Delta, PanelInv, Sent
<1>2. view \in View /\ stream \in [Streams -> Answer] BY DEF PanelInv, TypeOK
<1>3. Text("stream", s) \in Contents BY ContentsTyped DEF Library
<1>4. begun \in View /\ Asked(begun) /\ begun.gets = view.gets /\ view.token <= begun.token
  <2> DEFINE r == stream[s].room
             a == [view EXCEPT !.token = @ + 1]
             b == [a EXCEPT !.room = r]
             c == [b EXCEPT !.streaming = TRUE]
             d == [c EXCEPT !.content = Blank]
  <2>1. a \in View /\ a.gets = view.gets /\ a.lists = view.lists /\ a.token = view.token + 1
    BY <1>2 DEF View
  <2> HIDE DEF a
  <2>2. b \in View /\ b.gets = a.gets /\ b.lists = a.lists /\ b.token = a.token
    BY <1>1, <2>1 DEF View
  <2> HIDE DEF b
  <2>3. c \in View /\ c.gets = b.gets /\ c.lists = b.lists /\ c.token = b.token
    BY <2>2 DEF View
  <2> HIDE DEF c
  <2>4. d \in View /\ d.gets = c.gets /\ d.lists = c.lists /\ d.token = c.token
    BY <2>3, ContentsTyped DEF View
  <2>5. d = beginLibraryStream(view, r) BY Zenon DEF a, b, c, beginLibraryStream
  <2> HIDE DEF d
  <2>6. Asked(d) BY <2>1, <2>2, <2>3, <2>4 DEF PanelInv, Sound, Asked
  <2>7. view.token <= d.token BY <1>2, <2>1, <2>2, <2>3, <2>4 DEF View
  <2>8. CASE stream[s].token = 0
    <3>1. begun = d BY <2>5, <2>8
    <3> QED BY <2>1, <2>2, <2>3, <2>4, <2>6, <2>7, <3>1
  <2>9. CASE stream[s].token # 0
    <3>1. begun = view BY <2>9
    <3> QED BY <1>2, <3>1 DEF PanelInv, Sound, View
  <2> QED BY <2>8, <2>9
<1>5. stream[s].token = 0 => begun.token = view.token + 1 /\ begun.content = Blank
  BY <1>2 DEF beginLibraryStream, View
<1>6. stream[s].token # 0 => begun = view
  OBVIOUS
<1>7. t \in Nat /\ t <= begun.token
  BY <1>2, <1>4, <1>6 DEF PanelInv, Sound, NoneAhead, View, Answer
<1> HIDE DEF begun, t
<1>8. stream' \in [Streams -> Answer]
        /\ \A x \in Streams : stream'[x].token = IF x = s THEN t ELSE stream[x].token
  BY <1>1, <1>2, <1>7 DEF Answer
<1>9. view' \in View /\ view'.token = begun.token /\ view'.gets = begun.gets
        /\ view'.lists = begun.lists /\ view'.streaming = begun.streaming
        /\ view'.content = IF t = begun.token THEN Text("stream", s) ELSE begun.content
  BY <1>1, <1>3, <1>4 DEF appendDelta, View
<1>10. Sent' BY <1>1, <1>2 DEF PanelInv, Sent, Answer
<1>a. view.token \in Nat /\ begun.token \in Nat BY <1>2, <1>4 DEF View
<1>b. \A x \in Streams : stream[x].token \in Nat /\ stream[x].token <= view.token
  BY <1>2 DEF Answer, PanelInv, Sound, NoneAhead
<1>c. \A g \in view.gets : g.token \in Nat /\ g.token <= view.token
  BY <1>2 DEF View, ContentGet, PanelInv, Sound, NoneAhead
<1>11. NoneAhead(view', stream')
  <2>1. \A x \in Streams : stream'[x].token <= view'.token
    BY <1>a, <1>b, <1>4, <1>7, <1>8, <1>9
  <2>2. \A g \in view'.gets : g.token <= view'.token
    BY <1>a, <1>c, <1>4, <1>9
  <2> QED BY <2>1, <2>2 DEF NoneAhead
<1>12. NoneOfTheStream(view')
  <2>1. CASE stream[s].token = 0
    BY <1>a, <1>c, <1>4, <1>5, <1>9, <2>1 DEF NoneOfTheStream
  <2>2. CASE stream[s].token # 0
    BY <1>6, <1>9, <2>2 DEF NoneOfTheStream, PanelInv, Sound
  <2> QED BY <2>1, <2>2
<1>13. Owned(view', stream')
  <2>1. CASE t = begun.token BY <1>8, <1>9, <2>1 DEF Owned
  <2>2. CASE t # begun.token
    <3>1. stream[s].token # 0 /\ t = stream[s].token BY <2>2 DEF t
    <3>2. \A x \in Streams : stream'[x].token = stream[x].token BY <1>8, <3>1
    <3> QED BY <1>6, <1>9, <2>2, <3>1, <3>2 DEF Owned, PanelInv, Sound
  <2> QED BY <2>1, <2>2
<1>14. Asked(view') BY <1>4, <1>9 DEF Asked
<1> QED BY <1>1, <1>8, <1>9, <1>10, <1>11, <1>12, <1>13, <1>14
        DEF PanelInv, TypeOK, Sound, NoneAhead, NoneOfTheStream, Asked, Owned

\* The answer's own fields change where Sound does not look.
LEMMA OverStep ==
  ASSUME PanelInv, NEW s \in Streams, Sound(view', stream),
         stream' = [stream EXCEPT ![s].at = "over"], shelf' \in [Rooms -> Seq(Library)],
         UNCHANGED <<fold, ops>>
  PROVE  PanelInv'
<1>1. stream' \in [Streams -> Answer] /\ \A x \in Streams : stream'[x].token = stream[x].token
  BY DEF PanelInv, TypeOK, Answer
<1>2. Sent' BY DEF PanelInv, Sent, TypeOK, Answer
<1>3. Sound(view', stream') BY <1>1 DEF Sound, NoneAhead, Owned
<1> QED BY <1>1, <1>2, <1>3
        DEF PanelInv, TypeOK, Sound, NoneAhead, NoneOfTheStream, Asked, Owned

LEMMA EndsStep ==
  ASSUME PanelInv, NEW s \in Streams, StreamEnds(s)
  PROVE  PanelInv'
<1>1. Tokens(stream) /\ stream[s].room \in Rooms
  BY DEF StreamEnds, PanelInv, TypeOK, Tokens, Sent
<1>2. Sound(view', stream) BY <1>1, EndSound DEF StreamEnds, PanelInv
<1>3. shelf' \in [Rooms -> Seq(Library)]
  <2>1. s \in Library BY DEF Library
  <2>2. shelf \in [Rooms -> Seq(Library)] BY DEF PanelInv, TypeOK
  <2>3. Append(shelf[stream[s].room], s) \in Seq(Library) BY <1>1, <2>1, <2>2
  <2>4. shelf' = shelf \/ shelf' = [shelf EXCEPT ![stream[s].room] = Append(@, s)]
    BY DEF StreamEnds
  <2> QED BY <2>2, <2>3, <2>4
<1> QED BY <1>2, <1>3, OverStep DEF StreamEnds

LEMMA FailsStep ==
  ASSUME PanelInv, NEW s \in Streams, StreamFails(s)
  PROVE  PanelInv'
<1>1. Tokens(stream) BY DEF PanelInv, TypeOK, Tokens
<1>2. Sound(view', stream) BY <1>1, AbortSound DEF StreamFails, PanelInv
<1> QED BY <1>2, OverStep DEF StreamFails, PanelInv, TypeOK

\* Late answers.
LEMMA ArriveStep ==
  ASSUME PanelInv, Arrive
  PROVE  PanelInv'
<1>1. Tokens(stream) BY DEF PanelInv, TypeOK, Tokens
<1>2. Sound(view', stream) /\ UNCHANGED <<shelf, stream, fold, ops>>
  <2>1. ASSUME NEW q \in view.lists, ListAnswer(q)
        PROVE  Sound(view', stream) /\ UNCHANGED <<shelf, stream, fold, ops>>
    <3>1. q.room \in Rooms BY DEF PanelInv, TypeOK, View, ListGet
    <3>2. shelf[q.room] \in Seq(Library) BY <3>1 DEF PanelInv, TypeOK
    <3>3. <<>> \in Seq(Library) OBVIOUS
    <3>4. Sound(listAnswered(view, q, shelf[q.room], TRUE), stream)
      BY <1>1, <3>2, ListAnsweredSound DEF PanelInv
    <3>5. Sound(listAnswered(view, q, <<>>, FALSE), stream)
      BY <1>1, <3>3, ListAnsweredSound DEF PanelInv
    <3> QED BY <2>1, <3>4, <3>5 DEF ListAnswer
  <2>2. ASSUME NEW g \in view.gets, ContentAnswer(g)
        PROVE  Sound(view', stream) /\ UNCHANGED <<shelf, stream, fold, ops>>
    BY <2>2, ContentAnsweredSound DEF ContentAnswer, PanelInv
  <2> QED BY <2>1, <2>2 DEF Arrive
<1> QED BY <1>2 DEF PanelInv, TypeOK, Sent, Sound, NoneAhead, NoneOfTheStream, Asked, Owned

\* Folding the panel does not touch what it shows.
LEMMA FoldStep ==
  ASSUME PanelInv, Toggle \/ Effects
  PROVE  PanelInv'
<1> USE ViewerAssumption
<1> DEFINE Fold == [collapsed : BOOLEAN, auto : BOOLEAN, byHand : BOOLEAN]
<1>a. fold \in Fold BY DEF PanelInv, TypeOK
<1>1. UNCHANGED <<shelf, view, stream>> /\ ops' \in 0..MaxOps /\ fold' \in Fold
  <2>1. ASSUME NEW f \in Fold, NEW b \in BOOLEAN
        PROVE  /\ [f EXCEPT !.collapsed = b] \in Fold
               /\ [f EXCEPT !.auto = b] \in Fold
               /\ [f EXCEPT !.byHand = b] \in Fold
    OBVIOUS
  <2>2. CASE Toggle
    <3>1. (~fold.collapsed) \in BOOLEAN BY Zenon
    <3>2. fold' = [collapsed |-> ~fold.collapsed, auto |-> FALSE, byHand |-> ~fold.collapsed]
      BY <2>2 DEF Toggle
    <3>3. fold' \in Fold BY <3>1, <3>2
    <3> QED BY <2>2, <3>3 DEF Toggle, Act, PanelInv, TypeOK
  <2>3. CASE Effects
    <3>1. UNCHANGED <<shelf, view, stream, ops>>
      BY <2>3 DEF Effects, ExpandForStream, CollapseEmpty, ExpandFilled
    <3>2. \/ fold' = [fold EXCEPT !.collapsed = FALSE, !.byHand = FALSE]
          \/ fold' = [fold EXCEPT !.collapsed = TRUE, !.auto = TRUE]
          \/ fold' = [fold EXCEPT !.collapsed = FALSE, !.auto = FALSE]
      BY <2>3 DEF Effects, ExpandForStream, CollapseEmpty, ExpandFilled
    <3>3. fold' \in Fold BY <1>a, <3>2
    <3> QED BY <3>1, <3>3 DEF PanelInv, TypeOK
  <2> QED BY <2>2, <2>3
<1> QED BY <1>1 DEF PanelInv, TypeOK, Sent, Sound, NoneAhead, NoneOfTheStream, Asked, Owned

LEMMA PanelInvNext == PanelInv /\ [Next]_vars => PanelInv'
<1> SUFFICES ASSUME PanelInv, [Next]_vars PROVE PanelInv' OBVIOUS
<1>1. CASE Next
  BY <1>1, UserStep, SendStep, DeltaStep, EndsStep, FailsStep, ArriveStep, FoldStep DEF Next
<1>2. CASE UNCHANGED vars
  BY <1>2 DEF vars, PanelInv, TypeOK, Sent, Sound, NoneAhead, NoneOfTheStream, Asked, Owned
<1> QED BY <1>1, <1>2

\* The panel's record, the server's shelves and the answers keep their types,
\* for any rooms and any number of steps: no handler stores a library where a
\* room belongs or selects what is not there.
THEOREM ViewerTypes == Spec => []TypeOK
<1>1. PanelInv => TypeOK BY DEF PanelInv
<1> QED BY <1>1, PanelInvInit, PanelInvNext, PTL DEF Spec

\* While an answer streams its library, the panel shows nothing or the text of
\* that stream (StreamOwns), whatever was asked for before it began.
THEOREM StreamOwnsPanel == Spec => []StreamOwns
<1>1. PanelInv => StreamOwns BY DEF PanelInv, Sound, Owned, StreamOwns
<1> QED BY <1>1, PanelInvInit, PanelInvNext, PTL DEF Spec
----------------------------------------------------------------------------
(***************************************************************************)
(* Proofs about FolderForm, for any endpoints, folders and groups, and any *)
(* number of dialogs.                                                      *)
(*                                                                         *)
(* What is submitted is taken from the service's signals, and these may    *)
(* have been written for a dialog that is closed, of another type.  It     *)
(* goes well because of what the signals can hold at all: two names only   *)
(* after an answer about a cloud folder, a local server in the form only   *)
(* after one about local servers.                                          *)
(***************************************************************************)

LocalServers == In(Servers["LOCAL_SERVER"])

Sheet == [kind : {"none", "create", "edit"}, folder : DOMAIN Kept \cup {NoName},
          server : Types \cup {NoName}, endpoint : LocalServers \cup {NoName},
          filled : BOOLEAN, saving : BOOLEAN, no : Nat]
Modal == [loading : BOOLEAN, options : {<<>>, Servers["LOCAL_SERVER"]}, none : BOOLEAN,
          selected : Seq(STRING), groups : SUBSET STRING]
Call == [kind : {"groups", "ends", "save"}, type : Types \cup {NoName}, existing : Seq(STRING),
         folder : DOMAIN Kept \cup {NoName}, no : Nat, page : Nat, got : SUBSET STRING]

\* The form, the service and its calls keep their types.
FormTypeOK ==
  /\ sheet \in Sheet
  /\ modal \in Modal
  /\ asks \in SUBSET Call
  /\ teams \in Seq(STRING)
  /\ done \in Nat

\* The type of a folder that is edited is known.
EditTyped(s) == s.kind = "edit" => s.server \in Types

\* Two chosen endpoints are those of a cloud folder.
ChosenInOrder(m) ==
  Len(m.selected) = 2 => m.selected[1] \in In(Servers["VDB"]) /\ m.selected[2] \in In(Servers["EMBEDDING"])

FormInv == FormTypeOK /\ EditTyped(sheet) /\ ChosenInOrder(modal) /\ SubmittedOfType

----------------------------------------------------------------------------
(* Operators.                                                              *)

LEMMA InSeq ==
  ASSUME NEW S, NEW q \in Seq(S), q # <<>>
  PROVE  q[1] \in In(q) /\ In(q) \subseteq S
BY DEF In

LEMMA Tuples ==
  ASSUME NEW S, NEW a \in S, NEW b \in S
  PROVE  /\ <<>> \in Seq(S) /\ Len(<<>>) = 0
         /\ <<a>> \in Seq(S) /\ Len(<<a>>) = 1
         /\ <<a, b>> \in Seq(S) /\ Len(<<a, b>>) = 2
         /\ <<a, b>>[1] = a /\ <<a, b>>[2] = b
OBVIOUS

\* What a dialog starts with is one of the options, unless there is none.
LEMMA ResolveInitial ==
  ASSUME NEW options \in Seq(STRING), NEW existing
  PROVE  /\ options = <<>> => resolveInitialEndpointId(options, existing) = NoName
         /\ options # <<>> => resolveInitialEndpointId(options, existing) \in In(options)
<1>1. CASE options = <<>> BY <1>1 DEF resolveInitialEndpointId
<1>2. CASE options # <<>>
  <2>1. options[1] \in In(options) BY <1>2, InSeq
  <2> QED BY <1>2, <2>1 DEF resolveInitialEndpointId
<1> QED BY <1>1, <1>2

\* A cloud folder's endpoints: none, or one of each kind in order.
LEMMA ResolveSaas ==
  ASSUME NEW vdb \in Seq(STRING), NEW embedding \in Seq(STRING), NEW existing
  PROVE  LET ids == resolveSaasGlobalEndpointIds(vdb, embedding, existing)
         IN  /\ ids \in Seq(STRING)
             /\ ids = <<>> \/ (Len(ids) = 2 /\ ids[1] \in In(vdb) /\ ids[2] \in In(embedding))
<1>1. CASE vdb = <<>> \/ embedding = <<>>
  BY <1>1 DEF resolveSaasGlobalEndpointIds
<1>2. CASE vdb # <<>> /\ embedding # <<>>
  <2> DEFINE a == resolveInitialEndpointId(vdb, found(vdb, existing))
             b == resolveInitialEndpointId(embedding, found(embedding, existing))
  <2>1. a \in In(vdb) /\ b \in In(embedding) BY <1>2, ResolveInitial
  <2>2. a \in STRING /\ b \in STRING BY <1>2, <2>1, InSeq
  <2>3. resolveSaasGlobalEndpointIds(vdb, embedding, existing) = <<a, b>>
    BY <1>2 DEF resolveSaasGlobalEndpointIds
  <2> HIDE DEF a, b
  <2>4. <<a, b>> \in Seq(STRING) /\ Len(<<a, b>>) = 2 /\ <<a, b>>[1] = a /\ <<a, b>>[2] = b
    BY <2>2, Tuples
  <2> QED BY <2>1, <2>3, <2>4
<1> QED BY <1>1, <1>2

LEMMA SheetFields ==
  ASSUME NEW s \in Sheet
  PROVE  /\ \A b \in BOOLEAN : [s EXCEPT !.filled = b] \in Sheet /\ [s EXCEPT !.saving = b] \in Sheet
         /\ \A t \in Types : [s EXCEPT !.server = t] \in Sheet
         /\ \A e \in LocalServers \cup {NoName} : [s EXCEPT !.endpoint = e] \in Sheet
<1>1. ASSUME NEW b \in BOOLEAN
      PROVE  [s EXCEPT !.filled = b] \in Sheet /\ [s EXCEPT !.saving = b] \in Sheet
  BY DEF Sheet
<1>2. ASSUME NEW t \in Types PROVE [s EXCEPT !.server = t] \in Sheet BY DEF Sheet
<1>3. ASSUME NEW e \in LocalServers \cup {NoName} PROVE [s EXCEPT !.endpoint = e] \in Sheet
  BY DEF Sheet
<1> QED BY <1>1, <1>2, <1>3

LEMMA ServersTyped ==
  /\ Servers["LOCAL_SERVER"] \in Seq(STRING) /\ NoName \notin LocalServers
  /\ Servers["VDB"] \in Seq(STRING) /\ Servers["EMBEDDING"] \in Seq(STRING)
BY FolderAssumption DEF LocalServers

----------------------------------------------------------------------------
(* The steps.  What was sent changes in submitFolder alone.                *)

LEMMA SentKept ==
  ASSUME SubmittedOfType, sent' = sent
  PROVE  SubmittedOfType'
BY DEF SubmittedOfType, Payload

LEMMA FormInvInit == FormInit => FormInv
<1> SUFFICES ASSUME FormInit PROVE FormInv OBVIOUS
<1>1. NoSheet \in Sheet BY DEF NoSheet, Sheet
<1>2. reset \in Modal BY DEF reset, Modal
<1>3. FormTypeOK BY <1>1, <1>2, FolderAssumption DEF FormInit, FormTypeOK
<1>4. EditTyped(sheet) BY DEF FormInit, EditTyped, NoSheet
<1>5. ChosenInOrder(modal) BY DEF FormInit, ChosenInOrder, reset
<1>6. SubmittedOfType BY DEF FormInit, SubmittedOfType, Payload
<1> QED BY <1>3, <1>4, <1>5, <1>6 DEF FormInv

\* A dialog that opens: the service forgets what was chosen.
LEMMA OpenStep ==
  ASSUME FormInv, \/ openCreateModal \/ \E f \in DOMAIN Kept : openEditModal(f)
  PROVE  FormInv'
<1>a. Doing /\ opened BY DEF openCreateModal, openEditModal
<1>b. done \in Nat BY DEF FormInv, FormTypeOK
<1>1. done' \in Nat /\ done + 1 \in Nat /\ opened BY <1>a, <1>b DEF Doing
<1>2. sheet' \in Sheet /\ EditTyped(sheet)'
  <2>1. CASE openCreateModal
    <3>1. sheet' = [kind |-> "create", folder |-> NoName, server |-> NoName, endpoint |-> NoName,
                    filled |-> FALSE, saving |-> FALSE, no |-> done + 1]
      BY <2>1 DEF openCreateModal, NoSheet
    <3> QED BY <1>1, <3>1 DEF Sheet, EditTyped
  <2>2. ASSUME NEW f \in DOMAIN Kept, openEditModal(f) PROVE sheet' \in Sheet /\ EditTyped(sheet)'
    <3>1. sheet' = [kind |-> "edit", folder |-> f, server |-> Kept[f].type, endpoint |-> NoName,
                    filled |-> TRUE, saving |-> FALSE, no |-> done + 1]
      BY <2>2 DEF openEditModal, NoSheet
    <3>2. Kept[f].type \in Types BY FolderAssumption
    <3> QED BY <1>1, <3>1, <3>2 DEF Sheet, EditTyped
  <2> QED BY <2>1, <2>2
<1>3. modal' \in Modal /\ ChosenInOrder(modal)'
  <2>1. modal' = [loading |-> TRUE, options |-> <<>>, none |-> FALSE, selected |-> <<>>, groups |-> {}]
    BY <1>1 DEF opened, reset
  <2> QED BY <2>1 DEF Modal, ChosenInOrder
<1>4. asks' \in SUBSET Call
  <2>1. GroupsCall \in Call BY <1>2 DEF GroupsCall, Call, Sheet
  <2> QED BY <1>1, <2>1 DEF opened, FormInv, FormTypeOK
<1>5. teams' = teams /\ sent' = sent BY <1>1 DEF opened
<1> QED BY <1>1, <1>2, <1>3, <1>4, <1>5, SentKept DEF FormInv, FormTypeOK

\* The user closes it, changes the type, or fills the form.
LEMMA FillStep ==
  ASSUME FormInv, \/ closeModal \/ Fill \/ PickEndpoint \/ \E t \in Types : onServerTypeChange(t)
  PROVE  FormInv'
<1>1. sheet \in Sheet /\ modal \in Modal /\ done \in Nat BY DEF FormInv, FormTypeOK
<1>2. done' \in Nat /\ teams' = teams /\ sent' = sent
  BY <1>1 DEF closeModal, Fill, PickEndpoint, onServerTypeChange, Doing
<1>3. sheet' \in Sheet /\ EditTyped(sheet)'
  <2>1. CASE closeModal BY <2>1 DEF closeModal, NoSheet, Sheet, EditTyped
  <2>2. CASE Fill
    <3>1. sheet' = [sheet EXCEPT !.filled = TRUE] BY <2>2 DEF Fill
    <3>2. sheet' \in Sheet BY <1>1, <3>1, SheetFields
    <3>3. sheet'.kind = sheet.kind /\ sheet'.server = sheet.server BY <1>1, <3>1 DEF Sheet
    <3> QED BY <3>2, <3>3 DEF FormInv, EditTyped
  <2>3. CASE PickEndpoint
    <3>1. PICK e \in In(modal.options) : sheet' = [sheet EXCEPT !.endpoint = e]
      BY <2>3 DEF PickEndpoint
    <3>2. e \in LocalServers BY <1>1, <3>1 DEF Modal, LocalServers, In
    <3>3. sheet' \in Sheet BY <1>1, <3>1, <3>2, SheetFields
    <3>4. sheet'.kind = sheet.kind /\ sheet'.server = sheet.server BY <1>1, <3>1 DEF Sheet
    <3> QED BY <3>3, <3>4 DEF FormInv, EditTyped
  <2>4. ASSUME NEW t \in Types, onServerTypeChange(t) PROVE sheet' \in Sheet /\ EditTyped(sheet)'
    <3>1. sheet' = [sheet EXCEPT !.server = t] BY <2>4 DEF onServerTypeChange
    <3>2. sheet' \in Sheet BY <1>1, <3>1, SheetFields
    <3>3. sheet'.server = t BY <1>1, <3>1 DEF Sheet
    <3> QED BY <3>2, <3>3 DEF EditTyped
  <2> QED BY <2>1, <2>2, <2>3, <2>4
<1>4. modal' \in Modal /\ modal'.selected = modal.selected
  BY <1>1 DEF closeModal, Fill, PickEndpoint, onServerTypeChange, Modal
<1>5. asks' \in SUBSET Call
  <2>1. CASE closeModal \/ Fill \/ PickEndpoint
    BY <2>1 DEF closeModal, Fill, PickEndpoint, FormInv, FormTypeOK
  <2>2. ASSUME NEW t \in Types, onServerTypeChange(t) PROVE asks' \in SUBSET Call
    <3>1. EndsCall(t, <<>>, sheet) \in Call BY <1>1 DEF EndsCall, Call, Sheet
    <3> QED BY <2>2, <3>1 DEF onServerTypeChange, FormInv, FormTypeOK
  <2> QED BY <2>1, <2>2
<1>6. ChosenInOrder(modal)' BY <1>4 DEF ChosenInOrder, FormInv
<1> QED BY <1>2, <1>3, <1>4, <1>5, <1>6, SentKept DEF FormInv, FormTypeOK

\* What is sent is of the type it is sent as.
LEMMA SubmitStep ==
  ASSUME FormInv, submitCreateFolder \/ submitEditFolder
  PROVE  FormInv'
<1>1. sheet \in Sheet /\ modal \in Modal BY DEF FormInv, FormTypeOK
<1>2. /\ submitFolder
      /\ sheet.server \in Types
      /\ sheet.server = "SAAS_GLOBAL" => Len(modal.selected) = 2
      /\ sheet.server = "LOCAL" => sheet.endpoint # NoName
  BY <1>1 DEF submitCreateFolder, submitEditFolder, canSubmitCreateFolder, canSubmitEditFolder,
              FormInv, EditTyped, Sheet
<1>3. SubmittedOfType'
  <2> DEFINE p == buildIndexPayload(sheet)
  <2>1. Payload' = {p} BY <1>2 DEF submitFolder, Payload
  <2>2. CASE sheet.server = "LOCAL"
    <3>1. sheet.endpoint \in LocalServers BY <1>1, <1>2, <2>2 DEF Sheet
    <3>2. p.type = "LOCAL" /\ p.ids = <<sheet.endpoint>> BY <2>2 DEF buildIndexPayload
    <3>3. Len(p.ids) = 1 /\ In(p.ids) = {sheet.endpoint} BY <3>2 DEF In
    <3> QED BY <2>1, <3>1, <3>2, <3>3 DEF SubmittedOfType, LocalServers
  <2>3. CASE sheet.server = "SAAS_GLOBAL"
    <3>1. p.type = "SAAS_GLOBAL" /\ p.ids = modal.selected BY <2>3 DEF buildIndexPayload
    <3>2. Len(p.ids) = 2 /\ p.ids[1] \in In(Servers["VDB"]) /\ p.ids[2] \in In(Servers["EMBEDDING"])
      BY <1>2, <2>3, <3>1 DEF FormInv, ChosenInOrder
    <3> QED BY <2>1, <3>1, <3>2 DEF SubmittedOfType
  <2> QED BY <1>2, <2>2, <2>3 DEF Types
<1>4. sheet' \in Sheet /\ sheet'.kind = sheet.kind /\ sheet'.server = sheet.server
  BY <1>1, <1>2 DEF submitFolder, Sheet
<1>5. asks' \in SUBSET Call
  <2> DEFINE k == EndsCall(NoName, <<>>, sheet)
  <2>1. k \in Call BY <1>1 DEF EndsCall, Call, Sheet
  <2> HIDE DEF k
  <2>2. [k EXCEPT !.kind = "save"] \in Call BY <2>1 DEF Call
  <2> QED BY <1>2, <2>2 DEF submitFolder, FormInv, FormTypeOK, k
<1> QED BY <1>2, <1>3, <1>4, <1>5 DEF submitFolder, FormInv, FormTypeOK, EditTyped, ChosenInOrder

LEMMA GroupLeavesStep ==
  ASSUME FormInv, GroupLeaves
  PROVE  FormInv'
<1>1. teams' \in Seq(STRING)
  <2>1. PICK i \in DOMAIN teams :
          teams' = SubSeq(teams, 1, i - 1) \o SubSeq(teams, i + 1, Len(teams))
    BY DEF GroupLeaves
  <2>2. teams \in Seq(STRING) BY DEF FormInv, FormTypeOK
  <2>3. i \in 1..Len(teams) BY <2>2
  <2>4. SubSeq(teams, 1, i - 1) \in Seq(STRING) /\ SubSeq(teams, i + 1, Len(teams)) \in Seq(STRING)
    BY <2>2, <2>3
  <2> QED BY <2>1, <2>4
<1>2. UNCHANGED <<sheet, modal, asks, sent, done>> BY DEF GroupLeaves
<1> QED BY <1>1, <1>2, SentKept DEF FormInv, FormTypeOK, EditTyped, ChosenInOrder

\* The groups arrive, in pages; then, for an edit, its endpoints are asked for.
LEMMA GroupsStep ==
  ASSUME FormInv, NEW c \in asks, GroupsAnswer(c)
  PROVE  FormInv'
<1> DEFINE ids == c.got \cup groupPage(c.page)
<1>1. c \in Call /\ modal \in Modal /\ asks \in SUBSET Call BY DEF FormInv, FormTypeOK
<1>2. ids \in SUBSET STRING
  <2>1. groupPage(c.page) \in SUBSET STRING BY DEF groupPage, FormInv, FormTypeOK
  <2> QED BY <1>1, <2>1 DEF Call
<1> HIDE DEF ids
<1>3. modal' \in Modal /\ modal'.selected = modal.selected /\ asks' \in SUBSET Call
  <2>1. CASE Cardinality(ids) < Len(teams)
    <3>1. modal' = modal /\ asks' = (asks \ {c}) \cup {[c EXCEPT !.page = @ + 1, !.got = ids]}
      BY <2>1 DEF GroupsAnswer, ids
    <3> DEFINE d == [c EXCEPT !.page = @ + 1]
    <3>a. d \in Call BY <1>1 DEF Call
    <3> HIDE DEF d
    <3>b. [d EXCEPT !.got = ids] \in Call BY <1>2, <3>a DEF Call
    <3>2. [c EXCEPT !.page = @ + 1, !.got = ids] \in Call BY <3>b, Zenon DEF d
    <3> QED BY <1>1, <3>1, <3>2
  <2>2. CASE ~(Cardinality(ids) < Len(teams))
    <3>1. groupsKnown(c, ids) BY <2>2 DEF GroupsAnswer, ids
    <3>2. modal' = [modal EXCEPT !.groups = ids, !.loading = (c.folder # NoName)]
      BY <3>1 DEF groupsKnown
    <3>3. modal' \in Modal /\ modal'.selected = modal.selected
      BY <1>1, <1>2, <3>2 DEF Modal
    <3>4. ASSUME c.folder # NoName
          PROVE [c EXCEPT !.kind = "ends", !.type = Kept[c.folder].type, !.page = 0, !.got = {},
                          !.existing = Kept[c.folder].ids] \in Call
      <4>1. c.folder \in DOMAIN Kept BY <1>1, <3>4 DEF Call
      <4>2. Kept[c.folder].type \in Types /\ Kept[c.folder].ids \in Seq(STRING)
        BY <4>1, FolderAssumption
      <4> DEFINE x == [c EXCEPT !.kind = "ends"]
                 y == [x EXCEPT !.type = Kept[c.folder].type]
                 z == [y EXCEPT !.page = 0]
                 u == [z EXCEPT !.got = {}]
                 w == [u EXCEPT !.existing = Kept[c.folder].ids]
      <4>3. x \in Call BY <1>1 DEF Call
      <4> HIDE DEF x
      <4>4. y \in Call BY <4>2, <4>3 DEF Call
      <4> HIDE DEF y
      <4>5. z \in Call BY <4>4 DEF Call
      <4> HIDE DEF z
      <4>6. u \in Call BY <4>5 DEF Call
      <4> HIDE DEF u
      <4>7. w \in Call BY <4>2, <4>6 DEF Call
      <4> QED BY <4>7, Zenon DEF x, y, z, u
    <3>5. asks' \in SUBSET Call
      <4>1. CASE c.folder = NoName BY <1>1, <3>1, <4>1 DEF groupsKnown
      <4>2. CASE c.folder # NoName BY <1>1, <3>1, <3>4, <4>2 DEF groupsKnown
      <4> QED BY <4>1, <4>2
    <3> QED BY <3>3, <3>5
  <2> QED BY <2>1, <2>2
<1>4. UNCHANGED <<sheet, teams, sent, mixed, done>> BY DEF GroupsAnswer
<1> QED BY <1>3, <1>4, SentKept DEF FormInv, FormTypeOK, EditTyped, ChosenInOrder

LEMMA FailStep ==
  ASSUME FormInv, NEW c \in asks, CallFails(c) \/ SaveAnswer(c)
  PROVE  FormInv'
<1>1. sheet \in Sheet /\ modal \in Modal /\ asks \in SUBSET Call BY DEF FormInv, FormTypeOK
<1>2. modal' \in Modal /\ modal'.selected = modal.selected
  BY <1>1 DEF CallFails, SaveAnswer, Modal
<1>3. sheet' \in Sheet /\ EditTyped(sheet)'
  <2>1. CASE CallFails(c) BY <1>1, <2>1 DEF CallFails, EditTyped, FormInv
  <2>2. CASE SaveAnswer(c) BY <2>2 DEF SaveAnswer, NoSheet, Sheet, EditTyped
  <2> QED BY <2>1, <2>2
<1>4. asks' \in SUBSET Call /\ UNCHANGED <<teams, sent, done>>
  BY <1>1 DEF CallFails, SaveAnswer
<1> QED BY <1>2, <1>3, <1>4, SentKept DEF FormInv, FormTypeOK, ChosenInOrder

\* Endpoints that arrive, for whichever dialog they were asked.
LEMMA EndpointsStep ==
  ASSUME FormInv, NEW c \in asks, NEW options \in {<<>>, Servers["LOCAL_SERVER"]},
         NEW ids \in Seq(STRING), NEW none \in BOOLEAN, NEW id \in LocalServers \cup {NoName},
         Len(ids) = 2 => ids[1] \in In(Servers["VDB"]) /\ ids[2] \in In(Servers["EMBEDDING"]),
         endpointsKnown(c, options, ids, none, id), UNCHANGED <<teams, sent, mixed, done>>
  PROVE  FormInv'
<1>1. sheet \in Sheet /\ modal \in Modal BY DEF FormInv, FormTypeOK
<1>2. modal' \in Modal /\ modal'.selected = ids
  <2> DEFINE a == [modal EXCEPT !.loading = FALSE]
             b == [a EXCEPT !.options = options]
             d == [b EXCEPT !.selected = ids]
             e == [d EXCEPT !.none = none]
  <2>1. a \in Modal BY <1>1 DEF Modal
  <2> HIDE DEF a
  <2>2. b \in Modal BY <2>1 DEF Modal
  <2> HIDE DEF b
  <2>3. d \in Modal /\ d.selected = ids BY <2>2 DEF Modal
  <2> HIDE DEF d
  <2>4. e \in Modal /\ e.selected = ids BY <2>3 DEF Modal
  <2>5. modal' = e BY Zenon DEF a, b, d, endpointsKnown
  <2> QED BY <2>4, <2>5
<1>3. \E e \in LocalServers \cup {NoName} : sheet' = [sheet EXCEPT !.endpoint = e] \/ sheet' = sheet
  <2>1. sheet.endpoint \in LocalServers \cup {NoName} BY <1>1 DEF Sheet
  <2> QED BY <2>1 DEF endpointsKnown
<1>4. sheet' \in Sheet /\ sheet'.kind = sheet.kind /\ sheet'.server = sheet.server
  BY <1>1, <1>3 DEF Sheet
<1>5. asks' \in SUBSET Call BY DEF endpointsKnown, FormInv, FormTypeOK
<1>6. EditTyped(sheet)' BY <1>4 DEF FormInv, EditTyped
<1>7. ChosenInOrder(modal)' BY <1>2 DEF ChosenInOrder
<1> QED BY <1>2, <1>4, <1>5, <1>6, <1>7, SentKept DEF FormInv, FormTypeOK

LEMMA LocalStep ==
  ASSUME FormInv, NEW c \in asks, LocalAnswer(c)
  PROVE  FormInv'
<1>1. PICK options \in listEndpointsByType("LOCAL_SERVER") :
        LET e == resolveInitialEndpointId(options, IF c.existing = <<>> THEN NoName ELSE c.existing[1])
        IN  endpointsKnown(c, options, IF e = NoName THEN <<>> ELSE <<e>>, options = <<>>, e)
  BY DEF LocalAnswer
<1> DEFINE e == resolveInitialEndpointId(options, IF c.existing = <<>> THEN NoName ELSE c.existing[1])
           ids == IF e = NoName THEN <<>> ELSE <<e>>
<1>2. options \in {<<>>, Servers["LOCAL_SERVER"]} /\ options \in Seq(STRING)
  <2>1. options = <<>> \/ options = Servers["LOCAL_SERVER"] BY DEF listEndpointsByType
  <2>2. <<>> \in Seq(STRING) OBVIOUS
  <2> QED BY <2>1, <2>2, ServersTyped
<1>3. e \in LocalServers \cup {NoName}
  BY <1>2, ResolveInitial DEF LocalServers
<1>4. LocalServers \subseteq STRING BY ServersTyped DEF LocalServers, In
<1>5. ids \in Seq(STRING) /\ Len(ids) # 2
  <2> HIDE DEF e
  <2>1. CASE e = NoName BY <2>1
  <2>2. CASE e # NoName
    <3>1. e \in STRING BY <1>3, <1>4, <2>2
    <3>2. <<e>> \in Seq(STRING) /\ Len(<<e>>) = 1 BY <3>1, Tuples
    <3> QED BY <2>2, <3>2
  <2> QED BY <2>1, <2>2
<1>6. (options = <<>>) \in BOOLEAN OBVIOUS
<1>7. endpointsKnown(c, options, ids, options = <<>>, e) BY <1>1
<1> HIDE DEF e, ids
<1> QED BY <1>2, <1>3, <1>5, <1>6, <1>7, EndpointsStep DEF LocalAnswer

LEMMA SaasStep ==
  ASSUME FormInv, NEW c \in asks, SaasAnswer(c)
  PROVE  FormInv'
<1>1. PICK vdb \in listEndpointsByType("VDB"), emb \in listEndpointsByType("EMBEDDING") :
        LET ids == resolveSaasGlobalEndpointIds(vdb, emb, c.existing)
        IN  endpointsKnown(c, <<>>, ids, ids = <<>>, NoName)
  BY DEF SaasAnswer
<1> DEFINE ids == resolveSaasGlobalEndpointIds(vdb, emb, c.existing)
<1>3. vdb = <<>> \/ vdb = Servers["VDB"] BY DEF listEndpointsByType
<1>4. emb = <<>> \/ emb = Servers["EMBEDDING"] BY DEF listEndpointsByType
<1>2. vdb \in Seq(STRING) /\ emb \in Seq(STRING)
  <2>1. <<>> \in Seq(STRING) OBVIOUS
  <2> QED BY <1>3, <1>4, <2>1, ServersTyped
<1>5. /\ ids \in Seq(STRING)
      /\ ids = <<>> \/ (Len(ids) = 2 /\ ids[1] \in In(vdb) /\ ids[2] \in In(emb))
  BY <1>2, ResolveSaas
<1>6. Len(ids) = 2 => ids[1] \in In(Servers["VDB"]) /\ ids[2] \in In(Servers["EMBEDDING"])
  <2> HIDE DEF ids
  <2>1. In(<<>>) = {} BY DEF In
  <2>2. CASE ids = <<>>
    <3>1. Len(ids) = 0 BY <2>2
    <3> QED BY <3>1
  <2>3. CASE Len(ids) = 2 /\ ids[1] \in In(vdb) /\ ids[2] \in In(emb)
    <3>1. vdb # <<>> /\ emb # <<>> BY <2>1, <2>3
    <3> QED BY <1>3, <1>4, <2>3, <3>1
  <2> QED BY <1>5, <2>2, <2>3
<1>7. (ids = <<>>) \in BOOLEAN OBVIOUS
<1>8. endpointsKnown(c, <<>>, ids, ids = <<>>, NoName) BY <1>1
<1> HIDE DEF ids
<1> QED BY <1>5, <1>6, <1>7, <1>8, EndpointsStep DEF SaasAnswer

LEMMA FormInvNext == FormInv /\ [FormNext]_formVars => FormInv'
<1> SUFFICES ASSUME FormInv, [FormNext]_formVars PROVE FormInv' OBVIOUS
<1>1. CASE FormNext
  BY <1>1, OpenStep, FillStep, SubmitStep, GroupLeavesStep, GroupsStep, FailStep, LocalStep, SaasStep
     DEF FormNext
<1>2. CASE UNCHANGED formVars
  BY <1>2, SentKept DEF formVars, FormInv, FormTypeOK, EditTyped, ChosenInOrder
<1> QED BY <1>1, <1>2

\* Whatever was fetched for whichever dialog, a cloud folder is sent with a
\* vector store and an embedding endpoint, in this order, and a local one with
\* one local server (SubmittedOfType), for any endpoints and folders.
THEOREM FolderSubmittedOfType == FormSpec => []SubmittedOfType
<1>1. FormInv => SubmittedOfType BY DEF FormInv
<1> QED BY <1>1, FormInvInit, FormInvNext, PTL DEF FormSpec
----------------------------------------------------------------------------
(***************************************************************************)
(* Proofs about Glossary, for any glossaries and rows, and any number of   *)
(* moves.                                                                  *)
(*                                                                         *)
(* The shell's title is of the route once the shell waits for nothing.     *)
(* Until then it may be that of an earlier route; the invariant says what  *)
(* the requests on their way will make of it.  A request that is not       *)
(* cancelled is for the route, and if there is none left, the title is     *)
(* that of the route already, unless a save was answered since that was    *)
(* made on another route.                                                  *)
(***************************************************************************)

\* The fields the argument is about exist: what changes another field keeps
\* these.
Fields ==
  /\ {"route", "form"} \subseteq DOMAIN glos
  /\ {"term", "gets", "form"} \subseteq DOMAIN shell
  /\ \A g \in shell.gets : "cancelled" \in DOMAIN g

OfRoute == \A g \in shell.gets : ~g.cancelled => g.of = glos.route

\* Only administrators open dialogs, and write.
WritesAllowed == admin \/ (tasks = {} /\ glos.form = Closed /\ ~shell.form)

TitleKnown ==
  (section \in Shell /\ ~strayed /\ \A g \in shell.gets : g.cancelled)
    => shell.term \in {NoTerm, glos.route}

ShellInv == Fields /\ OfRoute /\ WritesAllowed /\ TitleKnown

\* What a step leaves alone that does not concern the title.
Apart ==
  /\ {"route", "form"} \subseteq DOMAIN glos' /\ glos'.route = glos.route
  /\ {"term", "gets", "form"} \subseteq DOMAIN shell'
  /\ admin \/ (glos'.form = Closed /\ ~shell'.form)
  /\ shell'.term = shell.term /\ shell'.gets = shell.gets
  /\ section' = section /\ admin' = admin

LEMMA ApartKeeps ==
  ASSUME ShellInv, Apart, strayed' = strayed, tasks' \subseteq tasks
  PROVE  ShellInv'
BY DEF ShellInv, Apart, Fields, OfRoute, WritesAllowed, TitleKnown

\* A write that begins, on the route.
LEMMA WriteKeeps ==
  ASSUME ShellInv, Apart, strayed' = strayed, admin
  PROVE  ShellInv'
BY DEF ShellInv, Apart, Fields, OfRoute, WritesAllowed, TitleKnown

LEMMA RefreshFields ==
  ASSUME NEW g, {"route", "form"} \subseteq DOMAIN g, NEW of, NEW closes
  PROVE  LET h == refreshOf(g, of, closes)
         IN  {"route", "form"} \subseteq DOMAIN h /\ h.route = g.route /\ h.form = g.form
BY DEF refreshOf

LEMMA ShellInvInit == GlosInit => ShellInv
<1> SUFFICES ASSUME GlosInit PROVE ShellInv OBVIOUS
<1>1. PICK r \in IF section \in Shell THEN Glossaries ELSE {Own} :
        LET g == [route |-> r, rows |-> <<>>, loading |-> FALSE, filter |-> All,
                  chosen |-> {}, form |-> Closed, gets |-> <<>>]
            s == [term |-> NoTerm, text |-> NoTerm, form |-> FALSE, gets |-> {}]
        IN  /\ glos = IF section \in Shell THEN refresh(refresh(g)) ELSE refresh(g)
            /\ shell = IF section \in Shell THEN getById(s, r) ELSE s
  BY DEF GlosInit
<1> DEFINE g == [route |-> r, rows |-> <<>>, loading |-> FALSE, filter |-> All,
                 chosen |-> {}, form |-> Closed, gets |-> <<>>]
           s == [term |-> NoTerm, text |-> NoTerm, form |-> FALSE, gets |-> {}]
<1>2. {"route", "form"} \subseteq DOMAIN g /\ g.route = r /\ g.form = Closed OBVIOUS
<1>3. s.term = NoTerm /\ s.gets = {} /\ s.form = FALSE /\ {"term", "gets", "form"} \subseteq DOMAIN s OBVIOUS
<1>4. {"route", "form"} \subseteq DOMAIN glos /\ glos.route = r /\ glos.form = Closed
  <2> HIDE DEF g
  <2>1. {"route", "form"} \subseteq DOMAIN refresh(g) /\ refresh(g).route = r /\ refresh(g).form = Closed
    BY <1>2, RefreshFields DEF refresh
  <2>2. {"route", "form"} \subseteq DOMAIN refresh(refresh(g)) /\ refresh(refresh(g)).route = r
        /\ refresh(refresh(g)).form = Closed
    BY <2>1, RefreshFields DEF refresh
  <2>3. glos = IF section \in Shell THEN refresh(refresh(g)) ELSE refresh(g) BY <1>1 DEF g
  <2> QED BY <2>1, <2>2, <2>3
<1>5. /\ {"term", "gets", "form"} \subseteq DOMAIN shell /\ shell.term = NoTerm
      /\ shell.form = FALSE /\ \A x \in shell.gets : x.of = r /\ "cancelled" \in DOMAIN x
  <2> HIDE DEF s
  <2>1. shell = IF section \in Shell THEN getById(s, r) ELSE s BY <1>1 DEF s
  <2>2. /\ getById(s, r).term = NoTerm /\ getById(s, r).form = FALSE
        /\ {"term", "gets", "form"} \subseteq DOMAIN getById(s, r)
        /\ getById(s, r).gets = {[of |-> r, cancelled |-> FALSE]}
    BY <1>3 DEF getById
  <2> QED BY <1>3, <2>1, <2>2
<1> QED BY <1>4, <1>5
        DEF GlosInit, ShellInv, Fields, OfRoute, WritesAllowed, TitleKnown

\* The route moves: the requests that are out are cancelled, and one is made
\* for the new route.
LEMMA RouteStep ==
  ASSUME ShellInv, NEW r \in Glossaries, RouteTo(r)
  PROVE  ShellInv'
<1> DEFINE g == [glos EXCEPT !.route = r, !.form = Closed]
           s == [shell EXCEPT !.form = FALSE]
<1>1. glos' = refresh(g) /\ shell' = getById(s, r) /\ tasks' = tasks
        /\ section' = section /\ admin' = admin
  BY DEF RouteTo, Moves, Quietly
<1>2. {"route", "form"} \subseteq DOMAIN g /\ g.route = r /\ g.form = Closed BY DEF ShellInv, Fields
<1>3. {"term", "gets", "form"} \subseteq DOMAIN s /\ s.gets = shell.gets /\ s.form = FALSE
  BY DEF ShellInv, Fields
<1> HIDE DEF g, s
<1>4. {"route", "form"} \subseteq DOMAIN glos' /\ glos'.route = r /\ glos'.form = Closed
  BY <1>1, <1>2, RefreshFields DEF refresh
<1>5. /\ {"term", "gets", "form"} \subseteq DOMAIN shell'
      /\ shell'.form = FALSE
      /\ shell'.gets = {[x EXCEPT !.cancelled = TRUE] : x \in shell.gets}
                       \cup {[of |-> r, cancelled |-> FALSE]}
  BY <1>1, <1>3 DEF getById
<1>6. ASSUME NEW x \in shell'.gets
      PROVE  "cancelled" \in DOMAIN x /\ (x.cancelled \/ x.of = r)
  <2>1. CASE x = [of |-> r, cancelled |-> FALSE] BY <2>1
  <2>2. ASSUME NEW y \in shell.gets, x = [y EXCEPT !.cancelled = TRUE]
        PROVE  "cancelled" \in DOMAIN x /\ x.cancelled
    <3>1. "cancelled" \in DOMAIN y BY DEF ShellInv, Fields
    <3> QED BY <2>2, <3>1
  <2> QED BY <1>5, <2>1, <2>2
<1>7. OfRoute' BY <1>4, <1>6 DEF OfRoute
<1>8. \E x \in shell'.gets : ~x.cancelled
  <2> DEFINE x == [of |-> r, cancelled |-> FALSE]
  <2>1. x \in shell'.gets BY <1>5
  <2>2. ~x.cancelled OBVIOUS
  <2> QED BY <2>1, <2>2
<1> QED BY <1>1, <1>4, <1>5, <1>6, <1>7, <1>8
        DEF ShellInv, Fields, WritesAllowed, TitleKnown

\* The user searches, turns pages, selects, opens and closes dialogs.
LEMMA PageStep ==
  ASSUME ShellInv,
         \/ onSearch \/ onPageChange \/ onToggleRow \/ onToggleSelectAll
         \/ OpenForm \/ closeDialogs \/ openEditDictionary
  PROVE  ShellInv'
<1> USE DEF ShellInv, Fields, WritesAllowed
<1>1. Apart /\ strayed' = strayed /\ tasks' = tasks
  <2>1. CASE onSearch
    <3> DEFINE g == [glos EXCEPT !.filter = [query |-> ~glos.filter.query, page |-> 1]]
    <3>1. {"route", "form"} \subseteq DOMAIN g /\ g.route = glos.route /\ g.form = glos.form OBVIOUS
    <3>2. glos' = IF section = "terms" THEN refresh(g) ELSE g BY <2>1 DEF onSearch, Moves
    <3> HIDE DEF g
    <3>3. {"route", "form"} \subseteq DOMAIN glos' /\ glos'.route = glos.route /\ glos'.form = glos.form
      <4>1. {"route", "form"} \subseteq DOMAIN refresh(g)
              /\ refresh(g).route = g.route /\ refresh(g).form = g.form
        BY <3>1, RefreshFields DEF refresh
      <4> QED BY <3>1, <3>2, <4>1
    <3> QED BY <2>1, <3>3 DEF onSearch, Moves, Quietly, Apart
  <2>2. CASE onPageChange BY <2>2 DEF onPageChange, Moves, Quietly, Apart
  <2>3. CASE onToggleRow BY <2>3 DEF onToggleRow, Moves, Quietly, Apart
  <2>4. CASE onToggleSelectAll BY <2>4 DEF onToggleSelectAll, Moves, Quietly, Apart
  <2>5. CASE OpenForm
    <3>1. ASSUME NEW sort, NEW ids, openDialog(sort, ids)
          PROVE  Apart /\ strayed' = strayed /\ tasks' = tasks
      <4>1. /\ glos' = [glos EXCEPT !.form = [kind |-> sort, ids |-> ids]]
            /\ shell' = shell /\ admin
            /\ section' = section /\ admin' = admin /\ strayed' = strayed /\ tasks' = tasks
        BY <3>1 DEF openDialog, Moves, Quietly
      <4>2. {"route", "form"} \subseteq DOMAIN glos' /\ glos'.route = glos.route BY <4>1
      <4> QED BY <4>1, <4>2 DEF Apart
    <3>2. CASE onAddTerm \/ onCreateTag \/ openAddAssistant
      BY <3>1, <3>2 DEF onAddTerm, onCreateTag, openAddAssistant
    <3>3. CASE onEditTag \/ openEditWord
      BY <3>1, <3>3 DEF onEditTag, openEditWord
    <3>4. CASE onDeleteTerm \/ onDeleteTag \/ openDeleteWord \/ openDeleteModal
      BY <3>1, <3>4 DEF onDeleteTerm, onDeleteTag, openDeleteWord, openDeleteModal
    <3>5. CASE onDeleteSelected BY <3>1, <3>5 DEF onDeleteSelected
    <3> QED BY <2>5, <3>2, <3>3, <3>4, <3>5 DEF OpenForm
  <2>6. CASE closeDialogs BY <2>6 DEF closeDialogs, Moves, Quietly, Apart
  <2>7. CASE openEditDictionary BY <2>7 DEF openEditDictionary, Moves, Quietly, Apart
  <2> QED BY <2>1, <2>2, <2>3, <2>4, <2>5, <2>6, <2>7
<1> QED BY <1>1, ApartKeeps

\* Dialogs open for administrators alone.
LEMMA ConfirmStep ==
  ASSUME ShellInv, confirm \/ saveEditDictionary
  PROVE  ShellInv'
<1>a. admin BY DEF confirm, saveEditDictionary, ShellInv, WritesAllowed
<1>1. Apart /\ strayed' = strayed
  BY <1>a DEF confirm, saveEditDictionary, Writes, Moves, Apart, ShellInv, Fields
<1> QED BY <1>a, <1>1, WriteKeeps

LEMMA CloseFields ==
  ASSUME NEW g, {"route", "form"} \subseteq DOMAIN g, NEW s, {"term", "gets", "form"} \subseteq DOMAIN s, NEW closes,
         closeAll(g, s, closes)
  PROVE  /\ {"route", "form"} \subseteq DOMAIN glos' /\ glos'.route = g.route
         /\ {"term", "gets", "form"} \subseteq DOMAIN shell'
         /\ shell'.term = s.term /\ shell'.gets = s.gets
         /\ glos'.form = g.form \/ glos'.form = Closed
         /\ shell'.form = s.form \/ shell'.form = FALSE
BY DEF closeAll

LEMMA RefreshStep ==
  ASSUME ShellInv, NEW i \in DOMAIN glos.gets, RefreshAnswer(i)
  PROVE  ShellInv'
<1> DEFINE get == glos.gets[i]
           g == [glos EXCEPT !.gets = SubSeq(@, 1, i - 1) \o SubSeq(@, i + 1, Len(@))]
           h == [g EXCEPT !.rows = base[get.of], !.loading = FALSE]
<1>1. closeAll(h, shell, get.closes) \/ closeAll(g, shell, get.closes) BY DEF RefreshAnswer
<1>2. {"route", "form"} \subseteq DOMAIN g /\ g.route = glos.route /\ g.form = glos.form
  BY DEF ShellInv, Fields
<1> HIDE DEF g
<1>3. {"route", "form"} \subseteq DOMAIN h /\ h.route = glos.route /\ h.form = glos.form BY <1>2
<1> HIDE DEF h
<1>4. {"route", "form"} \subseteq DOMAIN glos' /\ glos'.route = glos.route
        /\ {"term", "gets", "form"} \subseteq DOMAIN shell'
        /\ shell'.term = shell.term /\ shell'.gets = shell.gets
        /\ (glos'.form = glos.form \/ glos'.form = Closed)
        /\ (shell'.form = shell.form \/ shell'.form = FALSE)
  BY <1>1, <1>2, <1>3, CloseFields DEF ShellInv, Fields
<1>5. section' = section /\ admin' = admin /\ tasks' = tasks /\ strayed' = strayed
  BY DEF RefreshAnswer
<1> QED BY <1>4, <1>5, ApartKeeps DEF Apart, ShellInv, WritesAllowed

\* An answer for the route is the title; one that was cancelled is dropped.
LEMMA TermStep ==
  ASSUME ShellInv, NEW g \in shell.gets, TermAnswer(g)
  PROVE  ShellInv'
<1>1. PICK term \in {g.of, NoTerm} :
        shell' = [shell EXCEPT !.gets = @ \ {g}, !.term = IF g.cancelled THEN @ ELSE term]
  BY DEF TermAnswer
<1>2. UNCHANGED <<section, admin, glos, tasks>> /\ strayed' = (strayed /\ g.cancelled)
  BY DEF TermAnswer
<1>3. /\ {"term", "gets", "form"} \subseteq DOMAIN shell' /\ shell'.gets = shell.gets \ {g}
      /\ shell'.term = IF g.cancelled THEN shell.term ELSE term
      /\ shell'.form = shell.form
  BY <1>1 DEF ShellInv, Fields
<1>4. TitleKnown'
  <2>1. CASE g.cancelled
    BY <1>2, <1>3, <2>1 DEF ShellInv, TitleKnown
  <2>2. CASE ~g.cancelled
    <3>1. g.of = glos.route BY <2>2 DEF ShellInv, OfRoute
    <3> QED BY <1>2, <1>3, <2>2, <3>1 DEF TitleKnown
  <2> QED BY <2>1, <2>2
<1> QED BY <1>2, <1>3, <1>4 DEF ShellInv, Fields, OfRoute, WritesAllowed

LEMMA WriteEndsStep ==
  ASSUME ShellInv, NEW t \in tasks, WriteFails(t) \/ Added1(t) \/ Edited(t) \/ Deleted(t)
  PROVE  ShellInv'
<1>1. CASE WriteFails(t)
  <2>1. closeAll(glos, shell, t.closes) BY <1>1 DEF WriteFails
  <2>2. Apart BY <1>1, <2>1, CloseFields DEF WriteFails, Apart, ShellInv, Fields, WritesAllowed
  <2> QED BY <1>1, <2>2, ApartKeeps DEF WriteFails
<1>2. CASE Added1(t) \/ Edited(t) \/ Deleted(t)
  <2> DEFINE h == [glos EXCEPT !.chosen = unselected(t)]
  <2>1. Done(t, glos) \/ Done(t, h) BY <1>2 DEF Added1, Edited, Deleted
  <2>2. {"route", "form"} \subseteq DOMAIN h /\ h.route = glos.route /\ h.form = glos.form
    BY DEF ShellInv, Fields
  <2> HIDE DEF h
  <2>3. {"route", "form"} \subseteq DOMAIN glos' /\ glos'.route = glos.route /\ glos'.form = glos.form
    BY <2>1, <2>2, RefreshFields DEF Done, ShellInv, Fields
  <2> QED BY <2>1, <2>3, ApartKeeps DEF Done, Apart, ShellInv, Fields, WritesAllowed
<1> QED BY <1>1, <1>2

\* A save's answer, which the route it was made on may have left.
LEMMA SavedStep ==
  ASSUME ShellInv, NEW t \in tasks, Saved(t)
  PROVE  ShellInv'
<1>1. PICK ok \in BOOLEAN :
        /\ closeAll(glos, IF ok THEN [shell EXCEPT !.term = t.of] ELSE shell, ok)
        /\ strayed' = IF ok THEN t.of # glos.route ELSE strayed
  BY DEF Saved
<1> DEFINE s == IF ok THEN [shell EXCEPT !.term = t.of] ELSE shell
<1>2. {"term", "gets", "form"} \subseteq DOMAIN s /\ s.gets = shell.gets
        /\ s.term = IF ok THEN t.of ELSE shell.term
  BY DEF ShellInv, Fields
<1>3. closeAll(glos, s, ok) BY <1>1
<1> HIDE DEF s
<1>4. /\ {"route", "form"} \subseteq DOMAIN glos' /\ glos'.route = glos.route
      /\ {"term", "gets", "form"} \subseteq DOMAIN shell'
      /\ shell'.gets = shell.gets /\ shell'.term = IF ok THEN t.of ELSE shell.term
  BY <1>2, <1>3, CloseFields DEF ShellInv, Fields
<1>5. UNCHANGED <<section, admin>> /\ tasks' = tasks \ {t} BY DEF Saved
<1>6. admin BY DEF ShellInv, WritesAllowed
<1>7. TitleKnown' BY <1>1, <1>4, <1>5 DEF ShellInv, TitleKnown
<1> QED BY <1>4, <1>5, <1>6, <1>7 DEF ShellInv, Fields, OfRoute, WritesAllowed

LEMMA ShellInvNext == ShellInv /\ [GlosNext]_glosVars => ShellInv'
<1> SUFFICES ASSUME ShellInv, [GlosNext]_glosVars PROVE ShellInv' OBVIOUS
<1>1. CASE GlosNext
  BY <1>1, RouteStep, PageStep, ConfirmStep, RefreshStep, TermStep, WriteEndsStep, SavedStep
     DEF GlosNext
<1>2. CASE UNCHANGED glosVars
  BY <1>2 DEF glosVars, ShellInv, Fields, OfRoute, WritesAllowed, TitleKnown
<1> QED BY <1>1, <1>2

\* For any glossaries and any number of moves, of a user or an administrator:
\* while the shell waits for no load, its title is that of the glossary in the
\* route, or none (TitleOfRoute), unless a save was answered after the route it
\* was made on was left, and no load of the route since.
THEOREM TitleFollowsRoute == GlosSpec => []TitleOfRoute
<1>1. ShellInv => TitleOfRoute BY DEF ShellInv, TitleKnown, TitleOfRoute
<1> QED BY <1>1, ShellInvInit, ShellInvNext, PTL DEF GlosSpec

----------------------------------------------------------------------------
(***************************************************************************)
(* Proofs about ClientSession, for any number of acts of the user and the  *)
(* server.                                                                 *)
(*                                                                         *)
(* That a protected screen is shown to whom its guards admit is not        *)
(* inductive: a logout leaves the screen for a moment, the store then asks *)
(* for the session again, and a guard may refuse where one already is.     *)
(* Placed says what holds between two navigations: on a protected screen   *)
(* the user fits it or is nobody and on the way out, and a store that is   *)
(* not initialized there has nothing to restore, nor has the server.       *)
(***************************************************************************)

TabRecord ==
  [user : Roles \cup {"none"}, init : {"no", "running", "done"},
   kept : Roles \cup {"none"}, tenant : BOOLEAN,
   screen : Screens \cup {"boot"}, going : Screens \cup {"none"},
   mode : {"default", "admin"}, forced : BOOLEAN, crossed : BOOLEAN]

\* Whom the guards of a screen admit.
Fits(screen, user) ==
  CASE screen \in {"people", "tenant"} -> user = "ADMIN"
    [] screen \in {"groups", "group"} -> user \in {"ADMIN", "GROUP"}
    [] OTHER -> user # "none"

\* A store that asks for the session is not initialized.
InitKnown == "session" \in asked => tab.init # "done"

\* While an answer that a logout left behind is out, nobody has logged in again.
ForgottenNone ==
  "forgotten" \in asked /\ ~tab.crossed =>
    tab.user = "none" /\ tab.kept = "none" /\ cookie = "none"

\* A key is answered before anything is shown.
KeyAlone == "key" \in asked => asked = {"key"} /\ tab.screen = "boot" /\ tab.tenant

\* A login or a new password is the only request, or it crossed another.
LoginAlone ==
  ~tab.crossed =>
    /\ \A k \in {"login", "reset"} : k \in asked => asked = {k}
    /\ "login" \in asked => tab.tenant

Placed ==
  ~tab.crossed /\ tab.screen \in Guarded =>
    IF tab.init = "done"
    THEN Fits(tab.screen, tab.user) \/ (tab.user = "none" /\ tab.going # "none")
    ELSE tab.user = "none" /\ tab.kept = "none" /\ cookie = "none" /\ tab.going # "none"

\* The types; acts only bounds what TLC explores.
Typed ==
  tab \in TabRecord /\ cookie \in Roles \cup {"none"} /\ account \in Roles /\ asked \subseteq Kinds

SessionInv == Typed /\ InitKnown /\ ForgottenNone /\ KeyAlone /\ LoginAlone /\ TenantKept /\ Placed

\* The screens and the users that the definitions name.
LEMMA Names ==
  /\ "login" \in Screens \ Guarded /\ "reset" \in Screens \ Guarded
  /\ "home" \in Guarded /\ "glossary" \in Guarded /\ "groups" \in Guarded
  /\ "group" \in Guarded /\ "tenant" \in Guarded /\ "people" \in Guarded
  /\ Guarded \subseteq Screens /\ \A x \in Screens : x \in Guarded \cup {"login", "reset"}
  /\ "boot" \notin Screens /\ "none" \notin Screens /\ "none" \notin Roles
  /\ Kinds = {"session", "forgotten", "login", "logout", "reset", "key", "data"}
BY DEF Screens, Guarded, Roles, Kinds

----------------------------------------------------------------------------
(* What AuthStore's operations leave of the tab.                           *)

LEMMA Loaded ==
  ASSUME NEW shown \in Screens, NEW kept \in Roles \cup {"none"}, NEW tenant \in BOOLEAN,
         NEW stale \in BOOLEAN
  PROVE  LET t == Loading(shown, kept, tenant, stale)
         IN  /\ t \in TabRecord /\ t.init = "no" /\ t.screen = "boot" /\ t.kept = kept
             /\ t.tenant = tenant /\ t.crossed = stale
BY DEF Loading, TabRecord

LEMMA ClearedTab ==
  ASSUME NEW t \in TabRecord
  PROVE  LET c == clearStorage(t)
         IN  /\ c \in TabRecord /\ c.kept = "none" /\ c.init = t.init /\ c.user = t.user
             /\ c.screen = t.screen /\ c.going = t.going /\ c.crossed = t.crossed
BY DEF clearStorage, TabRecord

\* Nobody is logged in, and the tab goes to another screen.
LEMMA Leaving ==
  ASSUME NEW t \in TabRecord
  PROVE  /\ LET u == requiresReset(t)
            IN  /\ u \in TabRecord /\ u.kept = "none" /\ u.init = t.init /\ u.user = "none"
                /\ u.screen = t.screen /\ u.going = "reset" /\ u.crossed = t.crossed
         /\ LET u == loggedOut(t)
            IN  /\ u \in TabRecord /\ u.kept = "none" /\ u.init = "no" /\ u.user = "none"
                /\ u.screen = t.screen /\ u.going = "login" /\ u.crossed = t.crossed
         /\ LET u == unauthorized(t)
            IN  /\ u \in TabRecord /\ u.kept = "none" /\ u.init = t.init /\ u.user = t.user
                /\ u.screen = t.screen /\ u.going = "login" /\ u.crossed = t.crossed
<1> DEFINE c == clearStorage(t)
<1>1. /\ c \in TabRecord /\ c.kept = "none" /\ c.init = t.init /\ c.user = t.user
      /\ c.screen = t.screen /\ c.going = t.going /\ c.crossed = t.crossed
  BY ClearedTab
<1> HIDE DEF c
<1>2. /\ requiresReset(t) = [c EXCEPT !.user = "none", !.going = "reset", !.forced = FALSE]
      /\ loggedOut(t) = [c EXCEPT !.user = "none", !.init = "no", !.going = "login", !.forced = FALSE]
      /\ unauthorized(t) = [c EXCEPT !.going = "login", !.forced = TRUE]
  BY DEF requiresReset, loggedOut, unauthorized, c
<1>3. "reset" \in Screens /\ "login" \in Screens BY Names
<1>4. LET u == [c EXCEPT !.user = "none", !.going = "reset", !.forced = FALSE]
      IN  /\ u \in TabRecord /\ u.kept = "none" /\ u.init = t.init /\ u.user = "none"
          /\ u.screen = t.screen /\ u.going = "reset" /\ u.crossed = t.crossed
  BY <1>1, <1>3 DEF TabRecord
<1>5. LET u == [c EXCEPT !.user = "none", !.init = "no", !.going = "login", !.forced = FALSE]
      IN  /\ u \in TabRecord /\ u.kept = "none" /\ u.init = "no" /\ u.user = "none"
          /\ u.screen = t.screen /\ u.going = "login" /\ u.crossed = t.crossed
  BY <1>1, <1>3 DEF TabRecord
<1>6. LET u == [c EXCEPT !.going = "login", !.forced = TRUE]
      IN  /\ u \in TabRecord /\ u.kept = "none" /\ u.init = t.init /\ u.user = t.user
          /\ u.screen = t.screen /\ u.going = "login" /\ u.crossed = t.crossed
  BY <1>1, <1>3 DEF TabRecord
<1> QED BY <1>2, <1>4, <1>5, <1>6

\* Somebody is.
LEMMA Entered ==
  ASSUME NEW t \in TabRecord, NEW role \in Roles
  PROVE  LET u == handleAuthSuccess(t, role)
         IN  /\ u \in TabRecord /\ u.kept = role /\ u.init = t.init /\ u.user = role
             /\ u.screen = t.screen /\ u.going = "home" /\ u.tenant = t.tenant
             /\ u.crossed = (t.crossed \/ t.screen \in Guarded)
<1> DEFINE c == [t EXCEPT !.kept = role]
           x == t.crossed \/ t.screen \in Guarded
<1>1. /\ c \in TabRecord /\ c.kept = role /\ c.init = t.init /\ c.tenant = t.tenant
      /\ c.screen = t.screen /\ c.going = t.going /\ c.crossed = t.crossed
  BY DEF TabRecord
<1>2. x \in BOOLEAN BY DEF TabRecord
<1>3. handleAuthSuccess(t, role) = [c EXCEPT !.user = role, !.going = "home", !.forced = FALSE,
                                             !.crossed = c.crossed \/ t.screen \in Guarded]
  BY DEF handleAuthSuccess, saveToStorage
<1>4. handleAuthSuccess(t, role) =
        [c EXCEPT !.user = role, !.going = "home", !.forced = FALSE, !.crossed = x]
  BY <1>1, <1>3
<1> HIDE DEF c, x
<1>5. "home" \in Screens BY Names
<1>6. LET u == [c EXCEPT !.user = role, !.going = "home", !.forced = FALSE, !.crossed = x]
      IN  /\ u \in TabRecord /\ u.kept = role /\ u.init = t.init /\ u.user = role
          /\ u.screen = t.screen /\ u.going = "home" /\ u.tenant = t.tenant
          /\ u.crossed = x
  <2>1. PICK u : u = [c EXCEPT !.user = role, !.going = "home", !.forced = FALSE, !.crossed = x]
    OBVIOUS
  <2>2. DOMAIN c = DOMAIN u /\ u \in TabRecord
    BY <1>1, <1>2, <1>5, <2>1 DEF TabRecord
  <2>3. /\ u.kept = role /\ u.init = t.init /\ u.user = role /\ u.screen = t.screen
        /\ u.going = "home" /\ u.tenant = t.tenant /\ u.crossed = x
    BY <1>1, <2>1 DEF TabRecord
  <2> QED
    BY <2>1, <2>2, <2>3
<1> QED BY <1>4, <1>6 DEF x

\* An answer to the session's GET, and one to a login key.
LEMMA KnownSession ==
  ASSUME NEW t \in TabRecord, NEW role \in Roles \cup {"none"},
         NEW init \in {"no", "running", "done"}
  PROVE  LET u == sessionKnown(t, role, init)
         IN  /\ u \in TabRecord /\ u.init = init /\ u.screen = t.screen /\ u.going = t.going
             /\ u.crossed = t.crossed
             /\ IF role = "none" THEN u.user = "none" /\ u.kept = "none" ELSE u.tenant = t.tenant
<1> DEFINE c == clearStorage(t)
           user == IF role = "USER" /\ t.user = "GROUP" THEN "GROUP" ELSE role
<1>1. /\ c \in TabRecord /\ c.kept = "none" /\ c.init = t.init /\ c.user = t.user
      /\ c.screen = t.screen /\ c.going = t.going /\ c.crossed = t.crossed
  BY ClearedTab
<1>2. role # "none" => user \in Roles BY DEF Roles
<1>3. sessionKnown(t, role, init) = IF role = "none" THEN [c EXCEPT !.user = "none", !.init = init]
                                    ELSE [t EXCEPT !.user = user, !.kept = user, !.init = init]
  BY DEF sessionKnown
<1> HIDE DEF c, user
<1>4. LET u == [c EXCEPT !.user = "none", !.init = init]
      IN  /\ u \in TabRecord /\ u.init = init /\ u.screen = t.screen /\ u.going = t.going
          /\ u.crossed = t.crossed /\ u.user = "none" /\ u.kept = "none"
  BY <1>1 DEF TabRecord
<1>5. role # "none" =>
        LET u == [t EXCEPT !.user = user, !.kept = user, !.init = init]
        IN  /\ u \in TabRecord /\ u.init = init /\ u.screen = t.screen /\ u.going = t.going
            /\ u.crossed = t.crossed /\ u.tenant = t.tenant
  BY <1>2 DEF TabRecord
<1> QED BY <1>3, <1>4, <1>5

LEMMA KnownKey ==
  ASSUME NEW t \in TabRecord, NEW role \in Roles \cup {"none"}
  PROVE  LET u == keyKnown(t, role)
         IN  /\ u \in TabRecord /\ u.init = t.init /\ u.screen = t.screen
             /\ u.going = t.going /\ u.crossed = t.crossed
             /\ u.kept = "none" \/ u.tenant = t.tenant
<1> DEFINE c == clearStorage(t)
<1>1. /\ c \in TabRecord /\ c.kept = "none" /\ c.init = t.init /\ c.user = t.user
      /\ c.screen = t.screen /\ c.going = t.going /\ c.crossed = t.crossed
  BY ClearedTab
<1>2. keyKnown(t, role) = IF role = "none" THEN [c EXCEPT !.user = "none"]
                          ELSE [[t EXCEPT !.kept = role] EXCEPT !.user = role]
  BY DEF keyKnown, saveToStorage
<1> HIDE DEF c
<1>3. LET u == [c EXCEPT !.user = "none"]
      IN  /\ u \in TabRecord /\ u.init = t.init /\ u.screen = t.screen /\ u.going = t.going
          /\ u.crossed = t.crossed /\ u.kept = "none"
  BY <1>1 DEF TabRecord
<1>4. CASE role = "none" BY <1>2, <1>3, <1>4
<1>5. CASE role # "none" BY <1>2, <1>5 DEF TabRecord
<1> QED BY <1>4, <1>5

----------------------------------------------------------------------------

LEMMA SessionInit == TabInit => SessionInv
<1> SUFFICES ASSUME TabInit PROVE SessionInv
  OBVIOUS
<1>1. PICK shown \in Screens : tab = Loading(shown, "none", FALSE, FALSE) BY DEF TabInit
<1>2. /\ tab \in TabRecord /\ tab.init = "no" /\ tab.screen = "boot" /\ tab.kept = "none"
  <2> DEFINE t == Loading(shown, "none", FALSE, FALSE)
  <2>1. "none" \in Roles \cup {"none"} /\ FALSE \in BOOLEAN OBVIOUS
  <2>2. t \in TabRecord /\ t.init = "no" /\ t.screen = "boot" /\ t.kept = "none"
    BY DEF Loading, TabRecord
  <2> QED BY <1>1, <2>2
<1> QED
  BY <1>2, Names DEF TabInit, SessionInv, Typed, InitKnown, ForgottenNone, KeyAlone, LoginAlone, TenantKept, Placed

\* A request that is sent, while nothing of the tab changes but where it goes.
LEMMA AskKeeps ==
  ASSUME SessionInv, NEW kind \in {"login", "reset", "logout", "data"}, NEW t \in TabRecord,
         Ask(kind, t), UNCHANGED <<cookie, account>>,
         "key" \notin asked, tab.screen # "boot",
         t = tab \/ (kind = "login" /\ tab.screen = "login" /\ t = [tab EXCEPT !.tenant = TRUE]),
         kind = "login" => t.tenant
  PROVE  SessionInv'
<1> DEFINE x == t.crossed \/ (asked \ {kind} # {} /\ asked' \cap {"login", "reset"} # {})
<1>1. asked' = asked \cup {kind} /\ tab' = [t EXCEPT !.crossed = x] BY DEF Ask
<1>2. x \in BOOLEAN BY DEF TabRecord
<1>3. x => x OBVIOUS
<1>4. ~x => ~t.crossed /\ (asked \ {kind} = {} \/ asked' \cap {"login", "reset"} = {}) OBVIOUS
<1> HIDE DEF x
<1>5. /\ tab'.user = t.user /\ tab'.init = t.init /\ tab'.kept = t.kept /\ tab'.tenant = t.tenant
      /\ tab'.screen = t.screen /\ tab'.going = t.going /\ tab'.crossed = x
      /\ tab' \in TabRecord
  BY <1>1, <1>2 DEF TabRecord
<1>6. /\ t.user = tab.user /\ t.init = tab.init /\ t.kept = tab.kept
      /\ tab.tenant => t.tenant
      /\ t.screen = tab.screen /\ t.going = tab.going /\ t.crossed = tab.crossed
  BY DEF TabRecord, SessionInv, Typed
<1>7. Typed' BY <1>1, <1>5, Names DEF SessionInv, Typed
<1>8. InitKnown' /\ KeyAlone' BY <1>1, <1>5, <1>6 DEF SessionInv, InitKnown, KeyAlone
<1>11. ForgottenNone' BY <1>1, <1>4, <1>5, <1>6 DEF SessionInv, ForgottenNone
<1>9. LoginAlone' BY <1>1, <1>4, <1>5, <1>6 DEF SessionInv, LoginAlone
<1>10. TenantKept' /\ Placed' BY <1>4, <1>5, <1>6 DEF SessionInv, TenantKept, Placed
<1> QED BY <1>7, <1>8, <1>9, <1>10, <1>11 DEF SessionInv

\* The acts of the user that send a request.
LEMMA RequestStep ==
  ASSUME SessionInv, SubmitLogin \/ SubmitReset \/ Logout \/ Fetch
  PROVE  SessionInv'
<1>1. tab \in TabRecord /\ [tab EXCEPT !.tenant = TRUE] \in TabRecord
  BY DEF SessionInv, Typed, TabRecord
<1>2. UNCHANGED <<cookie, account>>
  BY DEF SubmitLogin, SubmitReset, Logout, Fetch, TabAct, SessionInv, Typed
<1>3. tab.screen # "boot" /\ "key" \notin asked
  BY Names DEF SubmitLogin, SubmitReset, Logout, Fetch, SessionInv, KeyAlone
<1>4. CASE SubmitLogin
  <2>1. [tab EXCEPT !.tenant = TRUE].tenant BY <1>1 DEF TabRecord
  <2> QED BY <1>1, <1>2, <1>3, <1>4, <2>1, AskKeeps DEF SubmitLogin
<1>5. CASE SubmitReset BY <1>1, <1>2, <1>3, <1>5, AskKeeps DEF SubmitReset
<1>6. CASE Logout BY <1>1, <1>2, <1>3, <1>6, AskKeeps DEF Logout
<1>7. CASE Fetch BY <1>1, <1>2, <1>3, <1>7, AskKeeps DEF Fetch
<1> QED BY <1>4, <1>5, <1>6, <1>7

\* A page that is loaded forgets what was asked.
LEMMA LoadStep ==
  ASSUME SessionInv, Reload \/ KeyLink \/ ResetLink
  PROVE  SessionInv'
<1>0. tab \in TabRecord /\ tab.kept \in Roles \cup {"none"} /\ tab.tenant \in BOOLEAN
      /\ tab.crossed \in BOOLEAN /\ tab.screen \in Screens \cup {"boot"}
  BY DEF SessionInv, Typed, TabRecord
<1>1. PICK shown \in Screens, tenant \in BOOLEAN :
        /\ tab' = Loading(shown, tab.kept, tenant, tab.crossed)
        /\ tab.tenant => tenant
        /\ asked' \in {{}, {"key"}} /\ (asked' = {"key"} => tenant)
        /\ UNCHANGED <<cookie, account>>
  <2>1. CASE Reload BY <1>0, <2>1 DEF Reload, Shown
  <2>2. CASE KeyLink BY <1>0, <2>2, Names DEF KeyLink
  <2>3. CASE ResetLink BY <1>0, <2>3, Names DEF ResetLink
  <2> QED BY <2>1, <2>2, <2>3
<1>2. /\ tab' \in TabRecord /\ tab'.init = "no" /\ tab'.screen = "boot" /\ tab'.kept = tab.kept
      /\ tab'.tenant = tenant /\ tab'.crossed = tab.crossed
  BY <1>0, <1>1, Loaded
<1>3. Typed' /\ InitKnown' /\ ForgottenNone' /\ KeyAlone' /\ LoginAlone'
  BY <1>1, <1>2, Names DEF SessionInv, Typed, InitKnown, ForgottenNone, KeyAlone, LoginAlone
<1>4. TenantKept' /\ Placed'
  BY <1>1, <1>2, Names DEF SessionInv, TenantKept, Placed
<1> QED BY <1>3, <1>4 DEF SessionInv

\* A click or an address that changes where the tab goes.
LEMMA GoingStep ==
  ASSUME SessionInv, SwitchRole \/ \E screen \in Screens : Navigate(screen)
  PROVE  SessionInv'
<1>1. tab \in TabRecord BY DEF SessionInv, Typed
<1>2. PICK going \in Screens, mode \in {"default", "admin"} :
        /\ UNCHANGED <<asked, cookie, account>>
        /\ tab' = [tab EXCEPT !.mode = mode, !.going = going, !.forced = FALSE]
  <2>1. CASE SwitchRole
    <3> DEFINE mode == IF tab.mode = "admin" THEN "default" ELSE "admin"
               going == IF tab.mode = "admin" THEN "home" ELSE IF isAdmin THEN "tenant" ELSE "groups"
    <3>1. mode \in {"default", "admin"} /\ going \in Screens BY Names
    <3>2. tab' = [tab EXCEPT !.mode = mode, !.going = going, !.forced = FALSE]
      BY <1>1, <2>1 DEF SwitchRole, TabRecord
    <3> QED BY <2>1, <3>1, <3>2 DEF SwitchRole
  <2>2. ASSUME NEW screen \in Screens, Navigate(screen)
        PROVE  \E going \in Screens, mode \in {"default", "admin"} :
                 /\ UNCHANGED <<asked, cookie, account>>
                 /\ tab' = [tab EXCEPT !.mode = mode, !.going = going, !.forced = FALSE]
    <3> DEFINE going == IF screen = "glossary" /\ tab.init # "no" THEN glossaryMatch(tab) ELSE screen
    <3>1. going \in Screens BY Names DEF glossaryMatch
    <3>2. tab' = [tab EXCEPT !.going = going, !.forced = FALSE] BY <2>2 DEF Navigate
    <3> HIDE DEF going
    <3>3. tab' = [tab EXCEPT !.mode = tab.mode, !.going = going, !.forced = FALSE]
          /\ tab.mode \in {"default", "admin"}
      BY <1>1, <3>2 DEF TabRecord
    <3> QED BY <2>2, <3>1, <3>3 DEF Navigate
  <2> QED BY <2>1, <2>2
<1>3. /\ tab'.user = tab.user /\ tab'.init = tab.init /\ tab'.kept = tab.kept
      /\ tab'.tenant = tab.tenant /\ tab'.screen = tab.screen /\ tab'.crossed = tab.crossed
      /\ tab'.going # "none" /\ tab' \in TabRecord
  BY <1>1, <1>2, Names DEF TabRecord
<1> QED
  BY <1>2, <1>3 DEF SessionInv, Typed, InitKnown, ForgottenNone, KeyAlone, LoginAlone, TenantKept, Placed

\* What others do to the session and the account.
LEMMA ServerStep ==
  ASSUME SessionInv, Expire \/ Regrade
  PROVE  SessionInv'
<1>1. /\ UNCHANGED <<tab, asked>>
      /\ cookie' \in Roles \cup {"none"} /\ account' \in Roles
      /\ cookie = "none" => cookie' = "none"
  BY DEF Expire, Regrade, TabAct, SessionInv, Typed
<1> QED
  BY <1>1 DEF SessionInv, Typed, InitKnown, ForgottenNone, KeyAlone, LoginAlone, TenantKept, Placed

----------------------------------------------------------------------------
(* Navigations.                                                            *)

\* The guards admit whom they say.
LEMMA AdmittedFits ==
  ASSUME SessionInv, NEW next \in Guarded
  PROVE  /\ Admitted(next) \in Screens \cup {Stay}
         /\ Admitted(next) = next => Fits(next, tab.user)
         /\ Admitted(next) = Stay => tab.user # "none"
<1> USE DEF Stay, isAuthenticated, isAdmin, isGroupAdminOnly, canAccessAdminConsole
<1>1. tab.user \in {"USER", "GROUP", "ADMIN", "none"}
  BY DEF SessionInv, Typed, TabRecord, Roles
<1>2. CASE tab.user = "none"
  <2>1. Admitted(next) = "login" BY <1>2 DEF Admitted, authGuard
  <2> QED BY <2>1, Names
<1>3. CASE tab.user # "none" /\ next = "people"
  BY <1>3, Names DEF Admitted, Fits, adminGuard
<1>4. CASE tab.user # "none" /\ next \in {"tenant", "groups", "group"}
  <2>1. CASE ~canAccessAdminConsole
    <3>1. Admitted(next) = "home" BY <1>4, <2>1 DEF Admitted, adminConsoleGuard
    <3> QED BY <1>4, <3>1, Names
  <2>2. CASE canAccessAdminConsole /\ next = "tenant"
    BY <1>4, <2>2, Names DEF Admitted, Fits, tenantAdminGuard
  <2>3. CASE canAccessAdminConsole /\ next = "group"
    BY <1>4, <2>3, Names DEF Admitted, Fits, groupAccessGuard
  <2>4. CASE canAccessAdminConsole /\ next = "groups"
    BY <1>4, <2>4, Names DEF Admitted, Fits
  <2> QED BY <1>4, <2>1, <2>2, <2>3, <2>4
<1>5. CASE tab.user # "none" /\ next \in {"home", "glossary"}
  BY <1>5, Names DEF Admitted, Fits
<1> QED BY <1>1, <1>2, <1>3, <1>4, <1>5 DEF Guarded

LEMMA InitializeStep ==
  ASSUME SessionInv, Initialize
  PROVE  SessionInv'
<1> DEFINE t == ensureInitialized(tab)
           u == [t EXCEPT !.going = IF tab.going = "glossary" THEN glossaryMatch(t) ELSE @]
           x == u.crossed \/ (asked \ {"session"} # {} /\ asked' \cap {"login", "reset"} # {})
<1>1. /\ asked' = asked \cup {"session"} /\ tab' = [u EXCEPT !.crossed = x]
      /\ UNCHANGED <<cookie, account>>
      /\ tab.init = "no" /\ "key" \notin asked
  BY DEF Initialize, Ask
<1>2. /\ t \in TabRecord /\ t.init = "running" /\ t.kept = tab.kept /\ t.tenant = tab.tenant
      /\ t.screen = tab.screen /\ t.going = tab.going /\ t.crossed = tab.crossed
      /\ tab.kept = "none" => t.user = tab.user
  BY <1>1 DEF ensureInitialized, restoreFromStorage, SessionInv, Typed, TabRecord
<1> HIDE DEF t
<1>3. /\ u \in TabRecord /\ u.init = "running" /\ u.kept = tab.kept /\ u.tenant = tab.tenant
      /\ u.screen = tab.screen /\ u.going # "none" /\ u.crossed = tab.crossed
      /\ u.user = t.user
  <2> DEFINE going == IF tab.going = "glossary" THEN glossaryMatch(t) ELSE t.going
  <2>1. going \in Screens BY <1>2, Names DEF glossaryMatch, Initialize
  <2>2. u = [t EXCEPT !.going = going] BY <1>2 DEF TabRecord
  <2> HIDE DEF going, u
  <2> QED BY <1>2, <2>1, <2>2, Names DEF TabRecord
<1>4. /\ x \in BOOLEAN
      /\ ~x => ~tab.crossed /\ (asked \ {"session"} = {} \/ asked' \cap {"login", "reset"} = {})
  BY <1>3 DEF TabRecord
<1> HIDE DEF u, x
<1>5. /\ tab' \in TabRecord /\ tab'.init = "running" /\ tab'.kept = tab.kept
      /\ tab'.tenant = tab.tenant /\ tab'.screen = tab.screen /\ tab'.going # "none"
      /\ tab'.crossed = x
      /\ tab.kept = "none" => tab'.user = tab.user
  BY <1>1, <1>2, <1>3, <1>4 DEF TabRecord
<1>6. Typed' BY <1>1, <1>5, Names DEF SessionInv, Typed
<1>7. InitKnown' /\ KeyAlone' BY <1>1, <1>5 DEF InitKnown, KeyAlone
<1>11. ForgottenNone' BY <1>1, <1>4, <1>5 DEF SessionInv, ForgottenNone
<1>8. LoginAlone' BY <1>1, <1>4, <1>5 DEF SessionInv, LoginAlone
<1>9. TenantKept'
  <2> SUFFICES ASSUME tab'.kept # "none", ~tab'.crossed PROVE tab'.tenant
    BY DEF TenantKept
  <2>1. ~x BY <1>5
  <2>2. ~tab.crossed BY <1>4, <2>1
  <2> QED BY <1>5, <2>2 DEF SessionInv, TenantKept
<1>10. Placed' BY <1>1, <1>4, <1>5 DEF SessionInv, Placed
<1> QED BY <1>6, <1>7, <1>8, <1>9, <1>10, <1>11 DEF SessionInv

LEMMA DecideStep ==
  ASSUME SessionInv, Decide
  PROVE  SessionInv'
<1> DEFINE next == CASE tab.going = "login" -> noAuthGuard
                     [] tab.going = "reset" -> "reset"
                     [] OTHER -> Admitted(tab.going)
<1>1. /\ tab.going # "none" /\ "key" \notin asked
      /\ tab.going \in Guarded => tab.init = "done"
      /\ UNCHANGED <<cookie, account, asked>>
      /\ tab' = IF next = Stay
                THEN [tab EXCEPT !.going = "none",
                                 !.screen = IF @ = "boot" THEN "login" ELSE @]
                ELSE IF next = tab.going THEN Arrived(next)
                ELSE [tab EXCEPT !.going = next]
  BY DEF Decide
<1>2. /\ next \in Screens \cup {Stay}
      /\ next = tab.going /\ tab.going \in Guarded => Fits(tab.going, tab.user)
      /\ next = Stay => tab.user # "none" /\ tab.going \in Guarded
  <2>1. CASE tab.going \in Guarded
    <3>1. next = Admitted(tab.going) BY <2>1, Names
    <3> QED BY <2>1, <3>1, AdmittedFits, Names
  <2>2. CASE tab.going = "login"
    <3>1. next = noAuthGuard BY <2>2
    <3>2. next = "home" \/ next = "login" BY <3>1 DEF noAuthGuard
    <3> QED BY <2>2, <3>2, Names DEF Stay
  <2>3. CASE tab.going = "reset"
    <3>1. next = "reset" BY <2>3
    <3> QED BY <2>3, <3>1, Names DEF Stay
  <2>4. tab.going \in Screens BY <1>1 DEF SessionInv, Typed, TabRecord
  <2> QED BY <2>1, <2>2, <2>3, <2>4, Names
<1> HIDE DEF next
<1>3. tab \in TabRecord BY DEF SessionInv, Typed, TabRecord
<1>4. /\ tab'.user = tab.user /\ tab'.init = tab.init /\ tab'.kept = tab.kept
      /\ tab'.tenant = tab.tenant /\ tab'.crossed = tab.crossed /\ tab' \in TabRecord
  <2>1. CASE next = Stay
    <3> DEFINE screen == IF tab.screen = "boot" THEN "login" ELSE tab.screen
    <3>1. screen \in Screens BY <1>3, Names DEF TabRecord
    <3>2. tab' = [tab EXCEPT !.going = "none", !.screen = screen] BY <1>1, <1>3, <2>1 DEF TabRecord
    <3> HIDE DEF screen
    <3> QED BY <1>3, <3>1, <3>2 DEF TabRecord
  <2>2. CASE next # Stay /\ next = tab.going
    <3> DEFINE mode == checkAdminRoute(next)
    <3>1. mode \in {"default", "admin"} BY DEF checkAdminRoute
    <3>2. tab' = [tab EXCEPT !.screen = next, !.going = "none", !.mode = mode]
      BY <1>1, <2>2 DEF Arrived
    <3> HIDE DEF mode
    <3> QED BY <1>2, <1>3, <2>2, <3>1, <3>2 DEF TabRecord, Stay
  <2>3. CASE next # Stay /\ next # tab.going
    <3>1. tab' = [tab EXCEPT !.going = next] BY <1>1, <2>3
    <3> QED BY <1>2, <1>3, <2>3, <3>1 DEF TabRecord, Stay
  <2> QED BY <2>1, <2>2, <2>3
<1>5. Typed' BY <1>1, <1>4 DEF SessionInv, Typed
<1>6. InitKnown' /\ ForgottenNone' /\ KeyAlone' /\ LoginAlone' /\ TenantKept'
  BY <1>1, <1>4 DEF SessionInv, InitKnown, ForgottenNone, KeyAlone, LoginAlone, TenantKept
<1>7. Placed'
  <2>1. CASE next = Stay
    <3>1. tab'.screen = IF tab.screen = "boot" THEN "login" ELSE tab.screen
      BY <1>1, <1>3, <2>1 DEF TabRecord
    <3>2. tab.user # "none" /\ tab.init = "done" BY <1>1, <1>2, <2>1
    <3>3. tab'.screen \in Guarded => tab.screen \in Guarded /\ tab'.screen = tab.screen
      BY <3>1, Names
    <3> QED BY <1>4, <3>2, <3>3 DEF SessionInv, Placed
  <2>2. CASE next # Stay /\ next = tab.going
    <3>1. tab'.screen = tab.going BY <1>1, <1>3, <2>2 DEF TabRecord, Arrived
    <3> QED BY <1>1, <1>2, <1>4, <2>2, <3>1 DEF SessionInv, Placed
  <2>3. CASE next # Stay /\ next # tab.going
    <3>1. tab'.screen = tab.screen /\ tab'.going # "none"
      BY <1>1, <1>2, <1>3, <2>3 DEF TabRecord, Stay
    <3> QED BY <1>1, <1>4, <3>1 DEF SessionInv, Placed
  <2> QED BY <2>1, <2>2, <2>3
<1> QED BY <1>5, <1>6, <1>7 DEF SessionInv

----------------------------------------------------------------------------
(* Answers.                                                                *)

\* An answer that leaves the tab alone, or only sends it to the login.
LEMMA QuietAnswer ==
  ASSUME SessionInv, NEW kind \in Kinds, TakeAnswer(kind), UNCHANGED <<tab, cookie>>
  PROVE  SessionInv'
BY DEF TakeAnswer, SessionInv, Typed, InitKnown, ForgottenNone, KeyAlone, LoginAlone, TenantKept, Placed

LEMMA DataAnswerStep ==
  ASSUME SessionInv, DataAnswer
  PROVE  SessionInv'
<1>1. CASE cookie # "none" BY <1>1, QuietAnswer, Names DEF DataAnswer
<1>2. CASE cookie = "none"
  <2>1. "data" \in asked /\ asked' = asked \ {"data"} /\ UNCHANGED <<cookie, account>>
    BY DEF DataAnswer, TakeAnswer
  <2>2. tab' = unauthorized(tab) /\ tab \in TabRecord
    BY <1>2 DEF DataAnswer, SessionInv, Typed
  <2>3. /\ tab' \in TabRecord /\ tab'.kept = "none" /\ tab'.init = tab.init /\ tab'.user = tab.user
        /\ tab'.screen = tab.screen /\ tab'.going = "login" /\ tab'.crossed = tab.crossed
    BY <2>2, Leaving
  <2>4. Typed' /\ InitKnown' /\ ForgottenNone' BY <2>1, <2>3 DEF SessionInv, Typed, InitKnown, ForgottenNone
  <2>5. KeyAlone' /\ LoginAlone' BY <2>1, <2>3 DEF SessionInv, KeyAlone, LoginAlone
  <2>6. TenantKept' /\ Placed' BY <2>1, <2>3 DEF SessionInv, TenantKept, Placed
  <2> QED BY <2>4, <2>5, <2>6 DEF SessionInv
<1> QED BY <1>1, <1>2

LEMMA SessionAnswerStep ==
  ASSUME SessionInv, SessionAnswer
  PROVE  SessionInv'
<1>1. PICK role \in {"none", IF tab.tenant THEN cookie ELSE "none"} : tab' = sessionKnown(tab, role, "done")
  BY DEF SessionAnswer, SessionAnswered
<1>2. /\ "session" \in asked /\ asked' = asked \ {"session"}
      /\ UNCHANGED <<cookie, account>>
  BY DEF SessionAnswer, SessionAnswered, TakeAnswer
<1>3. /\ tab.init # "done" /\ "key" \notin asked
      /\ ~tab.crossed => "login" \notin asked /\ "reset" \notin asked
  BY <1>2 DEF SessionInv, InitKnown, ForgottenNone, KeyAlone, LoginAlone
<1>4. role \in Roles \cup {"none"} /\ (role # "none" => tab.tenant /\ role = cookie)
  BY DEF SessionInv, Typed
<1>5. /\ tab'.init = "done" /\ tab'.screen = tab.screen /\ tab'.going = tab.going
      /\ tab'.crossed = tab.crossed /\ tab' \in TabRecord
      /\ IF role = "none" THEN tab'.user = "none" /\ tab'.kept = "none"
         ELSE tab'.tenant = tab.tenant
  <2> DEFINE u == sessionKnown(tab, role, "done")
  <2>1. tab \in TabRecord BY DEF SessionInv, Typed
  <2>3. "done" \in {"no", "running", "done"} /\ role \in Roles \cup {"none"} BY <1>4
  <2>2. /\ u \in TabRecord /\ u.init = "done" /\ u.screen = tab.screen /\ u.going = tab.going
        /\ u.crossed = tab.crossed
        /\ IF role = "none" THEN u.user = "none" /\ u.kept = "none" ELSE u.tenant = tab.tenant
    BY <2>1, <2>3, KnownSession
  <2> QED BY <1>1, <2>2
<1>6. Typed' BY <1>2, <1>5 DEF SessionInv, Typed, TabRecord
<1>7. InitKnown' /\ ForgottenNone' /\ KeyAlone' /\ LoginAlone'
  <2>1. InitKnown' /\ KeyAlone' BY <1>2, <1>3, <1>5 DEF InitKnown, KeyAlone
  <2>2. LoginAlone' BY <1>2, <1>3, <1>5 DEF LoginAlone
  <2>3. ForgottenNone' BY <1>2, <1>4, <1>5 DEF SessionInv, ForgottenNone
  <2> QED BY <2>1, <2>2, <2>3
<1>8. TenantKept' BY <1>4, <1>5 DEF TenantKept
<1>9. Placed' BY <1>2, <1>3, <1>4, <1>5 DEF SessionInv, Placed
<1> QED BY <1>6, <1>7, <1>8, <1>9 DEF SessionInv

\* An answer that a logout left behind finds no session, unless requests crossed.
LEMMA ForgottenStep ==
  ASSUME SessionInv, ForgottenAnswer
  PROVE  SessionInv'
<1>1. PICK role \in {"none", IF tab.tenant THEN cookie ELSE "none"} :
        tab' = sessionKnown(tab, role, tab.init)
  BY DEF ForgottenAnswer, SessionAnswered
<1>2. /\ "forgotten" \in asked /\ asked' \subseteq asked /\ UNCHANGED <<cookie, account>>
      /\ asked' = asked \/ asked' = asked \ {"forgotten"}
  BY DEF ForgottenAnswer, SessionAnswered
<1>3. /\ tab \in TabRecord /\ tab.init \in {"no", "running", "done"}
      /\ role \in Roles \cup {"none"} /\ (role # "none" => tab.tenant /\ role = cookie)
  BY DEF SessionInv, Typed, TabRecord
<1>4. /\ tab'.init = tab.init /\ tab'.screen = tab.screen /\ tab'.going = tab.going
      /\ tab'.crossed = tab.crossed /\ tab' \in TabRecord
      /\ IF role = "none" THEN tab'.user = "none" /\ tab'.kept = "none"
         ELSE tab'.tenant = tab.tenant
  <2>3. /\ tab \in TabRecord /\ role \in Roles \cup {"none"}
        /\ tab.init \in {"no", "running", "done"}
    BY <1>3
  <2> DEFINE i == tab.init
             u == sessionKnown(tab, role, i)
  <2>4. i \in {"no", "running", "done"} BY <2>3
  <2>1. /\ u \in TabRecord /\ u.init = i /\ u.screen = tab.screen /\ u.going = tab.going
        /\ u.crossed = tab.crossed
        /\ IF role = "none" THEN u.user = "none" /\ u.kept = "none" ELSE u.tenant = tab.tenant
    <3> HIDE DEF i
    <3>1. tab \in TabRecord BY <2>3
    <3>2. role \in Roles \cup {"none"} BY <2>3
    <3> QED BY <3>1, <3>2, <2>4, KnownSession, ZenonT(60)
  <2> QED BY <1>1, <2>1
<1>5. ~tab.crossed => role = "none" /\ tab.user = "none" /\ tab.kept = "none" /\ cookie = "none"
  BY <1>2, <1>3 DEF SessionInv, ForgottenNone
<1>6. "key" \notin asked BY <1>2 DEF SessionInv, KeyAlone
<1>7. Typed' BY <1>2, <1>4 DEF SessionInv, Typed
<1>8. InitKnown' /\ ForgottenNone' /\ KeyAlone'
  BY <1>2, <1>4, <1>5, <1>6 DEF SessionInv, InitKnown, ForgottenNone, KeyAlone
<1>9. LoginAlone' BY <1>2, <1>4 DEF SessionInv, LoginAlone
<1>10. TenantKept' BY <1>3, <1>4 DEF TenantKept
<1>11. Placed' BY <1>2, <1>4, <1>5 DEF SessionInv, Placed
<1> QED BY <1>7, <1>8, <1>9, <1>10, <1>11 DEF SessionInv

\* A login or a new password that is accepted.
LEMMA AcceptedKeeps ==
  ASSUME SessionInv, NEW kind \in {"login", "reset"}, TakeAnswer(kind), tab.tenant,
         tab' = handleAuthSuccess(tab, account), cookie' = account
  PROVE  SessionInv'
<1>1. kind \in asked /\ asked' = asked \ {kind} /\ UNCHANGED <<account>> BY DEF TakeAnswer
<1>2. /\ tab'.user = account /\ tab'.kept = account /\ tab'.tenant = tab.tenant
      /\ tab'.init = tab.init /\ tab'.screen = tab.screen /\ tab'.going = "home"
      /\ tab'.crossed = (tab.crossed \/ tab.screen \in Guarded) /\ tab' \in TabRecord
  BY Entered DEF SessionInv, Typed
<1>3. Typed' BY <1>1, <1>2 DEF SessionInv, Typed
<1>4. InitKnown' /\ KeyAlone' BY <1>1, <1>2 DEF SessionInv, InitKnown, KeyAlone
<1>7. ForgottenNone' BY <1>1, <1>2 DEF SessionInv, ForgottenNone, LoginAlone
<1>5. LoginAlone' BY <1>1, <1>2 DEF SessionInv, LoginAlone
<1>6. TenantKept' /\ Placed' BY <1>2 DEF TenantKept, Placed
<1> QED BY <1>3, <1>4, <1>5, <1>6, <1>7 DEF SessionInv

LEMMA LoginAnswerStep ==
  ASSUME SessionInv, LoginAnswer
  PROVE  SessionInv'
<1>1. "login" \in asked /\ asked' = asked \ {"login"} /\ UNCHANGED <<account>>
  BY DEF LoginAnswer, TakeAnswer
<1>2. CASE UNCHANGED <<tab, cookie>> BY <1>2, QuietAnswer, Names DEF LoginAnswer
<1>3. CASE tab' = handleAuthSuccess(tab, account) /\ cookie' = account
  <2>1. CASE tab.tenant BY <1>3, <2>1, AcceptedKeeps DEF LoginAnswer
  <2>2. CASE ~tab.tenant
    <3>1. tab.crossed BY <1>1, <2>2 DEF SessionInv, LoginAlone
    <3>2. tab'.crossed /\ tab'.init = tab.init /\ tab' \in TabRecord
      BY <1>3, <3>1, Entered DEF SessionInv, Typed
    <3>3. Typed' BY <1>1, <1>3, <3>2 DEF SessionInv, Typed, TabRecord
    <3>4. InitKnown' /\ ForgottenNone' /\ KeyAlone' BY <1>1, <3>2 DEF SessionInv, InitKnown, ForgottenNone, KeyAlone
    <3> QED BY <3>2, <3>3, <3>4 DEF SessionInv, LoginAlone, TenantKept, Placed
  <2> QED BY <2>1, <2>2
<1>4. CASE tab' = requiresReset(tab) /\ UNCHANGED cookie
  <2>1. /\ tab' \in TabRecord /\ tab'.kept = "none" /\ tab'.init = tab.init /\ tab'.user = "none"
        /\ tab'.screen = tab.screen /\ tab'.going = "reset" /\ tab'.crossed = tab.crossed
    BY <1>4, Leaving DEF SessionInv, Typed
  <2>2. Typed' /\ InitKnown' /\ ForgottenNone' BY <1>1, <1>4, <2>1 DEF SessionInv, Typed, InitKnown, ForgottenNone
  <2>3. KeyAlone' BY <1>1, <2>1 DEF SessionInv, KeyAlone
  <2>4. LoginAlone' BY <1>1, <2>1 DEF SessionInv, LoginAlone
  <2>5. TenantKept' /\ Placed' BY <1>4, <2>1 DEF SessionInv, TenantKept, Placed
  <2> QED BY <2>2, <2>3, <2>4, <2>5 DEF SessionInv
<1> QED BY <1>2, <1>3, <1>4 DEF LoginAnswer

LEMMA ResetAnswerStep ==
  ASSUME SessionInv, ResetAnswer
  PROVE  SessionInv'
BY QuietAnswer, AcceptedKeeps, Names DEF ResetAnswer

LEMMA KeyAnswerStep ==
  ASSUME SessionInv, KeyAnswer
  PROVE  SessionInv'
<1>1. asked = {"key"} /\ asked' = {} /\ tab.screen = "boot" /\ tab.tenant
      /\ UNCHANGED <<account>>
  BY DEF KeyAnswer, TakeAnswer, SessionInv, KeyAlone
<1>2. PICK role \in {account, "none"} : tab' = keyKnown(tab, role) /\ cookie' \in {account, cookie}
  BY DEF KeyAnswer
<1>3. /\ tab'.screen = "boot" /\ tab'.crossed = tab.crossed /\ tab' \in TabRecord
      /\ tab'.kept = "none" \/ tab'.tenant
  <2>1. tab \in TabRecord /\ role \in Roles \cup {"none"} BY DEF SessionInv, Typed
  <2> DEFINE u == keyKnown(tab, role)
  <2>2. /\ u \in TabRecord /\ u.screen = tab.screen /\ u.crossed = tab.crossed
        /\ u.kept = "none" \/ u.tenant = tab.tenant
    BY <2>1, KnownKey
  <2> QED BY <1>1, <1>2, <2>2
<1>4. Typed' BY <1>1, <1>2, <1>3 DEF SessionInv, Typed
<1>5. InitKnown' /\ ForgottenNone' /\ KeyAlone' /\ LoginAlone' BY <1>1 DEF InitKnown, ForgottenNone, KeyAlone, LoginAlone
<1>6. TenantKept' /\ Placed' BY <1>3, Names DEF TenantKept, Placed
<1> QED BY <1>4, <1>5, <1>6 DEF SessionInv

LEMMA LogoutAnswerStep ==
  ASSUME SessionInv, LogoutAnswer
  PROVE  SessionInv'
<1>1. CASE TakeAnswer("logout") /\ UNCHANGED <<tab, cookie>> BY <1>1, QuietAnswer, Names
<1>2. CASE /\ "logout" \in asked /\ asked' = forget(asked \ {"logout"})
           /\ tab' = loggedOut(tab) /\ cookie' = "none" /\ UNCHANGED <<account, acts>>
  <2>1. /\ UNCHANGED account /\ "logout" \in asked /\ "session" \notin asked'
        /\ asked' \subseteq asked \cup {"forgotten"}
    BY <1>2 DEF forget
  <2>7. "key" \notin asked BY <2>1 DEF SessionInv, KeyAlone
  <2>2. /\ tab'.user = "none" /\ tab'.kept = "none" /\ tab'.init = "no" /\ tab'.going = "login"
        /\ tab'.screen = tab.screen /\ tab'.crossed = tab.crossed /\ tab' \in TabRecord
    BY <1>2, Leaving DEF SessionInv, Typed
  <2>3. Typed' BY <1>2, <2>1, <2>2, Names DEF SessionInv, Typed
  <2>4. InitKnown' /\ ForgottenNone' /\ KeyAlone'
    BY <1>2, <2>1, <2>2, <2>7 DEF InitKnown, ForgottenNone, KeyAlone
  <2>5. LoginAlone' BY <2>1, <2>2 DEF SessionInv, LoginAlone
  <2>6. TenantKept' /\ Placed' BY <1>2, <2>2 DEF TenantKept, Placed
  <2> QED BY <2>3, <2>4, <2>5, <2>6 DEF SessionInv
<1> QED BY <1>1, <1>2 DEF LogoutAnswer

----------------------------------------------------------------------------

\* Every step of the user, the server and the guards keeps the invariant.
LEMMA SessionNext == SessionInv /\ [TabNext]_tabVars => SessionInv'
<1> SUFFICES ASSUME SessionInv, [TabNext]_tabVars PROVE SessionInv'
  OBVIOUS
<1>1. CASE UNCHANGED tabVars
  BY <1>1 DEF tabVars, SessionInv, Typed, InitKnown, ForgottenNone, KeyAlone, LoginAlone, TenantKept, Placed
<1>2. CASE TabNext
  BY <1>2, InitializeStep, DecideStep, GoingStep, LoadStep, RequestStep, ServerStep,
     SessionAnswerStep, ForgottenStep, LoginAnswerStep, KeyAnswerStep, ResetAnswerStep, LogoutAnswerStep,
     DataAnswerStep
  DEF TabNext
<1> QED BY <1>1, <1>2

THEOREM SessionInvariant == TabSteps => []SessionInv
BY SessionInit, SessionNext, PTL DEF TabSteps

\* At rest, a protected screen is shown to a user whom its guards admit, however
\* many sessions, logins, logouts and navigations came before, unless a login
\* crossed another request or a navigation (authGuard, adminConsoleGuard,
\* tenantAdminGuard, groupAccessGuard).
THEOREM GuardsAdmit == TabSteps => []AdmittedOnly
<1>1. SessionInv => AdmittedOnly
  BY DEF SessionInv, Typed, Placed, Fits, AdmittedOnly
<1> QED BY <1>1, SessionInvariant, PTL

\* A tab that remembers its user remembers the tenant (saveToStorage,
\* saveUserToStorage, clearStorage, errorInterceptor).
THEOREM TenantIsKept == TabSteps => []TenantKept
<1>1. SessionInv => TenantKept BY DEF SessionInv
<1> QED BY <1>1, SessionInvariant, PTL

----------------------------------------------------------------------------
(***************************************************************************)
(* Proofs about ChatPages, for any assistants, rooms and number of steps.  *)
(*                                                                         *)
(* One active room serves all pages, so what a page sends is right only by *)
(* what is still on its way: Waits and OncePerVisit say that of the        *)
(* answers, Uncrossed what pages and ChatService agree on while no answer  *)
(* came for a page that was left, Opened what a dialog rests on.           *)
(***************************************************************************)

ChatRoom == DOMAIN Default \cup NewRooms \cup {SharedRoom}
RoomOrNone == ChatRoom \cup {RoomUnset}

ChatPageTypes ==
  /\ page \in [kind : {"new", "assistant", "room", "history", "detail", "shared"},
               room : RoomOrNone, visit : Nat, inst : Nat]
  /\ chat \in [active : RoomOrNone, context : RoomOrNone]
  /\ DOMAIN known \subseteq ChatRoom
  /\ move.room \in RoomOrNone
  /\ dialog.room \in RoomOrNone /\ (dialog.kind = "none" \/ dialog # NoneOpen)
  /\ DOMAIN box = DOMAIN NewBox

\* An answer on its way is for a page of before, or for one that waits for it.
Waits ==
  \A c \in calls :
    /\ c.room \in ChatRoom
    /\ c.visit \in Nat /\ c.visit <= page.visit
    /\ c.inst \in Nat /\ c.inst <= page.inst
    /\ c.visit = page.visit => page.room = RoomUnset
    /\ c.kind # "access" /\ c.visit = page.visit => page.kind # "shared"
    /\ c.kind = "access" /\ c.inst = page.inst => c.visit = page.visit
    /\ c.kind = "access" /\ c.visit = page.visit => c.inst = page.inst /\ page.kind = "shared"

OncePerVisit ==
  \A c, d \in calls : c.kind = "access" /\ d.kind = "access" /\ c.visit = d.visit => c = d

Uncrossed ==
  ~crossed =>
    /\ page.room # RoomUnset => chat.active = page.room
    /\ chat.context # RoomUnset => page.kind \in {"shared", "detail"} /\ page.room = chat.context

Opened ==
  dialog.kind # "none" => page.room # RoomUnset /\ (crossed \/ dialog.room = page.room)

Highlighted ==
  /\ box.index \in Nat \ {0}
  /\ box.index = 1 \/ (box.text.at /\ box.index <= Cardinality(matches(box.text)))

ChatPageInv ==
  /\ ChatPageTypes /\ Waits /\ OncePerVisit /\ Uncrossed /\ Opened /\ Highlighted
  /\ ToRoomShown

----------------------------------------------------------------------------
(* The input.                                                              *)

\* What Highlighted says of an input, given the lines its list has.
Lit(b, lines) ==
  /\ DOMAIN b = DOMAIN NewBox
  /\ b.index \in Nat \ {0}
  /\ b.index = 1 \/ (b.text.at /\ b.index <= lines)

Lines(text) == Cardinality(matches(text))

LEMMA LinesCounted == ASSUME NEW t PROVE Lines(t) \in Nat
<1>1. IsFiniteSet(1..Len(Assistants))
  BY ChatPageAssumption, FS_Interval
<1>2. matches(t) \subseteq 1..Len(Assistants)
  BY ChatPageAssumption DEF matches
<1> QED BY <1>1, <1>2, FS_Subset, FS_CardinalityType DEF Lines

LEMMA NoLinesYet == ASSUME NEW t, ~listed PROVE Lines(t) = 0
<1>1. matches(t) = {} BY DEF matches
<1> QED BY <1>1, FS_EmptySet DEF Lines

LEMMA LitBox == ChatPageTypes /\ Highlighted <=> ChatPageTypes /\ Lit(box, Lines(box.text))
BY DEF ChatPageTypes, Highlighted, Lit, Lines

\* Choosing an assistant leaves the text and the highlight alone.
LEMMA SyncKeeps ==
  ASSUME NEW b, NEW p, NEW c, NEW rooms, NEW fetched, DOMAIN b = DOMAIN NewBox
  PROVE  LET s == syncAssistant(b, p, c, rooms, fetched)
         IN  DOMAIN s = DOMAIN NewBox /\ s.text = b.text /\ s.index = b.index
BY DEF syncAssistant, NewBox

LEMMA SyncLit ==
  ASSUME NEW b, NEW p, NEW c, NEW rooms, NEW fetched, NEW n, Lit(b, n)
  PROVE  Lit(syncAssistant(b, p, c, rooms, fetched), n)
BY SyncKeeps DEF Lit

LEMMA NewBoxLit == ASSUME NEW n PROVE Lit(NewBox, n)
BY DEF Lit, NewBox

\* Only the assistants' arrival changes the lines of a text.
LEMMA SameLines == ASSUME UNCHANGED listed, NEW t PROVE matches(t)' = matches(t)
BY DEF matches

LEMMA LitNext ==
  ASSUME NEW t, listed' = listed, box'.text = t, Lit(box', Lines(t))
  PROVE  Highlighted' /\ DOMAIN box' = DOMAIN NewBox
<1>1. matches(box.text)' = matches(t)
  BY DEF matches
<1> QED BY <1>1 DEF Highlighted, Lit, Lines

LEMMA InputStep ==
  ASSUME ChatPageInv, NEW b, Input(b), Lit(b, Lines(b.text))
  PROVE  ChatPageInv'
<1>1. Lit(box', Lines(b.text)) /\ box'.text = b.text /\ listed' = listed
  BY SyncLit, SyncKeeps DEF Input, Lit
<1>2. Highlighted' /\ DOMAIN box' = DOMAIN NewBox
  BY <1>1, LitNext
<1>3. UNCHANGED <<page, chat, known, dialog, calls, move, crossed, latest>>
  BY DEF Input
<1> QED BY <1>2, <1>3 DEF ChatPageInv, ChatPageTypes, Waits, OncePerVisit, Uncrossed,
      Opened, ToRoomShown

\* The box may change in what is neither the text nor the highlight.
LEMMA OtherFields ==
  ASSUME NEW b, NEW n, Lit(b, n), NEW v
  PROVE  /\ Lit([b EXCEPT !.composing = v], n) /\ [b EXCEPT !.composing = v].text = b.text
         /\ Lit([b EXCEPT !.ended = v], n) /\ [b EXCEPT !.ended = v].text = b.text
         /\ Lit([b EXCEPT !.who = v], n) /\ [b EXCEPT !.who = v].text = b.text
         /\ Lit([b EXCEPT !.dismissed = v], n) /\ [b EXCEPT !.dismissed = v].text = b.text
         /\ Lit([b EXCEPT !.files = v], n) /\ [b EXCEPT !.files = v].text = b.text
         /\ Lit([b EXCEPT !.on = v], n) /\ [b EXCEPT !.on = v].text = b.text
BY DEF Lit, NewBox

\* Typing brings the highlight back into the list.
LEMMA TypedLit ==
  ASSUME NEW b, DOMAIN b = DOMAIN NewBox, b.index \in Nat \ {0}
  PROVE  LET s == syncMentionState(b) IN Lit(s, Lines(s.text))
<1>1. CASE ~b.text.at
  BY <1>1 DEF syncMentionState, Lit, NewBox
<1>2. CASE b.text.at
  <2>1. Len(filterAssistants(b.text)) = Lines(b.text) /\ Lines(b.text) \in Nat
    BY LinesCounted DEF filterAssistants, Lines
  <2>2. /\ syncMentionState(b).text = b.text
        /\ DOMAIN syncMentionState(b) = DOMAIN NewBox
        /\ syncMentionState(b).index =
             (IF b.index <= Lines(b.text) THEN b.index
              ELSE IF Lines(b.text) = 0 THEN 1 ELSE Lines(b.text))
    BY <1>2, <2>1 DEF syncMentionState, NewBox
  <2> QED BY <1>2, <2>1, <2>2 DEF Lit
<1> QED BY <1>1, <1>2

LEMMA MentionLines ==
  ASSUME filteredMentionAssistants # <<>>
  PROVE  box.text.at /\ DOMAIN filteredMentionAssistants = 1..Lines(box.text)
         /\ Len(filteredMentionAssistants) = Lines(box.text)
<1>1. isMentionOpen(box) BY DEF filteredMentionAssistants
<1>2. Lines(box.text) \in Nat BY LinesCounted
<1> QED BY <1>1, <1>2 DEF filteredMentionAssistants, isMentionOpen, filterAssistants, Lines

LEMMA MentionStep ==
  ASSUME ChatPageInv, NEW i, confirmMentionSelection(i)
  PROVE  ChatPageInv'
<1>1. PICK b : /\ b = [box EXCEPT !.text = [Empty EXCEPT !.rest = box.text.rest],
                                  !.who = filteredMentionAssistants[i],
                                  !.dismissed = FALSE, !.index = 1]
               /\ Input(b)
  BY DEF confirmMentionSelection
<1>2. Lit(b, Lines(b.text))
  BY <1>1 DEF ChatPageInv, ChatPageTypes, Lit, NewBox
<1> QED BY <1>1, <1>2, InputStep

LEMMA ChatSendStep ==
  ASSUME ChatPageInv, handleSend
  PROVE  ChatPageInv'
<1> USE DEF ChatPageInv
<1>1. /\ UNCHANGED <<page, chat, known, dialog, move, crossed>> /\ listed' = listed
      /\ box' = Cleared(box)
  BY DEF handleSend
<1>2. Highlighted' /\ DOMAIN box' = DOMAIN NewBox
  <2>1. ~box.text.at BY DEF handleSend, canSend
  <2>2. box'.index = 1 /\ DOMAIN box' = DOMAIN NewBox
    BY <1>1, <2>1 DEF Cleared, Highlighted, ChatPageTypes, NewBox
  <2> QED BY <2>2 DEF Highlighted
<1>3. ChatPageTypes' BY <1>1, <1>2 DEF ChatPageTypes
<1>4. Uncrossed' /\ Opened' BY <1>1 DEF Uncrossed, Opened
<1>5. CASE page.room # RoomUnset
  <2>1. Did("send", chat.active, page.room) /\ UNCHANGED calls
    BY <1>5 DEF handleSend
  <2>2. ToRoomShown' BY <1>5, <2>1 DEF Did, ToRoomShown, Uncrossed
  <2> QED BY <1>1, <1>2, <1>3, <1>4, <2>1, <2>2 DEF Waits, OncePerVisit
<1>6. CASE page.room = RoomUnset
  <2>1. PICK r \in NewRooms : /\ UNCHANGED latest
          /\ calls' = calls \cup {[kind |-> "create", room |-> r, who |-> box.who,
                                   visit |-> page.visit, inst |-> page.inst]}
    BY <1>6 DEF handleSend
  <2>2. page.kind # "shared" BY DEF handleSend, CanType
  <2>3. Waits' BY <1>1, <1>6, <2>1, <2>2 DEF Waits, ChatPageTypes, ChatRoom
  <2>4. OncePerVisit' BY <1>1, <2>1 DEF OncePerVisit
  <2> QED BY <1>2, <1>3, <1>4, <2>1, <2>3, <2>4 DEF ToRoomShown
<1> QED BY <1>5, <1>6

LEMMA TypingStep ==
  ASSUME ChatPageInv, Typing
  PROVE  ChatPageInv'
<1> USE DEF ChatPageInv
<1>0. DOMAIN box = DOMAIN NewBox /\ box.index \in Nat \ {0} /\ Lit(box, Lines(box.text))
  BY LitBox DEF ChatPageTypes, Highlighted
<1>1. CASE onInput
  <2>1. PICK t : Input(syncMentionState([box EXCEPT !.text = t]))
    BY <1>1 DEF onInput
  <2>2. PICK b : b = [box EXCEPT !.text = t] OBVIOUS
  <2>3. DOMAIN b = DOMAIN NewBox /\ b.index \in Nat \ {0}
    BY <1>0, <2>2 DEF NewBox
  <2> QED BY <2>1, <2>2, <2>3, TypedLit, InputStep
<1>2. CASE onCompositionStart
  <2>1. PICK b : b = [box EXCEPT !.composing = TRUE] OBVIOUS
  <2>2. Input([b EXCEPT !.ended = FALSE])
    BY <1>2, <2>1 DEF onCompositionStart
  <2>3. Lit(b, Lines(box.text)) /\ b.text = box.text
    BY <1>0, <2>1, OtherFields
  <2> QED BY <2>2, <2>3, OtherFields, InputStep
<1>3. CASE onCompositionEnd
  <2>1. PICK t : Input(syncMentionState([box EXCEPT !.text = t, !.composing = FALSE,
                                                    !.ended = TRUE]))
    BY <1>3 DEF onCompositionEnd
  <2>2. PICK b : b = [box EXCEPT !.text = t, !.composing = FALSE, !.ended = TRUE] OBVIOUS
  <2>3. DOMAIN b = DOMAIN NewBox /\ b.index \in Nat \ {0}
    BY <1>0, <2>2 DEF NewBox
  <2> QED BY <2>1, <2>2, <2>3, TypedLit, InputStep
<1>4. CASE CompositionOver
  <2>1. Lit(box', Lines(box.text)) /\ box'.text = box.text /\ listed' = listed
    BY <1>0, <1>4, OtherFields DEF CompositionOver
  <2>2. Highlighted' /\ DOMAIN box' = DOMAIN NewBox
    BY <2>1, LitNext
  <2> QED BY <1>4, <2>2 DEF CompositionOver, ChatPageTypes, Waits, OncePerVisit, Uncrossed,
      Opened, ToRoomShown
<1>5. CASE onAssistantSelect
  <2>1. PICK a : Input([box EXCEPT !.who = a]) BY <1>5 DEF onAssistantSelect
  <2> QED BY <1>0, <2>1, OtherFields, InputStep
<1>6. CASE onMentionSelect BY <1>6, MentionStep DEF onMentionSelect
<1>7. CASE onMentionHover
  <2>1. PICK i \in DOMAIN filteredMentionAssistants : Input([box EXCEPT !.index = i])
    BY <1>7 DEF onMentionHover
  <2>2. filteredMentionAssistants # <<>> BY <2>1
  <2>3. i \in 1..Lines(box.text) /\ box.text.at /\ Lines(box.text) \in Nat
    BY <2>1, <2>2, MentionLines, LinesCounted
  <2>4. PICK b : b = [box EXCEPT !.index = i] OBVIOUS
  <2>5. Lit(b, Lines(box.text)) /\ b.text = box.text
    BY <1>0, <2>3, <2>4 DEF Lit, NewBox
  <2> QED BY <2>1, <2>4, <2>5, InputStep
<1>8. CASE arrowKey
  <2>1. PICK b : /\ Input(b)
                 /\ \/ /\ box.index < Len(filteredMentionAssistants)
                       /\ b = [box EXCEPT !.index = @ + 1]
                    \/ box.index > 1 /\ b = [box EXCEPT !.index = @ - 1]
    BY <1>8 DEF arrowKey
  <2>2. /\ Len(filteredMentionAssistants) = Lines(box.text)
        /\ box.text.at /\ Lines(box.text) \in Nat
    BY <1>8, MentionLines, LinesCounted DEF arrowKey
  <2>3. Lit(b, Lines(box.text)) /\ b.text = box.text
    BY <1>0, <2>1, <2>2 DEF Lit, NewBox
  <2> QED BY <2>1, <2>3, InputStep
<1>9. CASE dismissMention
  BY <1>0, <1>9, OtherFields, InputStep DEF dismissMention
<1>10. CASE addAttachedFiles
  <2>1. PICK v : Input([box EXCEPT !.files = v]) BY <1>10 DEF addAttachedFiles
  <2> QED BY <1>0, <2>1, OtherFields, InputStep
<1>11. CASE removeFile
  <2>1. PICK v : Input([box EXCEPT !.files = v]) BY <1>11 DEF removeFile
  <2> QED BY <1>0, <2>1, OtherFields, InputStep
<1>12. CASE switchFeature
  <2>1. PICK v : Input([box EXCEPT !.on = v]) BY <1>12 DEF switchFeature
  <2> QED BY <1>0, <2>1, OtherFields, InputStep
<1>13. CASE enterKey /\ ~handleSend
  <2>1. CASE isMentionOpen(box) BY <1>13, <2>1, MentionStep DEF enterKey
  <2>2. CASE ~isMentionOpen(box)
    <3>1. Input([box EXCEPT !.ended = FALSE]) BY <1>13, <2>2 DEF enterKey
    <3> QED BY <1>0, <3>1, OtherFields, InputStep
  <2> QED BY <2>1, <2>2
<1>14. CASE handleSend BY <1>14, ChatSendStep
<1> QED BY <1>1, <1>2, <1>3, <1>4, <1>5, <1>6, <1>7, <1>8, <1>9, <1>10, <1>11, <1>12,
     <1>13, <1>14 DEF Typing

----------------------------------------------------------------------------
(* The pages.                                                              *)

\* Where the router leaves a page, ChatService keeps no context of it.
LEMMA LeavingClears ==
  ASSUME ChatPageTypes, Uncrossed
  PROVE  /\ onLeave(page, chat) \in [active : RoomOrNone, context : RoomOrNone]
         /\ ~crossed => onLeave(page, chat).context = RoomUnset
BY DEF onLeave, ChatPageTypes, Uncrossed, RoomOrNone

\* A page is shown by way of Show: its number is new, so no answer is for it.
LEMMA ShowStep ==
  ASSUME ChatPageInv, NEW kind, NEW room, NEW c, Show(kind, room, c),
         kind \in {"new", "assistant", "room", "history", "detail", "shared"},
         room \in RoomOrNone, c \in [active : RoomOrNone, context : RoomOrNone],
         room # RoomUnset => c.active = room,
         kind = "detail" => c.context = room,
         kind # "detail" /\ ~crossed => c.context = RoomUnset,
         kind # "shared" \/ page.kind # "shared",
         UNCHANGED <<known, listed>>
  PROVE  /\ page' \in [kind : {"new", "assistant", "room", "history", "detail", "shared"},
                       room : RoomOrNone, visit : Nat, inst : Nat]
         /\ page'.visit = page.visit + 1 /\ page'.kind = kind /\ page'.room = room
         /\ page'.inst \in {page.inst, page.inst + 1}
         /\ kind = "shared" => page'.inst = page.inst + 1
         /\ Uncrossed' /\ Highlighted' /\ DOMAIN box' = DOMAIN NewBox
         /\ Waits => \A d \in calls :
              /\ d.room \in ChatRoom
              /\ d.visit \in Nat /\ d.visit < page'.visit
              /\ d.inst \in Nat /\ d.inst <= page'.inst
              /\ d.kind = "access" => d.inst < page'.inst
<1> USE DEF ChatPageInv
<1>1. /\ page' = [kind |-> kind, room |-> room, visit |-> page.visit + 1,
                  inst |-> IF kind = page.kind THEN page.inst ELSE page.inst + 1]
      /\ chat' = c
      /\ crossed' = (crossed /\ kind # "detail" /\ c.context # RoomUnset)
  BY DEF Show
<1>2. /\ page' \in [kind : {"new", "assistant", "room", "history", "detail", "shared"},
                       room : RoomOrNone, visit : Nat, inst : Nat]
      /\ page'.visit = page.visit + 1 /\ page'.kind = kind /\ page'.room = room
      /\ page'.inst = IF kind = page.kind THEN page.inst ELSE page.inst + 1
      /\ page'.inst \in {page.inst, page.inst + 1}
      /\ kind = "shared" => page'.inst = page.inst + 1
  BY <1>1 DEF ChatPageTypes
<1>3. Uncrossed' BY <1>1, <1>2 DEF Uncrossed
<1>4. Highlighted' /\ DOMAIN box' = DOMAIN NewBox
  <2>1. PICK b : /\ b = IF kind = page.kind THEN box ELSE NewBox
                 /\ box' = syncAssistant(b, page', c, known, listed)
    BY <1>1 DEF Show
  <2>2. Lit(b, Lines(b.text)) BY <2>1, LitBox, NewBoxLit
  <2>3. Lit(box', Lines(b.text)) /\ box'.text = b.text
    BY <2>1, <2>2, SyncLit, SyncKeeps DEF Lit
  <2> QED BY <2>3, LitNext
<1>5. Waits => \A d \in calls :
              /\ d.room \in ChatRoom
              /\ d.visit \in Nat /\ d.visit < page'.visit
              /\ d.inst \in Nat /\ d.inst <= page'.inst
              /\ d.kind = "access" => d.inst < page'.inst
  <2> SUFFICES ASSUME Waits, NEW d \in calls
               PROVE  /\ d.room \in ChatRoom
                      /\ d.visit \in Nat /\ d.visit < page'.visit
                      /\ d.inst \in Nat /\ d.inst <= page'.inst
                      /\ d.kind = "access" => d.inst < page'.inst
    OBVIOUS
  <2>1. page.visit \in Nat /\ page.inst \in Nat BY DEF ChatPageTypes
  <2>2. /\ d.room \in ChatRoom
        /\ d.visit \in Nat /\ d.visit <= page.visit
        /\ d.inst \in Nat /\ d.inst <= page.inst
        /\ d.kind = "access" /\ d.inst = page.inst => page.kind = "shared"
    BY DEF Waits
  <2>3. page'.inst = page.inst => kind = page.kind
    BY <1>2, <2>1
  <2> QED BY <1>2, <2>1, <2>2, <2>3
<1> QED BY <1>2, <1>3, <1>4, <1>5

LEMMA GoStep ==
  ASSUME ChatPageInv, Go
  PROVE  ChatPageInv'
<1> USE DEF ChatPageInv
<1>1. PICK d \in Destinations :
        LET left == IF d[1] = page.kind THEN chat ELSE onLeave(page, chat)
        IN  d # <<page.kind, page.room>> /\ Show(d[1], d[2], openPage(d[1], d[2], left))
  BY DEF Go
<1>2. /\ d[1] \in {"new", "assistant", "room", "history", "detail"}
      /\ d[2] \in RoomOrNone
      /\ d[1] \in {"new", "assistant"} => d[2] = RoomUnset
  BY DEF Destinations, ChatPageTypes, ChatRoom, RoomOrNone
<1>3. PICK left : /\ left = IF d[1] = page.kind THEN chat ELSE onLeave(page, chat)
                  /\ Show(d[1], d[2], openPage(d[1], d[2], left))
  BY <1>1
<1>4. PICK c : c = openPage(d[1], d[2], left) OBVIOUS
<1>5. left \in [active : RoomOrNone, context : RoomOrNone]
  BY <1>3, LeavingClears DEF ChatPageTypes
<1>6. d[1] # "detail" /\ ~crossed => left.context = RoomUnset
  <2>1. CASE d[1] = page.kind BY <1>2, <1>3, <2>1 DEF Uncrossed
  <2>2. CASE d[1] # page.kind BY <1>3, <2>2, LeavingClears
  <2> QED BY <2>1, <2>2
<1>7. /\ c \in [active : RoomOrNone, context : RoomOrNone]
      /\ d[2] # RoomUnset => c.active = d[2]
      /\ d[1] = "detail" => c.context = d[2]
      /\ d[1] # "detail" /\ ~crossed => c.context = RoomUnset
  BY <1>2, <1>4, <1>5, <1>6 DEF openPage, RoomOrNone
<1>8. UNCHANGED <<known, listed, dialog, calls, latest>> /\ move' = NoMove
  BY DEF Go
<1>9. /\ page' \in [kind : {"new", "assistant", "room", "history", "detail", "shared"},
                    room : RoomOrNone, visit : Nat, inst : Nat]
      /\ Uncrossed' /\ Highlighted' /\ DOMAIN box' = DOMAIN NewBox
      /\ \A e \in calls : /\ e.room \in ChatRoom
                          /\ e.visit \in Nat /\ e.visit < page'.visit
                          /\ e.inst \in Nat /\ e.inst <= page'.inst
                          /\ e.kind = "access" => e.inst < page'.inst
  BY <1>2, <1>3, <1>4, <1>7, <1>8, ShowStep
<1>10. chat' = c BY <1>3, <1>4 DEF Show
<1>11. ChatPageTypes'
  BY <1>7, <1>8, <1>9, <1>10 DEF ChatPageTypes, NoMove, RoomOrNone
<1>12. Waits' BY <1>8, <1>9, <1>11 DEF Waits, ChatPageTypes
<1>13. Opened' BY <1>8 DEF Opened, Go, NoneOpen
<1> QED BY <1>8, <1>9, <1>11, <1>12, <1>13 DEF OncePerVisit, ToRoomShown

LEMMA LinkStep ==
  ASSUME ChatPageInv, OpenLink
  PROVE  ChatPageInv'
<1> USE DEF ChatPageInv
<1>1. PICK r \in {SharedRoom} \cup DOMAIN Default :
        /\ Show("shared", RoomUnset, onLeave(page, chat))
        /\ calls' = calls \cup {[kind |-> "access", room |-> r, who |-> NoOne,
                                 visit |-> page.visit + 1, inst |-> page.inst + 1]}
  BY DEF OpenLink
<1>2. /\ UNCHANGED <<known, listed, dialog, latest>> /\ move' = NoMove
      /\ page.kind # "shared" /\ dialog = NoneOpen
  BY DEF OpenLink
<1>3. PICK c : c = onLeave(page, chat) OBVIOUS
<1>4. /\ c \in [active : RoomOrNone, context : RoomOrNone]
      /\ ~crossed => c.context = RoomUnset
  BY <1>3, LeavingClears
<1>5. /\ page' \in [kind : {"new", "assistant", "room", "history", "detail", "shared"},
                    room : RoomOrNone, visit : Nat, inst : Nat]
      /\ page'.visit = page.visit + 1 /\ page'.kind = "shared" /\ page'.room = RoomUnset
      /\ page'.inst = page.inst + 1
      /\ Uncrossed' /\ Highlighted' /\ DOMAIN box' = DOMAIN NewBox
      /\ \A e \in calls : /\ e.room \in ChatRoom
                          /\ e.visit \in Nat /\ e.visit < page'.visit
                          /\ e.inst \in Nat /\ e.inst <= page'.inst
                          /\ e.kind = "access" => e.inst < page'.inst
  <2>1. Show("shared", RoomUnset, c) BY <1>1, <1>3
  <2>2. RoomUnset \in RoomOrNone BY DEF RoomOrNone
  <2> QED BY <1>2, <1>4, <2>1, <2>2, ShowStep
<1>6. chat' = c BY <1>1, <1>3 DEF Show
<1>7. ChatPageTypes'
  BY <1>2, <1>4, <1>5, <1>6 DEF ChatPageTypes, NoMove, RoomOrNone
<1>8. PICK e : /\ calls' = calls \cup {e}
               /\ e = [kind |-> "access", room |-> r, who |-> NoOne,
                       visit |-> page.visit + 1, inst |-> page.inst + 1]
  BY <1>1
<1>8a. /\ e.kind = "access" /\ e.room \in ChatRoom
       /\ e.visit = page'.visit /\ e.inst = page'.inst
  BY <1>5, <1>8 DEF ChatRoom
<1>9. Waits' BY <1>5, <1>7, <1>8, <1>8a DEF Waits, ChatPageTypes
<1>10. OncePerVisit'
  <2> SUFFICES ASSUME NEW a \in calls', NEW b \in calls', a.kind = "access",
                      b.kind = "access", a.visit = b.visit
               PROVE  a = b
    BY DEF OncePerVisit
  <2>1. \A d \in calls : d.visit # e.visit
    BY <1>5, <1>7, <1>8a DEF ChatPageTypes
  <2> QED BY <1>8, <2>1 DEF OncePerVisit
<1>11. Opened' BY <1>2 DEF Opened, NoneOpen
<1> QED BY <1>2, <1>5, <1>7, <1>9, <1>10, <1>11 DEF ToRoomShown

LEMMA ArrivesStep ==
  ASSUME ChatPageInv, MessageArrives
  PROVE  ChatPageInv'
<1> USE DEF ChatPageInv
<1>1. PICK left : /\ left = IF page.kind = "room" THEN chat ELSE onLeave(page, chat)
                  /\ Show("room", move.room, openPage("room", move.room, left))
                  /\ Did("send", openPage("room", move.room, left).active, move.room)
  BY DEF MessageArrives
<1>2. /\ UNCHANGED <<known, listed, calls>> /\ move' = NoMove /\ dialog' = NoneOpen
  BY DEF MessageArrives
<1>3. PICK c : c = openPage("room", move.room, left) OBVIOUS
<1>4. /\ left \in [active : RoomOrNone, context : RoomOrNone]
      /\ ~crossed => left.context = RoomUnset
  <2>1. CASE page.kind = "room" BY <1>1, <2>1 DEF ChatPageTypes, Uncrossed
  <2>2. CASE page.kind # "room" BY <1>1, <2>2, LeavingClears
  <2> QED BY <2>1, <2>2
<1>5. /\ c \in [active : RoomOrNone, context : RoomOrNone]
      /\ c.active = move.room
      /\ ~crossed => c.context = RoomUnset
  BY <1>3, <1>4 DEF openPage, ChatPageTypes
<1>6. /\ page' \in [kind : {"new", "assistant", "room", "history", "detail", "shared"},
                    room : RoomOrNone, visit : Nat, inst : Nat]
      /\ Uncrossed' /\ Highlighted' /\ DOMAIN box' = DOMAIN NewBox
      /\ \A e \in calls : /\ e.room \in ChatRoom
                          /\ e.visit \in Nat /\ e.visit < page'.visit
                          /\ e.inst \in Nat /\ e.inst <= page'.inst
                          /\ e.kind = "access" => e.inst < page'.inst
  <2>1. Show("room", move.room, c) BY <1>1, <1>3
  <2>2. move.room \in RoomOrNone BY DEF ChatPageTypes
  <2> QED BY <1>2, <1>5, <2>1, <2>2, ShowStep
<1>7. chat' = c BY <1>1, <1>3 DEF Show
<1>8. ChatPageTypes'
  BY <1>2, <1>5, <1>6, <1>7 DEF ChatPageTypes, NoMove, NoneOpen, RoomOrNone
<1>9. Waits' BY <1>2, <1>6, <1>8 DEF Waits, ChatPageTypes
<1>10. Opened' BY <1>2 DEF Opened, NoneOpen
<1>11. ToRoomShown' BY <1>1, <1>3, <1>5 DEF Did, ToRoomShown
<1> QED BY <1>2, <1>6, <1>8, <1>9, <1>10, <1>11 DEF OncePerVisit

----------------------------------------------------------------------------
(* The answers.                                                            *)

\* An answer that is applied leaves the others, and the page they are for.
LEMMA AppliedKeeps ==
  ASSUME ChatPageInv, NEW call \in calls, Applied(call), page' = page
  PROVE  /\ Waits' /\ OncePerVisit' /\ ToRoomShown' /\ Opened'
         /\ ~crossed' => ~crossed /\ call.visit = page.visit
BY DEF ChatPageInv, Applied, Waits, OncePerVisit, ToRoomShown, Opened

\* The input follows the assistants, whatever answer came.
LEMMA SyncedLit ==
  ASSUME ChatPageInv, NEW p, NEW c, NEW rooms, NEW fetched, listed' = listed,
         box' = syncAssistant(box, p, c, rooms, fetched)
  PROVE  Highlighted' /\ DOMAIN box' = DOMAIN NewBox
<1>1. Lit(box, Lines(box.text)) BY LitBox DEF ChatPageInv
<1>2. Lit(box', Lines(box.text)) /\ box'.text = box.text
  BY <1>1, SyncLit, SyncKeeps DEF Lit
<1> QED BY <1>2, LitNext

LEMMA AccessStep ==
  ASSUME ChatPageInv, AccessAnswered
  PROVE  ChatPageInv'
<1> USE DEF ChatPageInv
<1>1. PICK call \in calls :
        /\ call.kind = "access"
        /\ chat' = openSharedRoom(chat, call.room)
        /\ page' = IF call.inst = page.inst THEN [page EXCEPT !.room = call.room] ELSE page
        /\ box' = syncAssistant(box, page', chat', known, listed)
        /\ Applied(call) /\ UNCHANGED <<known, move>>
  BY DEF AccessAnswered
<1>2. /\ call.room \in ChatRoom /\ call.room # RoomUnset
      /\ call.inst = page.inst <=> call.visit = page.visit
      /\ call.inst = page.inst => page.kind = "shared" /\ page.room = RoomUnset
  BY <1>1, ChatPageAssumption DEF Waits, ChatRoom, NewRooms, RoomUnset
<1>3. Highlighted' /\ DOMAIN box' = DOMAIN NewBox
  BY <1>1, SyncedLit DEF Applied
<1>4. /\ chat' \in [active : RoomOrNone, context : RoomOrNone]
      /\ chat'.active = call.room /\ chat'.context \in {RoomUnset, call.room}
  BY <1>1, <1>2 DEF openSharedRoom, RoomOrNone
<1>5. CASE call.inst = page.inst
  <2>1. /\ page' \in [kind : {"new", "assistant", "room", "history", "detail", "shared"},
                      room : RoomOrNone, visit : Nat, inst : Nat]
        /\ page'.kind = "shared" /\ page'.room = call.room
        /\ page'.visit = page.visit /\ page'.inst = page.inst
    BY <1>1, <1>2, <1>5 DEF ChatPageTypes, RoomOrNone
  <2>2. ChatPageTypes' BY <1>1, <1>3, <1>4, <2>1 DEF ChatPageTypes, Applied
  <2>3. Waits'
    <3>1. \A d \in calls' : d \in calls /\ d # call BY <1>1 DEF Applied
    <3>2. \A d \in calls' : d.visit # page.visit
      BY <1>1, <1>2, <1>5, <3>1 DEF Waits, OncePerVisit
    <3> QED BY <2>1, <3>1, <3>2 DEF Waits
  <2>4. OncePerVisit' BY <1>1 DEF OncePerVisit, Applied
  <2>5. Uncrossed' BY <1>4, <2>1 DEF Uncrossed
  <2>6. Opened' BY <1>1, <1>2, <1>5 DEF Opened, Applied
  <2> QED BY <1>1, <1>3, <2>2, <2>3, <2>4, <2>5, <2>6 DEF ToRoomShown, Applied
<1>6. CASE call.inst # page.inst
  <2>1. page' = page /\ crossed' BY <1>1, <1>2, <1>6 DEF Applied
  <2>2. ChatPageTypes' BY <1>1, <1>3, <1>4, <2>1 DEF ChatPageTypes, Applied
  <2>3. Uncrossed' BY <2>1 DEF Uncrossed
  <2> QED BY <1>1, <1>3, <2>1, <2>2, <2>3, AppliedKeeps
<1> QED BY <1>5, <1>6

LEMMA AnswersStep ==
  ASSUME ChatPageInv, Answers
  PROVE  ChatPageInv'
<1> USE DEF ChatPageInv
<1>1. CASE AccessAnswered BY <1>1, AccessStep
<1>2. CASE AccessDenied
  <2>1. PICK call \in calls :
          /\ chat' = [chat EXCEPT !.context = RoomUnset]
          /\ Applied(call) /\ UNCHANGED <<page, known, box, move>>
    BY <1>2 DEF AccessDenied
  <2>2. ChatPageTypes' BY <2>1 DEF ChatPageTypes, Applied, RoomOrNone
  <2>3. Uncrossed' BY <2>1, AppliedKeeps DEF Uncrossed, ChatPageTypes
  <2>4. Highlighted'
    <3>1. matches(box.text)' = matches(box.text) BY <2>1 DEF matches, Applied
    <3> QED BY <2>1, <3>1 DEF Highlighted
  <2> QED BY <2>1, <2>2, <2>3, <2>4, AppliedKeeps
<1>3. CASE RoomAnswered
  <2>1. PICK call \in calls :
          /\ call.kind = "create"
          /\ known' = [r \in DOMAIN known \cup {call.room} |->
                         IF r = call.room THEN call.who ELSE known[r]]
          /\ chat' = [chat EXCEPT !.active = call.room]
          /\ move' = [room |-> call.room]
          /\ box' = syncAssistant(box, page, chat', known', listed)
          /\ Applied(call) /\ UNCHANGED page
    BY <1>3 DEF RoomAnswered
  <2>2. call.room \in ChatRoom /\ (call.visit = page.visit => page.room = RoomUnset)
    BY DEF Waits
  <2>3. Highlighted' /\ DOMAIN box' = DOMAIN NewBox
    BY <2>1, SyncedLit DEF Applied
  <2>4. ChatPageTypes' BY <2>1, <2>2, <2>3 DEF ChatPageTypes, Applied, RoomOrNone
  <2>5. Uncrossed'
    <3>1. chat'.context = chat.context BY <2>1 DEF ChatPageTypes
    <3> QED BY <2>1, <2>2, <3>1, AppliedKeeps DEF Uncrossed
  <2> QED BY <2>1, <2>3, <2>4, <2>5, AppliedKeeps
<1>4. CASE RoomRefused
  <2>1. PICK call \in calls : Applied(call) /\ UNCHANGED <<page, chat, known, box, move>>
    BY <1>4 DEF RoomRefused
  <2>2. ChatPageTypes' BY <2>1 DEF ChatPageTypes, Applied
  <2>3. Uncrossed' BY <2>1, AppliedKeeps DEF Uncrossed
  <2>4. Highlighted'
    <3>1. matches(box.text)' = matches(box.text) BY <2>1 DEF matches, Applied
    <3> QED BY <2>1, <3>1 DEF Highlighted
  <2> QED BY <2>1, <2>2, <2>3, <2>4, AppliedKeeps
<1>5. CASE MessageArrives BY <1>5, ArrivesStep
<1>6. CASE RoomsArrive
  <2>1. /\ known' = [r \in DOMAIN Default \cup DOMAIN known |->
                       IF r \in DOMAIN known THEN known[r] ELSE Default[r]]
        /\ UNCHANGED <<page, chat, listed, dialog, calls, move, crossed, latest>>
        /\ box' = syncAssistant(box, page, chat, known', listed)
    BY <1>6 DEF RoomsArrive
  <2>2. Highlighted' /\ DOMAIN box' = DOMAIN NewBox
    BY <2>1, SyncedLit
  <2>3. ChatPageTypes' BY <2>1, <2>2 DEF ChatPageTypes, ChatRoom
  <2> QED BY <2>1, <2>2, <2>3 DEF Waits, OncePerVisit, Uncrossed, Opened, ToRoomShown
<1>7. CASE AssistantsArrive
  <2>1. /\ UNCHANGED <<page, chat, known, dialog, calls, move, crossed, latest>>
        /\ box' = syncAssistant(box, page, chat, known, TRUE)
        /\ ~listed
    BY <1>7 DEF AssistantsArrive
  <2>2. box.index = 1
    BY <2>1, NoLinesYet DEF Highlighted, Lines
  <2>3. Highlighted' /\ DOMAIN box' = DOMAIN NewBox
    <3>1. PICK now : box' = syncAssistant(box, page, chat, known, now)
      BY <2>1
    <3>2. box'.index = 1 /\ DOMAIN box' = DOMAIN NewBox
      BY <2>2, <3>1, SyncKeeps DEF ChatPageTypes
    <3> QED BY <3>2 DEF Highlighted
  <2>4. ChatPageTypes' BY <2>1, <2>3 DEF ChatPageTypes
  <2> QED BY <2>1, <2>3, <2>4 DEF Waits, OncePerVisit, Uncrossed, Opened, ToRoomShown
<1> QED BY <1>1, <1>2, <1>3, <1>4, <1>5, <1>6, <1>7 DEF Answers

----------------------------------------------------------------------------
(* The dialogs.                                                            *)

\* The room that counts as active is the one the page shows.
LEMMA ActiveIsShown ==
  ASSUME ChatPageInv, ~crossed, page.room # RoomUnset, activeRoom # RoomUnset
  PROVE  activeRoom = page.room /\ chat.active = page.room
BY DEF ChatPageInv, Uncrossed, activeRoom, activeRoomOf

LEMMA OpensStep ==
  ASSUME ChatPageInv, NEW kind, NEW room, Opens(kind, room), page.room # RoomUnset,
         room \in RoomOrNone, kind # "none", ~crossed => room = page.room
  PROVE  ChatPageInv'
<1> USE DEF ChatPageInv
<1>1. UNCHANGED <<page, chat, known, listed, box, calls, move, crossed, latest>>
      /\ dialog' = [kind |-> kind, room |-> room]
  BY DEF Opens
<1>2. ChatPageTypes' BY <1>1 DEF ChatPageTypes, NoneOpen
<1>3. Opened' BY <1>1 DEF Opened
<1>4. Highlighted'
  <2>1. matches(box.text)' = matches(box.text) BY <1>1 DEF matches
  <2> QED BY <1>1, <2>1 DEF Highlighted
<1> QED BY <1>1, <1>2, <1>3, <1>4 DEF Waits, OncePerVisit, Uncrossed, ToRoomShown

\* A dialog that closes, whether or not it submits.
LEMMA CloseStep ==
  ASSUME ChatPageInv, dialog' = NoneOpen, ToRoomShown',
         UNCHANGED <<page, chat, known, listed, box, calls, move, crossed>>
  PROVE  ChatPageInv'
<1> USE DEF ChatPageInv
<1>1. ChatPageTypes' BY DEF ChatPageTypes, NoneOpen, RoomOrNone
<1>2. Opened' BY DEF Opened, NoneOpen
<1>3. Highlighted'
  <2>1. matches(box.text)' = matches(box.text) BY DEF matches
  <2> QED BY <2>1 DEF Highlighted
<1> QED BY <1>1, <1>2, <1>3 DEF Waits, OncePerVisit, Uncrossed

LEMMA SubmitsStep ==
  ASSUME ChatPageInv, NEW kind, NEW room, Submits(kind, room), kind # "none",
         ~crossed => room \in {page.room, dialog.room}
  PROVE  ChatPageInv'
<1>1. /\ Did(kind, room, dialog.room) /\ dialog.kind = kind
      /\ dialog' = NoneOpen
      /\ UNCHANGED <<page, chat, known, listed, box, calls, move, crossed>>
  BY DEF Submits
<1>2. ~crossed => room = dialog.room
  BY <1>1 DEF ChatPageInv, Opened
<1>3. ToRoomShown' BY <1>1, <1>2 DEF Did, ToRoomShown, ChatPageInv, ChatPageTypes
<1> QED BY <1>1, <1>3, CloseStep

LEMMA DialogsStep ==
  ASSUME ChatPageInv, Dialogs
  PROVE  ChatPageInv'
<1> USE DEF ChatPageInv
<1>1. activeRoom \in RoomOrNone /\ page.room \in RoomOrNone
  BY DEF activeRoom, activeRoomOf, ChatPageTypes, ChatRoom, RoomOrNone
<1>2. CASE openEdit \/ openRenameDialog \/ openRatingDialog \/ openShareDialog
  <2>1. PICK kind \in {"edit", "rename", "rate", "share"},
             room \in {page.room, activeRoom} : ShowsRoom /\ Opens(kind, room)
    BY <1>2 DEF openEdit, openRenameDialog, openRatingDialog, openShareDialog
  <2> QED BY <1>1, <2>1, OpensStep, ActiveIsShown DEF ShowsRoom
<1>3. CASE submitEdit
  <2>1. ~crossed => chat.active = page.room
    BY <1>3 DEF submitEdit, Submits, Opened, Uncrossed
  <2> QED BY <1>3, <2>1, SubmitsStep DEF submitEdit
<1>4. CASE runSave \/ handleShare
  BY <1>4, SubmitsStep DEF runSave, handleShare
<1>5. CASE runSubmit \/ handleUnshare
  <2>1. PICK kind \in {"rate", "share"} : activeRoom # RoomUnset /\ Submits(kind, activeRoom)
    BY <1>5 DEF runSubmit, handleUnshare
  <2>2. ~crossed => activeRoom = page.room
    BY <2>1, ActiveIsShown DEF Submits, Opened
  <2> QED BY <2>1, <2>2, SubmitsStep
<1>6. CASE CloseDialog
  BY <1>6, CloseStep DEF CloseDialog, ToRoomShown
<1> QED BY <1>2, <1>3, <1>4, <1>5, <1>6 DEF Dialogs

----------------------------------------------------------------------------
(* The theorems.                                                           *)

LEMMA ChatPageInvInit == ChatPageInit => ChatPageInv
<1> SUFFICES ASSUME ChatPageInit PROVE ChatPageInv OBVIOUS
<1> USE DEF ChatPageInit
<1>1. ChatPageTypes
  BY DEF ChatPageTypes, RoomOrNone, ChatRoom, NoneOpen, NoMove
<1>2. Uncrossed /\ Opened BY DEF Uncrossed, Opened, NoneOpen
<1>3. Highlighted BY DEF Highlighted, NewBox
<1>4. ToRoomShown BY DEF ToRoomShown, Nothing
<1> QED BY <1>1, <1>2, <1>3, <1>4 DEF ChatPageInv, Waits, OncePerVisit

LEMMA ChatPageInvNext == ChatPageInv /\ [ChatPageNext]_chatPageVars => ChatPageInv'
<1> SUFFICES ASSUME ChatPageInv, [ChatPageNext]_chatPageVars PROVE ChatPageInv' OBVIOUS
<1>1. CASE Typing BY <1>1, TypingStep
<1>2. CASE Go BY <1>2, GoStep
<1>3. CASE OpenLink BY <1>3, LinkStep
<1>4. CASE Answers BY <1>4, AnswersStep
<1>5. CASE Dialogs BY <1>5, DialogsStep
<1>6. CASE UNCHANGED chatPageVars
  <2>1. UNCHANGED <<page, chat, known, listed, box, dialog, calls, move, crossed, latest>>
    BY <1>6 DEF chatPageVars
  <2>2. Highlighted'
    <3>1. matches(box.text)' = matches(box.text) BY <2>1 DEF matches
    <3> QED BY <2>1, <3>1 DEF Highlighted, ChatPageInv
  <2> QED BY <2>1, <2>2 DEF ChatPageInv, ChatPageTypes, Waits, OncePerVisit, Uncrossed,
        Opened, ToRoomShown
<1> QED BY <1>1, <1>2, <1>3, <1>4, <1>5, <1>6 DEF ChatPageNext

LEMMA HighlightFits == ChatPageInv => SentWhereShown
<1> SUFFICES ASSUME ChatPageInv, filteredMentionAssistants # <<>>
             PROVE  box.index \in DOMAIN filteredMentionAssistants
  BY DEF SentWhereShown, MentionFits, ChatPageInv
<1>1. /\ DOMAIN filteredMentionAssistants = 1..Lines(box.text)
      /\ Len(filteredMentionAssistants) = Lines(box.text)
  BY MentionLines
<1>2. Lines(box.text) \in Nat BY LinesCounted
<1>3. Lines(box.text) # 0
  BY <1>1, <1>2 DEF filteredMentionAssistants, filterAssistants, Lines
<1> QED BY <1>1, <1>2, <1>3 DEF ChatPageInv, Highlighted, Lines

\* Messages, edits, ratings, names and shares go to the room their user was looking
\* at, however many pages, links and new rooms he opens and however late their
\* answers are, unless one came for a page that had been left; and Enter chooses an
\* assistant of the list (ChatService, the chat pages, ChatInput).
THEOREM SentToShown == ChatPageSpec => []SentWhereShown
<1>1. ChatPageInit => ChatPageInv BY ChatPageInvInit
<1>2. ChatPageInv /\ [ChatPageNext]_chatPageVars => ChatPageInv' BY ChatPageInvNext
<1>3. ChatPageInv => SentWhereShown BY HighlightFits
<1> QED BY <1>1, <1>2, <1>3, PTL DEF ChatPageSpec
=============================================================================
