----------------------------- MODULE ChatStream -----------------------------
(***************************************************************************)
(* Chat messages and the streaming of their answers.                       *)
(*                                                                         *)
(* MessageService.stream_message_content checks a request, then streams a  *)
(* model's answer to the client and, in the generator's `finally`, stores  *)
(* the answer, its attachments, the generated library and the token usage, *)
(* each in a database session of its own.  Between any two awaits other    *)
(* requests run: messages and rooms are deleted (their rows cascade),      *)
(* other streams write, the client disconnects, the process dies.          *)
(*                                                                         *)
(* One action is the code between two awaits that touch the database or    *)
(* hand an event to the client.  Row ids are never issued twice.           *)
(***************************************************************************)
CONSTANTS
  Requests,        \* streaming requests; a content row is named by its creator
  Messages,        \* ids of message rows
  Rooms,           \* ids of room rows
  Users,
  Null,            \* no row, no value
  LibraryChoices,  \* the values isCreateLibrary may take
  FileChoices      \* whether a request may carry attachment files

VARIABLES
  room,       \* rooms: the owner of each live room
  message,    \* messages: room and parent of each live message
  issued,     \* message and room ids handed out so far
  contents,   \* message_contents: message, status, and whose answer it holds
  files,      \* message_files: the content row a request's files belong to
  libraries,  \* libraries: the message a request's library belongs to
  usage,      \* token_usages: the row of each request
  pc,         \* where each request's coroutine is
  req,        \* what the request asked for, as resolved before streaming
  gen,        \* the locals of its event_stream generator
  sent        \* the furthest server-sent event the client was given

tables == <<room, message, issued, contents, files, libraries, usage>>
vars == <<room, message, issued, contents, files, libraries, usage,
          pc, req, gen, sent>>

Statuses == {"OK", "ERROR"}
Events == {"nothing", "text", "complete"}

MessageRow == [room : Rooms, parent : Messages \cup {Null}]
ContentRow == [msg : Messages, by : Requests, status : Statuses]
UsageRow == [msg : Messages \cup {Null}]
Request == [user : Users, msg : Messages, room : Rooms,
            target : Requests \cup {Null},
            library : LibraryChoices, files : FileChoices]
\* seen and overtaken are history: whose answer the row of a regeneration held
\* when it was read, and whether another was there when it was written.
Generator == [status : Statuses, loaded : Statuses,
              seen : Requests \cup {Null}, overtaken : BOOLEAN,
              tokens : BOOLEAN, finished : BOOLEAN, titled : BOOLEAN,
              stored : BOOLEAN, expired : BOOLEAN]

\* Null is a value of its own: no id, and no row of any table.
ASSUME NullAssumption ==
  /\ Null \notin Requests \cup Messages \cup Rooms \cup Users
  /\ Null \notin MessageRow \cup ContentRow \cup UsageRow \cup Request
  /\ LibraryChoices \subseteq BOOLEAN /\ FileChoices \subseteq BOOLEAN

Before == {"idle", "ready"}
Streaming == {"stream", "flush", "stopped", "failed"}
Finally == {"persist", "update", "refresh", "files", "room", "touch",
            "library", "shelved", "usage", "complete"}
Ended == {"closed", "escaped", "killed"}
Places == Before \cup Streaming \cup Finally \cup Ended

TypeOK ==
  /\ room \in [Rooms -> Users \cup {Null}]
  /\ message \in [Messages -> MessageRow \cup {Null}]
  /\ issued \in SUBSET (Messages \cup Rooms)
  /\ contents \in [Requests -> ContentRow \cup {Null}]
  /\ files \in [Requests -> Requests \cup {Null}]
  /\ libraries \in [Requests -> Messages \cup {Null}]
  /\ usage \in [Requests -> UsageRow \cup {Null}]
  /\ pc \in [Requests -> Places]
  /\ req \in [Requests -> Request \cup {Null}]
  /\ \A r \in Requests : req[r] = Null <=> pc[r] = "idle"
  /\ gen \in [Requests -> Generator]
  /\ sent \in [Requests -> Events]

NewGenerator == [status |-> "OK", loaded |-> "OK",
                 seen |-> Null, overtaken |-> FALSE,
                 tokens |-> FALSE, finished |-> FALSE, titled |-> FALSE,
                 stored |-> FALSE, expired |-> FALSE]

Init ==
  /\ room = [o \in Rooms |-> Null]
  /\ message = [m \in Messages |-> Null]
  /\ issued = {}
  /\ contents = [c \in Requests |-> Null]
  /\ files = [r \in Requests |-> Null]
  /\ libraries = [r \in Requests |-> Null]
  /\ usage = [r \in Requests |-> Null]
  /\ pc = [r \in Requests |-> "idle"]
  /\ req = [r \in Requests |-> Null]
  /\ gen = [r \in Requests |-> NewGenerator]
  /\ sent = [r \in Requests |-> "nothing"]

-----------------------------------------------------------------------------
(* Threads: creating messages, and deleting them with all that hangs below *)

\* The message gets the parent it names if that still exists, and none if not.
ParentOf(p) == IF p # Null /\ message[p] # Null THEN p ELSE Null

\* The user's own room, or a room created for this message.  (A parent or a
\* room that vanishes before the commit violates a foreign key: no effect.)
ResolveRoom(u, o) ==
  \/ o \notin issued /\ room' = [room EXCEPT ![o] = u]
  \/ room[o] = u /\ UNCHANGED room

CreateMessage(u, o, m, p) ==
  /\ m \notin issued
  /\ ResolveRoom(u, o)
  /\ message' = [message EXCEPT ![m] = [room |-> o, parent |-> ParentOf(p)]]
  /\ issued' = issued \cup {m, o}
  /\ UNCHANGED <<contents, files, libraries, usage, pc, req, gen, sent>>

ChildClosed(S) ==
  \A m \in Messages : message[m] # Null /\ message[m].parent \in S => m \in S

\* The messages of S and everything below them.
Cascade(S) ==
  {m \in Messages : \A T \in SUBSET Messages :
                       S \subseteq T /\ ChildClosed(T) => m \in T}

HeldBy(D, c) == contents[c] # Null /\ contents[c].msg \in D

\* What ON DELETE CASCADE and SET NULL do when the messages of D go.
UsageCascaded(D) ==
  [r \in Requests |-> IF usage[r] # Null /\ usage[r].msg \in D
                        THEN Null ELSE usage[r]]

UsageWithout(D) ==
  [r \in Requests |-> IF usage[r] # Null /\ usage[r].msg \in D
                        THEN [msg |-> Null] ELSE usage[r]]

LibrariesKept(D) == libraries

LibrariesSetNull(D) ==
  [r \in Requests |-> IF libraries[r] \in D THEN [msg |-> Null] ELSE libraries[r]]

LibrariesWithout(D) ==
  [r \in Requests |-> IF libraries[r] \in D THEN Null ELSE libraries[r]]

DeleteRows(D) ==
  /\ message' = [m \in Messages |-> IF m \in D THEN Null ELSE message[m]]
  /\ contents' = [c \in Requests |-> IF HeldBy(D, c) THEN Null ELSE contents[c]]
  /\ files' = [r \in Requests |->
                 IF files[r] # Null /\ HeldBy(D, files[r]) THEN Null ELSE files[r]]
  /\ libraries' = LibrariesWithout(D)
  /\ usage' = UsageWithout(D)

\* Both delete_message and delete_message_by_content_id: a message that is
\* not there is no error, and only the room's owner may delete.
DeleteMessage(m) ==
  /\ message[m] # Null /\ room[message[m].room] # Null
  /\ DeleteRows(Cascade({m}))
  /\ UNCHANGED <<room, issued, pc, req, gen, sent>>

\* LibraryService.delete_library: a user removes a generated library.
DeleteLibrary(r) ==
  /\ libraries[r] # Null
  /\ libraries' = [libraries EXCEPT ![r] = Null]
  /\ UNCHANGED <<room, message, issued, contents, files, usage,
                 pc, req, gen, sent>>

MessagesIn(o) == {m \in Messages : message[m] # Null /\ message[m].room = o}

DeleteRoom(o) ==
  /\ room[o] # Null
  /\ room' = [room EXCEPT ![o] = Null]
  /\ DeleteRows(Cascade(MessagesIn(o)))
  /\ UNCHANGED <<issued, pc, req, gen, sent>>

-----------------------------------------------------------------------------
(* Before streaming: the checks, which only read                           *)

Goto(r, l) == pc' = [pc EXCEPT ![r] = l]

\* The row messageContentId or messageId names, or 404.
TargetExists(m, c) ==
  /\ message[m] # Null
  /\ c # Null => contents[c] # Null /\ contents[c].msg = m

\* require_owned_room: 404 without the room, 403 for another user's.
OwnsAny(u, m) == room[message[m].room] # Null

Owns(u, m) == room[message[m].room] = u

\* Embedding the question of a RAG assistant consumes tokens before the stream
\* starts; another assistant embeds nothing.
BuildRagContext(r) ==
  \E embedded \in BOOLEAN : gen' = [gen EXCEPT ![r].tokens = embedded]

\* messageContentId names a content row to regenerate, messageId a message to
\* answer anew.  A request that fails a check - also for its assistant, its
\* endpoint or its model (400), the tenant's credits (429), the search
\* context (400) or the library prompt (500) - leaves nothing behind, and its
\* client may ask again.  What is deleted after a check was passed is deleted
\* after this action.
Accept(r, u, m, c, lib, f) ==
  /\ pc[r] = "idle"
  /\ TargetExists(m, c)
  /\ Owns(u, m)
  /\ req' = [req EXCEPT ![r] =
               [user |-> u, msg |-> m, room |-> message[m].room,
                target |-> c, library |-> lib, files |-> f]]
  /\ BuildRagContext(r)
  /\ Goto(r, "ready")
  /\ UNCHANGED <<tables, sent>>

-----------------------------------------------------------------------------
(* event_stream: the answer on its way to the client                       *)

Start(r) ==
  /\ pc[r] = "ready"
  /\ Goto(r, "stream")
  /\ UNCHANGED <<tables, req, gen, sent>>

\* The client left before the generator was first resumed: its body, and the
\* `finally` in it, never run.
Drop(r) ==
  /\ pc[r] = "ready"
  /\ Goto(r, "idle")
  /\ req' = [req EXCEPT ![r] = Null]
  /\ gen' = [gen EXCEPT ![r] = NewGenerator]
  /\ UNCHANGED <<tables, sent>>

\* text_delta, library_title_delta and library_content_delta events.
Delta(r) ==
  /\ pc[r] = "stream"
  /\ sent' = [sent EXCEPT ![r] = "text"]
  /\ UNCHANGED <<tables, pc, req, gen>>

\* The model's stream ends.  Token counts arrive in its last chunk, if at all.
Drain(r) ==
  /\ pc[r] = "stream"
  /\ \E counted \in BOOLEAN : gen' = [gen EXCEPT ![r].tokens = @ \/ counted]
  /\ Goto(r, "flush")
  /\ UNCHANGED <<tables, req, sent>>

LlmError(r) ==
  /\ pc[r] = "stream"
  /\ \E counted \in BOOLEAN :
       gen' = [gen EXCEPT ![r].tokens = @ \/ counted, ![r].status = "ERROR"]
  /\ Goto(r, "failed")
  /\ UNCHANGED <<tables, req, sent>>

\* A library's title and text are final only now; then message_stop.
Stop(r) ==
  /\ pc[r] = "flush"
  /\ gen' = [gen EXCEPT ![r].titled = req[r].library]
  /\ Goto(r, "stopped")
  /\ UNCHANGED <<tables, req, sent>>

\* The client took the last event of the loop: the stream has finished.
Resume(r) ==
  /\ pc[r] \in {"stopped", "failed"}
  /\ gen' = [gen EXCEPT ![r].finished = TRUE]
  /\ Goto(r, "persist")
  /\ UNCHANGED <<tables, req, sent>>

\* GeneratorExit is raised at the yield the generator is suspended at.  While
\* a library is flushed that may be before or after its title is set.
Disconnect(r) ==
  /\ \/ pc[r] = "stream" /\ sent[r] = "text" /\ UNCHANGED gen
     \/ /\ pc[r] = "flush" /\ req[r].library
        /\ \E t \in BOOLEAN : gen' = [gen EXCEPT ![r].titled = t]
     \/ pc[r] \in {"stopped", "failed"} /\ UNCHANGED gen
  /\ Goto(r, "persist")
  /\ UNCHANGED <<tables, req, sent>>

-----------------------------------------------------------------------------
(* event_stream's finally: what an answer leaves in the database           *)

\* An exception other than ValueError ends the generator inside `finally`.
Escape(r) == Goto(r, "escaped") /\ UNCHANGED <<tables, req, gen, sent>>

MessageExists(r) == message[req[r].msg] # Null

InsertContent(r) ==
  /\ pc[r] = "persist" /\ req[r].target = Null
  /\ IF MessageExists(r)
       THEN /\ contents' = [contents EXCEPT ![r] =
                  [msg |-> req[r].msg, by |-> r, status |-> gen[r].status]]
            /\ Goto(r, "refresh")
            /\ UNCHANGED <<room, message, issued, files, libraries, usage,
                           req, gen, sent>>
       ELSE Escape(r)

\* The content row this request writes: the one it regenerates, or its own.
ContentOf(r) == IF req[r].target = Null THEN r ELSE req[r].target

ContentExists(r) == contents[ContentOf(r)] # Null

\* Regeneration reads the row first; ValueError, which event_stream handles
\* by storing nothing, if it is gone.
LoadContent(r) ==
  /\ pc[r] = "persist" /\ req[r].target # Null
  /\ IF ContentExists(r)
       THEN /\ gen' = [gen EXCEPT ![r].loaded = contents[ContentOf(r)].status,
                                  ![r].seen = contents[ContentOf(r)].by]
            /\ Goto(r, "update")
       ELSE Goto(r, "library") /\ UNCHANGED gen
  /\ UNCHANGED <<tables, req, sent>>

\* The UPDATE names only the columns whose new value differs from the loaded
\* one.  Two answers differ, their statuses may not.
RegeneratedKeepingStatus(r, row) == [row EXCEPT !.by = r]

RegeneratedKeepingAnswer(r, row) == [row EXCEPT !.status = gen[r].status]

Regenerated(r, row) ==
  [row EXCEPT !.by = r,
              !.status = IF gen[r].status # gen[r].loaded
                           THEN gen[r].status ELSE row.status]

UpdateContent(r) ==
  /\ pc[r] = "update"
  /\ IF ContentExists(r)
       THEN /\ contents' = [contents EXCEPT ![ContentOf(r)] = Regenerated(r, @)]
            /\ gen' = [gen EXCEPT
                         ![r].loaded = "OK", ![r].seen = Null,
                         ![r].overtaken = contents[ContentOf(r)].by # gen[r].seen]
            /\ Goto(r, "refresh")
            /\ UNCHANGED <<room, message, issued, files, libraries, usage,
                           req, sent>>
       ELSE Escape(r)

\* After the commit the row is read back; the session raises if it is gone.
RefreshContent(r) ==
  /\ pc[r] = "refresh"
  /\ IF ContentExists(r)
       THEN /\ Goto(r, IF req[r].files THEN "files" ELSE "room")
            /\ UNCHANGED <<tables, req, gen, sent>>
       ELSE Escape(r)

\* A failure is logged and rolled back, which expires the content row that
\* the session holds.
SaveFiles(r) ==
  /\ pc[r] = "files"
  /\ \/ /\ ContentExists(r)
        /\ files' = [files EXCEPT ![r] = ContentOf(r)]
        /\ UNCHANGED gen
     \/ gen' = [gen EXCEPT ![r].expired = TRUE] /\ UNCHANGED files
  /\ Goto(r, "room")
  /\ UNCHANGED <<room, message, issued, contents, libraries, usage, req, sent>>

\* The response reads the row's attributes: loading an expired one from the
\* coroutine raises, otherwise the answer counts as stored.
Respond(r) ==
  IF gen[r].expired
    THEN Escape(r)
    ELSE /\ gen' = [gen EXCEPT ![r].stored = TRUE]
         /\ Goto(r, "library")
         /\ UNCHANGED <<tables, req, sent>>

RoomExists(r) == room[req[r].room] # Null

FindRoom(r) ==
  /\ pc[r] = "room"
  /\ IF RoomExists(r)
       THEN Goto(r, "touch") /\ UNCHANGED <<tables, req, gen, sent>>
       ELSE Respond(r)

\* updated_at is written to the room that was read, if it is still there.
TouchRoom(r) ==
  /\ pc[r] = "touch"
  /\ IF RoomExists(r) THEN Respond(r) ELSE Escape(r)

LibraryDue(r) == gen[r].stored /\ gen[r].titled /\ gen[r].status = "OK"

PersistLibrary(r) ==
  /\ pc[r] = "library" /\ LibraryDue(r)
  /\ IF MessageExists(r)
       THEN /\ libraries' = [libraries EXCEPT ![r] = req[r].msg]
            /\ Goto(r, "shelved")
            /\ UNCHANGED <<room, message, issued, contents, files, usage,
                           req, gen, sent>>
       ELSE Escape(r)

SkipLibrary(r) ==
  /\ pc[r] = "library" /\ ~LibraryDue(r)
  /\ Goto(r, "usage")
  /\ UNCHANGED <<tables, req, gen, sent>>

\* Read back after the commit, like the content row.
RefreshLibrary(r) ==
  /\ pc[r] = "shelved"
  /\ IF libraries[r] # Null
       THEN Goto(r, "usage") /\ UNCHANGED <<tables, req, gen, sent>>
       ELSE Escape(r)

\* Nothing is recorded when no token was counted; the row names the message.
UsageDueIfFinished(r) == gen[r].tokens /\ gen[r].finished

UsageDueWhileKept(r) == gen[r].tokens /\ MessageExists(r)

UsageDue(r) == gen[r].tokens

PersistUsage(r) ==
  /\ pc[r] = "usage"
  /\ IF UsageDue(r) /\ ~MessageExists(r)
       THEN Escape(r)
       ELSE /\ usage' = IF UsageDue(r)
                          THEN [usage EXCEPT ![r] = [msg |-> req[r].msg]]
                          ELSE usage
            /\ Goto(r, "complete")
            /\ UNCHANGED <<room, message, issued, contents, files, libraries,
                           req, gen, sent>>

CompleteAlways(r) == gen[r].finished

CompleteDue(r) == gen[r].finished /\ gen[r].stored

Complete(r) ==
  /\ pc[r] = "complete"
  /\ sent' = IF CompleteDue(r) THEN [sent EXCEPT ![r] = "complete"] ELSE sent
  /\ Goto(r, "closed")
  /\ UNCHANGED <<tables, req, gen>>

-----------------------------------------------------------------------------
(* The server: tasks cancelled, processes lost                             *)

\* What is left to say of a generator that never runs again.
Remains(g) == [g EXCEPT !.loaded = "OK", !.seen = Null, !.finished = FALSE,
                        !.titled = FALSE, !.stored = FALSE]

\* The server cancels the request's task at an await, in the model's stream
\* or in `finally`, and every later await in it: nothing more of it runs.
Cancel(r) ==
  /\ pc[r] \in {"stream"} \cup Finally
  /\ Goto(r, "killed")
  /\ gen' = [gen EXCEPT ![r] = Remains(@)]
  /\ UNCHANGED <<tables, req, sent>>

\* The worker process dies, with every request it serves and their locals.
Crash ==
  /\ \E r \in Requests : pc[r] \in Streaming \cup Finally
  /\ pc' = [r \in Requests |-> CASE pc[r] \in Before -> "idle"
                                 [] pc[r] \in Ended -> pc[r]
                                 [] OTHER -> "killed"]
  /\ req' = [r \in Requests |-> IF pc[r] \in Before THEN Null ELSE req[r]]
  /\ gen' = [r \in Requests |-> CASE pc[r] \in Before -> NewGenerator
                                  [] pc[r] \in Ended -> gen[r]
                                  [] OTHER -> Remains(gen[r])]
  /\ UNCHANGED <<tables, sent>>

-----------------------------------------------------------------------------
\* The steps the server and the model provider owe a request once it is in.
Serve(r) ==
  \/ Start(r) \/ Drain(r) \/ LlmError(r) \/ Stop(r) \/ Resume(r)
  \/ InsertContent(r) \/ LoadContent(r) \/ UpdateContent(r)
  \/ RefreshContent(r) \/ SaveFiles(r) \/ FindRoom(r) \/ TouchRoom(r)
  \/ PersistLibrary(r) \/ SkipLibrary(r) \/ RefreshLibrary(r)
  \/ PersistUsage(r) \/ Complete(r)

Next ==
  \/ \E u \in Users, o \in Rooms, m \in Messages, p \in Messages \cup {Null} :
       CreateMessage(u, o, m, p)
  \/ \E m \in Messages : DeleteMessage(m)
  \/ \E o \in Rooms : DeleteRoom(o)
  \/ \E r \in Requests :
       \/ \E u \in Users, m \in Messages, c \in Requests \cup {Null},
             lib \in LibraryChoices, f \in FileChoices :
            Accept(r, u, m, c, lib, f)
       \/ Serve(r) \/ Drop(r) \/ Delta(r) \/ Disconnect(r) \/ Cancel(r)
       \/ DeleteLibrary(r)
  \/ Crash

Spec == Init /\ [][Next]_vars

\* A request that is in goes on: the provider answers or its client times
\* out, and a client takes its events or its connection closes.
FairSpec == Spec /\ \A r \in Requests : WF_vars(Serve(r))

-----------------------------------------------------------------------------
(* Safety                                                                  *)

\* A library in the database stands beside an answer: its message still has
\* the content row the same stream stored, and that stream saw no error.
LibraryBesideAnswer ==
  \A r \in Requests : libraries[r] # Null =>
    /\ contents[ContentOf(r)] # Null
    /\ contents[ContentOf(r)].msg = libraries[r]
    /\ gen[r].status = "OK"

\* The ways a stream can end without recording tokens it counted: its message
\* was deleted meanwhile, its attachments failed to save, or the library it
\* had just stored was deleted.
Excused(r) ==
  \/ message[req[r].msg] = Null
  \/ gen[r].expired
  \/ LibraryDue(r) /\ libraries[r] = Null

\* When a stream's generator has ended, by its own end or by an exception in
\* `finally`, the tokens it counted are recorded, whatever other requests
\* did between its steps, unless it is excused.
UsageRecorded ==
  \A r \in Requests :
    pc[r] \in {"closed", "escaped"} /\ gen[r].tokens =>
      usage[r] # Null \/ Excused(r)

\* A client that was told `complete` had its stream ended by message_stop or
\* error before, its usage is recorded, and its answer is stored until its
\* message is deleted.
CompleteIsKept ==
  \A r \in Requests : sent[r] = "complete" =>
    /\ gen[r].finished
    /\ gen[r].tokens => usage[r] # Null
    /\ contents[ContentOf(r)] # Null \/ message[req[r].msg] = Null

\* What an answer writes belongs to a room of the user who asked for it.
OnlyOwnersAnswer ==
  \A c \in Requests : contents[c] # Null =>
    LET m == contents[c].msg IN
      /\ message[m] # Null
      /\ room[message[m].room] = req[contents[c].by].user

\* A content row has the status of the stream whose answer it holds, also after
\* any number of regenerations one after the other.  Excused is only a row whose
\* last regeneration was overtaken: another stream wrote the row between its
\* read and its write, and the UPDATE then leaves out a status equal to the one
\* it had read.
StatusFitsAnswer ==
  \A c \in Requests : contents[c] # Null =>
    LET r == contents[c].by IN
      contents[c].status = gen[r].status \/ gen[r].overtaken

\* A recorded usage row stays when its message, its room or anything else
\* goes; it only loses the reference to the message.
UsageSurvives ==
  [][\A r \in Requests : usage[r] # Null =>
       usage'[r] # Null /\ usage'[r].msg \in {usage[r].msg, Null}]_vars

-----------------------------------------------------------------------------
(* Liveness                                                                *)

\* Every stream that delivers its first text stores an answer, unless its
\* message is deleted or its task is cancelled: no error of the model, no
\* disconnect and no other stream on the same row loses the answer.
AnswerStored ==
  \A r \in Requests :
    pc[r] = "stream" ~>
      \/ \E c \in Requests : contents[c] # Null /\ contents[c].by = r
      \/ req[r] # Null /\ message[req[r].msg] = Null
      \/ pc[r] = "killed"

-----------------------------------------------------------------------------
(* Refinement: a stream is an answer's lifecycle                           *)

Stage(r) ==
  CASE pc[r] \in Before -> "waiting"
    [] pc[r] \in Streaming \cup {"persist", "update"} -> "answering"
    [] pc[r] \in {"refresh", "files", "room", "touch"} -> "stored"
    [] pc[r] \in {"library", "shelved", "usage", "complete"} ->
         IF gen[r].stored THEN "stored" ELSE "answering"
    [] OTHER -> IF sent[r] = "complete" THEN "announced" ELSE "over"

Lifecycle == INSTANCE AnswerLifecycle WITH
  stage <- [r \in Requests |-> Stage(r)],
  consumed <- [r \in Requests |-> pc[r] \notin Before /\ gen[r].tokens],
  billed <- [r \in Requests |-> usage[r] # Null]

\* Every behaviour of the streams is one of the abstract lifecycle: stored
\* once, billed once and only when stored, announced only when both are done.
ImplementsLifecycle == Lifecycle!Spec

-----------------------------------------------------------------------------
(* What comments and tests of the program say, and runs refute             *)

\* event_stream's docstring: even when the client disconnects, tokens the
\* provider consumed are recorded.  A stream that delivered text consumed some.
ConsumedTokensRecorded ==
  \A r \in Requests :
    pc[r] = "closed" /\ sent[r] = "text" => usage[r] # Null

\* The comment on failing attachments and the test of that name: recording
\* the usage and sending `complete` go on when the attachments fail to save.
FilesFailureIsHarmless ==
  \A r \in Requests :
    pc[r] = "escaped" /\ gen[r].expired => message[req[r].msg] = Null

\* _persist_message_content's docstring: a regeneration overwrites the row
\* with its result.
RegenerationOverwrites ==
  [][\A r \in Requests :
       pc[r] = "update" /\ pc'[r] = "refresh" =>
         LET row == contents'[ContentOf(r)] IN
           row.by = r /\ row.status = gen[r].status]_vars
=============================================================================
