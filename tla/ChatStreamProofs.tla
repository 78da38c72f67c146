-------------------------- MODULE ChatStreamProofs --------------------------
(***************************************************************************)
(* Proofs about ChatStream, for any requests, messages, rooms and users.   *)
(*                                                                         *)
(* IInv is the inductive invariant: what the rows of the tables have to do *)
(* with each other (Rows), what a request captured before it streamed and  *)
(* how much of that is still true (Captured), and what a generator has     *)
(* achieved by the time it is at a given line of its `finally` (Progress). *)
(* The safety properties the runs check follow from it.  With Fits, who    *)
(* wrote which status, and Ledger, when usage is recorded, it also gives   *)
(* that statuses fit, that usage rows stay, and that the streams implement *)
(* the abstract AnswerLifecycle.                                           *)
(***************************************************************************)
EXTENDS ChatStream, TLAPS

\* The places of a coroutine that has written a content row or given up.
Written == (Finally \ {"persist", "update"}) \cup Ended

\* The row request r writes is there, on the message r answers, unless that
\* message is gone.
AnswerHeld(r) ==
  \/ message[req[r].msg] = Null
  \/ /\ contents[ContentOf(r)] # Null
     /\ contents[ContentOf(r)].msg = req[r].msg

\* Rows refer to live rows, and to requests that wrote them.
Rows ==
  /\ \A o \in Rooms : room[o] # Null => o \in issued
  /\ \A m \in Messages : message[m] # Null =>
       m \in issued /\ room[message[m].room] # Null
  /\ \A c \in Requests : contents[c] # Null =>
       LET r == contents[c].by IN
         /\ message[contents[c].msg] # Null
         /\ pc[c] \in Written /\ pc[r] \in Written
         /\ req[r].msg = contents[c].msg
  /\ \A r \in Requests : libraries[r] # Null =>
       /\ message[libraries[r]] # Null
       /\ pc[r] \in Written /\ libraries[r] = req[r].msg
       /\ gen[r].status = "OK" /\ AnswerHeld(r)

\* What a request looked up before streaming stays true or is deleted.
Captured(r) ==
  req[r] # Null =>
    /\ req[r].msg \in issued /\ req[r].room \in issued
    /\ message[req[r].msg] # Null => message[req[r].msg].room = req[r].room
    /\ room[req[r].room] \in {req[r].user, Null}
    /\ req[r].target # Null =>
         /\ pc[req[r].target] \in Written
         /\ contents[req[r].target] # Null =>
              contents[req[r].target].msg = req[r].msg

Progress(r) ==
  /\ pc[r] \in {"update", "refresh", "files", "room", "touch"} => AnswerHeld(r)
  /\ gen[r].stored => pc[r] \in Written /\ AnswerHeld(r)
  /\ pc[r] = "shelved" => LibraryDue(r)
  /\ pc[r] = "complete" /\ gen[r].tokens => usage[r] # Null
  /\ pc[r] \in {"closed", "escaped"} /\ gen[r].tokens =>
       usage[r] # Null \/ Excused(r)
  /\ sent[r] = "complete" =>
       /\ pc[r] = "closed" /\ gen[r].finished /\ gen[r].stored
       /\ gen[r].tokens => usage[r] # Null

IInv ==
  /\ TypeOK
  /\ Rows
  /\ \A r \in Requests : Captured(r)
  /\ \A r \in Requests : Progress(r)
-----------------------------------------------------------------------------
(* Type correctness                                                        *)

\* The places a step can go to, one by one.
LEMMA PlacesListed ==
  {"idle", "ready", "stream", "flush", "stopped", "failed", "persist", "update",
   "refresh", "files", "room", "touch", "library", "shelved", "usage",
   "complete", "closed", "escaped", "killed"} \subseteq Places
BY DEF Places, Before, Streaming, Finally, Ended

\* A new generator, and what remains of one that is lost, are generators.
LEMMA GeneratorTyped ==
  /\ NewGenerator \in Generator
  /\ \A g \in Generator : Remains(g) \in Generator
BY DEF Generator, Statuses, NewGenerator, Remains

\* So is a generator after an assignment to one of its locals.
LEMMA FieldsTyped ==
  ASSUME gen \in [Requests -> Generator], NEW r \in Requests,
         NEW b \in BOOLEAN
  PROVE  /\ [gen EXCEPT ![r].tokens = b] \in [Requests -> Generator]
         /\ [gen EXCEPT ![r].tokens = b, ![r].status = "ERROR"]
              \in [Requests -> Generator]
         /\ [gen EXCEPT ![r].finished = b] \in [Requests -> Generator]
         /\ [gen EXCEPT ![r].titled = b] \in [Requests -> Generator]
         /\ [gen EXCEPT ![r].stored = b] \in [Requests -> Generator]
         /\ [gen EXCEPT ![r].expired = b] \in [Requests -> Generator]
         /\ \A s \in Statuses, c \in Requests :
              [gen EXCEPT ![r].loaded = s, ![r].seen = c] \in [Requests -> Generator]
         /\ \A s \in Statuses :
              [gen EXCEPT ![r].loaded = s, ![r].seen = Null, ![r].overtaken = b]
                \in [Requests -> Generator]
         /\ gen[r].status \in Statuses
         /\ (gen[r].tokens \/ b) \in BOOLEAN
<1>1. [gen EXCEPT ![r].tokens = b] \in [Requests -> Generator]
  BY DEF Generator
<1>2. [gen EXCEPT ![r].tokens = b, ![r].status = "ERROR"] \in [Requests -> Generator]
  BY DEF Generator, Statuses
<1>3. [gen EXCEPT ![r].finished = b] \in [Requests -> Generator]
  BY DEF Generator
<1>4. [gen EXCEPT ![r].titled = b] \in [Requests -> Generator]
  BY DEF Generator
<1>5. [gen EXCEPT ![r].stored = b] \in [Requests -> Generator]
  BY DEF Generator
<1>6. [gen EXCEPT ![r].expired = b] \in [Requests -> Generator]
  BY DEF Generator
<1>7. \A s \in Statuses, c \in Requests :
        [gen EXCEPT ![r].loaded = s, ![r].seen = c] \in [Requests -> Generator]
  BY DEF Generator
<1>8. \A s \in Statuses :
        [gen EXCEPT ![r].loaded = s, ![r].seen = Null, ![r].overtaken = b]
          \in [Requests -> Generator]
  BY DEF Generator
<1>9. gen[r].status \in Statuses /\ gen[r].tokens \in BOOLEAN
  BY DEF Generator
<1> QED  BY <1>1, <1>2, <1>3, <1>4, <1>5, <1>6, <1>7, <1>8, <1>9

\* The tables and the locals, typed apart.
TablesOK ==
  /\ room \in [Rooms -> Users \cup {Null}]
  /\ message \in [Messages -> MessageRow \cup {Null}]
  /\ issued \in SUBSET (Messages \cup Rooms)
  /\ contents \in [Requests -> ContentRow \cup {Null}]
  /\ files \in [Requests -> Requests \cup {Null}]
  /\ libraries \in [Requests -> Messages \cup {Null}]
  /\ usage \in [Requests -> UsageRow \cup {Null}]

LocalsOK ==
  /\ pc \in [Requests -> Places]
  /\ req \in [Requests -> Request \cup {Null}]
  /\ \A r \in Requests : req[r] = Null <=> pc[r] = "idle"
  /\ gen \in [Requests -> Generator]
  /\ sent \in [Requests -> Events]

\* Deleting the messages of any set leaves the tables typed.
LEMMA DeleteTyped ==
  ASSUME TablesOK, NEW D \in SUBSET Messages, DeleteRows(D),
         room' \in [Rooms -> Users \cup {Null}], issued' = issued
  PROVE  TablesOK'
BY DEF TablesOK, DeleteRows, LibrariesWithout, UsageWithout, UsageRow

\* A step that leaves the tables alone leaves them typed.
LEMMA TablesKept == ASSUME TablesOK, UNCHANGED tables PROVE TablesOK'
BY DEF TablesOK, tables

\* Every step keeps every variable in its type.
LEMMA TypePreserved == TypeOK /\ [Next]_vars => TypeOK'
<1> SUFFICES ASSUME TablesOK, LocalsOK, [Next]_vars
             PROVE  TablesOK' /\ LocalsOK'
  BY DEF TypeOK, TablesOK, LocalsOK
<1>1. ASSUME NEW u \in Users, NEW o \in Rooms, NEW m \in Messages,
             NEW p \in Messages \cup {Null}, CreateMessage(u, o, m, p)
      PROVE  TablesOK' /\ LocalsOK'
  <2>1. TablesOK'
    BY <1>1 DEF CreateMessage, ResolveRoom, ParentOf, MessageRow, TablesOK
  <2> QED  BY <2>1, <1>1 DEF CreateMessage, LocalsOK
<1>2. ASSUME NEW m \in Messages, DeleteMessage(m)  PROVE TablesOK' /\ LocalsOK'
  <2>1. /\ Cascade({m}) \in SUBSET Messages
        /\ room' \in [Rooms -> Users \cup {Null}]
    BY <1>2 DEF DeleteMessage, Cascade, TablesOK
  <2>2. TablesOK'
    BY <1>2, <2>1, DeleteTyped DEF DeleteMessage
  <2> QED  BY <2>2, <1>2 DEF DeleteMessage, LocalsOK
<1>3. ASSUME NEW o \in Rooms, DeleteRoom(o)  PROVE TablesOK' /\ LocalsOK'
  <2>1. /\ Cascade(MessagesIn(o)) \in SUBSET Messages
        /\ room' \in [Rooms -> Users \cup {Null}]
    BY <1>3 DEF DeleteRoom, Cascade, TablesOK
  <2>2. TablesOK'
    BY <1>3, <2>1, DeleteTyped DEF DeleteRoom
  <2> QED  BY <2>2, <1>3 DEF DeleteRoom, LocalsOK
<1>4. ASSUME NEW r \in Requests, NEW u \in Users, NEW m \in Messages,
             NEW c \in Requests \cup {Null}, NEW lib \in LibraryChoices,
             NEW f \in FileChoices, Accept(r, u, m, c, lib, f)
      PROVE  TablesOK' /\ LocalsOK'
  <2>1. message[m].room \in Rooms
    BY <1>4 DEF Accept, TargetExists, MessageRow, TablesOK
  <2>2. req' \in [Requests -> Request \cup {Null}]
    BY <1>4, <2>1 DEF Accept, Request, LocalsOK
  <2>3. gen' \in [Requests -> Generator]
    <3>1. PICK embedded \in BOOLEAN : gen' = [gen EXCEPT ![r].tokens = embedded]
      BY <1>4 DEF Accept, BuildRagContext
    <3> QED  BY <3>1, FieldsTyped, Zenon DEF LocalsOK
  <2>4. /\ [user |-> u, msg |-> m, room |-> message[m].room, target |-> c,
            library |-> lib, files |-> f] \in Request
        /\ Null \notin Request
    BY <1>4, <2>1, NullAssumption DEF Accept, Request
  <2>5. \A q \in Requests : req'[q] = Null <=> pc'[q] = "idle"
    BY <1>4, <2>4 DEF Accept, Goto, LocalsOK
  <2>6. LocalsOK'
    BY <1>4, <2>2, <2>3, <2>5, PlacesListed DEF Accept, Goto, LocalsOK
  <2> QED  BY <1>4, <2>6, TablesKept DEF Accept, tables
<1>5. ASSUME NEW r \in Requests, Start(r)  PROVE TablesOK' /\ LocalsOK'
  <2>1. TablesOK'
    BY <1>5, TablesKept DEF Start, tables
  <2>2. LocalsOK'
    BY <1>5, PlacesListed DEF Start, LocalsOK, Goto, tables
  <2> QED  BY <2>1, <2>2
<1>6. ASSUME NEW r \in Requests, Drop(r)  PROVE TablesOK' /\ LocalsOK'
  <2>1. gen' \in [Requests -> Generator]
    BY <1>6, GeneratorTyped DEF Drop, LocalsOK
  <2>2. TablesOK'
    BY <1>6, TablesKept DEF Drop, tables
  <2>3. LocalsOK'
    BY <1>6, <2>1, PlacesListed DEF Drop, LocalsOK, Goto, tables
  <2> QED  BY <2>2, <2>3
<1>7. ASSUME NEW r \in Requests, Delta(r)  PROVE TablesOK' /\ LocalsOK'
  <2>1. TablesOK'
    BY <1>7, TablesKept DEF Delta, tables
  <2>2. LocalsOK'
    BY <1>7, PlacesListed DEF Delta, LocalsOK, Goto, tables, Events
  <2> QED  BY <2>1, <2>2
<1>8. ASSUME NEW r \in Requests, Drain(r)  PROVE TablesOK' /\ LocalsOK'
  <2>1. gen' \in [Requests -> Generator]
    <3>1. PICK counted \in BOOLEAN :
            gen' = [gen EXCEPT ![r].tokens = gen[r].tokens \/ counted]
      BY <1>8, Zenon DEF Drain
    <3>2. (gen[r].tokens \/ counted) \in BOOLEAN
      BY FieldsTyped DEF LocalsOK
    <3> QED  BY <3>1, <3>2, FieldsTyped, Zenon DEF LocalsOK
  <2>2. TablesOK'
    BY <1>8, TablesKept DEF Drain, tables
  <2>3. LocalsOK'
    BY <1>8, <2>1, PlacesListed DEF Drain, LocalsOK, Goto, tables
  <2> QED  BY <2>2, <2>3
<1>9. ASSUME NEW r \in Requests, LlmError(r)  PROVE TablesOK' /\ LocalsOK'
  <2>1. gen' \in [Requests -> Generator]
    <3>1. PICK counted \in BOOLEAN :
            gen' = [gen EXCEPT ![r].tokens = gen[r].tokens \/ counted,
                               ![r].status = "ERROR"]
      BY <1>9, Zenon DEF LlmError
    <3>2. (gen[r].tokens \/ counted) \in BOOLEAN
      BY FieldsTyped DEF LocalsOK
    <3> QED  BY <3>1, <3>2, FieldsTyped, Zenon DEF LocalsOK
  <2>2. TablesOK'
    BY <1>9, TablesKept DEF LlmError, tables
  <2>3. LocalsOK'
    BY <1>9, <2>1, PlacesListed DEF LlmError, LocalsOK, Goto, tables
  <2> QED  BY <2>2, <2>3
<1>10. ASSUME NEW r \in Requests, Stop(r)  PROVE TablesOK' /\ LocalsOK'
  <2>1. req[r] \in Request
    BY <1>10 DEF Stop, LocalsOK
  <2>2. req[r].library \in BOOLEAN
    BY <2>1, NullAssumption DEF Request
  <2>3. gen' \in [Requests -> Generator]
    BY <1>10, FieldsTyped, <2>2, Zenon DEF Stop, LocalsOK
  <2>4. TablesOK'
    BY <1>10, TablesKept DEF Stop, tables
  <2>5. LocalsOK'
    BY <1>10, <2>3, PlacesListed DEF Stop, LocalsOK, Goto, tables
  <2> QED  BY <2>4, <2>5
<1>11. ASSUME NEW r \in Requests, Resume(r)  PROVE TablesOK' /\ LocalsOK'
  <2>1. gen' \in [Requests -> Generator]
    BY <1>11, FieldsTyped, Zenon DEF Resume, LocalsOK
  <2>2. TablesOK'
    BY <1>11, TablesKept DEF Resume, tables
  <2>3. LocalsOK'
    BY <1>11, <2>1, PlacesListed DEF Resume, LocalsOK, Goto, tables
  <2> QED  BY <2>2, <2>3
<1>12. ASSUME NEW r \in Requests, Disconnect(r)  PROVE TablesOK' /\ LocalsOK'
  <2>1. gen' \in [Requests -> Generator]
    <3>1. CASE gen' = gen
      BY <3>1 DEF LocalsOK
    <3>2. CASE \E t \in BOOLEAN : gen' = [gen EXCEPT ![r].titled = t]
      <4>1. PICK t \in BOOLEAN : gen' = [gen EXCEPT ![r].titled = t]
        BY <3>2
      <4> QED  BY <4>1, FieldsTyped, Zenon DEF LocalsOK
    <3> QED  BY <1>12, <3>1, <3>2 DEF Disconnect
  <2>2. TablesOK'
    BY <1>12, TablesKept DEF Disconnect, tables
  <2>3. LocalsOK'
    BY <1>12, <2>1, PlacesListed DEF Disconnect, LocalsOK, Goto, tables
  <2> QED  BY <2>2, <2>3
<1>13. ASSUME NEW r \in Requests, Cancel(r)  PROVE TablesOK' /\ LocalsOK'
  <2>1. gen' \in [Requests -> Generator]
    BY <1>13, GeneratorTyped DEF Cancel, LocalsOK
  <2>2. TablesOK'
    BY <1>13, TablesKept DEF Cancel, tables
  <2>3. LocalsOK'
    BY <1>13, <2>1, PlacesListed DEF Cancel, LocalsOK, Goto, tables, Finally
  <2> QED  BY <2>2, <2>3
<1>14. ASSUME NEW r \in Requests, InsertContent(r)  PROVE TablesOK' /\ LocalsOK'
  <2>1. req[r] \in Request
    BY <1>14 DEF InsertContent, LocalsOK
  <2>2. TablesOK'
    BY <2>1, <1>14 DEF InsertContent, tables, TablesOK, ContentRow,
       MessageExists, Escape, Request, LocalsOK, Generator
  <2>3. LocalsOK'
    BY <1>14, PlacesListed DEF InsertContent, LocalsOK, Goto, tables, Escape
  <2> QED  BY <2>2, <2>3
<1>15. ASSUME NEW r \in Requests, LoadContent(r)  PROVE TablesOK' /\ LocalsOK'
  <2>1. req[r] \in Request
    BY <1>15 DEF LoadContent, LocalsOK
  <2>2. ContentExists(r) => /\ contents[ContentOf(r)].status \in Statuses
                            /\ contents[ContentOf(r)].by \in Requests
    BY <2>1 DEF Request, ContentExists, ContentOf, TablesOK, ContentRow
  <2>3. gen' \in [Requests -> Generator]
    <3>1. CASE ContentExists(r)
      <4>1. gen' = [gen EXCEPT ![r].loaded = contents[ContentOf(r)].status,
                               ![r].seen = contents[ContentOf(r)].by]
        BY <1>15, <3>1 DEF LoadContent
      <4> QED  BY <4>1, <2>2, <3>1, FieldsTyped, Zenon DEF LocalsOK
    <3>2. CASE ~ContentExists(r)
      BY <1>15, <3>2 DEF LoadContent, LocalsOK
    <3> QED  BY <3>1, <3>2
  <2>4. TablesOK'
    BY <1>15, TablesKept DEF LoadContent, tables
  <2>5. LocalsOK'
    BY <1>15, <2>3, PlacesListed DEF LoadContent, LocalsOK, Goto, tables,
       ContentExists
  <2> QED  BY <2>4, <2>5
<1>16. ASSUME NEW r \in Requests, UpdateContent(r)  PROVE TablesOK' /\ LocalsOK'
  <2>1. gen' \in [Requests -> Generator]
    <3>1. CASE ContentExists(r)
      <4> DEFINE other == contents[ContentOf(r)].by # gen[r].seen
      <4>1. gen' = [gen EXCEPT ![r].loaded = "OK", ![r].seen = Null,
                               ![r].overtaken = other]
        BY <1>16, <3>1 DEF UpdateContent
      <4>2. "OK" \in Statuses /\ other \in BOOLEAN
        BY DEF Statuses
      <4> QED  BY <4>1, <4>2, FieldsTyped, Zenon DEF LocalsOK
    <3>2. CASE ~ContentExists(r)
      BY <1>16, <3>2 DEF UpdateContent, Escape, LocalsOK
    <3> QED  BY <3>1, <3>2
  <2>2. ASSUME ContentExists(r)  PROVE TablesOK'
    <3>1. ContentOf(r) \in Requests
      BY <1>16 DEF UpdateContent, LocalsOK, Request, ContentOf
    <3>2. contents[ContentOf(r)] \in ContentRow
      BY <2>2, <3>1 DEF ContentExists, TablesOK
    <3>3. Regenerated(r, contents[ContentOf(r)]) \in ContentRow
      BY <3>2, FieldsTyped DEF LocalsOK, Regenerated, ContentRow
    <3>4. contents' = [contents EXCEPT
                         ![ContentOf(r)] = Regenerated(r, contents[ContentOf(r)])]
      BY <1>16, <2>2 DEF UpdateContent
    <3>5. contents' \in [Requests -> ContentRow \cup {Null}]
      BY <3>1, <3>3, <3>4 DEF TablesOK
    <3>6. UNCHANGED <<room, message, issued, files, libraries, usage>>
      BY <1>16, <2>2 DEF UpdateContent
    <3> QED  BY <3>5, <3>6 DEF TablesOK
  <2>3. ASSUME ~ContentExists(r)  PROVE TablesOK'
    BY <1>16, <2>3, TablesKept DEF UpdateContent, Escape, tables
  <2>4. LocalsOK'
    BY <1>16, <2>1, PlacesListed DEF UpdateContent, LocalsOK, Goto, tables,
       Escape
  <2> QED  BY <2>2, <2>3, <2>4
<1>17. ASSUME NEW r \in Requests, RefreshContent(r)  PROVE TablesOK' /\ LocalsOK'
  <2>1. TablesOK'
    BY <1>17, TablesKept DEF RefreshContent, tables, Escape
  <2>2. LocalsOK'
    BY <1>17, PlacesListed DEF RefreshContent, LocalsOK, Goto, tables, Escape
  <2> QED  BY <2>1, <2>2
<1>18. ASSUME NEW r \in Requests, SaveFiles(r)  PROVE TablesOK' /\ LocalsOK'
  <2>1. req[r] \in Request
    BY <1>18 DEF SaveFiles, LocalsOK
  <2>2. gen' \in [Requests -> Generator]
    <3>1. CASE gen' = gen
      BY <3>1 DEF LocalsOK
    <3>2. CASE gen' = [gen EXCEPT ![r].expired = TRUE]
      BY <3>2, FieldsTyped, Zenon DEF LocalsOK
    <3> QED  BY <1>18, <3>1, <3>2 DEF SaveFiles
  <2>3. TablesOK'
    BY <2>1, <1>18 DEF SaveFiles, tables, TablesOK, ContentOf, Request,
       LocalsOK, ContentExists
  <2>4. LocalsOK'
    BY <1>18, <2>2, PlacesListed DEF SaveFiles, LocalsOK, Goto, tables
  <2> QED  BY <2>3, <2>4
<1>19. ASSUME NEW r \in Requests, FindRoom(r)  PROVE TablesOK' /\ LocalsOK'
  <2>1. gen' \in [Requests -> Generator]
    <3>1. CASE gen' = gen
      BY <3>1 DEF LocalsOK
    <3>2. CASE gen' = [gen EXCEPT ![r].stored = TRUE]
      BY <3>2, FieldsTyped, Zenon DEF LocalsOK
    <3> QED  BY <1>19, <3>1, <3>2 DEF FindRoom, Respond, Escape
  <2>2. TablesOK'
    BY <1>19, TablesKept DEF FindRoom, tables, Respond, Escape
  <2>3. LocalsOK'
    BY <1>19, <2>1, PlacesListed DEF FindRoom, LocalsOK, Goto, tables,
       Respond, Escape
  <2> QED  BY <2>2, <2>3
<1>20. ASSUME NEW r \in Requests, TouchRoom(r)  PROVE TablesOK' /\ LocalsOK'
  <2>1. gen' \in [Requests -> Generator]
    <3>1. CASE gen' = gen
      BY <3>1 DEF LocalsOK
    <3>2. CASE gen' = [gen EXCEPT ![r].stored = TRUE]
      BY <3>2, FieldsTyped, Zenon DEF LocalsOK
    <3> QED  BY <1>20, <3>1, <3>2 DEF TouchRoom, Respond, Escape
  <2>2. TablesOK'
    BY <1>20, TablesKept DEF TouchRoom, tables, Respond, Escape
  <2>3. LocalsOK'
    BY <1>20, <2>1, PlacesListed DEF TouchRoom, LocalsOK, Goto, tables,
       Respond, Escape
  <2> QED  BY <2>2, <2>3
<1>21. ASSUME NEW r \in Requests, PersistLibrary(r)  PROVE TablesOK' /\ LocalsOK'
  <2>1. req[r] \in Request
    BY <1>21 DEF PersistLibrary, LocalsOK
  <2>2. TablesOK'
    BY <2>1, <1>21 DEF PersistLibrary, tables, TablesOK, Request,
       MessageExists, Escape, LibraryDue
  <2>3. LocalsOK'
    BY <1>21, PlacesListed DEF PersistLibrary, LocalsOK, Goto, tables, Escape
  <2> QED  BY <2>2, <2>3
<1>22. ASSUME NEW r \in Requests, SkipLibrary(r)  PROVE TablesOK' /\ LocalsOK'
  <2>1. TablesOK'
    BY <1>22, TablesKept DEF SkipLibrary, tables
  <2>2. LocalsOK'
    BY <1>22, PlacesListed DEF SkipLibrary, LocalsOK, Goto, tables
  <2> QED  BY <2>1, <2>2
<1>23. ASSUME NEW r \in Requests, RefreshLibrary(r)  PROVE TablesOK' /\ LocalsOK'
  <2>1. TablesOK'
    BY <1>23, TablesKept DEF RefreshLibrary, tables, Escape
  <2>2. LocalsOK'
    BY <1>23, PlacesListed DEF RefreshLibrary, LocalsOK, Goto, tables, Escape
  <2> QED  BY <2>1, <2>2
<1>24. ASSUME NEW r \in Requests, PersistUsage(r)  PROVE TablesOK' /\ LocalsOK'
  <2>1. req[r] \in Request
    BY <1>24 DEF PersistUsage, LocalsOK
  <2>2. TablesOK'
    BY <2>1, <1>24 DEF PersistUsage, tables, TablesOK, Request, MessageExists,
       Escape, UsageRow
  <2>3. LocalsOK'
    BY <1>24, PlacesListed DEF PersistUsage, LocalsOK, Goto, tables, Escape
  <2> QED  BY <2>2, <2>3
<1>25. ASSUME NEW r \in Requests, Complete(r)  PROVE TablesOK' /\ LocalsOK'
  <2>1. TablesOK'
    BY <1>25, TablesKept DEF Complete, tables
  <2>2. LocalsOK'
    BY <1>25, PlacesListed DEF Complete, LocalsOK, Goto, tables, Events
  <2> QED  BY <2>1, <2>2
<1>26. ASSUME NEW r \in Requests, DeleteLibrary(r)  PROVE TablesOK' /\ LocalsOK'
  <2>1. TablesOK'
    BY <1>26 DEF DeleteLibrary, tables, TablesOK
  <2>2. LocalsOK'
    BY <1>26, PlacesListed DEF DeleteLibrary, LocalsOK, Goto, tables
  <2> QED  BY <2>1, <2>2
<1>27. CASE Crash
  <2>1. gen' \in [Requests -> Generator]
    BY <1>27, GeneratorTyped DEF Crash, LocalsOK
  <2>2. LocalsOK'
    BY <1>27, <2>1, PlacesListed DEF Crash, LocalsOK, Before, Streaming,
       Finally, Ended
  <2> QED  BY <1>27, <2>2, TablesKept DEF Crash, tables
<1>28. CASE UNCHANGED vars
  BY <1>28 DEF vars, TablesOK, LocalsOK
<1> QED
  BY <1>1, <1>2, <1>3, <1>4, <1>5, <1>6, <1>7, <1>8, <1>9, <1>10, <1>11,
     <1>12, <1>13, <1>14, <1>15, <1>16, <1>17, <1>18, <1>19, <1>20, <1>21,
     <1>22, <1>23, <1>24, <1>25, <1>26, <1>27, <1>28 DEF Next, Serve

\* At the start every table is empty and every request idle.
LEMMA InitTyped == Init => TypeOK
BY NullAssumption, PlacesListed, GeneratorTyped
   DEF Init, TypeOK, Events, Statuses

\* Whatever requests, users and deletions do, and however the library and
\* file choices are made, every table and every local keeps its type.
THEOREM TypeCorrect == Spec => []TypeOK
BY InitTyped, TypePreserved, PTL DEF Spec
-----------------------------------------------------------------------------
(* The inductive invariant                                                 *)

\* It holds when nothing has happened yet.
LEMMA InitInv == Init => IInv
<1> SUFFICES ASSUME Init PROVE IInv
  OBVIOUS
<1>1. TypeOK
  BY InitTyped
<1>2. Rows
  BY DEF Init, Rows
<1>3. \A r \in Requests : Captured(r)
  BY DEF Init, Captured
<1>4. \A r \in Requests : Progress(r)
  BY DEF Init, Progress, NewGenerator
<1> QED  BY <1>1, <1>2, <1>3, <1>4 DEF IInv

\* The other requests' part in a step of request r: none.
OthersIdle(r) ==
  \A q \in Requests \ {r} :
    /\ pc'[q] = pc[q] /\ gen'[q] = gen[q] /\ sent'[q] = sent[q]
    /\ usage'[q] = usage[q] /\ libraries'[q] = libraries[q]

\* Content rows stay and stay where they are.
ContentsKept ==
  \A c \in Requests : contents[c] # Null =>
    contents'[c] # Null /\ contents'[c].msg = contents[c].msg

\* A step of request r that deletes no content row keeps what every request
\* captured and what the others have achieved.
LEMMA StepOfOne ==
  ASSUME IInv, TypeOK', NEW r \in Requests, OthersIdle(r), ContentsKept,
         UNCHANGED <<room, message, issued, req>>,
         pc[r] \in Written => pc'[r] \in Written,
         \A c \in Requests : contents[c] = Null /\ contents'[c] # Null =>
           contents'[c].msg = req[c].msg /\ pc[c] \notin Written,
         Rows', Progress(r)'
  PROVE  IInv'
<1>1. \A q \in Requests : pc[q] \in Written => pc'[q] \in Written
  BY DEF OthersIdle
<1>2. ASSUME NEW q \in Requests  PROVE Captured(q)'
  <2>1. req[q] # Null => req[q] \in Request
    BY DEF IInv, TypeOK
  <2> QED  BY <1>1, <2>1 DEF IInv, Captured, ContentsKept, Request
<1>3. ASSUME NEW q \in Requests  PROVE Progress(q)'
  <2>1. CASE q = r
    BY <2>1
  <2>2. CASE q # r
    <3>1. /\ pc'[q] = pc[q] /\ gen'[q] = gen[q] /\ sent'[q] = sent[q]
          /\ usage'[q] = usage[q] /\ libraries'[q] = libraries[q]
      BY <2>2 DEF OthersIdle
    <3>2. pc[q] # "idle" /\ AnswerHeld(q) => AnswerHeld(q)'
      <4>1. pc[q] # "idle" => req[q] \in Request
        BY DEF IInv, TypeOK
      <4> QED  BY <4>1 DEF AnswerHeld, ContentsKept, ContentOf, Request
    <3>3. Progress(q)
      BY DEF IInv
    <3> QED  BY <3>1, <3>2, <3>3 DEF Progress, LibraryDue, Excused, Written,
                Finally, Ended
  <2> QED  BY <2>1, <2>2
<1> QED  BY <1>2, <1>3 DEF IInv

\* A step of request r that writes no row but perhaps its files or its usage.
LEMMA LocalStep ==
  ASSUME IInv, TypeOK', NEW r \in Requests, OthersIdle(r),
         UNCHANGED <<room, message, issued, contents, libraries, req>>,
         pc[r] \in Written => pc'[r] \in Written /\ gen'[r].status = gen[r].status,
         Progress(r)'
  PROVE  IInv'
<1>1. /\ UNCHANGED <<room, message, issued, contents, libraries, req>>
      /\ ContentsKept
  BY DEF ContentsKept
<1>2. \A q \in Requests : pc[q] \in Written =>
        pc'[q] \in Written /\ gen'[q].status = gen[q].status
  BY DEF OthersIdle
<1>3. \A q \in Requests : AnswerHeld(q) => AnswerHeld(q)'
  BY <1>1 DEF AnswerHeld, ContentOf
<1>4. Rows'
  <2>1. \A c \in Requests : contents[c] # Null => contents[c].by \in Requests
    BY DEF IInv, TypeOK, ContentRow
  <2> QED  BY <1>1, <1>2, <1>3, <2>1 DEF IInv, Rows
<1> QED  BY <1>1, <1>4, StepOfOne

\* Before `finally` a request has achieved nothing it could lose.
LEMMA EarlyProgress ==
  ASSUME IInv, NEW r \in Requests, pc[r] \in Streaming,
         pc'[r] \in Streaming \cup {"persist"},
         gen'[r].stored = gen[r].stored, sent'[r] = sent[r]
  PROVE  Progress(r)'
<1>1. gen[r].stored = FALSE /\ sent[r] # "complete"
  BY DEF IInv, TypeOK, Generator, Progress, Written, Streaming, Finally, Ended
<1> QED  BY <1>1 DEF Progress, Streaming

\* Start keeps the invariant.
LEMMA StartInv ==
  ASSUME IInv, TypeOK', NEW r \in Requests, Start(r)  PROVE IInv'
<1>1. OthersIdle(r) /\ UNCHANGED <<tables, req>>
  BY DEF Start, OthersIdle, Goto, tables, IInv, TypeOK
<1>2. pc[r] \in Written => pc'[r] \in Written /\ gen'[r].status = gen[r].status
  BY DEF Start, Goto, IInv, TypeOK, Generator, Written, Finally, Ended
<1>3. Progress(r)'
  BY <1>1 DEF Start, Goto, IInv, TypeOK, Generator, Progress, AnswerHeld,
     ContentOf,
     LibraryDue, Excused, Written, Finally, Ended, tables, Captured
<1> QED  BY <1>1, <1>2, <1>3, LocalStep DEF tables

\* Delta keeps the invariant.
LEMMA DeltaInv ==
  ASSUME IInv, TypeOK', NEW r \in Requests, Delta(r)  PROVE IInv'
<1>1. OthersIdle(r) /\ UNCHANGED <<tables, req>>
  BY DEF Delta, OthersIdle, Goto, tables, IInv, TypeOK
<1>2. pc[r] \in Written => pc'[r] \in Written /\ gen'[r].status = gen[r].status
  BY DEF Delta, Goto, IInv, TypeOK, Generator, Written, Finally, Ended
<1>3. Progress(r)'
  BY <1>1 DEF Delta, Goto, IInv, TypeOK, Generator, Progress, AnswerHeld,
     ContentOf,
     LibraryDue, Excused, Written, Finally, Ended, tables, Captured
<1> QED  BY <1>1, <1>2, <1>3, LocalStep DEF tables

\* Drain keeps the invariant.
LEMMA DrainInv ==
  ASSUME IInv, TypeOK', NEW r \in Requests, Drain(r)  PROVE IInv'
<1>1. OthersIdle(r) /\ UNCHANGED <<tables, req>>
  BY DEF Drain, OthersIdle, Goto, tables, IInv, TypeOK
<1>2. pc[r] \in Written => pc'[r] \in Written /\ gen'[r].status = gen[r].status
  BY DEF Drain, Goto, IInv, TypeOK, Generator, Written, Finally, Ended
<1>3. pc'[r] = "flush" /\ gen'[r].stored = gen[r].stored /\ sent'[r] = sent[r]
  BY DEF Drain, Goto, IInv, TypeOK, Generator
<1>4. Progress(r)'
  BY <1>3, EarlyProgress DEF Drain, Streaming
<1> QED  BY <1>1, <1>2, <1>4, LocalStep DEF tables

\* LlmError keeps the invariant.
LEMMA LlmErrorInv ==
  ASSUME IInv, TypeOK', NEW r \in Requests, LlmError(r)  PROVE IInv'
<1>1. OthersIdle(r) /\ UNCHANGED <<tables, req>>
  BY DEF LlmError, OthersIdle, Goto, tables, IInv, TypeOK
<1>2. pc[r] \in Written => pc'[r] \in Written /\ gen'[r].status = gen[r].status
  BY DEF LlmError, Goto, IInv, TypeOK, Generator, Written, Finally, Ended
<1>3. pc'[r] = "failed" /\ gen'[r].stored = gen[r].stored /\ sent'[r] = sent[r]
  BY DEF LlmError, Goto, IInv, TypeOK, Generator
<1>4. Progress(r)'
  BY <1>3, EarlyProgress DEF LlmError, Streaming
<1> QED  BY <1>1, <1>2, <1>4, LocalStep DEF tables

\* Stop keeps the invariant.
LEMMA StopInv ==
  ASSUME IInv, TypeOK', NEW r \in Requests, Stop(r)  PROVE IInv'
<1>1. OthersIdle(r) /\ UNCHANGED <<tables, req>>
  BY DEF Stop, OthersIdle, Goto, tables, IInv, TypeOK
<1>2. pc[r] \in Written => pc'[r] \in Written /\ gen'[r].status = gen[r].status
  BY DEF Stop, Goto, IInv, TypeOK, Generator, Written, Finally, Ended
<1>3. pc'[r] = "stopped" /\ gen'[r].stored = gen[r].stored /\ sent'[r] = sent[r]
  BY DEF Stop, Goto, IInv, TypeOK, Generator
<1>4. Progress(r)'
  BY <1>3, EarlyProgress DEF Stop, Streaming
<1> QED  BY <1>1, <1>2, <1>4, LocalStep DEF tables

\* Resume keeps the invariant.
LEMMA ResumeInv ==
  ASSUME IInv, TypeOK', NEW r \in Requests, Resume(r)  PROVE IInv'
<1>1. OthersIdle(r) /\ UNCHANGED <<tables, req>>
  BY DEF Resume, OthersIdle, Goto, tables, IInv, TypeOK
<1>2. pc[r] \in Written => pc'[r] \in Written /\ gen'[r].status = gen[r].status
  BY DEF Resume, Goto, IInv, TypeOK, Generator, Written, Finally, Ended
<1>3. pc'[r] = "persist" /\ gen'[r].stored = gen[r].stored /\ sent'[r] = sent[r]
  BY DEF Resume, Goto, IInv, TypeOK, Generator
<1>4. Progress(r)'
  BY <1>3, EarlyProgress DEF Resume, Streaming
<1> QED  BY <1>1, <1>2, <1>4, LocalStep DEF tables

\* Disconnect keeps the invariant.
LEMMA DisconnectInv ==
  ASSUME IInv, TypeOK', NEW r \in Requests, Disconnect(r)  PROVE IInv'
<1>1. OthersIdle(r) /\ UNCHANGED <<tables, req>>
  BY DEF Disconnect, OthersIdle, Goto, tables, IInv, TypeOK
<1>2. pc[r] \in Written => pc'[r] \in Written /\ gen'[r].status = gen[r].status
  BY DEF Disconnect, Goto, IInv, TypeOK, Generator, Written, Finally, Ended
<1>3. Progress(r)'
  BY <1>1 DEF Disconnect, Goto, IInv, TypeOK, Generator, Progress, AnswerHeld,
     ContentOf,
     LibraryDue, Excused, Written, Finally, Ended, tables, Captured
<1> QED  BY <1>1, <1>2, <1>3, LocalStep DEF tables

\* Cancel keeps the invariant.
LEMMA CancelInv ==
  ASSUME IInv, TypeOK', NEW r \in Requests, Cancel(r)  PROVE IInv'
<1>1. OthersIdle(r) /\ UNCHANGED <<tables, req>>
  BY DEF Cancel, OthersIdle, Goto, tables, IInv, TypeOK, Remains
<1>2. pc[r] \in Written => pc'[r] \in Written /\ gen'[r].status = gen[r].status
  BY DEF Cancel, Goto, IInv, TypeOK, Generator, Written, Finally, Ended, Remains
<1>3. Progress(r)'
  BY <1>1 DEF Cancel, Goto, IInv, TypeOK, Generator, Progress, AnswerHeld,
     ContentOf,
     LibraryDue, Excused, Written, Finally, Ended, tables, Captured, Remains
<1> QED  BY <1>1, <1>2, <1>3, LocalStep DEF tables

\* LoadContent keeps the invariant.
LEMMA LoadContentInv ==
  ASSUME IInv, TypeOK', NEW r \in Requests, LoadContent(r)  PROVE IInv'
<1>1. OthersIdle(r) /\ UNCHANGED <<tables, req>>
  BY DEF LoadContent, OthersIdle, Goto, tables, IInv, TypeOK, ContentExists
<1>2. pc[r] \in Written => pc'[r] \in Written /\ gen'[r].status = gen[r].status
  BY DEF LoadContent, Goto, IInv, TypeOK, Generator, Written, Finally, Ended,
     ContentExists
<1>3. Progress(r)'
  BY <1>1 DEF LoadContent, Goto, IInv, TypeOK, Generator, Progress,
     AnswerHeld, ContentOf,
     LibraryDue, Excused, Written, Finally, Ended, tables, Captured,
     ContentExists
<1> QED  BY <1>1, <1>2, <1>3, LocalStep DEF tables

\* RefreshContent keeps the invariant.
LEMMA RefreshContentInv ==
  ASSUME IInv, TypeOK', NEW r \in Requests, RefreshContent(r)  PROVE IInv'
<1>1. OthersIdle(r) /\ UNCHANGED <<tables, req>>
  BY DEF RefreshContent, OthersIdle, Goto, tables, IInv, TypeOK,
     ContentExists, Escape
<1>2. pc[r] \in Written => pc'[r] \in Written /\ gen'[r].status = gen[r].status
  BY DEF RefreshContent, Goto, IInv, TypeOK, Generator, Written, Finally,
     Ended, ContentExists, Escape
<1>3. Progress(r)'
  BY <1>1 DEF RefreshContent, Goto, IInv, TypeOK, Generator, Progress,
     AnswerHeld, ContentOf,
     LibraryDue, Excused, Written, Finally, Ended, tables, Captured,
     ContentExists, Escape
<1> QED  BY <1>1, <1>2, <1>3, LocalStep DEF tables

\* FindRoom keeps the invariant.
LEMMA FindRoomInv ==
  ASSUME IInv, TypeOK', NEW r \in Requests, FindRoom(r)  PROVE IInv'
<1>1. OthersIdle(r) /\ UNCHANGED <<tables, req>>
  BY DEF FindRoom, OthersIdle, Goto, tables, IInv, TypeOK, RoomExists,
     Respond, Escape
<1>2. pc[r] \in Written => pc'[r] \in Written /\ gen'[r].status = gen[r].status
  BY DEF FindRoom, Goto, IInv, TypeOK, Generator, Written, Finally, Ended,
     RoomExists, Respond, Escape
<1>3. Progress(r)'
  BY <1>1 DEF FindRoom, Goto, IInv, TypeOK, Generator, Progress, AnswerHeld,
     ContentOf,
     LibraryDue, Excused, Written, Finally, Ended, tables, Captured,
     RoomExists, Respond, Escape
<1> QED  BY <1>1, <1>2, <1>3, LocalStep DEF tables

\* A room that vanished took its messages along: the request is excused.
LEMMA TouchRoomInv ==
  ASSUME IInv, TypeOK', NEW r \in Requests, TouchRoom(r)  PROVE IInv'
<1>1. OthersIdle(r) /\ UNCHANGED <<tables, req>>
  BY DEF TouchRoom, OthersIdle, Goto, tables, IInv, TypeOK, RoomExists,
     Respond, Escape
<1>2. pc[r] \in Written => pc'[r] \in Written /\ gen'[r].status = gen[r].status
  BY DEF TouchRoom, Goto, IInv, TypeOK, Generator, Written, Finally, Ended,
     RoomExists, Respond, Escape
<1>3. AnswerHeld(r)' /\ UNCHANGED <<usage, libraries, message, sent>>
  BY <1>1 DEF TouchRoom, IInv, Progress, AnswerHeld, ContentOf, tables,
     Respond, Escape
<1>4. ASSUME pc'[r] = "library"  PROVE Progress(r)'
  BY <1>3, <1>4 DEF TouchRoom, Goto, IInv, TypeOK, Progress, Written, Finally
<1>5. ASSUME pc'[r] = "escaped"  PROVE Progress(r)'
  <2>1. gen' = gen
    BY <1>5 DEF TouchRoom, RoomExists, Respond, Escape, Goto, IInv, TypeOK
  <2>2. message[req[r].msg] = Null \/ gen[r].expired
    BY <1>5 DEF TouchRoom, RoomExists, Respond, Escape, Goto, IInv, TypeOK,
       Request, Captured, Rows
  <2> QED  BY <1>1, <1>3, <1>5, <2>1, <2>2
           DEF TouchRoom, Progress, IInv, Excused, Written, Ended
<1> QED  BY <1>1, <1>2, <1>4, <1>5, LocalStep DEF tables, TouchRoom, Respond,
            Escape, Goto, IInv, TypeOK

\* SkipLibrary keeps the invariant.
LEMMA SkipLibraryInv ==
  ASSUME IInv, TypeOK', NEW r \in Requests, SkipLibrary(r)  PROVE IInv'
<1>1. OthersIdle(r) /\ UNCHANGED <<tables, req>>
  BY DEF SkipLibrary, OthersIdle, Goto, tables, IInv, TypeOK
<1>2. pc[r] \in Written => pc'[r] \in Written /\ gen'[r].status = gen[r].status
  BY DEF SkipLibrary, Goto, IInv, TypeOK, Generator, Written, Finally, Ended
<1>3. Progress(r)'
  BY <1>1 DEF SkipLibrary, Goto, IInv, TypeOK, Generator, Progress,
     AnswerHeld, ContentOf,
     LibraryDue, Excused, Written, Finally, Ended, tables, Captured
<1> QED  BY <1>1, <1>2, <1>3, LocalStep DEF tables

\* RefreshLibrary keeps the invariant.
LEMMA RefreshLibraryInv ==
  ASSUME IInv, TypeOK', NEW r \in Requests, RefreshLibrary(r)  PROVE IInv'
<1>1. OthersIdle(r) /\ UNCHANGED <<tables, req>>
  BY DEF RefreshLibrary, OthersIdle, Goto, tables, IInv, TypeOK, Escape
<1>2. pc[r] \in Written => pc'[r] \in Written /\ gen'[r].status = gen[r].status
  BY DEF RefreshLibrary, Goto, IInv, TypeOK, Generator, Written, Finally,
     Ended, Escape
<1>3. Progress(r)'
  BY <1>1 DEF RefreshLibrary, Goto, IInv, TypeOK, Generator, Progress,
     AnswerHeld, ContentOf,
     LibraryDue, Excused, Written, Finally, Ended, tables, Captured, Escape
<1> QED  BY <1>1, <1>2, <1>3, LocalStep DEF tables

\* Complete keeps the invariant.
LEMMA CompleteInv ==
  ASSUME IInv, TypeOK', NEW r \in Requests, Complete(r)  PROVE IInv'
<1>1. OthersIdle(r) /\ UNCHANGED <<tables, req>>
  BY DEF Complete, OthersIdle, Goto, tables, IInv, TypeOK, CompleteDue
<1>2. pc[r] \in Written => pc'[r] \in Written /\ gen'[r].status = gen[r].status
  BY DEF Complete, Goto, IInv, TypeOK, Generator, Written, Finally, Ended,
     CompleteDue
<1>3. Progress(r)'
  BY <1>1 DEF Complete, Goto, IInv, TypeOK, Generator, Progress, AnswerHeld,
     ContentOf,
     LibraryDue, Excused, Written, Finally, Ended, tables, Captured, CompleteDue
<1> QED  BY <1>1, <1>2, <1>3, LocalStep DEF tables

\* Attachments touch neither the answer nor the usage.
LEMMA SaveFilesInv ==
  ASSUME IInv, TypeOK', NEW r \in Requests, SaveFiles(r)  PROVE IInv'
<1>1. /\ OthersIdle(r)
      /\ UNCHANGED <<room, message, issued, contents, libraries, usage, req, sent>>
  BY DEF SaveFiles, OthersIdle, Goto, IInv, TypeOK
<1>2. /\ pc'[r] = "room" /\ gen'[r].status = gen[r].status
      /\ gen'[r].stored = gen[r].stored
  BY DEF SaveFiles, Goto, IInv, TypeOK, Generator
<1>3. Progress(r)'
  BY <1>1, <1>2 DEF SaveFiles, IInv, Progress, AnswerHeld, ContentOf, Written,
     Finally
<1> QED  BY <1>1, <1>2, <1>3, LocalStep DEF Written, Finally

\* Usage is written for a live message, or not at all.
LEMMA PersistUsageInv ==
  ASSUME IInv, TypeOK', NEW r \in Requests, PersistUsage(r)  PROVE IInv'
<1>1. /\ OthersIdle(r)
      /\ UNCHANGED <<room, message, issued, contents, libraries, req, gen, sent>>
  BY DEF PersistUsage, Escape, OthersIdle, Goto, tables, IInv, TypeOK
<1>2. /\ pc[r] = "usage" /\ pc'[r] \in {"complete", "escaped"}
      /\ pc'[r] = "complete" /\ gen[r].tokens => usage'[r] # Null
      /\ pc'[r] = "escaped" => message[req[r].msg] = Null
  BY NullAssumption
     DEF PersistUsage, Escape, UsageDue, MessageExists, Goto, IInv, TypeOK,
     UsageRow, Request
<1>3. Progress(r)'
  BY <1>1, <1>2 DEF IInv, Progress, AnswerHeld, ContentOf, Excused, Written,
     Finally, Ended
<1> QED  BY <1>1, <1>2, <1>3, LocalStep DEF Written, Finally, Ended

\* A first answer gets a new row, which nobody can have captured before.
LEMMA InsertContentInv ==
  ASSUME IInv, TypeOK', NEW r \in Requests, InsertContent(r)  PROVE IInv'
<1>1. /\ OthersIdle(r) /\ pc[r] = "persist" /\ req[r] \in Request
      /\ UNCHANGED <<room, message, issued, libraries, usage, req, gen, sent>>
  BY DEF InsertContent, Escape, OthersIdle, Goto, tables, IInv, TypeOK
<1>2. gen[r].stored = FALSE /\ sent[r] # "complete" /\ pc[r] \notin Written
  BY <1>1 DEF IInv, TypeOK, Generator, Progress, Written, Finally, Ended
<1>3. CASE MessageExists(r)
  <2>1. /\ pc' = [pc EXCEPT ![r] = "refresh"]
        /\ contents' = [contents EXCEPT ![r] =
              [msg |-> req[r].msg, by |-> r, status |-> gen[r].status]]
    BY <1>3 DEF InsertContent, Goto
  <2>2. /\ contents'[r].msg = req[r].msg /\ contents'[r].by = r
        /\ contents'[r] # Null /\ pc'[r] = "refresh"
        /\ \A c \in Requests \ {r} : contents'[c] = contents[c]
        /\ contents[r] = Null
    <3>1. contents'[r] \in ContentRow
      BY <1>1, <2>1, FieldsTyped DEF IInv, TypeOK, Request, ContentRow
    <3> QED  BY <1>1, <1>2, <2>1, <3>1, NullAssumption DEF IInv, TypeOK, Rows
  <2>3. ContentsKept
    BY <2>2 DEF ContentsKept
  <2>4. \A q \in Requests : req[q] # Null /\ AnswerHeld(q) => AnswerHeld(q)'
    BY <1>1, <2>3 DEF AnswerHeld, ContentsKept, ContentOf, IInv, TypeOK, Request
  <2>5. Rows'
    <3>1. \A q \in Requests : pc[q] \in Written =>
            /\ pc'[q] \in Written /\ q # r
            /\ gen'[q].status = gen[q].status /\ req[q] # Null
      BY <1>1, <1>2 DEF OthersIdle, IInv, TypeOK, Written, Finally, Ended
    <3>2. \A c \in Requests : contents[c] # Null => contents[c].by \in Requests
      BY DEF IInv, TypeOK, ContentRow
    <3>3. pc'[r] \in Written /\ message[req[r].msg] # Null
      BY <1>3, <2>2 DEF Written, Finally, MessageExists
    <3> QED  BY <1>1, <1>2, <2>2, <2>4, <3>1, <3>2, <3>3 DEF IInv, Rows
  <2>6. Progress(r)'
    BY <1>1, <1>2, <2>2
       DEF InsertContent, Progress, AnswerHeld, ContentOf, Written, Finally
  <2> QED  BY <1>1, <1>2, <2>2, <2>3, <2>5, <2>6, StepOfOne
<1>4. CASE ~MessageExists(r)
  <2>1. pc'[r] = "escaped" /\ UNCHANGED contents
    BY <1>4 DEF InsertContent, Escape, Goto, tables, IInv, TypeOK
  <2>2. Progress(r)'
    BY <1>1, <1>2, <1>4, <2>1 DEF Progress, MessageExists, Excused, Written,
       Ended
  <2> QED  BY <1>1, <1>2, <2>1, <2>2, LocalStep
<1> QED  BY <1>3, <1>4

\* A regeneration overwrites a row of its own message.
LEMMA UpdateContentInv ==
  ASSUME IInv, TypeOK', NEW r \in Requests, UpdateContent(r)  PROVE IInv'
<1>1. /\ OthersIdle(r) /\ pc[r] = "update" /\ req[r] \in Request
      /\ UNCHANGED <<room, message, issued, libraries, usage, req, sent>>
      /\ gen'[r].stored = gen[r].stored /\ gen'[r].tokens = gen[r].tokens
      /\ gen'[r].status = gen[r].status
  BY DEF UpdateContent, Escape, OthersIdle, Goto, tables, IInv, TypeOK,
     Generator
<1>2. /\ gen[r].stored = FALSE /\ sent[r] # "complete" /\ pc[r] \notin Written
      /\ AnswerHeld(r)
  <2>1. Progress(r) /\ gen[r].stored \in BOOLEAN
    BY DEF IInv, TypeOK, Generator
  <2> QED  BY <1>1, <2>1 DEF Progress, Written, Finally, Ended
<1>3. CASE ContentExists(r)
  <2> DEFINE t == ContentOf(r)
  <2>1. /\ pc' = [pc EXCEPT ![r] = "refresh"]
        /\ contents' = [contents EXCEPT ![t] = Regenerated(r, contents[t])]
    BY <1>3 DEF UpdateContent, Goto
  <2>2. t \in Requests /\ contents[t] \in ContentRow /\ contents[t] # Null
    BY <1>1, <1>3 DEF ContentOf, ContentExists, Request, IInv, TypeOK
  <2>3. contents'[t].msg = contents[t].msg /\ contents'[t].by = r /\ contents'[t] # Null
    <3>1. contents'[t] = Regenerated(r, contents[t])
      BY <2>1, <2>2 DEF IInv, TypeOK
    <3>2. Regenerated(r, contents[t]) \in ContentRow
      BY <2>2, FieldsTyped DEF IInv, TypeOK, Regenerated, ContentRow
    <3> QED  BY <2>2, <3>1, <3>2, NullAssumption DEF Regenerated, ContentRow
  <2>4. pc'[r] = "refresh" /\ \A c \in Requests \ {t} : contents'[c] = contents[c]
    BY <2>1, <2>2 DEF IInv, TypeOK
  <2>5. contents[t].msg = req[r].msg
    BY <1>1, <1>2, <1>3, <2>2 DEF ContentExists, AnswerHeld, ContentOf, IInv,
       Rows,
       Captured, TypeOK, Request
  <2>6. ContentsKept
    BY <2>3, <2>4 DEF ContentsKept
  <2>7. \A q \in Requests : req[q] # Null /\ AnswerHeld(q) => AnswerHeld(q)'
    BY <1>1, <2>6 DEF AnswerHeld, ContentsKept, ContentOf, IInv, TypeOK, Request
  <2>8. Rows'
    <3>1. \A q \in Requests : pc[q] \in Written =>
            /\ pc'[q] \in Written /\ q # r
            /\ gen'[q].status = gen[q].status /\ req[q] # Null
      BY <1>1, <1>2 DEF OthersIdle, IInv, TypeOK, Written, Finally, Ended
    <3>2. pc'[r] \in Written
      BY <2>4 DEF Written, Finally
    <3>3. \A c \in Requests : contents[c] # Null => contents[c].by \in Requests
      BY DEF IInv, TypeOK, ContentRow
    <3> HIDE DEF t
    <3> QED  BY <1>1, <2>2, <2>3, <2>4, <2>5, <2>7, <3>1, <3>2, <3>3 DEF IInv,
                Rows
  <2>9. Progress(r)'
    BY <1>1, <1>2, <2>3, <2>4, <2>5
       DEF Progress, AnswerHeld, ContentOf, Written, Finally
  <2> QED  BY <1>1, <1>2, <2>2, <2>4, <2>6, <2>8, <2>9, StepOfOne
<1>4. CASE ~ContentExists(r)
  <2>1. pc'[r] = "escaped" /\ UNCHANGED <<contents, gen>>
    BY <1>4 DEF UpdateContent, Escape, Goto, tables, IInv, TypeOK
  <2>2. Progress(r)'
    BY <1>1, <1>2, <1>4, <2>1
       DEF Progress, ContentExists, AnswerHeld, Excused, Written, Ended
  <2> QED  BY <1>1, <1>2, <2>1, <2>2, LocalStep
<1> QED  BY <1>3, <1>4

\* A library is stored only after the answer it stands beside.
LEMMA PersistLibraryInv ==
  ASSUME IInv, TypeOK', NEW r \in Requests, PersistLibrary(r)  PROVE IInv'
<1>1. /\ OthersIdle(r) /\ pc[r] = "library" /\ LibraryDue(r) /\ req[r] \in Request
      /\ UNCHANGED <<room, message, issued, contents, usage, req, gen, sent>>
  BY DEF PersistLibrary, Escape, OthersIdle, Goto, tables, IInv, TypeOK
<1>2. AnswerHeld(r) /\ sent[r] # "complete" /\ gen[r].status = "OK" /\ gen[r].stored
  BY <1>1 DEF IInv, Progress, LibraryDue
<1>3. CASE MessageExists(r)
  <2>1. /\ pc'[r] = "shelved" /\ libraries'[r] = req[r].msg
        /\ \A q \in Requests \ {r} : libraries'[q] = libraries[q] /\ pc'[q] = pc[q]
    BY <1>1, <1>3 DEF PersistLibrary, Goto, IInv, TypeOK
  <2>2. \A q \in Requests : AnswerHeld(q) => AnswerHeld(q)'
    BY <1>1 DEF AnswerHeld, ContentOf
  <2>3. Rows'
    <3>1. \A c \in Requests : contents[c] # Null => contents[c].by \in Requests
      BY DEF IInv, TypeOK, ContentRow
    <3>2. pc'[r] \in Written
      BY <2>1 DEF Written, Finally
    <3>3. message[req[r].msg] # Null
      BY <1>3 DEF MessageExists
    <3> QED  BY <1>1, <1>2, <2>1, <2>2, <3>1, <3>2, <3>3 DEF IInv, Rows
  <2>4. Progress(r)'
    BY <1>1, <1>2, <2>1, <2>2 DEF Progress, LibraryDue, Written, Finally
  <2>5. ContentsKept
    BY <1>1 DEF ContentsKept
  <2> QED  BY <1>1, <2>1, <2>3, <2>4, <2>5, StepOfOne DEF Written, Finally
<1>4. CASE ~MessageExists(r)
  <2>1. pc'[r] = "escaped" /\ UNCHANGED libraries
    BY <1>1, <1>4 DEF PersistLibrary, Escape, Goto, tables, IInv, TypeOK
  <2>2. AnswerHeld(r)'
    BY <1>1, <1>2 DEF AnswerHeld, ContentOf
  <2>3. Progress(r)'
    BY <1>1, <1>2, <1>4, <2>1, <2>2
       DEF Progress, MessageExists, Excused, Written, Ended
  <2> QED  BY <1>1, <2>1, <2>3, LocalStep DEF Written, Ended
<1> QED  BY <1>3, <1>4

\* Deleting a library excuses the stream that stored it.
LEMMA DeleteLibraryInv ==
  ASSUME IInv, TypeOK', NEW r \in Requests, DeleteLibrary(r)  PROVE IInv'
<1>1. /\ OthersIdle(r) /\ libraries'[r] = Null
      /\ UNCHANGED <<room, message, issued, contents, usage, pc, req, gen, sent>>
      /\ \A q \in Requests \ {r} : libraries'[q] = libraries[q]
  BY DEF DeleteLibrary, OthersIdle, IInv, TypeOK
<1>2. \A q \in Requests : AnswerHeld(q) => AnswerHeld(q)'
  BY <1>1 DEF AnswerHeld, ContentOf
<1>3. Rows'
  <2>1. \A c \in Requests : contents[c] # Null => contents[c].by \in Requests
    BY DEF IInv, TypeOK, ContentRow
  <2> QED  BY <1>1, <1>2, <2>1 DEF IInv, Rows
<1>4. Progress(r)'
  <2>1. Progress(r)
    BY DEF IInv
  <2> QED  BY <1>1, <1>2, <2>1 DEF Progress, LibraryDue, Excused
<1>5. ContentsKept
  BY <1>1 DEF ContentsKept
<1> QED  BY <1>1, <1>3, <1>4, <1>5, StepOfOne

\* Accepting a request captures rows that are live and belong together.
LEMMA AcceptInv ==
  ASSUME IInv, TypeOK', NEW r \in Requests, NEW u \in Users, NEW m \in Messages,
         NEW c \in Requests \cup {Null}, NEW lib \in LibraryChoices,
         NEW f \in FileChoices, Accept(r, u, m, c, lib, f)
  PROVE  IInv'
<1>1. /\ pc[r] = "idle" /\ pc'[r] = "ready" /\ req[r] = Null
      /\ \A q \in Requests \ {r} :
           pc'[q] = pc[q] /\ req'[q] = req[q] /\ gen'[q] = gen[q]
      /\ UNCHANGED <<room, message, issued, contents, libraries, usage, sent>>
      /\ gen'[r].stored = gen[r].stored
  BY DEF Accept, BuildRagContext, Goto, tables, IInv, TypeOK, Generator
<1>2. /\ req'[r].user = u /\ req'[r].msg = m /\ req'[r].target = c
      /\ req'[r].room = message[m].room
  BY DEF Accept, IInv, TypeOK
<1>3. pc[r] \notin Written /\ pc'[r] \notin Written /\ "idle" \notin Written
  BY <1>1 DEF Written, Finally, Ended
<1>4. gen[r].stored = FALSE /\ sent[r] # "complete"
  BY <1>1, <1>3 DEF IInv, TypeOK, Generator, Progress
<1>5. \A q \in Requests \ {r} : AnswerHeld(q) => AnswerHeld(q)'
  BY <1>1 DEF AnswerHeld, ContentOf
<1>6. \A k \in Requests : contents[k] # Null => contents[k].by \in Requests
  BY DEF IInv, TypeOK, ContentRow
<1>7. Rows'
  BY <1>1, <1>3, <1>5, <1>6 DEF IInv, Rows
<1>8. ASSUME NEW q \in Requests  PROVE Captured(q)'
  <2>1. CASE q = r
    <3>1. /\ message[m] # Null /\ message[m].room \in Rooms
          /\ room[message[m].room] = u
          /\ c # Null => contents[c] # Null /\ contents[c].msg = m
      BY DEF Accept, TargetExists, Owns, IInv, TypeOK, MessageRow
    <3>2. m \in issued /\ message[m].room \in issued
      BY <3>1, NullAssumption DEF IInv, Rows
    <3>3. c # Null => pc'[c] \in Written
      BY <1>1, <1>3, <3>1 DEF IInv, Rows
    <3> QED  BY <1>1, <1>2, <2>1, <3>1, <3>2, <3>3 DEF Captured
  <2>2. CASE q # r
    <3>1. /\ req'[q] = req[q] /\ Captured(q)
          /\ req[q] # Null /\ req[q].target # Null => req[q].target \in Requests
      BY <1>1, <2>2 DEF IInv, TypeOK, Request
    <3> QED  BY <1>1, <1>3, <3>1 DEF Captured
  <2> QED  BY <2>1, <2>2
<1>9. ASSUME NEW q \in Requests  PROVE Progress(q)'
  <2>1. CASE q = r
    BY <1>1, <1>4, <2>1 DEF Progress
  <2>2. CASE q # r
    <3>1. /\ pc'[q] = pc[q] /\ req'[q] = req[q] /\ gen'[q] = gen[q] /\ Progress(q)
          /\ AnswerHeld(q) => AnswerHeld(q)'
      BY <1>1, <1>5, <2>2 DEF IInv
    <3> QED  BY <1>1, <3>1 DEF Progress, LibraryDue, Excused
  <2> QED  BY <2>1, <2>2
<1> QED  BY <1>7, <1>8, <1>9 DEF IInv

\* Dropping a request before its generator ran forgets all it captured.
LEMMA DropInv ==
  ASSUME IInv, TypeOK', NEW r \in Requests, Drop(r)  PROVE IInv'
<1>1. /\ pc[r] = "ready" /\ pc'[r] = "idle" /\ req'[r] = Null
      /\ \A q \in Requests \ {r} :
           pc'[q] = pc[q] /\ req'[q] = req[q] /\ gen'[q] = gen[q]
      /\ UNCHANGED <<room, message, issued, contents, libraries, usage, sent>>
      /\ gen'[r].stored = FALSE
  BY DEF Drop, NewGenerator, Goto, tables, IInv, TypeOK
<1>2. pc[r] \notin Written
  BY <1>1 DEF Written, Finally, Ended
<1>3. sent[r] # "complete"
  BY <1>1 DEF IInv, Progress
<1>4. \A q \in Requests \ {r} : AnswerHeld(q) => AnswerHeld(q)'
  BY <1>1 DEF AnswerHeld, ContentOf
<1>5. Rows'
  <2>1. \A k \in Requests : contents[k] # Null => contents[k].by \in Requests
    BY DEF IInv, TypeOK, ContentRow
  <2> QED  BY <1>1, <1>2, <1>4, <2>1 DEF IInv, Rows
<1>6. ASSUME NEW q \in Requests  PROVE Captured(q)'
  <2>1. CASE q = r
    BY <1>1, <2>1 DEF Captured
  <2>2. CASE q # r
    <3>1. /\ req'[q] = req[q] /\ Captured(q)
          /\ req[q] # Null /\ req[q].target # Null => req[q].target \in Requests
      BY <1>1, <2>2 DEF IInv, TypeOK, Request
    <3> QED  BY <1>1, <1>2, <3>1 DEF Captured
  <2> QED  BY <2>1, <2>2
<1>7. ASSUME NEW q \in Requests  PROVE Progress(q)'
  <2>1. CASE q = r
    BY <1>1, <1>3, <2>1 DEF Progress
  <2>2. CASE q # r
    <3>1. /\ pc'[q] = pc[q] /\ req'[q] = req[q] /\ gen'[q] = gen[q] /\ Progress(q)
          /\ AnswerHeld(q) => AnswerHeld(q)'
      BY <1>1, <1>4, <2>2 DEF IInv
    <3> QED  BY <1>1, <3>1 DEF Progress, LibraryDue, Excused
  <2> QED  BY <2>1, <2>2
<1> QED  BY <1>5, <1>6, <1>7 DEF IInv

\* A crash keeps the tables, so what is written stays consistent; the lost
\* generators claim nothing any more.
LEMMA CrashInv ==
  ASSUME IInv, TypeOK', Crash  PROVE IInv'
<1>1. UNCHANGED <<room, message, issued, contents, libraries, usage, sent>>
  BY DEF Crash, tables
<1>2. ASSUME NEW q \in Requests
      PROVE  /\ pc[q] \in Written => /\ pc'[q] \in Written /\ req'[q] = req[q]
                                    /\ gen'[q].status = gen[q].status
                                    /\ req[q] # Null
             /\ pc'[q] \in {"idle", "killed"} \/ pc'[q] = pc[q]
             /\ pc'[q] = pc[q] /\ pc[q] # "killed" /\ pc'[q] # "idle" => gen'[q] = gen[q]
             /\ pc'[q] \in {"idle", "killed"} /\ pc[q] # "killed" => gen'[q].stored = FALSE
             /\ pc[q] = "killed" => gen'[q] = gen[q]
             /\ req'[q] \in {Null, req[q]}
             /\ pc[q] \in Ended => pc'[q] = pc[q]
  <2>1. gen[q] \in Generator /\ (req[q] = Null <=> pc[q] = "idle")
    BY DEF IInv, TypeOK
  <2>2. pc[q] \in Places
    BY DEF IInv, TypeOK
  <2>3. CASE pc[q] \in Before
    BY <2>1, <2>3 DEF Crash, NewGenerator, Before, Written, Finally, Ended
  <2>4. CASE pc[q] \in Ended
    BY <2>1, <2>4 DEF Crash, Before, Written, Finally, Ended
  <2>5. CASE pc[q] \notin Before \cup Ended
    <3>1. pc'[q] = "killed" /\ req'[q] = req[q] /\ gen'[q] = Remains(gen[q])
      BY <2>5 DEF Crash
    <3>2. Remains(gen[q]).stored = FALSE /\ Remains(gen[q]).status = gen[q].status
      BY <2>1 DEF Remains, Generator
    <3> QED  BY <2>1, <2>5, <3>1, <3>2 DEF Before, Written, Ended
  <2> QED  BY <2>3, <2>4, <2>5
<1>3. ASSUME NEW q \in Requests, req'[q] = req[q], AnswerHeld(q)
      PROVE  AnswerHeld(q)'
  BY <1>1, <1>3 DEF AnswerHeld, ContentOf
<1>4. Rows'
  <2>1. \A k \in Requests : contents[k] # Null => contents[k].by \in Requests
    BY DEF IInv, TypeOK, ContentRow
  <2>2. \A q \in Requests : pc[q] \in Written =>
          /\ pc'[q] \in Written /\ req'[q] = req[q]
          /\ gen'[q].status = gen[q].status
    BY <1>2
  <2>3. \A q \in Requests : libraries[q] # Null => AnswerHeld(q)'
    BY <1>3, <2>2 DEF IInv, Rows
  <2> QED  BY <1>1, <2>1, <2>2, <2>3 DEF IInv, Rows
<1>5. ASSUME NEW q \in Requests  PROVE Captured(q)'
  <2>1. Captured(q) /\ req'[q] \in {Null, req[q]}
    BY <1>2 DEF IInv
  <2>2. req[q] # Null /\ req[q].target # Null => req[q].target \in Requests
    BY DEF IInv, TypeOK, Request
  <2> QED  BY <1>1, <1>2, <2>1, <2>2 DEF Captured
<1>6. ASSUME NEW q \in Requests  PROVE Progress(q)'
  <2>1. Progress(q)
    BY DEF IInv
  <2>2. CASE pc[q] \in Ended
    <3>1. pc'[q] = pc[q] /\ gen'[q] = gen[q] /\ req'[q] = req[q]
      BY <1>2, <2>2 DEF Ended, Written
    <3> QED  BY <1>1, <1>3, <2>1, <2>2, <3>1 DEF Progress, Excused,
                LibraryDue, Ended
  <2>3. CASE pc[q] \notin Ended
    <3>1. pc'[q] \in {"idle", "killed"} /\ gen'[q].stored = FALSE
      BY <1>2, <2>3 DEF Crash, Before, Ended
    <3>2. sent[q] # "complete"
      BY <2>1, <2>3 DEF Progress, Ended
    <3> QED  BY <1>1, <3>1, <3>2 DEF Progress
  <2> QED  BY <2>2, <2>3
<1> QED  BY <1>4, <1>5, <1>6 DEF IInv

\* A new message has a new id: no request captured it.
LEMMA CreateMessageInv ==
  ASSUME IInv, TypeOK', NEW u \in Users, NEW o \in Rooms, NEW m \in Messages,
         NEW p \in Messages \cup {Null}, CreateMessage(u, o, m, p)
  PROVE  IInv'
<1>1. /\ m \notin issued /\ issued' = issued \cup {m, o}
      /\ UNCHANGED <<contents, libraries, usage, pc, req, gen, sent>>
      /\ \A n \in Messages \ {m} : message'[n] = message[n]
      /\ message'[m].room = o
  BY DEF CreateMessage, IInv, TypeOK
<1>2. /\ room'[o] # Null
      /\ \A k \in Rooms : k \in issued => room'[k] = room[k]
      /\ \A k \in Rooms : k # o => room'[k] = room[k]
  BY NullAssumption DEF CreateMessage, ResolveRoom, IInv, TypeOK
<1>3. message[m] = Null
  BY <1>1 DEF IInv, Rows
<1>4. \A n \in Messages : n \in issued => message'[n] = message[n]
  BY <1>1
<1>5. \A q \in Requests : req[q] # Null =>
        /\ req[q] \in Request /\ req[q].msg \in issued
        /\ message'[req[q].msg] = message[req[q].msg]
        /\ room'[req[q].room] = room[req[q].room]
  BY <1>2, <1>4 DEF IInv, TypeOK, Captured, Request
<1>6. \A q \in Requests : req[q] # Null /\ AnswerHeld(q) => AnswerHeld(q)'
  BY <1>1, <1>5 DEF AnswerHeld, ContentOf
<1>7. Rows'
  <2>1. \A k \in Rooms : room'[k] # Null => k \in issued'
    BY <1>1, <1>2 DEF IInv, Rows
  <2>2. \A n \in Messages : message'[n] # Null =>
          n \in issued' /\ room'[message'[n].room] # Null
    <3>1. \A n \in Messages : message[n] # Null => message[n].room \in Rooms
      BY DEF IInv, TypeOK, MessageRow
    <3> QED  BY <1>1, <1>2, <3>1 DEF IInv, Rows
  <2>3. \A k \in Requests : contents[k] # Null =>
          message'[contents[k].msg] # Null
    BY <1>1, <1>3 DEF IInv, Rows, TypeOK, ContentRow
  <2>4. \A q \in Requests : libraries[q] # Null =>
          message'[libraries[q]] # Null /\ AnswerHeld(q)' 
    <3>1. \A q \in Requests : libraries[q] # Null => req[q] # Null
      BY DEF IInv, Rows, TypeOK, Written, Finally, Ended
    <3> QED  BY <1>1, <1>3, <1>6, <3>1 DEF IInv, Rows, TypeOK
  <2>5. \A k \in Requests : contents[k] # Null => contents[k].by \in Requests
    BY DEF IInv, TypeOK, ContentRow
  <2> QED  BY <1>1, <2>1, <2>2, <2>3, <2>4, <2>5 DEF IInv, Rows
<1>8. ASSUME NEW q \in Requests  PROVE Captured(q)'
  BY <1>1, <1>5 DEF IInv, Captured
<1>9. ASSUME NEW q \in Requests  PROVE Progress(q)'
  <2>1. Progress(q) /\ (req[q] = Null <=> pc[q] = "idle")
    BY DEF IInv, TypeOK
  <2> QED  BY <1>1, <1>5, <1>6, <2>1 DEF Progress, Excused, LibraryDue,
              Written, Finally, Ended
<1> QED  BY <1>7, <1>8, <1>9 DEF IInv

\* Deleting any messages, with every message of a room that goes.
LEMMA DeleteInv ==
  ASSUME IInv, TypeOK', NEW D \in SUBSET Messages, DeleteRows(D),
         UNCHANGED <<issued, pc, req, gen, sent>>,
         \A o \in Rooms : room'[o] \in {room[o], Null},
         \A m \in Messages \ D : message[m] # Null => room'[message[m].room] # Null
  PROVE  IInv'
<1>1. \A m \in Messages : message'[m] = IF m \in D THEN Null ELSE message[m]
  BY DEF DeleteRows
<1>2. \A c \in Requests : contents[c] # Null =>
        contents'[c] = IF contents[c].msg \in D THEN Null ELSE contents[c]
  BY DEF DeleteRows, HeldBy
<1>3. \A c \in Requests : contents[c] = Null => contents'[c] = Null
  BY DEF DeleteRows, HeldBy
<1>4. \A q \in Requests :
        /\ libraries'[q] = IF libraries[q] \in D THEN Null ELSE libraries[q]
        /\ usage[q] # Null => usage'[q] # Null
  <2>1. ASSUME NEW q \in Requests, usage[q] # Null  PROVE usage'[q] # Null
    <3>1. usage'[q] \in {usage[q], [msg |-> Null]}
      BY DEF DeleteRows, UsageWithout
    <3>2. [msg |-> Null] \in UsageRow
      BY DEF UsageRow
    <3> QED  BY <2>1, <3>1, <3>2, NullAssumption
  <2> QED  BY <2>1 DEF DeleteRows, LibrariesWithout
<1>5. \A q \in Requests : req[q] # Null => req[q] \in Request
  BY DEF IInv, TypeOK
<1>6. \A q \in Requests : req[q] # Null /\ AnswerHeld(q) => AnswerHeld(q)'
  BY <1>1, <1>2, <1>5 DEF AnswerHeld, ContentOf, Request, IInv, TypeOK
<1>7. Rows'
  <2>1. /\ \A c \in Requests : contents[c] # Null =>
             contents[c].by \in Requests /\ contents[c].msg \in Messages
        /\ \A q \in Requests : libraries[q] # Null => libraries[q] \in Messages
        /\ \A q \in Requests : pc[q] \in Written => req[q] # Null
        /\ \A m \in Messages : message[m] # Null => message[m].room \in Rooms
    BY DEF IInv, TypeOK, ContentRow, MessageRow, Written, Finally, Ended
  <2>2. \A o \in Rooms : room'[o] # Null => o \in issued'
    BY DEF IInv, Rows
  <2>3. \A m \in Messages : message'[m] # Null =>
          m \in issued' /\ room'[message'[m].room] # Null
    BY <1>1, <2>1 DEF IInv, Rows
  <2>4. \A c \in Requests : contents'[c] # Null =>
          /\ contents[c] # Null /\ contents'[c] = contents[c]
          /\ message'[contents[c].msg] # Null
    BY <1>1, <1>2, <1>3, <2>1 DEF IInv, Rows
  <2>5. \A q \in Requests : libraries'[q] # Null =>
          /\ libraries[q] # Null /\ libraries'[q] = libraries[q]
          /\ message'[libraries[q]] # Null
    BY <1>1, <1>4, <2>1 DEF IInv, Rows
  <2> QED  BY <1>6, <2>1, <2>2, <2>3, <2>4, <2>5 DEF IInv, Rows
<1>8. ASSUME NEW q \in Requests  PROVE Captured(q)'
  <2>1. Captured(q)
    BY DEF IInv
  <2> QED  BY <1>1, <1>2, <1>3, <1>5, <2>1 DEF Captured, Request
<1>9. ASSUME NEW q \in Requests  PROVE Progress(q)'
  <2>1. Progress(q) /\ (req[q] = Null <=> pc[q] = "idle")
    BY DEF IInv, TypeOK
  <2>2. libraries[q] = Null => libraries'[q] = Null
    BY <1>4
  <2>3. req[q] # Null /\ message[req[q].msg] = Null => message'[req[q].msg] = Null
    BY <1>1, <1>5 DEF Request
  <2> QED  BY <1>4, <1>6, <2>1, <2>2, <2>3
           DEF Progress, Excused, LibraryDue, Written, Finally, Ended
<1> QED  BY <1>7, <1>8, <1>9 DEF IInv

\* A set of messages is part of what its deletion takes along.
LEMMA CascadeContains ==
  ASSUME NEW S \in SUBSET Messages
  PROVE  S \subseteq Cascade(S) /\ Cascade(S) \subseteq Messages
BY DEF Cascade

\* Deleting one message, with everything below it.
LEMMA DeleteMessageInv ==
  ASSUME IInv, TypeOK', NEW m \in Messages, DeleteMessage(m)  PROVE IInv'
<1>1. Cascade({m}) \in SUBSET Messages
  BY CascadeContains
<1> QED  BY <1>1, DeleteInv DEF DeleteMessage, IInv, Rows

\* Deleting a room, with every message in it and everything below those.
LEMMA DeleteRoomInv ==
  ASSUME IInv, TypeOK', NEW o \in Rooms, DeleteRoom(o)  PROVE IInv'
<1>1. MessagesIn(o) \in SUBSET Messages
  BY DEF MessagesIn
<1>2. /\ Cascade(MessagesIn(o)) \in SUBSET Messages
      /\ MessagesIn(o) \subseteq Cascade(MessagesIn(o))
  BY <1>1, CascadeContains
<1>3. \A k \in Rooms : room'[k] = IF k = o THEN Null ELSE room[k]
  BY DEF DeleteRoom, IInv, TypeOK
<1>4. \A m \in Messages \ Cascade(MessagesIn(o)) :
        message[m] # Null => room'[message[m].room] # Null
  BY <1>2, <1>3 DEF MessagesIn, IInv, Rows, TypeOK, MessageRow
<1> QED  BY <1>2, <1>3, <1>4, DeleteInv DEF DeleteRoom

\* And of course a step that changes nothing keeps it.
LEMMA UnchangedInv ==
  ASSUME IInv, UNCHANGED vars  PROVE IInv'
BY DEF vars, IInv, TypeOK, Rows, Captured, Progress, AnswerHeld, ContentOf,
       Excused, LibraryDue

\* IInv is inductive.
LEMMA InvPreserved == IInv /\ [Next]_vars => IInv'
<1> SUFFICES ASSUME IInv, [Next]_vars PROVE IInv'
  OBVIOUS
<1>1. TypeOK'
  BY TypePreserved DEF IInv
<1>2. CASE Next
  <2>1. ASSUME NEW r \in Requests, Serve(r)  PROVE IInv'
    BY <1>1, <2>1, StartInv, DrainInv, LlmErrorInv, StopInv, ResumeInv,
       InsertContentInv, LoadContentInv, UpdateContentInv, RefreshContentInv,
       SaveFilesInv, FindRoomInv, TouchRoomInv, PersistLibraryInv,
       SkipLibraryInv, RefreshLibraryInv, PersistUsageInv, CompleteInv DEF Serve
  <2> QED
    BY <1>1, <1>2, <2>1, CreateMessageInv, DeleteMessageInv, DeleteRoomInv,
       AcceptInv, DropInv, DeltaInv, DisconnectInv, CancelInv,
       DeleteLibraryInv, CrashInv DEF Next
<1>3. CASE UNCHANGED vars
  BY <1>3, UnchangedInv
<1> QED  BY <1>2, <1>3

\* So it holds in every reachable state.
THEOREM Invariance == Spec => []IInv
BY InitInv, InvPreserved, PTL DEF Spec

-----------------------------------------------------------------------------
(* What follows for the properties the runs check                          *)

\* The tokens a generator counted are recorded by the time it ends, unless
\* its message was deleted, its attachments failed or its library was deleted
\* in between: for any number of requests and any interleaving of them.
THEOREM UsageIsRecorded == Spec => []UsageRecorded
<1>1. IInv => UsageRecorded
  BY DEF IInv, Progress, UsageRecorded
<1> QED  BY <1>1, Invariance, PTL

\* A library in the database always has its answer beside it.
THEOREM LibrariesHaveAnswers == Spec => []LibraryBesideAnswer
<1>1. IInv => LibraryBesideAnswer
  BY DEF IInv, Rows, AnswerHeld, LibraryBesideAnswer
<1> QED  BY <1>1, Invariance, PTL

\* What the client was told is complete is finished, recorded and stored.
THEOREM CompleteStaysKept == Spec => []CompleteIsKept
<1>1. IInv => CompleteIsKept
  BY DEF IInv, Progress, AnswerHeld, CompleteIsKept
<1> QED  BY <1>1, Invariance, PTL

\* Answers are only ever stored in a room of the user who asked for them.
THEOREM AnswersAreOwners == Spec => []OnlyOwnersAnswer
<1>1. IInv => OnlyOwnersAnswer
  <2> SUFFICES ASSUME IInv, NEW c \in Requests, contents[c] # Null
               PROVE  /\ message[contents[c].msg] # Null
                      /\ room[message[contents[c].msg].room]
                           = req[contents[c].by].user
    BY DEF OnlyOwnersAnswer
  <2> DEFINE r == contents[c].by
  <2>1. r \in Requests /\ contents[c].msg \in Messages
    BY DEF IInv, TypeOK, ContentRow
  <2>2. /\ message[contents[c].msg] # Null /\ pc[r] \in Written
        /\ req[r].msg = contents[c].msg
    BY DEF IInv, Rows
  <2>3. req[r] # Null /\ Captured(r)
    BY <2>1, <2>2 DEF IInv, TypeOK, Written, Finally, Ended
  <2>4. room[message[contents[c].msg].room] # Null
    BY <2>1, <2>2 DEF IInv, Rows
  <2> QED  BY <2>2, <2>3, <2>4 DEF Captured
<1> QED  BY <1>1, Invariance, PTL

-----------------------------------------------------------------------------
(* The status of a stored answer                                           *)

\* A row has the status of the answer it holds, unless its writer was overtaken.
\* A regeneration that has read the row knows whose answer it was, one written
\* before, and has its status as long as the row still holds that answer.
StatusOf(c) ==
  LET r == contents[c].by IN
    contents[c].status = gen[r].status \/ gen[r].overtaken

Known(r) ==
  /\ gen[r].seen \in Requests /\ pc[gen[r].seen] \in Written
  /\ ContentExists(r) /\ contents[ContentOf(r)].by = gen[r].seen =>
       gen[r].loaded = contents[ContentOf(r)].status

Fits ==
  /\ \A c \in Requests : contents[c] # Null => StatusOf(c)
  /\ \A r \in Requests : pc[r] = "update" => Known(r)

\* What request r knows of the row it regenerates is as old as it was, or new.
Reads(r) ==
  pc'[r] = "update" =>
    /\ req'[r] = req[r]
    /\ \/ /\ pc[r] = "update"
          /\ gen'[r].loaded = gen[r].loaded /\ gen'[r].seen = gen[r].seen
       \/ /\ ContentExists(r)
          /\ gen'[r].loaded = contents[ContentOf(r)].status
          /\ gen'[r].seen = contents[ContentOf(r)].by

\* A request that has written stays one, with the answer it wrote.
StaysWritten(r) ==
  pc[r] \in Written =>
    /\ pc'[r] \in Written /\ req'[r] = req[r]
    /\ gen'[r].status = gen[r].status /\ gen'[r].overtaken = gen[r].overtaken

\* A step of request r that writes no content row.
Quiet(r) ==
  /\ OthersIdle(r) /\ UNCHANGED <<room, message, issued, contents, req>>
  /\ StaysWritten(r) /\ Reads(r)

\* The steps of one request that write no content row.
QuietStep(r) ==
  \/ Start(r) \/ Delta(r) \/ Drain(r) \/ LlmError(r) \/ Stop(r)
  \/ Resume(r) \/ Disconnect(r) \/ Cancel(r) \/ LoadContent(r) \/ RefreshContent(r)
  \/ SaveFiles(r) \/ FindRoom(r) \/ TouchRoom(r) \/ PersistLibrary(r) \/ SkipLibrary(r)
  \/ RefreshLibrary(r) \/ PersistUsage(r) \/ Complete(r) \/ DeleteLibrary(r)

\* They are quiet.
LEMMA QuietSteps ==
  ASSUME IInv, TypeOK', NEW r \in Requests, QuietStep(r)  PROVE Quiet(r)
<1>1. CASE Start(r)
  BY <1>1 DEF Start, Quiet, StaysWritten, Reads, OthersIdle, ContentExists, Goto, tables, IInv,
     TypeOK, Generator, Written, Finally, Ended
<1>2. CASE Delta(r)
  BY <1>2 DEF Delta, Quiet, StaysWritten, Reads, OthersIdle, ContentExists, Goto, tables, IInv,
     TypeOK, Generator, Written, Finally, Ended
<1>3. CASE Drain(r)
  BY <1>3 DEF Drain, Quiet, StaysWritten, Reads, OthersIdle, ContentExists, Goto, tables, IInv,
     TypeOK, Generator, Written, Finally, Ended
<1>4. CASE LlmError(r)
  BY <1>4 DEF LlmError, Quiet, StaysWritten, Reads, OthersIdle, ContentExists, Goto, tables, IInv,
     TypeOK, Generator, Written, Finally, Ended
<1>5. CASE Stop(r)
  BY <1>5 DEF Stop, Quiet, StaysWritten, Reads, OthersIdle, ContentExists, Goto, tables, IInv,
     TypeOK, Generator, Written, Finally, Ended
<1>6. CASE Resume(r)
  BY <1>6 DEF Resume, Quiet, StaysWritten, Reads, OthersIdle, ContentExists, Goto, tables, IInv,
     TypeOK, Generator, Written, Finally, Ended
<1>7. CASE Disconnect(r)
  BY <1>7 DEF Disconnect, Quiet, StaysWritten, Reads, OthersIdle, ContentExists, Goto, tables, IInv,
     TypeOK, Generator, Written, Finally, Ended
<1>8. CASE Cancel(r)
  BY <1>8 DEF Cancel, Quiet, StaysWritten, Reads, OthersIdle, ContentExists, Goto, tables, IInv,
     TypeOK, Generator, Written, Finally, Ended, Remains
<1>9. CASE LoadContent(r)
  BY <1>9 DEF LoadContent, Quiet, StaysWritten, Reads, OthersIdle, ContentExists, Goto, tables, IInv,
     TypeOK, Generator, Written, Finally, Ended
<1>10. CASE RefreshContent(r)
  BY <1>10 DEF RefreshContent, Quiet, StaysWritten, Reads, OthersIdle, ContentExists, Goto, tables, IInv,
     TypeOK, Generator, Written, Finally, Ended, Escape
<1>11. CASE SaveFiles(r)
  BY <1>11 DEF SaveFiles, Quiet, StaysWritten, Reads, OthersIdle, ContentExists, Goto, tables, IInv,
     TypeOK, Generator, Written, Finally, Ended
<1>12. CASE FindRoom(r)
  BY <1>12 DEF FindRoom, Quiet, StaysWritten, Reads, OthersIdle, ContentExists, Goto, tables, IInv,
     TypeOK, Generator, Written, Finally, Ended, RoomExists, Respond, Escape
<1>13. CASE TouchRoom(r)
  BY <1>13 DEF TouchRoom, Quiet, StaysWritten, Reads, OthersIdle, ContentExists, Goto, tables, IInv,
     TypeOK, Generator, Written, Finally, Ended, RoomExists, Respond, Escape
<1>14. CASE PersistLibrary(r)
  BY <1>14 DEF PersistLibrary, Quiet, StaysWritten, Reads, OthersIdle, ContentExists, Goto, tables, IInv,
     TypeOK, Generator, Written, Finally, Ended, MessageExists, LibraryDue, Escape
<1>15. CASE SkipLibrary(r)
  BY <1>15 DEF SkipLibrary, Quiet, StaysWritten, Reads, OthersIdle, ContentExists, Goto, tables, IInv,
     TypeOK, Generator, Written, Finally, Ended
<1>16. CASE RefreshLibrary(r)
  BY <1>16 DEF RefreshLibrary, Quiet, StaysWritten, Reads, OthersIdle, ContentExists, Goto, tables, IInv,
     TypeOK, Generator, Written, Finally, Ended, Escape
<1>17. CASE PersistUsage(r)
  BY <1>17 DEF PersistUsage, Quiet, StaysWritten, Reads, OthersIdle, ContentExists, Goto, tables, IInv,
     TypeOK, Generator, Written, Finally, Ended, MessageExists, Escape, UsageDue
<1>18. CASE Complete(r)
  BY <1>18 DEF Complete, Quiet, StaysWritten, Reads, OthersIdle, ContentExists, Goto, tables, IInv,
     TypeOK, Generator, Written, Finally, Ended, CompleteDue
<1>19. CASE DeleteLibrary(r)
  BY <1>19 DEF DeleteLibrary, Quiet, StaysWritten, Reads, OthersIdle, ContentExists, Goto, tables, IInv,
     TypeOK, Generator, Written, Finally, Ended
<1> QED  BY <1>1, <1>2, <1>3, <1>4, <1>5, <1>6, <1>7, <1>8, <1>9, <1>10, <1>11, <1>12, <1>13, <1>14, <1>15, <1>16, <1>17, <1>18, <1>19 DEF QuietStep

\* A step that writes no row, but may delete some, keeps the statuses fitting.
LEMMA FitsKept ==
  ASSUME IInv, TypeOK', Fits,
         \A q \in Requests : StaysWritten(q) /\ Reads(q),
         \A c \in Requests : contents'[c] \in {contents[c], Null}
  PROVE  Fits'
<1>1. \A c \in Requests : contents[c] # Null =>
        contents[c].by \in Requests /\ pc[contents[c].by] \in Written
  BY DEF IInv, TypeOK, ContentRow, Rows
<1>2. ASSUME NEW c \in Requests, contents'[c] # Null  PROVE StatusOf(c)'
  BY <1>1, <1>2 DEF Fits, StatusOf, StaysWritten
<1>3. ASSUME NEW q \in Requests, pc'[q] = "update"  PROVE Known(q)'
  <2>1. ContentOf(q)' = ContentOf(q) /\ ContentOf(q) \in Requests
    BY <1>3 DEF ContentOf, TypeOK, Request, Reads
  <2>2. gen'[q].seen \in Requests /\ pc[gen'[q].seen] \in Written
    BY <1>1, <1>3, <2>1 DEF Fits, Known, Reads, ContentExists
  <2>3. contents'[ContentOf(q)] \in {contents[ContentOf(q)], Null}
    BY <2>1
  <2>4. ASSUME contents[ContentOf(q)] # Null, contents[ContentOf(q)].by = gen'[q].seen
        PROVE  gen'[q].loaded = contents[ContentOf(q)].status
    BY <1>3, <2>4 DEF Fits, Known, Reads, ContentExists
  <2> QED  BY <2>1, <2>2, <2>3, <2>4 DEF Known, StaysWritten, ContentExists
<1> QED  BY <1>2, <1>3 DEF Fits

\* So does a first answer, which is its request's own,
LEMMA InsertFits ==
  ASSUME IInv, TypeOK', Fits, NEW r \in Requests, InsertContent(r)  PROVE Fits'
<1>1. /\ pc[r] = "persist" /\ req[r] \in Request /\ pc[r] \notin Written
      /\ UNCHANGED <<req, gen>> /\ \A q \in Requests \ {r} : pc'[q] = pc[q]
      /\ pc'[r] \in {"refresh", "escaped"}
  BY DEF InsertContent, Escape, Goto, tables, IInv, TypeOK, Written, Finally, Ended
<1>2. \A q \in Requests : StaysWritten(q) /\ Reads(q)
  BY <1>1 DEF StaysWritten, Reads
<1>3. CASE ~MessageExists(r)
  <2>1. UNCHANGED contents
    BY <1>3 DEF InsertContent, Escape, tables
  <2> QED  BY <1>2, <2>1, FitsKept
<1>4. CASE MessageExists(r)
  <2>1. contents' = [contents EXCEPT ![r] =
                       [msg |-> req[r].msg, by |-> r, status |-> gen[r].status]]
    BY <1>4 DEF InsertContent
  <2>2. /\ contents'[r].by = r /\ contents'[r].status = gen'[r].status
        /\ \A c \in Requests \ {r} : contents'[c] = contents[c]
    BY <1>1, <2>1 DEF IInv, TypeOK
  <2>3. ASSUME NEW c \in Requests, contents'[c] # Null  PROVE StatusOf(c)'
    BY <1>1, <2>2, <2>3 DEF Fits, StatusOf
  <2>4. ASSUME NEW q \in Requests, pc'[q] = "update"  PROVE Known(q)'
    <3>1. /\ pc[q] = "update" /\ req[q] \in Request /\ q # r
          /\ ContentOf(q)' = ContentOf(q) /\ ContentOf(q) \in Requests
      BY <1>1, <2>4 DEF ContentOf, IInv, TypeOK, Request
    <3>2. ContentOf(q) # r
      BY <1>1, <3>1 DEF ContentOf, IInv, Captured, TypeOK
    <3>3. Known(q) /\ gen[q].seen # r
      BY <1>1, <3>1 DEF Fits, Known
    <3> QED  BY <1>1, <2>2, <3>1, <3>2, <3>3 DEF Known, ContentExists
  <2> QED  BY <2>3, <2>4 DEF Fits
<1> QED  BY <1>3, <1>4

\* and a regeneration, which leaves the status alone only when it is the one it
\* read: its own as well, unless it was overtaken.  To all others it is a writer
\* that was none before, so it is not the one they have read from.
LEMMA UpdateFits ==
  ASSUME IInv, TypeOK', Fits, NEW r \in Requests, UpdateContent(r)  PROVE Fits'
<1>1. /\ pc[r] = "update" /\ req[r] \in Request /\ pc[r] \notin Written
      /\ UNCHANGED req /\ \A q \in Requests \ {r} : pc'[q] = pc[q] /\ gen'[q] = gen[q]
      /\ pc'[r] \in {"refresh", "escaped"} /\ gen'[r].status = gen[r].status
  BY DEF UpdateContent, Escape, Goto, tables, IInv, TypeOK, Generator, Written,
     Finally, Ended
<1>2. \A q \in Requests : StaysWritten(q) /\ Reads(q)
  BY <1>1 DEF StaysWritten, Reads
<1>3. PICK t \in Requests : t = ContentOf(r)
  BY <1>1 DEF ContentOf, Request
<1>4. CASE ~ContentExists(r)
  <2>1. UNCHANGED contents
    BY <1>4 DEF UpdateContent, Escape, tables
  <2> QED  BY <1>2, <2>1, FitsKept
<1>5. CASE ContentExists(r)
  <2>1. contents' = [contents EXCEPT ![t] = Regenerated(r, contents[t])]
    BY <1>3, <1>5 DEF UpdateContent
  <2>2. contents[t] \in ContentRow
    BY <1>3, <1>5 DEF ContentExists, IInv, TypeOK
  <2>3. /\ contents'[t].by = r
        /\ contents'[t].status = IF gen[r].status # gen[r].loaded
                                   THEN gen[r].status ELSE contents[t].status
        /\ \A c \in Requests \ {t} : contents'[c] = contents[c]
    BY <1>3, <2>1, <2>2 DEF IInv, TypeOK, Regenerated, ContentRow
  <2>4. gen'[r].overtaken = (contents[t].by # gen[r].seen)
    <3>1. gen[r] \in Generator
      BY DEF IInv, TypeOK
    <3> QED  BY <1>3, <1>5, <3>1 DEF UpdateContent, IInv, TypeOK, Generator
  <2>5. contents'[t].status = gen'[r].status \/ gen'[r].overtaken
    <3>1. Known(r)
      BY <1>1 DEF Fits
    <3> QED  BY <1>1, <1>3, <1>5, <2>3, <2>4, <3>1 DEF Known
  <2>6. \A c \in Requests : contents[c] # Null =>
          contents[c].by \in Requests /\ pc[contents[c].by] \in Written
    BY DEF IInv, TypeOK, ContentRow, Rows
  <2>7. ASSUME NEW c \in Requests, contents'[c] # Null  PROVE StatusOf(c)'
    <3>1. CASE c = t
      BY <2>3, <2>5, <3>1 DEF StatusOf
    <3>2. CASE c # t
      BY <1>1, <2>3, <2>6, <2>7, <3>2 DEF Fits, StatusOf
    <3> QED  BY <3>1, <3>2
  <2>8. ASSUME NEW q \in Requests, pc'[q] = "update"  PROVE Known(q)'
    <3>1. /\ pc[q] = "update" /\ req[q] \in Request /\ q # r /\ gen'[q] = gen[q]
          /\ ContentOf(q)' = ContentOf(q) /\ ContentOf(q) \in Requests
      BY <1>1, <2>8 DEF ContentOf, IInv, TypeOK, Request
    <3>2. Known(q) /\ gen[q].seen # r
      BY <1>1, <3>1 DEF Fits, Known
    <3>3. pc'[gen'[q].seen] \in Written
      BY <1>1, <3>1, <3>2 DEF Known
    <3> QED  BY <2>3, <3>1, <3>2, <3>3 DEF Known, ContentExists
  <2> QED  BY <2>7, <2>8 DEF Fits
<1> QED  BY <1>4, <1>5

\* All other steps write no row either: messages come and go, requests come in,
\* leave before they stream, or die.
LEMMA OtherStep ==
  ASSUME IInv, TypeOK',
         \/ \E u \in Users, o \in Rooms, m \in Messages, p \in Messages \cup {Null} :
              CreateMessage(u, o, m, p)
         \/ \E m \in Messages : DeleteMessage(m)
         \/ \E o \in Rooms : DeleteRoom(o)
         \/ \E r \in Requests :
              \/ \E u \in Users, m \in Messages, c \in Requests \cup {Null},
                    lib \in LibraryChoices, f \in FileChoices :
                   Accept(r, u, m, c, lib, f)
              \/ Drop(r)
         \/ Crash
         \/ UNCHANGED vars
  PROVE  /\ \A q \in Requests : StaysWritten(q) /\ Reads(q)
         /\ \A c \in Requests : contents'[c] \in {contents[c], Null}
<1>1. ASSUME NEW u \in Users, NEW o \in Rooms, NEW m \in Messages,
             NEW p \in Messages \cup {Null}, CreateMessage(u, o, m, p)
      PROVE  UNCHANGED <<contents, pc, req, gen>>
  BY <1>1 DEF CreateMessage
<1>2. ASSUME \/ \E m \in Messages : DeleteMessage(m)
             \/ \E o \in Rooms : DeleteRoom(o)
      PROVE  /\ UNCHANGED <<pc, req, gen>>
             /\ \A c \in Requests : contents'[c] \in {contents[c], Null}
  BY <1>2 DEF DeleteMessage, DeleteRoom, DeleteRows
<1>3. ASSUME NEW r \in Requests, NEW u \in Users, NEW m \in Messages,
             NEW c \in Requests \cup {Null}, NEW lib \in LibraryChoices,
             NEW f \in FileChoices, Accept(r, u, m, c, lib, f)
      PROVE  /\ UNCHANGED contents /\ pc[r] \notin Written /\ pc'[r] = "ready"
             /\ \A q \in Requests \ {r} :
                  pc'[q] = pc[q] /\ req'[q] = req[q] /\ gen'[q] = gen[q]
  BY <1>3 DEF Accept, BuildRagContext, Goto, tables, IInv, TypeOK, Written,
     Finally, Ended
<1>4. ASSUME NEW r \in Requests, Drop(r)
      PROVE  /\ UNCHANGED contents /\ pc[r] \notin Written /\ pc'[r] = "idle"
             /\ \A q \in Requests \ {r} :
                  pc'[q] = pc[q] /\ req'[q] = req[q] /\ gen'[q] = gen[q]
  BY <1>4 DEF Drop, Goto, tables, IInv, TypeOK, Written, Finally, Ended
<1>5. ASSUME Crash
      PROVE  /\ UNCHANGED contents
             /\ \A q \in Requests : StaysWritten(q) /\ pc'[q] # "update"
  <2>1. ASSUME NEW q \in Requests, pc[q] \in Written  PROVE StaysWritten(q)
    <3>1. gen[q] \in Generator
      BY DEF IInv, TypeOK
    <3> QED  BY <1>5, <2>1, <3>1 DEF Crash, Remains, Generator, Before, Written,
                Finally, Ended, StaysWritten
  <2> QED  BY <1>5, <2>1 DEF Crash, StaysWritten, tables, Before, Ended
<1>6. CASE UNCHANGED vars
  BY <1>6 DEF vars, StaysWritten, Reads
<1> QED  BY <1>1, <1>2, <1>3, <1>4, <1>5, <1>6 DEF StaysWritten, Reads, vars

\* Every step of a request that is in is quiet, or writes a row.
LEMMA ServeSorted ==
  ASSUME NEW r \in Requests,
         Serve(r) \/ Delta(r) \/ Disconnect(r) \/ Cancel(r) \/ DeleteLibrary(r)
  PROVE  QuietStep(r) \/ InsertContent(r) \/ UpdateContent(r)
BY DEF Serve, QuietStep

\* So Fits is preserved by every step.
LEMMA FitsPreserved == IInv /\ TypeOK' /\ Fits /\ [Next]_vars => Fits'
<1> SUFFICES ASSUME IInv, TypeOK', Fits, [Next]_vars  PROVE Fits'
  OBVIOUS
<1>1. ASSUME NEW r \in Requests, QuietStep(r)  PROVE Fits'
  <2>1. Quiet(r)
    BY <1>1, QuietSteps
  <2>2. \A q \in Requests : StaysWritten(q) /\ Reads(q)
    BY <2>1 DEF Quiet, OthersIdle, StaysWritten, Reads
  <2> QED  BY <2>1, <2>2, FitsKept DEF Quiet
<1>2. ASSUME NEW r \in Requests, InsertContent(r) \/ UpdateContent(r)  PROVE Fits'
  BY <1>2, InsertFits, UpdateFits
<1> QED  BY <1>1, <1>2, ServeSorted, OtherStep, FitsKept DEF Next

\* A content row has the status of the stream whose answer it holds, however many
\* streams regenerate, delete and store rows, unless the stream was overtaken:
\* another one wrote the row between its read and its write.
THEOREM StatusesFit == Spec => []StatusFitsAnswer
<1>1. Init => Fits
  BY DEF Init, Fits
<1>2. IInv /\ Fits => StatusFitsAnswer
  BY DEF StatusFitsAnswer, Fits, StatusOf
<1> QED  BY <1>1, <1>2, FitsPreserved, TypePreserved, Invariance, PTL DEF Spec, IInv

-----------------------------------------------------------------------------
(* The ledger: when usage is recorded, and when no answer was stored       *)

\* The places of a request that may have recorded its usage, and those past the
\* storing of its answer.
Recording == {"complete"} \cup Ended
Late == {"library", "shelved", "usage", "complete"}

\* A request's usage is recorded once, by itself; one that has stored nothing by
\* then found its row gone, and with it its message.
Ledger(r) ==
  /\ usage[r] # Null => pc[r] \in Recording
  /\ pc[r] \in Late /\ ~gen[r].stored => message[req[r].msg] = Null
  /\ req[r] # Null /\ req[r].target # Null =>
       contents[req[r].target] # Null \/ message[req[r].msg] = Null

\* A step of request r keeps the others' part of it.
LEMMA LedgerOfOne ==
  ASSUME IInv, TypeOK', \A q \in Requests : Ledger(q), NEW r \in Requests,
         OthersIdle(r), ContentsKept, UNCHANGED <<message, req>>,
         usage'[r] # Null => pc'[r] \in Recording,
         pc'[r] \in Late /\ ~gen'[r].stored => message[req[r].msg] = Null
  PROVE  \A q \in Requests : Ledger(q)'
<1> SUFFICES ASSUME NEW q \in Requests  PROVE Ledger(q)'
  OBVIOUS
<1>1. req[q] # Null /\ req[q].target # Null => req[q].target \in Requests
  BY DEF IInv, TypeOK, Request
<1>2. CASE q = r
  BY <1>1, <1>2 DEF Ledger, ContentsKept
<1>3. CASE q # r
  BY <1>1, <1>3 DEF Ledger, ContentsKept, OthersIdle
<1> QED  BY <1>2, <1>3

\* What a quiet step does to the usage and the progress of its request.
LEMMA QuietLedger ==
  ASSUME IInv, TypeOK', \A q \in Requests : Ledger(q), NEW r \in Requests,
         QuietStep(r)
  PROVE  /\ usage'[r] # Null => pc'[r] \in Recording
         /\ pc'[r] \in Late /\ ~gen'[r].stored => message[req[r].msg] = Null
<1>1. Ledger(r) /\ Progress(r) /\ gen[r].stored \in BOOLEAN
  BY DEF IInv, TypeOK, Generator
<1>2. CASE Start(r)
  BY <1>1, <1>2 DEF Start, Ledger, Progress, ContentExists, Goto, tables, IInv,
     TypeOK, Generator, Recording, Late, Ended
<1>3. CASE Delta(r)
  BY <1>1, <1>3 DEF Delta, Ledger, Progress, ContentExists, Goto, tables, IInv,
     TypeOK, Generator, Recording, Late, Ended
<1>4. CASE Drain(r)
  BY <1>1, <1>4 DEF Drain, Ledger, Progress, ContentExists, Goto, tables, IInv,
     TypeOK, Generator, Recording, Late, Ended
<1>5. CASE LlmError(r)
  BY <1>1, <1>5 DEF LlmError, Ledger, Progress, ContentExists, Goto, tables, IInv,
     TypeOK, Generator, Recording, Late, Ended
<1>6. CASE Stop(r)
  BY <1>1, <1>6 DEF Stop, Ledger, Progress, ContentExists, Goto, tables, IInv,
     TypeOK, Generator, Recording, Late, Ended
<1>7. CASE Resume(r)
  BY <1>1, <1>7 DEF Resume, Ledger, Progress, ContentExists, Goto, tables, IInv,
     TypeOK, Generator, Recording, Late, Ended
<1>8. CASE Disconnect(r)
  BY <1>1, <1>8 DEF Disconnect, Ledger, Progress, ContentExists, Goto, tables, IInv,
     TypeOK, Generator, Recording, Late, Ended
<1>9. CASE Cancel(r)
  BY <1>1, <1>9 DEF Cancel, Ledger, Progress, ContentExists, Goto, tables, IInv,
     TypeOK, Generator, Recording, Late, Ended, Remains
<1>10. CASE LoadContent(r)
  BY <1>1, <1>10 DEF LoadContent, Ledger, Progress, ContentExists, ContentOf, Goto, tables, IInv,
     TypeOK, Generator, Recording, Late, Ended
<1>11. CASE RefreshContent(r)
  BY <1>1, <1>11 DEF RefreshContent, Ledger, Progress, ContentExists, Goto, tables, IInv,
     TypeOK, Generator, Recording, Late, Ended, Escape
<1>12. CASE SaveFiles(r)
  BY <1>1, <1>12 DEF SaveFiles, Ledger, Progress, ContentExists, Goto, tables, IInv,
     TypeOK, Generator, Recording, Late, Ended
<1>13. CASE FindRoom(r)
  BY <1>1, <1>13 DEF FindRoom, Ledger, Progress, ContentExists, Goto, tables, IInv,
     TypeOK, Generator, Recording, Late, Ended, RoomExists, Respond, Escape
<1>14. CASE TouchRoom(r)
  BY <1>1, <1>14 DEF TouchRoom, Ledger, Progress, ContentExists, Goto, tables, IInv,
     TypeOK, Generator, Recording, Late, Ended, RoomExists, Respond, Escape
<1>15. CASE PersistLibrary(r)
  BY <1>1, <1>15 DEF PersistLibrary, Ledger, Progress, ContentExists, Goto, tables, IInv,
     TypeOK, Generator, Recording, Late, Ended, MessageExists, LibraryDue, Escape
<1>16. CASE SkipLibrary(r)
  BY <1>1, <1>16 DEF SkipLibrary, Ledger, Progress, ContentExists, Goto, tables, IInv,
     TypeOK, Generator, Recording, Late, Ended
<1>17. CASE RefreshLibrary(r)
  BY <1>1, <1>17 DEF RefreshLibrary, Ledger, Progress, ContentExists, Goto, tables, IInv,
     TypeOK, Generator, Recording, Late, Ended, Escape
<1>18. CASE PersistUsage(r)
  BY <1>1, <1>18 DEF PersistUsage, Ledger, Progress, ContentExists, Goto, tables, IInv,
     TypeOK, Generator, Recording, Late, Ended, MessageExists, Escape, UsageDue
<1>19. CASE Complete(r)
  BY <1>1, <1>19 DEF Complete, Ledger, Progress, ContentExists, Goto, tables, IInv,
     TypeOK, Generator, Recording, Late, Ended, CompleteDue
<1>20. CASE DeleteLibrary(r)
  BY <1>1, <1>20 DEF DeleteLibrary, Ledger, Progress, ContentExists, Goto, tables, IInv,
     TypeOK, Generator, Recording, Late, Ended
<1> QED  BY <1>2, <1>3, <1>4, <1>5, <1>6, <1>7, <1>8, <1>9, <1>10, <1>11, <1>12, <1>13, <1>14, <1>15, <1>16, <1>17, <1>18, <1>19, <1>20 DEF QuietStep

\* Neither do those that write a row lose one.
LEMMA WriteLedger ==
  ASSUME IInv, TypeOK', \A q \in Requests : Ledger(q), NEW r \in Requests,
         InsertContent(r) \/ UpdateContent(r)
  PROVE  \A q \in Requests : Ledger(q)'
<1>1. /\ OthersIdle(r) /\ UNCHANGED <<message, usage, req>>
      /\ pc[r] \in {"persist", "update"} /\ pc'[r] \in {"refresh", "escaped"}
      /\ req[r] \in Request
  BY DEF InsertContent, UpdateContent, Escape, OthersIdle, Goto, tables, IInv, TypeOK
<1>2. usage'[r] = Null
  BY <1>1 DEF Ledger, Recording, Ended
<1>3. PICK t \in Requests : t = ContentOf(r)
  BY <1>1 DEF ContentOf, Request
<1>4. ContentsKept
  <2>1. CASE UNCHANGED contents
    BY <2>1 DEF ContentsKept
  <2>2. CASE InsertContent(r) /\ ~UNCHANGED contents
    <3>1. /\ contents' = [contents EXCEPT ![r] =
               [msg |-> req[r].msg, by |-> r, status |-> gen[r].status]]
          /\ pc[r] = "persist"
      BY <2>2 DEF InsertContent, Escape, tables
    <3>2. contents[r] = Null
      BY <3>1 DEF IInv, Rows, Written, Finally, Ended
    <3> QED  BY <3>1, <3>2 DEF ContentsKept, IInv, TypeOK
  <2>3. CASE UpdateContent(r) /\ ~UNCHANGED contents
    <3>1. /\ contents' = [contents EXCEPT ![t] = Regenerated(r, contents[t])]
          /\ contents[t] # Null
      BY <1>3, <2>3 DEF UpdateContent, Escape, tables, ContentExists
    <3>2. contents[t] \in ContentRow /\ gen[r].status \in Statuses
      BY <3>1 DEF IInv, TypeOK, Generator
    <3>3. contents'[t].msg = contents[t].msg /\ contents'[t] \in ContentRow
      BY <3>1, <3>2 DEF Regenerated, ContentRow, IInv, TypeOK
    <3>4. contents'[t] # Null
      BY <3>3, NullAssumption
    <3> QED  BY <3>1, <3>3, <3>4 DEF ContentsKept, IInv, TypeOK
  <2> QED  BY <2>1, <2>2, <2>3
<1> QED  BY <1>1, <1>2, <1>4, LedgerOfOne DEF Late

\* Messages that are deleted take their rows along, and never come back.
LEMMA ThreadLedger ==
  ASSUME IInv, TypeOK', \A q \in Requests : Ledger(q),
         \/ \E u \in Users, o \in Rooms, m \in Messages, p \in Messages \cup {Null} :
              CreateMessage(u, o, m, p)
         \/ \E m \in Messages : DeleteMessage(m)
         \/ \E o \in Rooms : DeleteRoom(o)
  PROVE  \A q \in Requests : Ledger(q)'
<1> SUFFICES ASSUME NEW q \in Requests  PROVE Ledger(q)'
  OBVIOUS
<1>1. /\ Ledger(q) /\ Captured(q)
      /\ pc[q] \in Late => req[q] # Null
      /\ req[q] # Null => req[q] \in Request
  BY DEF IInv, TypeOK, Late
<1>2. ASSUME NEW u \in Users, NEW o \in Rooms, NEW m \in Messages,
             NEW p \in Messages \cup {Null}, CreateMessage(u, o, m, p)
      PROVE  Ledger(q)'
  <2>1. /\ UNCHANGED <<contents, usage, pc, req, gen>> /\ m \notin issued
        /\ \A n \in Messages \ {m} : message'[n] = message[n]
    BY <1>2 DEF CreateMessage, IInv, TypeOK
  <2> QED  BY <1>1, <2>1 DEF Ledger, Captured, Request
<1>3. ASSUME NEW D \in SUBSET Messages, DeleteRows(D), UNCHANGED <<pc, req, gen>>
      PROVE  Ledger(q)'
  <2>1. /\ \A m \in Messages : message'[m] = IF m \in D THEN Null ELSE message[m]
        /\ \A c \in Requests : contents[c] # Null =>
             contents'[c] = IF contents[c].msg \in D THEN Null ELSE contents[c]
        /\ usage[q] = Null => usage'[q] = Null
    BY <1>3 DEF DeleteRows, HeldBy, UsageWithout
  <2> QED  BY <1>1, <1>3, <2>1 DEF Ledger, Captured, Request
<1>4. \A m \in Messages : Cascade({m}) \in SUBSET Messages
  BY DEF Cascade
<1>5. \A o \in Rooms : Cascade(MessagesIn(o)) \in SUBSET Messages
  BY DEF Cascade
<1> QED  BY <1>2, <1>3, <1>4, <1>5 DEF DeleteMessage, DeleteRoom

\* A request that comes in has its row; one that leaves or dies has none to lose.
LEMMA ArrivalLedger ==
  ASSUME IInv, TypeOK', \A q \in Requests : Ledger(q),
         \/ \E r \in Requests :
              \/ \E u \in Users, m \in Messages, c \in Requests \cup {Null},
                    lib \in LibraryChoices, f \in FileChoices :
                   Accept(r, u, m, c, lib, f)
              \/ Drop(r)
         \/ Crash
  PROVE  \A q \in Requests : Ledger(q)'
<1> SUFFICES ASSUME NEW q \in Requests  PROVE Ledger(q)'
  OBVIOUS
<1>1. Ledger(q)
  OBVIOUS
<1>2. ASSUME NEW r \in Requests, NEW u \in Users, NEW m \in Messages,
             NEW c \in Requests \cup {Null}, NEW lib \in LibraryChoices,
             NEW f \in FileChoices, Accept(r, u, m, c, lib, f)
      PROVE  Ledger(q)'
  <2>1. /\ UNCHANGED <<message, contents, usage>>
        /\ pc[r] = "idle" /\ pc'[r] = "ready"
        /\ c # Null => contents[c] # Null
        /\ req'[r].target = c
        /\ \A k \in Requests \ {r} :
             pc'[k] = pc[k] /\ req'[k] = req[k] /\ gen'[k] = gen[k]
    BY <1>2 DEF Accept, TargetExists, BuildRagContext, Goto, tables, IInv, TypeOK
  <2> QED  BY <1>1, <2>1 DEF Ledger, Recording, Late, Ended
<1>3. ASSUME NEW r \in Requests, Drop(r)  PROVE Ledger(q)'
  <2>1. /\ UNCHANGED <<message, contents, usage>>
        /\ pc[r] = "ready" /\ pc'[r] = "idle" /\ req'[r] = Null
        /\ \A k \in Requests \ {r} :
             pc'[k] = pc[k] /\ req'[k] = req[k] /\ gen'[k] = gen[k]
    BY <1>3 DEF Drop, Goto, tables, IInv, TypeOK
  <2> QED  BY <1>1, <2>1 DEF Ledger, Recording, Late, Ended
<1>4. CASE Crash
  <2>1. /\ UNCHANGED <<message, contents, usage>> /\ req'[q] \in {Null, req[q]}
        /\ pc'[q] \in {"idle", "killed"} \cup Ended
        /\ pc[q] \in Recording => pc'[q] \in Ended
    BY <1>4 DEF Crash, tables, Before, Recording, Ended
  <2> QED  BY <1>1, <2>1 DEF Ledger, Recording, Late, Ended
<1> QED  BY <1>2, <1>3, <1>4

\* Every step keeps the ledger.
LEMMA LedgerPreserved ==
  IInv /\ TypeOK' /\ (\A q \in Requests : Ledger(q)) /\ [Next]_vars
    => \A q \in Requests : Ledger(q)'
<1> SUFFICES ASSUME IInv, TypeOK', \A q \in Requests : Ledger(q), [Next]_vars
             PROVE  \A q \in Requests : Ledger(q)'
  OBVIOUS
<1>1. ASSUME NEW r \in Requests, QuietStep(r)  PROVE \A q \in Requests : Ledger(q)'
  <2>1. Quiet(r)
    BY <1>1, QuietSteps
  <2>2. ContentsKept
    BY <2>1 DEF Quiet, ContentsKept
  <2> QED  BY <1>1, <2>1, <2>2, QuietLedger, LedgerOfOne DEF Quiet
<1>2. CASE UNCHANGED vars
  BY <1>2 DEF vars, Ledger
<1> QED  BY <1>1, <1>2, ServeSorted, WriteLedger, ThreadLedger, ArrivalLedger DEF Next

\* IInv with the ledger, which holds in every reachable state.
Accounted == IInv /\ \A r \in Requests : Ledger(r)

\* So Accounted holds in every reachable state.
LEMMA AlwaysAccounted == Spec => []Accounted
<1>1. Init => \A r \in Requests : Ledger(r)
  <2> SUFFICES ASSUME Init, NEW r \in Requests  PROVE Ledger(r)
    OBVIOUS
  <2>1. usage[r] = Null /\ pc[r] = "idle" /\ req[r] = Null
    BY DEF Init
  <2> QED  BY <2>1 DEF Ledger, Late
<1>2. Accounted /\ [Next]_vars => Accounted'
  <2> SUFFICES ASSUME Accounted, [Next]_vars  PROVE Accounted'
    OBVIOUS
  <2>1. IInv /\ IInv' /\ TypeOK'
    BY InvPreserved DEF Accounted, IInv
  <2> QED  BY <2>1, LedgerPreserved DEF Accounted
<1> QED  BY <1>1, <1>2, InitInv, PTL DEF Spec, Accounted

-----------------------------------------------------------------------------
(* Usage rows stay                                                         *)

\* A quiet step writes no usage row but its request's own, and that is new.
LEMMA UsageWritten ==
  ASSUME TypeOK, NEW r \in Requests, QuietStep(r), Ledger(r)
  PROVE  \A q \in Requests : usage[q] # Null => usage'[q] = usage[q]
<1>1. CASE PersistUsage(r)
  <2>1. usage[r] = Null /\ \A q \in Requests \ {r} : usage'[q] = usage[q]
    BY <1>1 DEF PersistUsage, Escape, tables, Ledger, Recording, Ended, TypeOK
  <2> QED  BY <2>1
<1>2. CASE ~PersistUsage(r)
  BY <1>2 DEF QuietStep, Start, Delta, Drain, LlmError, Stop, Resume, Disconnect,
     Cancel, LoadContent, RefreshContent, SaveFiles, FindRoom, TouchRoom, Respond,
     PersistLibrary, SkipLibrary, RefreshLibrary, Complete, DeleteLibrary, Escape,
     tables
<1> QED  BY <1>1, <1>2

\* A deletion takes the message's name from a usage row, never the row.
LEMMA UsageDetached ==
  ASSUME NEW D, DeleteRows(D), NEW r \in Requests, usage[r] # Null
  PROVE  usage'[r] # Null /\ usage'[r].msg \in {usage[r].msg, Null}
<1>1. [msg |-> Null] # Null
  BY NullAssumption DEF UsageRow
<1> QED  BY <1>1 DEF DeleteRows, UsageWithout

\* So no step loses one.
LEMMA UsageKept ==
  ASSUME Accounted, Next, NEW r \in Requests, usage[r] # Null
  PROVE  usage'[r] # Null /\ usage'[r].msg \in {usage[r].msg, Null}
<1>1. ASSUME NEW q \in Requests, QuietStep(q)  PROVE usage'[r] = usage[r]
  BY <1>1, UsageWritten DEF Accounted, IInv
<1>2. ASSUME NEW q \in Requests, InsertContent(q) \/ UpdateContent(q)
      PROVE  usage' = usage
  BY <1>2 DEF InsertContent, UpdateContent, Escape, tables
<1>3. ASSUME NEW q \in Requests, NEW u \in Users, NEW m \in Messages,
             NEW c \in Requests \cup {Null}, NEW lib \in LibraryChoices,
             NEW f \in FileChoices, Accept(q, u, m, c, lib, f)
      PROVE  usage' = usage
  BY <1>3 DEF Accept, tables
<1>4. ASSUME NEW q \in Requests, Drop(q)  PROVE usage' = usage
  BY <1>4 DEF Drop, tables
<1>5. Crash => usage' = usage
  BY DEF Crash, tables
<1>6. ASSUME NEW u \in Users, NEW o \in Rooms, NEW m \in Messages,
             NEW p \in Messages \cup {Null}, CreateMessage(u, o, m, p)
      PROVE  usage' = usage
  BY <1>6 DEF CreateMessage
<1>7. ASSUME NEW m \in Messages, DeleteMessage(m)
      PROVE  usage'[r] # Null /\ usage'[r].msg \in {usage[r].msg, Null}
  BY <1>7, UsageDetached DEF DeleteMessage
<1>8. ASSUME NEW o \in Rooms, DeleteRoom(o)
      PROVE  usage'[r] # Null /\ usage'[r].msg \in {usage[r].msg, Null}
  BY <1>8, UsageDetached DEF DeleteRoom
<1> QED  BY <1>1, <1>2, <1>3, <1>4, <1>5, <1>6, <1>7, <1>8, ServeSorted DEF Next

\* A recorded usage row outlives its message, its room and every other stream,
\* and is never written a second time: whatever the requests and deletions are.
THEOREM UsageRowsSurvive == Spec => UsageSurvives
<1>1. Accounted /\ [Next]_vars =>
        [\A r \in Requests : usage[r] # Null =>
           usage'[r] # Null /\ usage'[r].msg \in {usage[r].msg, Null}]_vars
  BY UsageKept
<1> QED  BY <1>1, AlwaysAccounted, PTL DEF Spec, UsageSurvives

-----------------------------------------------------------------------------
(* The abstract lifecycle                                                  *)

\* The abstract state of one request: Lifecycle's other two variables.
Consumed(r) == pc[r] \notin Before /\ gen[r].tokens
Billed(r) == usage[r] # Null

\* Nothing of the lifecycle but request r's part moves.
OthersAlike(r) ==
  \A q \in Requests \ {r} :
    UNCHANGED <<Stage(q), Consumed(q), Billed(q)>>

\* What a step of request r is in the lifecycle: one of its actions, or nothing.
Maps(r) ==
  \/ UNCHANGED <<Stage(r), Consumed(r), Billed(r)>>
  \/ /\ UNCHANGED Billed(r) /\ Stage(r)' = "answering"
     /\ Stage(r) = "waiting" \/ (Stage(r) = "answering" /\ Consumed(r)')
  \/ /\ UNCHANGED Consumed(r) /\ ~Billed(r) /\ Billed(r)' /\ Consumed(r)
     /\ Stage(r) = "stored" /\ Stage(r)' = "stored"
  \/ /\ UNCHANGED <<Consumed(r), Billed(r)>>
     /\ \/ Stage(r) = "answering" /\ Stage(r)' = "stored"
        \/ /\ Stage(r) = "stored" /\ Stage(r)' = "announced"
           /\ Consumed(r) => Billed(r)
        \/ Stage(r) \in {"waiting", "answering", "stored"} /\ Stage(r)' = "over"

\* A step that is one of the lifecycle's for one request and nothing for the
\* others is a step of the lifecycle.
LEMMA StepMaps ==
  ASSUME NEW r \in Requests, OthersAlike(r), Maps(r), Consumed(r)' \in BOOLEAN
  PROVE  [Lifecycle!Next]_Lifecycle!vars
<1>1. CASE UNCHANGED <<Stage(r), Consumed(r), Billed(r)>>
  <2>1. \A q \in Requests : UNCHANGED <<Stage(q), Consumed(q), Billed(q)>>
    BY <1>1 DEF OthersAlike
  <2> QED  BY <2>1 DEF Lifecycle!vars, Consumed, Billed
<1>2. CASE Stage(r) = "waiting" /\ Stage(r)' = "answering" /\ UNCHANGED Billed(r)
  <2>1. Lifecycle!Begin(r)
    BY <1>2 DEF Lifecycle!Begin, Lifecycle!Move, OthersAlike, Consumed, Billed
  <2> QED  BY <2>1 DEF Lifecycle!Next
<1>3. CASE /\ Stage(r) = "answering" /\ Stage(r)' = "answering"
           /\ Consumed(r)' /\ UNCHANGED Billed(r)
  <2>1. Lifecycle!Consume(r)
    BY <1>3 DEF Lifecycle!Consume, OthersAlike, Consumed, Billed
  <2> QED  BY <2>1 DEF Lifecycle!Next
<1>4. CASE /\ Stage(r) = "answering" /\ Stage(r)' = "stored"
           /\ UNCHANGED <<Consumed(r), Billed(r)>>
  <2>1. Lifecycle!Store(r)
    BY <1>4 DEF Lifecycle!Store, Lifecycle!Move, OthersAlike, Consumed, Billed
  <2> QED  BY <2>1 DEF Lifecycle!Next
<1>5. CASE /\ UNCHANGED Consumed(r) /\ ~Billed(r) /\ Billed(r)' /\ Consumed(r)
           /\ Stage(r) = "stored" /\ Stage(r)' = "stored"
  <2>1. Lifecycle!Bill(r)
    BY <1>5 DEF Lifecycle!Bill, OthersAlike, Consumed, Billed
  <2> QED  BY <2>1 DEF Lifecycle!Next
<1>6. CASE /\ UNCHANGED <<Consumed(r), Billed(r)>> /\ (Consumed(r) => Billed(r))
           /\ Stage(r) = "stored" /\ Stage(r)' = "announced"
  <2>1. Lifecycle!Announce(r)
    BY <1>6 DEF Lifecycle!Announce, Lifecycle!Move, OthersAlike, Consumed, Billed
  <2> QED  BY <2>1 DEF Lifecycle!Next
<1>7. CASE /\ UNCHANGED <<Consumed(r), Billed(r)>> /\ Stage(r)' = "over"
           /\ Stage(r) \in {"waiting", "answering", "stored"}
  <2>1. Lifecycle!Abandon({r})
    BY <1>7 DEF Lifecycle!Abandon, OthersAlike, Consumed, Billed
  <2> QED  BY <2>1 DEF Lifecycle!Next
<1> QED  BY <1>1, <1>2, <1>3, <1>4, <1>5, <1>6, <1>7 DEF Maps

\* Every step of one request maps: what Progress says of its sent event, and
\* Ledger of the usage and the answer it stored, rules out the other ways.
LEMMA RequestMaps ==
  ASSUME IInv, TypeOK', NEW r \in Requests, Ledger(r),
         QuietStep(r) \/ InsertContent(r) \/ UpdateContent(r)
  PROVE  Maps(r)
<1>1. /\ gen[r] \in Generator /\ gen'[r] \in Generator
      /\ pc \in [Requests -> Places] /\ gen \in [Requests -> Generator]
      /\ usage \in [Requests -> UsageRow \cup {Null}]
      /\ sent \in [Requests -> Events]
      /\ sent[r] = "complete" => pc[r] = "closed"
      /\ pc[r] = "complete" /\ gen[r].tokens => usage[r] # Null
  BY DEF IInv, TypeOK, Progress
<1>2. CASE Start(r)
  <2>1. pc[r] = "ready" /\ pc'[r] = "stream" /\ UNCHANGED usage
    BY <1>1, <1>2 DEF Start, Goto, tables
  <2>2. Stage(r) = "waiting" /\ Stage(r)' = "answering" /\ UNCHANGED Billed(r)
    BY <2>1 DEF Stage, Billed, Before, Streaming
  <2> QED  BY <2>2 DEF Maps
<1>3. CASE Delta(r)
  BY <1>1, <1>3 DEF Delta, Maps, Stage, Consumed, Billed, Goto, tables, Generator,
     Before, Streaming, Finally, Ended, Ledger, Recording, Late
<1>4. CASE Drain(r)
  BY <1>1, <1>4 DEF Drain, Maps, Stage, Consumed, Billed, Goto, tables, Generator,
     Before, Streaming, Finally, Ended, Ledger, Recording, Late
<1>5. CASE LlmError(r)
  BY <1>1, <1>5 DEF LlmError, Maps, Stage, Consumed, Billed, Goto, tables, Generator,
     Before, Streaming, Finally, Ended, Ledger, Recording, Late
<1>6. CASE Stop(r)
  BY <1>1, <1>6 DEF Stop, Maps, Stage, Consumed, Billed, Goto, tables, Generator,
     Before, Streaming, Finally, Ended, Ledger, Recording, Late
<1>7. CASE Resume(r)
  BY <1>1, <1>7 DEF Resume, Maps, Stage, Consumed, Billed, Goto, tables, Generator,
     Before, Streaming, Finally, Ended, Ledger, Recording, Late
<1>8. CASE Disconnect(r)
  BY <1>1, <1>8 DEF Disconnect, Maps, Stage, Consumed, Billed, Goto, tables, Generator,
     Before, Streaming, Finally, Ended, Ledger, Recording, Late
<1>9. CASE Cancel(r)
  BY <1>1, <1>9 DEF Cancel, Maps, Stage, Consumed, Billed, Goto, tables, Generator,
     Before, Streaming, Finally, Ended, Ledger, Recording, Late, Remains
<1>10. CASE LoadContent(r)
  BY <1>1, <1>10 DEF LoadContent, Maps, Stage, Consumed, Billed, Goto, tables, Generator,
     Before, Streaming, Finally, Ended, Ledger, Recording, Late
<1>11. CASE RefreshContent(r)
  BY <1>1, <1>11 DEF RefreshContent, Maps, Stage, Consumed, Billed, Goto, tables, Generator,
     Before, Streaming, Finally, Ended, Ledger, Recording, Late, Escape
<1>12. CASE SaveFiles(r)
  BY <1>1, <1>12 DEF SaveFiles, Maps, Stage, Consumed, Billed, Goto, tables, Generator,
     Before, Streaming, Finally, Ended, Ledger, Recording, Late
<1>13. CASE FindRoom(r)
  BY <1>1, <1>13 DEF FindRoom, Maps, Stage, Consumed, Billed, Goto, tables, Generator,
     Before, Streaming, Finally, Ended, Ledger, Recording, Late, RoomExists, Respond, Escape
<1>14. CASE TouchRoom(r)
  BY <1>1, <1>14 DEF TouchRoom, Maps, Stage, Consumed, Billed, Goto, tables, Generator,
     Before, Streaming, Finally, Ended, Ledger, Recording, Late, RoomExists, Respond, Escape
<1>15. CASE PersistLibrary(r)
  BY <1>1, <1>15 DEF PersistLibrary, Maps, Stage, Consumed, Billed, Goto, tables, Generator,
     Before, Streaming, Finally, Ended, Ledger, Recording, Late, MessageExists, LibraryDue, Escape
<1>16. CASE SkipLibrary(r)
  BY <1>1, <1>16 DEF SkipLibrary, Maps, Stage, Consumed, Billed, Goto, tables, Generator,
     Before, Streaming, Finally, Ended, Ledger, Recording, Late
<1>17. CASE RefreshLibrary(r)
  BY <1>1, <1>17 DEF RefreshLibrary, Maps, Stage, Consumed, Billed, Goto, tables, Generator,
     Before, Streaming, Finally, Ended, Ledger, Recording, Late, Escape
<1>18. CASE PersistUsage(r)
  BY <1>1, <1>18 DEF PersistUsage, Maps, Stage, Consumed, Billed, Goto, tables, Generator,
     Before, Streaming, Finally, Ended, Ledger, Recording, Late, MessageExists, UsageDue, Escape
<1>19. CASE Complete(r)
  BY <1>1, <1>19 DEF Complete, Maps, Stage, Consumed, Billed, Goto, tables, Generator,
     Before, Streaming, Finally, Ended, Ledger, Recording, Late, CompleteDue
<1>20. CASE DeleteLibrary(r)
  BY <1>1, <1>20 DEF DeleteLibrary, Maps, Stage, Consumed, Billed, Goto, tables, Generator,
     Before, Streaming, Finally, Ended, Ledger, Recording, Late
<1>21. CASE InsertContent(r)
  BY <1>1, <1>21 DEF InsertContent, Maps, Stage, Consumed, Billed, Goto, tables, Generator,
     Before, Streaming, Finally, Ended, Ledger, Recording, Late, MessageExists, Escape
<1>22. CASE UpdateContent(r)
  BY <1>1, <1>22 DEF UpdateContent, Maps, Stage, Consumed, Billed, Goto, tables, Generator,
     Before, Streaming, Finally, Ended, Ledger, Recording, Late, ContentExists, Escape
<1> QED  BY <1>2, <1>3, <1>4, <1>5, <1>6, <1>7, <1>8, <1>9, <1>10, <1>11, <1>12, <1>13, <1>14, <1>15, <1>16, <1>17, <1>18, <1>19, <1>20, <1>21, <1>22 DEF QuietStep

\* Steps that run no generator move nothing in the lifecycle.
LEMMA ThreadMaps ==
  ASSUME UNCHANGED <<pc, gen, sent>>,
         \A q \in Requests : usage'[q] = Null <=> usage[q] = Null
  PROVE  UNCHANGED Lifecycle!vars
<1>1. \A q \in Requests : UNCHANGED <<Stage(q), Consumed(q), Billed(q)>>
  BY DEF Stage, Consumed, Billed
<1> QED  BY <1>1 DEF Lifecycle!vars, Consumed, Billed

\* Neither do a request's arrival and its departure before it streams.
LEMMA ArrivalMaps ==
  ASSUME IInv, NEW r \in Requests, {pc[r], pc'[r]} \subseteq Before,
         UNCHANGED <<usage, sent>>,
         \A q \in Requests \ {r} : pc'[q] = pc[q] /\ gen'[q] = gen[q]
  PROVE  UNCHANGED Lifecycle!vars
<1>1. \A q \in Requests : UNCHANGED <<Stage(q), Consumed(q), Billed(q)>>
  BY DEF Stage, Consumed, Billed, Before, Streaming, Finally, Ended
<1> QED  BY <1>1 DEF Lifecycle!vars, Consumed, Billed

\* A process that dies abandons every request that was streaming or in `finally`.
LEMMA CrashMaps ==
  ASSUME IInv, Crash  PROVE Lifecycle!Next
<1>1. PICK R \in SUBSET Requests :
        R = {r \in Requests : pc[r] \in Streaming \cup Finally}
  OBVIOUS
<1>2. R # {}
  BY <1>1 DEF Crash
<1>3. ASSUME NEW q \in Requests, q \in R
      PROVE  /\ Stage(q) \in {"waiting", "answering", "stored"} /\ Stage(q)' = "over"
             /\ UNCHANGED <<Consumed(q), Billed(q)>>
  <2>1. /\ pc[q] \in Streaming \cup Finally /\ sent[q] # "complete"
        /\ gen[q] \in Generator
    BY <1>1, <1>3 DEF IInv, TypeOK, Progress, Streaming, Finally
  <2>2. /\ pc'[q] = "killed" /\ gen'[q].tokens = gen[q].tokens
        /\ UNCHANGED <<usage, sent>>
    BY <2>1 DEF Crash, tables, Before, Streaming, Finally, Ended, Remains, Generator
  <2> QED  BY <2>1, <2>2 DEF Stage, Consumed, Billed, Before, Streaming, Finally
<1>4. ASSUME NEW q \in Requests, q \notin R
      PROVE  UNCHANGED <<Stage(q), Consumed(q), Billed(q)>>
  <2>1. pc[q] \in Before \cup Ended
    BY <1>1, <1>4 DEF IInv, TypeOK, Places
  <2>2. /\ UNCHANGED <<usage, sent>>
        /\ \/ pc[q] \in Before /\ pc'[q] \in Before
           \/ pc[q] \in Ended /\ pc'[q] = pc[q] /\ gen'[q] = gen[q]
    BY <2>1 DEF Crash, tables, Before, Ended
  <2> QED  BY <2>2 DEF Stage, Consumed, Billed, Before, Streaming, Finally, Ended
<1>5. Lifecycle!Abandon(R)
  BY <1>2, <1>3, <1>4 DEF Lifecycle!Abandon, Consumed, Billed
<1> QED  BY <1>5 DEF Lifecycle!Next

\* Every step of the streams is a step of the lifecycle, or none.
LEMMA LifecycleStep ==
  ASSUME Accounted, TypeOK', [Next]_vars
  PROVE  [Lifecycle!Next]_Lifecycle!vars
<1>1. ASSUME NEW r \in Requests,
             QuietStep(r) \/ InsertContent(r) \/ UpdateContent(r)
      PROVE  [Lifecycle!Next]_Lifecycle!vars
  <2>1. OthersIdle(r)
    BY <1>1, QuietSteps DEF Quiet, Accounted, InsertContent, UpdateContent, Escape,
       OthersIdle, Goto, tables, IInv, TypeOK
  <2>2. OthersAlike(r)
    BY <2>1 DEF OthersIdle, OthersAlike, Stage, Consumed, Billed
  <2>3. Consumed(r)' \in BOOLEAN
    BY DEF Consumed
  <2> QED  BY <1>1, <2>2, <2>3, RequestMaps, StepMaps DEF Accounted
<1>2. ASSUME NEW r \in Requests, NEW u \in Users, NEW m \in Messages,
             NEW c \in Requests \cup {Null}, NEW lib \in LibraryChoices,
             NEW f \in FileChoices, Accept(r, u, m, c, lib, f)
      PROVE  UNCHANGED Lifecycle!vars
  BY <1>2, ArrivalMaps DEF Accept, BuildRagContext, Goto, tables, Before, Accounted,
     IInv, TypeOK
<1>3. ASSUME NEW r \in Requests, Drop(r)  PROVE UNCHANGED Lifecycle!vars
  BY <1>3, ArrivalMaps DEF Drop, Goto, tables, Before, Accounted, IInv, TypeOK
<1>4. ASSUME NEW u \in Users, NEW o \in Rooms, NEW m \in Messages,
             NEW p \in Messages \cup {Null}, CreateMessage(u, o, m, p)
      PROVE  UNCHANGED Lifecycle!vars
  BY <1>4, ThreadMaps DEF CreateMessage
<1>5. ASSUME \/ \E m \in Messages : DeleteMessage(m)
             \/ \E o \in Rooms : DeleteRoom(o)
      PROVE  UNCHANGED Lifecycle!vars
  <2>1. UNCHANGED <<pc, gen, sent>> /\ \E D : DeleteRows(D)
    BY <1>5 DEF DeleteMessage, DeleteRoom
  <2>2. \A q \in Requests : usage[q] = Null => usage'[q] = Null
    BY <2>1 DEF DeleteRows, UsageWithout
  <2> QED  BY <2>1, <2>2, UsageDetached, ThreadMaps
<1>6. CASE UNCHANGED vars
  BY <1>6, ThreadMaps DEF vars
<1> QED  BY <1>1, <1>2, <1>3, <1>4, <1>5, <1>6, ServeSorted, CrashMaps
         DEF Next, Accounted

\* The streams implement the abstract lifecycle of an answer: it is stored at
\* most once for a request, its tokens are billed once and only when it is
\* stored, and "complete" is announced only when both are done, for any number
\* of requests, deletions, disconnects, cancellations and crashes.
THEOREM StreamsImplementLifecycle == Spec => ImplementsLifecycle
<1>1. Init => Lifecycle!Init
  <2>1. ASSUME Init, NEW r \in Requests
        PROVE  Stage(r) = "waiting" /\ ~Consumed(r) /\ ~Billed(r)
    <3>1. pc[r] = "idle" /\ usage[r] = Null
      BY <2>1 DEF Init
    <3> QED  BY <3>1 DEF Stage, Consumed, Billed, Before, Streaming
  <2> QED  BY <2>1 DEF Lifecycle!Init, Consumed, Billed
<1>2. Accounted /\ TypeOK' /\ [Next]_vars => [Lifecycle!Next]_Lifecycle!vars
  BY LifecycleStep
<1>3. Spec => [](Accounted /\ TypeOK)
  BY AlwaysAccounted, TypeCorrect, PTL
<1> QED  BY <1>1, <1>2, <1>3, PTL DEF Spec, ImplementsLifecycle, Lifecycle!Spec

=============================================================================
