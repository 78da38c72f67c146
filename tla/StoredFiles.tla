---------------------------- MODULE StoredFiles ----------------------------
(***************************************************************************)
(* The training files of a tenant: a row in the database and an object in  *)
(* the storage, written and deleted one after the other, in indexes whose  *)
(* number is limited.                                                      *)
(*                                                                         *)
(* FileService uploads, replaces, edits and deletes files, IndexService    *)
(* creates, alters and deletes indexes and learns from a feedback; a file  *)
(* is created by create_file_record for both.  Requests of one tenant run  *)
(* concurrently; each await is a step, and either store may refuse it, or  *)
(* the process may die before it.  The rows of an index, a feedback, a    *)
(* room or a user go with it (ON DELETE CASCADE), their objects do not.    *)
(*                                                                         *)
(* Names, references and the credit check (CreditQuota) are left out.      *)
(***************************************************************************)
EXTENDS Naturals, FiniteSets

CONSTANTS
  Callers,    \* places for requests that run at the same time
  FileIds,    \* the ids uuid4 gives to files
  IndexIds,   \* and to indexes
  Sources,    \* feedbacks and rooms files are learned from
  Feedbacks,  \* those of them that are feedbacks
  SaasLimit,  \* SAAS_INDEX_LIMIT
  None

VARIABLES
  index,      \* the type of each index that exists
  row,        \* the rows of the table files
  objects,    \* the files whose object is in the storage
  learned,    \* message_feedbacks.index_id, and which sources are left
  issued,     \* the file ids uuid4 has given out
  at, work,   \* where each request is, and its locals
  broken,     \* what a failed step left behind, for the properties
  altered     \* the indexes that became SAAS_GLOBAL by an update

fileVars == <<index, row, objects, learned, issued, at, work, broken, altered>>

Types == {"SAAS_GLOBAL", "LOCAL"}
Statuses == {"ENABLE", "DISABLE", "DELETED"}
Rows == [index : IndexIds, status : Statuses, source : Sources \cup {None}]

\* What a request asks for.
FileOps == {"upload", "learn", "replace", "delete", "hide", "patch"}
Steps == {"put", "insert", "refresh", "undo", "mark", "drop", "erase", "save"}
IndexSteps == {"create", "alter"}

Works == [op : FileOps, index : IndexIds \cup {None}, file : FileIds,
          source : Sources \cup {None}, seen : Statuses, wanted : Statuses]
IndexWorks == [index : IndexIds \cup {None}, seen : Types, wanted : Types]

Troubles == {"row", "content", "mark"}

ASSUME FilesAssumption ==
  /\ IsFiniteSet(Callers) /\ Callers # {} /\ SaasLimit \in Nat \ {0}
  /\ IsFiniteSet(IndexIds) /\ "gone" \notin IndexIds  \* 16^32 names
  /\ Feedbacks \subseteq Sources
  /\ None \notin Rows \cup Works \cup IndexWorks \cup Sources \cup IndexIds \cup FileIds

FilesTypeOK ==
  /\ index \in [IndexIds -> Types \cup {"new", "gone"}]
  /\ row \in [FileIds -> Rows \cup {None}]
  /\ objects \in SUBSET FileIds /\ issued \in SUBSET FileIds
  /\ learned \in [Sources -> IndexIds \cup {None, "gone"}]
  /\ at \in [Callers -> Steps \cup IndexSteps \cup {"idle"}]
  /\ work \in [Callers -> Works \cup IndexWorks \cup {None}]
  /\ \A c \in Callers : /\ at[c] \in Steps => work[c] \in Works
                        /\ at[c] \in IndexSteps => work[c] \in IndexWorks
  /\ broken \in SUBSET (Troubles \X FileIds)
  /\ altered \in SUBSET IndexIds

SaasIndexes == {i \in IndexIds : index[i] = "SAAS_GLOBAL"}

\* A tenant whose files, if it ever had any, are gone with their objects.
FilesInit ==
  /\ index \in [IndexIds -> Types \cup {"new", "gone"}]
  /\ Cardinality(SaasIndexes) <= SaasLimit
  /\ row = [f \in FileIds |-> None] /\ issued \in SUBSET FileIds
  /\ objects = {} /\ broken = {} /\ altered = {}
  /\ learned = [s \in Sources |-> None]
  /\ at = [c \in Callers |-> "idle"]
  /\ work = [c \in Callers |-> None]

-----------------------------------------------------------------------------
(* Requests                                                                *)

Exists(i) == index[i] \in Types

\* _get_index_or_404 and ensure_not_local.
Usable(i) == index[i] = "SAAS_GLOBAL"

Stored(f) == row[f] # None

Served(f) == Stored(f) /\ row[f].status # "DELETED"

Start(c, step, w) ==
  /\ at[c] = "idle"
  /\ at' = [at EXCEPT ![c] = step] /\ work' = [work EXCEPT ![c] = w]

Goto(c, step) == at' = [at EXCEPT ![c] = step] /\ UNCHANGED work

Done(c) == at' = [at EXCEPT ![c] = "idle"] /\ work' = [work EXCEPT ![c] = None]

Leave(kind, fs) == broken' = broken \cup {<<kind, f>> : f \in fs}

NewFile(f) == f \notin issued /\ issued' = issued \cup {f}

\* A feedback whose file was stored but that will not be marked.
Unmarked(c) == IF work[c].source \in Feedbacks THEN {work[c].file} ELSE {}

-----------------------------------------------------------------------------
(* create_file_record                                                      *)

\* FileService.create_file, and additional_learning of a source that exists.
CreateFile(c, i, s, f) ==
  /\ Usable(i) /\ NewFile(f)
  /\ s # None => learned[s] # "gone"
  /\ Start(c, "put", [op |-> IF s = None THEN "upload" ELSE "learn", index |-> i, file |-> f,
                      source |-> s, seen |-> "ENABLE", wanted |-> "ENABLE"])
  /\ UNCHANGED <<index, row, objects, learned, broken, altered>>

\* storage.upload; a write that is cut short may leave a part of the object.
Put(c) ==
  /\ at[c] = "put"
  /\ \/ objects' = objects \cup {work[c].file} /\ Goto(c, "insert") /\ UNCHANGED broken
     \/ Done(c) /\ UNCHANGED <<objects, broken>>
     \/ objects' = objects \cup {work[c].file} /\ Done(c) /\ Leave("row", {work[c].file})
  /\ UNCHANGED <<index, row, learned, issued, altered>>

InsertWithoutUndo(c) ==
  LET w == work[c] IN
  /\ at[c] = "insert"
  /\ \/ /\ Exists(w.index) /\ (w.source # None => learned[w.source] # "gone")
        /\ row' = [row EXCEPT ![w.file] =
                     [index |-> w.index, status |-> "ENABLE", source |-> w.source]]
        /\ Goto(c, "refresh")
     \/ Done(c) /\ UNCHANGED row
  /\ UNCHANGED <<index, objects, learned, issued, broken, altered>>

\* The commit in FileRepository.create: its foreign keys need the index and the
\* source.
Insert(c) ==
  LET w == work[c] IN
  /\ at[c] = "insert"
  /\ \/ /\ Exists(w.index) /\ (w.source # None => learned[w.source] # "gone")
        /\ row' = [row EXCEPT ![w.file] =
                     [index |-> w.index, status |-> "ENABLE", source |-> w.source]]
        /\ Goto(c, "refresh")
     \/ Goto(c, "undo") /\ UNCHANGED row
  /\ UNCHANGED <<index, objects, learned, issued, broken, altered>>

\* The refresh after it, which needs the row.
Refresh(c) ==
  /\ at[c] = "refresh"
  /\ \/ Stored(work[c].file) /\ work[c].source \in Feedbacks /\ Goto(c, "mark")
     \/ Stored(work[c].file) /\ work[c].source \notin Feedbacks /\ Done(c)
     \/ Goto(c, "undo")
  /\ UNCHANGED <<index, row, objects, learned, issued, broken, altered>>

\* The `except` branch deletes the object again, the committed row's as well.
Undo(c) ==
  LET f == work[c].file IN
  /\ at[c] = "undo" /\ Done(c)
  /\ \/ /\ objects' = objects \ {f}
        /\ broken' = broken \cup {<<"mark", g>> : g \in Unmarked(c)}
                            \cup {<<"content", g>> : g \in {f} \cap {h \in FileIds : Stored(h)}}
     \/ /\ UNCHANGED objects
        /\ broken' = broken \cup {<<"mark", g>> : g \in Unmarked(c)} \cup {<<"row", f>>}
  /\ UNCHANGED <<index, row, learned, issued, altered>>

\* additional_learning's last statement.
Mark(c) ==
  LET w == work[c] IN
  /\ at[c] = "mark" /\ Done(c)
  /\ \/ /\ learned[w.source] # "gone"
        /\ learned' = [learned EXCEPT ![w.source] = w.index]
        /\ UNCHANGED broken
     \/ Leave("mark", {w.file}) /\ UNCHANGED learned
  /\ UNCHANGED <<index, row, objects, issued, altered>>

-----------------------------------------------------------------------------
(* delete_file, for itself and for update_file with an attachment          *)

\* The index named is checked, but not that the file is in it.
FindFile(c, op, i, f) ==
  /\ Usable(i) /\ Stored(f)
  /\ op \in {"delete", "hide", "replace"}
  /\ Start(c, "drop", [op |-> op, index |-> i, file |-> f, source |-> None,
                       seen |-> IF op = "hide" THEN row[f].status ELSE "ENABLE",
                       wanted |-> "DELETED"])
  /\ UNCHANGED <<index, row, objects, learned, issued, broken, altered>>

Drop(c) ==
  /\ at[c] = "drop"
  /\ \/ objects' = objects \ {work[c].file} /\ Goto(c, "erase")
     \/ Done(c) /\ UNCHANGED objects
  /\ UNCHANGED <<index, row, learned, issued, broken, altered>>

\* An update is written only where the status differs from the one that was
\* loaded, and fails where the row is gone; a deletion then finds nothing.
EraseRow(c) ==
  LET w == work[c] IN
  row' = CASE w.op # "hide" -> [row EXCEPT ![w.file] = None]
           [] w.op = "hide" /\ Stored(w.file) /\ w.seen # "DELETED" ->
                [row EXCEPT ![w.file].status = "DELETED"]
           [] OTHER -> row

Erase(c) ==
  LET w == work[c] IN
  /\ at[c] = "erase"
  /\ \/ w.op # "replace" /\ EraseRow(c) /\ Done(c) /\ UNCHANGED <<issued, broken>>
     \/ /\ w.op = "replace" /\ EraseRow(c) /\ UNCHANGED broken
        /\ \E f \in FileIds :
             /\ NewFile(f)
             /\ at' = [at EXCEPT ![c] = "put"] /\ work' = [work EXCEPT ![c].file = f]
     \/ Leave("content", {w.file}) /\ Done(c) /\ UNCHANGED <<row, issued>>
  /\ UNCHANGED <<index, objects, learned, altered>>

-----------------------------------------------------------------------------
(* update_file without an attachment                                       *)

LoadFile(c, f, s) ==
  /\ Stored(f) /\ s # "DELETED"
  /\ Start(c, "save", [op |-> "patch", index |-> None, file |-> f, source |-> None,
                       seen |-> row[f].status, wanted |-> s])
  /\ UNCHANGED <<index, row, objects, learned, issued, broken, altered>>

\* A file that is DELETED, or became so meanwhile, is served again without its
\* content.
Save(c) ==
  LET w == work[c] IN
  /\ at[c] = "save" /\ Done(c)
  /\ \/ /\ Stored(w.file) /\ w.wanted # w.seen
        /\ row' = [row EXCEPT ![w.file].status = w.wanted]
        /\ IF Served(w.file) THEN UNCHANGED broken ELSE Leave("content", {w.file})
     \/ UNCHANGED <<row, broken>>
  /\ UNCHANGED <<index, objects, learned, issued, altered>>

-----------------------------------------------------------------------------
(* Indexes                                                                 *)

CountPastLimit(c, t) ==
  /\ t = "SAAS_GLOBAL" => Cardinality(SaasIndexes) <= SaasLimit
  /\ Start(c, "create", [index |-> None, seen |-> t, wanted |-> t])
  /\ UNCHANGED <<index, row, objects, learned, issued, broken, altered>>

CountIndexes(c, t) ==
  /\ t = "SAAS_GLOBAL" => Cardinality(SaasIndexes) < SaasLimit
  /\ Start(c, "create", [index |-> None, seen |-> t, wanted |-> t])
  /\ UNCHANGED <<index, row, objects, learned, issued, broken, altered>>

CreateIndex(c) ==
  /\ at[c] = "create" /\ Done(c)
  /\ \E i \in IndexIds : index[i] = "new" /\ index' = [index EXCEPT ![i] = work[c].wanted]
  /\ UNCHANGED <<row, objects, learned, issued, broken, altered>>

LoadIndex(c, i, t) ==
  /\ Exists(i)
  /\ Start(c, "alter", [index |-> i, seen |-> index[i], wanted |-> t])
  /\ UNCHANGED <<index, row, objects, learned, issued, broken, altered>>

\* update_index does not count.
AlterIndex(c) ==
  LET w == work[c] IN
  /\ at[c] = "alter" /\ Done(c)
  /\ Exists(w.index) /\ w.wanted # w.seen
  /\ index' = [index EXCEPT ![w.index] = w.wanted]
  /\ altered' = altered \cup {i \in {w.index} : w.wanted = "SAAS_GLOBAL"}
  /\ UNCHANGED <<row, objects, learned, issued, broken>>

Cascade(fs) ==
  /\ row' = [f \in FileIds |-> IF f \in fs THEN None ELSE row[f]]
  /\ Leave("row", fs)

DeleteIndex(i) ==
  /\ Exists(i) /\ index' = [index EXCEPT ![i] = "gone"]
  /\ Cascade({f \in FileIds : Stored(f) /\ row[f].index = i})
  /\ UNCHANGED <<objects, learned, issued, at, work, altered>>

\* A room is deleted, with its messages and their feedbacks, or only a message.
DeleteSource(s) ==
  /\ learned[s] # "gone" /\ learned' = [learned EXCEPT ![s] = "gone"]
  /\ Cascade({f \in FileIds : Stored(f) /\ row[f].source = s})
  /\ UNCHANGED <<index, objects, issued, at, work, altered>>

\* A user is deleted, with any of the files; whose they are is left out.
DeleteUser(fs) ==
  /\ fs # {} /\ (\A f \in fs : Stored(f)) /\ Cascade(fs)
  /\ UNCHANGED <<index, objects, learned, issued, at, work, altered>>

-----------------------------------------------------------------------------
\* The request fails between two steps, is cancelled, or its process dies.
Stop(c) ==
  LET w == work[c] IN
  /\ at[c] # "idle" /\ Done(c)
  /\ broken' = broken \cup
       (IF at[c] \in {"insert", "undo"} THEN {<<"row", w.file>>} ELSE {}) \cup
       (IF at[c] = "erase" THEN {<<"content", w.file>>} ELSE {}) \cup
       (IF at[c] \in {"refresh", "undo", "mark"} THEN {<<"mark", w.file>>} ELSE {})
  /\ UNCHANGED <<index, row, objects, learned, issued, altered>>

ServeFile(c) ==
  \/ \E i \in IndexIds, s \in Sources \cup {None}, f \in FileIds : CreateFile(c, i, s, f)
  \/ \E op \in FileOps, i \in IndexIds, f \in FileIds : FindFile(c, op, i, f)
  \/ \E f \in FileIds, s \in Statuses : LoadFile(c, f, s)
  \/ Put(c) \/ Insert(c) \/ Refresh(c) \/ Undo(c) \/ Mark(c)
  \/ Drop(c) \/ Erase(c) \/ Save(c) \/ Stop(c)

ServeIndex(c) ==
  \/ \E t \in Types : CountIndexes(c, t)
  \/ \E i \in IndexIds, t \in Types : LoadIndex(c, i, t)
  \/ CreateIndex(c) \/ AlterIndex(c)

FilesNext ==
  \/ \E c \in Callers : ServeFile(c) \/ ServeIndex(c)
  \/ \E i \in IndexIds : DeleteIndex(i)
  \/ \E s \in Sources : DeleteSource(s)
  \/ \E fs \in SUBSET FileIds : DeleteUser(fs)

FilesSpec == FilesInit /\ [][FilesNext]_fileVars

-----------------------------------------------------------------------------
(* Properties                                                              *)

\* Some request is at one of the steps with the file.
Busy(f, steps) == \E c \in Callers : at[c] \in steps /\ work[c].file = f

\* A file that is served has its content, whatever requests for it cross -
\* except while a deletion is half done or after one failed there, after a
\* creation took its object back although its row was committed, and after a
\* PATCH put a deleted file back (FileService, create_file_record).
ContentKept ==
  \A f \in FileIds :
    Served(f) => f \in objects \/ <<"content", f>> \in broken \/ Busy(f, {"erase"})

\* An object without a row is one that a request still holds, or that a failure
\* or a cascade left behind.
ObjectsOwned ==
  \A f \in objects :
    Stored(f) \/ <<"row", f>> \in broken \/ Busy(f, {"insert", "undo"})

\* A file learned from a feedback has its feedback marked, unless the request
\* failed after the file was stored (IndexService.additional_learning).
LearningMarked ==
  \A f \in FileIds :
    Stored(f) /\ row[f].source \in Feedbacks =>
      \/ learned[row[f].source] \in IndexIds \/ <<"mark", f>> \in broken
      \/ Busy(f, {"refresh", "undo", "mark"})

FilesMatch == ContentKept /\ ObjectsOwned /\ LearningMarked

\* The count and the insert of an index are two steps without a lock: the limit
\* is passed by as many as run at the same time, less one, and otherwise only
\* by indexes that an update made SAAS_GLOBAL (IndexService.create_index).
LimitHolds ==
  Cardinality(SaasIndexes \ altered) < SaasLimit + Cardinality(Callers)
=============================================================================
