---------------------------- MODULE TrainingData ----------------------------
(***************************************************************************)
(* The training data pages: TrainingDataStore, the list of folders, a      *)
(* folder's page and its view of the files (the local and the cloud view   *)
(* are one component but for synchronisation and download).                *)
(*                                                                         *)
(* The store outlives the pages and has one isLoading for everything about *)
(* folders.  The folder's page destroys the view while isLoading, and with *)
(* it the selection, the names being edited and the dialogs' flags.        *)
(* Renaming and switching a file on or off change the rows at once and put *)
(* the whole earlier list back when the service refuses.                   *)
(***************************************************************************)
EXTENDS Positions, SequencesExt

CONSTANTS
  Held,         \* the files of each folder at first
  NewFolder,    \* the folder a create adds
  NewFile,      \* the file an upload adds, as a number above the others
  DisplayNames, \* display names
  MaxTouches    \* bound on what the user does

ASSUME DataAssumption == NewFile \in Nat

NoFolder == "none"
Folders == DOMAIN Held
FileNumbers == 1..NewFile
Unnamed == CHOOSE n \in DisplayNames : TRUE

VARIABLES
  store,    \* TrainingDataStore and the folder of the route
  pane,     \* the view of the files; no: which instance it is
  pending,  \* calls that were not answered
  disk,     \* the service: each file's folder, name, whether it is learnt
  kept,     \* the service: its folders
  collided, \* two calls overlapped, or a reload or one of several failed
  touches   \* what the user did so far

dataVars == <<store, pane, pending, disk, kept, collided, touches>>

AllFiles == [query |-> "all", page |-> 1]

\* The view as it is created.
pristine(no) ==
  [no |-> no, chosen |-> {}, renaming |-> FALSE, edits |-> <<>>, form |-> "none",
   file |-> 0, upload |-> FALSE, busy |-> {}]

Call(kind, folder) ==
  [kind |-> kind, folder |-> folder, files |-> {}, failed |-> FALSE, back |-> <<>>,
   filter |-> AllFiles, value |-> [id |-> 0, name |-> Unnamed, on |-> FALSE],
   then |-> "none", pane |-> 0]

DataInit ==
  /\ \E f \in Folders :
       /\ store = [route |-> f, item |-> NoFolder, loading |-> TRUE, items |-> <<>>,
                   total |-> 0, rows |-> <<>>, count |-> 0, filter |-> AllFiles,
                   filesLoading |-> FALSE]
       /\ pending = <<Call("detail", f)>>
  /\ pane = pristine(0)
  /\ disk = [i \in FileNumbers |->
               [home |-> IF \E f \in Folders : i \in Held[f]
                         THEN CHOOSE f \in Folders : i \in Held[f] ELSE NoFolder,
                name |-> Unnamed, on |-> TRUE]]
  /\ kept = Folders
  /\ collided = FALSE
  /\ touches = 0

----------------------------------------------------------------------------
(* The store.                                                              *)

\* A change of isLoading to TRUE destroys the view.
busyPage(s) == [s EXCEPT !.loading = TRUE]
paneAfter(s) == IF s.loading /\ ~store.loading THEN pristine(pane.no + 1) ELSE pane

\* normalizeTrainingDataFileListBody: a page of two of the folder's files.
listFiles(folder, f) ==
  LET all == {i \in FileNumbers : disk[i].home = folder /\ (f.query = "all" \/ disk[i].on)}
      page == {i \in all : (Cardinality({j \in all : j <= i}) + 1) \div 2 = f.page}
  IN  [rows |-> [k \in 1..Cardinality(page) |->
                   LET i == Nth(page, k) IN [id |-> i, name |-> disk[i].name, on |-> disk[i].on]],
       count |-> Cardinality(all)]

filesTotalPages(s) == IF s.count < 2 THEN 1 ELSE (s.count + 1) \div 2

\* loadFilesInternal: the filter is the one of the moment it is called.
loadFilesInternal(folder, s, then, no) ==
  [Call("list", folder) EXCEPT !.filter = s.filter, !.then = then, !.pane = no]

loadItem(folder, then) == [Call("item", folder) EXCEPT !.then = then]

\* renameFile and toggleFileLearning.
changed(rows, row) ==
  [k \in DOMAIN rows |-> IF rows[k].id = row.id THEN row ELSE rows[k]]

renameFile(folder, row, name, rows) ==
  [Call("patch", folder) EXCEPT !.value = [row EXCEPT !.name = name], !.back = rows,
                                !.then = "name"]

toggleFileLearning(folder, row, rows) ==
  [Call("patch", folder) EXCEPT !.value = [row EXCEPT !.on = ~@], !.back = rows,
                                !.then = "on"]

----------------------------------------------------------------------------
(* What the user does.                                                     *)

Acting == touches < MaxTouches /\ touches' = touches + 1

\* The user acts, and may thereby start calls.
Does(s, p, new) ==
  /\ Acting
  /\ store' = s /\ pane' = p
  /\ pending' = pending \o new
  /\ collided' = (collided \/ (new # <<>> /\ pending # <<>>) \/ Len(new) > 1)
  /\ UNCHANGED <<disk, kept>>

NoForm == pane.form = "none"
FolderShown == store.route # NoFolder /\ ~store.loading /\ store.item # NoFolder

\* A folder's page is entered: loadDetail.
loadDetail(f) ==
  /\ NoForm /\ f \in kept
  /\ Does([busyPage(store) EXCEPT !.route = f, !.filter = AllFiles, !.rows = <<>>,
                                  !.count = 0],
          pristine(pane.no + 1), <<Call("detail", f)>>)

\* The list of folders is entered, or turned: load.
load ==
  /\ NoForm
  /\ Does([busyPage(store) EXCEPT !.route = NoFolder], pristine(pane.no + 1),
          <<Call("items", NoFolder)>>)

\* Searching, sorting and turning the files.
fileTurns ==
  {[query |-> q, page |-> 1] : q \in {"all", "on"}}
  \cup {[store.filter EXCEPT !.page = p] : p \in 1..filesTotalPages(store)}

updateFilesFilter ==
  /\ FolderShown /\ NoForm
  /\ \E f \in fileTurns :
       LET s == [store EXCEPT !.filter = f, !.filesLoading = TRUE]
       IN  Does(s, pane, <<loadFilesInternal(store.item, s, "none", 0)>>)

Row == {store.rows[k] : k \in DOMAIN store.rows}
IdsOf(rows) == {r.id : r \in rows}
namesOf(rows) == [i \in IdsOf(rows) |-> (CHOOSE r \in rows : r.id = i).name]
deselected(p) == [p EXCEPT !.chosen = {}, !.renaming = FALSE, !.edits = <<>>]

\* What the handlers make of the view.  What is kept of a chosen file is the
\* row as it was then.
withChosen(p, rows) ==
  [p EXCEPT !.chosen = rows, !.edits = IF p.renaming THEN namesOf(rows) ELSE @]

toggled(p, r) ==
  IF r.id \notin IdsOf(p.chosen)
  THEN [p EXCEPT !.chosen = @ \cup {r},
                 !.edits = IF p.renaming
                           THEN [i \in {r.id} \cup DOMAIN @ |-> IF i = r.id THEN r.name ELSE @[i]]
                           ELSE @]
  ELSE LET left == {c \in p.chosen : c.id # r.id}
       IN  IF left = {} THEN deselected(p)
           ELSE [p EXCEPT !.chosen = left,
                          !.edits = IF p.renaming THEN [i \in IdsOf(left) |-> @[i]] ELSE @]

renaming(p, rows) == [p EXCEPT !.chosen = rows, !.renaming = TRUE, !.edits = namesOf(rows)]
typed(p, i, n) == [p EXCEPT !.edits[i] = n]
pickCleared(p) == [p EXCEPT !.form = "addSp", !.file = 0, !.upload = FALSE]
prefilled(p, r) == [p EXCEPT !.form = "edit", !.file = r.id]
filePicked(p) == [p EXCEPT !.upload = TRUE]
busied(p, flag) == [p EXCEPT !.busy = @ \cup {flag}]

\* What the dialogs submit; the edit's switch starts as on, whatever the file is.
addCall(p) == [Call("add", store.item) EXCEPT !.pane = p.no, !.then = "add"]
editCall(p, name, on) ==
  [Call(IF p.form = "edit" THEN "update" ELSE "add", store.item)
     EXCEPT !.value = [id |-> p.file, name |-> name, on |-> on], !.pane = p.no, !.then = "edit"]

\* The rows shown whose name was changed.
renamesDue(p) ==
  At(store.rows, {k \in 1..Len(store.rows) :
                    /\ store.rows[k].id \in DOMAIN p.edits
                    /\ p.edits[store.rows[k].id] # store.rows[k].name})

\* selectAllChange and onDeselectAll.
selectAllChange ==
  /\ FolderShown /\ NoForm
  /\ \/ Does(store, withChosen(pane, Row), <<>>)
     \/ pane.chosen # {} /\ Does(store, deselected(pane), <<>>)

toggleItemSelection ==
  /\ FolderShown /\ NoForm
  /\ \E r \in Row : Does(store, toggled(pane, r), <<>>)

\* onEditName, of one row or of the chosen ones.
onEditName ==
  /\ FolderShown /\ NoForm
  /\ \E rows \in {{r} : r \in Row} \cup {pane.chosen} :
       rows # {} /\ Does(store, renaming(pane, rows), <<>>)

updateEditingValue ==
  /\ FolderShown /\ NoForm /\ pane.renaming
  /\ \E i \in DOMAIN pane.edits, n \in DisplayNames : Does(store, typed(pane, i, n), <<>>)

\* onSaveRename: a call for each row due; each takes the rows as the one
\* before left them.
onSaveRename ==
  /\ FolderShown /\ NoForm /\ pane.renaming
  /\ LET all == renamesDue(pane)
         after(n) ==
           [i \in DOMAIN store.rows |->
              LET r == store.rows[i]
              IN  IF \E k \in 1..n : all[k].id = r.id THEN [r EXCEPT !.name = pane.edits[r.id]]
                  ELSE r]
     IN  Does([store EXCEPT !.rows = after(Len(all))],
              [pane EXCEPT !.renaming = FALSE, !.edits = <<>>],
              [k \in DOMAIN all |->
                 renameFile(store.item, all[k], pane.edits[all[k].id], after(k - 1))])

onToggleLearning ==
  /\ FolderShown /\ NoForm
  /\ \E r \in Row :
       Does([store EXCEPT !.rows = changed(@, [r EXCEPT !.on = ~@])], pane,
            <<toggleFileLearning(store.item, r, store.rows)>>)

\* A deletion, once confirmed, of one row or of the chosen ones.
startDelete(ids, p) ==
  Does([store EXCEPT !.filesLoading = TRUE], p,
       <<[Call("delete", store.item) EXCEPT !.files = ids]>>)

onDeleteFile == FolderShown /\ NoForm /\ \E r \in Row : startDelete({r.id}, pane)

onDeleteSelectedFiles ==
  /\ FolderShown /\ NoForm /\ pane.chosen # {}
  /\ startDelete(IdsOf(pane.chosen), deselected(pane))

onSync ==
  /\ FolderShown /\ NoForm
  /\ Does(busyPage(store), paneAfter(busyPage(store)), <<Call("sync", store.item)>>)

\* The dialogs: onAddData; onAddDataSp and onEditLearningData share a form and
\* the file picked in it, which only the former clears.
onAddData == FolderShown /\ NoForm /\ Does(store, [pane EXCEPT !.form = "add"], <<>>)

onAddDataSp ==
  /\ FolderShown /\ NoForm
  /\ Does(store, pickCleared(pane), <<>>)

onEditLearningData ==
  /\ FolderShown /\ NoForm
  /\ \E r \in Row : Does(store, prefilled(pane, r), <<>>)

onEditFileChange ==
  pane.form = "addSp" /\ Does(store, filePicked(pane), <<>>)

closeForm == ~NoForm /\ Does(store, [pane EXCEPT !.form = "none"], <<>>)

onSubmitAddData ==
  /\ pane.form = "add" /\ "add" \notin pane.busy
  /\ Does([store EXCEPT !.filesLoading = TRUE], busied(pane, "add"), <<addCall(pane)>>)

onSubmitEditData ==
  /\ pane.form \in {"addSp", "edit"} /\ "edit" \notin pane.busy
  /\ \E n \in DisplayNames, on \in BOOLEAN :
       Does([store EXCEPT !.filesLoading = TRUE], busied(pane, "edit"),
            <<editCall(pane, n, on)>>)

\* The list's dialog and the folder's menu.
submitNewFolder ==
  /\ store.route = NoFolder
  /\ Does(busyPage(store), pane, <<Call("create", NewFolder)>>)

submitShownFolder ==
  /\ store.route # NoFolder /\ store.item # NoFolder /\ NoForm
  /\ Does(busyPage(store), paneAfter(busyPage(store)), <<Call("folder", store.item)>>)

\* deleteFolder is not awaited: the list is entered at once.
onDeleteFolder ==
  /\ store.route # NoFolder /\ store.item # NoFolder /\ NoForm
  /\ Does([busyPage(store) EXCEPT !.route = NoFolder], pristine(pane.no + 1),
          <<Call("drop", store.item), Call("items", NoFolder)>>)

----------------------------------------------------------------------------
(* Answers.                                                                *)

Rest(k) == SubSeq(pending, 1, k - 1) \o SubSeq(pending, k + 1, Len(pending))

\* A call ends, and others may follow it.
CallEnds(k, s, p, new, bad) ==
  /\ store' = s /\ pane' = p
  /\ pending' = Rest(k) \o new
  /\ collided' = (collided \/ bad)
  /\ UNCHANGED touches

\* The finally of a dialog's submission, in the view that made it.
ended(c, closes) ==
  IF c.then \in {"add", "edit"} /\ c.pane = pane.no
  THEN [pane EXCEPT !.busy = @ \ {c.then}, !.form = IF closes THEN "none" ELSE @]
  ELSE pane

idle(s) == [s EXCEPT !.loading = FALSE]
still(s) == [s EXCEPT !.filesLoading = FALSE]

DetailAnswer(k, c) ==
  /\ c.kind = "detail"
  /\ \/ /\ c.folder \in kept
        /\ CallEnds(k, [idle(store) EXCEPT !.item = c.folder], pane,
                    <<Call("users", c.folder)>>, FALSE)
     \/ CallEnds(k, idle(store), pane, <<>>, FALSE)
  /\ UNCHANGED <<disk, kept>>

\* loadFilterUsers swallows its failure.
UsersAnswer(k, c) ==
  /\ c.kind = "users"
  /\ LET s == [store EXCEPT !.filesLoading = TRUE]
     IN  CallEnds(k, s, pane, <<loadFilesInternal(c.folder, s, "none", 0)>>, FALSE)
  /\ UNCHANGED <<disk, kept>>

FilesAnswer(k, c) ==
  /\ c.kind = "list"
  /\ \E ok \in BOOLEAN :
       LET page == listFiles(c.folder, c.filter)
           s == IF ok THEN [still(store) EXCEPT !.rows = page.rows, !.count = page.count]
                ELSE still(store)
       IN  CallEnds(k, IF c.then = "sync" THEN idle(s) ELSE s, ended(c, TRUE), <<>>, ~ok)
  /\ UNCHANGED <<disk, kept>>

ItemsAnswer(k, c) ==
  /\ c.kind = "items"
  /\ \/ CallEnds(k, [idle(store) EXCEPT !.items = SetToSeq(kept), !.total = Cardinality(kept)],
             pane, <<>>, FALSE)
     \/ CallEnds(k, idle(store), pane, <<>>, FALSE)
  /\ UNCHANGED <<disk, kept>>

ItemAnswer(k, c) ==
  /\ c.kind = "item"
  /\ \E ok \in BOOLEAN :
       LET s == IF ok THEN [idle(store) EXCEPT !.item = c.folder] ELSE idle(store)
           t == [s EXCEPT !.filesLoading = TRUE]
       IN  IF c.then = "sync"
           THEN CallEnds(k, t, pane, <<loadFilesInternal(c.folder, t, "sync", 0)>>, ~ok)
           ELSE CallEnds(k, s, pane, <<>>, ~ok)
  /\ UNCHANGED <<disk, kept>>

PatchAnswerKept(k, c) ==
  /\ c.kind = "patch"
  /\ \/ /\ disk' = IF c.then = "name" THEN [disk EXCEPT ![c.value.id].name = c.value.name]
                   ELSE [disk EXCEPT ![c.value.id].on = c.value.on]
        /\ CallEnds(k, store, pane, <<>>, FALSE)
     \/ /\ CallEnds(k, store, pane, <<>>, FALSE)
        /\ UNCHANGED disk
  /\ UNCHANGED kept

\* A refused rename or switch puts back every row of the list it began with.
PatchAnswer(k, c) ==
  /\ c.kind = "patch"
  /\ \/ /\ disk' = IF c.then = "name" THEN [disk EXCEPT ![c.value.id].name = c.value.name]
                   ELSE [disk EXCEPT ![c.value.id].on = c.value.on]
        /\ CallEnds(k, store, pane, <<>>, FALSE)
     \/ /\ CallEnds(k, [store EXCEPT !.rows = c.back], pane, <<>>, FALSE)
        /\ UNCHANGED disk
  /\ UNCHANGED kept

\* A write of files, followed by the list unless it fails.
Written(k, c) ==
  LET s == [store EXCEPT !.filesLoading = TRUE]
  IN  CallEnds(k, s, pane, <<loadFilesInternal(c.folder, s, c.then, c.pane)>>, FALSE)

addFiles(k, c) ==
  /\ c.kind = "add"
  /\ \/ /\ disk[NewFile].home = NoFolder
        /\ disk' = [disk EXCEPT ![NewFile] = [home |-> c.folder, name |-> c.value.name,
                                              on |-> TRUE]]
        /\ Written(k, c)
     \/ CallEnds(k, still(store), ended(c, FALSE), <<>>, FALSE) /\ UNCHANGED disk
  /\ UNCHANGED kept

updateFile(k, c) ==
  /\ c.kind = "update"
  /\ \/ /\ disk' = [disk EXCEPT ![c.value.id].name = c.value.name,
                                ![c.value.id].on = c.value.on]
        /\ Written(k, c)
     \/ CallEnds(k, still(store), ended(c, FALSE), <<>>, FALSE) /\ UNCHANGED disk
  /\ UNCHANGED kept

\* Promise.all of the deletions: the first refusal ends the wait.
deleteFiles(k, c) ==
  /\ c.kind = "delete"
  /\ \/ \E i \in c.files :
          /\ \E ok \in BOOLEAN :
               /\ disk' = IF ok THEN [disk EXCEPT ![i].home = NoFolder] ELSE disk
               /\ store' = IF ok THEN store ELSE still(store)
               /\ pending' = [pending EXCEPT ![k].files = @ \ {i},
                                             ![k].failed = @ \/ ~ok]
               /\ collided' = (collided \/ ~ok)
          /\ UNCHANGED <<pane, touches>>
     \/ /\ c.files = {}
        /\ IF c.failed THEN CallEnds(k, store, pane, <<>>, FALSE) ELSE Written(k, c)
        /\ UNCHANGED disk
  /\ UNCHANGED kept

\* Three seconds, then the service takes the folder's files in again.
syncFolder(k, c) ==
  /\ c.kind = "sync"
  /\ \/ CallEnds(k, busyPage(store), paneAfter(busyPage(store)),
                 <<loadItem(c.folder, "sync")>>, FALSE)
     \/ CallEnds(k, idle(store), pane, <<>>, FALSE)
  /\ UNCHANGED <<disk, kept>>

createFolder(k, c) ==
  /\ c.kind = "create"
  /\ \/ /\ NewFolder \notin kept
        /\ kept' = kept \cup {NewFolder}
        /\ CallEnds(k, [idle(store) EXCEPT !.items = <<NewFolder>> \o @, !.total = @ + 1],
                pane, <<>>, FALSE)
     \/ CallEnds(k, idle(store), pane, <<>>, FALSE) /\ UNCHANGED kept
  /\ UNCHANGED disk

updateFolder(k, c) ==
  /\ c.kind = "folder"
  /\ \/ CallEnds(k, busyPage(store), paneAfter(busyPage(store)),
                 <<loadItem(c.folder, "folder")>>, FALSE)
     \/ CallEnds(k, idle(store), pane, <<>>, FALSE)
  /\ UNCHANGED <<disk, kept>>

deleteFolder(k, c) ==
  /\ c.kind = "drop"
  /\ \/ /\ kept' = kept \ {c.folder}
        /\ disk' = [i \in FileNumbers |->
                      IF disk[i].home = c.folder THEN [disk[i] EXCEPT !.home = NoFolder]
                      ELSE disk[i]]
        /\ CallEnds(k, [idle(store) EXCEPT !.items = SelectSeq(@, LAMBDA f : f # c.folder)],
                pane, <<>>, FALSE)
     \/ CallEnds(k, idle(store), pane, <<>>, FALSE) /\ UNCHANGED <<disk, kept>>

DataNext ==
  \/ \E f \in kept : loadDetail(f)
  \/ load \/ updateFilesFilter
  \/ selectAllChange \/ toggleItemSelection \/ onEditName \/ updateEditingValue
  \/ onSaveRename \/ onToggleLearning \/ onDeleteFile \/ onDeleteSelectedFiles \/ onSync
  \/ onAddData \/ onAddDataSp \/ onEditLearningData \/ onEditFileChange \/ closeForm
  \/ onSubmitAddData \/ onSubmitEditData
  \/ submitNewFolder \/ submitShownFolder \/ onDeleteFolder
  \/ \E k \in DOMAIN pending :
       LET c == pending[k]
       IN  \/ DetailAnswer(k, c) \/ UsersAnswer(k, c) \/ FilesAnswer(k, c)
           \/ ItemsAnswer(k, c) \/ ItemAnswer(k, c) \/ PatchAnswer(k, c)
           \/ addFiles(k, c) \/ updateFile(k, c) \/ deleteFiles(k, c)
           \/ syncFolder(k, c) \/ createFolder(k, c) \/ updateFolder(k, c)
           \/ deleteFolder(k, c)

DataSpec == DataInit /\ [][DataNext]_dataVars

----------------------------------------------------------------------------
(* Properties.                                                             *)

\* As long as no two calls overlapped and none of several or of the reloads
\* failed, the rows shown at rest are files of the folder shown, as the
\* service has them: loadDetail drops the earlier folder's rows, every write
\* is followed by the list, and a refused change is put back.
RowsAgree ==
  (pending = <<>> /\ ~collided /\ FolderShown) =>
    \A r \in Row : /\ disk[r.id].home = store.item
                   /\ disk[r.id].name = r.name
                   /\ disk[r.id].on = r.on

\* While names are edited, exactly the chosen files have an edited name, and
\* none has one otherwise: the eight handlers that choose, drop or rename
\* keep selectedFiles, isRenamingMode and editingNames together.
EditsAreChosen ==
  DOMAIN pane.edits = IF pane.renaming THEN IdsOf(pane.chosen) ELSE {}

\* Each flag that disables a form or covers a page has a call on its way that
\* will clear it, however calls overlap and fail: the covers of TrainingDataStore
\* (isLoading, isFilesLoading), the flags of the view that is shown.
ClearsPage(c) ==
  \/ c.kind \in {"detail", "items", "item", "sync", "create", "folder", "drop"}
  \/ c.kind = "list" /\ c.then = "sync"
ClearsFiles(c) == c.kind \in {"list", "add", "update"} \/ (c.kind = "delete" /\ ~c.failed)

PagesRecover ==
  /\ store.loading => \E k \in DOMAIN pending : ClearsPage(pending[k])
  /\ store.filesLoading => \E k \in DOMAIN pending : ClearsFiles(pending[k])
  /\ \A flag \in pane.busy : \E k \in DOMAIN pending :
       pending[k].then = flag /\ pending[k].pane = pane.no

\* A folder's page is true to the service and to its user's choice, and does not
\* stay covered (TrainingDataStore, LocalView and CloudView).
FilesAgree == RowsAgree /\ EditsAreChosen /\ PagesRecover
=============================================================================
