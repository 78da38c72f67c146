----------------------------- MODULE FolderForm -----------------------------
(***************************************************************************)
(* The dialog that creates or edits a folder of training data.             *)
(*                                                                         *)
(* TrainingFolderModalService is one for the whole application: what it    *)
(* fetched for a dialog that was closed reaches the dialog that is open.   *)
(* Its isLoading is cleared by whichever call ends first.  The groups come *)
(* a page at a time, as offsets into a list that may shrink.               *)
(***************************************************************************)
EXTENDS Integers, Sequences, FiniteSets

CONSTANTS
  Servers,    \* the endpoints of each type: LOCAL_SERVER, VDB, EMBEDDING
  Kept,       \* the folders that can be edited: their type and endpoints
  Teams,      \* the tenant's groups, in the order they are listed
  MaxDone     \* bound on what the user does

Types == {"LOCAL", "SAAS_GLOBAL"}
NoName == "none"
In(q) == {q[i] : i \in DOMAIN q}

ASSUME FolderAssumption ==
  /\ \A t \in {"LOCAL_SERVER", "VDB", "EMBEDDING"} :
       Servers[t] \in Seq(STRING) /\ NoName \notin In(Servers[t])
  /\ \A f \in DOMAIN Kept : Kept[f].type \in Types /\ Kept[f].ids \in Seq(STRING)
  /\ NoName \notin DOMAIN Kept
  /\ Teams \in Seq(STRING)
  /\ MaxDone \in Nat

VARIABLES
  sheet,   \* the open form; no: which one it is
  modal,   \* TrainingFolderModalService
  asks,    \* its calls, and the submission, that were not answered
  teams,   \* the service: the groups
  sent,    \* the last payload, or the empty sequence
  mixed,   \* a call of an earlier form was out, or a group left
  done     \* what the user did so far

formVars == <<sheet, modal, asks, teams, sent, mixed, done>>

NoSheet == [kind |-> "none", folder |-> NoName, server |-> NoName, endpoint |-> NoName,
            filled |-> FALSE, saving |-> FALSE, no |-> 0]

reset == [loading |-> FALSE, options |-> <<>>, none |-> FALSE, selected |-> <<>>, groups |-> {}]

FormInit ==
  /\ sheet = NoSheet /\ modal = reset /\ asks = {}
  /\ teams = Teams /\ sent = <<>> /\ mixed = FALSE /\ done = 0

----------------------------------------------------------------------------
(* training-folder-form.helper                                             *)

resolveInitialEndpointId(options, existing) ==
  CASE options = <<>> -> NoName
    [] options # <<>> /\ existing \in In(options) -> existing
    [] OTHER -> options[1]

\* The first of the existing ids that is among the options.
found(options, existing) ==
  IF \E i \in DOMAIN existing : existing[i] \in In(options)
  THEN existing[CHOOSE i \in DOMAIN existing :
                  existing[i] \in In(options) /\ \A j \in 1..i - 1 : existing[j] \notin In(options)]
  ELSE NoName

firstSaasGlobalEndpointIds(vdb, embedding, existing) ==
  IF vdb = <<>> \/ embedding = <<>> THEN <<>>
  ELSE <<vdb[1], embedding[1]>>

resolveSaasGlobalEndpointIds(vdb, embedding, existing) ==
  IF vdb = <<>> \/ embedding = <<>> THEN <<>>
  ELSE <<resolveInitialEndpointId(vdb, found(vdb, existing)),
         resolveInitialEndpointId(embedding, found(embedding, existing))>>

buildIndexPayload(f) ==
  [kind |-> f.kind, folder |-> f.folder, type |-> f.server, groups |-> modal.groups,
   ids |-> IF f.server = "SAAS_GLOBAL" THEN modal.selected ELSE <<f.endpoint>>,
   alone |-> ~mixed]

----------------------------------------------------------------------------
(* What the user does.                                                     *)

Doing == done < MaxDone /\ done' = done + 1

GroupsCall == [kind |-> "groups", type |-> NoName, existing |-> <<>>, folder |-> sheet'.folder,
               no |-> sheet'.no, page |-> 1, got |-> {}]
EndsCall(type, existing, s) ==
  [kind |-> "ends", type |-> type, existing |-> existing, folder |-> s.folder,
   no |-> s.no, page |-> 0, got |-> {}]

\* initializeGroups of a dialog that opens.
opened == /\ modal' = [reset EXCEPT !.loading = TRUE]
          /\ asks' = asks \cup {GroupsCall}
          /\ mixed' = (mixed \/ asks # {})
          /\ UNCHANGED <<teams, sent>>

openCreateModal ==
  /\ Doing /\ sheet.kind = "none"
  /\ sheet' = [NoSheet EXCEPT !.kind = "create", !.no = done + 1]
  /\ opened

\* The server's type of a folder that is edited cannot be changed.
openEditModal(f) ==
  /\ Doing /\ sheet.kind = "none"
  /\ sheet' = [NoSheet EXCEPT !.kind = "edit", !.folder = f, !.server = Kept[f].type,
                              !.filled = TRUE, !.no = done + 1]
  /\ opened

closeModal ==
  /\ Doing /\ sheet.kind # "none"
  /\ sheet' = NoSheet
  /\ UNCHANGED <<modal, asks, teams, sent, mixed>>

onServerTypeChange(type) ==
  /\ Doing /\ sheet.kind = "create" /\ type # sheet.server
  /\ sheet' = [sheet EXCEPT !.server = type]
  /\ modal' = [modal EXCEPT !.loading = TRUE]
  /\ asks' = asks \cup {EndsCall(type, <<>>, sheet)}
  /\ UNCHANGED <<teams, sent, mixed>>

\* The other fields, which are required.
Fill ==
  /\ sheet.kind # "none" /\ ~sheet.filled
  /\ sheet' = [sheet EXCEPT !.filled = TRUE]
  /\ UNCHANGED <<modal, asks, teams, sent, mixed, done>>

PickEndpoint ==
  /\ Doing /\ sheet.server = "LOCAL"
  /\ \E e \in In(modal.options) : sheet' = [sheet EXCEPT !.endpoint = e]
  /\ UNCHANGED <<modal, asks, teams, sent, mixed>>

\* setLocalOnlyValidators: endpointId is required of a local server.
isFolderValid == sheet.filled /\ (sheet.server = "LOCAL" => sheet.endpoint # NoName) /\ ~modal.none

canSubmitAnyFolder ==
  /\ sheet.kind = "create"
  /\ ~modal.loading /\ ~modal.none /\ ~sheet.saving
  /\ sheet.filled /\ sheet.server # NoName
  /\ sheet.server = "LOCAL" => sheet.endpoint # NoName

canSubmitCreateFolder ==
  /\ sheet.kind = "create"
  /\ ~modal.loading /\ ~modal.none /\ ~sheet.saving
  /\ sheet.filled /\ sheet.server # NoName
  /\ sheet.server = "SAAS_GLOBAL" => Len(modal.selected) = 2
  /\ sheet.server = "LOCAL" => sheet.endpoint # NoName

canSubmitEditFolder ==
  /\ sheet.kind = "edit"
  /\ ~modal.loading /\ ~modal.none /\ ~sheet.saving
  /\ sheet.filled
  /\ sheet.server = "SAAS_GLOBAL" => Len(modal.selected) = 2
  /\ sheet.server = "LOCAL" => sheet.endpoint # NoName

submitFolder ==
  /\ sent' = <<buildIndexPayload(sheet)>>
  /\ sheet' = [sheet EXCEPT !.saving = TRUE]
  /\ asks' = asks \cup {[EndsCall(NoName, <<>>, sheet) EXCEPT !.kind = "save"]}
  /\ UNCHANGED <<modal, teams, mixed, done>>

submitCreateFolder == isFolderValid /\ canSubmitCreateFolder /\ submitFolder
submitEditFolder == isFolderValid /\ canSubmitEditFolder /\ submitFolder

\* Somebody removes a group.
GroupLeaves ==
  /\ Len(teams) = Len(Teams)
  /\ \E i \in DOMAIN teams :
       teams' = SubSeq(teams, 1, i - 1) \o SubSeq(teams, i + 1, Len(teams))
  /\ mixed' = TRUE
  /\ UNCHANGED <<sheet, modal, asks, sent, done>>

----------------------------------------------------------------------------
(* Answers.                                                                *)

\* normalizeGroupListPage: a page of one group, and how many there are.
groupPage(n) == IF n \in DOMAIN teams THEN {teams[n]} ELSE {}

\* An edit's endpoints are asked for once its groups are there.
groupsKnown(c, ids) ==
  /\ modal' = [modal EXCEPT !.groups = ids, !.loading = (c.folder # NoName)]
  /\ asks' = (asks \ {c}) \cup
       (IF c.folder = NoName THEN {}
        ELSE {[c EXCEPT !.kind = "ends", !.type = Kept[c.folder].type, !.page = 0, !.got = {},
                        !.existing = Kept[c.folder].ids]})

\* listAllGroupIds asks on while it has fewer than the latest total.
GroupsAnswer(c) ==
  /\ c.kind = "groups"
  /\ LET ids == c.got \cup groupPage(c.page)
     IN  IF Cardinality(ids) < Len(teams)
         THEN /\ asks' = (asks \ {c}) \cup {[c EXCEPT !.page = @ + 1, !.got = ids]}
              /\ UNCHANGED modal
         ELSE groupsKnown(c, ids)
  /\ UNCHANGED <<sheet, teams, sent, mixed, done>>

\* finally; what awaited the answer does not go on.
CallFails(c) ==
  /\ c.kind # "save"
  /\ asks' = asks \ {c}
  /\ modal' = [modal EXCEPT !.loading = FALSE]
  /\ UNCHANGED <<sheet, teams, sent, mixed, done>>

\* A type may have no endpoint.
listEndpointsByType(type) == {Servers[type], <<>>}

endpointsKnown(c, options, ids, none, id) ==
  /\ modal' = [modal EXCEPT !.loading = FALSE, !.options = options, !.selected = ids,
                            !.none = none]
  /\ asks' = asks \ {c}
  \* A create writes the form it was made for; an edit, the page's form.
  /\ sheet' = IF sheet.no = c.no \/ (c.folder # NoName /\ sheet.folder = c.folder)
              THEN [sheet EXCEPT !.endpoint =
                      IF c.folder # NoName /\ c.type # "LOCAL" THEN @ ELSE id]
              ELSE sheet

LocalAnswer(c) ==
  /\ c.kind = "ends" /\ c.type = "LOCAL"
  /\ \E options \in listEndpointsByType("LOCAL_SERVER") :
       LET e == resolveInitialEndpointId(options, IF c.existing = <<>> THEN NoName ELSE c.existing[1])
       IN  endpointsKnown(c, options, IF e = NoName THEN <<>> ELSE <<e>>, options = <<>>, e)
  /\ UNCHANGED <<teams, sent, mixed, done>>

SaasAnswer(c) ==
  /\ c.kind = "ends" /\ c.type = "SAAS_GLOBAL"
  /\ \E vdb \in listEndpointsByType("VDB"), emb \in listEndpointsByType("EMBEDDING") :
       LET ids == resolveSaasGlobalEndpointIds(vdb, emb, c.existing)
       IN  endpointsKnown(c, <<>>, ids, ids = <<>>, NoName)
  /\ UNCHANGED <<teams, sent, mixed, done>>

\* The store swallows a failure: the dialogs are closed either way.
SaveAnswer(c) ==
  /\ c.kind = "save"
  /\ asks' = asks \ {c}
  /\ sheet' = NoSheet
  /\ UNCHANGED <<modal, teams, sent, mixed, done>>

FormNext ==
  \/ openCreateModal
  \/ \E f \in DOMAIN Kept : openEditModal(f)
  \/ closeModal
  \/ \E t \in Types : onServerTypeChange(t)
  \/ Fill \/ PickEndpoint
  \/ submitCreateFolder \/ submitEditFolder
  \/ GroupLeaves
  \/ \E c \in asks : GroupsAnswer(c) \/ CallFails(c) \/ LocalAnswer(c) \/ SaasAnswer(c)
                     \/ SaveAnswer(c)

FormSpec == FormInit /\ [][FormNext]_formVars

----------------------------------------------------------------------------
(* Properties.                                                             *)

Payload == IF sent = <<>> THEN {} ELSE {sent[1]}

\* Whatever was fetched for whichever dialog, and however its answers were
\* ordered, a cloud folder is sent with a vector store and an embedding
\* endpoint, in this order, and a local one with one local server.
SubmittedOfType ==
  \A p \in Payload :
    IF p.type = "LOCAL" THEN Len(p.ids) = 1 /\ In(p.ids) \subseteq In(Servers["LOCAL_SERVER"])
    ELSE /\ Len(p.ids) = 2
         /\ p.ids[1] \in In(Servers["VDB"])
         /\ p.ids[2] \in In(Servers["EMBEDDING"])

\* An edit keeps the folder's endpoints and sends every group, unless a call
\* of an earlier dialog was still out when it opened, or a group left.
EditKeepsFolder ==
  \A p \in Payload :
    (p.kind = "edit" /\ p.alone) =>
      /\ p.type = "SAAS_GLOBAL" => p.ids = Kept[p.folder].ids
      /\ p.groups = In(Teams)
=============================================================================
