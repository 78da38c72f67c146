------------------------------ MODULE EditForms ------------------------------
(***************************************************************************)
(* The dialogs that add or edit one record: a user, an assistant, a        *)
(* category, a template, a library, an endpoint, a team, a team's member.  *)
(*                                                                         *)
(* A dialog is filled from the row its list loaded, which others may have  *)
(* changed since.  What it saves is built anew from its controls: some     *)
(* fields are left out, some always sent, and the service keeps a field    *)
(* that is left out or, here and there, one that is blank.  A dialog that  *)
(* is dismissed does not call its save back; the flag that keeps a save    *)
(* from being sent twice is one for all dialogs of a page.                 *)
(***************************************************************************)
EXTENDS Integers, Sequences, FiniteSets, Functions

CONSTANTS
  Endpoints,  \* the tenant's endpoints: their types
  Models,     \* the models of each type that are active
  Folders,    \* the folders an assistant may search: their types
  MaxIssued,  \* bound on the passwords that are issued
  MaxActs     \* bound on what the users do

Kinds == {"user", "assistant", "category", "template", "library", "endpoint", "group",
          "member"}

VARIABLES
  kind,     \* the page
  options,  \* the choices of the assistant's dialog were loaded
  stored,   \* the service's record, or the empty sequence
  form,     \* the open dialog
  busy,     \* the submitting flags of the page: "add", "edit"
  calls,    \* saves that go on
  saved,    \* the last save: what it made of the record
  pw,       \* passwords issued so far
  reveal,   \* the password on display, and the last that was; lost: one crossed another
  acts      \* what the users did so far

editVars == <<kind, options, stored, form, busy, calls, saved, pw, reveal, acts>>

NoForm == [mode |-> "none"]
Absent == <<>>
Blank == {"", " "}
Trim(t) == IF t \in Blank THEN "" ELSE t

----------------------------------------------------------------------------
(* The choices of the assistant's dialog.                                  *)

isChat(type) == type \in {"CHAT"}
getEndpointsByAssistantType(type) ==
  IF type = "SECURE" THEN {e \in DOMAIN Endpoints : Endpoints[e] = "LOCAL_SERVER"}
  ELSE {e \in DOMAIN Endpoints : isChat(Endpoints[e])}

\* What could not be loaded is offered as no choice at all.
serverApiOptions(type) ==
  IF options /\ type # "" THEN getEndpointsByAssistantType(type) ELSE {}
modelOptions(type, api) == IF api \in serverApiOptions(type) THEN Models[Endpoints[api]] ELSE {}
folderOptions == IF options THEN {x \in DOMAIN Folders : Folders[x] = "SAAS_GLOBAL"} ELSE {}

isEndpointOptionAvailable(type, api) == api \in serverApiOptions(type)

firstWhere(ends, types) ==
  IF \E i \in DOMAIN ends : Endpoints[ends[i].id] \in types
  THEN ends[CHOOSE i \in DOMAIN ends :
              /\ Endpoints[ends[i].id] \in types
              /\ \A j \in 1..i - 1 : Endpoints[ends[j].id] \notin types]
  ELSE ends[1]
getEditableEndpoint(s) ==
  firstWhere(s.endpoints, IF s.type = "SECURE" THEN {"LOCAL_SERVER"} ELSE {"CHAT"})

----------------------------------------------------------------------------
(* Rows, and what a dialog shows of them.                                  *)

normalizeApiRoleToUi(role) ==
  CASE role = "ADMIN" -> "admin" [] role = "SYSTEM" -> "system" [] OTHER -> "user"
toApiRole(role) == IF role = "admin" THEN "ADMIN" ELSE "USER"

springUserRowToUserApiItem(s) ==
  [name |-> Trim(s.name), role |-> normalizeApiRoleToUi(s.role), loginKey |-> s.loginKey]

\* An account of the system passes for an ordinary one.
onEditUser(s) ==
  LET row == springUserRowToUserApiItem(s)
  IN  [name |-> row.name, loginKey |-> row.loginKey, reset |-> FALSE,
       role |-> IF row.role = "system" THEN "user" ELSE row.role]
onAddUser == [name |-> "", loginKey |-> "", role |-> "user", reset |-> FALSE]

onEditAssistant(s) ==
  LET end == getEditableEndpoint(s)
      api == IF isEndpointOptionAvailable(s.type, end.id) THEN end.id ELSE ""
  IN  [name |-> s.name, description |-> s.description, type |-> s.type, api |-> api,
       model |-> IF api = "" THEN "" ELSE end.model, categories |-> s.categories,
       folder |-> IF s.type = "SAAS_RAG" THEN s.index ELSE ""]
onAddAssistant == [name |-> "", description |-> "", type |-> "", api |-> "", model |-> "",
                   categories |-> {}, folder |-> ""]

onEditCategory(s) == [name |-> s.name, description |-> s.description]
onAddCategory == [name |-> "", description |-> ""]
onEditTemplate(s) == [name |-> s.name, text |-> s.text, description |-> s.description]
onAddTemplate == [name |-> "", text |-> "", description |-> ""]
onEditSettings(s) == [name |-> s.name, groups |-> s.groups]
\* The service never tells an endpoint's key.
onOpenEditApiDialog(s) == [name |-> s.name, url |-> s.url, key |-> ""]
onOpenAddApiDialog == [name |-> "", url |-> "", key |-> ""]
mapGroupDetail(s) == [name |-> s.name]
openEditDialog(s) == mapGroupDetail(s)
mapGroupMemberUser(s) == [admin |-> s.admin]
onEditRole(s) == mapGroupMemberUser(s)

prefilled(s) ==
  CASE kind = "user" -> onEditUser(s)
    [] kind = "assistant" -> onEditAssistant(s)
    [] kind = "category" -> onEditCategory(s)
    [] kind = "template" -> onEditTemplate(s)
    [] kind = "library" -> onEditSettings(s)
    [] kind = "endpoint" -> onOpenEditApiDialog(s)
    [] kind = "group" -> openEditDialog(s)
    [] OTHER -> onEditRole(s)

emptied ==
  CASE kind = "user" -> onAddUser
    [] kind = "assistant" -> onAddAssistant
    [] kind = "category" -> onAddCategory
    [] kind = "template" -> onAddTemplate
    [] OTHER -> onOpenAddApiDialog

----------------------------------------------------------------------------
(* Validation.                                                             *)

TextFields == {"name", "description", "text", "url"}

userForm == {"name", "role"}
assistantForm == {"name", "type", "api", "model"}
categoryForm == {"name"}
templateForm == {"name", "text"}
required ==
  CASE kind = "user" -> userForm
    [] kind = "assistant" -> assistantForm
    [] kind = "category" -> categoryForm
    [] kind = "template" -> templateForm
    [] kind = "group" -> {"name"}
    [] OTHER -> {}

checkFolderWithServerCloud(v) == v.type = "SAAS_RAG" => v.folder # ""

invalid(v) ==
  {c \in DOMAIN v \cap required : v[c] = ""}
  \cup {c \in DOMAIN v \cap TextFields : required # {} /\ v[c] = "long"}
  \cup {c \in DOMAIN v \cap {"folder"} : ~checkFolderWithServerCloud(v)}

\* The errors on display.
resolveControlError(c) == c \in form.touched /\ c \in invalid(form.vals)
userAddErrors == {c \in {"name", "loginKey"} : resolveControlError(c)}
userEditErrors == {c \in {"name", "loginKey"} : resolveControlError(c)}
folderError ==
  "folder" \in invalid(form.vals) /\ (form.touched \cap {"folder", "type"}) # {}
assistantEditErrors ==
  {c \in {"name", "type", "api", "model", "categories", "description"} : resolveControlError(c)}
  \cup {c \in {"folder"} : folderError}
assistantAddErrors ==
  {c \in {"name", "type", "api", "model", "categories", "description"} : resolveControlError(c)}
  \cup {c \in {"folder"} : folderError}
categoryEditErrors == {c \in {"name", "description"} : resolveControlError(c)}
categoryAddErrors == {c \in {"name", "description"} : resolveControlError(c)}
templateErrors == {c \in {"name", "text", "description"} : resolveControlError(c)}
groupErrors == {c \in {"name"} : resolveControlError(c)}

errors ==
  CASE kind = "user" -> IF form.mode = "add" THEN userAddErrors ELSE userEditErrors
    [] kind = "assistant" -> IF form.mode = "add" THEN assistantAddErrors ELSE assistantEditErrors
    [] kind = "category" -> IF form.mode = "add" THEN categoryAddErrors ELSE categoryEditErrors
    [] kind = "template" -> templateErrors
    [] OTHER -> groupErrors

editApiConfirmDisabled == \E c \in DOMAIN form.vals : form.vals[c] = ""
editTemplateConfirmDisabled == invalid(form.vals) # {}

----------------------------------------------------------------------------
(* The record, and the dialogs.                                            *)

FirstRecords ==
  CASE kind = "user" -> [name : {"a"}, role : {"USER", "SYSTEM"}, loginKey : {"", "k"}]
    [] kind = "assistant" ->
         {s \in [name : {"a"}, description : {"d"}, type : {"SECURE", "SAAS_CHAT", "SAAS_RAG"},
                 index : {"", "f1"}, categories : {{"x"}},
                 endpoints : {<<[id |-> "s1", model |-> "m0"]>>, <<[id |-> "c1", model |-> "m1"]>>,
                              <<[id |-> "c1", model |-> "m1"], [id |-> "c2", model |-> "m2"]>>}] :
            /\ (s.type = "SAAS_RAG") = (s.index # "")
            /\ (s.type = "SECURE") = (s.endpoints[1].id = "s1")
            /\ (s.type = "SAAS_CHAT") = (Len(s.endpoints) = 2)}
    [] kind = "category" -> [name : {"a"}, description : {"d", "null"}]
    [] kind = "template" -> [name : {"a"}, text : {"p"}, description : {"d"}]
    [] kind = "library" -> [name : {"a"}, groups : {{"x"}}]
    [] kind = "endpoint" -> [name : {"a"}, url : {"u"}, key : {"k0"}]
    [] kind = "group" -> [name : {"a"}]
    [] OTHER -> [admin : BOOLEAN]

Addable == {"user", "assistant", "category", "template", "endpoint"}

EditInit ==
  /\ kind \in Kinds /\ options \in BOOLEAN /\ (kind # "assistant" => options)
  /\ stored \in FirstRecords \cup (IF kind \in Addable THEN {Absent} ELSE {})
  /\ form = NoForm /\ busy = {} /\ calls = {} /\ saved = <<>>
  /\ pw = 0 /\ reveal = [shown |-> 0, last |-> 0, lost |-> FALSE] /\ acts = 0

Act == acts < MaxActs /\ acts' = acts + 1

\* Another administrator changes the record.
Changes(f) ==
  CASE f = "name" -> {"z"} [] f = "description" -> {"e"} [] f = "role" -> {"USER", "ADMIN"}
    [] f = "endpoints" -> {<<[id |-> "s1", model |-> "m0"]>>, <<[id |-> "c2", model |-> "m2"]>>}
    [] f = "groups" -> {{}, {"x", "y"}} [] f = "admin" -> BOOLEAN
    [] OTHER -> {stored[f]}
Elsewhere ==
  /\ form # NoForm /\ stored # Absent /\ Act
  /\ \E f \in DOMAIN stored : \E v \in Changes(f) :
       /\ f = "endpoints" => (v[1].id = "s1") = (stored.type = "SECURE")
       /\ v # stored[f] /\ stored' = [stored EXCEPT ![f] = v]
  /\ UNCHANGED <<kind, options, form, busy, calls, saved, pw, reveal>>

\* The flag is cleared, a save of an earlier dialog may go on; not so for the
\* endpoint's, and a library's dialog has none.
Open(mode, vals) ==
  /\ form = NoForm /\ Act
  /\ form' = [mode |-> mode, vals |-> vals, row |-> stored, no |-> acts + 1, refused |-> FALSE,
              touched |-> {}]
  /\ busy' = IF kind = "endpoint" THEN busy ELSE busy \ {mode}
  /\ UNCHANGED <<kind, options, stored, calls, saved, pw, reveal>>
OpenAdd == stored = Absent /\ Open("add", emptied)
OpenEdit == stored # Absent /\ Open("edit", prefilled(stored))

Dismiss ==
  /\ form # NoForm /\ Act
  /\ form' = NoForm
  /\ UNCHANGED <<kind, options, stored, busy, calls, saved, pw, reveal>>

Choices(c, v) ==
  CASE c = "name" -> {"", " ", "b", "long"} [] c = "description" -> {"", " ", "e"}
    [] c = "text" -> {"", " ", "q"} [] c = "url" -> {"", "w"} [] c = "loginKey" -> {"new"}
    [] c = "role" -> {"user", "admin"} [] c \in {"reset", "admin"} -> BOOLEAN
    [] c \in {"categories", "groups"} -> {{}, {"y"}} [] c = "key" -> {"k9"}
    [] c = "type" -> {"SECURE", "SAAS_CHAT", "SAAS_RAG"} [] c = "api" -> serverApiOptions(v.type)
    [] c = "model" -> IF v.type = "SECURE" THEN {"", "m0"} ELSE modelOptions(v.type, v.api)
    [] OTHER -> IF v.type = "SAAS_RAG" /\ v.api # "" THEN folderOptions ELSE {}

\* The controls that go back to blank when one is set.
cascade(c) ==
  CASE c = "type" -> {"api", "model", "folder"} [] c = "api" -> {"model"} [] OTHER -> {}

setControl(c, value) ==
  [form EXCEPT !.vals = [x \in DOMAIN @ |-> IF x = c THEN value
                                            ELSE IF x \in cascade(c) THEN "" ELSE @[x]],
               !.touched = (@ \ cascade(c)) \cup {c}, !.refused = FALSE]

Settable(cs) ==
  /\ form # NoForm /\ Act
  /\ \E c \in DOMAIN form.vals \cap cs : \E value \in Choices(c, form.vals) :
       value # form.vals[c] /\ form' = setControl(c, value)
  /\ UNCHANGED <<kind, options, stored, busy, calls, saved, pw, reveal>>

regenerateLoginKey == kind = "user" /\ Settable({"loginKey"})
setUserControl == kind = "user" /\ Settable({"name", "role", "reset"})
setControlValue == kind = "assistant" /\ Settable(DOMAIN onAddAssistant)
setCategoryControl == kind = "category" /\ Settable({"name", "description"})
setTemplateControl == kind = "template" /\ Settable({"name", "text", "description"})
onValueChange == kind = "library" /\ Settable({"name", "groups"})
generateApiKey == kind = "endpoint" /\ Settable({"key"})
updateField == kind = "endpoint" /\ Settable({"name", "url"})
setGroupName == kind = "group" /\ Settable({"name"})
changeRole == kind = "member" /\ Settable({"admin"})

----------------------------------------------------------------------------
(* What is sent.                                                           *)

submitAddUser(v) ==
  [name |-> Trim(v.name), role |-> toApiRole(v.role), loginKey |-> v.loginKey]

submitEditUser(v) ==
  LET role == IF form.row.role # "SYSTEM" \/ v.role = "admin" THEN {"role"} ELSE {}
      key == IF v.loginKey = "" THEN {} ELSE {"loginKey"}
  IN  Restrict(submitAddUser(v), {"name"} \cup role \cup key)

mapFormToApi(v) ==
  [type |-> v.type, name |-> v.name, description |-> v.description, categories |-> v.categories,
   index |-> IF v.type = "SAAS_RAG" THEN v.folder ELSE "",
   endpoints |-> <<[id |-> v.api, model |-> v.model]>>]

trimmed(v) == [c \in DOMAIN v |-> Trim(v[c])]
submitCategory(v) == trimmed(v)
submitTemplate(v) == trimmed(v)
saveEditSettings(v) == v
updateEndpoint(v) == v
submitGroup(v) == trimmed(v)
submitEditRole(v) == v

payload(v) ==
  CASE kind = "user" -> IF form.mode = "add" THEN submitAddUser(v) ELSE submitEditUser(v)
    [] kind = "assistant" -> mapFormToApi(v)
    [] kind = "category" -> submitCategory(v)
    [] kind = "template" -> submitTemplate(v)
    [] kind = "library" -> saveEditSettings(v)
    [] kind = "endpoint" -> updateEndpoint(v)
    [] kind = "group" -> submitGroup(v)
    [] OTHER -> submitEditRole(v)

\* A description that is null cannot be trimmed: the save fails before it is sent.
throws(v) == kind = "category" /\ v.description = "null"

confirmable ==
  /\ kind = "endpoint" => ~editApiConfirmDisabled
  /\ kind = "template" => ~editTemplateConfirmDisabled

Submit ==
  /\ form # NoForm /\ confirmable
  /\ kind # "library" => form.mode \notin busy
  /\ kind = "library" => \A c \in calls : c.no # form.no
  /\ IF invalid(form.vals) # {}
     THEN /\ form' = [form EXCEPT !.touched = DOMAIN form.vals, !.refused = TRUE]
          /\ UNCHANGED <<busy, calls, reveal>>
     ELSE /\ ~throws(form.vals)
          /\ calls' = calls \cup {[no |-> form.no, mode |-> form.mode, sent |-> payload(form.vals),
                                   vals |-> form.vals, row |-> form.row,
                                   served |-> FALSE, pw |-> 0]}
          /\ busy' = busy \cup {form.mode}
          /\ reveal' = [reveal EXCEPT !.lost = @ \/ calls # {}]
          /\ UNCHANGED form
  /\ UNCHANGED <<kind, options, stored, saved, pw, acts>>

----------------------------------------------------------------------------
(* The service.                                                            *)

\* What a blank value leaves as it was.
keepsBlank(f, value) == kind = "assistant" /\ f = "description" /\ value \in Blank
refuses(sent) == kind \in {"assistant", "category", "library"} /\ sent.name \in Blank

updated(s, sent) ==
  [f \in DOMAIN s |-> IF f \in DOMAIN sent /\ ~keepsBlank(f, sent[f]) THEN sent[f] ELSE s[f]]

Serve ==
  \E c \in calls :
    LET next == IF c.mode = "add" THEN c.sent ELSE updated(stored, c.sent)
        issues == kind = "user" /\ (c.mode = "add" \/ c.vals.reset)
    IN  /\ ~c.served /\ ~refuses(c.sent) /\ (issues => pw < MaxIssued)
        /\ c.mode = "add" => stored = Absent
        /\ stored' = next
        /\ saved' = [before |-> stored, after |-> next, row |-> c.row, vals |-> c.vals]
        /\ pw' = IF issues THEN pw + 1 ELSE pw
        /\ calls' = (calls \ {c}) \cup
                    {[c EXCEPT !.served = TRUE, !.pw = IF issues THEN pw + 1 ELSE 0]}
        /\ UNCHANGED <<kind, options, form, busy, reveal, acts>>

openPasswordRevealDialog(no) == [reveal EXCEPT !.shown = no, !.last = no]

\* The dialog closes, if it is still there.
Answered ==
  \E c \in calls :
    /\ c.served
    /\ calls' = calls \ {c} /\ busy' = busy \ {c.mode}
    /\ form' = IF form # NoForm /\ form.no = c.no THEN NoForm ELSE form
    /\ reveal' = IF c.pw = 0 THEN reveal ELSE openPasswordRevealDialog(c.pw)
    /\ UNCHANGED <<kind, options, stored, saved, pw, acts>>

\* The save was refused, or its answer lost: the dialog stays open.
Failed ==
  \E c \in calls :
    /\ calls' = calls \ {c} /\ busy' = busy \ {c.mode}
    /\ reveal' = [reveal EXCEPT !.lost = @ \/ c.served]
    /\ UNCHANGED <<kind, options, stored, form, saved, pw, acts>>

closeReveal ==
  /\ reveal.shown # 0 /\ reveal' = [reveal EXCEPT !.shown = 0]
  /\ UNCHANGED <<kind, options, stored, form, busy, calls, saved, pw, acts>>

EditNext ==
  \/ Elsewhere \/ OpenAdd \/ OpenEdit \/ Dismiss
  \/ regenerateLoginKey \/ setUserControl \/ setControlValue \/ setCategoryControl
  \/ setTemplateControl \/ onValueChange \/ generateApiKey \/ updateField \/ setGroupName
  \/ changeRole \/ Submit \/ Serve \/ Answered \/ Failed \/ closeReveal

EditSpec == EditInit /\ [][EditNext]_editVars

----------------------------------------------------------------------------

Controls(f) ==
  CASE f = "index" -> {"type", "folder"} [] f = "endpoints" -> {"api", "model"} [] OTHER -> {f}

\* Whether the user changed what the dialog showed at first.
Changed(f) ==
  saved.row = Absent \/ \E c \in Controls(f) : saved.vals[c] # prefilled(saved.row)[c]

\* Of an assistant's endpoints, the dialog edits one.
Edited(s, f) == IF f = "endpoints" THEN <<getEditableEndpoint(s)>> ELSE s[f]

Meant(f) ==
  LET v == saved.vals
  IN  CASE f = "index" -> saved.after.index = IF v.type = "SAAS_RAG" THEN v.folder ELSE ""
        [] f = "endpoints" -> saved.after.endpoints = <<[id |-> v.api, model |-> v.model]>>
        [] f = "role" -> normalizeApiRoleToUi(saved.after.role) \in {v.role} \cup
                           (IF v.role = "user" THEN {"system"} ELSE {})
        [] f \in TextFields -> Trim(saved.after[f]) = Trim(v[f])
        [] OTHER -> saved.after[f] = v[f]

\* A saved dialog changes what its user changed, to what the dialog showed, and
\* leaves every other field as it is, or as it was when the dialog was opened: an
\* account of the system stays one, an assistant keeps its folder and endpoint.  A
\* description may not be cleared (UserList, AssistantTab, CategoryTab, TemplateList,
\* ContentTab, ApiTab, GroupDetail).
EditedOnly ==
  saved # <<>> =>
    \A f \in DOMAIN saved.after :
      IF Changed(f)
      THEN Meant(f) \/ (keepsBlank(f, saved.vals[f]) /\ saved.after[f] = saved.before[f])
      ELSE Edited(saved.after, f) \in {Edited(saved.before, f), Edited(saved.row, f)}

\* A password that was issued was shown, even if its dialog had been dismissed: unless
\* saves crossed each other or an answer was lost, the last one on display is the last
\* one issued (UserListComponent.openPasswordRevealDialog).
PasswordShown == calls = {} /\ ~reveal.lost => reveal.last = pw

\* A dialog that refuses to save says why (resolveControlError, the dialogs' errors).
RefusalExplained == form # NoForm /\ form.refused => errors # {}
=============================================================================
