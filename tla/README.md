# A verification project for the naw server

The repository is a multi-tenant chat service over large language models: a
FastAPI server (`backend/app`), an Angular client (`frontend-angular`), a
prototype React client (`frontend`) and Terraform for its AWS environment
(`infra`). This directory holds TLA+ models of the server's and the clients' own
logic, the TLC configurations that check them on small instances, and TLAPS
proofs of what matters most for every value of the constants. Paths below are
relative to the repository's root; services are in `backend/app/services`, the
rest of the server in `backend/app/core`, `models` and `repositories`, the
Angular client in `frontend-angular/src/app`.

## 1. Inventory

### The server

A set of asyncio processes over PostgreSQL, Redis, S3 and SQS. A service method
runs in the request's coroutine and database session (READ COMMITTED,
`expire_on_commit=False`); every `await` lets other requests run, other processes
always do, and the only locks are PostgreSQL's. "Hard" below is what a unit test
would hardly reach.

| component | state | operations | hard behaviour | what makes it correct |
|---|---|---|---|---|
| chat messages and streaming (`message_service`) | messages, contents, attachments, libraries, token usage; the locals of a running generator | create, delete, stream, regenerate, rate | four sessions in a `finally` while rows disappear; disconnects, cancellation, crashes; overlapping regenerations | answers stored once, billed, announced only when stored; libraries beside their answers |
| library stream router (`core/library_stream_router`) | buffer and section | feed, flush | markers that straddle chunks | the parts sent add up to the text that is stored |
| user import (`user_import_*`) | jobs, S3 objects, SQS messages, users | upload, poll, import, acknowledge | three stores without a common transaction; redelivery, crashes, several listeners | no accepted job lost, none imported twice, files kept until used |
| rooms (`room_service`) | rooms, pins, feedback | create, rename, pin, rate, delete | deletion cascades under running streams | what hangs below goes, and only that |
| libraries, tags, shares (`library_service`, `library_tag_service`, `share_service`) | rows and their links | edit, delete, tag, share | links are replaced by DELETE and INSERT, which may overlap | an object is linked to what was saved last |
| llm chat, llm embedding (`llm_chat_service`, `llm_embedding_service`) | token usage, libraries | stream, embed | as for chat messages | usage recorded |
| credit quota, token credits (`core/credit_quota`, `core/token_usage_credit`, `credit_usage_service`) | sums over token usage | check, sum, report | check, then act, concurrently | overshoot is bounded by what is in flight |
| billing cycle (`core/billing_cycle`) | none | current and next boundary | month ends | boundaries partition time |
| authentication, users (`auth_service`, `user_service`, `core/session_store`) | users, password histories, sessions in Redis, the cookie | log in by password or key, reset, change, log out, delete | steps of two requests between read and write; expiry between read and extension | a deleted session stays dead; issued passwords must be changed; old ones stay unusable |
| files (`file_service`, `core/file_creation`, `core/file_storage`) | file rows, stored objects | create, replace, delete, hide, learn, patch | two stores, partial failure, cascades | a served row has its object, an object has its row |
| indexes (`index_service`) | indexes, learning marks | create, change type, delete, learn | count then insert; partial learning | the limit is passed by no more than what runs at once |
| groups, tenants, endpoints, assistants, categories, templates, feedback | one table each, links | create, read, update, delete | little: one statement each | referential integrity |
| adapters (`core/llm_client`, `azure_cost_client`, `search`, `config`) | none | calls to outside services | their errors | stated where they are used |

A room owns messages, a message owns contents, attachments and libraries
(`ON DELETE CASCADE`) and lends its id to token usage (`ON DELETE SET NULL`); a
stream reads them before it starts and writes them when it ends; the quota sums
token usage before each stream; an import's upload and its listener meet only
through SQS, S3 and the job's row; a file's row and its object are written one
after the other; a session holds a login id and is read again by every request.

### The web clients

One thread each; another handler may run at every `await`, and answers come late,
in any order, or as errors.

| component | state | hard behaviour | what makes it correct |
|---|---|---|---|
| library viewer (`viewer.service`, `chat-summary`) | tokens, the panel's content, loads on their way | a load that outlives the stream it was started for | a panel that streams shows what its stream wrote |
| message thread (`messages.service`, `message-thread-utils`, `message-contents-api`) | records, versions, local messages, snapshots | optimistic edits restored over newer answers | the thread is whole and of the open room; indicators end |
| rooms sidebar (`rooms.service`, the sort, delete and find dialogs) | pages of rooms, pins | offsets into a list that changes | pins to be saved are exactly those that differ; no room twice |
| session, guards, routes (`auth.store`, interceptors, guards) | user, sessionStorage, the screen | logins that cross session checks; roles that change | protected screens are shown to whom their guards admit |
| chat pages (`chat.service`, `chat-window`, `chat-input`) | active room, shared context, mentions | continuations of a page that was left | a text goes to the room that is shown |
| administration lists, groups pages | store, selection, dialogs, jobs | late answers, bulk deletions that fail halfway | what a deletion takes is shown; local edits amount to a reload |
| edit dialogs, folder dialog, fields, filters, pager, menus | staged values, timers, bindings | values that are staged, reverted or bound twice | what is shown is what is sent |
| training data, catalogues, glossary, tenant and feedback pages | optimistic rows, caches | rollbacks of the whole list; stale entries | rows at rest are the service's |
| requests and errors (`errorInterceptor`, the handlers) | toasts | a refusal that nobody or two tell of | a refusal is told once |
| prototype client (`frontend/src`) | store, sessionStorage, delayed loads of the document | handlers that run on until a load | a user has his tenant; a reset is handed over |

## 2. How the project is built

One module per component; none declares `RECURSIVE` operators, so each can be
proved about. `AnswerLifecycle` is the abstract specification that `ChatStream`
implements. Components that share no state are checked side by side in one run:
`MCAccounts` EXTENDS the server's smaller modules, `MCClient` eight of the web modules
(`MessageClient`, `ChatPages`, `ViewerPanel`, `Glossary`, `FolderForm`,
`ClientSession`, `CatalogLists`, `TrainingData`), whose names are their own, and
INSTANCEs the others over a common set of variables; a behaviour is a behaviour of
one part. `MessageClient` composes `MessageThread` with the page, the service and the
server's records; `ClientSession` composes store, guards, interceptors and the
cookie. `Positions` holds what a filter leaves of a list, for the three modules whose
proofs count such positions.

The order was by weight: what is stored and billed (`ChatStream`, `UserImport`,
`CreditQuota`, `BillingCycle`), what others depend on (`StoredFiles`, `SignIn`,
`Links`, `LibraryStream`), the clients' concurrency (viewer, thread, session,
rooms), then their pages and controls. Proofs follow the same order and stand at
section 6. What only TLC has checked yet and would be proved next are the invariants
of the other optimistic lists (`AdminLists` `ShownIsStored`).

## 3. Modules

Each module's header and the comments at its VARIABLES say what the state stands
for; an action is named after the function it models, and `PROJECT.json` gives the
lines of every definition (of a table of routes in `Requests`, from the router's
first decorator to its last). Tables are given here for the modules that are proved
about and have more than a store's fields in their state.

### ChatStream

One action is the code between two awaits that touch the database or hand an
event to the client.

| variable | code |
|---|---|
| `room`, `message`, `contents`, `files`, `libraries`, `usage` | the tables; a content row is named by the request that created it, and `by` is the stream whose answer it holds |
| `issued` | the ids handed out (UUIDs are never issued twice) |
| `pc[r]` | where the coroutine of request r is suspended |
| `req[r]` | what `stream_message_content` captured before streaming |
| `gen[r]` | locals of `event_stream`: status, whether tokens were counted, `stream_finished`, `library_title`, `content_response`; `loaded` is the status the session read for a regeneration, `expired` whether a rollback expired the content row; `seen` and `overtaken` are histories: whose answer the row held when it was read, and whether another stream wrote it since |
| `sent[r]` | the furthest event the client got |

`Accept` stands for every check before the stream: they only read, so a failing
one has no effect and a passing one is true at that moment. `Start`, `Delta`,
`Drain`, `LlmError`, `Stop`, `Resume` and `Disconnect` are the generator's body;
`InsertContent` to `TouchRoom` are `_persist_message_content`,
`PersistLibrary` and `RefreshLibrary` are `_persist_library`, `PersistUsage` and
`Complete` the rest of `finally`. A statement that violates a foreign key, or
reads back a row that is gone, raises: `Escape`. `Cancel` and `Crash` are the
server's: Starlette may cancel the response's task instead of closing the
generator, and a process may die. Abstracted: texts (two answers are different,
that is all), RAG context and reference paths, tenants (every query filters by
the tenant of the caller, so tenants do not interact here), the quota check
(`CreditQuota`), the assistant's lookup.

### AnswerLifecycle

The abstract promise: an answer is stored once, usage is billed at most once and
only after the answer is stored, "complete" is announced only when both are done,
and any set of requests may be abandoned before. `ChatStream!Lifecycle`
instantiates it: `Stage` maps the place of the coroutine, `consumed` the
tokens counted, `billed` the usage row. An existing usage row never goes, so
`billed` survives deletions. A stream whose content could not be stored but whose
tokens are counted is "over" without being announced.

### UserImport

| variable | code |
|---|---|
| `upload[j]` | where `import_users` is; `lost` when its process died or its commit failed |
| `rows[j]` | login ids of the CSV file |
| `job[j]` | the committed `user_import_jobs` row: status and the rows `error_details` reports |
| `file` | objects in S3 |
| `message[j]`, `received[j]` | the SQS message and its receive count |
| `users` | never registered, registered, deleted again |
| `at[l]`, `work[l]` | where each listener's loop is, and its locals |

Every call to S3 or SQS may fail, with its effect or without it (`UploadFile`,
`SendMessage`, `DeleteUnsent`, `Unlink`). `Fail` is every error that reaches
the two `except` clauses of `run_forever`; `ReceiveFails` the one that does
not. `CommitRows` is the import's one transaction: rows in savepoints, status
and errors. A row fails if its user was registered or deleted since the users
were read, and may fail for any other reason. The checks for a foreign tenant, a
missing tenant and an undecodable file are left out: the message carries the
job's own tenant, tenants are never deleted, and the file was decoded before it
was uploaded. Names, roles, login keys and group memberships of a row are
committed and rolled back with it and are not told apart.

Whether a listener was *overtaken*, its message visible again while it was still
at work on it, is a history variable of `MCUserImport`, since the code does not
know it.

### BillingCycle

| variable | code |
|---|---|
| `contract_start` | the subscription's first day |
| `today` | the day on which the period is asked for |
| `period_start`, `loop` | the loop of `_find_reset_instant_utc` and its outcome |
| `announced` | the period last reported by `credit_usage_service` (`periodFrom`, `nextBillingResetAt`) |

The functions are pure; the state is that of the loop and of somebody who asks
every day. `Search` is one round of the loop, `Tomorrow` reports the answer and
lets a day pass. `NextBoundary` is `_next_boundary_exclusive` case by case.
Instants are dates, since all boundaries are at midnight UTC; the calendar
(`Leap`, `DaysInMonth`, `Before`, `NextDay`) is Python's.

### CreditQuota

| variable | code |
|---|---|
| `used` | the sum over `token_usages` from the period's first instant on |
| `extra` | `tenants.max_usage_based_credits_per_month` |
| `message` | the message that chats belong to |
| `pc[r]`, `locals[r]` | where a request is, and its locals: what its sum saw, its limit, its cost |
| `patch` | a new limit that `patch_admin_tenant` has validated and not yet committed |

The sum of `enforce_within_quota` is over rows up to the instant at which it
began, so what other requests record during the check is not seen; the model
fixes `seen` there. The other actions are `LlmChatService.stream_chat` with its
`finally`, and `create_embedding`, which has no library. `message_service`, and
the uploads of `file_service` and `index_service`, call the same check before they
spend. Assumed: one tenant with an active subscription and a limited plan (nothing
is enforced without); the servers' clocks and the database's agree, and a usage
row is stamped and committed in one step; one `PATCH` of the limit at a time.
Abstracted: the conversion of tokens to credits (a cost up to `MaxCost`), who asks
(the sum is the tenant's), the text.

### StoredFiles

| variable | code |
|---|---|
| `row`, `objects` | the table `files`; the objects of the bucket |
| `index` | the table of indexes, by their type |
| `learned` | `message_feedbacks.index_id`, and which feedbacks are left |
| `issued` | file ids that were handed out |
| `at[c]`, `work[c]` | where request c is suspended, and its locals |
| `broken`, `altered` | histories: what a failed step or a cascade left behind; indexes that an update made `SAAS_GLOBAL` |

`CreateFile`, `Put`, `Insert`, `Refresh`, `Undo` and `Mark` are
`create_file_record` with its compensation, `FindFile`, `Drop` and `Erase` deletion,
hiding and the first half of a replacement, `LoadFile` and `Save` the `PATCH`,
`CountIndexes` to `DeleteIndex` the index service, `DeleteSource` and `DeleteUser`
the cascades; `Stop` is an error or a dead process at any await. Left out: names
and references, the quota check, visibility, the endpoints and groups of an index.

### SignIn

| variable | code |
|---|---|
| `user`, `history` | the `users` row and its `password_histories` |
| `clock` | transactions begun: histories are ordered by `created_at`, the start of the transaction that wrote them |
| `live`, `cookie` | sessions in Redis; what the browser keeps |
| `doing[c]` | what request c has read so far |
| `ended`, `opened`, `crossed` | histories: dead sessions, how a session was opened, whether changes of the password overlapped |

Password changes (`BeginChange` to `SavePassword`), creation and deletion of the
account, login by password or key, authentication with its extension of the
session (`Touch`), logout and expiry. Abstracted: the strength policy, expiry dates
of passwords (`Judge` may refuse), roles, names, tokens.

### Links

`edits[w]` is a transaction that replaces the links of one object under READ
COMMITTED: it deletes the rows it sees and inserts those it wants (`BeginReplace`,
`SeeLinks`, `DeleteLinks`, `Commit`, `Fail`); one that also updates the object's
row waits for that row. `links` are the committed rows; `asked` and `last` record
what was asked for. It stands for the links of templates, categories, libraries
and shares, which all are replaced by the same two statements.

### LibraryStream

`raw`, `pending` and `section` are the router's fields, `rest` what the model has
still to say; `Feed` cuts it anywhere, `NextMarker` and `LastRound` are rounds of
`_process`, `Flush` the end. `sent` joins the parts the client got, `library` is
what `message_service` parses from the whole text and stores.

### The Angular client

| module | state | actions |
|---|---|---|
| `ViewerPanel` | `shelf` (the server's libraries), `view` (`ViewerService`), `stream` (tokens), `fold` (`ChatSummaryComponent`) | open, select, send, deltas and ends of streams, answers to loads, effects |
| `MessageThread` | none | the functions of `message-thread-utils` |
| `MessageClient` | `msg` (`MessagesService`), `place` (the rooms of `ChatService` and of the page), `awaiting` (handlers at an await with what they captured), `server`; `overlaid` is a history | send, edit, resend, rate, delete, switch versions, rooms; answers in any order |
| `MessageContents` | partitions in flight, contents so far, what is shown | requests per assistant and endpoint, failing ones replaced by placeholders |
| `RoomsList` | `db`, `own` (`RoomsService`), `calls`, and each dialog's component | paging, pinning, renaming, sorting, searching, deleting |
| `ClientSession` | `tab` (store, `sessionStorage`, screen, whether the session's GET is remembered), `cookie`, `account`, `asked` (calls that are out; a GET that a logout forgot is `forgotten`, and its answer is taken all the same) | navigation with guards, login, key and reset links, logout, expiry, changes of the role, answers |
| `ChatPages` | `page`, `chat` (`ChatService`), `box` (input and mentions), `dialog`, `calls`, `move`; `latest` is the last operation on a room beside the room that was shown, `crossed` that an answer for a page that was left changed the active room or left its context behind | typing, navigation, links, first messages of new rooms, dialogs |
| `CatalogLists` | `cat` (store and component of the page `catalogue`), `work` (submissions), `saved` (the service's rows); `overlap`, `current` are histories | turn pages, choose rows, forms, deletions of several, answers in any order |
| `AdminLists`, `TeamPages` | the store and component of each list, GETs and submissions on their way, the service's rows | turn pages, choose rows, dialogs, bulk deletions, answers |
| `TrainingData`, `FolderForm` | folder and file stores, editors, the service | optimistic edits and their rollbacks; the folder dialog's lookups |
| `EditForms` | one record, an open dialog, saves on their way | controls, submission, answers, another administrator's changes |
| `ListFilters`, `ChoiceFields`, `ListControls`, `Menus` | components' signals, timers, what the page was told | staged choices, sorting, paging, calendars, panels and their places |
| `Glossary`, `QueryPages` | the page, the shell, caches, dialogs, the service | writes and refreshes that cross, invalidations, filters |
| `Requests` | an operation's calls, who told of a refusal, toasts | every call against the server's routes |

`Requests` has each operation's calls and the statuses with which the server may
refuse each; `ListFilters` goes down to the query the server reads. What the
server does not offer (glossaries, the file calls' query parameters) is modelled as
the service the client was written for, see "Further divergences". Left out: layout, drawing,
translations, the text of messages.

### The prototype client

`Prototype` has a document with its `sessionStorage`, the browser's cookie and the
requests that are out; a page load (`Load`, `Unload`) ends the document, and
handlers run on until it does.

### MC modules

`MCChatStream` extends `ChatStream` with a symmetry set, `MCUserImport` extends
`UserImport` with the history above and fewer starts. `MCAccounts` and `MCClient`
put parts that share no state side by side: `part` says which one a behaviour is
of, and the others stay at a fixed start. `MCAccounts` EXTENDS its parts.
`MCClient` EXTENDS the modules with theorems and keeps the state of the others in `s1`
to `s12`; its properties are conjunctions over parts.

## 4. What the runs check

| run | instance | properties |
|---|---|---|
| `chat_answers` | 2 streams, 2 messages, 1 room, 2 users, libraries | `LibraryBesideAnswer`, `UsageRecorded`, `CompleteIsKept`, `OnlyOwnersAnswer`, `StatusFitsAnswer`, `UsageSurvives` |
| `chat_liveness` | 2 streams on 1 message, attachments, fairness | `AnswerStored`, `ImplementsLifecycle` |
| `import_jobs` | 2 listeners with 1 job or 1 with 2 jobs, 1 login, 2 receipts, fairness | `StrandedOnlyOvertaken`, `FileServesUntilOvertaken`, `ImportedOrReported`, `FinalUntilOvertaken`, `EndsUnlessOvertaken` |
| `accounts` | every critical contract and each day of fifteen months; 2 requests each for quota, files, indexes, passwords, links; texts with markers in and out of order | `BoundaryExpected`, `ResetAsAnnounced`, `SearchAdvances`, `OvershootBounded`, `FilesMatch`, `LimitHolds`, `SectionsWhole`, `SignInKept`, `LinksAsAsked` |
| `client` | each web part on an instance of its own | `ClientTypes`, `StreamOwns`, `AnswersSettle`, `ThreadOfRoom`, `TakenIsShown`, `PendingExact`, `AdmittedOnly`, `TenantKept`, `NavigationEnds`, `ListsWhole`, `RefusalTold`, `FilesAgree`, `SettledRows`, `TitleOfRoute`, `SubmittedOfType`, `ControlsHeard`, `FormsWhole`, `SentWhereShown` |

Each property's comment in its module says what it is about.

Why the bounds are enough. Streams interact through the rows of a message, so
two streams meet in every way a pair can: both new, one regenerating the other's
answer, one stored while the message is deleted. Two messages give a parent and a
child, so that cascades go through threads; the second user can only fail the
owner check, which is what `OnlyOwnersAnswer` needs. Three overlapping streams
are used where the property needs them (`chat_regeneration`). In the import one
listener handles one message at a time; the second job is there to be received
between two deliveries of the first, two receipts give a delivery, a redelivery
and a dead letter (the deployed `maxReceiveCount` is 3), and two listeners import one
file at once. Contracts start on the 1st, the 15th and the last four days of long
and short months in 2022 and 2023; the days pass a common and a leap February and
both ends of a year. The bound of `OvershootBounded` is met: two requests that
both saw the last free credit leave the sum one below it. Files, indexes, links
and passwords are rows of which two transactions at a time read and write the
same ones; `MaxBroken = 1` lets one failure or cascade happen and everything that
may follow it, and two failures that touch one file do not add a kind of remainder.
In the client a hazard is an answer that comes after something else happened, which
needs two or three acts of the user (`MaxOps`, `MaxMoves`, `MaxActs`, `MaxDone` and
the bounds in `MCClient`'s instances) and the answers in every order. The glossary
has a third move, so that a route may be left with a save out and loaded again; the
thread a third act, which only loads a room or begins a new chat (`LastReloads`): two
put a snapshot over newer answers, and the third shows the thread whole again, so it is
taken only where something is overlaid. A dialog has four acts, of which the last only
sets a control and leaves none but the folder to be filled (`LastSets`): another
administrator's change and a setting commute, so it may come before. A panel is placed
where no menu is open, since its place reads none (`PlacedAlone`). Lists have two
or three rows, so that a page can become empty and a row can be left out.
`CHECK_DEADLOCK FALSE` is set where the models stop by their bounds.

### Disagreements

Seven runs end in a counterexample: the code does not do what a comment, a
docstring or a test says.

| run | what is said | what happens |
|---|---|---|
| `chat_tokens` | tokens consumed are recorded even when the client disconnects (`message_service.py:925`) | the counts come in the last chunk; a client that leaves earlier leaves zeros, and nothing is recorded |
| `chat_files` | failing attachments are independent of the answer, what follows goes on (`message_service.py:1292`, and a test with mocks) | the rollback expires the content row; reading it raises `MissingGreenlet`, usage and `complete` are lost |
| `chat_regeneration` | a regeneration overwrites the row (`message_service.py:1229`) | the `UPDATE` names changed columns only: overlapping regenerations mix the answer of one with the status of the other |
| `import_overlap` | redelivery is not processed twice (`user_import_listener.py:124`, `infra/sqs.tf:16`) | a message redelivered during the import is processed again and reopens a finished job |
| `import_polling` | the listener keeps polling (`user_import_listener.py:44`) | one error of `receive_message` ends its task while the process lives on |
| `session_expiry` | a session that ends leads to the login page (`error.interceptor.spec.ts:54`) | the store keeps its user, so `noAuthGuard` sends the login route back to the dashboard |
| `team_cards` | empty cards are filled from each group's APIs (`group-list.component.spec.ts:308`) | the calls ask for 1000 rows, the routes admit 100: 422 each time |

### Further divergences

Met while modelling; the models do what the code does, and properties name the
exception where one is needed.

- Import: of two listeners on one file the first may finish and delete the message
  after the second read the job; the second reopens it, and a crash then leaves it
  PROCESSING for ever, without message or file.
- Billing: `docs/issue-73/01_要件定義.md:12` speaks of a monthly cycle rounded to the
  month's end; after a short month a second period starts on the 1st
  (`billing_cycle.py:109`): from January 31 to February 28, March 1, March 31. The
  quota is reset once more, and what is announced follows.
- Files: `get_file_for_download` promises 404 where `FileNotFoundError` escapes as
  500; `PATCH` with `status=ENABLE` serves a deleted file again, without its
  object; deleting an index, a feedback, a room or a user leaves objects; a
  refresh that fails after the commit makes `create_file_record` delete the
  committed row's object; a replacement deletes the old file before the new one is
  written; deletion and `PATCH` do not check that the file is of the index named.
- Indexes: counted, then inserted, without a lock; an update skips the check;
  `feedback.index_id` outlives its index.
- Accounts: `update_profile` saves a history without `expired_at`; an
  administrator's reset that crosses the user's change can leave flag and password
  disagreeing; `GET /auth` sets the cookie of a session deleted meanwhile; a
  session holds the login id, so it outlives the account and belongs to the next
  one of that id; two group administrators may remove each other at once.
- Links: overlapping replacements leave the union, although docstrings say "完全置換";
  one that fails a unique constraint answers 500.
- Library sections: markers that are missing or out of order are stored
  differently from what was streamed.
- Routes the client lacks: `DELETE /rooms` (`rooms.service:183`), `PUT /rooms/pin`
  and `/rooms/reorder`, `PATCH /admin/tenants/{id}/usage-limit` (`usage-tab:215`),
  `/token-usages`, and every glossary call: these always fail. File calls send
  fields as query parameters while the server reads `Form()`: uploads answer 422,
  a `PATCH` changes nothing. `adminAssistantsQuery`, `getGroupOptions` and
  `learningFoldersQuery` claim all rows and read the first page of 20.
- Errors: refused login keys are told twice; the first visit's 401 is told as an
  error; bulk deletions by `Promise.all` report a failure though rows were
  deleted; glossary dialogs close on failure.
- Viewer and thread: `endLibraryStream` does not look at its token after its load;
  a superseded load leaves `isLoading`; a created record is appended to whatever
  room is open; a late load, an edit's, a rating's or a deletion's snapshot
  overwrites newer answers; the first stream that finishes clears `isGenerating`;
  a second question in a room without records names a local id as its parent; a
  question whose POST failed keeps its parent, so that once a deletion leaves the room
  without records it is shown again and its edit names a parent that is no more, and
  the thread stays empty until it is loaded (found when the invariant of `ThreadOfRoom`
  was sought; three acts of the user; part of `overlaid`); a deletion's answer drops the
  record of a question sent meanwhile (`messages.service:371`). `overlaid` ends with a
  load or a new chat that begins with nothing else on its way and is not overlapped.
- Rooms: the sort dialog's save always fails; paging by offsets skips rooms; an
  older search answer overwrites a newer one.
- Session: a login that crosses the session's GET saves a user without tenant; one
  accepted on a protected screen leaves that screen to a lesser role;
  `REQUIRES_PASSWORD_RESET` clears the tenant (`auth.store:77`) that the reset
  needs; a new session keeps the previous groups.
- Pages: a late share answer changes the active room (`chat.service:93`); lists do
  not number their GETs; a failed load keeps the selection; a template whose
  assignment failed is created again on retry; edits read `editingId` after an
  await, so that the answer to one category's edit replaces another's row if that
  one's form was opened meanwhile (found when `CatalogLists`' invariant was sought: it
  takes seven acts of the user, more than the run's bound; it is part of `overlap`); a
  shared link's answer for a page that was left keeps its context, which then
  stands in for any room the list does not have, and a rating goes to that room
  (six acts; part of `crossed`); a rollback restores the whole training list (`status: [file?.status ===
  'ENABLE' || true]`, 349, is always true); `switchMap` in `rxMethod` does not
  discard older answers; group administrators' lookups are refused.
- Filters and fields: clearing a team filter's sort asks for `"updatedAt,"`, which
  the server reads as ascending (`group_service.py:272`); the sort drawer reopened
  within 300 ms is hidden by an earlier timer; two teams of one name map to the
  first; a chip removed from an open multi-select is told at once, and cancel brings it
  back: "parent state was never updated during open, snapshot matches it"
  (`multi-select:165`) is not so, nor of a value the form writes meanwhile, and an
  option changed while the panel closes is never told (the exceptions of `FormHeard`); clearing both dates of a range leaves the old one
  (`period-filter:285`); "only one open at a time" (`dropdown.service.ts:46`) does
  not hold (`chat-summary.component.ts:168`).
- Dialogs: login keys and descriptions cannot be cleared; an account of the system
  is shown as ordinary; further endpoints and the URL of an assistant are dropped;
  a category without description cannot be saved; a late answer of an earlier
  folder dialog fills the next one (`training-folder-modal.service:59`); the usage
  tab's user filter stays while its select shows all.
- Glossary: editing a word wipes its tags; the tag filter compares the first
  character; the period, category and (but for one server) server filters filter
  nothing.
- Prototype: cannot log in against this server: `auth.py:52` requires
  `X-Tenant-ID`, nothing stores a tenant before the login, and the answer has none
  (`auth-store.ts:77`); the reset sends `username` where `loginId` is expected; a
  tenant outlives an expired session; the old password stays in `sessionStorage`
  when the reset page's load is broken off.

## 5. Fairness

`ChatStream!FairSpec`: weak fairness of `Serve(r)`, the steps the program, the
database and the model provider owe a request that is in. The provider's stream
ends or its client times out; a client takes its events or its connection
closes, and then the coroutine is resumed. Nothing is assumed of users,
disconnects, cancellations or crashes, and a request need not be made.

`UserImport!Fairness`: weak fairness of each upload's steps, of a listener's steps
and its polling, of the visibility timeout and the redrive (SQS), and of the
replacement of a dead process (the ECS service). A task that has stopped by an
error of `receive_message` is replaced by nobody; that is why `EndsUnlessOvertaken`
excuses it and `PollingGoesOn` fails. Errors and crashes are finite because each
takes one receipt of a bounded number.

`MCClient!ClientFairSpec`: weak fairness of a guard's decision (`Initialize`,
`Decide`: the router runs on) and of the answers to the session's GET and the login
key's check, which come or time out, both with the same effect on the guard. Nothing is
assumed of the user, of other answers, or of the server's session.

The other modules need none: what is said of them is safety. That the loop of
`BillingCycle` ends follows from `SearchAdvances` and a bounded distance, an
argument that is not checked.

## 6. Proofs

Eight modules hold theorems; `PROJECT.json` lists those a reader should know of.
Each states the property a run checks, for every value of the constants, from the
assumptions named in the component's module. TLC checked each inductive invariant,
or the conjuncts it is made of, before it was proved; most were found wrong at
least once there or in the proof, and the sections below say what they lacked.

| module | assumptions | safety and action properties proved |
|---|---|---|
| `ChatStreamProofs` | `NullAssumption` | `UsageRecorded`, `LibraryBesideAnswer`, `CompleteIsKept`, `OnlyOwnersAnswer`, `StatusFitsAnswer`, `UsageSurvives`, `ImplementsLifecycle` |
| `UserImportProofs` | `ImportAssumption` | `ImportedOrReported`, `StrandedOnlyOvertaken`, `FileServesUntilOvertaken`, `FinalUntilOvertaken` |
| `LibraryStreamProofs` | `LibraryAssumption` | `SectionsWhole` |
| `AccountsProofs` | those of the five modules | `BoundaryExpected`, `SearchAdvances`, `ResetAsAnnounced`, `OvershootBounded`, `FilesMatch`, `LimitHolds`, `SignInKept`, `LinksAsAsked` |
| `ClientProofs` | those of the modules | `StreamOwns`, `SubmittedOfType`, `TitleOfRoute`, `AdmittedOnly`, `TenantKept`, `SentWhereShown` |
| `ListProofs` | `ThreadAssumption`, `CatalogAssumption` | `AnswersSettle`, `ThreadOfRoom`, `SettledRows` |
| `DataProofs` | `DataAssumption` | `FilesAgree` |
| `PositionTheorems` | | lemmas on positions and sequences for the two above |

**Chat streams.** `IInv` has four parts: `TypeOK`; `Rows`, the foreign keys that
hold between the tables; `Captured`, what a request knew when it was accepted that
deletions cannot change (an id is never issued again, so a message that exists is
still in the room the owner was checked for); `Progress`, what each place of the
coroutine implies about its locals and the tables. Without `Captured` an owner
check made before streaming says nothing of the rows written after it; without
`Progress` `CompleteIsKept` is not inductive. `StatusFitsAnswer` needs `Fits` in
addition: a stream that is about to write knows the status of the answer it read
(`Known`), and the row either holds that answer still or another stream has overtaken it.
Regenerations one after the other are not excused. The run has two streams, a first
answer and its regeneration or two new ones; that several regenerations overlap is in
`chat_regeneration`, and the proof covers any number. The refinement takes each step
to a step of `AnswerLifecycle` or a stutter under the mapping `Stage`, `consumed`,
`billed`; it needs `Ledger` in addition: a usage row is recorded once, by the request itself, and a
stream that has stored nothing by then has lost its message.

**Import.** `ImportedOrReported` holds for any overlap of deliveries; its invariant
adds `RowsFixed` (a file's rows are set before its job exists) and `JobRead` (a
listener that goes on has read the row). The three other properties are proved of
`MCUserImport!TracedSpec`, every start and every number of listeners and jobs, for
the jobs of which no listener was overtaken. Their invariant, `Kept`, is about one job
at a time: how far its upload is (`Uploaded`), and of a listener at work on it, that it is
alone, its receipt is the current one, the message is in flight, and the job is
unfinished or finished as this place of the loop needs (`Handled`). Without "overtaken" it is false:
`import_overlap` is its counterexample.

**Billing.** The first two properties follow from each boundary being an expected date
followed by a later one (`Boundary`). `ResetAsAnnounced` compares two runs of the
loop, on two days; what relates them is a closed form of the boundaries,
`IsBoundary`. The lemma `BoundaryIsNext` shows that nothing of that form lies
between a boundary and the next, so a loop that stays on boundaries (`Walk`) cannot
miss the one that was announced (`Announcement`).

**Quota.** The invariant adds `Admitted` (a request that spends saw less than a limit
in force) and `Reserve`: the credits used and what each request in flight may still
spend are together below the bound. `used` alone does not know of requests
admitted earlier; a request counts as in flight from its sum on, because others may
be billed in between.

**Library sections.** That the parts a client got add up to what is stored, however
the text was cut, would be an induction over texts if it were said of the cuts. It is
said of the text instead: `Routed` determines section and parts by where the first
markers stand, each after the one before it, and how much has been sent. A delta
leaves the first markers where they are (they cannot overlap, and the hold-back
keeps from what was sent every beginning of a marker that may still grow: `Open`); a round
of `_process` moves on by one marker or by the text before it. At the flush nothing
may grow any more, and `Routed` is what the stored library reads from the whole text.
The lemmas say what stripping, searching and holding back return; a first marker
is a least element of a set of positions, which needs no induction.

**Files and indexes.** A row and its object match because of what every request in
flight knows of its file: its id was issued (`Issued`), nobody else has it before its
row is inserted (`Unshared`), between its two writes one store has it and the other
has not (`Held`), and what it read of a status or a source is so still (`Hidden`,
`Sourced`). For the limit, `Room` adds to the indexes there are those that requests
past the check will still insert.

**Passwords, sessions, links.** `History` and `LatestFits` relate the user's flag to the
password ordered last by transaction start; `Knows`, what each request has read to
what may have changed since; `Sessions`, that a dead session is in no request's way back to
life but for the cookie. `LinkKnows` says that every row a replacement saw or will write
belongs to a set that was asked for.

**Web clients.** `StreamOwns`: whoever holds the panel's token is the stream whose
library is shown. `TitleOfRoute` and `SubmittedOfType`: a GET that was not overtaken
was asked for the route or the form that is open, of a user's page and an
administrator's alike. The title of a save that is answered after its route was left
stands until the next load is answered (`strayed`). `ClientSession`'s invariant
(`SessionInv`) adds that the first session check is remembered (`InitKnown`) until a
logout forgets it, that nobody is logged in while the answer to a forgotten check is out
unless answers crossed (`ForgottenNone`), that a
login key or a login is out alone unless answers crossed (`KeyAlone`, `LoginAlone`) and that
a shown screen fits the user (`Placed`). Looking for it, TLC showed at eight
acts that `AdmittedOnly` had been false from the fifth on, where a login accepted on a protected
screen gives its place to a lesser role; that case is now part of `crossed`.

**Chat pages.** `ToRoomShown` says of every operation on a room (a text, a rating, a
deletion) that it went to the room that was shown. `Waits` and `OncePerVisit` say which page an
answer on its way is for and that its visit asks once; `Uncrossed` that page and
`ChatService` agree while none came for a page that was left; `Opened` does so for a
dialog. `Uncrossed` was false at first: an answer to a shared link that came late
left its context behind without changing the active room (section 4).

**The thread.** `AnswersTracked` says that an unfinished answer has a handler. That is not
inductive, because many handlers name an answer and few will still write it:
`Waited` asks for one that will (`Awaits`). Handlers also restore snapshots; by
`Settling` one that was alone since it took its snapshot brings back finished
answers only, and one that was not is what `overlaid` records. `ThreadShape` keeps
apart the identifiers of questions the server has not named, which no patch
reaches. `Indicated` is the same for the three indicators. `NthIn` and the lemmas on positions
say what a filtered list contains, for both this proof and the next.

`ThreadOfRoom` says three things of the thread at rest: its records are the open room's,
each has its parent there, and every index names a version. None is inductive
by itself, because an answer that is on its way is applied to whatever is open then. `WholeInv`
says `Kept` of the thread unless a load is out or something overlaid it: the
records are a tree, without repetition, and the server has each with the same parent
(so that a record the server sends again has its place); an index is at most
the number of versions of its group, and only groups of records there are have one
(`Indexed`); each message belongs to a record there is, with that record's parent, or to a
question the server has not named (`MessageFits`). Of each call it says
what it will bring back: of a load or of a snapshot taken alone, a whole thread
(`Brings`), of one that crossed a load, that it will be seen to overlay (`Crossed`).
`LoadsHere` says which rooms loads are of. That `overlaid` may end with a load that was
alone takes what holds whatever was overlaid: the server's records are without
repetition and each of a name of its own (`StoredInv`), and a load that is alone is of the
open room and brings what the server has (`AloneLoad`). They are a tree unless the server
took a question under a record of another room, or of none (`Rooted`); then nothing the
client loads makes the thread whole, and `overlaid` stays. `RoomInv` is all of these. What a deletion takes is the record and all
below it, as far down as the records go; the lemmas on `Cascaded` show that what it leaves is a tree
again and count the versions left of each group, against which
`adjustActiveVersionIndexAfterDelete` cuts the index of the record's group. Looking for
`Kept` is how the empty thread after a failed question was found (section 4): the
question sent again names a parent that nothing on the client or the server has.

**Catalogues.** A row shown at rest is the service's because of the GET that is out or
was the last: `Latest`, for the library contents, whose GETs are numbered, without any
condition; `Calm`, for the others, as long as nothing crossed. With none out the rows
are the service's but for those that a deletion of several has taken by now, `Gone`
(`RowsThere`, and `AllThere` for the categories, which the client keeps whole and pages
itself). The client counts the total down and the service counts its rows; that they
agree is `SameLength`: lists without repetitions of the same elements are equally long.
`PageExists` rests on `OnPage`: only a GET after a deletion may ask for a page that is
no more, and `deleteItem` turns back from it.

**Training data.** `DataInv` has one conjunct for each part of `FilesAgree`, each said of
the calls that are on their way and not only of rest. `Calm`: as long as nothing
collided at most one call is out, and each kind of call promises something (`Fits`): a list,
that it is of the folder shown; a detail, that the rows shown are none; a change shown at
once, that the rows it would put back are right and the rows shown are those with the one
change. `Covered`: each cover of the page has a call out that clears it, and a deletion
one of whose files was refused is no longer such a call. `Flagged`: a flag of the view
shown belongs to a call made by that very view (`pane.no`), through the list that follows
the write. The last two need no condition on how calls overlap. The lemmas `UserStep`
and `AnswerStep` say once what a step that begins calls, or ends one, must leave, and
each handler is one application of them.

Only model-checked:

- liveness, `AnswerStored`, `EndsUnlessOvertaken` and `NavigationEnds`: they need
  fairness and `ENABLED`, which the prover does not handle;
- `RefusalTold` of the requests: a finite table of operations, calls and statuses
  without other constants; TLC goes through all of it;
- the conjunctions of `MCClient` over instances that share the variables `s1` to
  `s12` (`PendingExact`, `ControlsHeard`, `FormsWhole`, `ListsWhole`,
  `RefusalTold`, `TakenIsShown`, `ClientTypes`): a theorem about one of them is to be stated of the
  component's module first;

## 7. Not modelled

- Reports, listings and their repositories (they read), schemas and routers (they
  translate; what routes admit is in `Requests`), the adapters to the model
  provider, Azure's costs and search, configuration.
- Maintenance of tenants, endpoints, assistants, categories, templates, groups and
  feedback beyond their links: one statement each, nothing between two awaits that
  another request could see.
- The events of the llm chat's stream, RAG context and reference paths, vector
  store contents: no state of the server depends on them.
- Drawing, charts, translations, themes and mock data of the clients; the
  prototype's chat pages, which show fixed data.
- Infrastructure and migrations: no behaviour at run time, but for the queue's and
  the service's settings, which `UserImport` takes as its environment.
