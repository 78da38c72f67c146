------------------------------ MODULE MCClient ------------------------------
(* The web application in a browser's tab, on small instances of all of its  *)
(* parts.  The parts share no state that one of them changes for another     *)
(* while it is open, so a behaviour is one of the part it began with.  Parts *)
(* about which theorems are proved are extended; the others are instances    *)
(* that keep their state in s1, ..., s12, each in as many as it has.         *)
EXTENDS MessageClient, ChatPages, ViewerPanel, Glossary, FolderForm, ClientSession, CatalogLists,
        TrainingData

VARIABLES part, s1, s2, s3, s4, s5, s6, s7, s8, s9, s10, s11, s12

state == <<s1, s2, s3, s4, s5, s6, s7, s8, s9, s10, s11, s12>>
ownVars == <<part, threadVars, chatPageVars, vars, glosVars, formVars, tabVars, catVars, dataVars>>

----------------------------------------------------------------------------
(* Constants.                                                              *)

MCShelf == [r1 |-> <<"l1">>, r2 |-> <<>>]
MCLists == [own |-> <<>>, g1 |-> <<1, 2>>, g2 |-> <<3>>]
MCServers == [LOCAL_SERVER |-> <<"l1", "l2">>, VDB |-> <<"v1", "v2">>, EMBEDDING |-> <<"e1", "e2">>]
MCKept == [A |-> [type |-> "SAAS_GLOBAL", ids |-> <<"v1", "e1">>],
           B |-> [type |-> "SAAS_GLOBAL", ids |-> <<"v2", "e2">>],
           C |-> [type |-> "LOCAL", ids |-> <<"l2">>]]
MCTeams == <<"t1", "t2">>
MCTodays == {[y |-> 2024, m |-> k, d |-> 28] : k \in 0..11} \cup {[y |-> 2023, m |-> 1, d |-> 1]}
MCEnds == [s1 |-> "LOCAL_SERVER", c1 |-> "CHAT", c2 |-> "CHAT", v1 |-> "VDB"]
MCModels == [LOCAL_SERVER |-> {"m0"}, CHAT |-> {"m1", "m2"}, VDB |-> {}]
MCIndexes == [f1 |-> "SAAS_GLOBAL", f2 |-> "LOCAL"]
MCRows == <<1, 2>>
MCHeld == [g1 |-> {1, 2}, g2 |-> {3}]
MCMessages == <<"m1", "m2", "m3">>
Lacking(type, lacks) == [type |-> type, lacks |-> lacks]
MCKnown == {[type |-> "SMART", endpoints |-> <<>>], [type |-> "SECURE", endpoints |-> <<>>],
            [type |-> "SECURE", endpoints |-> <<Lacking("VDB", {"destination"}),
                                                Lacking("LOCAL_SERVER", {})>>],
            [type |-> "SECURE", endpoints |-> <<Lacking("VDB", {"apiKey"})>>]}
MCAssistants == <<"a", "b">>
MCDefault == [r1 |-> "a", r2 |-> "b"]
MCHits == [q \in {"", "b", "z"} |-> CASE q = "" -> {"a", "b"} [] q = "b" -> {"b"} [] OTHER -> {}]
StoredPages == [usage |-> <<1, 2>>, api |-> <<1, 2>>, accuracy |-> <<1, 2>>,
                satisfaction |-> <<1, 2>>, count |-> <<1, 2>>, histories |-> <<1, 2>>,
                info |-> <<0>>]

----------------------------------------------------------------------------
(* The parts.                                                              *)
Sidebar == INSTANCE RoomsList WITH
  AtFirst <- 3, PinnedAt <- {1}, Size <- 1, MaxOps <- 3,
  db <- s1, own <- s2, here <- s3, calls <- s4, menu <- s5, dialog <- s6, sort
  <- s7, pick <- s8, find <- s9, ops <- s10

Admin == INSTANCE AdminLists WITH
  Stored <- [tenant |-> <<1, 2>>, g1 |-> <<1, 2>>, g2 |-> <<2>>], Teams <-
  {"g1", "g2"}, Self <- 1, Found <- {2}, NewRow <- 3, MaxDid <- 3,
  screen <- s1, list <- s2, jobs <- s3, server <- s4, links <- s5, astray <-
  s6, did <- s7

Fields == INSTANCE ChoiceFields WITH
  Options <- <<"a", "b", "c">>, Disabled <- {"b"}, Numbers <- {"n1"},
  MaxEvents <- 4,
  f <- s1, told <- s2, due <- s3, events <- s4, drifted <- s5

Menu == INSTANCE Menus WITH
  Widths <- {320, 768, 1280}, Heights <- {600}, Lefts <- {0, 260, 500, 720,
  1200}, MaxClicks <- 3,
  window <- s1, openMenus <- s2, callback <- s3, backdrop <- s4, add <- s5,
  viewer <- s6, box <- s7, clicks <- s8

Query == INSTANCE QueryPages WITH
  Stored <- StoredPages, Found <- {2}, NewRow <- 3, MaxSteps <- 2,
  tab <- s1, ctl <- s2, cache <- s3, fetches <- s4, svc <- s5, form <- s6,
  work <- s7, hist <- s8, outrun <- s9, steps <- s10

Filter == INSTANCE ListFilters WITH
  Texts <- {"", " ", "x"}, Picks <- {"admin", "user"}, LastPage <- 2,
  kind <- s1, own <- s2, sort <- s3, drawer <- s4, filter <- s5, asked <- s6

Edit == INSTANCE EditForms WITH
  Endpoints <- MCEnds, Models <- MCModels, Folders <- MCIndexes, MaxIssued <-
  2, MaxActs <- 4,
  kind <- s1, options <- s2, stored <- s3, form <- s4, busy <- s5, calls <-
  s6, saved <- s7, pw <- s8, reveal <- s9, acts <- s10

Body == INSTANCE MessageContents WITH
  Messages <- MCMessages, Known <- MCKnown,
  owner <- s1, listed <- s2, phase <- s3, out <- s4, got <- s5, failures <-
  s6, shown <- s7, toasts <- s8

Proto == INSTANCE Prototype WITH
  TenantOf <- [a |-> "t1", b |-> "t2"], MaxActs <- 8,
  tab <- s1, cookie <- s2, left <- s3, acts <- s4

Controls == INSTANCE ListControls WITH
  Years <- {2023, 2024, 2025}, Todays <- MCTodays, maxVisible <- 5, MostPages
  <- 8, MaxUses <- 4,
  pager <- s1, period <- s2, range <- s3, heard <- s4, uses <- s5

Calls == INSTANCE Requests WITH
  Statuses <- {401, 403, 404, 429, 500}, MaxToasts <- 0,
  op <- s1, at <- s2, wire <- s3, failed <- s4, told <- s5, toasts <- s6, page
  <- s7

Team == INSTANCE TeamPages WITH
  Teams <- <<"t1", "t2">>, Bare <- {"t2"}, NewTeam <- "t3", MaxActs <- 4,
  role <- s1, page <- s2, visit <- s3, maps <- s4, cards <- s5, awaits <- s6,
  turns <- s7, team <- s8, jobs <- s9, svc <- s10, denied <- s11, acts <- s12

----------------------------------------------------------------------------
(* A part that is not open.                                                *)

Blanks(n) ==
  /\ (n < 1 => s1 = 0) /\ (n < 2 => s2 = 0) /\ (n < 3 => s3 = 0) /\ (n < 4 => s4 = 0)
  /\ (n < 5 => s5 = 0) /\ (n < 6 => s6 = 0) /\ (n < 7 => s7 = 0) /\ (n < 8 => s8 = 0)
  /\ (n < 9 => s9 = 0) /\ (n < 10 => s10 = 0) /\ (n < 11 => s11 = 0) /\ (n < 12 => s12 = 0)

Keeps(n) ==
  /\ (n < 1 => UNCHANGED s1) /\ (n < 2 => UNCHANGED s2) /\ (n < 3 => UNCHANGED s3)
  /\ (n < 4 => UNCHANGED s4) /\ (n < 5 => UNCHANGED s5) /\ (n < 6 => UNCHANGED s6)
  /\ (n < 7 => UNCHANGED s7) /\ (n < 8 => UNCHANGED s8) /\ (n < 9 => UNCHANGED s9)
  /\ (n < 10 => UNCHANGED s10) /\ (n < 11 => UNCHANGED s11) /\ (n < 12 => UNCHANGED s12)

AtLogin ==
  /\ tab = [Loading("none", "none", FALSE, FALSE) EXCEPT !.screen = "login"]
  /\ account = "USER" /\ cookie = "none" /\ asked = {} /\ acts = 0

OthersClosed(p) ==
  /\ p # "thread" => ThreadInit /\ place.room = NoChatRoom
  /\ p # "chat" => ChatPageInit /\ DOMAIN known = {} /\ ~listed
  /\ p # "viewer" => Init
  /\ p # "glossary" => GlosInit /\ section = "tags"
  /\ p # "folders" => FormInit
  /\ p # "session" => AtLogin
  /\ p # "catalog" => CatInit /\ catalogue = "assistants"
  /\ p # "data" => DataInit /\ store.route = "g1"

ClientInit ==
  \/ part = "Sidebar" /\ Sidebar!RoomInit /\ Blanks(10) /\ OthersClosed("none")
  \/ part = "Admin" /\ Admin!ListInit /\ Blanks(7) /\ OthersClosed("none")
  \/ part = "Fields" /\ Fields!ChoiceInit /\ Blanks(5) /\ OthersClosed("none")
  \/ part = "Menu" /\ Menu!MenuInit /\ Blanks(8) /\ OthersClosed("none")
  \/ part = "Query" /\ Query!QueryInit /\ Blanks(10) /\ OthersClosed("none")
  \/ part = "Filter" /\ Filter!FilterInit /\ Blanks(6) /\ OthersClosed("none")
  \/ part = "Edit" /\ Edit!EditInit /\ Blanks(10) /\ OthersClosed("none")
  \/ part = "Body" /\ Body!ContentInit /\ Blanks(8) /\ OthersClosed("none")
  \/ part = "Proto" /\ Proto!ProtoInit /\ Blanks(4) /\ OthersClosed("none")
  \/ part = "Controls" /\ Controls!ControlInit /\ Blanks(5) /\ OthersClosed("none")
  \/ part = "Calls" /\ Calls!RequestInit /\ Blanks(7) /\ OthersClosed("none")
  \/ part = "Team" /\ Team!TeamInit /\ Blanks(12) /\ OthersClosed("none")
  \/ part = "thread" /\ ThreadInit /\ Blanks(0) /\ OthersClosed("thread")
  \/ part = "chat" /\ ChatPageInit /\ Blanks(0) /\ OthersClosed("chat")
  \/ part = "viewer" /\ Init /\ Blanks(0) /\ OthersClosed("viewer")
  \/ part = "glossary" /\ GlosInit /\ Blanks(0) /\ OthersClosed("glossary")
  \/ part = "folders" /\ FormInit /\ Blanks(0) /\ OthersClosed("folders")
  \/ part = "session" /\ TabInit /\ Blanks(0) /\ OthersClosed("session")
  \/ part = "catalog" /\ CatInit /\ Blanks(0) /\ OthersClosed("catalog")
  \/ part = "data" /\ DataInit /\ Blanks(0) /\ OthersClosed("data")

\* The last act on the thread loads a room, or begins a new chat, where something
\* is overlaid.
Reloads == place'.room = NoChatRoom \/ \E c \in awaiting' : c.kind = "list" /\ c.n = did'
LastReloads == did < MaxDid /\ did' = MaxDid => overlaid /\ Reloads

\* The last act in a dialog sets a control, and leaves none but the folder to be
\* filled.
LastSets ==
  s10 < 4 /\ s10' = 4 =>
    s4 # Edit!NoForm /\ s4' \notin {s4, Edit!NoForm} /\ Edit!invalid(s4'.vals) \subseteq {"folder"}

\* A panel is placed where no menu is open and the viewer is as at first: its place
\* reads neither.  (The assistants' panel is placed as its menu opens.)
PlacedAlone ==
  s7' # s7 /\ s7'.kind \notin {"none", "assistant"} => s2 = {} /\ ~s5.open /\ s6.list = "idle"

ClientNext ==
  \/ part = "Sidebar" /\ Sidebar!RoomNext /\ Keeps(10) /\ UNCHANGED ownVars
  \/ part = "Admin" /\ Admin!ListNext /\ Keeps(7) /\ UNCHANGED ownVars
  \/ part = "Fields" /\ Fields!ChoiceNext /\ Keeps(5) /\ UNCHANGED ownVars
  \/ part = "Menu" /\ Menu!MenuNext /\ PlacedAlone /\ Keeps(8) /\ UNCHANGED ownVars
  \/ part = "Query" /\ Query!QueryNext /\ Keeps(10) /\ UNCHANGED ownVars
  \/ part = "Filter" /\ Filter!FilterNext /\ Keeps(6) /\ UNCHANGED ownVars
  \/ part = "Edit" /\ Edit!EditNext /\ LastSets /\ Keeps(10) /\ UNCHANGED ownVars
  \/ part = "Body" /\ Body!ContentNext /\ Keeps(8) /\ UNCHANGED ownVars
  \/ part = "Proto" /\ Proto!ProtoNext /\ Keeps(4) /\ UNCHANGED ownVars
  \/ part = "Controls" /\ Controls!ControlNext /\ Keeps(5) /\ UNCHANGED ownVars
  \/ part = "Calls" /\ Calls!RequestNext /\ Keeps(7) /\ UNCHANGED ownVars
  \/ part = "Team" /\ Team!TeamNext /\ Keeps(12) /\ UNCHANGED ownVars
  \/ part = "thread" /\ ThreadNext /\ LastReloads
       /\ UNCHANGED <<part, state, chatPageVars, vars, glosVars,
                      formVars, tabVars, catVars, dataVars>>
  \/ part = "chat" /\ ChatPageNext
       /\ UNCHANGED <<part, state, threadVars, vars, glosVars,
                      formVars, tabVars, catVars, dataVars>>
  \/ part = "viewer" /\ Next
       /\ UNCHANGED <<part, state, threadVars, chatPageVars, glosVars,
                      formVars, tabVars, catVars, dataVars>>
  \/ part = "glossary" /\ GlosNext
       /\ UNCHANGED <<part, state, threadVars, chatPageVars, vars,
                      formVars, tabVars, catVars, dataVars>>
  \/ part = "folders" /\ FormNext
       /\ UNCHANGED <<part, state, threadVars, chatPageVars, vars,
                      glosVars, tabVars, catVars, dataVars>>
  \/ part = "session" /\ TabNext
       /\ UNCHANGED <<part, state, threadVars, chatPageVars, vars,
                      glosVars, formVars, catVars, dataVars>>
  \/ part = "catalog" /\ CatNext
       /\ UNCHANGED <<part, state, threadVars, chatPageVars, vars,
                      glosVars, formVars, tabVars, dataVars>>
  \/ part = "data" /\ DataNext
       /\ UNCHANGED <<part, state, threadVars, chatPageVars, vars,
                      glosVars, formVars, tabVars, catVars>>

ClientSpec == ClientInit /\ [][ClientNext]_<<state, ownVars>>

\* A guard decides, and the session's GET and the key's check are answered.
Alone ==
  /\ part = "session"
  /\ UNCHANGED <<part, state, threadVars, chatPageVars, vars,
                 glosVars, formVars, catVars, dataVars>>
ClientFairSpec ==
  /\ ClientSpec
  /\ WF_<<state, ownVars>>(Alone /\ Initialize)
  /\ WF_<<state, ownVars>>(Alone /\ Decide)
  /\ WF_<<state, ownVars>>(Alone /\ SessionAnswer)
  /\ WF_<<state, ownVars>>(Alone /\ KeyAnswer)

----------------------------------------------------------------------------
(* The properties of the parts, each stated in its module.                 *)

\* The state of the parts that state it has its type.
ClientTypes ==
  /\ TypeOK /\ TabTypeOK /\ ThreadTypeOK
  /\ part = "Sidebar" => Sidebar!RoomTypeOK

\* A question that was taken is shown, unless something is overlaid
\* (MessagesService.sendMessage, editMessage); the panel opens for a library that is
\* written, and never over its user's decision, and the templates open beside the
\* menu they belong to (ChatSummaryComponent, ChatInputComponent).
TakenIsShown ==
  [][/\ ShowsTaken
     /\ part = "Menu" => Menu!KeepsCollapse /\ Menu!OpensBeside]_<<state, ownVars>>

\* The sort dialog saves what differs, no room is lost at the end of the list, and
\* none is there twice (RoomsService, the sort dialog).
PendingExact ==
  part = "Sidebar" => Sidebar!PendingExact /\ Sidebar!EndOfList /\ Sidebar!RoomOnce

\* A refused call is told to the user, by one handler (errorInterceptor, the
\* handlers), and the messages of a list have their texts, whichever of two
\* services failed (MessageContentsApiService).
RefusalTold ==
  /\ part = "Calls" => Calls!RefusalTold
  /\ part = "Body" => Body!NothingLost

\* What a bulk deletion takes is shown, local edits amount to a reload (the list
\* stores), the cards name their members (GroupListComponent), and a fresh entry of
\* the cache is what the service has (TenantApiService).
ListsWhole ==
  /\ part = "Admin" => Admin!ChosenShown /\ Admin!ShownIsStored
  /\ part = "Team" => Team!CardsNamed
  /\ part = "Query" => Query!FreshIsStored

\* Cards without members are filled in (GroupListComponent).
CardsFilled == part = "Team" => Team!CardsFilled

\* What a field or a filter shows is what its page was told (ComboboxMulti,
\* FormCombobox, Select, PeriodFilter, the lists' filters; MultiSelect but for the
\* two ways to drift that FormHeard names), and what is drawn is whole: the days of
\* a month, the pages around the current one, and a panel whose place is computed,
\* inside its window as far as PanelsInside says.
ControlsHeard ==
  /\ part = "Controls" =>
       Controls!PeriodHeard /\ Controls!CalendarWhole /\ Controls!PagesNamed
  /\ part = "Menu" => Menu!PanelsInside
  /\ part = "Fields" => Fields!FormHeard
  /\ part = "Filter" => Filter!AskedAsShown

\* A dialog submits what it was opened with where its user changed nothing, and
\* says why it refuses (the folder dialog, the dialogs of users, assistants,
\* categories and templates, the page for a new password of the React client, whose
\* user has his tenant: useAuthStore).
FormsWhole ==
  /\ EditKeepsFolder
  /\ part = "Edit" => Edit!EditedOnly /\ Edit!PasswordShown /\ Edit!RefusalExplained
  /\ part = "Proto" => Proto!HandedOver /\ Proto!RefusalHonest /\ Proto!TenantOfUser
=============================================================================
