----------------------------- MODULE TeamPages -----------------------------
(***************************************************************************)
(* The teams' page and a team's page.                                      *)
(*                                                                         *)
(* A visit to the teams' page looks up the names of users, assistants and  *)
(* templates, then loads the cards, then asks for the members of teams     *)
(* whose card lacks some.  The store outlives the page, and what a visit   *)
(* awaits goes on after it.  A card is a team, the version of it that the  *)
(* service listed, and whether its members are named or only identified.   *)
(***************************************************************************)
EXTENDS Integers, Sequences, SequencesExt, FiniteSets

CONSTANTS
  Teams,    \* the teams at first, in the order of the list
  Bare,     \* those that have no members of some kind
  NewTeam,  \* the team that is added
  MaxActs   \* bound on what the user does

VARIABLES
  role,     \* of the administrator: of the tenant, or of teams only
  page,     \* "list", or the team that is open
  visit,    \* the visits to the teams' page so far, each a component instance
  maps,     \* the open instance has looked the names up
  cards,    \* the store's items
  awaits,   \* what visits await: [visit, at, items]
  turns,    \* list GETs of a filter that go on
  team,     \* the team's page: [name, menu, dialog, ref, saving, instance]
  jobs,     \* submissions that go on
  svc,      \* the service: teams with their versions
  denied,   \* teams whose members the service refused to list
  acts      \* what the user did so far

teamVars == <<role, page, visit, maps, cards, awaits, turns, team, jobs, svc, denied, acts>>

AllOfThem == 1000   \* the page size of look-ups
GroupPageLimit == 100    \* what GET /admin/groups/{id}/users and its like accept
TenantPageLimit == 1000  \* what the tenant's lists accept

NoName == 0
Closed(n) == [name |-> NoName, menu |-> FALSE, dialog |-> "none", ref |-> 0,
              saving |-> FALSE, instance |-> n]

----------------------------------------------------------------------------
(* What the service answers.                                               *)

lists(size, limit) == size <= limit

\* GET /admin/users is for administrators of the tenant.
lookupAllowed == role = "admin" /\ lists(AllOfThem, TenantPageLimit)

\* A card as it is listed: members by name if the names are known, except for
\* administrators and users, whose names the answer has.
toViewModel(t, known) ==
  [id |-> t.id, v |-> t.v, named |-> known, lacks |-> t.id \in Bare, filled |-> FALSE]

listed(known) == [i \in DOMAIN svc |-> toViewModel(svc[i], known)]

hasMissingMembershipInfo(card) == card.lacks

----------------------------------------------------------------------------
(* A visit.                                                                *)

TeamInit ==
  /\ role \in {"admin", "groupAdmin"}
  /\ page = "list" /\ visit = 1 /\ maps = FALSE /\ cards = <<>>
  /\ awaits = {[visit |-> 1, at |-> "names", items |-> {}]}
  /\ turns = {} /\ team = Closed(-1) /\ jobs = {} /\ denied = {} /\ acts = 0
  /\ svc = [i \in DOMAIN Teams |-> [id |-> Teams[i], v |-> 1]]

Act == acts < MaxActs /\ acts' = acts + 1

\* ngOnInit of a new instance: setNameResolver and loadAndDisplay.
loadAndDisplay ==
  /\ page' = "list" /\ visit' = visit + 1 /\ maps' = FALSE
  /\ awaits' = awaits \cup {[visit |-> visit + 1, at |-> "names", items |-> {}]}

NamesSharedByVisits(w) ==
  /\ w.at = "names"
  /\ \E ok \in {FALSE, lookupAllowed} : maps' = ok
  /\ awaits' = (awaits \ {w}) \cup {[w EXCEPT !.at = "cards"]}
  /\ UNCHANGED <<role, page, visit, cards, turns, team, jobs, svc, denied, acts>>

\* loadNameResolverMaps, and then the load; without names the load as well.
NamesAnswered(w) ==
  /\ w.at = "names"
  /\ \E ok \in {FALSE, lookupAllowed} : maps' = IF w.visit = visit THEN ok ELSE maps
  /\ awaits' = (awaits \ {w}) \cup {[w EXCEPT !.at = "cards"]}
  /\ UNCHANGED <<role, page, visit, cards, turns, team, jobs, svc, denied, acts>>

\* The names are resolved by the instance that is open when the answer comes.
cardsAfter(ok) == IF ok THEN listed(maps) ELSE <<>>

hydrateMissingMembershipInfo(w, shown) ==
  LET items == {c \in ToSet(shown) : hasMissingMembershipInfo(c)}
  IN  (awaits \ {w}) \cup
        (IF items = {} THEN {} ELSE {[w EXCEPT !.at = "members", !.items = items]})

CardsAnswered(w) ==
  /\ w.at = "cards"
  /\ \E ok \in BOOLEAN :
       /\ cards' = cardsAfter(ok)
       /\ awaits' = hydrateMissingMembershipInfo(w, cardsAfter(ok))
  /\ UNCHANGED <<role, page, visit, maps, turns, team, jobs, svc, denied, acts>>

\* updateOne with the card as it was when the visit asked, its members filled in.
updateOne(shown, c) ==
  [i \in DOMAIN shown |->
     IF shown[i].id = c.id THEN [c EXCEPT !.lacks = FALSE, !.filled = TRUE] ELSE shown[i]]

\* hydrateGroupMembershipInfo: three lists of the team, all of them or nothing.
MembersAnswered(w) ==
  /\ w.at = "members"
  /\ \E c \in w.items :
       /\ IF lists(AllOfThem, GroupPageLimit)
          THEN cards' = updateOne(cards, c) /\ UNCHANGED denied
          ELSE denied' = denied \cup {c.id} /\ UNCHANGED cards
       /\ awaits' = (awaits \ {w}) \cup
                    (IF w.items = {c} THEN {} ELSE {[w EXCEPT !.items = @ \ {c}]})
  /\ UNCHANGED <<role, page, visit, maps, turns, team, jobs, svc, acts>>

----------------------------------------------------------------------------
(* The teams' page.                                                        *)

Dialog(kind) ==
  [team EXCEPT !.dialog = kind, !.ref = acts, !.menu = FALSE, !.saving = FALSE]

\* The store's updateFilter; nothing fills the cards of its answer.
onFilterChange ==
  /\ Act /\ page = "list" /\ team.dialog = "none"
  /\ turns' = turns \cup {acts}
  /\ UNCHANGED <<role, page, visit, maps, cards, awaits, team, jobs, svc, denied>>

TurnAnswered(n) ==
  /\ turns' = turns \ {n}
  /\ \E ok \in BOOLEAN : cards' = cardsAfter(ok)
  /\ UNCHANGED <<role, page, visit, maps, awaits, team, jobs, svc, denied, acts>>

\* Only for administrators of the tenant.
canCreateTeam == role = "admin"
onAddTeam ==
  /\ Act /\ page = "list" /\ team.dialog = "none" /\ canCreateTeam
  /\ team' = Dialog("add")
  /\ UNCHANGED <<role, page, visit, maps, cards, awaits, turns, jobs, svc, denied>>

addOne(t) == <<[id |-> t, v |-> 1, named |-> TRUE, lacks |-> TRUE, filled |-> FALSE]>> \o cards

\* detailLink: another page, another instance.
OpenTeam ==
  /\ Act /\ page = "list" /\ team.dialog = "none"
  /\ \E i \in DOMAIN cards :
       /\ page' = cards[i].id
       /\ jobs' = jobs \cup {[kind |-> "load", id |-> cards[i].id, ref |-> 0, instance |-> acts]}
  /\ team' = Closed(acts)
  /\ UNCHANGED <<role, visit, maps, cards, awaits, turns, svc, denied>>

----------------------------------------------------------------------------
(* A team's page.                                                          *)

goBack ==
  /\ Act /\ page # "list" /\ team.dialog = "none"
  /\ loadAndDisplay
  /\ team' = Closed(-visit')
  /\ UNCHANGED <<role, cards, turns, jobs, svc, denied>>

Team(t) ==
  /\ page # "list" /\ Act
  /\ team' = t
  /\ UNCHANGED <<role, page, visit, maps, cards, awaits, turns, jobs, svc, denied>>

toggleMenu == team.dialog = "none" /\ Team([team EXCEPT !.menu = ~@])
openEditDialog == team.menu /\ Team(Dialog("edit"))
openDeleteDialog == team.menu /\ Team(Dialog("delete"))

CloseDialog ==
  /\ team.dialog # "none"
  /\ team' = [team EXCEPT !.dialog = "none"]
  /\ UNCHANGED <<role, page, visit, maps, cards, awaits, turns, jobs, svc, denied, acts>>

\* The confirm button; the deletion may be pressed again.
Confirm ==
  /\ team.dialog # "none" /\ ~team.saving
  /\ jobs' = jobs \cup {[kind |-> team.dialog, ref |-> team.ref, instance |-> team.instance,
                         id |-> IF team.dialog = "add" THEN NewTeam ELSE page]}
  /\ team' = [team EXCEPT !.saving = team.dialog # "delete"]
  /\ UNCHANGED <<role, page, visit, maps, cards, awaits, turns, svc, denied, acts>>

Exists(id) == \E i \in DOMAIN svc : svc[i].id = id
version(id) == (CHOOSE t \in ToSet(svc) : t.id = id).v
Here(j) == team.instance = j.instance
Settled(t, j) ==
  IF ~Here(j) THEN t
  ELSE [t EXCEPT !.saving = FALSE, !.dialog = IF t.ref = j.ref THEN "none" ELSE @]

loadGroup(j) ==
  /\ j.kind = "load"
  /\ team' = IF Here(j) THEN [team EXCEPT !.name = IF Exists(j.id) THEN version(j.id) ELSE NoName]
             ELSE team
  /\ UNCHANGED <<page, visit, maps, cards, awaits, svc>>

submitAdd(j) ==
  /\ j.kind = "add" /\ ~Exists(j.id)
  /\ svc' = <<[id |-> j.id, v |-> 1]>> \o svc
  /\ cards' = addOne(j.id)
  /\ team' = Settled(team, j)
  /\ UNCHANGED <<page, visit, maps, awaits>>

submitEdit(j) ==
  /\ j.kind = "edit" /\ Exists(j.id)
  /\ svc' = [i \in DOMAIN svc |-> IF svc[i].id = j.id THEN [svc[i] EXCEPT !.v = @ + 1] ELSE svc[i]]
  /\ team' = [Settled(team, j) EXCEPT !.name = IF Here(j) THEN version(j.id) + 1 ELSE @]
  /\ UNCHANGED <<page, visit, maps, cards, awaits>>

\* It goes to the teams' page, from wherever the user is by then.
deleteGroup(j) ==
  /\ j.kind = "delete" /\ Exists(j.id)
  /\ svc' = SelectSeq(svc, LAMBDA t : t.id # j.id)
  /\ IF page = "list" THEN UNCHANGED <<page, visit, maps, awaits>> ELSE loadAndDisplay
  /\ team' = IF page = "list" THEN team ELSE Closed(-visit')
  /\ UNCHANGED cards

\* A refused submission leaves its dialog open; a load that fails no name.
Refused(j) ==
  /\ team' = IF ~Here(j) THEN team
             ELSE IF j.kind = "load" THEN [team EXCEPT !.name = NoName]
             ELSE [team EXCEPT !.saving = FALSE]
  /\ UNCHANGED <<page, visit, maps, cards, awaits, svc>>

JobEnds(j) ==
  /\ loadGroup(j) \/ submitAdd(j) \/ submitEdit(j) \/ deleteGroup(j) \/ Refused(j)
  /\ jobs' = jobs \ {j}
  /\ UNCHANGED <<role, turns, denied, acts>>

TeamNext ==
  \/ \E w \in awaits : NamesAnswered(w) \/ CardsAnswered(w) \/ MembersAnswered(w)
  \/ \E n \in turns : TurnAnswered(n)
  \/ \E j \in jobs : JobEnds(j)
  \/ onFilterChange \/ onAddTeam \/ OpenTeam \/ goBack
  \/ toggleMenu \/ openEditDialog \/ openDeleteDialog \/ CloseDialog \/ Confirm

TeamSpec == TeamInit /\ [][TeamNext]_teamVars

----------------------------------------------------------------------------

\* Once the open page has looked the names up and its own load has been answered,
\* every card names its members, whichever load of this or of an earlier visit was
\* answered last (GroupListComponent.loadAndDisplay, setNameResolver).
CardsNamed ==
  page = "list" /\ maps /\ (\A w \in awaits : w.visit = visit => w.at \notin {"names", "cards"})
    => \A i \in DOMAIN cards : cards[i].named

\* A card that lacks members is filled in from the team's own lists (GroupListComponent
\* and its test say so).  The code asks for 1000 rows where the service accepts 100.
CardsFilled == denied = {}
=============================================================================
