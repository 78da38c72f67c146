----------------------------- MODULE MCAccounts -----------------------------
(* What a tenant is billed for and keeps, and who may come in, part by part: *)
(* a behaviour is one of the billing cycle, of the quota, of the files in an *)
(* index, of the indexes, of a library in an answer, of a user's passwords   *)
(* and sessions, or of what an object is linked to.  Contracts from every    *)
(* critical day are asked through a common and a leap February; at most one  *)
(* step for files leaves something behind.                                   *)
EXTENDS BillingCycle, CreditQuota, StoredFiles, LibraryStream, SignIn, Links

CONSTANT MaxBroken  \* bound: what failures and cascades leave behind

VARIABLE part

MCContracts ==
  {d \in {OnDay(y, m, x) : y \in {2022, 2023}, m \in {1, 2, 4, 12}, x \in {1, 15, 28, 29, 30, 31}} :
     Valid(d)}
MCFirstDay == OnDay(2022, 12, 28)
MCLastDay == OnDay(2024, 4, 2)

Fills == {<<>>, <<"x">>, <<" ", "x", " ">>, <<"<">>, <<"<", "<">>}
MCTexts ==
  LET T == Marker.BEFORE_TITLE
      C == Marker.IN_TITLE
      M == Marker.IN_CONTENT
  IN {p \o T \o a \o C \o b \o M \o c :
        p \in {<<>>, <<"<">>, <<"x">>}, a \in Fills, b \in Fills, c \in {<<>>, <<" ", "x">>}}
     \cup {T \o a \o C \o b : a \in Fills, b \in Fills}
     \cup {a \o b \o c : a \in {T, <<"x">>}, b \in {C, M, <<"x">>}, c \in {T, C, M}}

NobodyAsks ==
  /\ contract_start = MCFirstDay /\ today = MCFirstDay /\ period_start = MCFirstDay
  /\ loop = "none" /\ announced = NoPeriod
NobodySpends ==
  /\ used = 0 /\ extra = 0 /\ message = TRUE /\ patch = NoWork
  /\ pc = [r \in Requests |-> "idle"] /\ locals = [r \in Requests |-> NoWork]

NoIndexes == index = [i \in IndexIds |-> "new"] /\ issued = FileIds
OneIndex ==
  /\ issued = {}
  /\ index = [i \in IndexIds |-> IF i = (CHOOSE j \in IndexIds : TRUE) THEN "SAAS_GLOBAL"
                                ELSE "gone"]

\* What the parts do that a behaviour is not about.
NothingSaid == LibraryInit /\ rest = CHOOSE s \in Texts : TRUE
Idle(p) ==
  /\ IF p = "cycle" THEN CycleInit ELSE NobodyAsks
  /\ IF p = "quota" THEN QuotaInit ELSE NobodySpends
  /\ FilesInit /\ IF p = "files" THEN OneIndex ELSE NoIndexes
  /\ IF p = "library" THEN LibraryInit ELSE NothingSaid
  /\ SignInit /\ LinksInit

AccountsInit ==
  \E p \in {"cycle", "quota", "files", "indexes", "library", "sign", "links"} :
    part = p /\ Idle(p)

AccountsNext ==
  \/ /\ part = "cycle" /\ CycleNext
     /\ UNCHANGED <<part, quotaVars, fileVars, libraryVars, signVars, linkVars>>
  \/ /\ part = "quota" /\ QuotaNext
     /\ UNCHANGED <<part, cycleVars, fileVars, libraryVars, signVars, linkVars>>
  \/ /\ part \in {"files", "indexes"} /\ FilesNext /\ Cardinality(broken') <= MaxBroken
     /\ part = "files" => \A i \in IndexIds : index'[i] # "LOCAL"
     /\ UNCHANGED <<part, cycleVars, quotaVars, libraryVars, signVars, linkVars>>
  \/ /\ part = "library" /\ LibraryNext
     /\ UNCHANGED <<part, cycleVars, quotaVars, fileVars, signVars, linkVars>>
  \/ /\ part = "sign" /\ SignNext
     /\ UNCHANGED <<part, cycleVars, quotaVars, fileVars, libraryVars, linkVars>>
  \/ /\ part = "links" /\ LinksNext
     /\ UNCHANGED <<part, cycleVars, quotaVars, fileVars, libraryVars, signVars>>

accountVars ==
  <<part, cycleVars, quotaVars, fileVars, libraryVars, signVars, linkVars>>

AccountsSpec == AccountsInit /\ [][AccountsNext]_accountVars
=============================================================================
