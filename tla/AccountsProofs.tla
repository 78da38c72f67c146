--------------------------- MODULE AccountsProofs ---------------------------
(***************************************************************************)
(* Proofs about what the service keeps of a tenant: who may come in and    *)
(* what is linked to what (SignIn, Links), what is billed (BillingCycle,   *)
(* CreditQuota) and which files are stored (StoredFiles).  The five share  *)
(* no variables.                                                           *)
(***************************************************************************)
EXTENDS BillingCycle, CreditQuota, StoredFiles, SignIn, Links, FiniteSetTheorems, TLAPS

-----------------------------------------------------------------------------
(***************************************************************************)
(* Proofs about SignIn, for any number of requests at a time, any          *)
(* passwords, sessions and length of the history that is kept.             *)
(*                                                                         *)
(* The inductive invariant SignInv: the rows of the history are ordered by *)
(* stamps of their own (History); the flag and the latest row fit unless   *)
(* two changes overlapped (LatestFits); what each request has read so far  *)
(* is still so unless it was overlapped (Knows); and sessions that are or  *)
(* were live have been opened (Sessions).                                  *)
(***************************************************************************)

Secrets == Passwords \cup Nat
Accounts == [account : Nat, reset : BOOLEAN]

\* The requests, by what they are about to do.
Changing == {"verify", "check", "save"}
Entering == {"latest", "judge", "open"}

Changes ==
  [op : {"reset", "profile", "issue"}, step : Changing, account : Nat,
   reset : BOOLEAN, row : Secrets, password : Secrets, stamp : Nat,
   session : {Nothing}, crossed : BOOLEAN]

Logins ==
  [op : {"reset", "login", "key"}, step : Entering, account : Nat,
   reset : BOOLEAN, row : PasswordRows \cup {Nothing}, password : Secrets \cup {Nothing},
   stamp : Nat, session : {Nothing}, crossed : BOOLEAN]

Touches ==
  [op : {"auth"}, step : {"touch"}, account : Nat, reset : BOOLEAN,
   row : {Nothing}, password : {Nothing}, stamp : Nat, session : SessionIds,
   crossed : BOOLEAN]

Logouts ==
  [op : {"logout"}, step : {"delete"}, session : SessionIds, crossed : BOOLEAN]

Jobs == Changes \cup Logins \cup Touches \cup Logouts

SignInTypes ==
  /\ user \in Accounts \cup {Nothing}
  /\ history \in SUBSET PasswordRows /\ IsFiniteSet(history)
  /\ clock \in Nat /\ crossed \in BOOLEAN
  /\ live \in SUBSET SessionIds /\ ended \in SUBSET SessionIds
  /\ opened \in [SessionIds -> Openings \cup {Nothing}]
  /\ cookie \in SessionIds \cup {Nothing}
  /\ doing \in [Calls -> Jobs \cup {Nothing}]

Is(c, S) == doing[c] # Nothing /\ doing[c].step \in S

\* The rows have stamps of their own, of transactions that have begun, and one of
\* them is the latest.
History ==
  /\ \A h \in history : h.stamp < clock
  /\ \A g, h \in history : g.stamp = h.stamp => g = h
  /\ history # {} => \E h \in history : Newer(h) = {}
  /\ user # Nothing => history # {}

\* What holds of the latest row unless two changes overlapped.
LatestFits ==
  user # Nothing /\ ~crossed =>
    \A h \in history : Newer(h) = {} =>
      /\ user.reset <=> h.kind = "issued"
      /\ h.kind = "chosen" =>
           \A g \in history :
             Cardinality(Newer(g)) \in 1..Kept => g.password # h.password

\* A change of the password has a stamp of its own.  One that no other overlapped
\* has read what is so, is later than all, and has compared with what is kept.
ChangeKnows(c) ==
  Is(c, Changing) =>
    /\ doing[c].stamp < clock
    /\ \A h \in history : h.stamp # doing[c].stamp
    /\ \A b \in Calls \ {c} : Is(b, Changing) => doing[b].stamp # doing[c].stamp
    /\ ~doing[c].crossed =>
         /\ user # Nothing /\ doing[c].reset = user.reset
         /\ \A h \in history : h.stamp < doing[c].stamp
         /\ doing[c].step = "save" /\ doing[c].op # "issue" =>
              doing[c].password \notin Recent(Kept)

\* A login that no change overlapped has read the flag that fits the latest row.
LoginKnows(c) ==
  Is(c, Entering) =>
    /\ doing[c].op = "reset" =>
         doing[c].step = "open" /\ doing[c].row \in PasswordRows /\ doing[c].row.kind = "chosen"
    /\ doing[c].op = "key" => doing[c].step = "open"
    /\ doing[c].op = "login" /\ ~doing[c].crossed =>
         /\ doing[c].step = "latest" =>
              user # Nothing /\ ~crossed /\ doing[c].reset = user.reset
         /\ doing[c].step = "judge" =>
              /\ doing[c].row \in PasswordRows
              /\ doing[c].reset <=> doing[c].row.kind = "issued"
         /\ doing[c].step = "open" =>
              doing[c].row \in PasswordRows /\ doing[c].row.kind = "chosen"

SessionKnows(c) == Is(c, {"touch", "delete"}) => opened[doing[c].session] # Nothing

Knows(c) == ChangeKnows(c) /\ LoginKnows(c) /\ SessionKnows(c)

\* Sessions were opened, and opened as they may be.
Sessions ==
  /\ live \cap ended = {}
  /\ \A s \in live \cup ended : opened[s] # Nothing
  /\ cookie # Nothing => opened[cookie] # Nothing
  /\ \A s \in SessionIds : opened[s] # Nothing =>
       \/ opened[s].op = "key" \/ opened[s].crossed
       \/ opened[s].row \in PasswordRows /\ opened[s].row.kind = "chosen"

SignInv ==
  /\ SignInTypes /\ History /\ LatestFits /\ Sessions
  /\ \A c \in Calls : Knows(c)

-----------------------------------------------------------------------------
(* What a request is                                                       *)

\* A request that is about to change a password is a change, and so on.
LEMMA JobKinds ==
  ASSUME NEW d \in Jobs
  PROVE  /\ d.step \in Changing => d \in Changes
         /\ d.step \in Entering => d \in Logins
         /\ d.step = "touch" => d \in Touches
         /\ d.step = "delete" => d \in Logouts
         /\ d.step \in Changing \cup Entering \cup {"touch", "delete"}
BY DEF Jobs, Changes, Logins, Touches, Logouts, Changing, Entering

\* Overlapped by another, it goes on as before.
LEMMA CrossedJob ==
  ASSUME NEW d \in Jobs, NEW e, e = [d EXCEPT !.crossed = TRUE]
  PROVE  /\ e \in Jobs /\ e.crossed /\ e.step = d.step /\ e.op = d.op
         /\ d \in Changes => e.stamp = d.stamp
         /\ d \in Logins => e.row = d.row
         /\ d \in Touches \cup Logouts => e.session = d.session
<1>1. CASE d \in Changes
  BY <1>1 DEF Jobs, Changes, Logins, Touches, Logouts, Changing, Entering
<1>2. CASE d \in Logins
  BY <1>2 DEF Jobs, Changes, Logins, Touches, Logouts, Changing, Entering
<1>3. CASE d \in Touches
  BY <1>3 DEF Jobs, Changes, Logins, Touches, Logouts, Changing, Entering
<1>4. CASE d \in Logouts
  BY <1>4 DEF Jobs, Changes, Logins, Touches, Logouts, Changing, Entering
<1> QED  BY <1>1, <1>2, <1>3, <1>4 DEF Jobs

-----------------------------------------------------------------------------
(* Steps that leave the passwords alone                                    *)

\* A step of one request that writes no password keeps what the others know.
LEMMA JobStep ==
  ASSUME SignInv, NEW c \in Calls, NEW d \in Jobs \cup {Nothing},
         doing' = [doing EXCEPT ![c] = d], UNCHANGED <<user, history, crossed>>,
         clock' \in Nat, clock <= clock',
         \A s \in SessionIds : opened[s] # Nothing => opened'[s] # Nothing,
         Is(c, Changing)' =>
           \/ Is(c, Changing) /\ d.stamp = doing[c].stamp
           \/ d.stamp = clock,
         Knows(c)'
  PROVE  /\ doing' \in [Calls -> Jobs \cup {Nothing}]
         /\ History' /\ LatestFits' /\ \A b \in Calls : Knows(b)'
<1>1. doing' \in [Calls -> Jobs \cup {Nothing}] /\ doing'[c] = d
  BY DEF SignInv, SignInTypes
<1>2. History' /\ LatestFits'
  <2>1. \A h \in history : h.stamp \in Nat
    BY DEF SignInv, SignInTypes, PasswordRows
  <2> QED  BY <2>1 DEF SignInv, SignInTypes, History, LatestFits, Newer
<1>3. ASSUME NEW b \in Calls, b # c  PROVE Knows(b)'
  <2>1. /\ doing'[b] = doing[b] /\ doing[b] \in Jobs \cup {Nothing} /\ Knows(b)
        /\ doing[c] \in Jobs \cup {Nothing} /\ clock \in Nat
    BY <1>3 DEF SignInv, SignInTypes
  <2>2. ChangeKnows(b)'
    <3>1. CASE Is(b, Changing)
      <4>1. doing[b] \in Changes /\ doing[b].stamp \in Nat /\ doing[b].stamp < clock
        BY <2>1, <3>1, JobKinds DEF Is, Changes, Knows, ChangeKnows
      <4>2. ASSUME NEW k \in Calls \ {b}, Is(k, Changing)'
            PROVE  doing'[k].stamp # doing'[b].stamp
        <5>1. CASE k = c
          BY <1>1, <2>1, <3>1, <4>1, <4>2, <5>1 DEF Knows, ChangeKnows
        <5>2. CASE k # c
          BY <2>1, <3>1, <4>2, <5>2 DEF Knows, ChangeKnows, Is, SignInv, SignInTypes
        <5> QED  BY <5>1, <5>2
      <4>3. Recent(Kept)' = Recent(Kept)
        BY DEF Recent, Newer
      <4>4. doing'[b].stamp < clock'
        BY <2>1, <4>1
      <4> QED  BY <2>1, <3>1, <4>2, <4>3, <4>4 DEF Knows, ChangeKnows, Is
    <3>2. CASE ~Is(b, Changing)
      BY <2>1, <3>2 DEF ChangeKnows, Is
    <3> QED  BY <3>1, <3>2
  <2>3. LoginKnows(b)'
    BY <2>1 DEF Knows, LoginKnows, Is
  <2>4. SessionKnows(b)'
    <3>1. Is(b, {"touch", "delete"}) => doing[b].session \in SessionIds
      BY <2>1, JobKinds DEF Is, Touches, Logouts
    <3> QED  BY <2>1, <3>1 DEF Knows, SessionKnows, Is
  <2> QED  BY <2>2, <2>3, <2>4 DEF Knows
<1> QED  BY <1>1, <1>2, <1>3

\* One that opens and closes no session either keeps the invariant.
LEMMA ReadStep ==
  ASSUME SignInv, NEW c \in Calls, NEW d \in Jobs \cup {Nothing},
         doing' = [doing EXCEPT ![c] = d], UNCHANGED <<user, history, crossed>>,
         UNCHANGED <<live, ended, opened, cookie>>,
         clock' \in Nat, clock <= clock',
         Is(c, Changing)' =>
           \/ Is(c, Changing) /\ d.stamp = doing[c].stamp
           \/ d.stamp = clock,
         Knows(c)'
  PROVE  SignInv'
<1>1. /\ doing' \in [Calls -> Jobs \cup {Nothing}]
      /\ History' /\ LatestFits' /\ \A b \in Calls : Knows(b)'
  BY JobStep
<1>2. Sessions'
  BY DEF SignInv, Sessions
<1> QED  BY <1>1, <1>2 DEF SignInv, SignInTypes

\* A request that is answered knows nothing any more.
LEMMA AnswerInv ==
  ASSUME SignInv, NEW c \in Calls, Answer(c), UNCHANGED <<user, history, crossed, clock>>,
         UNCHANGED <<live, ended, opened, cookie>>
  PROVE  SignInv'
<1>1. doing' = [doing EXCEPT ![c] = Nothing] /\ doing'[c] = Nothing
  BY DEF Answer, SignInv, SignInTypes
<1>2. Knows(c)' /\ ~Is(c, Changing)'
  BY <1>1 DEF Knows, ChangeKnows, LoginKnows, SessionKnows, Is
<1>3. clock' \in Nat /\ clock <= clock'
  BY DEF SignInv, SignInTypes
<1> QED  BY <1>1, <1>2, <1>3, ReadStep

\* A change that begins is later than all there is.
LEMMA BeginChangeInv ==
  ASSUME SignInv, NEW c \in Calls, NEW op \in {"reset", "profile", "issue"},
         NEW old \in Secrets, NEW new \in Passwords, BeginChange(c, op, old, new)
  PROVE  SignInv'
<1>1. /\ user \in Accounts /\ clock \in Nat /\ clock' = clock + 1
      /\ doing[c] = Nothing /\ UNCHANGED <<user, history, crossed>>
      /\ UNCHANGED <<live, ended, opened, cookie>>
  BY DEF BeginChange, Ask, SignInv, SignInTypes
<1>2. PICK step \in Changing, p \in Secrets :
        /\ step = IF op = "reset" THEN "verify" ELSE IF op = "issue" THEN "save" ELSE "check"
        /\ p = IF op = "issue" THEN clock ELSE new
        /\ step = "save" => op = "issue"
  BY <1>1 DEF Changing, Secrets
<1>3. PICK d : d = [Work(op, step) EXCEPT !.password = p, !.row = old, !.crossed = FALSE]
  OBVIOUS
<1>4. doing' = [doing EXCEPT ![c] = d]
  BY <1>2, <1>3 DEF BeginChange, Ask
<1>5. /\ d \in Changes /\ d.stamp = clock /\ ~d.crossed /\ d.reset = user.reset
      /\ d.step = "save" => d.op = "issue"
  BY <1>1, <1>2, <1>3 DEF Work, Changes, Accounts
<1>6. doing'[c] = d /\ d \in Jobs /\ d.step \in Changing
  BY <1>4, <1>5 DEF Jobs, Changes, SignInv, SignInTypes
<1>7. ChangeKnows(c)'
  <2>1. \A h \in history : h.stamp \in Nat /\ h.stamp < clock
    BY DEF SignInv, SignInTypes, History, PasswordRows
  <2>2. \A b \in Calls \ {c} : Is(b, Changing)' => doing'[b].stamp # clock
    <3> SUFFICES ASSUME NEW b \in Calls \ {c}, Is(b, Changing)'
                 PROVE  doing'[b].stamp # clock
      OBVIOUS
    <3>1. doing'[b] = doing[b] /\ ChangeKnows(b) /\ doing[b] \in Jobs \cup {Nothing}
      BY <1>4 DEF SignInv, SignInTypes, Knows
    <3>2. doing[b].stamp \in Nat /\ doing[b].stamp < clock
      BY <3>1, JobKinds DEF Is, Changes, ChangeKnows
    <3> QED  BY <1>1, <3>1, <3>2
  <2>3. user # Nothing
    BY DEF BeginChange
  <2> QED  BY <1>1, <1>5, <1>6, <2>1, <2>2, <2>3 DEF ChangeKnows
<1>8. Knows(c)'
  BY <1>6, <1>7 DEF Knows, LoginKnows, SessionKnows, Is, Changing, Entering
<1>9. clock' \in Nat /\ clock <= clock'
  BY <1>1
<1> QED  BY <1>1, <1>4, <1>5, <1>6, <1>8, <1>9, ReadStep

\* It goes on to the next of its steps, knowing what it knew and, when it has
\* compared, that the password is none of those kept.
LEMMA ChangeGoesOn ==
  ASSUME SignInv, NEW c \in Calls, NEW step \in Changing, Is(c, Changing),
         Then(c, step), UNCHANGED <<user, history, crossed, clock>>,
         UNCHANGED <<live, ended, opened, cookie>>,
         step = "save" => doing[c].password \notin Recent(Kept)
  PROVE  SignInv'
<1>1. doing[c] \in Changes /\ ChangeKnows(c) /\ clock \in Nat
  BY JobKinds DEF SignInv, SignInTypes, Is, Knows
<1>2. PICK d : d = [doing[c] EXCEPT !.step = step]
  OBVIOUS
<1>3. doing' = [doing EXCEPT ![c] = d]
  BY <1>2 DEF Then
<1>4. /\ d \in Changes /\ d.step = step /\ d.stamp = doing[c].stamp
      /\ d.crossed = doing[c].crossed /\ d.reset = doing[c].reset
      /\ d.op = doing[c].op /\ d.password = doing[c].password
  BY <1>1, <1>2 DEF Changes
<1>5. doing'[c] = d /\ d \in Jobs
  BY <1>3, <1>4 DEF Jobs, SignInv, SignInTypes
<1>6. ChangeKnows(c)'
  <2>1. \A b \in Calls \ {c} : doing'[b] = doing[b]
    BY <1>3 DEF SignInv, SignInTypes
  <2>2. Recent(Kept)' = Recent(Kept)
    BY DEF Recent, Newer
  <2> QED  BY <1>1, <1>4, <1>5, <2>1, <2>2 DEF ChangeKnows, Is
<1>7. Knows(c)'
  BY <1>4, <1>5, <1>6 DEF Knows, LoginKnows, SessionKnows, Is, Changing, Entering
<1>8. clock' \in Nat /\ clock <= clock'
  BY <1>1
<1> QED  BY <1>3, <1>4, <1>5, <1>7, <1>8, ReadStep

\* The old password is verified, or the request is answered.
LEMMA VerifyOldInv ==
  ASSUME SignInv, NEW c \in Calls, VerifyOld(c)  PROVE SignInv'
<1>1. Is(c, Changing) /\ "check" \in Changing
  BY DEF VerifyOld, At, Is, Changing
<1> QED  BY <1>1, ChangeGoesOn, AnswerInv DEF VerifyOld

\* The new one is compared with those that are kept.
LEMMA CheckReuseInv ==
  ASSUME SignInv, NEW c \in Calls, CheckReuse(c)  PROVE SignInv'
<1>1. Is(c, Changing) /\ "save" \in Changing
  BY DEF CheckReuse, At, Is, Changing
<1> QED  BY <1>1, ChangeGoesOn, AnswerInv DEF CheckReuse

-----------------------------------------------------------------------------
(* Logins                                                                  *)

\* A login that begins knows the flag.
LEMMA LoginInv ==
  ASSUME SignInv, NEW c \in Calls, Login(c) \/ LoginWithKey(c)  PROVE SignInv'
<1>1. /\ user \in Accounts /\ user # Nothing /\ clock \in Nat /\ crossed \in BOOLEAN
      /\ UNCHANGED <<user, history, crossed, clock>>
      /\ UNCHANGED <<live, ended, opened, cookie>>
  BY DEF Login, LoginWithKey, SignInv, SignInTypes
<1>2. PICK op \in {"login", "key"}, step \in {"latest", "open"} :
        /\ op = "login" => step = "latest"
        /\ op = "key" => step = "open"
        /\ doing' = [doing EXCEPT ![c] = Work(op, step)]
  BY DEF Login, LoginWithKey, Ask
<1>3. PICK d : d = Work(op, step)
  OBVIOUS
<1>4. /\ d \in Logins /\ d.op = op /\ d.step = step /\ d.reset = user.reset
      /\ d.crossed = crossed
  BY <1>1, <1>3 DEF Work, Logins, Entering, Accounts
<1>5. doing'[c] = d /\ d \in Jobs /\ doing' = [doing EXCEPT ![c] = d]
  BY <1>2, <1>3, <1>4 DEF Jobs, SignInv, SignInTypes
<1>6. Knows(c)' /\ ~Is(c, Changing)'
  BY <1>1, <1>2, <1>4, <1>5
     DEF Knows, ChangeKnows, LoginKnows, SessionKnows, Is, Changing, Entering
<1>7. clock' \in Nat /\ clock <= clock'
  BY <1>1
<1> QED  BY <1>1, <1>5, <1>6, <1>7, ReadStep

\* The latest row is a row that none is newer than.
LEMMA LatestRow ==
  ASSUME SignInv, history # {}
  PROVE  Latest \in history /\ Latest \in PasswordRows /\ Newer(Latest) = {}
<1>1. \E h \in history : Newer(h) = {}
  BY DEF SignInv, History
<1> QED  BY <1>1 DEF Latest, SignInv, SignInTypes

\* A login that no change overlapped reads the row that fits the flag.
LEMMA LoadLatestInv ==
  ASSUME SignInv, NEW c \in Calls, LoadLatest(c)  PROVE SignInv'
<1>1. /\ doing[c] \in Logins /\ doing[c].step = "latest" /\ LoginKnows(c)
      /\ UNCHANGED <<user, history, crossed, clock>>
      /\ UNCHANGED <<live, ended, opened, cookie>>
  BY JobKinds DEF LoadLatest, At, SignInv, SignInTypes, Entering, Knows
<1>2. CASE Answer(c)
  BY <1>1, <1>2, AnswerInv
<1>3. CASE /\ history # {}
           /\ doing' = [doing EXCEPT ![c].step = "judge", ![c].row = Latest]
  <2>1. PICK r \in PasswordRows : r = Latest /\ r \in history /\ Newer(r) = {}
    BY <1>3, LatestRow
  <2>2. PICK d : d = [doing[c] EXCEPT !.step = "judge", !.row = r]
    OBVIOUS
  <2>3. doing' = [doing EXCEPT ![c] = d]
    BY <1>3, <2>1, <2>2
  <2>4. /\ d \in Logins /\ d.step = "judge" /\ d.row = r /\ d.op = doing[c].op
        /\ d.crossed = doing[c].crossed /\ d.reset = doing[c].reset
    BY <1>1, <2>1, <2>2 DEF Logins, Entering
  <2>5. doing'[c] = d /\ d \in Jobs
    BY <2>3, <2>4 DEF Jobs, SignInv, SignInTypes
  <2>6. d.op \notin {"reset", "key"}
    BY <1>1, <2>4 DEF LoginKnows, Is, Entering, LoadLatest, At
  <2>7. d.op = "login" /\ ~d.crossed => (d.reset <=> r.kind = "issued")
    <3>1. d.op = "login" /\ ~d.crossed => user # Nothing /\ ~crossed /\ d.reset = user.reset
      BY <1>1, <2>4 DEF LoginKnows, Is, Entering, LoadLatest, At
    <3> QED  BY <2>1, <3>1 DEF SignInv, LatestFits
  <2>8. Knows(c)' /\ ~Is(c, Changing)'
    BY <2>1, <2>4, <2>5, <2>6, <2>7
       DEF Knows, ChangeKnows, LoginKnows, SessionKnows, Is, Changing, Entering
  <2>9. clock' \in Nat /\ clock <= clock'
    BY <1>1 DEF SignInv, SignInTypes
  <2> QED  BY <1>1, <2>3, <2>5, <2>8, <2>9, ReadStep
<1> QED  BY <1>2, <1>3 DEF LoadLatest

\* It goes on only with a password that was chosen.
LEMMA JudgeInv ==
  ASSUME SignInv, NEW c \in Calls, Judge(c)  PROVE SignInv'
<1>1. /\ doing[c] \in Logins /\ doing[c].step = "judge" /\ LoginKnows(c)
      /\ UNCHANGED <<user, history, crossed, clock>>
      /\ UNCHANGED <<live, ended, opened, cookie>>
  BY JobKinds DEF Judge, At, SignInv, SignInTypes, Entering, Knows
<1>2. CASE Answer(c)
  BY <1>1, <1>2, AnswerInv
<1>3. CASE ~doing[c].reset /\ Then(c, "open")
  <2>1. PICK d : d = [doing[c] EXCEPT !.step = "open"]
    OBVIOUS
  <2>2. doing' = [doing EXCEPT ![c] = d]
    BY <1>3, <2>1 DEF Then
  <2>3. /\ d \in Logins /\ d.step = "open" /\ d.row = doing[c].row /\ d.op = doing[c].op
        /\ d.crossed = doing[c].crossed
    BY <1>1, <2>1 DEF Logins, Entering
  <2>4. doing'[c] = d /\ d \in Jobs
    BY <2>2, <2>3 DEF Jobs, SignInv, SignInTypes
  <2>5. /\ d.op # "reset"
        /\ d.op = "login" /\ ~d.crossed => d.row \in PasswordRows /\ d.row.kind = "chosen"
    BY <1>1, <1>3, <2>3 DEF LoginKnows, Is, Entering, Judge, At, PasswordRows
  <2>6. Knows(c)' /\ ~Is(c, Changing)'
    BY <2>3, <2>4, <2>5
       DEF Knows, ChangeKnows, LoginKnows, SessionKnows, Is, Changing, Entering
  <2>7. clock' \in Nat /\ clock <= clock'
    BY <1>1 DEF SignInv, SignInTypes
  <2> QED  BY <1>1, <2>2, <2>4, <2>6, <2>7, ReadStep
<1> QED  BY <1>2, <1>3 DEF Judge

-----------------------------------------------------------------------------
(* Sessions                                                                *)

\* A session is opened for a login or a reset with what it knows; its id is new.
LEMMA IssueSessionInv ==
  ASSUME SignInv, NEW c \in Calls, IssueSession(c)  PROVE SignInv'
<1>1. /\ doing[c] \in Logins /\ doing[c].step = "open" /\ LoginKnows(c) /\ Answer(c)
      /\ UNCHANGED <<user, history, crossed, clock, ended>>
      /\ Is(c, Entering)
  BY JobKinds DEF IssueSession, At, SignInv, SignInTypes, Entering, Knows, Is
<1>2. CASE UNCHANGED <<opened, live, cookie>>
  BY <1>1, <1>2, AnswerInv
<1>3. ASSUME NEW s \in SessionIds, opened[s] = Nothing,
             opened' = [opened EXCEPT ![s] = [op |-> doing[c].op, row |-> doing[c].row,
                                              crossed |-> doing[c].crossed]],
             live' = live \cup {s}, cookie' = s
      PROVE  SignInv'
  <2>1. PICK o : o = [op |-> doing[c].op, row |-> doing[c].row, crossed |-> doing[c].crossed]
    OBVIOUS
  <2>2. o \in Openings /\ o # Nothing
    BY <1>1, <2>1, SignInAssumption DEF Logins, Openings
  <2>3. /\ opened' \in [SessionIds -> Openings \cup {Nothing}] /\ opened'[s] = o
        /\ \A k \in SessionIds \ {s} : opened'[k] = opened[k]
    BY <1>3, <2>1, <2>2 DEF SignInv, SignInTypes
  <2>4. \A k \in SessionIds : opened[k] # Nothing => opened'[k] # Nothing
    BY <1>3, <2>3
  <2>5. \/ o.op = "key" \/ o.crossed
        \/ o.row \in PasswordRows /\ o.row.kind = "chosen"
    BY <1>1, <2>1 DEF LoginKnows, Logins
  <2>6. Sessions'
    <3>1. live' \cap ended' = {}
      BY <1>1, <1>3 DEF SignInv, Sessions
    <3>2. \A k \in live' \cup ended' : opened'[k] # Nothing
      BY <1>1, <1>3, <2>2, <2>3, <2>4 DEF SignInv, SignInTypes, Sessions
    <3>3. \A k \in SessionIds : opened'[k] # Nothing =>
            \/ opened'[k].op = "key" \/ opened'[k].crossed
            \/ opened'[k].row \in PasswordRows /\ opened'[k].row.kind = "chosen"
      BY <2>3, <2>5 DEF SignInv, Sessions
    <3> QED  BY <1>3, <2>2, <2>3, <3>1, <3>2, <3>3 DEF Sessions
  <2>7. doing' = [doing EXCEPT ![c] = Nothing] /\ doing'[c] = Nothing
    BY <1>1 DEF Answer, SignInv, SignInTypes
  <2>8. Knows(c)' /\ ~Is(c, Changing)'
    BY <2>7 DEF Knows, ChangeKnows, LoginKnows, SessionKnows, Is
  <2>9. clock' \in Nat /\ clock <= clock'
    BY <1>1 DEF SignInv, SignInTypes
  <2>10. /\ doing' \in [Calls -> Jobs \cup {Nothing}]
         /\ History' /\ LatestFits' /\ \A b \in Calls : Knows(b)'
    BY <1>1, <2>4, <2>7, <2>8, <2>9, JobStep
  <2>11. live' \in SUBSET SessionIds /\ cookie' \in SessionIds
    BY <1>3 DEF SignInv, SignInTypes
  <2> QED  BY <1>1, <2>3, <2>6, <2>9, <2>10, <2>11 DEF SignInv, SignInTypes
<1> QED  BY <1>2, <1>3 DEF IssueSession

\* A request that carries a session carries one that was opened.
LEMMA CarryInv ==
  ASSUME SignInv, NEW c \in Calls, Authenticate(c) \/ BeginLogout(c)  PROVE SignInv'
<1>1. /\ cookie \in SessionIds /\ opened[cookie] # Nothing /\ clock \in Nat
      /\ UNCHANGED <<user, history, crossed, clock>>
      /\ UNCHANGED <<live, ended, opened, cookie>>
  BY DEF Authenticate, BeginLogout, SignInv, SignInTypes, Sessions
<1>2. PICK d \in Touches \cup Logouts :
        /\ d.session = cookie /\ d.step \in {"touch", "delete"}
        /\ doing' = [doing EXCEPT ![c] = d]
  <2>1. CASE Authenticate(c)
    <3>1. PICK d : d = [Work("auth", "touch") EXCEPT !.session = cookie]
      OBVIOUS
    <3>2. d \in Touches /\ d.session = cookie /\ d.step = "touch"
      BY <1>1, <2>1, <3>1 DEF Work, Touches, Accounts, Authenticate, SignInv, SignInTypes
    <3> QED  BY <2>1, <3>1, <3>2 DEF Authenticate, Ask
  <2>2. CASE BeginLogout(c)
    <3>1. PICK d : d = [op |-> "logout", step |-> "delete", session |-> cookie,
                        crossed |-> FALSE]
      OBVIOUS
    <3>2. d \in Logouts /\ d.session = cookie /\ d.step = "delete"
      BY <1>1, <3>1 DEF Logouts
    <3> QED  BY <2>2, <3>1, <3>2 DEF BeginLogout, Ask
  <2> QED  BY <2>1, <2>2
<1>3. doing'[c] = d /\ d \in Jobs
  BY <1>2 DEF Jobs, SignInv, SignInTypes
<1>4. Knows(c)' /\ ~Is(c, Changing)'
  BY <1>1, <1>2, <1>3
     DEF Knows, ChangeKnows, LoginKnows, SessionKnows, Is, Changing, Entering
<1>5. clock' \in Nat /\ clock <= clock'
  BY <1>1
<1> QED  BY <1>1, <1>2, <1>3, <1>4, <1>5, ReadStep

\* A session that ends was opened, and is live no longer.
LEMMA EndInv ==
  ASSUME SignInv, UNCHANGED <<user, history, crossed, clock, opened>>,
         NEW s \in SessionIds, opened[s] # Nothing,
         \/ UNCHANGED <<live, ended>>
         \/ live' = live \ {s} /\ ended' = ended \cup {s},
         cookie' \in {s, cookie, Nothing},
         (\E c \in Calls : Answer(c)) \/ UNCHANGED doing
  PROVE  SignInv'
<1>1. Sessions'
  BY DEF SignInv, Sessions
<1>2. /\ doing' \in [Calls -> Jobs \cup {Nothing}]
      /\ History' /\ LatestFits' /\ \A b \in Calls : Knows(b)'
  <2>1. clock' \in Nat /\ clock <= clock'
    BY DEF SignInv, SignInTypes
  <2>2. CASE UNCHANGED doing
    BY <2>2 DEF SignInv, SignInTypes, History, LatestFits, Newer, Knows, ChangeKnows,
       LoginKnows, SessionKnows, Is, Recent
  <2>3. ASSUME NEW c \in Calls, Answer(c)
        PROVE  /\ doing' \in [Calls -> Jobs \cup {Nothing}]
               /\ History' /\ LatestFits' /\ \A b \in Calls : Knows(b)'
    <3>1. doing' = [doing EXCEPT ![c] = Nothing] /\ doing'[c] = Nothing
      BY <2>3 DEF Answer, SignInv, SignInTypes
    <3>2. Knows(c)' /\ ~Is(c, Changing)'
      BY <3>1 DEF Knows, ChangeKnows, LoginKnows, SessionKnows, Is
    <3> QED  BY <2>1, <3>1, <3>2, JobStep
  <2> QED  BY <2>2, <2>3
<1> QED  BY <1>1, <1>2 DEF SignInv, SignInTypes

\* Extending a session brings none back.
LEMMA TouchInv ==
  ASSUME SignInv, NEW c \in Calls, Touch(c)  PROVE SignInv'
<1>1. doing[c] \in Touches /\ SessionKnows(c) /\ Is(c, {"touch", "delete"})
  BY JobKinds DEF Touch, At, Is, SignInv, SignInTypes, Knows
<1>2. doing[c].session \in SessionIds /\ opened[doing[c].session] # Nothing
  BY <1>1 DEF Touches, SessionKnows
<1> QED  BY <1>2, EndInv DEF Touch

\* Neither does a logout.
LEMMA LogoutInv ==
  ASSUME SignInv, NEW c \in Calls, Logout(c)  PROVE SignInv'
<1>1. doing[c] \in Logouts /\ SessionKnows(c) /\ Is(c, {"touch", "delete"})
  BY JobKinds DEF Logout, At, Is, SignInv, SignInTypes, Knows
<1>2. doing[c].session \in SessionIds /\ opened[doing[c].session] # Nothing
  BY <1>1 DEF Logouts, SessionKnows
<1> QED  BY <1>2, EndInv DEF Logout

\* Nor the end of its lifetime.
LEMMA ExpireInv ==
  ASSUME SignInv, NEW s \in SessionIds, Expire(s)  PROVE SignInv'
<1>1. opened[s] # Nothing
  BY DEF Expire, SignInv, Sessions
<1> QED  BY <1>1, EndInv DEF Expire

-----------------------------------------------------------------------------
(* Steps that write passwords                                              *)

\* What a step that writes the history leaves of those it overlaps: they go on,
\* and what they know of the rows' stamps is still so.
LEMMA CrossStep ==
  ASSUME SignInv, NEW c \in Calls, NEW w \in Logins \cup {Nothing},
         CrossOthers(c, w), UNCHANGED opened, clock' \in Nat, clock <= clock',
         \A h \in history' :
           \/ h \in history \/ h.stamp = clock
           \/ Is(c, Changing) /\ h.stamp = doing[c].stamp,
         LoginKnows(c)'
  PROVE  doing' \in [Calls -> Jobs \cup {Nothing}] /\ \A b \in Calls : Knows(b)'
<1>1. \A b \in Calls : doing'[b] =
        IF b = c THEN w ELSE IF doing[b] = Nothing THEN Nothing
        ELSE [doing[b] EXCEPT !.crossed = TRUE]
  BY DEF CrossOthers
<1>2. /\ doing'[c] = w /\ ~Is(c, Changing)' /\ ~Is(c, {"touch", "delete"})'
      /\ w \in Jobs \cup {Nothing}
  BY <1>1 DEF Is, Logins, Changing, Entering, Jobs
<1>3. ASSUME NEW b \in Calls, b # c, doing[b] # Nothing
      PROVE  /\ doing[b] \in Jobs /\ Knows(b)
             /\ doing'[b] \in Jobs /\ doing'[b].crossed
             /\ doing'[b].step = doing[b].step /\ doing'[b].op = doing[b].op
             /\ doing[b] \in Changes => doing'[b].stamp = doing[b].stamp
             /\ doing[b] \in Logins => doing'[b].row = doing[b].row
             /\ doing[b] \in Touches \cup Logouts => doing'[b].session = doing[b].session
  <2>1. doing[b] \in Jobs /\ Knows(b)
    BY <1>3 DEF SignInv, SignInTypes
  <2>2. doing'[b] = [doing[b] EXCEPT !.crossed = TRUE]
    BY <1>1, <1>3
  <2> QED  BY <2>1, <2>2, CrossedJob
<1>4. ASSUME NEW b \in Calls  PROVE doing'[b] \in Jobs \cup {Nothing}
  BY <1>1, <1>2, <1>3
<1>5. ASSUME NEW b \in Calls  PROVE Knows(b)'
  <2>1. CASE b = c
    BY <1>2, <2>1 DEF Knows, ChangeKnows, SessionKnows
  <2>2. CASE b # c /\ doing[b] = Nothing
    BY <1>1, <2>2 DEF Knows, ChangeKnows, LoginKnows, SessionKnows, Is
  <2>3. CASE b # c /\ doing[b] # Nothing
    <3>1. ChangeKnows(b)'
      <4>1. CASE Is(b, Changing)
        <5>1. /\ doing[b] \in Changes /\ doing[b].stamp \in Nat
              /\ doing[b].stamp < clock /\ doing'[b].stamp = doing[b].stamp
          BY <1>3, <2>3, <4>1, JobKinds DEF Is, Changes, Knows, ChangeKnows
        <5>2. ASSUME NEW k \in Calls \ {b}, Is(k, Changing)'
              PROVE  doing'[k].stamp # doing'[b].stamp
          <6>1. k # c /\ doing[k] # Nothing
            BY <1>1, <1>2, <5>2 DEF Is
          <6>2. Is(k, Changing) /\ doing'[k].stamp = doing[k].stamp
            BY <1>3, <5>2, <6>1, JobKinds DEF Is
          <6> QED  BY <1>3, <2>3, <4>1, <5>1, <6>2 DEF Knows, ChangeKnows
        <5>3. \A h \in history' : h.stamp # doing'[b].stamp
          <6>1. /\ \A h \in history : h.stamp # doing[b].stamp
                /\ Is(c, Changing) => doing[c].stamp # doing[b].stamp
            BY <1>3, <2>3, <4>1 DEF Knows, ChangeKnows
          <6>2. clock # doing[b].stamp
            BY <5>1
          <6> QED  BY <5>1, <6>1, <6>2
        <5>4. doing'[b].stamp < clock'
          BY <5>1 DEF SignInv, SignInTypes
        <5> QED  BY <1>3, <2>3, <5>2, <5>3, <5>4 DEF ChangeKnows
      <4>2. CASE ~Is(b, Changing)
        BY <1>3, <2>3, <4>2 DEF ChangeKnows, Is
      <4> QED  BY <4>1, <4>2
    <3>2. LoginKnows(b)'
      BY <1>3, <2>3, JobKinds DEF Knows, LoginKnows, Is
    <3>3. SessionKnows(b)'
      BY <1>3, <2>3, JobKinds DEF Knows, SessionKnows, Is
    <3> QED  BY <3>1, <3>2, <3>3 DEF Knows
  <2> QED  BY <2>1, <2>2, <2>3
<1> QED  BY <1>4, <1>5 DEF CrossOthers

\* A row written by a change is the latest one, and fits, unless it was overlapped:
\* then nothing is said of it.
LEMMA RowWritten ==
  ASSUME SignInv, NEW c \in Calls, doing[c] \in Changes, Is(c, Changing),
         doing[c].step = "save", user # Nothing, NEW n \in PasswordRows,
         n.stamp = doing[c].stamp, n.password = doing[c].password,
         n.kind = IF doing[c].op = "issue" THEN "issued" ELSE "chosen",
         history' = history \cup {n}, UNCHANGED clock, user' \in Accounts,
         user'.reset = IF doing[c].reset = (doing[c].op = "issue")
                       THEN user.reset ELSE (doing[c].op = "issue"),
         crossed' = doing[c].crossed
  PROVE  history' \in SUBSET PasswordRows /\ IsFiniteSet(history')
         /\ History' /\ LatestFits'
<1>1. /\ history \subseteq PasswordRows /\ IsFiniteSet(history) /\ History /\ ChangeKnows(c)
      /\ clock \in Nat /\ user \in Accounts
  BY DEF SignInv, SignInTypes, Knows
<1>2. /\ n.stamp \in Nat /\ n.stamp < clock /\ \A h \in history : h.stamp # n.stamp
      /\ n \notin history
  BY <1>1 DEF ChangeKnows, PasswordRows
<1>3. \A h \in history : h.stamp \in Nat
  BY <1>1 DEF PasswordRows
<1>4. history' \in SUBSET PasswordRows /\ IsFiniteSet(history')
  BY <1>1, FS_AddElement
<1>5. \A h \in history' : Newer(h)' = Newer(h) \cup (IF n.stamp > h.stamp THEN {n} ELSE {})
  BY DEF Newer
<1>6. History'
  <2>1. PICK h \in history : Newer(h) = {}
    BY <1>1 DEF History
  <2>2. \E g \in history' : Newer(g)' = {}
    <3>1. CASE n.stamp > h.stamp
      <4>1. \A g \in history : ~(g.stamp > h.stamp)
        BY <2>1 DEF Newer
      <4>2. Newer(n)' = {}
        BY <1>2, <1>3, <3>1, <4>1 DEF Newer
      <4> QED  BY <4>2
    <3>2. CASE ~(n.stamp > h.stamp)
      BY <1>5, <2>1, <3>2
    <3> QED  BY <3>1, <3>2
  <2> QED  BY <1>1, <1>2, <2>2 DEF History
<1>7. LatestFits'
  <2> SUFFICES ASSUME ~doing[c].crossed, NEW h \in history', Newer(h)' = {}
               PROVE  /\ user'.reset <=> h.kind = "issued"
                      /\ h.kind = "chosen" =>
                           \A g \in history' :
                             Cardinality(Newer(g)') \in 1..Kept => g.password # h.password
    BY DEF LatestFits
  <2>1. /\ doing[c].reset = user.reset /\ \A g \in history : g.stamp < n.stamp
        /\ doing[c].op # "issue" => n.password \notin Recent(Kept)
    BY <1>1 DEF ChangeKnows
  <2>2. h = n
    <3>1. ~(n.stamp > h.stamp)
      BY DEF Newer
    <3> QED  BY <1>2, <1>3, <2>1, <3>1
  <2>3. user'.reset <=> n.kind = "issued"
    BY <1>1, <2>1 DEF Accounts
  <2>4. ASSUME n.kind = "chosen", NEW g \in history', Cardinality(Newer(g)') \in 1..Kept
        PROVE  g.password # n.password
    <3>1. CASE g = n
      <4>1. Newer(n)' = {}
        BY <2>2
      <4>2. Cardinality(Newer(g)') = 0
        BY <3>1, <4>1, FS_EmptySet
      <4> QED  BY <2>4, <4>2
    <3>2. CASE g \in history
      <4>1. Newer(g)' = Newer(g) \cup {n} /\ Newer(g) \subseteq history
        BY <1>2, <1>3, <1>5, <2>1, <3>2 DEF Newer
      <4>2. IsFiniteSet(Newer(g)) /\ n \notin Newer(g)
        BY <1>1, <1>2, <4>1, FS_Subset
      <4>3. /\ Cardinality(Newer(g)') = Cardinality(Newer(g)) + 1
            /\ Cardinality(Newer(g)) \in Nat
        BY <4>1, <4>2, FS_AddElement, FS_CardinalityType
      <4>4. Cardinality(Newer(g)) < Kept
        BY <2>4, <4>3, SignInAssumption
      <4>5. g.password \in Recent(Kept)
        BY <3>2, <4>4 DEF Recent
      <4> QED  BY <2>1, <2>4, <4>5
    <3> QED  BY <3>1, <3>2
  <2> QED  BY <2>2, <2>3, <2>4
<1> QED  BY <1>4, <1>6, <1>7

\* A change that is saved crosses all that are under way.
LEMMA SavePasswordInv ==
  ASSUME SignInv, NEW c \in Calls, SavePassword(c)  PROVE SignInv'
<1>1. /\ doing[c] \in Changes /\ doing[c].step = "save" /\ Is(c, Changing)
      /\ UNCHANGED <<clock, live, ended, opened, cookie>>
  BY JobKinds DEF SavePassword, At, Is, SignInv, SignInTypes, Changing
<1>2. CASE Answer(c) /\ UNCHANGED <<user, history, crossed>>
  BY <1>1, <1>2, AnswerInv
<1>3. CASE ~(Answer(c) /\ UNCHANGED <<user, history, crossed>>)
  <2>1. PICK k \in {"issued", "chosen"} :
          k = IF doing[c].op = "issue" THEN "issued" ELSE "chosen"
    OBVIOUS
  <2>2. PICK n : n = Row(doing[c].password, k, doing[c].stamp)
    OBVIOUS
  <2>3. /\ n \in PasswordRows /\ n.stamp = doing[c].stamp /\ n.kind = k
        /\ n.password = doing[c].password
    BY <1>1, <2>2 DEF Row, PasswordRows, Changes, Secrets
  <2>4. PICK w :
          w = IF doing[c].op = "reset"
              THEN [doing[c] EXCEPT !.step = "open",
                                    !.row = Row(doing[c].password, "chosen", doing[c].stamp)]
              ELSE Nothing
    OBVIOUS
  <2>5. /\ user # Nothing /\ history' = history \cup {n}
        /\ user' = [user EXCEPT !.reset = IF doing[c].reset = (doing[c].op = "issue")
                                          THEN @ ELSE (doing[c].op = "issue")]
        /\ crossed' = doing[c].crossed /\ CrossOthers(c, w)
    BY <1>3, <2>1, <2>2, <2>4 DEF SavePassword
  <2>6. /\ user' \in Accounts
        /\ user'.reset = IF doing[c].reset = (doing[c].op = "issue")
                         THEN user.reset ELSE (doing[c].op = "issue")
    BY <2>5 DEF SignInv, SignInTypes, Accounts
  <2>7. /\ history' \in SUBSET PasswordRows /\ IsFiniteSet(history')
        /\ History' /\ LatestFits'
    BY <1>1, <2>1, <2>3, <2>5, <2>6, RowWritten
  <2>8. /\ w \in Logins \cup {Nothing}
        /\ w # Nothing => /\ w.op = "reset" /\ w.step = "open"
                          /\ w.row \in PasswordRows /\ w.row.kind = "chosen"
    <3>1. CASE doing[c].op = "reset"
      <4>1. n = Row(doing[c].password, "chosen", doing[c].stamp) /\ n.kind = "chosen"
        BY <2>1, <2>2, <2>3, <3>1
      <4>2. w = [doing[c] EXCEPT !.step = "open", !.row = n]
        BY <2>4, <3>1, <4>1
      <4>3. w \in Logins /\ w.op = "reset" /\ w.step = "open" /\ w.row = n
        BY <1>1, <2>3, <3>1, <4>2 DEF Changes, Logins, Entering
      <4> QED  BY <2>3, <4>1, <4>3
    <3>2. CASE doing[c].op # "reset"
      BY <2>4, <3>2
    <3> QED  BY <3>1, <3>2
  <2>9. doing'[c] = w
    BY <2>5 DEF CrossOthers
  <2>10. LoginKnows(c)'
    BY <2>8, <2>9 DEF LoginKnows, Is
  <2>11. clock' \in Nat /\ clock <= clock'
    BY <1>1 DEF SignInv, SignInTypes
  <2>12. doing' \in [Calls -> Jobs \cup {Nothing}] /\ \A b \in Calls : Knows(b)'
    BY <1>1, <2>3, <2>5, <2>8, <2>10, <2>11, CrossStep
  <2>13. Sessions'
    BY <1>1 DEF SignInv, Sessions
  <2>14. crossed' \in BOOLEAN
    BY <1>1, <2>5 DEF Changes
  <2> QED  BY <1>1, <2>6, <2>7, <2>11, <2>12, <2>13, <2>14 DEF SignInv, SignInTypes
<1> QED  BY <1>2, <1>3

\* A new account begins with one issued row; a deleted one leaves none.
LEMMA AccountInv ==
  ASSUME SignInv, NEW c \in Calls, CreateUser(c) \/ DeleteAccount(c)  PROVE SignInv'
<1>1. /\ clock \in Nat /\ clock' \in Nat /\ clock <= clock' /\ crossed' \in BOOLEAN
      /\ UNCHANGED <<live, ended, opened, cookie>>
  <2>1. clock \in Nat /\ crossed \in BOOLEAN
    BY DEF SignInv, SignInTypes
  <2>2. clock' = clock + 1 \/ clock' = clock
    BY DEF CreateUser, DeleteAccount
  <2>3. clock' \in Nat /\ clock <= clock'
    BY <2>1, <2>2
  <2>4. /\ crossed' = FALSE \/ crossed' = crossed
        /\ UNCHANGED <<live, ended, opened, cookie>>
    BY DEF CreateUser, DeleteAccount
  <2> QED  BY <2>1, <2>3, <2>4
<1>2. CrossOthers(c, Nothing)
  BY DEF CreateUser, DeleteAccount
<1>3. /\ history' \in SUBSET PasswordRows /\ IsFiniteSet(history')
      /\ user' \in Accounts \cup {Nothing} /\ \A h \in history' : h.stamp = clock
      /\ History' /\ LatestFits'
  <2>1. CASE CreateUser(c)
    <3>1. PICK n : n = Row(clock, "issued", clock)
      OBVIOUS
    <3>2. n \in PasswordRows /\ n.stamp = clock /\ n.kind = "issued"
      BY <1>1, <3>1 DEF Row, PasswordRows
    <3>3. history' = {n} /\ user' = [account |-> clock, reset |-> TRUE] /\ clock' = clock + 1
      BY <2>1, <3>1 DEF CreateUser
    <3>4. Newer(n)' = {}
      BY <1>1, <3>2, <3>3 DEF Newer
    <3>5. IsFiniteSet({n})
      BY FS_Singleton
    <3>6. History'
      BY <1>1, <3>2, <3>3, <3>4 DEF History
    <3>7. LatestFits'
      BY <3>2, <3>3 DEF LatestFits
    <3> QED  BY <1>1, <3>2, <3>3, <3>5, <3>6, <3>7 DEF Accounts
  <2>2. CASE DeleteAccount(c)
    BY <2>2, FS_EmptySet DEF DeleteAccount, History, LatestFits
  <2> QED  BY <2>1, <2>2
<1>4. LoginKnows(c)'
  BY <1>2 DEF CrossOthers, LoginKnows, Is
<1>5. doing' \in [Calls -> Jobs \cup {Nothing}] /\ \A b \in Calls : Knows(b)'
  BY <1>1, <1>3, <1>2, <1>4, CrossStep
<1>6. Sessions'
  BY <1>1 DEF SignInv, Sessions
<1> QED  BY <1>1, <1>3, <1>5, <1>6 DEF SignInv, SignInTypes

-----------------------------------------------------------------------------
(* What is proved                                                          *)

\* A user with the initial password satisfies it.
LEMMA SignInitInv == SignInit => SignInv
<1> SUFFICES ASSUME SignInit  PROVE SignInv
  OBVIOUS
<1>1. PICK n : n = Row(0, "issued", 0)
  OBVIOUS
<1>2. n \in PasswordRows /\ n.stamp = 0 /\ n.kind = "issued" /\ history = {n}
  BY <1>1 DEF SignInit, Row, PasswordRows
<1>3. Newer(n) = {}
  BY <1>2 DEF Newer
<1>4. IsFiniteSet(history)
  BY <1>2, FS_Singleton
<1>5. SignInTypes
  BY <1>2, <1>4 DEF SignInit, SignInTypes, Accounts
<1>6. History /\ LatestFits /\ Sessions
  BY <1>2, <1>3 DEF SignInit, History, LatestFits, Sessions
<1>7. \A c \in Calls : Knows(c)
  BY DEF SignInit, Knows, ChangeKnows, LoginKnows, SessionKnows, Is
<1> QED  BY <1>5, <1>6, <1>7 DEF SignInv

\* Every step keeps it.
LEMMA SignNextInv == SignInv /\ [SignNext]_signVars => SignInv'
<1> SUFFICES ASSUME SignInv, [SignNext]_signVars  PROVE SignInv'
  OBVIOUS
<1>1. ASSUME NEW c \in Calls, NEW op \in {"reset", "profile", "issue"},
             NEW p \in Passwords, NEW h \in history, BeginChange(c, op, h.password, p)
      PROVE  SignInv'
  <2>1. h.password \in Secrets
    BY DEF SignInv, SignInTypes, PasswordRows, Secrets
  <2> QED  BY <1>1, <2>1, BeginChangeInv
<1>2. CASE UNCHANGED signVars
  <2>1. SignInTypes' /\ Sessions'
    BY <1>2 DEF signVars, SignInv, SignInTypes, Sessions
  <2>2. History' /\ LatestFits'
    BY <1>2 DEF signVars, SignInv, History, LatestFits, Newer
  <2>3. \A c \in Calls : Knows(c)'
    BY <1>2 DEF signVars, SignInv, Knows, ChangeKnows, LoginKnows, SessionKnows, Is, Recent,
       Newer
  <2> QED  BY <2>1, <2>2, <2>3 DEF SignInv
<1> QED  BY <1>1, <1>2, VerifyOldInv, CheckReuseInv, SavePasswordInv, AccountInv, LoginInv,
            LoadLatestInv, JudgeInv, IssueSessionInv, CarryInv, TouchInv, LogoutInv, ExpireInv
         DEF SignNext

\* SignInv holds in every reachable state.
THEOREM SignInInvariant == SignSpec => []SignInv
BY SignInitInv, SignNextInv, PTL DEF SignSpec

\* A session that has ended is never live again; the user has to choose a password
\* exactly while the latest one was issued, the latest one repeats none of those
\* kept before it, and sessions are opened with chosen ones - unless two changes of
\* the password overlapped: for any number of changes, logins and logouts at once.
THEOREM SignInIsKept == SignSpec => []SignInKept
<1>1. SignInv => SignInKept
  <2> SUFFICES ASSUME SignInv  PROVE SignInKept
    OBVIOUS
  <2>1. user # Nothing => Latest \in history /\ Newer(Latest) = {}
    BY LatestRow DEF SignInv, History
  <2>2. ResetWhileIssued /\ NotReused
    BY <2>1 DEF ResetWhileIssued, NotReused, SignInv, LatestFits
  <2>3. EndedStaysEnded /\ OpenedByChosen
    BY DEF EndedStaysEnded, OpenedByChosen, SignInv, Sessions
  <2> QED  BY <2>2, <2>3 DEF SignInKept
<1> QED  BY <1>1, SignInInvariant, PTL

-----------------------------------------------------------------------------
(***************************************************************************)
(* Proofs about Links, for any number of transactions and any targets.     *)
(*                                                                         *)
(* The inductive invariant adds to the property what a transaction knows   *)
(* of the rows at each of its statements (Knows): as long as nobody has    *)
(* committed since its DELETE began, what the DELETE saw, and then what it *)
(* has deleted, is all there is.                                           *)
(***************************************************************************)

LinksTypes ==
  /\ exists \in BOOLEAN
  /\ targets \subseteq Targets /\ links \subseteq Targets /\ last \subseteq Targets
  /\ asked \subseteq SUBSET Targets
  /\ edits \in [Writers -> Edits \cup {Absent}]

\* What transaction w knows: a DELETE that began sees all rows of the object it
\* found, and has none left when it is done.
LinkKnows(w) ==
  w \in Editing =>
    /\ Reached(w, "delete") => ~edits[w].crossed
    /\ ~Reached(w, "insert") => edits[w].gone = {}
    /\ ~edits[w].crossed /\ edits[w].found = "it" =>
         /\ Reached(w, "wait") => edits[w].seen = links
         /\ Reached(w, "insert") => edits[w].gone = links

LinksInv ==
  /\ LinksTypes
  /\ LinksAsAsked
  /\ \A w \in Writers : LinkKnows(w)

\* A transaction's own step that changes nothing committed keeps the invariant.
LEMMA EditStep ==
  ASSUME LinksInv, NEW w \in Writers, NEW e \in Edits \cup {Absent},
         edits' = [edits EXCEPT ![w] = e],
         UNCHANGED <<exists, targets, links, asked, last>>, LinkKnows(w)'
  PROVE  LinksInv'
<1>1. LinksTypes' /\ LinksAsAsked'
  BY DEF LinksInv, LinksTypes, LinksAsAsked
<1>2. ASSUME NEW v \in Writers  PROVE LinkKnows(v)'
  <2>1. CASE v = w
    BY <2>1
  <2>2. CASE v # w
    <3>1. edits'[v] = edits[v] /\ LinkKnows(v)
      BY <2>2 DEF LinksInv, LinksTypes
    <3> QED  BY <3>1 DEF LinkKnows, Editing, Reached
  <2> QED  BY <2>1, <2>2
<1> QED  BY <1>1, <1>2 DEF LinksInv

\* A replacement that begins knows nothing yet.
LEMMA BeginReplaceInv ==
  ASSUME LinksInv, NEW w \in Writers, NEW want \in SUBSET Targets,
         NEW changes \in BOOLEAN, BeginReplace(w, want, changes)
  PROVE  LinksInv'
<1>1. PICK f \in {"nothing", "it"} : f = IF exists THEN "it" ELSE "nothing"
  OBVIOUS
<1>2. PICK e : e = [step |-> "delete", want |-> want, changes |-> changes, found |-> f,
                    seen |-> {}, gone |-> {}, crossed |-> FALSE]
  OBVIOUS
<1>3. e \in Edits /\ e.step = "delete" /\ ~e.crossed /\ e.gone = {}
  BY <1>2 DEF Edits
<1>4. edits' = [edits EXCEPT ![w] = e] /\ edits'[w] = e
  BY <1>1, <1>2 DEF BeginReplace, LinksInv, LinksTypes
<1>5. LinkKnows(w)'
  BY <1>3, <1>4 DEF LinkKnows, Reached
<1> QED  BY <1>3, <1>4, <1>5, EditStep DEF BeginReplace

\* Its DELETE sees all rows of the object it found.
LEMMA SeeLinksInv ==
  ASSUME LinksInv, NEW w \in Writers, SeeLinks(w)  PROVE LinksInv'
<1>1. edits[w] \in Edits /\ edits[w] # Absent /\ edits[w].step = "delete" /\ LinkKnows(w)
  BY DEF SeeLinks, Reached, LinksInv, LinksTypes
<1>2. PICK S \in SUBSET Targets : S = IF edits[w].found = "it" THEN links ELSE {}
  BY DEF LinksInv, LinksTypes
<1>3. PICK e : e = [edits[w] EXCEPT !.step = "wait", !.seen = S]
  OBVIOUS
<1>4. /\ e \in Edits /\ e.step = "wait" /\ e.seen = S
      /\ e.found = edits[w].found /\ e.gone = edits[w].gone
  BY <1>1, <1>3 DEF Edits
<1>5. edits' = [edits EXCEPT ![w] = e] /\ edits'[w] = e
  BY <1>2, <1>3 DEF SeeLinks, LinksInv, LinksTypes
<1>6. LinkKnows(w)'
  BY <1>1, <1>2, <1>4, <1>5 DEF LinkKnows, Editing, Reached, SeeLinks
<1> QED  BY <1>4, <1>5, <1>6, EditStep DEF SeeLinks

\* It deletes what it saw.
LEMMA DeleteLinksInv ==
  ASSUME LinksInv, NEW w \in Writers, DeleteLinks(w)  PROVE LinksInv'
<1>1. edits[w] \in Edits /\ edits[w] # Absent /\ edits[w].step = "wait" /\ LinkKnows(w)
  BY DEF DeleteLinks, Reached, LinksInv, LinksTypes
<1>2. PICK e : e = [edits[w] EXCEPT !.step = "insert", !.gone = edits[w].seen]
  OBVIOUS
<1>3. /\ e \in Edits /\ e.step = "insert" /\ e.gone = edits[w].seen
      /\ e.found = edits[w].found /\ e.crossed = edits[w].crossed
  BY <1>1, <1>2 DEF Edits
<1>4. edits' = [edits EXCEPT ![w] = e] /\ edits'[w] = e
  BY <1>2 DEF DeleteLinks, LinksInv, LinksTypes
<1>5. LinkKnows(w)'
  BY <1>1, <1>3, <1>4 DEF LinkKnows, Editing, Reached, DeleteLinks
<1> QED  BY <1>3, <1>4, <1>5, EditStep DEF DeleteLinks

\* One that fails leaves what is committed.
LEMMA FailInv ==
  ASSUME LinksInv, NEW w \in Writers, Fail(w)  PROVE LinksInv'
<1>1. edits' = [edits EXCEPT ![w] = Absent] /\ edits'[w] = Absent
  BY DEF Fail, LinksInv, LinksTypes
<1>2. LinkKnows(w)'
  BY <1>1 DEF LinkKnows, Editing
<1> QED  BY <1>1, <1>2, EditStep DEF Fail

\* A replacement that none crossed leaves no row but its own: those of the object
\* it found it has deleted, and an object that is not there has none.  The others
\* under way know nothing any more.
LEMMA CommitInv ==
  ASSUME LinksInv, NEW w \in Writers, Commit(w)  PROVE LinksInv'
<1>1. /\ edits[w] \in Edits /\ w \in Editing /\ Reached(w, "insert") /\ LinkKnows(w)
      /\ edits[w].found = IF exists THEN "it" ELSE "nothing"
      /\ exists' = TRUE /\ UNCHANGED targets /\ last' = edits[w].want
      /\ links' = (links \ edits[w].gone) \cup edits[w].want
      /\ asked' = {edits[w].want} \cup (IF edits[w].crossed THEN asked ELSE {})
  BY DEF Commit, Reached, Editing, LinksInv, LinksTypes
<1>2. edits[w].want \subseteq Targets
  BY <1>1 DEF Edits
<1>3. edits[w].crossed \/ links' = edits[w].want
  BY <1>1 DEF LinksInv, LinksAsAsked, LinkKnows
<1>4. LinksAsAsked'
  BY <1>1, <1>3 DEF LinksInv, LinksAsAsked
<1>5. \A v \in Writers : edits'[v] =
        IF v = w THEN Absent
        ELSE IF v \notin Editing \/ Reached(v, "delete") THEN edits[v]
        ELSE [edits[v] EXCEPT !.crossed = TRUE, !.seen = @ \ edits[w].gone]
  BY DEF Commit
<1>6. ASSUME NEW v \in Writers
      PROVE  edits'[v] \in Edits \cup {Absent} /\ LinkKnows(v)'
  <2>1. LinkKnows(v) /\ edits[v] \in Edits \cup {Absent}
    BY DEF LinksInv, LinksTypes
  <2>2. CASE v = w
    BY <1>5, <2>2 DEF LinkKnows, Editing
  <2>3. CASE v # w /\ (v \notin Editing \/ Reached(v, "delete"))
    BY <1>5, <2>1, <2>3 DEF LinkKnows, Editing, Reached
  <2>4. CASE v # w /\ v \in Editing /\ ~Reached(v, "delete")
    <3>1. /\ edits[v] \in Edits /\ edits'[v] =
               [edits[v] EXCEPT !.crossed = TRUE, !.seen = @ \ edits[w].gone]
      BY <1>5, <2>1, <2>4 DEF Editing
    <3>2. /\ edits'[v] \in Edits /\ edits'[v].crossed
          /\ edits'[v].step = edits[v].step /\ edits'[v].gone = edits[v].gone
      BY <3>1 DEF Edits
    <3> QED  BY <2>1, <2>4, <3>2 DEF LinkKnows, Editing, Reached
  <2> QED  BY <2>2, <2>3, <2>4
<1>7. LinksTypes'
  <2>1. edits' \in [Writers -> Edits \cup {Absent}]
    BY <1>6 DEF Commit
  <2>2. links' \subseteq Targets /\ asked' \subseteq SUBSET Targets
    BY <1>1, <1>2 DEF LinksInv, LinksTypes
  <2> QED  BY <1>1, <1>2, <2>1, <2>2 DEF LinksInv, LinksTypes
<1> QED  BY <1>4, <1>6, <1>7 DEF LinksInv

\* An object that is deleted takes its rows along; who found it finds another.
LEMMA DeleteOwnerInv ==
  ASSUME LinksInv, DeleteOwner  PROVE LinksInv'
<1>1. /\ exists' = FALSE /\ links' = {} /\ asked' = {} /\ last' = {}
      /\ UNCHANGED targets
      /\ \A v \in Writers : edits'[v] =
           IF v \in Editing /\ edits[v].found = "it"
           THEN [edits[v] EXCEPT !.found = "another", !.seen = {}] ELSE edits[v]
  BY DEF DeleteOwner
<1>2. ASSUME NEW v \in Writers
      PROVE  edits'[v] \in Edits \cup {Absent} /\ LinkKnows(v)'
  <2>1. LinkKnows(v) /\ edits[v] \in Edits \cup {Absent}
    BY DEF LinksInv, LinksTypes
  <2>2. CASE v \in Editing /\ edits[v].found = "it"
    <3>1. /\ edits[v] \in Edits
          /\ edits'[v] = [edits[v] EXCEPT !.found = "another", !.seen = {}]
      BY <1>1, <2>1, <2>2 DEF Editing
    <3>2. /\ edits'[v] \in Edits /\ edits'[v].found = "another"
          /\ edits'[v].crossed = edits[v].crossed
          /\ edits'[v].step = edits[v].step /\ edits'[v].gone = edits[v].gone
      BY <3>1 DEF Edits
    <3> QED  BY <2>1, <2>2, <3>2 DEF LinkKnows, Editing, Reached
  <2>3. CASE ~(v \in Editing /\ edits[v].found = "it")
    BY <1>1, <2>1, <2>3 DEF LinkKnows, Editing, Reached
  <2> QED  BY <2>2, <2>3
<1>3. edits' \in [Writers -> Edits \cup {Absent}]
  BY <1>2 DEF DeleteOwner
<1> QED  BY <1>1, <1>2, <1>3 DEF LinksInv, LinksTypes, LinksAsAsked

\* A target that is deleted takes its rows from those a DELETE saw; one whose row a
\* transaction has deleted waits for it.
LEMMA DeleteTargetInv ==
  ASSUME LinksInv, NEW t \in Targets, DeleteTarget(t)  PROVE LinksInv'
<1>1. /\ targets' = targets \ {t} /\ links' = links \ {t}
      /\ UNCHANGED <<exists, asked, last>>
      /\ \A v \in Editing : t \notin edits[v].gone
      /\ \A v \in Writers : edits'[v] =
           IF v \in Editing THEN [edits[v] EXCEPT !.seen = @ \ {t}] ELSE edits[v]
  BY DEF DeleteTarget
<1>2. ASSUME NEW v \in Writers
      PROVE  edits'[v] \in Edits \cup {Absent} /\ LinkKnows(v)'
  <2>1. LinkKnows(v) /\ edits[v] \in Edits \cup {Absent}
    BY DEF LinksInv, LinksTypes
  <2>2. CASE v \in Editing
    <3>1. edits[v] \in Edits /\ edits'[v] = [edits[v] EXCEPT !.seen = @ \ {t}]
      BY <1>1, <2>1, <2>2 DEF Editing
    <3>2. /\ edits'[v] \in Edits /\ edits'[v].found = edits[v].found
          /\ edits'[v].crossed = edits[v].crossed
          /\ edits'[v].seen = edits[v].seen \ {t}
          /\ edits'[v].step = edits[v].step /\ edits'[v].gone = edits[v].gone
      BY <3>1 DEF Edits
    <3> QED  BY <1>1, <2>1, <2>2, <3>2 DEF LinkKnows, Editing, Reached
  <2>3. CASE v \notin Editing
    BY <1>1, <2>1, <2>3 DEF LinkKnows, Editing
  <2> QED  BY <2>2, <2>3
<1>3. edits' \in [Writers -> Edits \cup {Absent}]
  BY <1>2 DEF DeleteTarget
<1>4. LinksAsAsked'
  BY <1>1 DEF LinksInv, LinksAsAsked
<1> QED  BY <1>1, <1>2, <1>3, <1>4 DEF LinksInv, LinksTypes

\* The invariant holds in every reachable state.
LEMMA LinksInvariant == LinksSpec => []LinksInv
<1>1. LinksInit => LinksInv
  BY DEF LinksInit, LinksInv, LinksTypes, LinksAsAsked, LinkKnows, Editing
<1>2. LinksInv /\ [LinksNext]_linkVars => LinksInv'
  <2> SUFFICES ASSUME LinksInv, [LinksNext]_linkVars  PROVE LinksInv'
    OBVIOUS
  <2>1. CASE UNCHANGED linkVars
    BY <2>1 DEF linkVars, LinksInv, LinksTypes, LinksAsAsked, LinkKnows, Editing, Reached
  <2> QED  BY <2>1, BeginReplaceInv, SeeLinksInv, DeleteLinksInv, CommitInv, FailInv,
              DeleteOwnerInv, DeleteTargetInv DEF LinksNext
<1> QED  BY <1>1, <1>2, PTL DEF LinksSpec

\* An object is linked to all of what was saved last that still exists, and to
\* nothing but what that replacement and those it crossed asked for: for any
\* number of replacements at a time and any deletions between their statements.
THEOREM LinksStayAsked == LinksSpec => []LinksAsAsked
BY LinksInvariant, PTL DEF LinksInv

\* The rows are always rows of targets there may be, whatever is replaced.
THEOREM LinksTyped == LinksSpec => []LinksTypes
BY LinksInvariant, PTL DEF LinksInv

-----------------------------------------------------------------------------
(***************************************************************************)
(* What TLAPS proves of what a tenant is billed for.  Of BillingCycle, for *)
(* every contract, any number of years ago: boundaries are dates,          *)
(* _next_boundary_exclusive never raises, every round of the loop moves to *)
(* a later boundary, and the period found is the one announced.  Of        *)
(* CreditQuota, for any number of requests at a time, any plan, limit and  *)
(* cost: by how much a month's credits can be passed.                      *)
(***************************************************************************)

-----------------------------------------------------------------------------
(* The billing cycle: every boundary is expected                            *)

\* The length of a month.
LEMMA Months ==
  ASSUME NEW y \in Nat, NEW m \in 1..12
  PROVE  DaysInMonth(y, m) \in 28..31
<1>1. CASE m \in {4, 6, 9, 11}
  BY <1>1 DEF DaysInMonth
<1>2. CASE m = 2
  BY <1>2 DEF DaysInMonth
<1>3. CASE m \in {1, 3, 5, 7, 8, 10, 12}
  BY <1>3 DEF DaysInMonth
<1> QED BY <1>1, <1>2, <1>3

\* _add_month steps to a later month.
LEMMA MonthAdded ==
  ASSUME NEW d, Valid(d)
  PROVE  /\ NextYear(d) \in Nat /\ NextMonth(d) \in 1..12
         /\ \/ NextYear(d) = d.year + 1
            \/ NextYear(d) = d.year /\ NextMonth(d) = d.month + 1
  BY DEF Valid, Date, NextYear, NextMonth

\* A day that a month has makes a date.
LEMMA DateMade ==
  ASSUME NEW y \in Nat, NEW m \in 1..12, NEW x \in 1..DaysInMonth(y, m)
  PROVE  /\ Valid(OnDay(y, m, x))
         /\ OnDay(y, m, x).year = y /\ OnDay(y, m, x).month = m
         /\ OnDay(y, m, x).day = x
  BY Months DEF Valid, Date, OnDay

\* A date in the month after d's is after d.
LEMMA LaterMonth ==
  ASSUME NEW d, Valid(d), NEW y, y = NextYear(d), NEW m, m = NextMonth(d),
         NEW x \in 1..DaysInMonth(y, m)
  PROVE  Valid(OnDay(y, m, x)) /\ OnDay(y, m, x).day = x /\ Before(d, OnDay(y, m, x))
<1>1. /\ y \in Nat /\ m \in 1..12
      /\ y = d.year + 1 \/ (y = d.year /\ m = d.month + 1)
  BY MonthAdded
<1>2. /\ Valid(OnDay(y, m, x))
      /\ OnDay(y, m, x).year = y /\ OnDay(y, m, x).month = m
      /\ OnDay(y, m, x).day = x
  BY <1>1, DateMade
<1>3. d.year \in Nat /\ d.month \in 1..12
  BY DEF Valid, Date
<1> QED BY <1>1, <1>2, <1>3 DEF Before

\* The boundary after an expected one is a later date, and is expected.
LEMMA Boundary ==
  ASSUME NEW p, Valid(p), NEW base \in 1..31, Expected(p, base)
  PROVE  /\ Valid(NextBoundary(p, base))
         /\ Expected(NextBoundary(p, base), base)
         /\ Before(p, NextBoundary(p, base))
<1> DEFINE y == NextYear(p)
           m == NextMonth(p)
<1>0. DaysInMonth(y, m) \in 28..31
  BY Months, MonthAdded
<1>1. CASE p.day = base
  <2> DEFINE x == IF base <= DaysInMonth(y, m) THEN base ELSE DaysInMonth(y, m)
             same == OnDay(y, m, x)
  <2>1. NextBoundary(p, base) = same
    BY <1>1 DEF NextBoundary, SameDayNextMonth
  <2>2. /\ x \in 1..DaysInMonth(y, m)
        /\ x = base \/ (x = DaysInMonth(y, m) /\ x < base)
    BY <1>0
  <2>3. Valid(same) /\ Before(p, same) /\ same.day = x
    <3> HIDE DEF x, y, m
    <3> QED BY <2>2, LaterMonth DEF y, m
  <2>4. same.year = y /\ same.month = m
    BY DEF OnDay
  <2>5. Expected(same, base)
    <3> HIDE DEF x, y, m, same
    <3> QED BY <2>2, <2>3, <2>4 DEF Expected, MonthEnd
  <2> QED BY <2>1, <2>3, <2>5
<1>2. CASE p.day # base /\ p.day = 1 /\ base <= DaysInMonth(p.year, p.month)
  <2> DEFINE on == OnDay(p.year, p.month, base)
  <2>1. NextBoundary(p, base) = on
    BY <1>2 DEF NextBoundary
  <2>2. /\ Valid(on) /\ on.year = p.year /\ on.month = p.month /\ on.day = base
    <3>1. p.year \in Nat /\ p.month \in 1..12
      BY DEF Valid, Date
    <3>2. base \in 1..DaysInMonth(p.year, p.month)
      BY <1>2, <3>1, Months
    <3>3. Valid(OnDay(p.year, p.month, base))
      BY <3>1, <3>2, Months DEF Valid, Date, OnDay
    <3> QED BY <3>3 DEF OnDay
  <2>3. Before(p, on) /\ Expected(on, base)
    BY <1>2, <2>2 DEF Before, Expected, Valid, Date
  <2> QED BY <2>1, <2>2, <2>3
<1>3. CASE p.day # base /\ ~(p.day = 1 /\ base <= DaysInMonth(p.year, p.month))
  <2> DEFINE first == OnDay(y, m, 1)
  <2>1. NextBoundary(p, base) = first
    BY <1>3 DEF NextBoundary, FirstOfNextMonth
  <2>2. Valid(first) /\ Before(p, first) /\ first.day = 1
    <3> HIDE DEF y, m
    <3> QED BY <1>0, LaterMonth DEF y, m
  <2>3. Expected(first, base)
    BY <2>2 DEF Expected
  <2> QED BY <2>1, <2>2, <2>3
<1> QED BY <1>1, <1>2, <1>3

\* The day after a date is a date.
LEMMA DayAfter ==
  ASSUME NEW d, Valid(d)
  PROVE  Valid(NextDay(d))
<1>1. CASE d.day < DaysInMonth(d.year, d.month)
  BY <1>1, Months DEF NextDay, Valid, Date
<1>2. CASE ~(d.day < DaysInMonth(d.year, d.month))
  BY <1>2, Months, MonthAdded, DateMade DEF NextDay
<1> QED BY <1>1, <1>2

\* The inductive invariant: the boundary under the loop is a date the next
\* boundary is defined for.
CycleInv == CycleTypeOK /\ BoundaryExpected

\* The first boundary is the contract's own day.
LEMMA ContractDay ==
  ASSUME NEW c \in Contracts
  PROVE  Valid(c) /\ c.day \in 1..31 /\ Expected(c, c.day)
  BY BillingAssumption DEF Valid, Date, Expected

\* What the loop knows of its boundary and of the one after it.
LEMMA PeriodEnd ==
  ASSUME CycleInv
  PROVE  /\ Valid(period_end) /\ Expected(period_end, base_day)
         /\ Before(period_start, period_end)
  BY ContractDay, Boundary
  DEF CycleInv, CycleTypeOK, BoundaryExpected, base_day, period_end

LEMMA CycleInitially == CycleInit => CycleInv
  BY ContractDay, BillingAssumption
  DEF CycleInit, CycleInv, CycleTypeOK, BoundaryExpected, base_day

LEMMA CycleStep == CycleInv /\ [CycleNext]_cycleVars => CycleInv'
<1> SUFFICES ASSUME CycleInv, [CycleNext]_cycleVars PROVE CycleInv'
  OBVIOUS
<1>1. CASE NotStarted
  BY <1>1 DEF NotStarted, CycleInv, CycleTypeOK, BoundaryExpected, base_day
<1>2. CASE Found
  BY <1>2 DEF Found, CycleInv, CycleTypeOK, BoundaryExpected, base_day
<1>3. CASE NextRound
  BY <1>3, PeriodEnd DEF NextRound, CycleInv, CycleTypeOK, BoundaryExpected, base_day
<1>4. CASE Tomorrow
  <2>1. Valid(today') /\ Valid(period_start') /\ BoundaryExpected'
    BY <1>4, DayAfter, ContractDay
    DEF Tomorrow, CycleInv, CycleTypeOK, BoundaryExpected, base_day
  <2>2. announced' \in [from : Date, until : Date] \cup {NoPeriod}
    BY <1>4, PeriodEnd DEF Tomorrow, CycleInv, CycleTypeOK, Valid
  <2> QED BY <1>4, <2>1, <2>2 DEF Tomorrow, CycleInv, CycleTypeOK
<1>5. CASE UNCHANGED cycleVars
  BY <1>5 DEF cycleVars, CycleInv, CycleTypeOK, BoundaryExpected, base_day
<1> QED BY <1>1, <1>2, <1>3, <1>4, <1>5 DEF CycleNext, Search

LEMMA CycleInvariance == CycleSpec => []CycleInv
  BY CycleInitially, CycleStep, PTL DEF CycleSpec

\* Boundaries are dates of the calendar, for every contract day and year.
THEOREM CycleTypes == CycleSpec => []CycleTypeOK
  BY CycleInvariance, PTL DEF CycleInv

\* _next_boundary_exclusive is never asked for a boundary it raises for.
THEOREM NeverRaises == CycleSpec => []BoundaryExpected
  BY CycleInvariance, PTL DEF CycleInv

\* Every round of the loop moves to a later boundary, so it passes every day.
THEOREM LoopAdvances == CycleSpec => SearchAdvances
<1>1. CycleInv /\ [CycleNext]_cycleVars =>
        [loop = "search" /\ loop' = "search" => Before(period_start, period_start')]_cycleVars
  BY PeriodEnd DEF CycleNext, Search, NotStarted, Found, NextRound, Tomorrow
<1> QED BY <1>1, CycleInvariance, PTL DEF CycleSpec, SearchAdvances

-----------------------------------------------------------------------------
(* The announced period: boundaries in closed form                         *)

\* Before is a strict linear order of dates.
LEMMA Transitive ==
  ASSUME NEW a \in Date, NEW b \in Date, NEW c \in Date, Before(a, b), Before(b, c)
  PROVE  Before(a, c)
  BY DEF Before, Date

LEMMA Linear ==
  ASSUME NEW a \in Date, NEW b \in Date, ~Before(a, b), ~Before(b, a)
  PROVE  a = b
<1>1. a.year = b.year /\ a.month = b.month /\ a.day = b.day
  BY DEF Before, Date
<1> QED BY <1>1 DEF Date

LEMMA Irreflexive == \A a \in Date : ~Before(a, a)
  BY DEF Before, Date

\* The next day is later.
LEMMA DayLater ==
  ASSUME NEW d, Valid(d)
  PROVE  Before(d, NextDay(d))
<1>1. CASE d.day < DaysInMonth(d.year, d.month)
  BY <1>1 DEF NextDay, Before, Valid, Date
<1>2. CASE ~(d.day < DaysInMonth(d.year, d.month))
  BY <1>2, MonthAdded DEF NextDay, OnDay, Before, Valid, Date
<1> QED BY <1>1, <1>2

\* No date lies between a day and the next one.
LEMMA NothingBetween ==
  ASSUME NEW d, Valid(d), NEW q, Valid(q), Before(d, q)
  PROVE  ~Before(q, NextDay(d))
<1>0. /\ d.year \in Nat /\ d.month \in 1..12 /\ d.day \in 1..31
      /\ q.year \in Nat /\ q.month \in 1..12 /\ q.day \in 1..31
      /\ q.day <= DaysInMonth(q.year, q.month)
      /\ d.day <= DaysInMonth(d.year, d.month)
      /\ DaysInMonth(d.year, d.month) \in 28..31
  BY Months DEF Valid, Date
<1> DEFINE n == NextDay(d)
<1>1. CASE d.day < DaysInMonth(d.year, d.month)
  <2>1. n.year = d.year /\ n.month = d.month /\ n.day = d.day + 1
    BY <1>1, <1>0 DEF NextDay, Valid, Date
  <2> HIDE DEF n
  <2>2. ~Before(q, n)
    BY <1>0, <2>1 DEF Before
  <2> QED BY <2>2 DEF n
<1>2. CASE d.day = DaysInMonth(d.year, d.month)
  <2>1. n.year = NextYear(d) /\ n.month = NextMonth(d) /\ n.day = 1
    BY <1>2, <1>0 DEF NextDay, OnDay
  <2> HIDE DEF n
  <2>2. q.year = d.year /\ q.month = d.month => q.day <= d.day
    BY <1>2, <1>0
  <2>3. ~Before(q, n)
    BY <1>0, <2>1, <2>2 DEF Before, NextYear, NextMonth
  <2> QED BY <2>3 DEF n
<1> QED BY <1>1, <1>2, <1>0

\* The boundaries, whichever of them the loop started from: the contract's day,
\* the end of a month without it, and the 1st after such a month.
PreviousDays(d) ==
  IF d.month = 1 THEN 31 ELSE DaysInMonth(d.year, d.month - 1)

IsBoundary(d, base) ==
  \/ d.day = base
  \/ MonthEnd(d) /\ d.day < base
  \/ d.day = 1 /\ PreviousDays(d) < base

\* A month of 31 days follows a shorter one.
LEMMA ShortThenLong ==
  ASSUME NEW d, Valid(d), NEW base \in 1..31, PreviousDays(d) < base
  PROVE  DaysInMonth(d.year, d.month) = 31
<1>1. d.year \in Nat /\ d.month \in 1..12
  BY DEF Valid, Date
<1>2. d.month # 1
  BY DEF PreviousDays
<1>3. d.month - 1 \in 1..12 /\ DaysInMonth(d.year, d.month - 1) # 31
  <2>1. d.month - 1 \in 1..12
    BY <1>1, <1>2
  <2> QED BY <1>2, <2>1, Months DEF PreviousDays
<1>4. d.month - 1 \notin {1, 3, 5, 7, 8, 10, 12}
  BY <1>3 DEF DaysInMonth
<1>5. d.month \in {3, 5, 7, 10, 12}
  BY <1>1, <1>2, <1>4
<1> QED BY <1>5 DEF DaysInMonth

\* The month before the next month is this one.
LEMMA Returned ==
  ASSUME NEW p, Valid(p), NEW q, q.year = NextYear(p), q.month = NextMonth(p)
  PROVE  PreviousDays(q) = DaysInMonth(p.year, p.month)
<1>0. p.year \in Nat /\ p.month \in 1..12
  BY DEF Valid, Date
<1>1. CASE p.month = 12
  BY <1>1 DEF PreviousDays, NextMonth, DaysInMonth
<1>2. CASE p.month # 12
  <2>1. q.year = p.year /\ q.month = p.month + 1 /\ q.month # 1 /\ q.month - 1 = p.month
    BY <1>0, <1>2 DEF NextYear, NextMonth
  <2> QED BY <2>1 DEF PreviousDays
<1> QED BY <1>1, <1>2

\* A boundary is one the code expects, and is followed by a boundary.
LEMMA BoundaryFollows ==
  ASSUME NEW p, Valid(p), NEW base \in 1..31, IsBoundary(p, base)
  PROVE  Expected(p, base) /\ IsBoundary(NextBoundary(p, base), base)
<1>0. /\ p.year \in Nat /\ p.month \in 1..12 /\ p.day \in 1..31
      /\ DaysInMonth(p.year, p.month) \in 28..31
  BY Months DEF Valid, Date
<1>1. CASE p.day = base
  <2> DEFINE q == SameDayNextMonth(p, base)
  <2>1. NextBoundary(p, base) = q
    BY <1>1 DEF NextBoundary
  <2>2. DaysInMonth(NextYear(p), NextMonth(p)) \in 28..31
    BY Months, MonthAdded
  <2>3. q.year = NextYear(p) /\ q.month = NextMonth(p)
        /\ (q.day = base \/ (q.day = DaysInMonth(NextYear(p), NextMonth(p)) /\ q.day < base))
    BY <2>2 DEF SameDayNextMonth, OnDay
  <2> HIDE DEF q
  <2>4. IsBoundary(q, base)
    BY <2>3 DEF IsBoundary, MonthEnd
  <2> QED BY <2>1, <2>4, <1>1 DEF Expected
<1>2. CASE p.day # base /\ p.day = 1 /\ base <= DaysInMonth(p.year, p.month)
  BY <1>2 DEF NextBoundary, IsBoundary, Expected, OnDay
<1>3. CASE p.day # base /\ ~(p.day = 1 /\ base <= DaysInMonth(p.year, p.month))
  <2> DEFINE q == FirstOfNextMonth(p)
  <2>1. NextBoundary(p, base) = q
    BY <1>3 DEF NextBoundary
  <2>2. q.year = NextYear(p) /\ q.month = NextMonth(p) /\ q.day = 1
    BY DEF FirstOfNextMonth, OnDay
  <2> HIDE DEF q
  <2>3. p.day = DaysInMonth(p.year, p.month) /\ p.day < base
    <3>1. ~(p.day = 1 /\ PreviousDays(p) < base)
      BY <1>0, <1>3, ShortThenLong
    <3> QED BY <1>3, <3>1 DEF IsBoundary, MonthEnd
  <2>4. PreviousDays(q) < base
    BY <2>2, <2>3, Returned
  <2> QED BY <2>1, <2>2, <2>3, <2>4 DEF IsBoundary, Expected, MonthEnd
<1> QED BY <1>1, <1>2, <1>3

\* No boundary lies between a boundary and the next one.
LEMMA BoundaryIsNext ==
  ASSUME NEW p, Valid(p), NEW q, Valid(q), NEW base \in 1..31,
         IsBoundary(p, base), IsBoundary(q, base), Before(p, q)
  PROVE  ~Before(q, NextBoundary(p, base))
<1>0. /\ p.year \in Nat /\ p.month \in 1..12 /\ p.day \in 1..31
      /\ q.year \in Nat /\ q.month \in 1..12 /\ q.day \in 1..31
      /\ q.day <= DaysInMonth(q.year, q.month)
      /\ p.day <= DaysInMonth(p.year, p.month)
      /\ DaysInMonth(p.year, p.month) \in 28..31
      /\ DaysInMonth(q.year, q.month) \in 28..31
  BY Months DEF Valid, Date
<1> DEFINE n == NextBoundary(p, base)
<1> SUFFICES ASSUME Before(q, n) PROVE FALSE
  OBVIOUS
<1>1. CASE p.day = base
  <2>1. n.year = NextYear(p) /\ n.month = NextMonth(p)
        /\ n.day <= base /\ n.day <= DaysInMonth(n.year, n.month)
    <3>1. DaysInMonth(NextYear(p), NextMonth(p)) \in 28..31
      BY Months, MonthAdded
    <3> QED BY <1>1, <3>1 DEF NextBoundary, SameDayNextMonth, OnDay
  <2>2. n.day \in Nat
    BY Boundary, <1>1 DEF Expected, Valid, Date
  <2> HIDE DEF n
  <2>3. CASE q.year = p.year /\ q.month = p.month
    <3>1. q.day > base /\ q.day <= DaysInMonth(p.year, p.month)
      BY <1>0, <1>1, <2>3 DEF Before
    <3> QED BY <1>0, <2>3, <3>1 DEF IsBoundary, MonthEnd
  <2>4. CASE q.year = n.year /\ q.month = n.month
    <3>1. q.day < n.day
      BY <1>0, <2>2, <2>4 DEF Before
    <3>2. q.day # base /\ ~MonthEnd(q)
      BY <1>0, <2>1, <2>2, <2>4, <3>1 DEF MonthEnd
    <3>3. PreviousDays(q) = DaysInMonth(p.year, p.month)
      BY <2>1, <2>4, Returned
    <3> QED BY <1>0, <1>1, <3>2, <3>3 DEF IsBoundary
  <2>5. (q.year = p.year /\ q.month = p.month) \/ (q.year = n.year /\ q.month = n.month)
    BY <1>0, <2>1 DEF Before, NextYear, NextMonth
  <2> QED BY <2>3, <2>4, <2>5
<1>2. CASE p.day # base /\ p.day = 1 /\ base <= DaysInMonth(p.year, p.month)
  <2>1. n.year = p.year /\ n.month = p.month /\ n.day = base
    BY <1>2 DEF NextBoundary, OnDay
  <2> HIDE DEF n
  <2>2. q.year = p.year /\ q.month = p.month /\ q.day > 1 /\ q.day < base
    BY <1>0, <1>2, <2>1 DEF Before
  <2> QED BY <1>0, <1>2, <2>2 DEF IsBoundary, MonthEnd
<1>3. CASE p.day # base /\ ~(p.day = 1 /\ base <= DaysInMonth(p.year, p.month))
  <2>1. n.year = NextYear(p) /\ n.month = NextMonth(p) /\ n.day = 1
    BY <1>3 DEF NextBoundary, FirstOfNextMonth, OnDay
  <2> HIDE DEF n
  <2>2. p.day = DaysInMonth(p.year, p.month)
    <3>1. ~(p.day = 1 /\ PreviousDays(p) < base)
      BY <1>0, <1>3, ShortThenLong
    <3> QED BY <1>3, <3>1 DEF IsBoundary, MonthEnd
  <2>3. q.year = p.year /\ q.month = p.month => q.day <= p.day
    BY <1>0, <2>2
  <2> QED BY <1>0, <2>1, <2>3 DEF Before, NextYear, NextMonth
<1> QED BY <1>1, <1>2, <1>3

\* The stronger invariant: the loop stands on a boundary that is not after
\* today, what it finds holds today, and the announced period began before
\* today and does not end before it.
Begun == ~Before(today, contract_start)

Walk ==
  /\ IsBoundary(period_start, base_day)
  /\ loop = "search" =>
       period_start = contract_start \/ (Begun /\ ~Before(today, period_start))
  /\ loop = "found" => Begun /\ Covers(period_start, period_end)
  /\ loop = "none" => ~Begun

Announcement ==
  announced # NoPeriod =>
    /\ Valid(announced.from) /\ IsBoundary(announced.from, base_day)
    /\ Valid(announced.until) /\ announced.until = NextBoundary(announced.from, base_day)
    /\ Before(announced.from, today) /\ ~Before(announced.until, today)
    /\ Begun

LEMMA WalkInitially == CycleInit => Walk /\ Announcement
  BY DEF CycleInit, Walk, Announcement, IsBoundary, base_day

\* Every step keeps the walk on boundaries.
LEMMA WalkStep == CycleInv /\ Walk /\ [CycleNext]_cycleVars => Walk'
<1> SUFFICES ASSUME CycleInv, Walk, [CycleNext]_cycleVars PROVE Walk'
  OBVIOUS
<1> USE DEF base_day
<1>1. CASE NotStarted
  BY <1>1 DEF NotStarted, Walk, Begun
<1>2. CASE Found
  <2>1. Begun
    BY <1>2 DEF Found, Walk, Begun, Covers
  <2> QED BY <1>2, <2>1 DEF Found, Walk, Begun, Covers, period_end
<1>3. CASE NextRound
  <2>1. Begun /\ ~Before(today, period_end)
    BY <1>3 DEF NextRound, Walk, Begun, Covers
  <2>2. IsBoundary(period_end, base_day)
    BY ContractDay, BoundaryFollows DEF CycleInv, CycleTypeOK, Walk, period_end
  <2> QED BY <1>3, <2>1, <2>2 DEF NextRound, Walk, Begun
<1>4. CASE Tomorrow
  BY <1>4 DEF Tomorrow, Walk, IsBoundary
<1>5. CASE UNCHANGED cycleVars
  BY <1>5 DEF cycleVars, Walk, Begun, Covers, period_end
<1> QED BY <1>1, <1>2, <1>3, <1>4, <1>5 DEF CycleNext, Search

\* Every step keeps what was announced around today.
LEMMA AnnouncementStep == CycleInv /\ Walk /\ Announcement /\ [CycleNext]_cycleVars => Announcement'
<1> SUFFICES ASSUME CycleInv, Walk, Announcement, [CycleNext]_cycleVars PROVE Announcement'
  OBVIOUS
<1>1. CASE Search
  BY <1>1 DEF Search, NotStarted, Found, NextRound, Announcement, Begun, base_day
<1>2. CASE UNCHANGED cycleVars
  BY <1>2 DEF cycleVars, Announcement, Begun, base_day
<1>3. CASE Tomorrow
  <2>1. CASE loop = "none"
    BY <1>3, <2>1 DEF Tomorrow, Announcement, Walk
  <2>2. CASE loop = "found"
    <3>1. /\ Valid(today) /\ today \in Date /\ Valid(today') /\ today' \in Date
          /\ Before(today, today') /\ today' = NextDay(today)
      BY <1>3, DayAfter, DayLater DEF Tomorrow, CycleInv, CycleTypeOK, Valid
    <3>2. /\ Valid(period_start) /\ Valid(period_end)
          /\ IsBoundary(period_start, base_day)
      BY PeriodEnd DEF CycleInv, CycleTypeOK, Walk
    <3>3. Begun /\ ~Before(today, period_start) /\ Before(today, period_end)
      BY <2>2 DEF Walk, Covers
    <3>4. Before(period_start, today')
      <4>1. CASE period_start = today
        BY <4>1, <3>1
      <4>2. CASE Before(period_start, today)
        BY <4>2, <3>1, <3>2, Transitive DEF Valid
      <4> QED BY <4>1, <4>2, <3>1, <3>2, <3>3, Linear DEF Valid
    <3>5. ~Before(period_end, today')
      BY <3>1, <3>2, <3>3, NothingBetween
    <3>6. Begun'
      <4>1. contract_start \in Date /\ contract_start' = contract_start
        BY <1>3, ContractDay DEF Tomorrow, CycleInv, CycleTypeOK, Valid
      <4>2. ~Before(today', contract_start)
        BY <4>1, <3>1, <3>3, Transitive DEF Begun
      <4> QED BY <4>1, <4>2 DEF Begun
    <3>7. announced' = [from |-> period_start, until |-> period_end]
          /\ contract_start' = contract_start
      BY <1>3, <2>2 DEF Tomorrow
    <3> QED BY <3>2, <3>4, <3>5, <3>6, <3>7
            DEF Announcement, base_day, period_end
  <2> QED BY <1>3, <2>1, <2>2 DEF Tomorrow, CycleInv, CycleTypeOK
<1> QED BY <1>1, <1>2, <1>3 DEF CycleNext

\* The period that holds today is the announced one until its end, and from
\* then on the next: no other boundary lies between them.
LEMMA AnnouncementHolds == CycleInv /\ Walk /\ Announcement => ResetAsAnnounced
<1> SUFFICES ASSUME CycleInv, Walk, Announcement, loop = "found", announced # NoPeriod
             PROVE  IF today = announced.until
                    THEN period_start = today
                    ELSE period_start = announced.from /\ Before(today, announced.until)
  BY DEF ResetAsAnnounced
<1> DEFINE from == announced.from
           until == announced.until
<1>1. /\ today \in Date
      /\ Valid(period_start) /\ period_start \in Date
      /\ Valid(period_end) /\ period_end \in Date
      /\ Valid(from) /\ from \in Date /\ Valid(until) /\ until \in Date
      /\ base_day \in 1..31
  BY PeriodEnd, ContractDay DEF CycleInv, CycleTypeOK, Announcement, Valid, base_day
<1>2. /\ IsBoundary(period_start, base_day) /\ IsBoundary(from, base_day)
      /\ until = NextBoundary(from, base_day)
      /\ period_end = NextBoundary(period_start, base_day)
  BY DEF Walk, Announcement, period_end
<1>3. IsBoundary(until, base_day)
  BY <1>1, <1>2, BoundaryFollows
<1>4. /\ ~Before(today, period_start) /\ Before(today, period_end)
      /\ Before(from, today) /\ ~Before(until, today)
  BY DEF Walk, Announcement, Covers
<1> HIDE DEF from, until
<1>5. CASE today = until
  <2>1. ~Before(period_start, until)
    BY <1>1, <1>2, <1>3, <1>4, <1>5, BoundaryIsNext
  <2> QED BY <1>1, <1>4, <1>5, <2>1, Linear DEF until
<1>6. CASE today # until
  <2>1. Before(today, until)
    BY <1>1, <1>4, <1>6, Linear
  <2>2. ~Before(period_start, from)
    BY <1>1, <1>2, <1>4, BoundaryIsNext, Transitive
  <2>3. ~Before(from, period_start)
    <3>1. SUFFICES ASSUME Before(from, period_start) PROVE FALSE
      OBVIOUS
    <3>2. ~Before(period_start, until)
      BY <1>1, <1>2, <3>1, BoundaryIsNext
    <3>3. CASE period_start = today
      BY <3>2, <3>3, <2>1
    <3>4. CASE Before(period_start, today)
      BY <3>2, <3>4, <2>1, <1>1, Transitive
    <3> QED BY <3>3, <3>4, <1>1, <1>4, Linear
  <2> QED BY <1>1, <1>6, <2>1, <2>2, <2>3, Linear DEF from, until
<1> QED BY <1>5, <1>6

\* For every contract and every day, the period that is found is the one that
\* was announced, so no usage is counted in two periods or in none.
THEOREM AnnouncementsAreKept == CycleSpec => []ResetAsAnnounced
<1>1. CycleInv /\ Walk /\ Announcement /\ [CycleNext]_cycleVars => (Walk /\ Announcement)'
  BY WalkStep, AnnouncementStep
<1>2. CycleSpec => [](Walk /\ Announcement)
  BY <1>1, WalkInitially, CycleInvariance, PTL DEF CycleSpec
<1> QED BY <1>2, CycleInvariance, AnnouncementHolds, PTL

-----------------------------------------------------------------------------
(* The quota                                                                *)

\* What a request that runs may still have been admitted with: its check saw
\* less than the highest limit.
InFlight == {r \in Requests : pc[r] # "idle" /\ locals[r].seen < MaxLimit}

\* A request spends only when its check saw less than a limit in force.
Admitted ==
  \A r \in Requests :
    /\ pc[r] = "enforce" => locals[r].limit <= MaxLimit
    /\ pc[r] \in Spending => locals[r].seen < MaxLimit

\* What is used and what the requests in flight may still spend.
Reserve ==
  used + MaxCost * Cardinality(InFlight)
    < MaxLimit + MaxCost * Cardinality(Requests)

QuotaInv == QuotaTypeOK /\ Admitted /\ Reserve

LEMMA Times ==
  ASSUME NEW a \in Nat, NEW b \in Nat, NEW c \in Nat, a <= b
  PROVE  c * a \in Nat /\ c * b \in Nat /\ c * a <= c * b
<1>1. PICK d \in Nat : b = a + d
  BY b - a \in Nat, b = a + (b - a)
<1>2. c * b = c * a + c * d /\ c * a \in Nat /\ c * d \in Nat
  BY <1>1
<1> QED BY <1>1, <1>2

LEMMA Sizes ==
  /\ Cardinality(Requests) \in Nat \ {0}
  /\ MaxLimit \in Nat /\ MaxCost \in Nat
  /\ \A S \in SUBSET Requests :
       /\ IsFiniteSet(S) /\ Cardinality(S) \in Nat
       /\ Cardinality(S) <= Cardinality(Requests)
  BY QuotaAssumption, FS_Subset, FS_CardinalityType, FS_EmptySet DEF MaxLimit

\* A request that runs has locals.
LEMMA Running ==
  ASSUME QuotaTypeOK, NEW r \in Requests, pc[r] # "idle"
  PROVE  locals[r] \in Locals
  BY DEF QuotaTypeOK

\* Replacing a request's locals.
LEMMA Written ==
  ASSUME QuotaTypeOK, NEW r \in Requests, NEW w \in Locals, NEW p \in Checking \cup Spending,
         locals' = [locals EXCEPT ![r] = w], pc' = [pc EXCEPT ![r] = p]
  PROVE  /\ locals' \in [Requests -> Locals \cup {NoWork}]
         /\ pc' \in [Requests -> Checking \cup Spending \cup {"idle"}]
         /\ locals'[r] = w /\ pc'[r] = p
         /\ \A q \in Requests \ {r} : locals'[q] = locals[q] /\ pc'[q] = pc[q]
         /\ \A q \in Requests : locals'[q] = NoWork <=> pc'[q] = "idle"
  BY QuotaAssumption DEF QuotaTypeOK, Checking, Spending

\* A request that ends spends nothing more.
LEMMA Ended ==
  ASSUME QuotaTypeOK, NEW r \in Requests, End(r)
  PROVE  /\ locals' \in [Requests -> Locals \cup {NoWork}]
         /\ pc' \in [Requests -> Checking \cup Spending \cup {"idle"}]
         /\ pc'[r] = "idle"
         /\ \A q \in Requests \ {r} : locals'[q] = locals[q] /\ pc'[q] = pc[q]
         /\ \A q \in Requests : locals'[q] = NoWork <=> pc'[q] = "idle"
         /\ Admitted => Admitted'
         /\ InFlight' = InFlight \ {r}
  BY DEF QuotaTypeOK, End, Admitted, Checking, Spending, InFlight

\* While less than the limit is used, any set of requests may be in flight.
LEMMA Fresh ==
  ASSUME used' \in Nat, used' < MaxLimit
  PROVE  Reserve'
<1>1. Cardinality(InFlight') \in Nat /\ Cardinality(InFlight') <= Cardinality(Requests)
  BY Sizes DEF InFlight
<1>2. MaxCost * Cardinality(InFlight') <= MaxCost * Cardinality(Requests)
      /\ MaxCost * Cardinality(InFlight') \in Nat /\ MaxCost * Cardinality(Requests) \in Nat
  BY <1>1, Sizes, Times
<1>3. MaxLimit \in Nat
  BY Sizes
<1> QED BY <1>2, <1>3 DEF Reserve, MaxLimit

\* Fewer requests in flight and no more used.
LEMMA Less ==
  ASSUME QuotaTypeOK, Reserve, InFlight' \subseteq InFlight, used' = used
  PROVE  Reserve'
<1>1. /\ InFlight \subseteq Requests /\ IsFiniteSet(InFlight)
      /\ Cardinality(InFlight) \in Nat /\ Cardinality(InFlight') \in Nat
  BY Sizes DEF InFlight
<1>2. Cardinality(InFlight') <= Cardinality(InFlight)
  BY <1>1, FS_Subset
<1>3. MaxCost * Cardinality(InFlight') <= MaxCost * Cardinality(InFlight)
      /\ MaxCost * Cardinality(InFlight') \in Nat /\ MaxCost * Cardinality(InFlight) \in Nat
  BY <1>1, <1>2, Sizes, Times
<1>4. MaxCost * Cardinality(Requests) \in Nat /\ MaxLimit \in Nat
  BY Sizes, Times
<1> QED BY <1>3, <1>4 DEF Reserve, QuotaTypeOK, MaxLimit

LEMMA OneLess ==
  ASSUME NEW S, IsFiniteSet(S), NEW x \in S
  PROVE  Cardinality(S) = Cardinality(S \ {x}) + 1
<1>1. Cardinality(S) \in Nat
  BY FS_CardinalityType
<1>2. Cardinality(S \ {x}) = Cardinality(S) - 1
  BY FS_RemoveElement
<1> QED BY <1>1, <1>2

\* A request in flight that ends may add what one request costs.
LEMMA Spent ==
  ASSUME QuotaTypeOK, Reserve, NEW r \in InFlight, InFlight' = InFlight \ {r},
         NEW c \in 0..MaxCost, used' = used + c
  PROVE  Reserve'
<1>1. /\ InFlight \subseteq Requests /\ IsFiniteSet(InFlight)
      /\ Cardinality(InFlight) \in Nat /\ Cardinality(InFlight') \in Nat
  BY Sizes DEF InFlight
<1>2. Cardinality(InFlight) = Cardinality(InFlight') + 1
  <2>1. Cardinality(InFlight') = Cardinality(InFlight \ {r})
    OBVIOUS
  <2> QED BY <1>1, <2>1, OneLess
<1>3. MaxCost * Cardinality(InFlight) = MaxCost * Cardinality(InFlight') + MaxCost
  BY <1>1, <1>2, Sizes
<1>4. /\ MaxCost * Cardinality(Requests) \in Nat /\ MaxLimit \in Nat /\ MaxCost \in Nat
      /\ MaxCost * Cardinality(InFlight') \in Nat
  BY <1>1, Sizes, Times
<1> QED BY <1>3, <1>4 DEF Reserve, QuotaTypeOK, MaxLimit

LEMMA QuotaInitially == QuotaInit => QuotaInv
<1> SUFFICES ASSUME QuotaInit PROVE QuotaInv
  OBVIOUS
<1>1. QuotaTypeOK /\ Admitted
  BY QuotaAssumption DEF QuotaInit, QuotaTypeOK, Admitted, Checking, Spending
<1>2. InFlight = {}
  BY DEF QuotaInit, InFlight
<1>3. MaxCost * Cardinality(Requests) \in Nat \ {0}
  BY Sizes, QuotaAssumption
<1>4. Reserve
  <2>1. Cardinality(InFlight) = 0
    BY <1>2, FS_EmptySet
  <2>2. MaxCost * Cardinality(InFlight) = 0 /\ MaxLimit \in Nat
    BY <2>1, Sizes
  <2> QED BY <1>3, <2>2 DEF QuotaInit, Reserve, MaxLimit
<1> QED BY <1>1, <1>4 DEF QuotaInv

\* A running request that moves on keeps its locals.
LEMMA Moved ==
  ASSUME QuotaTypeOK, NEW r \in Requests, pc[r] # "idle", NEW p \in Checking \cup Spending,
         pc' = [pc EXCEPT ![r] = p], UNCHANGED locals
  PROVE  /\ pc' \in [Requests -> Checking \cup Spending \cup {"idle"}]
         /\ pc'[r] = p /\ \A q \in Requests \ {r} : pc'[q] = pc[q]
         /\ \A q \in Requests : locals'[q] = NoWork <=> pc'[q] = "idle"
         /\ InFlight' = InFlight
  BY DEF QuotaTypeOK, Checking, Spending, InFlight

\* A move between two places of spending.
LEMMA SpendingOn ==
  ASSUME QuotaInv, NEW r \in Requests, NEW a \in Spending, NEW b \in Spending,
         Move(r, a, b), UNCHANGED <<used, extra, message, patch, locals>>
  PROVE  QuotaInv'
<1>1. pc[r] = a /\ pc[r] # "idle" /\ pc' = [pc EXCEPT ![r] = b]
  BY DEF Move, Spending
<1>2. /\ pc' \in [Requests -> Checking \cup Spending \cup {"idle"}]
      /\ pc'[r] = b /\ \A q \in Requests \ {r} : pc'[q] = pc[q]
      /\ \A q \in Requests : locals'[q] = NoWork <=> pc'[q] = "idle"
      /\ InFlight' = InFlight
  BY <1>1, Moved DEF QuotaInv
<1>3. QuotaTypeOK'
  BY <1>2 DEF QuotaInv, QuotaTypeOK
<1>4. Admitted'
  BY <1>1, <1>2 DEF QuotaInv, Admitted, MaxLimit, Spending
<1>5. Reserve'
  BY <1>2, Less DEF QuotaInv
<1> QED BY <1>3, <1>4, <1>5 DEF QuotaInv

\* A request that ends without recording anything.
LEMMA EndStep ==
  ASSUME QuotaInv, NEW r \in Requests, End(r), UNCHANGED <<used, extra, message, patch>>
  PROVE  QuotaInv'
<1>1. QuotaTypeOK' /\ Admitted' /\ InFlight' \subseteq InFlight
  BY Ended DEF QuotaInv, QuotaTypeOK
<1> QED BY <1>1, Less DEF QuotaInv

\* A request that begins is in flight if the limit is not reached.
LEMMA ResolvePeriodStep ==
  ASSUME QuotaInv, NEW r \in Requests, NEW k \in Kinds, ResolvePeriod(r, k)
  PROVE  QuotaInv'
<1> DEFINE w == [kind |-> k, seen |-> used, limit |-> 0, cost |-> 0]
<1>1. w \in Locals /\ w.seen = used /\ pc[r] = "idle"
  BY QuotaAssumption DEF QuotaInv, QuotaTypeOK, Locals, ResolvePeriod, Move
<1>2. locals' = [locals EXCEPT ![r] = w] /\ pc' = [pc EXCEPT ![r] = "limit"]
  BY DEF ResolvePeriod, Move
<1> HIDE DEF w
<1>3. /\ locals' \in [Requests -> Locals \cup {NoWork}]
      /\ pc' \in [Requests -> Checking \cup Spending \cup {"idle"}]
      /\ locals'[r] = w /\ pc'[r] = "limit"
      /\ \A q \in Requests \ {r} : locals'[q] = locals[q] /\ pc'[q] = pc[q]
      /\ \A q \in Requests : locals'[q] = NoWork <=> pc'[q] = "idle"
  BY <1>1, <1>2, Written DEF QuotaInv, Checking
<1>4. UNCHANGED <<used, extra, message, patch>>
  BY DEF ResolvePeriod
<1>5. QuotaTypeOK'
  BY <1>3, <1>4 DEF QuotaInv, QuotaTypeOK
<1>6. Admitted'
  BY <1>3 DEF QuotaInv, Admitted, MaxLimit, Spending
<1>7. Reserve'
  <2>1. CASE used < MaxLimit
    BY <1>4, <2>1, Fresh DEF QuotaInv, QuotaTypeOK
  <2>2. CASE ~(used < MaxLimit)
    <3>1. InFlight' \subseteq InFlight
      BY <1>1, <1>3, <2>2 DEF InFlight, MaxLimit
    <3> QED BY <1>4, <3>1, Less DEF QuotaInv
  <2> QED BY <2>1, <2>2
<1> QED BY <1>5, <1>6, <1>7 DEF QuotaInv

\* The limit that is read is one of those in force.
LEMMA ResolveLimitStep ==
  ASSUME QuotaInv, NEW r \in Requests, ResolveLimit(r)
  PROVE  QuotaInv'
<1> DEFINE w == [locals[r] EXCEPT !.limit = PlanCredits + extra]
<1>1. locals[r] \in Locals /\ pc[r] = "limit"
  BY Running DEF QuotaInv, ResolveLimit, Move
<1>2. /\ w \in Locals /\ w.seen = locals[r].seen
      /\ w.limit = PlanCredits + extra /\ w.limit <= MaxLimit
  BY <1>1, QuotaAssumption DEF QuotaInv, QuotaTypeOK, Locals, Extras, MaxLimit
<1>3. locals' = [locals EXCEPT ![r] = w] /\ pc' = [pc EXCEPT ![r] = "enforce"]
  BY DEF ResolveLimit, Move
<1> HIDE DEF w
<1>4. /\ locals' \in [Requests -> Locals \cup {NoWork}]
      /\ pc' \in [Requests -> Checking \cup Spending \cup {"idle"}]
      /\ locals'[r] = w /\ pc'[r] = "enforce"
      /\ \A q \in Requests \ {r} : locals'[q] = locals[q] /\ pc'[q] = pc[q]
      /\ \A q \in Requests : locals'[q] = NoWork <=> pc'[q] = "idle"
  BY <1>2, <1>3, Written DEF QuotaInv, Checking
<1>5. UNCHANGED <<used, extra, message, patch>>
  BY DEF ResolveLimit
<1>6. QuotaTypeOK'
  BY <1>4, <1>5 DEF QuotaInv, QuotaTypeOK
<1>7. Admitted'
  BY <1>2, <1>4 DEF QuotaInv, Admitted, MaxLimit, Spending
<1>8. InFlight' \subseteq InFlight
  BY <1>1, <1>2, <1>4 DEF InFlight, MaxLimit
<1> QED BY <1>5, <1>6, <1>7, <1>8, Less DEF QuotaInv

\* A request is admitted when its check saw less than its limit.
LEMMA EnforceStep ==
  ASSUME QuotaInv, NEW r \in Requests, Enforce(r)
  PROVE  QuotaInv'
<1>1. CASE End(r)
  BY <1>1, EndStep DEF Enforce
<1>2. CASE /\ ~Exhausted(locals[r].seen, locals[r].limit)
           /\ Move(r, "enforce", "resolve") /\ UNCHANGED locals
  <2>1. locals[r] \in Locals /\ pc[r] = "enforce" /\ pc' = [pc EXCEPT ![r] = "resolve"]
    BY <1>2, Running DEF QuotaInv, Move
  <2>2. /\ pc' \in [Requests -> Checking \cup Spending \cup {"idle"}]
        /\ pc'[r] = "resolve" /\ \A q \in Requests \ {r} : pc'[q] = pc[q]
        /\ \A q \in Requests : locals'[q] = NoWork <=> pc'[q] = "idle"
        /\ InFlight' = InFlight
    BY <1>2, <2>1, Moved DEF QuotaInv, Spending
  <2>3. locals[r].seen < MaxLimit
    BY <1>2, <2>1, Sizes DEF QuotaInv, Admitted, Exhausted, Locals
  <2>4. UNCHANGED <<used, extra, message, patch>>
    BY DEF Enforce
  <2>5. QuotaTypeOK'
    BY <1>2, <2>2, <2>4 DEF QuotaInv, QuotaTypeOK
  <2>6. Admitted'
    BY <1>2, <2>2, <2>3 DEF QuotaInv, Admitted, MaxLimit, Spending
  <2> QED BY <2>2, <2>4, <2>5, <2>6, Less DEF QuotaInv
<1> QED BY <1>1, <1>2 DEF Enforce

\* The cost of a call is bounded.
LEMMA GenerateStep ==
  ASSUME QuotaInv, NEW r \in Requests, Generate(r)
  PROVE  QuotaInv'
<1>1. PICK c \in 0..MaxCost, next \in {"library", "usage"} :
        /\ Move(r, "generate", next)
        /\ locals' = [locals EXCEPT ![r].cost = c]
  BY DEF Generate
<1> DEFINE w == [locals[r] EXCEPT !.cost = c]
<1>2. locals[r] \in Locals /\ pc[r] = "generate"
  BY <1>1, Running DEF QuotaInv, Move
<1>3. w \in Locals /\ w.seen = locals[r].seen
  BY <1>2 DEF Locals
<1>4. locals' = [locals EXCEPT ![r] = w] /\ pc' = [pc EXCEPT ![r] = next]
  BY <1>1 DEF Move
<1> HIDE DEF w
<1>5. /\ locals' \in [Requests -> Locals \cup {NoWork}]
      /\ pc' \in [Requests -> Checking \cup Spending \cup {"idle"}]
      /\ locals'[r] = w /\ pc'[r] = next
      /\ \A q \in Requests \ {r} : locals'[q] = locals[q] /\ pc'[q] = pc[q]
      /\ \A q \in Requests : locals'[q] = NoWork <=> pc'[q] = "idle"
  BY <1>3, <1>4, Written DEF QuotaInv, Spending
<1>6. UNCHANGED <<used, extra, message, patch>>
  BY DEF Generate
<1>7. QuotaTypeOK'
  BY <1>5, <1>6 DEF QuotaInv, QuotaTypeOK
<1>8. Admitted'
  BY <1>2, <1>3, <1>5 DEF QuotaInv, Admitted, MaxLimit, Spending
<1>9. InFlight' \subseteq InFlight
  BY <1>2, <1>3, <1>5 DEF InFlight, MaxLimit
<1> QED BY <1>6, <1>7, <1>8, <1>9, Less DEF QuotaInv

\* What is recorded was reserved for a request in flight.
LEMMA PersistUsageStep ==
  ASSUME QuotaInv, NEW r \in Requests, PersistUsage(r)
  PROVE  QuotaInv'
<1>1. End(r) /\ pc[r] = "usage" /\ UNCHANGED <<extra, message, patch>>
  BY DEF PersistUsage
<1>2. r \in InFlight /\ InFlight' = InFlight \ {r} /\ Admitted'
  BY <1>1, Ended DEF QuotaInv, Admitted, InFlight, Spending
<1>3. PICK c \in 0..MaxCost : used' = used + c
  <2>1. locals[r] \in Locals
    BY <1>1, Running DEF QuotaInv
  <2>2. locals[r].cost \in 0..MaxCost /\ 0 \in 0..MaxCost /\ used \in Nat
    BY <2>1, QuotaAssumption DEF Locals, QuotaInv, QuotaTypeOK
  <2>3. used' = used + locals[r].cost \/ used' = used + 0
    BY <2>2 DEF PersistUsage
  <2> QED BY <2>2, <2>3
<1>4. Reserve'
  BY <1>2, <1>3, Spent DEF QuotaInv
<1>5. QuotaTypeOK'
  <2>1. used' \in Nat
    BY <1>3, QuotaAssumption DEF QuotaInv, QuotaTypeOK
  <2> QED BY <1>1, <2>1, Ended DEF QuotaInv, QuotaTypeOK
<1> QED BY <1>2, <1>4, <1>5 DEF QuotaInv

\* A new period begins with nothing used; a limit of nothing admits nobody.
LEMMA NewPeriodStep == QuotaInv /\ NewPeriod => QuotaInv'
<1> SUFFICES ASSUME QuotaInv, NewPeriod PROVE QuotaInv'
  OBVIOUS
<1>1. used' = 0 /\ UNCHANGED <<extra, message, pc, locals, patch>>
  BY DEF NewPeriod
<1>2. QuotaTypeOK' /\ Admitted' /\ InFlight' = InFlight
  BY <1>1 DEF QuotaInv, QuotaTypeOK, Admitted, InFlight, MaxLimit
<1>3. Reserve'
  <2>1. CASE MaxLimit # 0
    BY <1>1, <2>1, Sizes, Fresh
  <2>2. CASE MaxLimit = 0
    <3>1. \A r \in Requests : pc[r] # "idle" => locals[r].seen \in Nat
      BY Running DEF QuotaInv, Locals
    <3>2. InFlight' = {}
      BY <1>2, <2>2, <3>1 DEF InFlight
    <3>3. MaxCost * Cardinality(InFlight') = 0
      BY <3>2, FS_EmptySet, Sizes
    <3>4. MaxCost * Cardinality(Requests) \in Nat \ {0} /\ MaxLimit \in Nat
      BY Sizes, QuotaAssumption
    <3> QED BY <1>1, <3>3, <3>4 DEF Reserve, MaxLimit
  <2> QED BY <2>1, <2>2
<1> QED BY <1>2, <1>3 DEF QuotaInv

\* Administrators, deletions and stuttering touch no request.
LEMMA OthersStep ==
  ASSUME QuotaInv, UNCHANGED <<used, pc, locals>>, message' \in BOOLEAN,
         extra' \in Extras, patch' \in Extras \cup {NoWork}
  PROVE  QuotaInv'
<1>1. QuotaTypeOK' /\ Admitted' /\ InFlight' = InFlight
  BY DEF QuotaInv, QuotaTypeOK, Admitted, InFlight, MaxLimit
<1> QED BY <1>1, Less DEF QuotaInv

LEMMA QuotaStep == QuotaInv /\ [QuotaNext]_quotaVars => QuotaInv'
<1> SUFFICES ASSUME QuotaInv, [QuotaNext]_quotaVars PROVE QuotaInv'
  OBVIOUS
<1>1. ASSUME NEW r \in Requests, Serve(r) PROVE QuotaInv'
  <2>1. CASE \E k \in Kinds : ResolvePeriod(r, k)
    BY <2>1, ResolvePeriodStep
  <2>2. CASE ResolveLimit(r)
    BY <2>2, ResolveLimitStep
  <2>3. CASE Enforce(r)
    BY <2>3, EnforceStep
  <2>4. CASE Resolve(r)
    BY <2>4, EndStep, SpendingOn DEF Resolve, Spending
  <2>5. CASE Generate(r)
    BY <2>5, GenerateStep
  <2>6. CASE PersistLibrary(r)
    BY <2>6, EndStep, SpendingOn DEF PersistLibrary, Spending
  <2>7. CASE RefreshLibrary(r)
    BY <2>7, EndStep, SpendingOn DEF RefreshLibrary, Spending
  <2>8. CASE PersistUsage(r)
    BY <2>8, PersistUsageStep
  <2>9. CASE Abandon(r)
    BY <2>9, EndStep DEF Abandon
  <2> QED BY <1>1, <2>1, <2>2, <2>3, <2>4, <2>5, <2>6, <2>7, <2>8, <2>9 DEF Serve
<1>2. ASSUME NEW x \in Extras, ValidatePatch(x) PROVE QuotaInv'
  BY <1>2, OthersStep DEF ValidatePatch, QuotaInv, QuotaTypeOK
<1>3. CASE CommitPatch
  BY <1>3, OthersStep DEF CommitPatch, QuotaInv, QuotaTypeOK
<1>4. CASE DeleteMessage
  BY <1>4, OthersStep DEF DeleteMessage, QuotaInv, QuotaTypeOK
<1>5. CASE NewPeriod
  BY <1>5, NewPeriodStep
<1>6. CASE UNCHANGED quotaVars
  BY <1>6, OthersStep DEF quotaVars, QuotaInv, QuotaTypeOK
<1> QED BY <1>1, <1>2, <1>3, <1>4, <1>5, <1>6 DEF QuotaNext

LEMMA QuotaInvariance == QuotaSpec => []QuotaInv
  BY QuotaInitially, QuotaStep, PTL DEF QuotaSpec

\* Every variable of the quota has its type, for any constants.
THEOREM QuotaTypes == QuotaSpec => []QuotaTypeOK
  BY QuotaInvariance, PTL DEF QuotaInv

\* However many requests run at once, the month's credits exceed the highest
\* limit by less than what those requests can cost together.
THEOREM CreditsAreBounded == QuotaSpec => []OvershootBounded
<1>1. QuotaInv => OvershootBounded
  <2> SUFFICES ASSUME QuotaInv PROVE OvershootBounded
    OBVIOUS
  <2>1. Cardinality(InFlight) \in Nat /\ Cardinality(Requests) \in Nat
    BY Sizes DEF InFlight
  <2>2. /\ MaxCost * Cardinality(InFlight) \in Nat
        /\ MaxCost * Cardinality(Requests) \in Nat
        /\ MaxLimit \in Nat /\ used \in Nat
    BY <2>1, Sizes, Times DEF QuotaInv, QuotaTypeOK
  <2> QED BY <2>2 DEF QuotaInv, Reserve, OvershootBounded, MaxLimit
<1> QED BY <1>1, QuotaInvariance, PTL

-----------------------------------------------------------------------------
(***************************************************************************)
(* What TLAPS proves of StoredFiles, for any number of requests at a time, *)
(* any files, indexes and sources: rows and objects match but for what the *)
(* failures named in FilesMatch leave, and by how much the number of       *)
(* indexes can pass its limit.                                             *)
(*                                                                         *)
(* Neither is inductive.  A row and its object match because of what every *)
(* request in flight knows of its file: before its row is inserted nobody  *)
(* else knows the file (Unshared), and between its two writes one of the   *)
(* stores has it and the other has not (Held).  The limit counts what the  *)
(* requests past the check will still insert (Room).                       *)
(***************************************************************************)

Creating == {"put", "insert"}
Storing == {"refresh", "undo", "mark"}
Deleting == {"drop", "erase"}

\* uuid4 does not give an id again that a row or a request has.
Issued ==
  /\ \A f \in FileIds : Stored(f) => f \in issued
  /\ \A c \in Callers : at[c] \in Steps => work[c].file \in issued

\* A request whose row is not inserted yet is alone with its file.
Unshared ==
  \A c \in Callers :
    at[c] \in Creating =>
      /\ ~Stored(work[c].file)
      /\ \A d \in Callers \ {c} : at[d] \in Steps => work[d].file # work[c].file

\* The object is written before the row, and deleted before it.
Held ==
  \A c \in Callers :
    /\ at[c] = "insert" => work[c].file \in objects
    /\ at[c] = "erase" => work[c].file \notin objects

\* A deletion that saw the file deleted will not hide it; if it is served again
\* by then, a PATCH put it back.
Hidden ==
  \A c \in Callers :
    at[c] \in Deleting /\ work[c].op = "hide" /\ work[c].seen = "DELETED" /\ Served(work[c].file)
      => <<"content", work[c].file>> \in broken

\* The row is of the source the request named.
Sourced ==
  \A c \in Callers :
    at[c] \in Storing /\ Stored(work[c].file) => row[work[c].file].source = work[c].source

\* Every request knows its index, but for a PATCH, which asks for none.
Indexed ==
  \A c \in Callers :
    /\ at[c] \in Creating \cup Storing \cup Deleting => work[c].index \in IndexIds
    /\ at[c] = "alter" => work[c].index \in IndexIds

\* Indexes to come: the requests that have passed the check.
Counted == {c \in Callers : at[c] = "create" /\ work[c].wanted = "SAAS_GLOBAL"}

Room ==
  Cardinality(SaasIndexes \ altered) + Cardinality(Counted) < SaasLimit + Cardinality(Callers)

Known == FilesTypeOK /\ Issued /\ Unshared /\ Held /\ Hidden /\ Sourced /\ Indexed

FilesInv == Known /\ FilesMatch /\ Room
-----------------------------------------------------------------------------
(* How a request moves.                                                    *)

Others(c) == \A d \in Callers \ {c} : at'[d] = at[d] /\ work'[d] = work[d]

Placed ==
  /\ at' \in [Callers -> Steps \cup IndexSteps \cup {"idle"}]
  /\ work' \in [Callers -> Works \cup IndexWorks \cup {None}]
  /\ \A d \in Callers : /\ at'[d] \in Steps => work'[d] \in Works
                        /\ at'[d] \in IndexSteps => work'[d] \in IndexWorks

LEMMA Started ==
  ASSUME FilesTypeOK, NEW c \in Callers, NEW s, NEW w, Start(c, s, w),
         (s \in Steps /\ w \in Works) \/ (s \in IndexSteps /\ w \in IndexWorks)
  PROVE  Placed /\ Others(c) /\ at[c] = "idle" /\ at'[c] = s /\ work'[c] = w
<1>1. \A x \in Steps : x \notin IndexSteps BY DEF Steps, IndexSteps
<1> QED BY <1>1 DEF FilesTypeOK, Start, Placed, Others

LEMMA Gone ==
  ASSUME FilesTypeOK, NEW c \in Callers, NEW s \in Steps, Goto(c, s), at[c] \in Steps
  PROVE  Placed /\ Others(c) /\ at'[c] = s /\ work' = work
<1>1. \A x \in Steps : x \notin IndexSteps BY DEF Steps, IndexSteps
<1> QED BY <1>1 DEF FilesTypeOK, Goto, Placed, Others

LEMMA Released ==
  ASSUME FilesTypeOK, NEW c \in Callers, Done(c)
  PROVE  Placed /\ Others(c) /\ at'[c] = "idle" /\ work'[c] = None
<1>1. "idle" \notin Steps \cup IndexSteps BY DEF Steps, IndexSteps
<1> QED BY <1>1 DEF FilesTypeOK, Done, Placed, Others

\* What a request holds at one of its steps.
LEMMA Working ==
  ASSUME FilesTypeOK, NEW c \in Callers, at[c] \in Steps
  PROVE  /\ work[c] \in Works /\ work[c].file \in FileIds /\ work[c].op \in FileOps
         /\ work[c].source \in Sources \cup {None} /\ work[c].seen \in Statuses
         /\ work[c].wanted \in Statuses /\ work[c].index \in IndexIds \cup {None}
BY DEF FilesTypeOK, Works

-----------------------------------------------------------------------------
(* Rows, objects and sources.                                              *)

LEMMA CreateFileKeeps ==
  ASSUME Known, FilesMatch, NEW c \in Callers, NEW i \in IndexIds, NEW s \in Sources \cup {None},
         NEW f \in FileIds, CreateFile(c, i, s, f)
  PROVE  Known' /\ FilesMatch'
<1> DEFINE w == [op |-> IF s = None THEN "upload" ELSE "learn", index |-> i, file |-> f,
                 source |-> s, seen |-> "ENABLE", wanted |-> "ENABLE"]
<1>1. w \in Works /\ w.file = f /\ w.index = i /\ w.op # "hide" BY DEF Works, FileOps, Statuses
<1>2. Start(c, "put", w) /\ f \notin issued /\ issued' = issued \cup {f}
      /\ UNCHANGED <<index, row, objects, learned, broken, altered>>
  BY DEF CreateFile, NewFile
<1> HIDE DEF w
<1>3. Placed /\ Others(c) /\ at[c] = "idle" /\ at'[c] = "put" /\ work'[c] = w
  BY <1>1, <1>2, Started DEF Known, Steps
<1>4. FilesTypeOK' BY <1>2, <1>3 DEF Known, FilesTypeOK, Placed
<1>5. Issued' BY <1>1, <1>2, <1>3 DEF Known, Issued, Others, Stored
<1>6. Unshared' BY <1>1, <1>2, <1>3 DEF Known, Issued, Unshared, Others, Stored, Creating, Steps
<1>7. Held' /\ Hidden' /\ Sourced' /\ Indexed'
  BY <1>1, <1>2, <1>3 DEF Known, Held, Hidden, Sourced, Indexed, Others, Stored, Served, Creating, Storing, Deleting
<1>8. FilesMatch'
  BY <1>2, <1>3 DEF FilesMatch, ContentKept, ObjectsOwned, LearningMarked, Busy, Others, Stored, Served
<1> QED BY <1>4, <1>5, <1>6, <1>7, <1>8 DEF Known

LEMMA PutKeeps ==
  ASSUME Known, FilesMatch, NEW c \in Callers, Put(c)
  PROVE  Known' /\ FilesMatch'
<1>1. at[c] = "put" /\ at[c] \in Steps /\ UNCHANGED <<index, row, learned, issued, altered>>
  BY DEF Put, Steps
<1>2. /\ work[c].file \in FileIds
      /\ \A d \in Callers \ {c} : at[d] \in Steps => work[d].file # work[c].file
  BY <1>1, Working DEF Known, Unshared, Creating
<1>3. Placed /\ Others(c) /\ at'[c] \in {"insert", "idle"} /\ (at'[c] = "insert" => work' = work)
  BY <1>1, Gone, Released DEF Put, Known, Steps
<1>4. /\ objects \subseteq objects' /\ objects' \subseteq objects \cup {work[c].file}
      /\ at'[c] = "insert" => work[c].file \in objects'
      /\ broken \subseteq broken' /\ broken' \subseteq broken \cup {<<"row", work[c].file>>}
      /\ at'[c] = "idle" => objects' = objects \/ <<"row", work[c].file>> \in broken'
  BY <1>1, <1>3 DEF Put, Leave, Goto, Done, Known, FilesTypeOK
<1>5. FilesTypeOK' BY <1>1, <1>2, <1>3, <1>4 DEF Known, FilesTypeOK, Placed, Troubles
<1>6. Issued' BY <1>1, <1>3 DEF Known, Issued, Others, Stored, Steps
<1>7. Unshared' BY <1>1, <1>3 DEF Known, Unshared, Others, Stored, Creating, Steps
<1>8. Held' BY <1>1, <1>2, <1>3, <1>4 DEF Known, Held, Others, Steps
<1>9. Hidden' /\ Sourced' /\ Indexed'
  BY <1>1, <1>3, <1>4 DEF Known, Hidden, Sourced, Indexed, Others, Stored, Served, Creating, Storing, Deleting
<1>10. ContentKept' /\ LearningMarked'
  BY <1>1, <1>3, <1>4 DEF FilesMatch, ContentKept, LearningMarked, Busy, Others, Stored, Served
<1>11. ASSUME NEW f \in objects'
       PROVE  (Stored(f) \/ <<"row", f>> \in broken \/ Busy(f, {"insert", "undo"}))'
  <2>1. CASE f \in objects
    BY <1>1, <1>3, <1>4, <2>1 DEF FilesMatch, ObjectsOwned, Busy, Others, Stored
  <2>2. CASE f \notin objects
    BY <1>1, <1>3, <1>4, <2>2 DEF Busy
  <2> QED BY <2>1, <2>2
<1> QED BY <1>5, <1>6, <1>7, <1>8, <1>9, <1>10, <1>11 DEF Known, FilesMatch, ObjectsOwned

LEMMA InsertKeeps ==
  ASSUME Known, FilesMatch, NEW c \in Callers, Insert(c)
  PROVE  Known' /\ FilesMatch'
<1> DEFINE g == work[c].file
           R == [index |-> work[c].index, status |-> "ENABLE", source |-> work[c].source]
<1>1. at[c] = "insert" /\ at[c] \in Steps
      /\ UNCHANGED <<index, objects, learned, issued, broken, altered>>
  BY DEF Insert, Steps
<1>2. g \in FileIds /\ R \in Rows /\ R # None /\ R.source = work[c].source /\ g \in objects /\ g \in issued
      /\ ~Stored(g) /\ \A d \in Callers \ {c} : at[d] \in Steps => work[d].file # g
  BY <1>1, Working, FilesAssumption DEF Known, Unshared, Creating, Indexed, Held, Issued, Rows, Statuses
<1>3. CASE row' = [row EXCEPT ![g] = R] /\ Goto(c, "refresh")
           /\ (work[c].source # None => learned[work[c].source] # "gone")
  <2>0. Placed /\ Others(c) /\ at'[c] = "refresh" /\ work' = work
    BY <1>1, <1>3, Gone DEF Known, Steps
  <2>1. /\ row' \in [FileIds -> Rows \cup {None}] /\ row'[g] = R
        /\ \A f \in FileIds \ {g} : row'[f] = row[f]
    BY <1>2, <1>3 DEF Known, FilesTypeOK
  <2> HIDE DEF R
  <2>2. FilesTypeOK' BY <1>1, <2>0, <2>1 DEF Known, FilesTypeOK, Placed
  <2>3. Issued' BY <1>1, <1>2, <2>0, <2>1 DEF Known, Issued, Others, Stored, Steps
  <2>4. Unshared' /\ Held' /\ Indexed'
    BY <1>1, <1>2, <2>0, <2>1, Working
    DEF Known, Unshared, Held, Indexed, Others, Stored, Creating, Storing, Deleting, Steps
  <2>5. Hidden' /\ Sourced'
    BY <1>1, <1>2, <2>0, <2>1, Working
    DEF Known, Hidden, Sourced, Others, Stored, Served, Creating, Storing, Deleting, Steps
  <2>6. ContentKept'
    BY <1>1, <1>2, <2>0, <2>1 DEF FilesMatch, ContentKept, Busy, Others, Stored, Served
  <2>8. ASSUME NEW f \in objects
        PROVE  (Stored(f) \/ <<"row", f>> \in broken \/ Busy(f, {"insert", "undo"}))'
    <3>1. CASE f = g BY <1>2, <2>1, <3>1 DEF Stored
    <3>2. CASE f # g
      <4>1. row'[f] = row[f] BY <2>1, <3>2 DEF Known, FilesTypeOK
      <4> QED BY <1>1, <2>0, <3>2, <4>1 DEF FilesMatch, ObjectsOwned, Busy, Others, Stored
    <3> QED BY <3>1, <3>2
  <2>7. LearningMarked'
    BY <1>1, <1>2, <2>0, <2>1 DEF FilesMatch, LearningMarked, Busy, Others, Stored
  <2> QED BY <1>1, <2>2, <2>3, <2>4, <2>5, <2>6, <2>7, <2>8 DEF Known, FilesMatch, ObjectsOwned
<1>4. CASE Goto(c, "undo") /\ UNCHANGED row
  <2>0. Placed /\ Others(c) /\ at'[c] = "undo" /\ work' = work
    BY <1>1, <1>4, Gone DEF Known, Steps
  <2>1. FilesTypeOK' BY <1>1, <1>4, <2>0 DEF Known, FilesTypeOK, Placed
  <2>2. Issued' BY <1>1, <1>4, <2>0 DEF Known, Issued, Others, Stored, Steps
  <2>3. Unshared' /\ Held' /\ Indexed'
    BY <1>1, <1>4, <2>0
    DEF Known, Unshared, Held, Indexed, Others, Stored, Creating, Storing, Deleting, Steps
  <2>4. Hidden' /\ Sourced'
    BY <1>1, <1>2, <1>4, <2>0
    DEF Known, Hidden, Sourced, Others, Stored, Served, Storing, Deleting
  <2>5. FilesMatch'
    BY <1>1, <1>2, <1>4, <2>0
    DEF FilesMatch, ContentKept, ObjectsOwned, LearningMarked, Busy, Others, Stored, Served
  <2> QED BY <2>1, <2>2, <2>3, <2>4, <2>5 DEF Known
<1> QED BY <1>3, <1>4 DEF Insert

LEMMA RefreshKeeps ==
  ASSUME Known, FilesMatch, NEW c \in Callers, Refresh(c)
  PROVE  Known' /\ FilesMatch'
<1>1. at[c] = "refresh" /\ at[c] \in Steps
      /\ UNCHANGED <<index, row, objects, learned, issued, broken, altered>>
  BY DEF Refresh, Steps
<1>2. Placed /\ Others(c) /\ at'[c] \in {"mark", "undo", "idle"} /\ (at'[c] # "idle" => work' = work)
  BY <1>1, Gone, Released DEF Refresh, Known, Steps
<1>3. at'[c] = "idle" => Stored(work[c].file) /\ work[c].source \notin Feedbacks
  BY <1>1 DEF Refresh, Goto, Known, FilesTypeOK
<1>4. FilesTypeOK' BY <1>1, <1>2 DEF Known, FilesTypeOK, Placed
<1>5. Issued' BY <1>1, <1>2 DEF Known, Issued, Others, Stored, Steps
<1>6. Unshared' /\ Held' /\ Indexed'
  BY <1>1, <1>2
  DEF Known, Unshared, Held, Indexed, Others, Stored, Creating, Storing, Deleting, Steps
<1>7. Hidden' /\ Sourced'
  BY <1>1, <1>2 DEF Known, Hidden, Sourced, Others, Stored, Served, Storing, Deleting
<1>8. ContentKept' /\ ObjectsOwned'
  BY <1>1, <1>2 DEF FilesMatch, ContentKept, ObjectsOwned, Busy, Others, Stored, Served
<1>9. LearningMarked'
  BY <1>1, <1>2, <1>3 DEF FilesMatch, LearningMarked, Busy, Others, Stored, Known, Sourced, Storing
<1> QED BY <1>4, <1>5, <1>6, <1>7, <1>8, <1>9 DEF Known, FilesMatch

LEMMA UndoKeeps ==
  ASSUME Known, FilesMatch, NEW c \in Callers, Undo(c)
  PROVE  Known' /\ FilesMatch'
<1>1. at[c] = "undo" /\ at[c] \in Steps /\ UNCHANGED <<index, row, learned, issued, altered>>
  BY DEF Undo, Steps
<1>2. Placed /\ Others(c) /\ at'[c] = "idle" BY Released DEF Undo, Known
<1>3. work[c].file \in FileIds BY <1>1, Working DEF Known
<1>4. /\ objects' \subseteq objects /\ objects \ {work[c].file} \subseteq objects'
      /\ broken \subseteq broken' /\ broken' \subseteq broken \cup (Troubles \X {work[c].file})
      /\ work[c].source \in Feedbacks => <<"mark", work[c].file>> \in broken'
      /\ work[c].file \notin objects' /\ Stored(work[c].file) => <<"content", work[c].file>> \in broken' \/ work[c].file \notin objects
      /\ work[c].file \in objects' => <<"row", work[c].file>> \in broken'
  BY <1>3 DEF Undo, Unmarked, Troubles
<1>5. FilesTypeOK' BY <1>1, <1>2, <1>3, <1>4 DEF Known, FilesTypeOK, Placed
<1>6. Issued' BY <1>1, <1>2 DEF Known, Issued, Others, Stored, Steps
<1>7. Unshared' BY <1>1, <1>2 DEF Known, Unshared, Others, Stored, Creating, Steps
<1>8. Held'
  BY <1>1, <1>2, <1>4 DEF Known, Held, Unshared, Creating, Others, Steps
<1>9. Hidden' /\ Sourced' /\ Indexed'
  BY <1>1, <1>2, <1>4
  DEF Known, Hidden, Sourced, Indexed, Others, Stored, Served, Creating, Storing, Deleting
<1>10. ContentKept'
  BY <1>1, <1>2, <1>4 DEF FilesMatch, ContentKept, Busy, Others, Stored, Served
<1>11. ASSUME NEW f \in objects'
       PROVE  (Stored(f) \/ <<"row", f>> \in broken \/ Busy(f, {"insert", "undo"}))'
  <2>1. CASE f = work[c].file
    BY <1>4, <2>1
  <2>2. CASE f # work[c].file
    BY <1>1, <1>2, <1>4, <2>2 DEF FilesMatch, ObjectsOwned, Busy, Others, Stored
  <2> QED BY <2>1, <2>2
<1>12. LearningMarked'
  BY <1>1, <1>2, <1>4 DEF FilesMatch, LearningMarked, Busy, Others, Stored, Known, Sourced, Storing
<1> QED BY <1>5, <1>6, <1>7, <1>8, <1>9, <1>10, <1>11, <1>12 DEF Known, FilesMatch, ObjectsOwned

LEMMA MarkKeeps ==
  ASSUME Known, FilesMatch, NEW c \in Callers, Mark(c)
  PROVE  Known' /\ FilesMatch'
<1>1. at[c] = "mark" /\ at[c] \in Steps /\ UNCHANGED <<index, row, objects, issued, altered>>
  BY DEF Mark, Steps
<1>2. Placed /\ Others(c) /\ at'[c] = "idle" BY Released DEF Mark, Known
<1>3. work[c].file \in FileIds /\ work[c].index \in IndexIds /\ work[c].source \in Sources \cup {None}
  BY <1>1, Working DEF Known, Indexed, Storing
<1>4. /\ learned' \in [Sources -> IndexIds \cup {None, "gone"}]
      /\ \A s \in Sources : learned[s] \in IndexIds => learned'[s] \in IndexIds
      /\ broken \subseteq broken' /\ broken' \subseteq broken \cup (Troubles \X {work[c].file})
      /\ work[c].source \in Sources =>
           learned'[work[c].source] \in IndexIds \/ <<"mark", work[c].file>> \in broken'
  BY <1>3 DEF Mark, Leave, Known, FilesTypeOK, Troubles
<1>5. FilesTypeOK' BY <1>1, <1>2, <1>3, <1>4 DEF Known, FilesTypeOK, Placed
<1>6. Issued' BY <1>1, <1>2 DEF Known, Issued, Others, Stored, Steps
<1>7. Unshared' /\ Held' BY <1>1, <1>2 DEF Known, Unshared, Held, Others, Stored, Creating, Steps
<1>8. Hidden' /\ Sourced' /\ Indexed'
  BY <1>1, <1>2, <1>4
  DEF Known, Hidden, Sourced, Indexed, Others, Stored, Served, Creating, Storing, Deleting
<1>9. ContentKept' /\ ObjectsOwned'
  BY <1>1, <1>2, <1>4 DEF FilesMatch, ContentKept, ObjectsOwned, Busy, Others, Stored, Served
<1>10. LearningMarked'
  BY <1>1, <1>2, <1>4, FilesAssumption
  DEF FilesMatch, LearningMarked, Busy, Others, Stored, Known, Sourced, Storing
<1> QED BY <1>5, <1>6, <1>7, <1>8, <1>9, <1>10 DEF Known, FilesMatch

LEMMA FindFileKeeps ==
  ASSUME Known, FilesMatch, NEW c \in Callers, NEW op \in FileOps, NEW i \in IndexIds,
         NEW f \in FileIds, FindFile(c, op, i, f)
  PROVE  Known' /\ FilesMatch'
<1> DEFINE w == [op |-> op, index |-> i, file |-> f, source |-> None,
                 seen |-> IF op = "hide" THEN row[f].status ELSE "ENABLE", wanted |-> "DELETED"]
<1>1. Start(c, "drop", w) /\ Stored(f)
      /\ UNCHANGED <<index, row, objects, learned, issued, broken, altered>>
  BY DEF FindFile
<1>2. row[f] \in Rows BY <1>1 DEF Known, FilesTypeOK, Stored
<1>3. w \in Works /\ w.file = f /\ w.index = i /\ (w.op = "hide" => w.seen = row[f].status)
  BY <1>2 DEF Works, Rows, Statuses
<1> HIDE DEF w
<1>4. Placed /\ Others(c) /\ at[c] = "idle" /\ at'[c] = "drop" /\ work'[c] = w
  BY <1>1, <1>3, Started DEF Known, Steps
<1>5. FilesTypeOK' BY <1>1, <1>4 DEF Known, FilesTypeOK, Placed
<1>6. Issued' BY <1>1, <1>3, <1>4 DEF Known, Issued, Others, Stored
<1>7. Unshared' BY <1>1, <1>3, <1>4 DEF Known, Unshared, Others, Stored, Creating, Steps
<1>8. Held' /\ Sourced' /\ Indexed'
  BY <1>1, <1>3, <1>4 DEF Known, Held, Sourced, Indexed, Others, Stored, Creating, Storing, Deleting
<1>9. Hidden' BY <1>1, <1>3, <1>4 DEF Known, Hidden, Others, Stored, Served, Deleting
<1>10. FilesMatch'
  BY <1>1, <1>4 DEF FilesMatch, ContentKept, ObjectsOwned, LearningMarked, Busy, Others, Stored, Served
<1> QED BY <1>5, <1>6, <1>7, <1>8, <1>9, <1>10 DEF Known

LEMMA DropKeeps ==
  ASSUME Known, FilesMatch, NEW c \in Callers, Drop(c)
  PROVE  Known' /\ FilesMatch'
<1>1. at[c] = "drop" /\ at[c] \in Steps /\ UNCHANGED <<index, row, learned, issued, broken, altered>>
  BY DEF Drop, Steps
<1>2. /\ Placed /\ Others(c) /\ at'[c] \in {"erase", "idle"} /\ (at'[c] = "erase" => work' = work)
      /\ objects' \subseteq objects /\ objects \ {work[c].file} \subseteq objects'
      /\ at'[c] = "erase" => work[c].file \notin objects'
      /\ at'[c] = "idle" => objects' = objects
  BY <1>1, Gone, Released DEF Drop, Known, Steps
<1>3. FilesTypeOK' BY <1>1, <1>2 DEF Known, FilesTypeOK, Placed
<1>4. Issued' BY <1>1, <1>2 DEF Known, Issued, Others, Stored, Steps
<1>5. Unshared' BY <1>1, <1>2 DEF Known, Unshared, Others, Stored, Creating, Steps
<1>6. Held' BY <1>1, <1>2 DEF Known, Held, Unshared, Creating, Others, Steps
<1>7. Hidden' /\ Sourced' /\ Indexed'
  BY <1>1, <1>2
  DEF Known, Hidden, Sourced, Indexed, Others, Stored, Served, Creating, Storing, Deleting
<1>8. ContentKept'
  <2>1. CASE at'[c] = "erase"
    BY <1>1, <1>2, <2>1 DEF FilesMatch, ContentKept, Busy, Others, Stored, Served
  <2>2. CASE at'[c] = "idle"
    BY <1>1, <1>2, <2>2 DEF FilesMatch, ContentKept, Busy, Others, Stored, Served
  <2> QED BY <1>2, <2>1, <2>2
<1>9. ObjectsOwned' /\ LearningMarked'
  BY <1>1, <1>2 DEF FilesMatch, ObjectsOwned, LearningMarked, Busy, Others, Stored
<1> QED BY <1>3, <1>4, <1>5, <1>6, <1>7, <1>8, <1>9 DEF Known, FilesMatch

\* What erasing does to the rows: the file is gone, or hidden, or left alone.
LEMMA Erased ==
  ASSUME Known, NEW c \in Callers, at[c] = "erase", EraseRow(c), NEW g \in FileIds,
         g = work[c].file
  PROVE  /\ row' \in [FileIds -> Rows \cup {None}]
         /\ \A f \in FileIds \ {g} : row'[f] = row[f]
         /\ row'[g] # None => row[g] # None /\ row'[g].source = row[g].source
         /\ work[c].op # "hide" => row'[g] = None
         /\ row'[g] # None /\ row'[g].status # "DELETED" => <<"content", g>> \in broken
<1>3. CASE work[c].op # "hide"
  <2>1. row' = [row EXCEPT ![g] = None] BY <1>3 DEF EraseRow
  <2> QED BY <1>3, <2>1 DEF Known, FilesTypeOK
<1>4. CASE work[c].op = "hide" /\ Stored(g) /\ work[c].seen # "DELETED"
  <2>1. row[g] \in Rows BY <1>4 DEF Known, FilesTypeOK, Stored
  <2> DEFINE h == [row[g] EXCEPT !.status = "DELETED"]
  <2>2. h \in Rows /\ h.source = row[g].source /\ h.status = "DELETED" /\ h # None
    BY <2>1, FilesAssumption DEF Rows, Statuses
  <2>3. row' = [row EXCEPT ![g] = h] BY <1>4 DEF EraseRow
  <2> HIDE DEF h
  <2>4. row' \in [FileIds -> Rows \cup {None}] /\ row'[g] = h
        /\ \A f \in FileIds \ {g} : row'[f] = row[f]
    BY <2>2, <2>3 DEF Known, FilesTypeOK
  <2> QED BY <1>4, <2>2, <2>4 DEF Stored
<1>5. CASE work[c].op = "hide" /\ (~Stored(g) \/ work[c].seen = "DELETED")
  <2>1. row' = row BY <1>5 DEF EraseRow
  <2>2. Served(g) => <<"content", g>> \in broken
    BY <1>5 DEF Known, Hidden, Deleting, Served
  <2> QED BY <1>5, <2>1, <2>2 DEF Known, FilesTypeOK, Stored, Served
<1> QED BY <1>3, <1>4, <1>5

LEMMA EraseKeeps ==
  ASSUME Known, FilesMatch, NEW c \in Callers, Erase(c)
  PROVE  Known' /\ FilesMatch'
<1> DEFINE g == work[c].file
<1>1. at[c] = "erase" /\ at[c] \in Steps /\ UNCHANGED <<index, objects, learned, altered>>
  BY DEF Erase, Steps
<1>2. g \in FileIds /\ work[c] \in Works /\ work[c].index \in IndexIds /\ g \notin objects
  BY <1>1, Working DEF Known, Indexed, Deleting, Held
<1>3. CASE work[c].op # "replace" /\ EraseRow(c) /\ Done(c) /\ UNCHANGED <<issued, broken>>
  <2>0. Placed /\ Others(c) /\ at'[c] = "idle" BY <1>3, Released DEF Known
  <2>1. /\ row' \in [FileIds -> Rows \cup {None}]
        /\ \A f \in FileIds \ {g} : row'[f] = row[f]
        /\ row'[g] # None => row[g] # None /\ row'[g].source = row[g].source
        /\ row'[g] # None /\ row'[g].status # "DELETED" => <<"content", g>> \in broken
    BY <1>1, <1>2, <1>3, Erased
  <2>2. FilesTypeOK' BY <1>1, <1>3, <2>0, <2>1 DEF Known, FilesTypeOK, Placed
  <2>3. Issued' BY <1>1, <1>2, <1>3, <2>0, <2>1 DEF Known, Issued, Others, Stored, Steps
  <2>4. Unshared' /\ Held' /\ Indexed'
    BY <1>1, <1>2, <2>0, <2>1, Working
    DEF Known, Unshared, Held, Indexed, Others, Stored, Creating, Storing, Deleting, Steps
  <2>5. Hidden'
    BY <1>1, <1>2, <1>3, <2>0, <2>1, Working DEF Known, Hidden, Others, Stored, Served, Deleting, Steps
  <2>6. Sourced'
    BY <1>1, <1>2, <1>3, <2>0, <2>1, Working DEF Known, Sourced, Others, Stored, Storing, Steps
  <2>7. ContentKept'
    BY <1>1, <1>2, <1>3, <2>0, <2>1 DEF FilesMatch, ContentKept, Busy, Others, Stored, Served
  <2>8. ASSUME NEW f \in objects
        PROVE  (Stored(f) \/ <<"row", f>> \in broken \/ Busy(f, {"insert", "undo"}))'
    <3>1. row'[f] = row[f] /\ f # g BY <1>2, <2>1 DEF Known, FilesTypeOK
    <3> QED BY <1>1, <1>3, <2>0, <2>1, <3>1 DEF FilesMatch, ObjectsOwned, Busy, Others, Stored
  <2>9. LearningMarked'
    BY <1>1, <1>2, <1>3, <2>0, <2>1 DEF FilesMatch, LearningMarked, Busy, Others, Stored
  <2> QED BY <2>2, <2>3, <2>4, <2>5, <2>6, <2>7, <2>8, <2>9, <1>1 DEF Known, FilesMatch, ObjectsOwned
<1>4. ASSUME NEW n \in FileIds, work[c].op = "replace", EraseRow(c), UNCHANGED broken, NewFile(n),
             at' = [at EXCEPT ![c] = "put"], work' = [work EXCEPT ![c].file = n]
      PROVE  Known' /\ FilesMatch'
  <2> DEFINE w == [work[c] EXCEPT !.file = n]
  <2>1. w \in Works /\ w.file = n /\ w.index = work[c].index /\ w.op = "replace"
    BY <1>2, <1>4 DEF Works
  <2>2. work' = [work EXCEPT ![c] = w] BY <1>4
  <2> HIDE DEF w
  <2>3. Placed /\ Others(c) /\ at'[c] = "put" /\ work'[c] = w
    <3>1. \A x \in Steps : x \notin IndexSteps BY DEF Steps, IndexSteps
    <3> QED BY <1>4, <2>1, <2>2, <3>1 DEF Known, FilesTypeOK, Placed, Others, Steps
  <2>4. /\ row' \in [FileIds -> Rows \cup {None}]
        /\ \A f \in FileIds \ {g} : row'[f] = row[f]
        /\ row'[g] = None
        /\ n # g /\ n \notin issued /\ issued' = issued \cup {n} /\ row'[n] = None
    BY <1>1, <1>2, <1>4, Erased DEF NewFile, Known, Issued, Stored
  <2>5. FilesTypeOK' BY <1>1, <1>4, <2>3, <2>4 DEF Known, FilesTypeOK, Placed
  <2>6. Issued' BY <1>1, <1>2, <2>1, <2>3, <2>4 DEF Known, Issued, Others, Stored
  <2>7. Unshared'
    BY <1>1, <1>2, <2>1, <2>3, <2>4, Working
    DEF Known, Issued, Unshared, Others, Stored, Creating, Steps
  <2>8. Held' /\ Indexed'
    BY <1>1, <1>2, <2>1, <2>3 DEF Known, Held, Indexed, Others, Creating, Storing, Deleting
  <2>9. Hidden'
    BY <1>1, <1>4, <2>3, <2>4, Working DEF Known, Hidden, Others, Stored, Served, Deleting, Steps
  <2>10. Sourced'
    BY <1>1, <2>3, <2>4, Working DEF Known, Sourced, Others, Stored, Storing, Steps
  <2>11. ContentKept'
    BY <1>1, <1>2, <1>4, <2>3, <2>4 DEF FilesMatch, ContentKept, Busy, Others, Stored, Served
  <2>12. ASSUME NEW f \in objects
        PROVE  (Stored(f) \/ <<"row", f>> \in broken \/ Busy(f, {"insert", "undo"}))'
    <3>1. row'[f] = row[f] /\ f # g BY <1>2, <2>4 DEF Known, FilesTypeOK
    <3> QED BY <1>1, <1>4, <2>3, <2>4, <3>1 DEF FilesMatch, ObjectsOwned, Busy, Others, Stored
  <2>13. LearningMarked'
    BY <1>1, <1>2, <1>4, <2>3, <2>4 DEF FilesMatch, LearningMarked, Busy, Others, Stored
  <2> QED BY <2>5, <2>6, <2>7, <2>8, <2>9, <2>10, <2>11, <2>12, <2>13, <1>1 DEF Known, FilesMatch, ObjectsOwned
<1>5. CASE Leave("content", {g}) /\ Done(c) /\ UNCHANGED <<row, issued>>
  <2>0. Placed /\ Others(c) /\ at'[c] = "idle" BY <1>5, Released DEF Known
  <2>1. broken' = broken \cup {<<"content", g>>} BY <1>5 DEF Leave
  <2>2. FilesTypeOK' BY <1>1, <1>2, <1>5, <2>0, <2>1 DEF Known, FilesTypeOK, Placed, Troubles
  <2>3. Issued' /\ Unshared' /\ Held' /\ Indexed'
    BY <1>1, <1>5, <2>0
    DEF Known, Issued, Unshared, Held, Indexed, Others, Stored, Creating, Storing, Deleting, Steps
  <2>4. Hidden' /\ Sourced'
    BY <1>1, <1>5, <2>0, <2>1 DEF Known, Hidden, Sourced, Others, Stored, Served, Storing, Deleting
  <2>5. FilesMatch'
    BY <1>1, <1>5, <2>0, <2>1
    DEF FilesMatch, ContentKept, ObjectsOwned, LearningMarked, Busy, Others, Stored, Served
  <2> QED BY <2>2, <2>3, <2>4, <2>5 DEF Known
<1> QED BY <1>3, <1>4, <1>5 DEF Erase

LEMMA LoadFileKeeps ==
  ASSUME Known, FilesMatch, NEW c \in Callers, NEW f \in FileIds, NEW s \in Statuses,
         LoadFile(c, f, s)
  PROVE  Known' /\ FilesMatch'
<1> DEFINE w == [op |-> "patch", index |-> None, file |-> f, source |-> None,
                 seen |-> row[f].status, wanted |-> s]
<1>1. Start(c, "save", w) /\ Stored(f)
      /\ UNCHANGED <<index, row, objects, learned, issued, broken, altered>>
  BY DEF LoadFile
<1>2. row[f] \in Rows BY <1>1 DEF Known, FilesTypeOK, Stored
<1>3. w \in Works /\ w.file = f BY <1>2 DEF Works, Rows, FileOps
<1> HIDE DEF w
<1>4. Placed /\ Others(c) /\ at[c] = "idle" /\ at'[c] = "save" /\ work'[c] = w
  BY <1>1, <1>3, Started DEF Known, Steps
<1>5. FilesTypeOK' BY <1>1, <1>4 DEF Known, FilesTypeOK, Placed
<1>6. Issued' BY <1>1, <1>3, <1>4 DEF Known, Issued, Others, Stored
<1>7. Unshared' BY <1>1, <1>3, <1>4 DEF Known, Unshared, Others, Stored, Creating, Steps
<1>8. Held' /\ Sourced' /\ Indexed' /\ Hidden'
  BY <1>1, <1>4
  DEF Known, Held, Sourced, Indexed, Hidden, Others, Stored, Served, Creating, Storing, Deleting
<1>9. FilesMatch'
  BY <1>1, <1>4 DEF FilesMatch, ContentKept, ObjectsOwned, LearningMarked, Busy, Others, Stored, Served
<1> QED BY <1>5, <1>6, <1>7, <1>8, <1>9 DEF Known

LEMMA SaveKeeps ==
  ASSUME Known, FilesMatch, NEW c \in Callers, Save(c)
  PROVE  Known' /\ FilesMatch'
<1> DEFINE g == work[c].file
<1>1. at[c] = "save" /\ at[c] \in Steps /\ UNCHANGED <<index, objects, learned, issued, altered>>
  BY DEF Save, Steps
<1>2. g \in FileIds /\ work[c] \in Works /\ work[c].wanted \in Statuses BY <1>1, Working DEF Known
<1>3. Placed /\ Others(c) /\ at'[c] = "idle" BY Released DEF Save, Known
<1>4. CASE /\ Stored(g) /\ row' = [row EXCEPT ![g].status = work[c].wanted]
           /\ IF Served(g) THEN UNCHANGED broken ELSE Leave("content", {g})
  <2>1. row[g] \in Rows BY <1>2, <1>4 DEF Known, FilesTypeOK, Stored
  <2> DEFINE h == [row[g] EXCEPT !.status = work[c].wanted]
  <2>2. h \in Rows /\ h.source = row[g].source /\ h # None
    BY <1>2, <2>1, FilesAssumption DEF Rows
  <2>3. row' = [row EXCEPT ![g] = h] BY <1>4
  <2> HIDE DEF h
  <2>4. /\ row' \in [FileIds -> Rows \cup {None}] /\ row'[g] = h
        /\ row'[g] # None /\ row[g] # None /\ row'[g].source = row[g].source
        /\ \A f \in FileIds \ {g} : row'[f] = row[f]
    BY <1>2, <1>4, <2>2, <2>3 DEF Known, FilesTypeOK, Stored
  <2>5. /\ broken \subseteq broken' /\ broken' \subseteq broken \cup {<<"content", g>>}
        /\ Served(g) \/ <<"content", g>> \in broken'
    BY <1>4 DEF Leave
  <2>6. FilesTypeOK' BY <1>1, <1>2, <1>3, <2>4, <2>5 DEF Known, FilesTypeOK, Placed, Troubles
  <2>7. Issued' BY <1>1, <1>3, <2>4 DEF Known, Issued, Others, Stored, Steps
  <2>8. Unshared' /\ Held' /\ Indexed'
    BY <1>1, <1>3, <2>4, Working
    DEF Known, Unshared, Held, Indexed, Others, Stored, Creating, Storing, Deleting, Steps
  <2>9. Hidden'
    BY <1>1, <1>3, <2>4, <2>5, Working DEF Known, Hidden, Others, Stored, Served, Deleting, Steps
  <2>10. Sourced'
    BY <1>1, <1>3, <2>4, Working DEF Known, Sourced, Others, Stored, Storing, Steps
  <2>11. ContentKept'
    BY <1>1, <1>3, <2>4, <2>5 DEF FilesMatch, ContentKept, Busy, Others, Stored, Served
  <2>12. ASSUME NEW f \in objects
         PROVE  (Stored(f) \/ <<"row", f>> \in broken \/ Busy(f, {"insert", "undo"}))'
    <3>1. f \in FileIds BY DEF Known, FilesTypeOK
    <3> QED BY <1>1, <1>3, <2>4, <2>5, <3>1 DEF FilesMatch, ObjectsOwned, Busy, Others, Stored
  <2>13. LearningMarked'
    BY <1>1, <1>3, <2>4, <2>5 DEF FilesMatch, LearningMarked, Busy, Others, Stored
  <2> QED
    BY <1>1, <2>6, <2>7, <2>8, <2>9, <2>10, <2>11, <2>12, <2>13 DEF Known, FilesMatch, ObjectsOwned
<1>5. CASE UNCHANGED <<row, broken>>
  <2>1. FilesTypeOK' BY <1>1, <1>3, <1>5 DEF Known, FilesTypeOK, Placed
  <2>2. Issued' /\ Unshared' /\ Held' /\ Indexed'
    BY <1>1, <1>3, <1>5
    DEF Known, Issued, Unshared, Held, Indexed, Others, Stored, Creating, Storing, Deleting, Steps
  <2>3. Hidden' /\ Sourced'
    BY <1>1, <1>3, <1>5 DEF Known, Hidden, Sourced, Others, Stored, Served, Storing, Deleting
  <2>4. FilesMatch'
    BY <1>1, <1>3, <1>5
    DEF FilesMatch, ContentKept, ObjectsOwned, LearningMarked, Busy, Others, Stored, Served
  <2> QED BY <2>1, <2>2, <2>3, <2>4 DEF Known
<1> QED BY <1>4, <1>5 DEF Save

\* Requests for indexes leave rows and objects alone.
LEMMA IndexRequestKeeps ==
  ASSUME Known, FilesMatch, NEW c \in Callers, Placed, Others(c),
         at[c] \in IndexSteps \cup {"idle"}, at'[c] \in IndexSteps \cup {"idle"},
         at'[c] = "alter" => work'[c].index \in IndexIds,
         index' \in [IndexIds -> Types \cup {"new", "gone"}], altered' \in SUBSET IndexIds,
         UNCHANGED <<row, objects, learned, issued, broken>>
  PROVE  Known' /\ FilesMatch'
<1>1. \A x \in IndexSteps \cup {"idle"} : x \notin Steps /\ x \notin Creating \cup Storing \cup Deleting
  BY DEF Steps, IndexSteps, Creating, Storing, Deleting
<1>2. FilesTypeOK' BY DEF Known, FilesTypeOK, Placed
<1>3. Issued' /\ Unshared' /\ Held' /\ Indexed'
  BY <1>1 DEF Known, Issued, Unshared, Held, Indexed, Others, Stored, IndexSteps, Creating
<1>4. Hidden' /\ Sourced' BY <1>1 DEF Known, Hidden, Sourced, Others, Stored, Served
<1>5. FilesMatch'
  BY <1>1
  DEF FilesMatch, ContentKept, ObjectsOwned, LearningMarked, Busy, Others, Stored, Served, IndexSteps
<1> QED BY <1>2, <1>3, <1>4, <1>5 DEF Known

\* Rows that go with an index or a source leave their objects behind.
LEMMA CascadeKeeps ==
  ASSUME Known, FilesMatch, NEW F \in SUBSET FileIds, Cascade(F),
         index' \in [IndexIds -> Types \cup {"new", "gone"}],
         learned' \in [Sources -> IndexIds \cup {None, "gone"}],
         \A f \in FileIds \ F : Stored(f) /\ row[f].source \in Sources =>
           learned'[row[f].source] = learned[row[f].source],
         UNCHANGED <<objects, issued, at, work, altered>>
  PROVE  Known' /\ FilesMatch'
<1>1. /\ row' \in [FileIds -> Rows \cup {None}]
      /\ \A f \in FileIds : row'[f] = IF f \in F THEN None ELSE row[f]
      /\ broken' = broken \cup {<<"row", f>> : f \in F}
  BY DEF Cascade, Leave, Known, FilesTypeOK
<1>2. FilesTypeOK' BY <1>1 DEF Known, FilesTypeOK, Troubles
<1>3. Issued' /\ Unshared' /\ Held' /\ Indexed'
  BY <1>1, Working DEF Known, Issued, Unshared, Held, Indexed, Stored, Creating, Steps
<1>4. Hidden' /\ Sourced'
  BY <1>1, Working DEF Known, Hidden, Sourced, Stored, Served, Deleting, Storing, Steps
<1>5. ContentKept' BY <1>1 DEF FilesMatch, ContentKept, Busy, Stored, Served
<1>6. ASSUME NEW f \in objects
      PROVE  (Stored(f) \/ <<"row", f>> \in broken \/ Busy(f, {"insert", "undo"}))'
  <2>1. f \in FileIds BY DEF Known, FilesTypeOK
  <2> QED BY <1>1, <2>1 DEF FilesMatch, ObjectsOwned, Busy, Stored
<1>7. LearningMarked' BY <1>1, FilesAssumption DEF FilesMatch, LearningMarked, Busy, Stored
<1> QED BY <1>2, <1>3, <1>4, <1>5, <1>6, <1>7 DEF Known, FilesMatch, ObjectsOwned

LEMMA StopKeeps ==
  ASSUME Known, FilesMatch, NEW c \in Callers, Stop(c)
  PROVE  Known' /\ FilesMatch'
<1> DEFINE g == work[c].file
<1>1. Placed /\ Others(c) /\ at'[c] = "idle" /\ UNCHANGED <<index, row, objects, learned, issued, altered>>
  BY Released DEF Stop, Known
<1>2. /\ broken \subseteq broken' /\ broken' \subseteq broken \cup (Troubles \X {g})
      /\ at[c] \in {"insert", "undo"} => <<"row", g>> \in broken'
      /\ at[c] = "erase" => <<"content", g>> \in broken'
      /\ at[c] \in Storing => <<"mark", g>> \in broken'
      /\ at[c] \notin Steps => broken' = broken
  BY DEF Stop, Troubles, Storing, Steps
<1>3. FilesTypeOK'
  <2>1. CASE at[c] \in Steps BY <1>1, <1>2, <2>1, Working DEF Known, FilesTypeOK, Placed
  <2>2. CASE at[c] \notin Steps BY <1>1, <1>2, <2>2 DEF Known, FilesTypeOK, Placed
  <2> QED BY <2>1, <2>2
<1>4. Issued' /\ Unshared' /\ Held' /\ Indexed'
  BY <1>1
  DEF Known, Issued, Unshared, Held, Indexed, Others, Stored, Creating, Storing, Deleting, Steps
<1>5. Hidden' /\ Sourced'
  BY <1>1, <1>2 DEF Known, Hidden, Sourced, Others, Stored, Served, Storing, Deleting
<1>6. ContentKept' BY <1>1, <1>2 DEF FilesMatch, ContentKept, Busy, Others, Stored, Served
<1>7. ObjectsOwned' BY <1>1, <1>2 DEF FilesMatch, ObjectsOwned, Busy, Others, Stored
<1>8. LearningMarked'
  BY <1>1, <1>2 DEF FilesMatch, LearningMarked, Busy, Others, Stored, Storing
<1> QED BY <1>3, <1>4, <1>5, <1>6, <1>7, <1>8 DEF Known, FilesMatch

LEMMA FilesStep ==
  ASSUME Known, FilesMatch, [FilesNext]_fileVars
  PROVE  Known' /\ FilesMatch'
<1>1. ASSUME NEW c \in Callers, ServeFile(c) PROVE Known' /\ FilesMatch'
  BY <1>1, CreateFileKeeps, FindFileKeeps, LoadFileKeeps, PutKeeps, InsertKeeps, RefreshKeeps,
     UndoKeeps, MarkKeeps, DropKeeps, EraseKeeps, SaveKeeps, StopKeeps
  DEF ServeFile
<1>2. ASSUME NEW c \in Callers, NEW t \in Types, CountIndexes(c, t) PROVE Known' /\ FilesMatch'
  <2> DEFINE w == [index |-> None, seen |-> t, wanted |-> t]
  <2>1. w \in IndexWorks BY DEF IndexWorks
  <2>2. Start(c, "create", w) /\ UNCHANGED <<index, row, objects, learned, issued, broken, altered>>
    BY <1>2 DEF CountIndexes
  <2> HIDE DEF w
  <2>3. Placed /\ Others(c) /\ at[c] = "idle" /\ at'[c] = "create"
    BY <2>1, <2>2, Started DEF Known, IndexSteps
  <2> QED BY <2>2, <2>3, IndexRequestKeeps DEF IndexSteps, Known, FilesTypeOK
<1>3. ASSUME NEW c \in Callers, NEW i \in IndexIds, NEW t \in Types, LoadIndex(c, i, t)
      PROVE  Known' /\ FilesMatch'
  <2> DEFINE w == [index |-> i, seen |-> index[i], wanted |-> t]
  <2>1. w \in IndexWorks /\ w.index = i BY <1>3 DEF IndexWorks, LoadIndex, Exists
  <2>2. Start(c, "alter", w) /\ UNCHANGED <<index, row, objects, learned, issued, broken, altered>>
    BY <1>3 DEF LoadIndex
  <2> HIDE DEF w
  <2>3. Placed /\ Others(c) /\ at[c] = "idle" /\ at'[c] = "alter" /\ work'[c] = w
    BY <2>1, <2>2, Started DEF Known, IndexSteps
  <2> QED BY <2>1, <2>2, <2>3, IndexRequestKeeps DEF IndexSteps, Known, FilesTypeOK
<1>4. ASSUME NEW c \in Callers, CreateIndex(c) \/ AlterIndex(c) PROVE Known' /\ FilesMatch'
  <2>1. at[c] \in IndexSteps /\ Done(c) /\ UNCHANGED <<row, objects, learned, issued, broken>>
    BY <1>4 DEF CreateIndex, AlterIndex, IndexSteps
  <2>2. Placed /\ Others(c) /\ at'[c] = "idle" BY <2>1, Released DEF Known
  <2>3. work[c] \in IndexWorks BY <2>1 DEF Known, FilesTypeOK
  <2>4. index' \in [IndexIds -> Types \cup {"new", "gone"}] /\ altered' \in SUBSET IndexIds
    BY <1>4, <2>3 DEF CreateIndex, AlterIndex, Known, FilesTypeOK, Indexed, IndexWorks
  <2> QED BY <2>1, <2>2, <2>4, IndexRequestKeeps
<1>5. ASSUME NEW i \in IndexIds, DeleteIndex(i) PROVE Known' /\ FilesMatch'
  <2>1. index' \in [IndexIds -> Types \cup {"new", "gone"}] BY <1>5 DEF DeleteIndex, Known, FilesTypeOK
  <2> QED
    BY <1>5, <2>1, CascadeKeeps DEF DeleteIndex, Known, FilesTypeOK
<1>6. ASSUME NEW s \in Sources, DeleteSource(s) PROVE Known' /\ FilesMatch'
  <2> DEFINE F == {f \in FileIds : Stored(f) /\ row[f].source = s}
  <2>1. Cascade(F) /\ UNCHANGED <<index, objects, issued, at, work, altered>>
    BY <1>6 DEF DeleteSource
  <2>2. /\ learned' \in [Sources -> IndexIds \cup {None, "gone"}]
        /\ \A x \in Sources \ {s} : learned'[x] = learned[x]
    BY <1>6 DEF DeleteSource, Known, FilesTypeOK
  <2>3. \A f \in FileIds \ F : Stored(f) /\ row[f].source \in Sources =>
          learned'[row[f].source] = learned[row[f].source]
    BY <2>2
  <2>4. F \in SUBSET FileIds /\ index' \in [IndexIds -> Types \cup {"new", "gone"}]
    BY <2>1 DEF Known, FilesTypeOK
  <2> HIDE DEF F
  <2> QED BY <2>1, <2>2, <2>3, <2>4, CascadeKeeps
<1>7. ASSUME NEW fs \in SUBSET FileIds, DeleteUser(fs) PROVE Known' /\ FilesMatch'
  BY <1>7, CascadeKeeps DEF DeleteUser, Known, FilesTypeOK
<1>8. CASE UNCHANGED fileVars
  <2>1. UNCHANGED <<index, row, objects, learned, issued, at, work, broken, altered>>
    BY <1>8 DEF fileVars
  <2>2. FilesTypeOK' BY <2>1 DEF Known, FilesTypeOK
  <2>3. Issued' /\ Unshared' /\ Held' /\ Indexed'
    BY <2>1 DEF Known, Issued, Unshared, Held, Indexed, Stored
  <2>4. Hidden' /\ Sourced' BY <2>1 DEF Known, Hidden, Sourced, Stored, Served
  <2>5. FilesMatch'
    BY <2>1 DEF FilesMatch, ContentKept, ObjectsOwned, LearningMarked, Busy, Stored, Served
  <2> QED BY <2>2, <2>3, <2>4, <2>5 DEF Known
<1> QED BY <1>1, <1>2, <1>3, <1>4, <1>5, <1>6, <1>7, <1>8 DEF FilesNext, ServeIndex

-----------------------------------------------------------------------------
(* The number of indexes.                                                  *)

LEMMA Counts ==
  /\ Cardinality(Callers) \in Nat \ {0} /\ SaasLimit \in Nat \ {0}
  /\ IsFiniteSet(SaasIndexes) /\ Cardinality(SaasIndexes) \in Nat
  /\ IsFiniteSet(SaasIndexes \ altered) /\ Cardinality(SaasIndexes \ altered) \in Nat
  /\ Cardinality(SaasIndexes \ altered) <= Cardinality(SaasIndexes)
  /\ IsFiniteSet(Counted) /\ Cardinality(Counted) \in Nat
<1>1. SaasIndexes \subseteq IndexIds /\ SaasIndexes \ altered \subseteq SaasIndexes
      /\ Counted \subseteq Callers
  BY DEF SaasIndexes, Counted
<1>2. IsFiniteSet(SaasIndexes) /\ IsFiniteSet(Counted) BY <1>1, FilesAssumption, FS_Subset
<1>3. IsFiniteSet(SaasIndexes \ altered) /\ Cardinality(SaasIndexes \ altered) <= Cardinality(SaasIndexes)
  BY <1>1, <1>2, FS_Subset
<1> QED BY <1>2, <1>3, FilesAssumption, FS_CardinalityType, FS_EmptySet

\* Fewer indexes and fewer requests past the check.
LEMMA Fewer ==
  ASSUME Room, NEW S, NEW C, S \subseteq SaasIndexes \ altered, C \subseteq Counted
  PROVE  Cardinality(S) + Cardinality(C) < SaasLimit + Cardinality(Callers)
<1>1. IsFiniteSet(S) /\ Cardinality(S) <= Cardinality(SaasIndexes \ altered)
      /\ IsFiniteSet(C) /\ Cardinality(C) <= Cardinality(Counted)
  BY Counts, FS_Subset
<1>2. Cardinality(S) \in Nat /\ Cardinality(C) \in Nat BY <1>1, FS_CardinalityType
<1> QED BY <1>1, <1>2, Counts DEF Room

LEMMA OneMore ==
  ASSUME NEW S, IsFiniteSet(S), NEW x
  PROVE  IsFiniteSet(S \cup {x}) /\ Cardinality(S \cup {x}) <= Cardinality(S) + 1
<1>1. Cardinality(S) \in Nat BY FS_CardinalityType
<1>2. IsFiniteSet(S \cup {x})
      /\ Cardinality(S \cup {x}) = IF x \in S THEN Cardinality(S) ELSE Cardinality(S) + 1
  BY FS_AddElement
<1> QED BY <1>1, <1>2

\* No request more is past the check.
LEMMA Fall ==
  ASSUME NEW c \in Callers, Others(c), at'[c] # "create"
  PROVE  Counted' \subseteq Counted
BY DEF Counted, Others

LEMMA FileRequests ==
  ASSUME Known, NEW c \in Callers, ServeFile(c)
  PROVE  Others(c) /\ at'[c] # "create" /\ UNCHANGED <<index, altered>>
<1>1. at \in [Callers -> Steps \cup IndexSteps \cup {"idle"}] /\ DOMAIN work = Callers
  BY DEF Known, FilesTypeOK
<1>2. CASE \/ \E i \in IndexIds, s \in Sources \cup {None}, f \in FileIds : CreateFile(c, i, s, f)
           \/ \E op \in FileOps, i \in IndexIds, f \in FileIds : FindFile(c, op, i, f)
           \/ \E f \in FileIds, s \in Statuses : LoadFile(c, f, s)
  BY <1>1, <1>2 DEF CreateFile, FindFile, LoadFile, Start, Others
<1>3. CASE Put(c) \/ Insert(c) \/ Refresh(c) \/ Undo(c) \/ Mark(c)
  BY <1>1, <1>3 DEF Put, Insert, Refresh, Undo, Mark, Goto, Done, Others
<1>4. CASE Drop(c) \/ Save(c) \/ Stop(c)
  BY <1>1, <1>4 DEF Drop, Save, Stop, Goto, Done, Others
<1>5. CASE Erase(c)
  BY <1>1, <1>5 DEF Erase, Done, Others
<1> QED BY <1>2, <1>3, <1>4, <1>5 DEF ServeFile

LEMMA RoomStep ==
  ASSUME Known, Room, [FilesNext]_fileVars
  PROVE  Room'
<1>1. ASSUME SaasIndexes' \ altered' \subseteq SaasIndexes \ altered, Counted' \subseteq Counted
      PROVE  Room'
  BY <1>1, Fewer DEF Room
<1>2. ASSUME NEW c \in Callers, ServeFile(c) PROVE Room'
  <2>1. SaasIndexes' = SaasIndexes /\ altered' = altered BY <1>2, FileRequests DEF SaasIndexes
  <2> QED BY <1>1, <1>2, <2>1, FileRequests, Fall
<1>3. ASSUME NEW c \in Callers, NEW t \in Types, CountIndexes(c, t) PROVE Room'
  <2>1. SaasIndexes' = SaasIndexes /\ altered' = altered BY <1>3 DEF CountIndexes, SaasIndexes
  <2>2. CASE t = "SAAS_GLOBAL"
    <3>1. Cardinality(SaasIndexes) < SaasLimit BY <1>3, <2>2 DEF CountIndexes
    <3>2. Counted' \subseteq Callers BY DEF Counted
    <3>3. Cardinality(Counted') \in Nat /\ Cardinality(Counted') <= Cardinality(Callers)
      BY <3>2, FilesAssumption, FS_Subset, FS_CardinalityType
    <3> QED BY <2>1, <3>1, <3>3, Counts DEF Room
  <2>3. CASE t # "SAAS_GLOBAL"
    <3>1. /\ Others(c) /\ work'[c] = [index |-> None, seen |-> t, wanted |-> t]
      BY <1>3 DEF CountIndexes, Start, Others, Known, FilesTypeOK
    <3>2. Counted' \subseteq Counted BY <2>3, <3>1 DEF Counted, Others
    <3> QED BY <1>1, <2>1, <3>2
  <2> QED BY <2>2, <2>3
<1>4. ASSUME NEW c \in Callers, NEW i \in IndexIds, NEW t \in Types, LoadIndex(c, i, t) PROVE Room'
  <2>1. SaasIndexes' = SaasIndexes /\ altered' = altered /\ Others(c) /\ at'[c] = "alter"
    BY <1>4 DEF LoadIndex, SaasIndexes, Start, Others, Known, FilesTypeOK
  <2> QED BY <1>1, <2>1, Fall
<1>5. ASSUME NEW c \in Callers, CreateIndex(c) PROVE Room'
  <2>1. at[c] = "create" /\ altered' = altered /\ Others(c) /\ at'[c] = "idle"
    BY <1>5 DEF CreateIndex, Done, Others, Known, FilesTypeOK
  <2>2. PICK i \in IndexIds : index[i] = "new" /\ index' = [index EXCEPT ![i] = work[c].wanted]
    BY <1>5 DEF CreateIndex
  <2>3. CASE work[c].wanted # "SAAS_GLOBAL"
    <3>1. SaasIndexes' \subseteq SaasIndexes BY <2>2, <2>3 DEF SaasIndexes, Known, FilesTypeOK
    <3>2. Counted' \subseteq Counted BY <2>1, Fall
    <3> QED BY <1>1, <2>1, <3>1, <3>2
  <2>4. CASE work[c].wanted = "SAAS_GLOBAL"
    <3>1. SaasIndexes' \ altered' \subseteq (SaasIndexes \ altered) \cup {i}
      BY <2>1, <2>2 DEF SaasIndexes, Known, FilesTypeOK
    <3>2. c \in Counted /\ Counted' = Counted \ {c} BY <2>1, <2>4 DEF Counted, Others
    <3>3. Cardinality(Counted') = Cardinality(Counted) - 1
      BY <3>2, Counts, FS_RemoveElement
    <3>4. /\ IsFiniteSet((SaasIndexes \ altered) \cup {i})
          /\ Cardinality((SaasIndexes \ altered) \cup {i}) <= Cardinality(SaasIndexes \ altered) + 1
      BY Counts, OneMore
    <3>5. /\ Cardinality(SaasIndexes' \ altered') \in Nat
          /\ Cardinality(SaasIndexes' \ altered') <= Cardinality((SaasIndexes \ altered) \cup {i})
          /\ Cardinality((SaasIndexes \ altered) \cup {i}) \in Nat
      BY <3>1, <3>4, FS_Subset, FS_CardinalityType
    <3> QED BY <3>3, <3>4, <3>5, Counts DEF Room
  <2> QED BY <2>3, <2>4
<1>6. ASSUME NEW c \in Callers, AlterIndex(c) PROVE Room'
  <2>1. at[c] = "alter" /\ Others(c) /\ at'[c] = "idle" /\ work[c].index \in IndexIds
    BY <1>6 DEF AlterIndex, Done, Others, Known, FilesTypeOK, Indexed
  <2>2. SaasIndexes' \ altered' \subseteq SaasIndexes \ altered
    BY <1>6, <2>1 DEF AlterIndex, SaasIndexes, Known, FilesTypeOK
  <2> QED BY <1>1, <2>1, <2>2, Fall
<1>7. ASSUME NEW i \in IndexIds, DeleteIndex(i) PROVE Room'
  <2>1. SaasIndexes' \ altered' \subseteq SaasIndexes \ altered /\ Counted' = Counted
    BY <1>7 DEF DeleteIndex, SaasIndexes, Counted, Known, FilesTypeOK
  <2> QED BY <1>1, <2>1
<1>8. ASSUME NEW s \in Sources, DeleteSource(s) PROVE Room'
  <2>1. SaasIndexes' = SaasIndexes /\ altered' = altered /\ Counted' = Counted
    BY <1>8 DEF DeleteSource, SaasIndexes, Counted
  <2> QED BY <1>1, <2>1
<1>9. ASSUME NEW fs \in SUBSET FileIds, DeleteUser(fs) PROVE Room'
  <2>1. SaasIndexes' = SaasIndexes /\ altered' = altered /\ Counted' = Counted
    BY <1>9 DEF DeleteUser, SaasIndexes, Counted
  <2> QED BY <1>1, <2>1
<1>10. CASE UNCHANGED fileVars
  <2>1. SaasIndexes' = SaasIndexes /\ altered' = altered /\ Counted' = Counted
    BY <1>10 DEF fileVars, SaasIndexes, Counted
  <2> QED BY <1>1, <2>1
<1> QED BY <1>2, <1>3, <1>4, <1>5, <1>6, <1>7, <1>8, <1>9, <1>10 DEF FilesNext, ServeIndex

-----------------------------------------------------------------------------
LEMMA FilesStart ==
  ASSUME FilesInit
  PROVE  FilesInv
<1>1. \A x \in Steps \cup IndexSteps \cup Creating \cup Storing \cup Deleting : x # "idle"
  BY DEF Steps, IndexSteps, Creating, Storing, Deleting
<1>2. \A c \in Callers : at[c] = "idle" BY DEF FilesInit
<1>3. FilesTypeOK BY <1>1 DEF FilesInit, FilesTypeOK
<1>4. Issued /\ Unshared /\ Held /\ Hidden /\ Sourced /\ Indexed
  BY <1>1, <1>2 DEF FilesInit, Issued, Unshared, Held, Hidden, Sourced, Indexed, Stored
<1>5. FilesMatch
  BY DEF FilesInit, FilesMatch, ContentKept, ObjectsOwned, LearningMarked, Stored, Served
<1>6. Room
  <2>1. Counted = {} BY <1>2 DEF Counted
  <2>2. Cardinality(Counted) = 0 BY <2>1, FS_EmptySet
  <2> QED BY <2>2, Counts DEF Room, FilesInit
<1> QED BY <1>3, <1>4, <1>5, <1>6 DEF FilesInv, Known

LEMMA FilesInvariance == FilesSpec => []FilesInv
<1>1. FilesInv /\ [FilesNext]_fileVars => FilesInv' BY FilesStep, RoomStep DEF FilesInv
<1> QED BY FilesStart, <1>1, PTL DEF FilesSpec

\* Every variable of the files and indexes has its type.
THEOREM FilesTypes == FilesSpec => []FilesTypeOK
<1>1. FilesInv => FilesTypeOK BY DEF FilesInv, Known
<1> QED BY FilesInvariance, <1>1, PTL

\* Rows and objects match whatever requests cross, but for what the failures
\* that FilesMatch names leave behind (FileService, create_file_record,
\* additional_learning).
THEOREM FilesAlwaysMatch == FilesSpec => []FilesMatch
<1>1. FilesInv => FilesMatch BY DEF FilesInv
<1> QED BY FilesInvariance, <1>1, PTL

\* The limit of indexes is passed by as many creations as run at the same time,
\* less one, whatever their number (IndexService.create_index).
THEOREM IndexesAreBounded == FilesSpec => []LimitHolds
<1>1. FilesInv => LimitHolds BY Counts DEF FilesInv, Room, LimitHolds
<1> QED BY FilesInvariance, <1>1, PTL
=============================================================================
