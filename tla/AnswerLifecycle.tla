--------------------------- MODULE AnswerLifecycle ---------------------------
(***************************************************************************)
(* What a chat stream promises, whatever it does inside: an answer is      *)
(* stored at most once per request, its token usage is billed at most once *)
(* and only after the answer is stored, and the client is told "complete"  *)
(* only when the answer is stored and everything consumed is billed.  A    *)
(* request may be abandoned at any point before the announcement.          *)
(***************************************************************************)
CONSTANT Requests

VARIABLES
  stage,     \* how far each request is, as its client and the database see it
  consumed,  \* whether the request consumed tokens at the model provider
  billed     \* whether its token usage is recorded

vars == <<stage, consumed, billed>>

Stages == {"waiting", "answering", "stored", "announced", "over"}

TypeOK ==
  /\ stage \in [Requests -> Stages]
  /\ consumed \in [Requests -> BOOLEAN]
  /\ billed \in [Requests -> BOOLEAN]

Init ==
  /\ stage = [r \in Requests |-> "waiting"]
  /\ consumed = [r \in Requests |-> FALSE]
  /\ billed = [r \in Requests |-> FALSE]

Move(r, from, to) ==
  /\ stage[r] \in from
  /\ stage' = [stage EXCEPT ![r] = to]

\* Preparing the request may have consumed tokens already.
Begin(r) ==
  /\ Move(r, {"waiting"}, "answering")
  /\ \E b \in BOOLEAN : consumed' = [consumed EXCEPT ![r] = b]
  /\ UNCHANGED billed

Consume(r) ==
  /\ stage[r] = "answering"
  /\ consumed' = [consumed EXCEPT ![r] = TRUE]
  /\ UNCHANGED <<stage, billed>>

Store(r) == Move(r, {"answering"}, "stored") /\ UNCHANGED <<consumed, billed>>

Bill(r) ==
  /\ stage[r] = "stored" /\ consumed[r] /\ ~billed[r]
  /\ billed' = [billed EXCEPT ![r] = TRUE]
  /\ UNCHANGED <<stage, consumed>>

Announce(r) ==
  /\ consumed[r] => billed[r]
  /\ Move(r, {"stored"}, "announced")
  /\ UNCHANGED <<consumed, billed>>

\* Any set of requests may be abandoned together: a worker process that dies
\* takes every stream it was serving with it.
Abandon(R) ==
  /\ R # {}
  /\ \A r \in R : stage[r] \in {"waiting", "answering", "stored"}
  /\ stage' = [r \in Requests |-> IF r \in R THEN "over" ELSE stage[r]]
  /\ UNCHANGED <<consumed, billed>>

Next ==
  \/ \E r \in Requests :
       Begin(r) \/ Consume(r) \/ Store(r) \/ Bill(r) \/ Announce(r)
  \/ \E R \in SUBSET Requests : Abandon(R)

Spec == Init /\ [][Next]_vars
=============================================================================
