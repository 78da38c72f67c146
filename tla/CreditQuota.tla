---------------------------- MODULE CreditQuota ----------------------------
(***************************************************************************)
(* The tenant's monthly credits: checked before a request, spent by it and *)
(* added up after it.                                                      *)
(*                                                                         *)
(* enforce_within_quota sums the token_usages of the billing period before *)
(* a model is called; the request's own row is inserted when the call has  *)
(* ended.  Requests of one tenant run concurrently, the tenant's           *)
(* administrator may change the usage-based part of the limit, the period  *)
(* may end under a running request, and the message a chat belongs to may  *)
(* be deleted.  The model follows LlmChatService.stream_chat and           *)
(* LlmEmbeddingService.create_embedding; the answers of message_service    *)
(* check and spend in the same order (ChatStream has their details).       *)
(*                                                                         *)
(* One tenant, with a subscription and a limited plan: without them        *)
(* nothing is enforced.  The server's clock and the database's agree.      *)
(***************************************************************************)
EXTENDS Naturals, FiniteSets

CONSTANTS
  Requests,     \* places for requests of one tenant that run at the same time
  PlanCredits,  \* plan.max_credits_per_month
  MaxExtra,     \* bound: the highest max_usage_based_credits_per_month
  MaxCost,      \* bound: the credits one request spends at most
  NoWork

VARIABLES
  used,     \* the credits of the token_usages in the current billing period
  extra,    \* tenants.max_usage_based_credits_per_month
  message,  \* whether the message that chats belong to exists
  pc,       \* where each request is
  locals,     \* its locals
  patch     \* the limit an administrator's PATCH has validated, or NoWork

quotaVars == <<used, extra, message, pc, locals, patch>>

\* What is asked for: an embedding, a chat without a message, a chat of a
\* message, or a library of one.
Kinds == {"embedding", "chat", "message", "library"}
Linked == {"message", "library"}

Extras == 0..MaxExtra
Locals == [kind : Kinds, seen : Nat, limit : Nat, cost : 0..MaxCost]

Checking == {"limit", "enforce"}
Spending == {"resolve", "generate", "library", "refresh", "usage"}

ASSUME QuotaAssumption ==
  /\ IsFiniteSet(Requests) /\ Requests # {}
  /\ PlanCredits \in Nat /\ MaxExtra \in Nat /\ MaxCost \in Nat \ {0}
  /\ NoWork \notin Extras \cup Locals

QuotaTypeOK ==
  /\ used \in Nat
  /\ extra \in Extras
  /\ message \in BOOLEAN
  /\ pc \in [Requests -> Checking \cup Spending \cup {"idle"}]
  /\ locals \in [Requests -> Locals \cup {NoWork}]
  /\ \A r \in Requests : locals[r] = NoWork <=> pc[r] = "idle"
  /\ patch \in Extras \cup {NoWork}

QuotaInit ==
  /\ used = 0
  /\ extra \in Extras
  /\ message = TRUE
  /\ pc = [r \in Requests |-> "idle"]
  /\ locals = [r \in Requests |-> NoWork]
  /\ patch = NoWork

Move(r, from, to) == pc[r] = from /\ pc' = [pc EXCEPT ![r] = to]

EndKeepingLocals(r) ==
  /\ pc' = [pc EXCEPT ![r] = "idle"]
  /\ UNCHANGED locals

End(r) ==
  /\ pc' = [pc EXCEPT ![r] = "idle"]
  /\ locals' = [locals EXCEPT ![r] = NoWork]

-----------------------------------------------------------------------------
(* enforce_within_quota                                                    *)

\* The period and its rows are those up to now, so what is recorded while the
\* check runs does not count.
ResolvePeriod(r, k) ==
  /\ Move(r, "idle", "limit")
  /\ locals' = [locals EXCEPT ![r] =
                [kind |-> k, seen |-> used, limit |-> 0, cost |-> 0]]
  /\ UNCHANGED <<used, extra, message, patch>>

ResolveLimit(r) ==
  /\ Move(r, "limit", "enforce")
  /\ locals' = [locals EXCEPT ![r].limit = PlanCredits + extra]
  /\ UNCHANGED <<used, extra, message, patch>>

OverLimit(seen, limit) == seen > limit

Exhausted(seen, limit) == seen >= limit

Enforce(r) ==
  /\ pc[r] = "enforce"
  /\ \/ /\ ~Exhausted(locals[r].seen, locals[r].limit)
        /\ Move(r, "enforce", "resolve")
        /\ UNCHANGED locals
     \/ Exhausted(locals[r].seen, locals[r].limit) /\ End(r)
  /\ UNCHANGED <<used, extra, message, patch>>

-----------------------------------------------------------------------------
(* What follows an admitted request                                        *)

\* A request that names a message needs it; other lookups may fail as well.
Resolve(r) ==
  /\ pc[r] = "resolve"
  /\ \/ /\ locals[r].kind \in Linked => message
        /\ Move(r, "resolve", "generate")
        /\ UNCHANGED locals
     \/ End(r)
  /\ UNCHANGED <<used, extra, message, patch>>

\* The call ends, with the counts that arrived until then: none if it failed
\* early.  A library is due when its text is complete.
Generate(r) ==
  /\ \E c \in 0..MaxCost, next \in {"library", "usage"} :
       /\ Move(r, "generate", next)
       /\ next = "library" => locals[r].kind = "library"
       /\ locals' = [locals EXCEPT ![r].cost = c]
  /\ UNCHANGED <<used, extra, message, patch>>

\* _persist_library: an insert without its message raises out of the `finally`,
\* and so does the refresh of a row that went with its message.
PersistLibrary(r) ==
  /\ \/ message /\ Move(r, "library", "refresh") /\ UNCHANGED locals
     \/ ~message /\ pc[r] = "library" /\ End(r)
  /\ UNCHANGED <<used, extra, message, patch>>

RefreshLibrary(r) ==
  /\ \/ message /\ Move(r, "refresh", "usage") /\ UNCHANGED locals
     \/ ~message /\ pc[r] = "refresh" /\ End(r)
  /\ UNCHANGED <<used, extra, message, patch>>

\* _persist_token_usage, for a chat without effect when nothing was counted;
\* a row that names a message which is gone is refused.
PersistUsage(r) ==
  /\ pc[r] = "usage" /\ End(r)
  /\ used' = IF locals[r].kind \in Linked => message
               THEN used + locals[r].cost ELSE used
  /\ UNCHANGED <<extra, message, patch>>

\* The client goes before the response starts, the provider refuses an
\* embedding, the request is cancelled or its process dies.
Abandon(r) ==
  /\ pc[r] # "idle" /\ End(r)
  /\ UNCHANGED <<used, extra, message, patch>>

-----------------------------------------------------------------------------
(* Others                                                                  *)

DeleteMessage ==
  /\ message /\ message' = FALSE
  /\ UNCHANGED <<used, extra, pc, locals, patch>>

\* TenantService.patch_admin_tenant validates the new limit and then commits it.
ValidatePatch(x) ==
  /\ patch = NoWork
  /\ used < PlanCredits + x
  /\ patch' = x
  /\ UNCHANGED <<used, extra, message, pc, locals>>

CommitPatch ==
  /\ patch # NoWork
  /\ extra' = patch /\ patch' = NoWork
  /\ UNCHANGED <<used, message, pc, locals>>

\* A boundary of BillingCycle, on any day.
NewPeriod ==
  /\ used # 0 /\ used' = 0
  /\ UNCHANGED <<extra, message, pc, locals, patch>>

-----------------------------------------------------------------------------
Serve(r) ==
  \/ \E k \in Kinds : ResolvePeriod(r, k)
  \/ ResolveLimit(r) \/ Enforce(r) \/ Resolve(r) \/ Generate(r)
  \/ PersistLibrary(r) \/ RefreshLibrary(r) \/ PersistUsage(r) \/ Abandon(r)

QuotaNext ==
  \/ \E r \in Requests : Serve(r)
  \/ \E x \in Extras : ValidatePatch(x)
  \/ CommitPatch \/ DeleteMessage \/ NewPeriod

QuotaSpec == QuotaInit /\ [][QuotaNext]_quotaVars

-----------------------------------------------------------------------------
(* Properties                                                              *)

MaxLimit == PlanCredits + MaxExtra

\* The check is made before the spending and without a lock, so the limit may
\* be passed, but by no more than what the requests that run at the same time
\* can spend, less the credit that let the last of them in.  It holds across
\* the end of a period and changes of the limit.
OvershootBounded == used < MaxLimit + MaxCost * Cardinality(Requests)
=============================================================================
