--------------------------- MODULE MessageContents ---------------------------
(***************************************************************************)
(* What a list of messages says: its contents, fetched from the service or, *)
(* for an assistant of the secure type, from the server that it names.     *)
(*                                                                         *)
(* The list is partitioned by where its contents are; the partitions that  *)
(* can be fetched are fetched at once and answered in any order, each or   *)
(* not; the rest, and what fails, is filled with messages in error.        *)
(***************************************************************************)
EXTENDS Naturals, Sequences, SequencesExt

CONSTANTS
  Messages,  \* the list, in its order
  Known      \* what an assistant may be: its type and its endpoints, in order,
             \* each with what it lacks

Ids == ToSet(Messages)
Nobody == "null"          \* the assistant of a message whose own was deleted
Described == {"x", "y"}

VARIABLES
  owner,     \* of each message
  listed,    \* the assistants that the answer with the list describes
  phase,     \* "list", "fetching", "shown"
  out,       \* partitions being fetched
  got,       \* contentsByMessageId: the content, or an error in its place
  failures,
  shown,     \* what the list of contents became
  toasts

contentVars == <<owner, listed, phase, out, got, failures, shown, toasts>>

ContentInit ==
  /\ owner \in [Ids -> Described \cup {Nobody}]
  /\ \E described \in SUBSET Described : listed \in [described -> Known]
  /\ phase = "list" /\ out = {} /\ got = <<>> /\ failures = {}
  /\ shown = <<>> /\ toasts = {}

\* The first endpoint that is a local server's, or else the first.
resolveAssistantEndpoint(assistant) ==
  LET local == SelectSeq(assistant.endpoints, LAMBDA e : e.type = "LOCAL_SERVER")
      endpoint == Head(local \o assistant.endpoints)
  IN  IF assistant.type # "SECURE" THEN "naw"
      ELSE IF assistant.endpoints = <<>> THEN "no_endpoint"
      ELSE IF "destination" \in endpoint.lacks THEN "missing_destination"
      ELSE IF "apiKey" \in endpoint.lacks THEN "missing_api_key"
      ELSE "local"

Invalid == {"assistant_not_found", "no_endpoint", "missing_destination",
            "missing_api_key"}

WhereOf(a) ==
  IF a = Nobody THEN "naw"
  ELSE IF a \notin DOMAIN listed THEN "assistant_not_found"
  ELSE resolveAssistantEndpoint(listed[a])

\* One partition for all that the service keeps, and one for each other assistant.
buildPartitions ==
  LET naw == {m \in Ids : WhereOf(owner[m]) = "naw"}
      others == {owner[m] : m \in Ids \ naw}
  IN  {p \in {[kind |-> "naw", ids |-> naw]} : naw # {}} \cup
      {[kind |-> WhereOf(a), ids |-> {m \in Ids : owner[m] = a}] : a \in others}

buildErrorPlaceholder(m) == [id |-> m, status |-> "ERROR"]
Content(m) == [id |-> m, status |-> "KNOWN"]

Contents(ids) == [m \in ids |-> Content(m)]
Errors(ids) == [m \in ids |-> buildErrorPlaceholder(m)]
IdsOf(parts) == UNION {p.ids : p \in parts}

fetchContents ==
  /\ phase = "list"
  /\ LET invalid == {p \in buildPartitions : p.kind \in Invalid}
     IN  /\ out' = buildPartitions \ invalid
         /\ failures' = {[ids |-> p.ids, reason |-> p.kind] : p \in invalid}
         /\ got' = Errors(IdsOf(invalid))
  /\ phase' = "fetching"
  /\ UNCHANGED <<owner, listed, shown, toasts>>

\* The service leaves out a message that it no longer has.
fetchPartition(p, ids) ==
  /\ p \in out /\ ids \subseteq p.ids
  /\ out' = out \ {p}
  /\ got' = Contents(ids) @@ got
  /\ UNCHANGED <<owner, listed, phase, failures, shown, toasts>>

failPartition(p) ==
  /\ p \in out
  /\ out' = out \ {p}
  /\ got' = Errors(p.ids) @@ got
  /\ failures' = failures \cup {[ids |-> p.ids, reason |-> "fetch_failed"]}
  /\ UNCHANGED <<owner, listed, phase, shown, toasts>>

mergeContentsByMessageOrder ==
  LET kept == SelectSeq(Messages, LAMBDA m : m \in DOMAIN got)
  IN  [i \in DOMAIN kept |-> got[kept[i]]]

notifyContentFetchFailures ==
  LET reasons == {f.reason : f \in failures}
  IN  {"LOCAL_ENDPOINT_INVALID" : r \in reasons \cap Invalid} \cup
      {"LOCAL_FETCH_FAILED" : r \in reasons \cap {"fetch_failed"}}

\* Promise.allSettled is over.
Settle ==
  /\ phase = "fetching" /\ out = {}
  /\ phase' = "shown"
  /\ shown' = mergeContentsByMessageOrder
  /\ toasts' = notifyContentFetchFailures
  /\ UNCHANGED <<owner, listed, out, got, failures>>

ContentNext ==
  \/ fetchContents \/ Settle
  \/ \E p \in out : failPartition(p) \/ \E ids \in SUBSET p.ids : fetchPartition(p, ids)

ContentSpec == ContentInit /\ [][ContentNext]_contentVars

----------------------------------------------------------------------------
(* Properties.                                                             *)

\* What could not be fetched is shown in error, in its place, and the user is told;
\* one partition that fails takes nothing from the others.
\* (MessageContentsApiService.fetchContents.)
NothingLost ==
  phase = "shown" =>
    /\ \A i, j \in DOMAIN shown : i < j =>
         SelectSeq(Messages, LAMBDA m : m \in {shown[i].id, shown[j].id})
           = <<shown[i].id, shown[j].id>>
    /\ \A m \in Ids :
         buildErrorPlaceholder(m) \in ToSet(shown) <=>
           WhereOf(owner[m]) \in Invalid \/ \E f \in failures : m \in f.ids
    /\ toasts # {} <=> \E c \in ToSet(shown) : c.status = "ERROR"
=============================================================================
