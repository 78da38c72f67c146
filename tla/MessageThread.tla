--------------------------- MODULE MessageThread ---------------------------
(***************************************************************************)
(* The helpers that show a tree of questions as one thread.  A record is   *)
(* a question as the server lists it; records with the same parent are     *)
(* versions of one question, and an index per parent says which version is *)
(* shown.  A message is what the chat shows: a question or an answer, mid  *)
(* the record it belongs to.                                               *)
(*                                                                         *)
(* An identifier is <<kind, number>>.  Indices count from one here and     *)
(* from zero in the code.                                                  *)
(***************************************************************************)
EXTENDS Positions, SequencesExt

Null == <<"none", 0>>

Ids(recs) == {recs[i].id : i \in 1..Len(recs)}

\* The record of an identifier some record has.
RecordOf(recs, id) == recs[CHOOSE i \in 1..Len(recs) : recs[i].id = id]

\* The parent is its own group's key; the root's is Null.
toMessageGroupKey(parent) == parent

getSiblingRecords(recs, parent) == At(recs, {i \in 1..Len(recs) : recs[i].parent = parent})

Groups(recs) == {recs[i].parent : i \in 1..Len(recs)}

initializeActiveVersionIndex(recs) ==
  [g \in {h \in Groups(recs) : Len(getSiblingRecords(recs, h)) > 1} |->
     Len(getSiblingRecords(recs, g))]

IndexOf(active, g, siblings) == IF g \in DOMAIN active THEN active[g] ELSE Len(siblings)

\* The version shown of a group; an index past the versions shows the last.
VersionShown(recs, active, g) ==
  LET siblings == getSiblingRecords(recs, g)
      i == IndexOf(active, g, siblings)
  IN  siblings[IF i \in 1..Len(siblings) THEN i ELSE Len(siblings)].id

\* The records of the thread shown: the versions shown whose parents are shown.
Walked(recs, active) ==
  LET on[id \in Ids(recs)] ==
        \E parent \in {RecordOf(recs, id).parent} :
          /\ VersionShown(recs, active, parent) = id
          /\ parent = Null \/ (parent \in Ids(recs) /\ on[parent])
  IN  {id \in Ids(recs) : on[id]}

Depth(recs) ==
  LET depth[id \in Ids(recs)] ==
        IF RecordOf(recs, id).parent = Null THEN 1 ELSE depth[RecordOf(recs, id).parent] + 1
  IN  depth

\* They are taken from the root to the last.
Walk(recs, active) ==
  LET walked == Walked(recs, active)
      depth == Depth(recs)
  IN  [n \in 1..Cardinality(walked) |-> CHOOSE id \in walked : depth[id] = n]

\* The walk, of each record the first question and the last answer; two places a record.
buildVisibleThread(recs, messages, active) ==
  LET walk == Walk(recs, active)
      said(p) == {i \in 1..Len(messages) :
                    /\ messages[i].mid = walk[(p + 1) \div 2]
                    /\ messages[i].role = IF p % 2 = 1 THEN "user" ELSE "assistant"}
      taken == {p \in 1..(2 * Len(walk)) : said(p) # {}}
      chosen(p) == CHOOSE i \in said(p) : \A j \in said(p) : IF p % 2 = 1 THEN i <= j ELSE j <= i
  IN  IF recs = <<>> THEN messages
      ELSE [k \in 1..Cardinality(taken) |-> messages[chosen(Nth(taken, k))]]

\* The version shown of every group of several, where the index names one.
buildVersionInfoByMessageId(recs, active) ==
  LET several == {g \in Groups(recs) : Len(getSiblingRecords(recs, g)) > 1}
      index(g) == IndexOf(active, g, getSiblingRecords(recs, g))
  IN  {[id |-> getSiblingRecords(recs, g)[index(g)].id, group |-> g,
        current |-> index(g), total |-> Len(getSiblingRecords(recs, g)),
        canPrev |-> index(g) > 1,
        canNext |-> index(g) < Len(getSiblingRecords(recs, g))] :
          g \in {h \in several : index(h) \in 1..Len(getSiblingRecords(recs, h))}}

getVersionInfoForUserMessage(m, recs, active) ==
  {v \in buildVersionInfoByMessageId(recs, active) :
     m.role = "user" /\ v.group = m.parent /\ v.id = m.mid}

\* The last record shown, Null if none is.
getLastActiveRecordId(recs, messages, active) ==
  LET visible == buildVisibleThread(recs, messages, active)
      named == {i \in 1..Len(visible) : visible[i].mid # Null}
  IN  IF named = {} THEN Null
      ELSE visible[CHOOSE i \in named : \A j \in named : j <= i].mid

onlyTheRecord(recs, root) == {root}

\* A record and all that descends from it: the least set with the record and
\* the children of its members.
collectDescendantRecordIds(recs, root) ==
  LET closed(X) == root \in X /\ \A i \in 1..Len(recs) : recs[i].parent \in X => recs[i].id \in X
  IN  {id \in Ids(recs) \cup {root} :
         \A X \in SUBSET (Ids(recs) \cup {root}) : closed(X) => id \in X}

\* What the deletion of a record takes: of an unknown one itself.
removedWith(recs, id) == IF id \in Ids(recs) THEN collectDescendantRecordIds(recs, id) ELSE {id}

recordsLeft(recs, removed) == At(recs, {i \in 1..Len(recs) : recs[i].id \notin removed})

Without(active, groups) == [g \in DOMAIN active \ groups |-> active[g]]

With(active, g, i) == [h \in DOMAIN active \cup {g} |-> IF h = g THEN i ELSE active[h]]

adjustActiveVersionIndexAfterDelete(active, deleted, before, removed, after) ==
  LET g == toMessageGroupKey(deleted.parent)
      kept == Without(active, removed)
      was == getSiblingRecords(before, g)
      left == Len(getSiblingRecords(after, g))
      gone == CHOOSE i \in 1..Len(was) : was[i].id = deleted.id
      current == IndexOf(active, g, was)
      next == CASE gone = current -> left
                [] gone < current -> current - 1
                [] OTHER -> current
  IN  IF left <= 1 THEN Without(kept, {g})
      ELSE With(kept, g, IF next < left THEN next ELSE left)

applyMessageMetadataToMessages(messages, recs) ==
  [i \in 1..Len(messages) |->
     IF messages[i].mid \notin Ids(recs) THEN messages[i]
     ELSE LET r == RecordOf(recs, messages[i].mid)
          IN  [messages[i] EXCEPT !.parent = IF r.parent # Null THEN r.parent ELSE @,
                                  !.rated = r.rated]]
=============================================================================
