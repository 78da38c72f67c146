-------------------------------- MODULE Links --------------------------------
(* What an object is linked to: a shared room or a library to groups and    *)
(* tags, a template, an assistant or an index to groups, categories and     *)
(* endpoints.  Each service replaces the whole set in a transaction of its  *)
(* own at READ COMMITTED: all rows are deleted, then the new ones inserted  *)
(* (the replace_ functions of the repositories, ShareService.upsert,        *)
(* LibraryService.update_library).                                          *)
CONSTANTS
  Writers,  \* transactions at a time
  Targets,
  Absent

VARIABLES
  exists,   \* the object
  targets,  \* the targets there are
  links,    \* those with a committed row
  edits,    \* each transaction
  asked,    \* the sets whose rows may be there
  last      \* the one committed last

linkVars == <<exists, targets, links, edits, asked, last>>

\* What a transaction found of the object; the rows its DELETE saw that are still
\* there; the rows it has deleted.
Edits ==
  [step : {"delete", "wait", "insert"}, want : SUBSET Targets, changes : BOOLEAN,
   found : {"nothing", "it", "another"}, seen : SUBSET Targets, gone : SUBSET Targets,
   crossed : BOOLEAN]

LinksInit ==
  /\ exists = FALSE /\ targets = Targets /\ links = {}
  /\ edits = [w \in Writers |-> Absent] /\ asked = {} /\ last = {}

Editing == {w \in Writers : edits[w] # Absent}
Reached(w, step) == edits[w] # Absent /\ edits[w].step = step

\* The object is looked up; without one a share is made.  The targets are found
\* to exist.  Some change columns of the object as well.
BeginReplace(w, want, changes) ==
  /\ edits[w] = Absent /\ want \subseteq targets
  /\ edits' = [edits EXCEPT ![w] = [step |-> "delete", want |-> want, changes |-> changes,
                                    found |-> IF exists THEN "it" ELSE "nothing",
                                    seen |-> {}, gone |-> {}, crossed |-> FALSE]]
  /\ UNCHANGED <<exists, targets, links, asked, last>>

\* The DELETE sees what is committed when it begins, which is after the UPDATE of
\* the object: that waits for another's.
SeeLinks(w) ==
  /\ Reached(w, "delete")
  /\ edits[w].changes => \A v \in Editing : edits[v].changes => Reached(v, "delete")
  /\ edits' = [edits EXCEPT ![w].step = "wait",
                            ![w].seen = IF edits[w].found = "it" THEN links ELSE {}]
  /\ UNCHANGED <<exists, targets, links, asked, last>>

DeleteNothing(w) ==
  /\ Reached(w, "wait") /\ edits' = [edits EXCEPT ![w].step = "insert"]
  /\ UNCHANGED <<exists, targets, links, asked, last>>

\* It waits for rows that another transaction has deleted; those that are then
\* gone are skipped, and those that came meanwhile are not seen.
DeleteLinks(w) ==
  /\ Reached(w, "wait")
  /\ \A v \in Editing : edits[v].gone \cap edits[w].seen = {}
  /\ edits' = [edits EXCEPT ![w].step = "insert", ![w].gone = edits[w].seen]
  /\ UNCHANGED <<exists, targets, links, asked, last>>

\* The rows are inserted and the transaction commits; it fails as a whole on a
\* link that is there, an object or a target that is not, a share made meanwhile.
Commit(w) ==
  LET e == edits[w]
      kept == links \ e.gone
  IN /\ Reached(w, "insert")
     /\ e.found = IF exists THEN "it" ELSE "nothing"
     /\ e.want \subseteq targets /\ e.want \cap kept = {}
     /\ exists' = TRUE /\ links' = kept \cup e.want /\ last' = e.want
     /\ asked' = {e.want} \cup (IF e.crossed THEN asked ELSE {})
     /\ edits' = [v \in Writers |->
                    IF v = w THEN Absent
                    ELSE IF v \notin Editing \/ Reached(v, "delete") THEN edits[v]
                    ELSE [edits[v] EXCEPT !.crossed = TRUE, !.seen = @ \ e.gone]]
     /\ UNCHANGED targets

Fail(w) ==
  /\ w \in Editing /\ edits' = [edits EXCEPT ![w] = Absent]
  /\ UNCHANGED <<exists, targets, links, asked, last>>

-----------------------------------------------------------------------------
(* Deletions cascade to the rows                                            *)

DeleteOwner ==
  /\ exists /\ exists' = FALSE /\ links' = {} /\ asked' = {} /\ last' = {}
  /\ \A v \in Editing : edits[v].gone = {}
  /\ edits' = [v \in Writers |->
                 IF v \in Editing /\ edits[v].found = "it"
                 THEN [edits[v] EXCEPT !.found = "another", !.seen = {}] ELSE edits[v]]
  /\ UNCHANGED targets

DeleteTarget(t) ==
  /\ t \in targets /\ targets' = targets \ {t} /\ links' = links \ {t}
  /\ \A v \in Editing : t \notin edits[v].gone
  /\ edits' = [v \in Writers |->
                 IF v \in Editing THEN [edits[v] EXCEPT !.seen = @ \ {t}] ELSE edits[v]]
  /\ UNCHANGED <<exists, asked, last>>

LinksNext ==
  \/ \E w \in Writers :
       \/ \E want \in SUBSET Targets, changes \in BOOLEAN : BeginReplace(w, want, changes)
       \/ SeeLinks(w) \/ DeleteLinks(w) \/ Commit(w) \/ Fail(w)
  \/ DeleteOwner
  \/ \E t \in Targets : DeleteTarget(t)

LinksSpec == LinksInit /\ [][LinksNext]_linkVars

-----------------------------------------------------------------------------
(* Property                                                                 *)

\* The object is linked to all of what was saved last that still exists, and to
\* nothing else - unless another replacement committed after the last one's DELETE
\* began: then to nothing but what these two asked for, and so on back to one that
\* none crossed (the "complete replacement" of the repositories' docstrings, and
\* what overlapping ones make of it).
LinksAsAsked ==
  /\ last \cap targets \subseteq links /\ links \subseteq UNION asked
  /\ ~exists => links = {}
=============================================================================
