---------------------------- MODULE MCUserImport ----------------------------
(***************************************************************************)
(* A small import for TLC: every constant is given in the .cfg.  An import *)
(* is overtaken when its message becomes visible while a listener is still *)
(* at work on it: two listeners may then import one file.                  *)
(***************************************************************************)
EXTENDS UserImport, FiniteSets

VARIABLE overtaken  \* history: the jobs of which this happened

\* All listeners and one file, or one listener and all files: the rest are tasks
\* that ended and uploads that died at once.
ImportInit ==
  /\ \/ /\ upload = [j \in Jobs |-> IF j = CHOOSE f \in Jobs : TRUE THEN "new" ELSE "lost"]
        /\ at = [l \in Listeners |-> "poll"]
     \/ /\ upload = [j \in Jobs |-> "new"]
        /\ at = [l \in Listeners |->
                   IF l = CHOOSE f \in Listeners : TRUE THEN "poll" ELSE "stopped"]
  /\ users \in [Logins -> {"absent", "registered"}]
  /\ rows = [j \in Jobs |-> {}] /\ job = [j \in Jobs |-> Null] /\ file = {}
  /\ message = [j \in Jobs |-> "none"] /\ received = [j \in Jobs |-> 0]
  /\ work = [l \in Listeners |-> Null]
  /\ overtaken = {}

At(j) == {l \in Listeners : work[l] # Null /\ work[l].job = j}

ImportNext ==
  /\ Next
  /\ overtaken' = overtaken \cup
       {j \in Jobs : message[j] = "in flight" /\ message'[j] = "visible" /\ At(j) # {}}

ImportSpec == ImportInit /\ [][ImportNext]_<<vars, overtaken>> /\ Fairness

\* The same steps from every start of the import: what the proofs are about.
TracedSpec == Init /\ overtaken = {} /\ [][ImportNext]_<<vars, overtaken>>

Own == Jobs \ overtaken  \* what only one listener at a time is at work on

\* An unfinished job that no second listener took over has a message that will be
\* delivered or was redriven (UserImportListener.run_forever).
StrandedOnlyOvertaken == \A j \in Own : Deliverable(j)

\* ... and its file is there for that delivery (UserImportListener._delete_file).
FileServesUntilOvertaken == \A j \in Own : HasFile(j)

\* Such a job, once finished, is not changed and not imported again
\* (UserImportListener.process_import_message).
FinalUntilOvertaken == [][\A j \in Own : StaysFinished(j)]_<<vars, overtaken>>

\* An accepted job ends, unless a second listener took it over or every listener
\* has stopped (run_forever, the queue's redrive policy).
EndsUnlessOvertaken ==
  \A j \in Jobs : Unfinished(j) ~> EndedOrStopped(j) \/ j \in overtaken
=============================================================================
