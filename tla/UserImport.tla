----------------------------- MODULE UserImport -----------------------------
(***************************************************************************)
(* Importing users from a CSV file.                                        *)
(*                                                                         *)
(* UserImportService.import_users validates a file, stores it in S3, sends *)
(* a message to SQS and only then commits the job's row.  The listeners,   *)
(* one asyncio task per server process, receive the message, register the  *)
(* file's users and complete the job in one transaction, delete the file   *)
(* and acknowledge the message.  Uploads and listeners run concurrently,   *)
(* any call to the database, S3 or SQS may fail, processes die, and SQS    *)
(* delivers again what was not acknowledged in time.                       *)
(*                                                                         *)
(* One action is the code between two awaits that another part can see.  A *)
(* message always carries its job's own tenant and a file that passed      *)
(* validation, and no operation deletes a tenant, so the listener's checks *)
(* of tenant and encoding never fail.                                      *)
(***************************************************************************)
EXTENDS Naturals

CONSTANTS
  Jobs,         \* import jobs, each with its upload, its file and its message
  Listeners,    \* server processes that run a listener
  Logins,       \* login ids a file may name
  MaxReceives,  \* maxReceiveCount of the queue's redrive policy
  Null

VARIABLES
  upload,    \* where the request that uploads a job's file is
  rows,      \* the login ids of each file
  job,       \* user_import_jobs: status, and the rows error_details reports
  file,      \* the jobs whose file S3 holds
  message,   \* where the message of each job is
  received,  \* how often SQS handed it out
  users,     \* users: never registered, registered, or deleted again
  at,        \* where each listener is
  work       \* its locals: the job, the receipt handle, the users it found

vars == <<upload, rows, job, file, message, received, users, at, work>>
store == <<upload, rows, job, file, users>>

JobRow == [status : {"PENDING", "PROCESSING", "COMPLETED", "FAILED"},
           reported : SUBSET Logins]
Work == [job : Jobs, receipt : 1..MaxReceives, known : SUBSET Logins,
         loaded : {"PENDING", "PROCESSING"}]

ASSUME ImportAssumption ==
  MaxReceives \in Nat \ {0} /\ Null \notin JobRow \cup Work

Uploading == {"upload", "send", "unsend", "commit", "reject"}
Importing == {"find", "mark", "download", "missing", "read", "rows"}
Handling == Importing \cup {"unlink", "acknowledge"}

TypeOK ==
  /\ upload \in [Jobs -> Uploading \cup {"new", "done", "lost"}]
  /\ rows \in [Jobs -> SUBSET Logins]
  /\ job \in [Jobs -> JobRow \cup {Null}]
  /\ file \in SUBSET Jobs
  /\ message \in [Jobs -> {"none", "visible", "in flight", "deleted", "dead"}]
  /\ received \in [Jobs -> 0..MaxReceives]
  /\ users \in [Logins -> {"absent", "registered", "deleted"}]
  /\ at \in [Listeners -> Handling \cup {"poll", "stopped", "down"}]
  /\ work \in [Listeners -> Work \cup {Null}]
  /\ \A l \in Listeners : work[l] # Null <=> at[l] \in Handling

Init ==
  /\ upload = [j \in Jobs |-> "new"]
  /\ rows = [j \in Jobs |-> {}]
  /\ job = [j \in Jobs |-> Null]
  /\ file = {}
  /\ message = [j \in Jobs |-> "none"]
  /\ received = [j \in Jobs |-> 0]
  /\ users \in [Logins -> {"absent", "registered"}]
  /\ at = [l \in Listeners |-> "poll"]
  /\ work = [l \in Listeners |-> Null]

-----------------------------------------------------------------------------
(* The upload: nothing of the job is visible before its commit             *)

Proceed(j, from, to) == upload[j] = from /\ upload' = [upload EXCEPT ![j] = to]

\* A file is validated, and a bad one leaves a failed job.
Submit(j) ==
  /\ \/ /\ Proceed(j, "new", "upload")
        /\ \E R \in SUBSET Logins \ {{}} : rows' = [rows EXCEPT ![j] = R]
     \/ Proceed(j, "new", "reject") /\ UNCHANGED rows
  /\ UNCHANGED <<job, file, message, received, users, at, work>>

\* A call that fails may have had its effect all the same.
UploadFile(j) ==
  /\ \/ Proceed(j, "upload", "send") /\ file' = file \cup {j}
     \/ Proceed(j, "upload", "reject") /\ file' \in {file, file \cup {j}}
  /\ UNCHANGED <<rows, job, message, received, users, at, work>>

Sent(j) == message' = [message EXCEPT ![j] = "visible"]

SendMessage(j) ==
  /\ \/ Proceed(j, "send", "commit") /\ Sent(j)
     \/ Proceed(j, "send", "unsend") /\ (Sent(j) \/ UNCHANGED message)
  /\ UNCHANGED <<rows, job, file, received, users, at, work>>

\* The file of a message that was not sent is deleted, or that fails too.
DeleteUnsent(j) ==
  /\ Proceed(j, "unsend", "reject")
  /\ file' \in {file, file \ {j}}
  /\ UNCHANGED <<rows, job, message, received, users, at, work>>

CommitJob(j) ==
  /\ \E s \in {"PENDING", "FAILED"} :
       /\ Proceed(j, IF s = "PENDING" THEN "commit" ELSE "reject", "done")
       /\ job' = [job EXCEPT ![j] = [status |-> s, reported |-> {}]]
  /\ UNCHANGED <<rows, file, message, received, users, at, work>>

\* The process dies, the request is cancelled or the commit fails.
LoseUpload(j) ==
  /\ upload[j] \in Uploading
  /\ upload' = [upload EXCEPT ![j] = "lost"]
  /\ UNCHANGED <<rows, job, file, message, received, users, at, work>>

-----------------------------------------------------------------------------
(* The queue                                                               *)

VisibilityTimeout(j) ==
  /\ message[j] = "in flight"
  /\ message' = [message EXCEPT ![j] = "visible"]
  /\ UNCHANGED <<store, received, at, work>>

Redrive(j) ==
  /\ message[j] = "visible" /\ received[j] = MaxReceives
  /\ message' = [message EXCEPT ![j] = "dead"]
  /\ UNCHANGED <<store, received, at, work>>

-----------------------------------------------------------------------------
(* The listener: run_forever and process_import_message                    *)

Step(l, from, to) == at[l] = from /\ at' = [at EXCEPT ![l] = to]

Receive(l, j) ==
  /\ message[j] = "visible" /\ received[j] < MaxReceives
  /\ Step(l, "poll", "find")
  /\ message' = [message EXCEPT ![j] = "in flight"]
  /\ received' = [received EXCEPT ![j] = @ + 1]
  /\ work' = [work EXCEPT ![l] = [job |-> j, receipt |-> received[j] + 1,
                                  known |-> {}, loaded |-> "PENDING"]]
  /\ UNCHANGED store

\* Receiving is outside the loop's `try`: an error ends the task, not the
\* process that runs it.
ReceiveFails(l) ==
  /\ Step(l, "poll", "stopped")
  /\ UNCHANGED <<store, message, received, work>>

FailUnlinking(l) ==
  /\ at[l] \in Importing
  /\ at' = [at EXCEPT ![l] = "poll"]
  /\ work' = [work EXCEPT ![l] = Null]
  /\ file' = file \ {work[l].job}
  /\ UNCHANGED <<upload, rows, job, users, message, received>>

\* Any other error leaves the message to be delivered again.
Fail(l) ==
  /\ at[l] \in Importing \cup {"acknowledge"}
  /\ at' = [at EXCEPT ![l] = "poll"]
  /\ work' = [work EXCEPT ![l] = Null]
  /\ UNCHANGED <<store, message, received>>

Forgotten(s) == FALSE

BusyOrDone(s) == s \in {"PROCESSING", "COMPLETED", "FAILED"}

\* The guard against importing a delivered file again.
AlreadyDone(s) == s \in {"COMPLETED", "FAILED"}

\* A message whose job is not committed yet, or never will be, raises.
FindJob(l) ==
  /\ at[l] = "find"
  /\ LET row == job[work[l].job] IN
       \/ /\ row = Null
          /\ Step(l, "find", "poll")
          /\ work' = [work EXCEPT ![l] = Null]
       \/ /\ row # Null /\ AlreadyDone(row.status)
          /\ Step(l, "find", "acknowledge")
          /\ UNCHANGED work
       \/ /\ row # Null /\ ~AlreadyDone(row.status)
          /\ Step(l, "find", "mark")
          /\ work' = [work EXCEPT ![l].loaded = row.status]
  /\ UNCHANGED <<store, message, received>>

SetJob(l, row) == job' = [job EXCEPT ![work[l].job] = row]

StatusOnly(l, s) == [job[work[l].job] EXCEPT !.status = s]

\* The UPDATE is left out when the status read was PROCESSING already.
MarkProcessing(l) ==
  /\ Step(l, "mark", "download")
  /\ IF work[l].loaded = "PENDING"
       THEN SetJob(l, StatusOnly(l, "PROCESSING"))
       ELSE UNCHANGED job
  /\ UNCHANGED <<upload, rows, file, users, message, received, work>>

\* An error other than a missing file is one of Fail's.
Download(l) ==
  /\ at[l] = "download"
  /\ Step(l, "download", IF work[l].job \in file THEN "read" ELSE "missing")
  /\ UNCHANGED <<store, message, received, work>>

\* error_details then says the file is missing, and reports no row.
FailJob(l) ==
  /\ Step(l, "missing", "acknowledge")
  /\ SetJob(l, [status |-> "FAILED", reported |-> {}])
  /\ UNCHANGED <<upload, rows, file, users, message, received, work>>

\* The users the file names are read once, before the first row.
ReadUsers(l) ==
  /\ Step(l, "read", "rows")
  /\ work' = [work EXCEPT ![l].known =
                {x \in rows[work[l].job] : users[x] = "registered"}]
  /\ UNCHANGED <<store, message, received>>

\* A row whose user was registered or deleted since then fails in its savepoint.
Overtaken(l) ==
  {x \in rows[work[l].job] : (users[x] = "registered") # (x \in work[l].known)}

UnreportedRows(l, reported) == job[work[l].job].reported

\* error_details is only written when there is something to report.
ReportedRows(l, reported) ==
  IF reported = {} THEN job[work[l].job].reported ELSE reported

\* The rows - each in a savepoint that may fail - and the COMPLETED status
\* are committed together.  A row may also be reported for an unknown group.
CommitRows(l) ==
  /\ Step(l, "rows", "unlink")
  /\ \E reported \in SUBSET rows[work[l].job] : \E failed \in SUBSET reported :
       /\ Overtaken(l) \subseteq failed
       /\ users' = [x \in Logins |->
                      IF x \in rows[work[l].job] \ failed
                        THEN "registered" ELSE users[x]]
       /\ SetJob(l, [status |-> "COMPLETED",
                     reported |-> ReportedRows(l, reported)])
  /\ UNCHANGED <<upload, rows, file, message, received, work>>

\* A file that cannot be deleted is logged and stays.
Unlink(l) ==
  /\ Step(l, "unlink", "acknowledge")
  /\ file' \in {file, file \ {work[l].job}}
  /\ UNCHANGED <<upload, rows, job, users, message, received, work>>

\* SQS may ignore a receipt handle that is not the message's latest.
Acknowledge(l) ==
  /\ Step(l, "acknowledge", "poll")
  /\ LET j == work[l].job IN
       \/ /\ message[j] \in {"visible", "in flight"}
          /\ message' = [message EXCEPT ![j] = "deleted"]
       \/ /\ message[j] \in {"deleted", "dead"} \/ work[l].receipt < received[j]
          /\ UNCHANGED message
  /\ work' = [work EXCEPT ![l] = Null]
  /\ UNCHANGED <<store, received>>

-----------------------------------------------------------------------------
(* Processes, and what others do to users                                  *)

Crash(l) ==
  /\ at[l] \in Handling
  /\ at' = [at EXCEPT ![l] = "down"]
  /\ work' = [work EXCEPT ![l] = Null]
  /\ UNCHANGED <<store, message, received>>

\* A dead process is replaced.  Nothing replaces a task that has stopped until
\* the server is deployed again, and what its successor can do a listener that
\* never stopped can do.
Replace(l) ==
  /\ Step(l, "down", "poll")
  /\ UNCHANGED <<store, message, received, work>>

\* UserService.create_user and delete_user.
ManageUser(x) ==
  /\ users' = [users EXCEPT ![x] =
                 IF users[x] = "registered" THEN "deleted" ELSE "registered"]
  /\ UNCHANGED <<upload, rows, job, file, message, received, at, work>>

-----------------------------------------------------------------------------
Advance(j) ==
  Submit(j) \/ UploadFile(j) \/ SendMessage(j) \/ DeleteUnsent(j) \/ CommitJob(j)

Import(l) ==
  \/ FindJob(l) \/ MarkProcessing(l) \/ Download(l) \/ FailJob(l)
  \/ ReadUsers(l) \/ CommitRows(l) \/ Unlink(l) \/ Acknowledge(l)

Next ==
  \/ \E j \in Jobs :
       \/ Advance(j) \/ LoseUpload(j) \/ VisibilityTimeout(j) \/ Redrive(j)
       \/ \E l \in Listeners : Receive(l, j)
  \/ \E l \in Listeners :
       Import(l) \/ ReceiveFails(l) \/ Fail(l) \/ Crash(l) \/ Replace(l)
  \/ \E x \in Logins : ManageUser(x)

Spec == Init /\ [][Next]_vars

\* What the program, SQS and the container service owe: a request runs on, a
\* listener polls and handles what it got, a message becomes visible again
\* and is redriven, a dead process is replaced.  Errors and crashes are owed by
\* nobody.
Fairness ==
  /\ \A j \in Jobs : /\ WF_vars(UploadFile(j) \/ SendMessage(j) \/ DeleteUnsent(j)
                                \/ CommitJob(j))
                     /\ WF_vars(VisibilityTimeout(j))
                     /\ WF_vars(Redrive(j))
  /\ \A l \in Listeners : /\ WF_vars(Import(l))
                          /\ WF_vars(\E j \in Jobs : Receive(l, j))
                          /\ WF_vars(Replace(l))

FairSpec == Spec /\ Fairness

-----------------------------------------------------------------------------
(* Properties                                                              *)

Unfinished(j) == job[j] # Null /\ job[j].status \in {"PENDING", "PROCESSING"}

\* Every row of a completed job was registered (and may have been deleted
\* since) or is reported in error_details, however often the message was
\* delivered and whatever failed on the way.
ImportedOrReported ==
  \A j \in Jobs : job[j] # Null /\ job[j].status = "COMPLETED" =>
    \A x \in rows[j] : users[x] # "absent" \/ x \in job[j].reported

\* An unfinished job has a message that will be delivered again or was redriven:
\* none is acknowledged before the job's outcome is committed.
Deliverable(j) == Unfinished(j) => message[j] \in {"visible", "in flight", "dead"}

\* Its file is still there for the next delivery: it goes only after that commit.
HasFile(j) == Unfinished(j) => j \in file

\* A step that changes no row of a COMPLETED or FAILED job, nor imports its file.
StaysFinished(j) ==
  job[j] # Null /\ ~Unfinished(j) =>
    /\ job'[j] = job[j]
    /\ \A l \in Listeners : at[l] = "rows" /\ at'[l] = "unlink" => work[l].job # j

\* Once a job is COMPLETED or FAILED nothing changes its row, and its file is
\* not imported again.
FinishedIsFinal == [][\A j \in Jobs : StaysFinished(j)]_vars

Ended(j) == job[j] # Null /\ (~Unfinished(j) \/ message[j] = "dead")

\* A job that was accepted is completed, failed or given up by the queue,
\* unless every listener has stopped polling.
EndedOrStopped(j) == Ended(j) \/ \A l \in Listeners : at[l] = "stopped"

\* run_forever's docstring: it keeps polling the queue.
PollingGoesOn == \A j \in Jobs : Unfinished(j) ~> Ended(j)
=============================================================================
