-------------------------- MODULE UserImportProofs --------------------------
(***************************************************************************)
(* What TLAPS proves of UserImport, for every set of jobs, listeners and   *)
(* logins: types, and that every row of a completed job was imported or is *)
(* reported, also when two deliveries of a message overlap.  And of        *)
(* MCUserImport, which records the jobs a listener was overtaken on: of    *)
(* every other job, that it is never stranded, that its file serves it to  *)
(* its end, and that it stays finished.                                    *)
(***************************************************************************)
EXTENDS MCUserImport, TLAPS

\* A file's rows are chosen before its job exists, so they never change under
\* a job.
RowsFixed == \A j \in Jobs : upload[j] = "new" => job[j] = Null

\* A listener that goes on with a job has read the job's row.
JobRead ==
  \A l \in Listeners :
    at[l] \in Importing \ {"find"} => job[work[l].job] # Null

\* The inductive invariant: JobRead types what listeners write, RowsFixed keeps
\* the rows that a completed job was imported from.
IInv == TypeOK /\ RowsFixed /\ JobRead /\ ImportedOrReported

\* A step of an upload keeps its type and never makes an upload new again.
LEMMA Uploads ==
  ASSUME NEW j \in Jobs, NEW a \in {"new"} \cup Uploading,
         NEW b \in Uploading \cup {"done"}, TypeOK, Proceed(j, a, b)
  PROVE  /\ upload' \in [Jobs -> Uploading \cup {"new", "done", "lost"}]
         /\ \A i \in Jobs : upload'[i] = "new" => upload[i] = "new" /\ i # j
  BY DEF TypeOK, Uploading, Proceed

\* Writing a job's row keeps the table's type and the other rows.
LEMMA JobWritten ==
  ASSUME NEW j \in Jobs, NEW row \in JobRow, TypeOK, job' = [job EXCEPT ![j] = row]
  PROVE  /\ job' \in [Jobs -> JobRow \cup {Null}]
         /\ row # Null
         /\ job'[j] = row
         /\ \A i \in Jobs \ {j} : job'[i] = job[i]
  BY ImportAssumption DEF TypeOK

\* Starting a listener's work keeps the type and the other listeners' work.
LEMMA WorkWritten ==
  ASSUME NEW l \in Listeners, NEW w \in Work, TypeOK, work' = [work EXCEPT ![l] = w]
  PROVE  /\ work' \in [Listeners -> Work \cup {Null}]
         /\ w # Null
         /\ work'[l] = w
         /\ \A k \in Listeners \ {l} : work'[k] = work[k]
  BY ImportAssumption DEF TypeOK

\* A listener that handles a message has a job.
LEMMA Busy ==
  ASSUME NEW l \in Listeners, TypeOK, at[l] \in Handling
  PROVE  work[l] \in Work /\ work[l].job \in Jobs
  BY DEF TypeOK, Work

\* Validating an upload preserves the invariant.
LEMMA SubmitStep ==
  ASSUME NEW j \in Jobs, IInv, Submit(j)
  PROVE  IInv'
<1>1. upload' \in [Jobs -> Uploading \cup {"new", "done", "lost"}]
  BY Uploads DEF IInv, Submit, Uploading
<1>2. rows' \in [Jobs -> SUBSET Logins]
  BY DEF IInv, TypeOK, Submit
<1>3. upload[j] = "new" /\ \A i \in Jobs \ {j} : rows'[i] = rows[i]
  BY DEF IInv, TypeOK, Submit, Proceed
<1>4. TypeOK'
  BY <1>1, <1>2 DEF IInv, TypeOK, Submit
<1>5. RowsFixed'
  BY DEF IInv, TypeOK, RowsFixed, Submit, Proceed
<1>6. JobRead'
  BY DEF IInv, JobRead, Submit
<1>7. ImportedOrReported'
  BY <1>3 DEF IInv, RowsFixed, ImportedOrReported, Submit
<1> QED BY <1>4, <1>5, <1>6, <1>7 DEF IInv

\* Storing a file preserves the invariant.
LEMMA UploadFileStep ==
  ASSUME NEW j \in Jobs, IInv, UploadFile(j)
  PROVE  IInv'
<1> USE DEF Uploading, Importing, Handling
<1>1. TypeOK'
  <2>1. upload' \in [Jobs -> Uploading \cup {"new", "done", "lost"}]
    BY Uploads DEF IInv, UploadFile
  <2> QED BY <2>1 DEF IInv, TypeOK, UploadFile
<1>2. RowsFixed'
  BY DEF IInv, TypeOK, RowsFixed, UploadFile, Proceed
<1>3. JobRead'
  BY ImportAssumption DEF IInv, TypeOK, JobRow, Work, JobRead, UploadFile,
     Proceed
<1>4. ImportedOrReported'
  BY ImportAssumption DEF IInv, TypeOK, JobRow, Work, RowsFixed, JobRead,
     ImportedOrReported, UploadFile, Proceed
<1> QED BY <1>1, <1>2, <1>3, <1>4 DEF IInv

\* Sending a message preserves the invariant.
LEMMA SendMessageStep ==
  ASSUME NEW j \in Jobs, IInv, SendMessage(j)
  PROVE  IInv'
<1> USE DEF Uploading, Importing, Handling
<1>1. TypeOK'
  <2>1. upload' \in [Jobs -> Uploading \cup {"new", "done", "lost"}]
    BY Uploads DEF IInv, SendMessage
  <2> QED BY <2>1 DEF IInv, TypeOK, SendMessage, Sent
<1>2. RowsFixed'
  BY DEF IInv, TypeOK, RowsFixed, SendMessage, Proceed, Sent
<1>3. JobRead'
  BY ImportAssumption DEF IInv, TypeOK, JobRow, Work, JobRead, SendMessage,
     Proceed, Sent
<1>4. ImportedOrReported'
  BY ImportAssumption DEF IInv, TypeOK, JobRow, Work, RowsFixed, JobRead,
     ImportedOrReported, SendMessage, Proceed, Sent
<1> QED BY <1>1, <1>2, <1>3, <1>4 DEF IInv

\* Deleting the file of an unsent message preserves the invariant.
LEMMA DeleteUnsentStep ==
  ASSUME NEW j \in Jobs, IInv, DeleteUnsent(j)
  PROVE  IInv'
<1> USE DEF Uploading, Importing, Handling
<1>1. TypeOK'
  BY ImportAssumption DEF IInv, TypeOK, JobRow, Work, JobRead, DeleteUnsent,
     Proceed
<1>2. RowsFixed'
  BY DEF IInv, TypeOK, RowsFixed, DeleteUnsent, Proceed
<1>3. JobRead'
  BY ImportAssumption DEF IInv, TypeOK, JobRow, Work, JobRead, DeleteUnsent,
     Proceed
<1>4. ImportedOrReported'
  BY ImportAssumption DEF IInv, TypeOK, JobRow, Work, RowsFixed, JobRead,
     ImportedOrReported, DeleteUnsent, Proceed
<1> QED BY <1>1, <1>2, <1>3, <1>4 DEF IInv

\* Committing a job preserves the invariant.
LEMMA CommitJobStep ==
  ASSUME NEW j \in Jobs, IInv, CommitJob(j)
  PROVE  IInv'
<1>1. PICK s \in {"PENDING", "FAILED"} :
        /\ Proceed(j, IF s = "PENDING" THEN "commit" ELSE "reject", "done")
        /\ job' = [job EXCEPT ![j] = [status |-> s, reported |-> {}]]
  BY DEF CommitJob
<1> DEFINE row == [status |-> s, reported |-> {}]
<1>2. row \in JobRow /\ row.status # "COMPLETED"
  BY DEF JobRow
<1> HIDE DEF row
<1>3. /\ job' \in [Jobs -> JobRow \cup {Null}]
      /\ row # Null /\ job'[j] = row
      /\ \A i \in Jobs \ {j} : job'[i] = job[i]
  BY <1>1, <1>2, JobWritten DEF IInv, row
<1>4. /\ upload' \in [Jobs -> Uploading \cup {"new", "done", "lost"}]
      /\ \A i \in Jobs : upload'[i] = "new" => upload[i] = "new" /\ i # j
  <2>1. (IF s = "PENDING" THEN "commit" ELSE "reject") \in {"new"} \cup Uploading
    BY DEF Uploading
  <2> QED BY <1>1, <2>1, Uploads DEF IInv
<1>5. TypeOK'
  BY <1>3, <1>4 DEF IInv, TypeOK, CommitJob
<1>6. RowsFixed'
  BY <1>3, <1>4 DEF IInv, RowsFixed
<1>7. JobRead'
  BY <1>3, Busy DEF IInv, JobRead, Importing, Handling, CommitJob
<1>8. ImportedOrReported'
  BY <1>2, <1>3 DEF IInv, ImportedOrReported, CommitJob
<1> QED BY <1>5, <1>6, <1>7, <1>8 DEF IInv

\* Losing an upload preserves the invariant.
LEMMA LoseUploadStep ==
  ASSUME NEW j \in Jobs, IInv, LoseUpload(j)
  PROVE  IInv'
<1> USE DEF Uploading, Importing, Handling
<1>1. TypeOK'
  BY ImportAssumption DEF IInv, TypeOK, JobRow, Work, JobRead, LoseUpload,
     store
<1>2. RowsFixed'
  BY DEF IInv, TypeOK, RowsFixed, LoseUpload, store
<1>3. JobRead'
  BY ImportAssumption DEF IInv, TypeOK, JobRow, Work, JobRead, LoseUpload,
     store
<1>4. ImportedOrReported'
  BY ImportAssumption DEF IInv, TypeOK, JobRow, Work, RowsFixed, JobRead,
     ImportedOrReported, LoseUpload, store
<1> QED BY <1>1, <1>2, <1>3, <1>4 DEF IInv

\* A visibility timeout preserves the invariant.
LEMMA VisibilityTimeoutStep ==
  ASSUME NEW j \in Jobs, IInv, VisibilityTimeout(j)
  PROVE  IInv'
<1> USE DEF Uploading, Importing, Handling
<1>1. TypeOK'
  BY ImportAssumption DEF IInv, TypeOK, JobRow, Work, JobRead,
     VisibilityTimeout, store
<1>2. RowsFixed'
  BY DEF IInv, TypeOK, RowsFixed, VisibilityTimeout, store
<1>3. JobRead'
  BY ImportAssumption DEF IInv, TypeOK, JobRow, Work, JobRead,
     VisibilityTimeout, store
<1>4. ImportedOrReported'
  BY ImportAssumption DEF IInv, TypeOK, JobRow, Work, RowsFixed, JobRead,
     ImportedOrReported, VisibilityTimeout, store
<1> QED BY <1>1, <1>2, <1>3, <1>4 DEF IInv

\* A redrive preserves the invariant.
LEMMA RedriveStep ==
  ASSUME NEW j \in Jobs, IInv, Redrive(j)
  PROVE  IInv'
<1> USE DEF Uploading, Importing, Handling
<1>1. TypeOK'
  BY ImportAssumption DEF IInv, TypeOK, JobRow, Work, JobRead, Redrive, store
<1>2. RowsFixed'
  BY DEF IInv, TypeOK, RowsFixed, Redrive, store
<1>3. JobRead'
  BY ImportAssumption DEF IInv, TypeOK, JobRow, Work, JobRead, Redrive, store
<1>4. ImportedOrReported'
  BY ImportAssumption DEF IInv, TypeOK, JobRow, Work, RowsFixed, JobRead,
     ImportedOrReported, Redrive, store
<1> QED BY <1>1, <1>2, <1>3, <1>4 DEF IInv

\* Receiving a message preserves the invariant.
LEMMA ReceiveStep ==
  ASSUME NEW l \in Listeners, NEW j \in Jobs, IInv, Receive(l, j)
  PROVE  IInv'
<1> USE DEF Uploading, Importing, Handling
<1>1. TypeOK'
  <2> DEFINE w == [job |-> j, receipt |-> received[j] + 1,
                   known |-> {}, loaded |-> "PENDING"]
  <2>0. /\ MaxReceives \in Nat /\ received \in [Jobs -> 0..MaxReceives]
        /\ received[j] < MaxReceives /\ received' = [received EXCEPT ![j] = @ + 1]
    BY ImportAssumption DEF IInv, TypeOK, Receive
  <2>1. w \in Work
    BY <2>0 DEF Work
  <2> HIDE DEF w
  <2>2. /\ work' \in [Listeners -> Work \cup {Null}]
        /\ w # Null /\ work'[l] = w
        /\ \A k \in Listeners \ {l} : work'[k] = work[k]
    BY <2>1, WorkWritten DEF IInv, Receive, w
  <2>3. received' \in [Jobs -> 0..MaxReceives]
    BY <2>0
  <2>4. \A k \in Listeners : work'[k] # Null <=> at'[k] \in Handling
    BY <2>2 DEF IInv, TypeOK, Receive, Step
  <2> QED BY <2>2, <2>3, <2>4 DEF IInv, TypeOK, Receive, Step, store
<1>2. RowsFixed'
  BY DEF IInv, TypeOK, RowsFixed, Receive, Step, store
<1>3. JobRead'
  BY ImportAssumption DEF IInv, TypeOK, JobRow, Work, JobRead, Receive, Step,
     store
<1>4. ImportedOrReported'
  BY ImportAssumption DEF IInv, TypeOK, JobRow, Work, RowsFixed, JobRead,
     ImportedOrReported, Receive, Step, store
<1> QED BY <1>1, <1>2, <1>3, <1>4 DEF IInv

\* Looking up a job preserves the invariant.
LEMMA FindJobStep ==
  ASSUME NEW l \in Listeners, IInv, FindJob(l)
  PROVE  IInv'
<1> USE DEF Uploading, Importing, Handling
<1> DEFINE row == job[work[l].job]
           w == [work[l] EXCEPT !.loaded = row.status]
<1>0. /\ work[l] \in Work /\ work[l].job \in Jobs
      /\ row \in JobRow \cup {Null} /\ UNCHANGED <<store, message, received>>
  BY Busy DEF IInv, TypeOK, FindJob
<1>1. CASE row # Null /\ ~AlreadyDone(row.status)
  <2>1. Step(l, "find", "mark") /\ work' = [work EXCEPT ![l].loaded = row.status]
    BY <1>1 DEF FindJob
  <2>2. w \in Work /\ w.job = work[l].job
    BY <1>0, <1>1 DEF Work, JobRow, AlreadyDone
  <2>3. work' = [work EXCEPT ![l] = w]
    BY <2>1 DEF IInv, TypeOK
  <2> HIDE DEF w
  <2>4. /\ work' \in [Listeners -> Work \cup {Null}]
        /\ w # Null /\ work'[l] = w
        /\ \A k \in Listeners \ {l} : work'[k] = work[k]
    BY <2>2, <2>3, WorkWritten DEF IInv
  <2>5. /\ at' \in [Listeners -> Handling \cup {"poll", "stopped", "down"}]
        /\ at'[l] = "mark"
        /\ at[l] = "find" /\ \A k \in Listeners \ {l} : at'[k] = at[k]
    BY <2>1 DEF IInv, TypeOK, Step
  <2>6. TypeOK'
    BY <1>0, <2>4, <2>5 DEF IInv, TypeOK, store
  <2>7. JobRead'
    BY <1>0, <1>1, <2>2, <2>4, <2>5 DEF IInv, JobRead, store
  <2> QED BY <1>0, <2>6, <2>7 DEF IInv, RowsFixed, ImportedOrReported, store
<1>2. CASE row # Null /\ AlreadyDone(row.status)
  <2>1. Step(l, "find", "acknowledge") /\ UNCHANGED work
    BY <1>2 DEF FindJob
  <2>2. TypeOK'
    BY <1>0, <2>1 DEF IInv, TypeOK, Step, store
  <2>3. JobRead'
    BY <1>0, <2>1 DEF IInv, TypeOK, JobRead, Step, store
  <2> QED BY <1>0, <2>2, <2>3 DEF IInv, RowsFixed, ImportedOrReported, store
<1>3. CASE row = Null
  <2>1. Step(l, "find", "poll") /\ work' = [work EXCEPT ![l] = Null]
    BY <1>3 DEF FindJob
  <2>2. TypeOK'
    BY <1>0, <2>1 DEF IInv, TypeOK, Step, store
  <2>3. JobRead'
    BY <1>0, <2>1 DEF IInv, TypeOK, JobRead, Step, store
  <2> QED BY <1>0, <2>2, <2>3 DEF IInv, RowsFixed, ImportedOrReported, store
<1> QED BY <1>1, <1>2, <1>3

\* Setting a job to PROCESSING preserves the invariant.
LEMMA MarkProcessingStep ==
  ASSUME NEW l \in Listeners, IInv, MarkProcessing(l)
  PROVE  IInv'
<1> USE DEF Uploading, Importing, Handling
<1> DEFINE j == work[l].job
<1>0. j \in Jobs /\ job[j] \in JobRow
  <2>1. at[l] = "mark"
    BY DEF MarkProcessing, Step
  <2>2. work[l].job \in Jobs
    BY <2>1, Busy DEF IInv
  <2>3. job[work[l].job] # Null
    BY <2>1 DEF IInv, JobRead
  <2> QED BY <2>2, <2>3 DEF IInv, TypeOK
<1> HIDE DEF j
<1> DEFINE row == [job[j] EXCEPT !.status = "PROCESSING"]
<1>1. row \in JobRow /\ row.status # "COMPLETED"
  BY <1>0 DEF JobRow
<1> HIDE DEF row
<1>2. job' = [job EXCEPT ![j] = row] \/ job' = job
  BY DEF MarkProcessing, SetJob, StatusOnly, row, j
<1>3. /\ job' \in [Jobs -> JobRow \cup {Null}]
      /\ job'[j] # Null /\ (job'[j].status # "COMPLETED" \/ job'[j] = job[j])
      /\ \A i \in Jobs \ {j} : job'[i] = job[i]
  <2>1. CASE job' = [job EXCEPT ![j] = row]
    BY <1>0, <1>1, <2>1, JobWritten DEF IInv
  <2>2. CASE job' = job
    BY <1>0, <2>2, ImportAssumption DEF IInv, TypeOK
  <2> QED BY <1>2, <2>1, <2>2
<1>4. /\ at' \in [Listeners -> Handling \cup {"poll", "stopped", "down"}]
      /\ at'[l] = "download" /\ at[l] = "mark"
      /\ \A k \in Listeners \ {l} : at'[k] = at[k]
  BY DEF IInv, TypeOK, MarkProcessing, Step
<1>5. TypeOK'
  BY <1>3, <1>4 DEF IInv, TypeOK, MarkProcessing
<1>6. RowsFixed'
  BY <1>0, <1>3, ImportAssumption DEF IInv, RowsFixed, MarkProcessing
<1>7. JobRead'
  <2> SUFFICES ASSUME NEW k \in Listeners, at'[k] \in Importing \ {"find"}
               PROVE  job'[work'[k].job] # Null
    BY DEF JobRead
  <2>1. work'[k] = work[k] /\ at[k] \in Importing \ {"find"}
    BY <1>4 DEF MarkProcessing
  <2>2. work[k].job \in Jobs /\ job[work[k].job] # Null
    BY <2>1, Busy DEF IInv, JobRead
  <2> QED BY <1>3, <2>1, <2>2
<1>8. ImportedOrReported'
  BY <1>0, <1>3, ImportAssumption DEF IInv, ImportedOrReported, MarkProcessing
<1> QED BY <1>5, <1>6, <1>7, <1>8 DEF IInv

\* Reading a file preserves the invariant.
LEMMA DownloadStep ==
  ASSUME NEW l \in Listeners, IInv, Download(l)
  PROVE  IInv'
<1> USE DEF Uploading, Importing, Handling
<1>1. TypeOK'
  BY ImportAssumption DEF IInv, TypeOK, JobRow, Work, JobRead, Download, Step,
     store
<1>2. RowsFixed'
  BY DEF IInv, TypeOK, RowsFixed, Download, Step, store
<1>3. JobRead'
  BY ImportAssumption DEF IInv, TypeOK, JobRow, Work, JobRead, Download, Step,
     store
<1>4. ImportedOrReported'
  BY ImportAssumption DEF IInv, TypeOK, JobRow, Work, RowsFixed, JobRead,
     ImportedOrReported, Download, Step, store
<1> QED BY <1>1, <1>2, <1>3, <1>4 DEF IInv

\* Failing a job without its file preserves the invariant.
LEMMA FailJobStep ==
  ASSUME NEW l \in Listeners, IInv, FailJob(l)
  PROVE  IInv'
<1> USE DEF Uploading, Importing, Handling
<1> DEFINE j == work[l].job
<1>0. j \in Jobs /\ job[j] \in JobRow
  <2>1. at[l] = "missing"
    BY DEF FailJob, Step
  <2>2. work[l].job \in Jobs
    BY <2>1, Busy DEF IInv
  <2>3. job[work[l].job] # Null
    BY <2>1 DEF IInv, JobRead
  <2> QED BY <2>2, <2>3 DEF IInv, TypeOK
<1> HIDE DEF j
<1> DEFINE row == [status |-> "FAILED", reported |-> {}]
<1>1. row \in JobRow /\ row.status # "COMPLETED"
  BY DEF JobRow
<1> HIDE DEF row
<1>2. job' = [job EXCEPT ![j] = row]
  BY DEF FailJob, SetJob, row, j
<1>3. /\ job' \in [Jobs -> JobRow \cup {Null}]
      /\ job'[j] # Null /\ (job'[j].status # "COMPLETED" \/ job'[j] = job[j])
      /\ \A i \in Jobs \ {j} : job'[i] = job[i]
  BY <1>0, <1>1, <1>2, JobWritten DEF IInv
<1>4. /\ at' \in [Listeners -> Handling \cup {"poll", "stopped", "down"}]
      /\ at'[l] = "acknowledge" /\ at[l] = "missing"
      /\ \A k \in Listeners \ {l} : at'[k] = at[k]
  BY DEF IInv, TypeOK, FailJob, Step
<1>5. TypeOK'
  BY <1>3, <1>4 DEF IInv, TypeOK, FailJob
<1>6. RowsFixed'
  BY <1>0, <1>3, ImportAssumption DEF IInv, RowsFixed, FailJob
<1>7. JobRead'
  <2> SUFFICES ASSUME NEW k \in Listeners, at'[k] \in Importing \ {"find"}
               PROVE  job'[work'[k].job] # Null
    BY DEF JobRead
  <2>1. work'[k] = work[k] /\ at[k] \in Importing \ {"find"}
    BY <1>4 DEF FailJob
  <2>2. work[k].job \in Jobs /\ job[work[k].job] # Null
    BY <2>1, Busy DEF IInv, JobRead
  <2> QED BY <1>3, <2>1, <2>2
<1>8. ImportedOrReported'
  BY <1>0, <1>3, ImportAssumption DEF IInv, ImportedOrReported, FailJob
<1> QED BY <1>5, <1>6, <1>7, <1>8 DEF IInv

\* Reading the users preserves the invariant.
LEMMA ReadUsersStep ==
  ASSUME NEW l \in Listeners, IInv, ReadUsers(l)
  PROVE  IInv'
<1> USE DEF Uploading, Importing, Handling
<1> DEFINE w == [work[l] EXCEPT !.known =
                   {x \in rows[work[l].job] : users[x] = "registered"}]
<1>0. work[l] \in Work /\ work[l].job \in Jobs
  BY Busy DEF IInv, ReadUsers, Step
<1>1. w \in Work /\ w.job = work[l].job
  BY <1>0 DEF IInv, TypeOK, Work
<1> HIDE DEF w
<1>2. work' = [work EXCEPT ![l] = w]
  BY DEF IInv, TypeOK, ReadUsers, w
<1>3. /\ work' \in [Listeners -> Work \cup {Null}]
      /\ w # Null /\ work'[l] = w
      /\ \A k \in Listeners \ {l} : work'[k] = work[k]
  BY <1>1, <1>2, WorkWritten DEF IInv
<1>4. /\ at' \in [Listeners -> Handling \cup {"poll", "stopped", "down"}]
      /\ at'[l] = "rows"
      /\ at[l] = "read" /\ \A k \in Listeners \ {l} : at'[k] = at[k]
  BY DEF IInv, TypeOK, ReadUsers, Step
<1>5. TypeOK'
  BY <1>3, <1>4 DEF IInv, TypeOK, ReadUsers, store
<1>6. RowsFixed'
  BY DEF IInv, RowsFixed, ReadUsers, store
<1>7. JobRead'
  BY <1>1, <1>3, <1>4 DEF IInv, JobRead, ReadUsers, store
<1>8. ImportedOrReported'
  BY DEF IInv, ImportedOrReported, ReadUsers, store
<1> QED BY <1>5, <1>6, <1>7, <1>8 DEF IInv

\* Committing the rows of a file with its outcome preserves the invariant.
LEMMA CommitRowsStep ==
  ASSUME NEW l \in Listeners, IInv, CommitRows(l)
  PROVE  IInv'
<1> USE DEF Uploading, Importing, Handling
<1> DEFINE j == work[l].job
<1>0. j \in Jobs /\ job[j] \in JobRow
  <2>1. at[l] = "rows"
    BY DEF CommitRows, Step
  <2>2. work[l].job \in Jobs
    BY <2>1, Busy DEF IInv
  <2>3. job[work[l].job] # Null
    BY <2>1 DEF IInv, JobRead
  <2> QED BY <2>2, <2>3 DEF IInv, TypeOK
<1> HIDE DEF j
<1>b. PICK reported \in SUBSET rows[j] : \E failed \in SUBSET reported :
        /\ users' = [x \in Logins |-> IF x \in rows[j] \ failed
                                         THEN "registered" ELSE users[x]]
        /\ job' = [job EXCEPT ![j] = [status |-> "COMPLETED",
                                       reported |-> ReportedRows(l, reported)]]
  BY DEF CommitRows, SetJob, j
<1>1. PICK failed \in SUBSET reported :
        /\ users' = [x \in Logins |-> IF x \in rows[j] \ failed
                                         THEN "registered" ELSE users[x]]
        /\ job' = [job EXCEPT ![j] = [status |-> "COMPLETED",
                                       reported |-> ReportedRows(l, reported)]]
  BY <1>b
<1> DEFINE row == [status |-> "COMPLETED", reported |-> ReportedRows(l, reported)]
<1>2. /\ row \in JobRow
      /\ reported \subseteq row.reported
  BY <1>0, <1>b DEF IInv, TypeOK, JobRow, ReportedRows, j
<1>a. job' = [job EXCEPT ![j] = row]
  BY <1>1
<1> HIDE DEF row
<1>3. /\ job' \in [Jobs -> JobRow \cup {Null}]
      /\ job'[j] # Null /\ job'[j] = row
      /\ \A i \in Jobs \ {j} : job'[i] = job[i]
  BY <1>0, <1>a, <1>2, JobWritten DEF IInv
<1>4. /\ at' \in [Listeners -> Handling \cup {"poll", "stopped", "down"}]
      /\ at'[l] = "unlink" /\ at[l] = "rows"
      /\ \A k \in Listeners \ {l} : at'[k] = at[k]
  BY DEF IInv, TypeOK, CommitRows, Step
<1>5. TypeOK'
  BY <1>1, <1>3, <1>4 DEF IInv, TypeOK, CommitRows
<1>6. RowsFixed'
  BY <1>0, <1>3, ImportAssumption DEF IInv, RowsFixed, CommitRows
<1>7. JobRead'
  <2> SUFFICES ASSUME NEW k \in Listeners, at'[k] \in Importing \ {"find"}
               PROVE  job'[work'[k].job] # Null
    BY DEF JobRead
  <2>1. work'[k] = work[k] /\ at[k] \in Importing \ {"find"}
    BY <1>4 DEF CommitRows
  <2>2. work[k].job \in Jobs /\ job[work[k].job] # Null
    BY <2>1, Busy DEF IInv, JobRead
  <2> QED BY <1>3, <2>1, <2>2
<1>8. ImportedOrReported'
  <2> SUFFICES ASSUME NEW i \in Jobs, job'[i] # Null, job'[i].status = "COMPLETED",
                      NEW x \in rows'[i]
               PROVE  users'[x] # "absent" \/ x \in job'[i].reported
    BY DEF ImportedOrReported
  <2>0. x \in Logins /\ x \in rows[i]
    BY DEF IInv, TypeOK, CommitRows
  <2>1. CASE i = j
    BY <1>1, <1>2, <1>3, <2>0, <2>1
  <2>2. CASE i # j
    BY <1>1, <1>3, <2>0, <2>2 DEF IInv, ImportedOrReported
  <2> QED BY <2>1, <2>2
<1> QED BY <1>5, <1>6, <1>7, <1>8 DEF IInv

\* Deleting a file preserves the invariant.
LEMMA UnlinkStep ==
  ASSUME NEW l \in Listeners, IInv, Unlink(l)
  PROVE  IInv'
<1> USE DEF Uploading, Importing, Handling
<1>1. TypeOK'
  BY ImportAssumption DEF IInv, TypeOK, JobRow, Work, JobRead, Unlink, Step
<1>2. RowsFixed'
  BY DEF IInv, TypeOK, RowsFixed, Unlink, Step
<1>3. JobRead'
  BY ImportAssumption DEF IInv, TypeOK, JobRow, Work, JobRead, Unlink, Step
<1>4. ImportedOrReported'
  BY ImportAssumption DEF IInv, TypeOK, JobRow, Work, RowsFixed, JobRead,
     ImportedOrReported, Unlink, Step
<1> QED BY <1>1, <1>2, <1>3, <1>4 DEF IInv

\* Acknowledging a message preserves the invariant.
LEMMA AcknowledgeStep ==
  ASSUME NEW l \in Listeners, IInv, Acknowledge(l)
  PROVE  IInv'
<1> USE DEF Uploading, Importing, Handling
<1>1. TypeOK'
  <2>1. message' \in [Jobs -> {"none", "visible", "in flight", "deleted", "dead"}]
    BY DEF IInv, TypeOK, Acknowledge
  <2> QED BY <2>1 DEF IInv, TypeOK, Acknowledge, Step, store
<1>2. RowsFixed'
  BY DEF IInv, TypeOK, RowsFixed, Acknowledge, Step, store
<1>3. JobRead'
  BY ImportAssumption DEF IInv, TypeOK, JobRow, Work, JobRead, Acknowledge,
     Step, store
<1>4. ImportedOrReported'
  BY ImportAssumption DEF IInv, TypeOK, JobRow, Work, RowsFixed, JobRead,
     ImportedOrReported, Acknowledge, Step, store
<1> QED BY <1>1, <1>2, <1>3, <1>4 DEF IInv

\* An error of receive_message preserves the invariant.
LEMMA ReceiveFailsStep ==
  ASSUME NEW l \in Listeners, IInv, ReceiveFails(l)
  PROVE  IInv'
<1> USE DEF Uploading, Importing, Handling
<1>1. TypeOK'
  BY ImportAssumption DEF IInv, TypeOK, JobRow, Work, JobRead, ReceiveFails,
     Step, store
<1>2. RowsFixed'
  BY DEF IInv, TypeOK, RowsFixed, ReceiveFails, Step, store
<1>3. JobRead'
  BY ImportAssumption DEF IInv, TypeOK, JobRow, Work, JobRead, ReceiveFails,
     Step, store
<1>4. ImportedOrReported'
  BY ImportAssumption DEF IInv, TypeOK, JobRow, Work, RowsFixed, JobRead,
     ImportedOrReported, ReceiveFails, Step, store
<1> QED BY <1>1, <1>2, <1>3, <1>4 DEF IInv

\* Any other error preserves the invariant.
LEMMA FailStep ==
  ASSUME NEW l \in Listeners, IInv, Fail(l)
  PROVE  IInv'
<1> USE DEF Uploading, Importing, Handling
<1>1. TypeOK'
  BY ImportAssumption DEF IInv, TypeOK, JobRow, Work, JobRead, Fail, store
<1>2. RowsFixed'
  BY DEF IInv, TypeOK, RowsFixed, Fail, store
<1>3. JobRead'
  BY ImportAssumption DEF IInv, TypeOK, JobRow, Work, JobRead, Fail, store
<1>4. ImportedOrReported'
  BY ImportAssumption DEF IInv, TypeOK, JobRow, Work, RowsFixed, JobRead,
     ImportedOrReported, Fail, store
<1> QED BY <1>1, <1>2, <1>3, <1>4 DEF IInv

\* A crash preserves the invariant.
LEMMA CrashStep ==
  ASSUME NEW l \in Listeners, IInv, Crash(l)
  PROVE  IInv'
<1> USE DEF Uploading, Importing, Handling
<1>1. TypeOK'
  BY ImportAssumption DEF IInv, TypeOK, JobRow, Work, JobRead, Crash, store
<1>2. RowsFixed'
  BY DEF IInv, TypeOK, RowsFixed, Crash, store
<1>3. JobRead'
  BY ImportAssumption DEF IInv, TypeOK, JobRow, Work, JobRead, Crash, store
<1>4. ImportedOrReported'
  BY ImportAssumption DEF IInv, TypeOK, JobRow, Work, RowsFixed, JobRead,
     ImportedOrReported, Crash, store
<1> QED BY <1>1, <1>2, <1>3, <1>4 DEF IInv

\* Replacing a process preserves the invariant.
LEMMA ReplaceStep ==
  ASSUME NEW l \in Listeners, IInv, Replace(l)
  PROVE  IInv'
<1> USE DEF Uploading, Importing, Handling
<1>1. TypeOK'
  BY ImportAssumption DEF IInv, TypeOK, JobRow, Work, JobRead, Replace, Step,
     store
<1>2. RowsFixed'
  BY DEF IInv, TypeOK, RowsFixed, Replace, Step, store
<1>3. JobRead'
  BY ImportAssumption DEF IInv, TypeOK, JobRow, Work, JobRead, Replace, Step,
     store
<1>4. ImportedOrReported'
  BY ImportAssumption DEF IInv, TypeOK, JobRow, Work, RowsFixed, JobRead,
     ImportedOrReported, Replace, Step, store
<1> QED BY <1>1, <1>2, <1>3, <1>4 DEF IInv

\* Registering or deleting a user preserves the invariant.
LEMMA ManageUserStep ==
  ASSUME NEW x \in Logins, IInv, ManageUser(x)
  PROVE  IInv'
<1> USE DEF Uploading, Importing, Handling
<1>1. TypeOK'
  BY ImportAssumption DEF IInv, TypeOK, JobRow, Work, JobRead, ManageUser
<1>2. RowsFixed'
  BY DEF IInv, TypeOK, RowsFixed, ManageUser
<1>3. JobRead'
  BY ImportAssumption DEF IInv, TypeOK, JobRow, Work, JobRead, ManageUser
<1>4. ImportedOrReported'
  BY ImportAssumption DEF IInv, TypeOK, JobRow, Work, RowsFixed, JobRead,
     ImportedOrReported, ManageUser
<1> QED BY <1>1, <1>2, <1>3, <1>4 DEF IInv

\* The invariant holds before the first upload.
LEMMA Initially == Init => IInv
  BY ImportAssumption DEF Init, IInv, TypeOK, RowsFixed, JobRead,
     ImportedOrReported, Importing, Handling

\* Every step of uploads, queue, listeners and users preserves the invariant.
LEMMA Inductive == IInv /\ [Next]_vars => IInv'
<1> SUFFICES ASSUME IInv, [Next]_vars PROVE IInv'
  OBVIOUS
<1>1. CASE UNCHANGED vars
  BY <1>1 DEF IInv, TypeOK, RowsFixed, JobRead, ImportedOrReported, vars
<1>2. ASSUME NEW j \in Jobs, Advance(j) PROVE IInv'
  BY <1>2, SubmitStep, UploadFileStep, SendMessageStep, DeleteUnsentStep,
     CommitJobStep DEF Advance
<1>3. ASSUME NEW j \in Jobs, LoseUpload(j) \/ VisibilityTimeout(j) \/ Redrive(j)
      PROVE IInv'
  BY <1>3, LoseUploadStep, VisibilityTimeoutStep, RedriveStep
<1>4. ASSUME NEW j \in Jobs, NEW l \in Listeners, Receive(l, j) PROVE IInv'
  BY <1>4, ReceiveStep
<1>5. ASSUME NEW l \in Listeners, Import(l) PROVE IInv'
  BY <1>5, FindJobStep, MarkProcessingStep, DownloadStep, FailJobStep,
     ReadUsersStep, CommitRowsStep, UnlinkStep, AcknowledgeStep DEF Import
<1>6. ASSUME NEW l \in Listeners, ReceiveFails(l) \/ Fail(l) \/ Crash(l) \/ Replace(l)
      PROVE IInv'
  BY <1>6, ReceiveFailsStep, FailStep, CrashStep, ReplaceStep
<1>7. ASSUME NEW x \in Logins, ManageUser(x) PROVE IInv'
  BY <1>7, ManageUserStep
<1> QED BY <1>1, <1>2, <1>3, <1>4, <1>5, <1>6, <1>7 DEF Next

\* Every reachable state of the import satisfies the inductive invariant.
THEOREM Invariance == Spec => []IInv
  BY Initially, Inductive, PTL DEF Spec

\* Every variable of the import has its type in every reachable state.
THEOREM TypeCorrect == Spec => []TypeOK
<1>1. IInv => TypeOK
  BY DEF IInv
<1> QED BY <1>1, Invariance, PTL

\* Every row of a COMPLETED job was registered or is reported in
\* error_details, for any number of listeners and overlapping deliveries
\* (process_import_message).
THEOREM RowsAreImportedOrReported == Spec => []ImportedOrReported
<1>1. IInv => ImportedOrReported
  BY DEF IInv
<1> QED BY <1>1, Invariance, PTL

-----------------------------------------------------------------------------
(* What one listener at a time is at work on.  A job that no second        *)
(* listener took over is in the hands of one at most, whose receipt is the *)
(* latest: its message is in flight for as long, its outcome is committed  *)
(* by this listener alone, and acknowledging it does delete it.            *)

\* How far the upload of a job is, and what it left behind.
Uploaded(j) ==
  /\ upload[j] # "done" => job[j] = Null
  /\ upload[j] \in {"new", "upload", "send"} => message[j] = "none"
  /\ upload[j] \in {"send", "commit"} => j \in file
  /\ upload[j] = "commit" => message[j] \notin {"none", "deleted"}

\* What the listener that has a job may rely on, and how far it is.
Handled(l, j) ==
  l \in At(j) =>
    /\ \A k \in At(j) : k = l
    /\ message[j] = "in flight" /\ work[l].receipt = received[j]
    /\ at[l] \in {"mark", "download", "missing", "read", "rows"} => Unfinished(j)
    /\ at[l] \in {"unlink", "acknowledge"} => job[j] # Null /\ ~Unfinished(j)

Kept(j) ==
  Uploaded(j) /\ Deliverable(j) /\ HasFile(j) /\ \A l \in Listeners : Handled(l, j)

OwnKept == \A j \in Own : Kept(j)

\* The upload of job j and what the queue, the stores and the listeners have of
\* it stay as they are, but that listeners may leave it.
Beside(j) ==
  /\ upload'[j] = upload[j] /\ job'[j] = job[j]
  /\ message'[j] = message[j] /\ received'[j] = received[j]
  /\ j \in file => j \in file'
  /\ \A l \in Listeners :
       l \in At(j)' => /\ l \in At(j) /\ at'[l] = at[l]
                       /\ work'[l].receipt = work[l].receipt

LEMMA BesideKeeps ==
  ASSUME NEW j \in Jobs, Kept(j), Beside(j)
  PROVE  Kept(j)'
<1>1. Uploaded(j)' BY DEF Kept, Beside, Uploaded
<1>2. Deliverable(j)' /\ HasFile(j)' /\ (Unfinished(j)' <=> Unfinished(j))
  BY DEF Kept, Beside, Deliverable, HasFile, Unfinished
<1>3. At(j)' \subseteq At(j) BY DEF Beside, At
<1>4. ASSUME NEW l \in Listeners PROVE Handled(l, j)'
  BY <1>2, <1>3 DEF Kept, Beside, Handled
<1> QED BY <1>1, <1>2, <1>4 DEF Kept

\* A step that is of no listener, about job i.
LEMMA OthersKeep ==
  ASSUME NEW i \in Jobs, NEW j \in Jobs, i # j, TypeOK, Kept(j),
         \/ Advance(i) \/ LoseUpload(i) \/ VisibilityTimeout(i) \/ Redrive(i)
  PROVE  Kept(j)'
<1>1. upload'[j] = upload[j]
  BY DEF TypeOK, Advance, Submit, UploadFile, SendMessage, DeleteUnsent, CommitJob, LoseUpload,
         VisibilityTimeout, Redrive, Proceed, store
<1>2. job'[j] = job[j]
  BY DEF TypeOK, Advance, Submit, UploadFile, SendMessage, DeleteUnsent, CommitJob, LoseUpload,
         VisibilityTimeout, Redrive, store
<1>3. message'[j] = message[j]
  BY DEF TypeOK, Advance, Submit, UploadFile, SendMessage, DeleteUnsent, CommitJob, LoseUpload,
         VisibilityTimeout, Redrive, Sent
<1>4. j \in file => j \in file'
  BY DEF Advance, Submit, UploadFile, SendMessage, DeleteUnsent, CommitJob, LoseUpload,
         VisibilityTimeout, Redrive, store
<1>5. UNCHANGED <<received, at, work>>
  BY DEF Advance, Submit, UploadFile, SendMessage, DeleteUnsent, CommitJob, LoseUpload,
         VisibilityTimeout, Redrive
<1>6. Beside(j) BY <1>1, <1>2, <1>3, <1>4, <1>5 DEF Beside, At
<1> QED BY <1>6, BesideKeeps

\* Of its work a listener changes what it found, not what it was handed.
LEMMA Rewritten ==
  ASSUME NEW l \in Listeners, TypeOK, work[l] \in Work, NEW x,
         \/ work' = [work EXCEPT ![l].loaded = x]
         \/ work' = [work EXCEPT ![l].known = x]
         \/ work' = [work EXCEPT ![l] = Null]
         \/ UNCHANGED work
  PROVE  /\ work'[l] = Null \/ (work'[l].job = work[l].job /\ work'[l].receipt = work[l].receipt)
         /\ \A k \in Listeners \ {l} : work'[k] = work[k]
<1>1. CASE work' = [work EXCEPT ![l].loaded = x] BY <1>1 DEF TypeOK, Work
<1>2. CASE work' = [work EXCEPT ![l].known = x] BY <1>2 DEF TypeOK, Work
<1>3. CASE work' = [work EXCEPT ![l] = Null] \/ UNCHANGED work BY <1>3 DEF TypeOK
<1> QED BY <1>1, <1>2, <1>3

\* A listener's step about another job.
LEMMA ElsewhereKeeps ==
  ASSUME NEW l \in Listeners, NEW j \in Jobs, TypeOK, Kept(j), l \notin At(j), Import(l)
  PROVE  Kept(j)'
<1>1. at[l] \in Handling
  BY DEF Import, FindJob, MarkProcessing, Download, FailJob, ReadUsers, CommitRows, Unlink,
         Acknowledge, Step, Handling, Importing
<1>2. work[l] \in Work /\ work[l].job \in Jobs /\ work[l].job # j
  BY <1>1, Busy DEF At, TypeOK
<1>3. UNCHANGED <<upload, received>>
  BY DEF Import, FindJob, MarkProcessing, Download, FailJob, ReadUsers, CommitRows, Unlink,
         Acknowledge, store
<1>4. job'[j] = job[j]
  BY <1>2 DEF TypeOK, Import, FindJob, MarkProcessing, Download, FailJob, ReadUsers, CommitRows,
         Unlink, Acknowledge, store, SetJob
<1>5. message'[j] = message[j]
  BY <1>2 DEF TypeOK, Import, FindJob, MarkProcessing, Download, FailJob, ReadUsers, CommitRows,
         Unlink, Acknowledge
<1>6. j \in file => j \in file'
  BY <1>2 DEF Import, FindJob, MarkProcessing, Download, FailJob, ReadUsers, CommitRows, Unlink,
         Acknowledge, store
<1>7. \A k \in Listeners \ {l} : at'[k] = at[k] /\ work'[k] = work[k]
  BY DEF TypeOK, Import, FindJob, MarkProcessing, Download, FailJob, ReadUsers, CommitRows, Unlink,
         Acknowledge, Step
<1>8. work'[l] = Null \/ work'[l].job = work[l].job
  <2>1. CASE FindJob(l)
    BY <1>2, <2>1, Rewritten DEF FindJob
  <2>2. CASE ReadUsers(l)
    BY <1>2, <2>2, Rewritten DEF ReadUsers
  <2>3. CASE MarkProcessing(l) \/ Download(l) \/ FailJob(l) \/ CommitRows(l) \/ Unlink(l)
    BY <2>3 DEF MarkProcessing, Download, FailJob, CommitRows, Unlink
  <2>4. CASE Acknowledge(l)
    BY <2>4 DEF TypeOK, Acknowledge
  <2> QED BY <2>1, <2>2, <2>3, <2>4 DEF Import
<1>9. Beside(j)
  BY <1>2, <1>3, <1>4, <1>5, <1>6, <1>7, <1>8 DEF Beside, At
<1> QED BY <1>9, BesideKeeps

\* The upload of the job itself.
LEMMA AdvanceKeeps ==
  ASSUME NEW j \in Jobs, TypeOK, Kept(j), Advance(j) \/ LoseUpload(j)
  PROVE  Kept(j)'
<1> USE DEF Proceed
<1>0. At(j)' = At(j) /\ UNCHANGED <<received, at, work>>
  BY DEF At, Advance, Submit, UploadFile, SendMessage, DeleteUnsent, CommitJob, LoseUpload
<1>1. message[j] = "none" => At(j) = {}
  BY DEF Kept, Handled, At
<1>2. CASE Submit(j) \/ UploadFile(j) \/ DeleteUnsent(j) \/ LoseUpload(j)
  <2>1. UNCHANGED <<job, message>> /\ job[j] = Null
    BY <1>2 DEF Submit, UploadFile, DeleteUnsent, LoseUpload, Kept, Uploaded, Uploading
  <2>2. Uploaded(j)'
    BY <1>2, <2>1 DEF TypeOK, Submit, UploadFile, DeleteUnsent, LoseUpload, Kept, Uploaded
  <2> QED BY <1>0, <2>1, <2>2 DEF Kept, Handled, Deliverable, HasFile, Unfinished
<1>3. CASE SendMessage(j)
  <2>1. UNCHANGED <<job, file>> /\ job[j] = Null /\ message[j] = "none"
    BY <1>3 DEF SendMessage, Kept, Uploaded
  <2>2. Uploaded(j)'
    BY <1>3, <2>1 DEF TypeOK, SendMessage, Sent, Kept, Uploaded
  <2> QED BY <1>0, <1>1, <2>1, <2>2 DEF Kept, Handled, Deliverable, HasFile, Unfinished
<1>4. CASE CommitJob(j)
  <2>1. PICK s \in {"PENDING", "FAILED"} :
          /\ upload[j] = IF s = "PENDING" THEN "commit" ELSE "reject"
          /\ upload' = [upload EXCEPT ![j] = "done"]
          /\ job' = [job EXCEPT ![j] = [status |-> s, reported |-> {}]]
          /\ UNCHANGED <<message, file>>
    BY <1>4 DEF CommitJob
  <2>2. upload'[j] = "done" /\ job'[j] = [status |-> s, reported |-> {}] /\ job[j] = Null
    BY <2>1 DEF TypeOK, Kept, Uploaded
  <2>3. Unfinished(j)' => upload[j] = "commit"
    BY <2>1, <2>2 DEF Unfinished
  <2>4. Uploaded(j)' BY <2>2 DEF Uploaded
  <2>5. Deliverable(j)' /\ HasFile(j)'
    BY <2>1, <2>3 DEF Kept, Uploaded, Deliverable, HasFile, TypeOK
  <2>6. ASSUME NEW l \in Listeners PROVE Handled(l, j)'
    BY <1>0, <2>1, <2>2 DEF Kept, Handled, Unfinished
  <2> QED BY <2>4, <2>5, <2>6 DEF Kept
<1> QED BY <1>2, <1>3, <1>4 DEF Advance

\* The queue.  Nobody has a message that becomes visible again, but one who is
\* overtaken.
LEMMA QueueKeeps ==
  ASSUME NEW j \in Jobs, TypeOK, Kept(j), VisibilityTimeout(j) => At(j) = {},
         VisibilityTimeout(j) \/ Redrive(j)
  PROVE  Kept(j)'
<1>1. At(j) = {}
  BY DEF Kept, Handled, Redrive, At
<1>2. UNCHANGED <<upload, job, file, received, at, work>>
  BY DEF VisibilityTimeout, Redrive, store
<1>3. /\ message[j] \in {"in flight", "visible"}
      /\ message'[j] \in {"visible", "dead"}
  BY DEF TypeOK, VisibilityTimeout, Redrive
<1>4. At(j)' = {} BY <1>1, <1>2 DEF At
<1>5. Uploaded(j)' BY <1>2, <1>3 DEF Kept, Uploaded
<1>6. Deliverable(j)' /\ HasFile(j)'
  BY <1>2, <1>3 DEF Kept, Deliverable, HasFile, Unfinished
<1> QED BY <1>4, <1>5, <1>6 DEF Kept, Handled

\* A listener receives a message: it is the only one that has the job.
LEMMA ReceiveKeeps ==
  ASSUME NEW l \in Listeners, NEW i \in Jobs, NEW j \in Jobs, TypeOK, Kept(j), Receive(l, i)
  PROVE  Kept(j)'
<1> DEFINE w == [job |-> i, receipt |-> received[i] + 1, known |-> {}, loaded |-> "PENDING"]
<1>1. /\ work' = [work EXCEPT ![l] = w] /\ at' = [at EXCEPT ![l] = "find"] /\ at[l] = "poll"
      /\ message' = [message EXCEPT ![i] = "in flight"] /\ message[i] = "visible"
      /\ received' = [received EXCEPT ![i] = @ + 1]
      /\ UNCHANGED <<upload, job, file>>
  BY DEF Receive, Step, store
<1>2. w.job = i /\ w.receipt = received[i] + 1 OBVIOUS
<1> HIDE DEF w
<1>3. work[l] = Null BY <1>1 DEF TypeOK, Handling, Importing
<1>4. CASE i # j
  <2>1. At(j)' \subseteq At(j) BY <1>1, <1>2, <1>4 DEF At, TypeOK
  <2>2. l \notin At(j) BY <1>3 DEF At
  <2>3. Beside(j) BY <1>1, <1>4, <2>1, <2>2 DEF Beside, TypeOK
  <2> QED BY <2>3, BesideKeeps
<1>5. CASE i = j
  <2>1. At(j) = {} BY <1>1, <1>5 DEF Kept, Handled, At
  <2>2. At(j)' \subseteq {l} BY <1>1, <2>1 DEF At, TypeOK
  <2>3. work'[l] = w /\ at'[l] = "find" /\ message'[j] = "in flight"
        /\ received'[j] = received[j] + 1
    BY <1>1, <1>5 DEF TypeOK
  <2>4. Uploaded(j)' BY <1>1, <1>5, <2>3 DEF Kept, Uploaded
  <2>5. Deliverable(j)' /\ HasFile(j)'
    BY <1>1, <2>3 DEF Kept, Deliverable, HasFile, Unfinished
  <2>6. ASSUME NEW k \in Listeners PROVE Handled(k, j)'
    BY <1>2, <1>5, <2>2, <2>3 DEF Handled
  <2> QED BY <2>4, <2>5, <2>6 DEF Kept
<1> QED BY <1>4, <1>5

\* A listener that stops, fails, dies or is replaced, and users that others manage.
LEMMA LeavingKeeps ==
  ASSUME NEW j \in Jobs, TypeOK, Kept(j),
         \/ \E l \in Listeners : ReceiveFails(l) \/ Fail(l) \/ Crash(l) \/ Replace(l)
         \/ \E x \in Logins : ManageUser(x)
  PROVE  Kept(j)'
<1>1. CASE \E l \in Listeners : ReceiveFails(l) \/ Fail(l) \/ Crash(l) \/ Replace(l)
  <2>1. PICK l \in Listeners : ReceiveFails(l) \/ Fail(l) \/ Crash(l) \/ Replace(l)
    BY <1>1
  <2>2. UNCHANGED <<upload, job, file, message, received>>
    BY <2>1 DEF ReceiveFails, Fail, Crash, Replace, store
  <2>3. \A k \in Listeners \ {l} : at'[k] = at[k] /\ work'[k] = work[k]
    BY <2>1 DEF TypeOK, ReceiveFails, Fail, Crash, Replace, Step
  <2>4. work'[l] = Null
    BY <2>1 DEF TypeOK, ReceiveFails, Fail, Crash, Replace, Step, Handling, Importing
  <2>5. Beside(j) BY <2>2, <2>3, <2>4 DEF Beside, At
  <2> QED BY <2>5, BesideKeeps
<1>2. CASE \E x \in Logins : ManageUser(x)
  <2>1. Beside(j) BY <1>2 DEF ManageUser, Beside, At
  <2> QED BY <2>1, BesideKeeps
<1> QED BY <1>1, <1>2

-----------------------------------------------------------------------------
(* The one listener that has the job.                                      *)

\* The others have something else, and go on with it.
LEMMA AloneKeeps ==
  ASSUME NEW l \in Listeners, NEW j \in Jobs, TypeOK, Kept(j), l \in At(j), Import(l),
         message'[j] = "in flight" \/ At(j)' = {},
         Uploaded(j)', Deliverable(j)', HasFile(j)', Handled(l, j)'
  PROVE  Kept(j)'
<1>1. \A k \in At(j) : k = l BY DEF Kept, Handled, At
<1>2. \A k \in Listeners \ {l} : work'[k] = work[k]
  BY DEF TypeOK, Import, FindJob, MarkProcessing, Download, FailJob, ReadUsers, CommitRows, Unlink,
         Acknowledge
<1>3. At(j)' \subseteq {l} BY <1>1, <1>2 DEF At
<1> QED BY <1>3 DEF Kept, Handled

\* What it has of the job when its step begins.
LEMMA HasJob ==
  ASSUME NEW l \in Listeners, NEW j \in Jobs, TypeOK, Kept(j), l \in At(j)
  PROVE  /\ work[l] \in Work /\ work[l].job = j /\ at[l] \in Handling
         /\ message[j] = "in flight" /\ work[l].receipt = received[j]
         /\ \A k \in At(j) : k = l
BY DEF TypeOK, Kept, Handled, At

LEMMA FindJobKeeps ==
  ASSUME NEW l \in Listeners, NEW j \in Jobs, TypeOK, Kept(j), l \in At(j), FindJob(l)
  PROVE  Kept(j)'
<1>0. /\ work[l] \in Work /\ work[l].job = j /\ at[l] \in Handling
      /\ message[j] = "in flight" /\ work[l].receipt = received[j]
      /\ \A k \in At(j) : k = l
  BY HasJob
<1>1. /\ UNCHANGED <<upload, job, file, message, received>>
      /\ at[l] = "find"
  BY DEF FindJob, store
<1>2. /\ Uploaded(j)' /\ Deliverable(j)' /\ HasFile(j)'
      /\ Unfinished(j)' <=> Unfinished(j)
  BY <1>1 DEF Kept, Uploaded, Deliverable, HasFile, Unfinished
<1>3. CASE job[j] = Null
  <2>1. work'[l] = Null BY <1>3, <1>0 DEF FindJob, TypeOK
  <2>2. l \notin At(j)' BY <2>1 DEF At
  <2> QED BY <1>1, <1>2, <2>2, <1>0, AloneKeeps DEF Import, Handled
<1>4. CASE job[j] # Null /\ AlreadyDone(job[j].status)
  <2>1. at'[l] = "acknowledge" /\ work' = work
    BY <1>4, <1>0 DEF FindJob, TypeOK, Step
  <2>2. ~Unfinished(j) BY <1>4 DEF Unfinished, AlreadyDone
  <2>3. At(j)' = At(j) BY <2>1 DEF At
  <2>4. Handled(l, j)'
    BY <1>1, <1>2, <1>4, <2>1, <2>2, <2>3, <1>0 DEF Handled
  <2> QED BY <1>1, <1>2, <2>4, <1>0, AloneKeeps DEF Import
<1>5. CASE job[j] # Null /\ ~AlreadyDone(job[j].status)
  <2>1. at'[l] = "mark" /\ work' = [work EXCEPT ![l].loaded = job[j].status]
    BY <1>5, <1>0 DEF FindJob, TypeOK, Step
  <2>2. Unfinished(j) BY <1>5 DEF Unfinished, AlreadyDone, TypeOK, JobRow
  <2>3. work'[l].receipt = work[l].receipt /\ \A k \in Listeners \ {l} : work'[k] = work[k]
    BY <2>1, <1>0 DEF TypeOK, Work
  <2>4. \A k \in At(j)' : k = l BY <2>3, <1>0 DEF At
  <2>5. Handled(l, j)'
    BY <1>1, <1>2, <2>1, <2>2, <2>3, <2>4, <1>0 DEF Handled
  <2> QED BY <1>1, <1>2, <2>5, <1>0, AloneKeeps DEF Import
<1> QED BY <1>3, <1>4, <1>5

\* Steps that change the job's row, and leave the message where it is.
LEMMA OutcomeKeeps ==
  ASSUME NEW l \in Listeners, NEW j \in Jobs, TypeOK, Kept(j), l \in At(j), NEW row \in JobRow,
         MarkProcessing(l) \/ FailJob(l) \/ CommitRows(l),
         job' = [job EXCEPT ![j] = row],
         at'[l] = "download" <=> row.status \in {"PENDING", "PROCESSING"}
  PROVE  Kept(j)'
<1>0. /\ work[l] \in Work /\ work[l].job = j /\ at[l] \in Handling
      /\ message[j] = "in flight" /\ work[l].receipt = received[j]
      /\ \A k \in At(j) : k = l
  BY HasJob
<1>1. /\ UNCHANGED <<upload, file, message, received, work>>
      /\ at[l] \in {"mark", "missing", "rows"}
      /\ at'[l] \in {"download", "unlink", "acknowledge"}
  BY DEF TypeOK, MarkProcessing, FailJob, CommitRows, Step
<1>2. job[j] # Null /\ Unfinished(j) /\ job'[j] = row /\ row # Null
  BY <1>1, JobWritten DEF Kept, Handled, Unfinished
<1>3. upload[j] = "done" BY <1>2 DEF Kept, Uploaded
<1>4. Uploaded(j)' BY <1>1, <1>3 DEF Uploaded
<1>5. Deliverable(j)' /\ HasFile(j)'
  BY <1>1, <1>2 DEF Kept, Deliverable, HasFile
<1>6. At(j)' = At(j) BY <1>1 DEF At
<1>7. Unfinished(j)' <=> at'[l] = "download" BY <1>2 DEF Unfinished
<1>8. Handled(l, j)' BY <1>1, <1>2, <1>6, <1>7, <1>0 DEF Handled
<1> QED BY <1>1, <1>4, <1>5, <1>8, <1>0, AloneKeeps DEF Import

LEMMA MarkProcessingKeeps ==
  ASSUME NEW l \in Listeners, NEW j \in Jobs, TypeOK, Kept(j), l \in At(j), MarkProcessing(l)
  PROVE  Kept(j)'
<1>0. /\ work[l] \in Work /\ work[l].job = j /\ at[l] \in Handling
      /\ message[j] = "in flight" /\ work[l].receipt = received[j]
      /\ \A k \in At(j) : k = l
  BY HasJob
<1> DEFINE row == IF work[l].loaded = "PENDING"
                  THEN [job[j] EXCEPT !.status = "PROCESSING"] ELSE job[j]
<1>1. at[l] = "mark" /\ at'[l] = "download" BY DEF MarkProcessing, Step, TypeOK
<1>2. Unfinished(j) BY <1>1 DEF Kept, Handled
<1>3. row \in JobRow /\ row.status \in {"PENDING", "PROCESSING"}
  <2>1. job[j] \in JobRow /\ job[j].status \in {"PENDING", "PROCESSING"}
    BY <1>2 DEF Unfinished, TypeOK
  <2>2. CASE work[l].loaded = "PENDING" BY <2>1, <2>2 DEF JobRow
  <2>3. CASE work[l].loaded # "PENDING" BY <2>1, <2>3
  <2> QED BY <2>2, <2>3
<1>4. job' = [job EXCEPT ![j] = row]
  BY <1>0 DEF MarkProcessing, SetJob, StatusOnly, TypeOK
<1> HIDE DEF row
<1> QED BY <1>1, <1>3, <1>4, OutcomeKeeps

LEMMA FailJobKeeps ==
  ASSUME NEW l \in Listeners, NEW j \in Jobs, TypeOK, Kept(j), l \in At(j), FailJob(l)
  PROVE  Kept(j)'
<1>0. /\ work[l] \in Work /\ work[l].job = j /\ at[l] \in Handling
      /\ message[j] = "in flight" /\ work[l].receipt = received[j]
      /\ \A k \in At(j) : k = l
  BY HasJob
<1> DEFINE row == [status |-> "FAILED", reported |-> {}]
<1>1. row \in JobRow /\ row.status = "FAILED" BY DEF JobRow
<1>2. job' = [job EXCEPT ![j] = row] /\ at'[l] = "acknowledge"
  BY <1>0 DEF FailJob, SetJob, Step, TypeOK
<1> HIDE DEF row
<1> QED BY <1>1, <1>2, OutcomeKeeps

LEMMA CommitRowsKeeps ==
  ASSUME NEW l \in Listeners, NEW j \in Jobs, TypeOK, Kept(j), l \in At(j), CommitRows(l)
  PROVE  Kept(j)'
<1>0. /\ work[l] \in Work /\ work[l].job = j /\ at[l] \in Handling
      /\ message[j] = "in flight" /\ work[l].receipt = received[j]
      /\ \A k \in At(j) : k = l
  BY HasJob
<1>1. PICK reported \in SUBSET rows[j] :
        job' = [job EXCEPT ![j] = [status |-> "COMPLETED",
                                   reported |-> ReportedRows(l, reported)]]
  BY <1>0 DEF CommitRows, SetJob
<1> DEFINE row == [status |-> "COMPLETED", reported |-> ReportedRows(l, reported)]
<1>2. at[l] = "rows" /\ at'[l] = "unlink" BY DEF CommitRows, Step, TypeOK
<1>3. job[j] \in JobRow BY <1>2 DEF Kept, Handled, Unfinished, TypeOK
<1>4. row \in JobRow /\ row.status = "COMPLETED"
  BY <1>3, <1>0 DEF ReportedRows, JobRow, TypeOK
<1>5. job' = [job EXCEPT ![j] = row] BY <1>1
<1> HIDE DEF row
<1> QED BY <1>2, <1>4, <1>5, OutcomeKeeps

\* Steps that read.
LEMMA ReadingKeeps ==
  ASSUME NEW l \in Listeners, NEW j \in Jobs, TypeOK, Kept(j), l \in At(j),
         Download(l) \/ ReadUsers(l)
  PROVE  Kept(j)'
<1>0. /\ work[l] \in Work /\ work[l].job = j /\ at[l] \in Handling
      /\ message[j] = "in flight" /\ work[l].receipt = received[j]
      /\ \A k \in At(j) : k = l
  BY HasJob
<1>1. /\ UNCHANGED <<upload, job, file, message, received>>
      /\ at[l] \in {"download", "read"}
      /\ at'[l] \in {"read", "missing", "rows"}
  BY DEF TypeOK, Download, ReadUsers, Step, store
<1>2. /\ Uploaded(j)' /\ Deliverable(j)' /\ HasFile(j)'
      /\ Unfinished(j)' <=> Unfinished(j)
  BY <1>1 DEF Kept, Uploaded, Deliverable, HasFile, Unfinished
<1>3. /\ work'[l] = Null \/ work'[l].receipt = work[l].receipt
      /\ \A k \in Listeners \ {l} : work'[k] = work[k]
  BY <1>0, Rewritten DEF Download, ReadUsers
<1>4. \A k \in At(j)' : k = l BY <1>3, <1>0 DEF At
<1>5. Unfinished(j) BY <1>1 DEF Kept, Handled
<1>6. l \in At(j)' => work'[l] # Null BY DEF At
<1>7. Handled(l, j)' BY <1>0, <1>1, <1>2, <1>3, <1>4, <1>5, <1>6 DEF Handled
<1> QED BY <1>0, <1>1, <1>2, <1>7, AloneKeeps DEF Import

\* The file goes after the outcome is committed.
LEMMA UnlinkKeeps ==
  ASSUME NEW l \in Listeners, NEW j \in Jobs, TypeOK, Kept(j), l \in At(j), Unlink(l)
  PROVE  Kept(j)'
<1>0. /\ work[l] \in Work /\ work[l].job = j /\ at[l] \in Handling
      /\ message[j] = "in flight" /\ work[l].receipt = received[j]
      /\ \A k \in At(j) : k = l
  BY HasJob
<1>1. /\ UNCHANGED <<upload, job, message, received, work>>
      /\ at[l] = "unlink" /\ at'[l] = "acknowledge"
  BY DEF TypeOK, Unlink, Step
<1>2. job[j] # Null /\ ~Unfinished(j) BY <1>1 DEF Kept, Handled
<1>3. upload[j] = "done" BY <1>2 DEF Kept, Uploaded
<1>4. ~Unfinished(j)' /\ At(j)' = At(j) BY <1>1, <1>2 DEF Unfinished, At
<1>5. Uploaded(j)' /\ Deliverable(j)' /\ HasFile(j)'
  BY <1>1, <1>3, <1>4 DEF Uploaded, Deliverable, HasFile
<1>6. Handled(l, j)' BY <1>1, <1>2, <1>4, <1>0 DEF Handled
<1> QED BY <1>1, <1>5, <1>6, <1>0, AloneKeeps DEF Import

\* The receipt is the latest, so the message is deleted; and nobody needs it.
LEMMA AcknowledgeKeeps ==
  ASSUME NEW l \in Listeners, NEW j \in Jobs, TypeOK, Kept(j), l \in At(j), Acknowledge(l)
  PROVE  Kept(j)'
<1>0. /\ work[l] \in Work /\ work[l].job = j /\ at[l] \in Handling
      /\ message[j] = "in flight" /\ work[l].receipt = received[j]
      /\ \A k \in At(j) : k = l
  BY HasJob
<1>1. /\ UNCHANGED <<upload, job, file, received>>
      /\ at[l] = "acknowledge" /\ work'[l] = Null
  BY DEF TypeOK, Acknowledge, Step, store
<1>2. job[j] # Null /\ ~Unfinished(j) BY <1>1 DEF Kept, Handled
<1>3. upload[j] = "done" BY <1>2 DEF Kept, Uploaded
<1>4. ~Unfinished(j)' BY <1>1, <1>2 DEF Unfinished
<1>5. Uploaded(j)' /\ Deliverable(j)' /\ HasFile(j)'
  BY <1>1, <1>3, <1>4 DEF Uploaded, Deliverable, HasFile
<1>6. \A k \in Listeners \ {l} : work'[k] = work[k] BY DEF Acknowledge, TypeOK
<1>7. ASSUME NEW k \in At(j)' PROVE FALSE
  <2>1. k \in Listeners \ {l} BY <1>1, <1>7 DEF At
  <2>2. k \in At(j) BY <1>6, <1>7, <2>1 DEF At
  <2> QED BY <1>0, <2>1, <2>2
<1>8. Handled(l, j)' BY <1>7 DEF Handled
<1> QED BY <1>5, <1>7, <1>8, AloneKeeps DEF Import

\* Every step about a job that no second listener took over, or about another.
LEMMA KeptNext ==
  ASSUME NEW j \in Own, j \in Own', TypeOK, Kept(j), ImportNext
  PROVE  Kept(j)'
<1>1. j \in Jobs /\ (VisibilityTimeout(j) => At(j) = {})
  <2>1. ASSUME VisibilityTimeout(j) PROVE message[j] = "in flight" /\ message'[j] = "visible"
    BY <2>1 DEF VisibilityTimeout, Own, TypeOK
  <2> QED BY <2>1 DEF ImportNext, Own
<1>2. ASSUME NEW i \in Jobs, Advance(i) \/ LoseUpload(i) \/ VisibilityTimeout(i) \/ Redrive(i)
      PROVE  Kept(j)'
  BY <1>1, <1>2, OthersKeep, AdvanceKeeps, QueueKeeps
<1>3. ASSUME NEW i \in Jobs, NEW l \in Listeners, Receive(l, i) PROVE Kept(j)'
  BY <1>1, <1>3, ReceiveKeeps
<1>4. ASSUME NEW l \in Listeners, Import(l) PROVE Kept(j)'
  <2>1. CASE l \notin At(j) BY <1>1, <1>4, <2>1, ElsewhereKeeps
  <2>2. CASE l \in At(j)
    BY <1>1, <1>4, <2>2, FindJobKeeps, MarkProcessingKeeps, FailJobKeeps, CommitRowsKeeps,
       ReadingKeeps, UnlinkKeeps, AcknowledgeKeeps DEF Import
  <2> QED BY <2>1, <2>2
<1>5. ASSUME \/ \E l \in Listeners : ReceiveFails(l) \/ Fail(l) \/ Crash(l) \/ Replace(l)
             \/ \E x \in Logins : ManageUser(x)
      PROVE  Kept(j)'
  BY <1>1, <1>5, LeavingKeeps
<1> QED BY <1>2, <1>3, <1>4, <1>5 DEF ImportNext, Next

\* Nothing is kept of a job before its upload.
LEMMA KeptInit == Init => OwnKept
<1> SUFFICES ASSUME Init, NEW j \in Jobs PROVE Kept(j)
  BY DEF OwnKept, Own
<1>1. At(j) = {} BY DEF Init, At
<1>2. /\ upload[j] = "new" /\ job[j] = Null /\ message[j] = "none"
  BY DEF Init
<1> QED BY <1>1, <1>2 DEF Kept, Uploaded, Deliverable, HasFile, Unfinished, Handled

\* What was overtaken once remains so.
LEMMA OwnKeptNext == IInv /\ OwnKept /\ [ImportNext]_<<vars, overtaken>> => OwnKept'
<1> SUFFICES ASSUME IInv, OwnKept, [ImportNext]_<<vars, overtaken>>, NEW j \in Own'
             PROVE  Kept(j)'
  BY DEF OwnKept
<1>1. TypeOK /\ j \in Own
  <2>1. j \in Jobs /\ j \notin overtaken' BY DEF Own
  <2>2. overtaken \subseteq overtaken' BY DEF ImportNext
  <2> QED BY <2>1, <2>2 DEF IInv, Own
<1>2. Kept(j) BY <1>1 DEF OwnKept
<1>3. CASE UNCHANGED <<vars, overtaken>>
  <2>1. Beside(j) BY <1>3 DEF vars, Beside, At
  <2> QED BY <1>1, <1>2, <2>1, BesideKeeps DEF Own
<1>4. CASE ImportNext BY <1>1, <1>2, <1>4, KeptNext
<1> QED BY <1>3, <1>4

\* The history changes no step of the import.
LEMMA TracedStep == IInv /\ [ImportNext]_<<vars, overtaken>> => IInv'
<1>1. [ImportNext]_<<vars, overtaken>> => [Next]_vars BY DEF ImportNext, vars
<1> QED BY <1>1, Inductive

THEOREM TracedInvariance == TracedSpec => [](IInv /\ OwnKept)
<1>1. Init => IInv /\ OwnKept BY Initially, KeptInit
<1>2. IInv /\ OwnKept /\ [ImportNext]_<<vars, overtaken>> => (IInv /\ OwnKept)'
  BY TracedStep, OwnKeptNext
<1> QED BY <1>1, <1>2, PTL DEF TracedSpec

\* An unfinished job that no second listener took over has a message that will
\* be delivered or was redriven, for any number of files, listeners and
\* deliveries (UserImportListener.run_forever).
THEOREM NoneStranded == TracedSpec => []StrandedOnlyOvertaken
<1>1. OwnKept => StrandedOnlyOvertaken
  BY DEF OwnKept, Kept, StrandedOnlyOvertaken
<1> QED BY <1>1, TracedInvariance, PTL

\* ... and its file is there for that delivery (UserImportListener._delete_file).
THEOREM FilesServe == TracedSpec => []FileServesUntilOvertaken
<1>1. OwnKept => FileServesUntilOvertaken
  BY DEF OwnKept, Kept, FileServesUntilOvertaken
<1> QED BY <1>1, TracedInvariance, PTL

-----------------------------------------------------------------------------
(* Once finished, always: only the listener that has a job writes its row, *)
(* and it has found the job unfinished.                                    *)

LEMMA FinishedStays ==
  ASSUME NEW j \in Jobs, TypeOK, Kept(j), job[j] # Null, ~Unfinished(j), Next
  PROVE  /\ job'[j] = job[j]
         /\ \A l \in Listeners : at[l] = "rows" /\ at'[l] = "unlink" => work[l].job # j
<1>1. \A l \in At(j) : at[l] \notin {"mark", "download", "missing", "read", "rows"}
  BY DEF Kept, Handled, At
<1>2. ASSUME NEW l \in Listeners, at[l] \in {"mark", "missing", "rows"} PROVE work[l].job # j
  <2>1. work[l] # Null BY <1>2 DEF TypeOK, Handling, Importing
  <2> QED BY <1>1, <1>2, <2>1 DEF At
<1>3. ASSUME NEW i \in Jobs, Advance(i) PROVE job'[j] = job[j]
  <2>1. CASE i # j
    BY <1>3, <2>1 DEF Advance, Submit, UploadFile, SendMessage, DeleteUnsent, CommitJob, TypeOK
  <2>2. CASE i = j
    <3>1. upload[j] = "done" BY DEF Kept, Uploaded
    <3> QED BY <1>3, <2>2, <3>1 DEF Advance, Submit, UploadFile, SendMessage, DeleteUnsent,
               CommitJob, Proceed
  <2> QED BY <2>1, <2>2
<1>4. ASSUME NEW l \in Listeners, Import(l) PROVE job'[j] = job[j]
  <2>1. CASE MarkProcessing(l) \/ FailJob(l) \/ CommitRows(l)
    <3>1. at[l] \in {"mark", "missing", "rows"}
      BY <2>1 DEF MarkProcessing, FailJob, CommitRows, Step
    <3> QED BY <1>2, <2>1, <3>1 DEF MarkProcessing, FailJob, CommitRows, SetJob, TypeOK
  <2>2. CASE ~(MarkProcessing(l) \/ FailJob(l) \/ CommitRows(l))
    BY <1>4, <2>2 DEF Import, FindJob, Download, ReadUsers, Unlink, Acknowledge, store
  <2> QED BY <2>1, <2>2
<1>5. job'[j] = job[j]
  <2>1. ASSUME NEW i \in Jobs,
               \/ LoseUpload(i) \/ VisibilityTimeout(i) \/ Redrive(i)
               \/ \E l \in Listeners : Receive(l, i)
        PROVE  job' = job
    BY <2>1 DEF LoseUpload, VisibilityTimeout, Redrive, Receive, store
  <2>2. ASSUME NEW l \in Listeners, ReceiveFails(l) \/ Fail(l) \/ Crash(l) \/ Replace(l)
        PROVE  job' = job
    BY <2>2 DEF ReceiveFails, Fail, Crash, Replace, store
  <2>3. ASSUME NEW x \in Logins, ManageUser(x) PROVE job' = job
    BY <2>3 DEF ManageUser
  <2> QED BY <1>3, <1>4, <2>1, <2>2, <2>3 DEF Next
<1> QED BY <1>2, <1>5

\* A COMPLETED or FAILED job that no second listener took over is not changed
\* and not imported again, whatever is delivered (process_import_message).
THEOREM FinishedIsFinalAlone == TracedSpec => FinalUntilOvertaken
<1>1. IInv /\ OwnKept /\ [ImportNext]_<<vars, overtaken>>
        => [\A j \in Own : StaysFinished(j)]_<<vars, overtaken>>
  <2> SUFFICES ASSUME IInv, OwnKept, ImportNext, NEW j \in Own,
                      job[j] # Null, ~Unfinished(j)
               PROVE  /\ job'[j] = job[j]
                      /\ \A l \in Listeners :
                           at[l] = "rows" /\ at'[l] = "unlink" => work[l].job # j
    BY DEF StaysFinished
  <2>1. j \in Jobs /\ TypeOK /\ Kept(j) /\ Next BY DEF Own, OwnKept, IInv, ImportNext
  <2> QED BY <2>1, FinishedStays
<1> QED BY <1>1, TracedInvariance, PTL DEF TracedSpec, FinalUntilOvertaken
=============================================================================
