--------------------------- MODULE WorkflowsProofs ---------------------------
(***************************************************************************)
(* Theorems about module Workflows, for any number of jobs, notifications, *)
(* requests, digests, users, devices and deaths: what a job that has ended *)
(* says is so, and a notification is pushed once.                          *)
(***************************************************************************)
EXTENDS Workflows, SequenceTheorems, FiniteSetTheorems, TLAPS

-----------------------------------------------------------------------------
(* Jobs.  The inductive invariant: a job is worked on by one request at    *)
(* most, whose memory agrees with the tables.                              *)

AllJobs == Exports \cup Imports
ExportSteps == {"generate", "write", "complete", "catch"}
JobSteps == ExportSteps \cup {"begin", "rows"}
CountsType == [success : Nat, failure : Nat]

TablesType ==
  /\ DOMAIN req = Requests
  /\ status \in [AllJobs -> {None, "pending", "processing", "completed", "failed"}]
  /\ counts \in [Imports -> CountsType]
  /\ created \in [Imports -> Nat]

\* What a request that works on a job remembers.
MemoryOK(m) ==
  /\ "at" \in DOMAIN m
  /\ m.at \in JobSteps => m.job \in AllJobs /\ status[m.job] \in {"pending", "processing"}
  /\ m.at \in ExportSteps => m.job \in Exports /\ m = [at |-> m.at, job |-> m.job]
  /\ m.at = "complete" => m.job \in stored
  /\ (m.at = "begin" /\ m.job \in Imports) => created[m.job] = 0
  /\ m.at = "rows" =>
       /\ m.job \in Imports /\ m = [at |-> "rows", job |-> m.job, counts |-> m.counts]
       /\ m.counts \in CountsType /\ m.counts.success = created[m.job]

Alone ==
  \A h, k \in Requests :
    (req[h].at \in JobSteps /\ req[k].at \in JobSteps /\ req[h].job = req[k].job) => h = k
Fresh == \A j \in Imports : status[j] = None => created[j] = 0

JobsInv ==
  /\ TablesType /\ Alone /\ Fresh /\ JobsAccounted
  /\ \A h \in Requests : MemoryOK(req[h])

-----------------------------------------------------------------------------
(* The steps that work on no job. *)

Elsewhere(m) == "at" \in DOMAIN m /\ m.at \notin JobSteps
Quiet(h) == UNCHANGED jobs /\ \E m : Elsewhere(m) /\ req' = [req EXCEPT ![h] = m]

LEMMA QuietKeeps ==
  ASSUME JobsInv, NEW h \in Requests, Quiet(h)
  PROVE  JobsInv'
<1>1. PICK m : Elsewhere(m) /\ req' = [req EXCEPT ![h] = m]
  BY DEF Quiet
<1>2. DOMAIN req' = Requests /\ \A k \in Requests : req'[k] = IF k = h THEN m ELSE req[k]
  BY <1>1 DEF JobsInv, TablesType
<1>3. status' = status /\ counts' = counts /\ stored' = stored /\ created' = created
  BY DEF Quiet, jobs
<1>4. \A k \in Requests : MemoryOK(req[k])'
  BY <1>1, <1>2, <1>3 DEF JobsInv, MemoryOK, Elsewhere, JobSteps, ExportSteps
<1>5. Alone'
  BY <1>1, <1>2 DEF JobsInv, Alone, Elsewhere
<1>6. TablesType' /\ Fresh' /\ JobsAccounted'
  BY <1>2, <1>3 DEF JobsInv, TablesType, Fresh, JobsAccounted, Ended
<1> QED
  BY <1>4, <1>5, <1>6 DEF JobsInv

LEMMA NotificationsQuiet ==
  ASSUME NEW h, NotificationsStart(h) \/ NotificationsStep(h) \/ RunDigest(h) \/ Throws(h), UNCHANGED jobs
  PROVE  Quiet(h)
<1> USE DEF Start, Goes, Reply, Quiet, Elsewhere, Idle, JobSteps, ExportSteps, Pushing
<1>1. ASSUME Notify(h) PROVE Quiet(h)
  BY <1>1 DEF Notify
<1>2. ASSUME MarkRead(h) PROVE Quiet(h)
  BY <1>2 DEF MarkRead
<1>3. ASSUME MarkAllRead(h) PROVE Quiet(h)
  BY <1>3 DEF MarkAllRead
<1>4. ASSUME UpdatePreference(h) PROVE Quiet(h)
  BY <1>4 DEF UpdatePreference
<1>5. ASSUME RegisterDevice(h) PROVE Quiet(h)
  BY <1>5 DEF RegisterDevice
<1>6. ASSUME Insert(h) PROVE Quiet(h)
  BY <1>6 DEF Insert
<1>7. ASSUME FindTokens(h) PROVE Quiet(h)
  BY <1>7 DEF FindTokens, PushNext, Skip
<1>8. ASSUME Send(h) PROVE Quiet(h)
  BY <1>8 DEF Send
<1>9. ASSUME Prune(h) PROVE Quiet(h)
  BY <1>9 DEF Prune
<1>10. ASSUME Deliver(h) PROVE Quiet(h)
  BY <1>10 DEF Deliver, PushNext
<1>11. ASSUME SaveRead(h) PROVE Quiet(h)
  BY <1>11 DEF SaveRead
<1>12. ASSUME SavePreference(h) PROVE Quiet(h)
  BY <1>12 DEF SavePreference
<1>13. ASSUME SaveDevice(h) PROVE Quiet(h)
  BY <1>13 DEF SaveDevice
<1>14. ASSUME RunDigest(h) PROVE Quiet(h)
  BY <1>14 DEF RunDigest
<1>15. ASSUME DeleteAccount(h) PROVE Quiet(h)
  BY <1>15 DEF DeleteAccount
<1>16. ASSUME Throws(h) PROVE Quiet(h)
  BY <1>16 DEF Throws, Die
<1> QED
  BY <1>1, <1>2, <1>3, <1>4, <1>5, <1>6, <1>7, <1>8, <1>9, <1>10, <1>11, <1>12, <1>13, <1>14, <1>15, <1>16 DEF NotificationsStart, NotificationsStep

-----------------------------------------------------------------------------
(* The steps that work on a job touch the rows of that job only. *)

AccountedOf(j) ==
  /\ (j \in Exports /\ status[j] = "completed") => j \in stored
  /\ j \in Imports =>
       IF Ended(j)
       THEN /\ counts[j].success = created[j]
            /\ counts[j].success + counts[j].failure = RowsOf[j]
            /\ status[j] = "failed" <=> created[j] = 0
       ELSE counts[j] = Counts(0, 0)

LEMMA AccountedJobs == JobsAccounted <=> \A j \in AllJobs : AccountedOf(j)
BY DEF JobsAccounted, AccountedOf, AllJobs

\* Only the job j of request h changes, and what is said of it holds afterwards.
Becomes(h, j, m) ==
  req' = [req EXCEPT ![h] = m] /\ "at" \in DOMAIN m /\ (m.at \in JobSteps => m.job = j)
OnlyJob(h, j) ==
  /\ (req[h].at \in JobSteps /\ req[h].job = j) \/ status[j] = None
  /\ \E m : Becomes(h, j, m)
  /\ \A k \in AllJobs \ {j} : status'[k] = status[k]
  /\ \A k \in Imports \ {j} : counts'[k] = counts[k] /\ created'[k] = created[k]
  /\ stored \subseteq stored'
  /\ status'[j] # None

LEMMA JobStepKeeps ==
  ASSUME JobsInv, NEW h \in Requests, NEW j \in AllJobs, OnlyJob(h, j),
         TablesType', MemoryOK(req[h])', AccountedOf(j)'
  PROVE  JobsInv'
<1>1. PICK m : Becomes(h, j, m)
  BY DEF OnlyJob
<1>2. req'[h] = m /\ \A k \in Requests \ {h} : req'[k] = req[k]
  BY <1>1 DEF JobsInv, TablesType, Becomes
<1>3. ASSUME NEW k \in Requests \ {h}, req[k].at \in JobSteps
      PROVE  req[k].job \in AllJobs \ {j}
  <2>1. req[k].job \in AllJobs /\ status[req[k].job] \in {"pending", "processing"}
    BY <1>3 DEF JobsInv, MemoryOK
  <2>2. CASE req[h].at \in JobSteps /\ req[h].job = j
    BY <1>3, <2>1, <2>2 DEF JobsInv, Alone
  <2>3. CASE status[j] = None
    BY <2>1, <2>3, JobsAssumption
  <2> QED
    BY <2>2, <2>3 DEF OnlyJob
<1>4. ASSUME NEW k \in Requests \ {h}
      PROVE  MemoryOK(req[k])'
  <2>1. MemoryOK(req[k])
    BY DEF JobsInv
  <2>2. req'[k] = req[k]
    BY <1>2
  <2>3. CASE req[k].at \notin JobSteps
    BY <2>1, <2>2, <2>3 DEF MemoryOK, JobSteps, ExportSteps
  <2>4. CASE req[k].at \in JobSteps
    <3>1. /\ status'[req[k].job] = status[req[k].job] /\ stored \subseteq stored'
          /\ req[k].job \in Imports => created'[req[k].job] = created[req[k].job]
      BY <1>3, <2>4 DEF OnlyJob
    <3> QED
      BY <2>1, <2>2, <3>1 DEF MemoryOK
  <2> QED
    BY <2>3, <2>4
<1>5. Alone'
  BY <1>1, <1>2, <1>3 DEF JobsInv, Alone, Becomes
<1>6. Fresh'
  BY DEF JobsInv, Fresh, OnlyJob, AllJobs
<1>7. JobsAccounted'
  <2>1. \A k \in AllJobs \ {j} : AccountedOf(k)
    BY AccountedJobs DEF JobsInv
  <2>2. \A k \in AllJobs \ {j} : AccountedOf(k)'
    BY <2>1 DEF AccountedOf, OnlyJob, Ended
  <2> QED
    BY <2>2 DEF AccountedOf, JobsAccounted, AllJobs, Ended
<1> QED
  BY <1>4, <1>5, <1>6, <1>7 DEF JobsInv

LEMMA CreateJobKeeps ==
  ASSUME JobsInv, NEW h \in Requests, CreateJob(h)
  PROVE  JobsInv'
<1>1. PICK j \in AllJobs :
        /\ status[j] = None
        /\ req' = [req EXCEPT ![h] = [at |-> "begin", job |-> j]]
        /\ status' = [status EXCEPT ![j] = "pending"]
        /\ UNCHANGED <<counts, stored, created>>
  BY DEF CreateJob, Start, AllJobs
<1>2. OnlyJob(h, j)
  <2>1. Becomes(h, j, [at |-> "begin", job |-> j])
    BY <1>1 DEF Becomes
  <2> QED
    BY <1>1, <2>1, JobsAssumption DEF OnlyJob, JobsInv, TablesType
<1>3. TablesType'
  BY <1>1 DEF JobsInv, TablesType
<1>4. MemoryOK(req[h])'
  BY <1>1 DEF MemoryOK, JobsInv, TablesType, Fresh, JobSteps, ExportSteps
<1>5. AccountedOf(j)'
  <2>1. AccountedOf(j) /\ ~Ended(j) /\ ~Ended(j)' /\ status'[j] = "pending"
    BY <1>1, AccountedJobs, JobsAssumption DEF JobsInv, Ended, TablesType
  <2> QED
    BY <1>1, <2>1 DEF AccountedOf
<1> QED
  BY <1>2, <1>3, <1>4, <1>5, JobStepKeeps

LEMMA BeginKeeps ==
  ASSUME JobsInv, NEW h \in Requests, Begin(h)
  PROVE  JobsInv'
<1>1. PICK j \in AllJobs : j = req[h].job /\ status[j] \in {"pending", "processing"} /\ (j \in Imports => created[j] = 0)
  BY DEF Begin, JobsInv, MemoryOK, JobSteps
<1> DEFINE m == IF j \in Exports THEN [at |-> "generate", job |-> j]
                ELSE [at |-> "rows", job |-> j, counts |-> Counts(0, 0)]
<1>2. /\ req[h].at = "begin"
      /\ status' = [status EXCEPT ![j] = "processing"]
      /\ req' = [req EXCEPT ![h] = m]
      /\ UNCHANGED <<counts, stored, created>>
  BY <1>1 DEF Begin, Goes
<1>3. OnlyJob(h, j)
  <2>1. "at" \in DOMAIN m /\ m.job = j
    OBVIOUS
  <2>2. Becomes(h, j, m)
    BY <1>2, <2>1 DEF Becomes
  <2> HIDE DEF m
  <2> QED
    BY <1>1, <1>2, <2>2, JobsAssumption DEF OnlyJob, JobsInv, TablesType, JobSteps
<1>4. TablesType'
  BY <1>1, <1>2 DEF JobsInv, TablesType
<1>5. MemoryOK(req[h])'
  BY <1>1, <1>2 DEF MemoryOK, JobsInv, TablesType, JobSteps, ExportSteps, AllJobs, Counts, CountsType
<1>6. AccountedOf(j)'
  <2>1. AccountedOf(j)
    BY AccountedJobs DEF JobsInv
  <2>2. status'[j] = "processing" /\ ~Ended(j)
    BY <1>1, <1>2 DEF JobsInv, Ended, TablesType
  <2> QED
    BY <1>2, <2>1, <2>2 DEF AccountedOf, Ended
<1> QED
  BY <1>3, <1>4, <1>5, <1>6, JobStepKeeps

\* The statements of an export: each leaves its job as it is or ends it.
LEMMA ExportKeeps ==
  ASSUME JobsInv, NEW h \in Requests, Generate(h) \/ WriteObject(h) \/ Complete(h) \/ Throw(h) \/ Catch(h)
  PROVE  JobsInv'
<1>1. req[h].at \in ExportSteps
  BY DEF Generate, WriteObject, Complete, Throw, Catch, ExportSteps
<1>0. PICK j : j = req[h].job
  OBVIOUS
<1>2. /\ j \in Exports /\ j \in AllJobs /\ j \notin Imports /\ req[h].at \in JobSteps
      /\ req[h] = [at |-> req[h].at, job |-> j]
      /\ req[h].at = "complete" => j \in stored
      /\ status[j] \in {"pending", "processing"}
  BY <1>0, <1>1, JobsAssumption DEF JobsInv, MemoryOK, JobSteps, AllJobs
<1>3. ASSUME NEW a \in ExportSteps, req' = [req EXCEPT ![h] = [at |-> a, job |-> j]],
             status' = status, counts' = counts, created' = created,
             stored \subseteq stored', a = "complete" => j \in stored'
      PROVE  JobsInv'
  <2> DEFINE m == [at |-> a, job |-> j]
  <2>1. OnlyJob(h, j)
    <3>1. Becomes(h, j, m)
      BY <1>3 DEF Becomes
    <3> HIDE DEF m
    <3> QED
      BY <1>0, <1>2, <1>3, <3>1, JobsAssumption DEF OnlyJob
  <2>2. TablesType'
    BY <1>3 DEF JobsInv, TablesType
  <2>3. MemoryOK(req[h])'
    BY <1>2, <1>3 DEF JobsInv, TablesType, MemoryOK, JobSteps, ExportSteps
  <2>4. AccountedOf(j)'
    BY <1>2, <1>3 DEF AccountedOf
  <2> QED
    BY <1>2, <2>1, <2>2, <2>3, <2>4, JobStepKeeps
<1>4. ASSUME NEW x \in {"completed", "failed"}, req' = [req EXCEPT ![h] = Idle],
             status' = [status EXCEPT ![j] = x], counts' = counts, created' = created,
             stored' = stored, x = "completed" => j \in stored
      PROVE  JobsInv'
  <2>1. OnlyJob(h, j)
    <3>1. Becomes(h, j, Idle)
      BY <1>4 DEF Becomes, Idle, JobSteps, ExportSteps
    <3> QED
      BY <1>0, <1>2, <1>4, <3>1, JobsAssumption DEF OnlyJob, JobsInv, TablesType
  <2>2. TablesType'
    BY <1>2, <1>4 DEF JobsInv, TablesType
  <2>3. MemoryOK(req[h])'
    BY <1>4 DEF JobsInv, TablesType, MemoryOK, Idle, JobSteps, ExportSteps
  <2>4. AccountedOf(j)'
    BY <1>2, <1>4 DEF AccountedOf, JobsInv, TablesType
  <2> QED
    BY <1>2, <2>1, <2>2, <2>3, <2>4, JobStepKeeps
<1>5. ASSUME NEW a \in ExportSteps
      PROVE  [req[h] EXCEPT !.at = a] = [at |-> a, job |-> j]
  BY <1>2
<1>6. CASE Generate(h)
  <2>1. /\ req' = [req EXCEPT ![h] = [at |-> "write", job |-> j]]
        /\ status' = status /\ counts' = counts /\ created' = created
        /\ stored' = stored
    BY <1>0, <1>5, <1>6 DEF Generate, Goes, jobs, ExportSteps
  <2> QED
    BY <1>3, <2>1 DEF ExportSteps
<1>7. CASE WriteObject(h)
  <2>1. /\ req' = [req EXCEPT ![h] = [at |-> "complete", job |-> j]]
        /\ status' = status /\ counts' = counts /\ created' = created
        /\ stored' = stored \cup {j}
    BY <1>0, <1>5, <1>7 DEF WriteObject, Goes, jobs, ExportSteps
  <2> QED
    BY <1>3, <2>1 DEF ExportSteps
<1>8. CASE Complete(h)
  BY <1>0, <1>2, <1>4, <1>8 DEF Complete, Reply, Goes
<1>9. CASE Throw(h)
  <2>1. /\ req' = [req EXCEPT ![h] = [at |-> "catch", job |-> j]]
        /\ status' = status /\ counts' = counts /\ created' = created
        /\ stored' = stored
    BY <1>0, <1>5, <1>9 DEF Throw, Goes, jobs, ExportSteps
  <2> QED
    BY <1>3, <2>1 DEF ExportSteps
<1>10. CASE Catch(h)
  BY <1>0, <1>4, <1>10 DEF Catch, Reply, Goes
<1> QED
  BY <1>6, <1>7, <1>8, <1>9, <1>10

\* The statements of an import.
LEMMA ImportRowKeeps ==
  ASSUME JobsInv, NEW h \in Requests, ImportRow(h)
  PROVE  JobsInv'
<1>1. PICK j : j = req[h].job
  OBVIOUS
<1>2. PICK s, f : s = req[h].counts.success /\ f = req[h].counts.failure
  OBVIOUS
<1>3. /\ j \in Imports /\ j \in AllJobs /\ j \notin Exports /\ status[j] \in {"pending", "processing"}
      /\ req[h].at = "rows" /\ req[h] = [at |-> "rows", job |-> j, counts |-> req[h].counts]
      /\ req[h].counts = Counts(s, f) /\ s \in Nat /\ f \in Nat /\ s = created[j]
  BY <1>1, <1>2, JobsAssumption DEF ImportRow, JobsInv, MemoryOK, JobSteps, AllJobs, CountsType, Counts
<1>4. PICK s2 \in Nat, f2 \in Nat :
        /\ req' = [req EXCEPT ![h] = [at |-> "rows", job |-> j, counts |-> Counts(s2, f2)]]
        /\ created' = [created EXCEPT ![j] = s2]
  <2>1. req[h] = [at |-> "rows", job |-> j, counts |-> Counts(s, f)]
    BY <1>3
  <2>2. CASE created' = [created EXCEPT ![j] = @ + 1] /\ Goes(h, [req[h] EXCEPT !.counts.success = @ + 1])
    <3>1. [req[h] EXCEPT !.counts.success = @ + 1] = [at |-> "rows", job |-> j, counts |-> Counts(s + 1, f)]
      BY <2>1 DEF Counts
    <3>2. req' = [req EXCEPT ![h] = [at |-> "rows", job |-> j, counts |-> Counts(s + 1, f)]]
      BY <2>2, <3>1 DEF Goes
    <3>3. created' = [created EXCEPT ![j] = s + 1]
      BY <1>3, <2>2
    <3>4. s + 1 \in Nat
      BY <1>3
    <3> QED
      BY <1>3, <3>2, <3>3, <3>4
  <2>3. CASE created' = created /\ Goes(h, [req[h] EXCEPT !.counts.failure = @ + 1])
    <3>1. [req[h] EXCEPT !.counts.failure = @ + 1] = [at |-> "rows", job |-> j, counts |-> Counts(s, f + 1)]
      BY <2>1 DEF Counts
    <3>2. created' = [created EXCEPT ![j] = s]
      BY <1>3, <2>3 DEF JobsInv, TablesType
    <3>3. req' = [req EXCEPT ![h] = [at |-> "rows", job |-> j, counts |-> Counts(s, f + 1)]]
      BY <2>3, <3>1 DEF Goes
    <3>4. f + 1 \in Nat
      BY <1>3
    <3> QED
      BY <1>3, <3>2, <3>3, <3>4
  <2> QED
    BY <1>1, <2>2, <2>3 DEF ImportRow
<1>5. UNCHANGED <<status, counts, stored>>
  BY DEF ImportRow
<1> DEFINE m == [at |-> "rows", job |-> j, counts |-> Counts(s2, f2)]
<1>6. OnlyJob(h, j)
  <2>1. Becomes(h, j, m)
    BY <1>4 DEF Becomes
  <2> HIDE DEF m
  <2> QED
    BY <1>1, <1>3, <1>4, <1>5, <2>1, JobsAssumption DEF OnlyJob, JobsInv, TablesType, JobSteps
<1>7. TablesType'
  BY <1>3, <1>4, <1>5 DEF JobsInv, TablesType
<1>8. MemoryOK(req[h])'
  <2>1. req'[h] = m /\ created'[j] = s2 /\ status'[j] = status[j]
    BY <1>3, <1>4, <1>5 DEF JobsInv, TablesType
  <2> QED
    BY <1>3, <2>1 DEF MemoryOK, JobSteps, ExportSteps, CountsType, Counts
<1>9. AccountedOf(j)'
  <2>1. AccountedOf(j) /\ ~Ended(j)
    BY <1>3, AccountedJobs DEF JobsInv, Ended
  <2> QED
    BY <1>3, <1>5, <2>1 DEF AccountedOf, Ended
<1> QED
  BY <1>3, <1>6, <1>7, <1>8, <1>9, JobStepKeeps

LEMMA FinishKeeps ==
  ASSUME JobsInv, NEW h \in Requests, Finish(h)
  PROVE  JobsInv'
<1>1. PICK j, c : j = req[h].job /\ c = req[h].counts
  OBVIOUS
<1>2. /\ j \in Imports /\ j \in AllJobs /\ j \notin Exports /\ status[j] \in {"pending", "processing"}
      /\ req[h].at = "rows" /\ c \in CountsType /\ c.success = created[j]
  BY <1>1, JobsAssumption DEF Finish, JobsInv, MemoryOK, JobSteps, AllJobs
<1>3. /\ req' = [req EXCEPT ![h] = Idle]
      /\ status' = [status EXCEPT ![j] = Outcome(c)]
      /\ counts' = [counts EXCEPT ![j] = c]
      /\ UNCHANGED <<stored, created>>
      /\ c.success + c.failure = RowsOf[j]
  BY <1>1 DEF Finish, Reply, Goes
<1>4. OnlyJob(h, j)
  <2>1. Becomes(h, j, Idle)
    BY <1>3 DEF Becomes, Idle, JobSteps, ExportSteps
  <2> QED
    BY <1>1, <1>2, <1>3, <2>1, JobsAssumption DEF OnlyJob, JobsInv, TablesType, JobSteps, Outcome
<1>5. TablesType'
  BY <1>2, <1>3 DEF JobsInv, TablesType, Outcome
<1>6. MemoryOK(req[h])'
  BY <1>3 DEF JobsInv, TablesType, MemoryOK, Idle, JobSteps, ExportSteps
<1>7. AccountedOf(j)'
  <2>1. status'[j] = Outcome(c) /\ counts'[j] = c /\ created'[j] = c.success
    BY <1>2, <1>3 DEF JobsInv, TablesType
  <2> QED
    BY <1>2, <1>3, <2>1 DEF AccountedOf, Ended, Outcome
<1> QED
  BY <1>2, <1>4, <1>5, <1>6, <1>7, JobStepKeeps

-----------------------------------------------------------------------------
(* Every step keeps the invariant. *)

LEMMA IdleKeeps ==
  ASSUME JobsInv, DOMAIN req' = Requests, \A h \in Requests : req'[h] = Idle, UNCHANGED jobs
  PROVE  JobsInv'
BY DEF JobsInv, TablesType, Alone, Fresh, MemoryOK, JobsAccounted, Ended, Idle, JobSteps, ExportSteps, jobs

LEMMA JobsNext ==
  ASSUME JobsInv, [Next]_vars
  PROVE  JobsInv'
<1>1. ASSUME NEW h \in Requests, NotificationsStart(h) \/ NotificationsStep(h) \/ RunDigest(h) \/ Throws(h),
             UNCHANGED jobs
      PROVE  JobsInv'
  BY <1>1, NotificationsQuiet, QuietKeeps
<1>2. ASSUME NEW h \in Requests, JobsStep(h)
      PROVE  JobsInv'
  BY <1>2, BeginKeeps, ExportKeeps, ImportRowKeeps, FinishKeeps DEF JobsStep
<1>3. CASE Crash /\ UNCHANGED <<inbox, jobs>>
  BY <1>3, IdleKeeps DEF Crash
<1>4. CASE UNCHANGED vars
  BY <1>4 DEF vars, server, jobs, JobsInv, TablesType, Alone, Fresh, MemoryOK, JobsAccounted, Ended
<1> QED
  BY <1>1, <1>2, <1>3, <1>4, CreateJobKeeps DEF Next, Proceed

LEMMA JobsStart ==
  ASSUME Init
  PROVE  JobsInv
<1>1. /\ req = [h \in Requests |-> Idle] /\ status = [j \in AllJobs |-> None]
      /\ counts = [j \in Imports |-> Counts(0, 0)] /\ created = [j \in Imports |-> 0]
  BY DEF Init, ServerInit, JobsInit, AllJobs
<1>2. TablesType
  BY <1>1 DEF TablesType, Counts, CountsType
<1>3. Alone /\ Fresh /\ \A h \in Requests : MemoryOK(req[h])
  BY <1>1 DEF Alone, Fresh, MemoryOK, Idle, JobSteps, ExportSteps
<1>4. JobsAccounted
  BY <1>1, JobsAssumption DEF JobsAccounted, Ended, AllJobs
<1> QED
  BY <1>2, <1>3, <1>4 DEF JobsInv

\* An export that is completed has its file in the storage, and an import that has ended counts
\* exactly the students it created and failed only if it created nobody: for any number of jobs
\* and rows at once, wherever an export fails and whenever the process dies.
THEOREM Accounted == Spec => []JobsAccounted
<1>1. Init => JobsInv
  BY JobsStart
<1>2. JobsInv /\ [Next]_vars => JobsInv'
  BY JobsNext
<1>3. JobsInv => JobsAccounted
  BY DEF JobsInv
<1> QED
  BY <1>1, <1>2, <1>3, PTL DEF Spec

-----------------------------------------------------------------------------
(* The inbox: a row is in the hands of one push at most. *)

RowType == [user : Users, channel : Channels \cup {Default}, delivered : BOOLEAN, read : BOOLEAN]
PushSteps == {"findTokens", "send", "prune", "deliver"}

\* Row i is in a batch that h is pushing or is still to push ...
Holds(h, i) == req[h].at \in PushSteps /\ \E n \in DOMAIN req[h].todo : i \in req[h].todo[n]
\* ... and has been sent, but is not marked yet.
Sent(h, i) == req[h].at \in {"prune", "deliver"} /\ i \in req[h].todo[1]

InboxType ==
  /\ DOMAIN req = Requests /\ deaths \in Nat
  /\ rows \in Seq(RowType) /\ pushed \in Seq(Nat) /\ Len(pushed) = Len(rows)
  /\ preference \in [Users -> Channels \cup {None}]

\* What a request that works on the inbox remembers.
Remembers(m) ==
  /\ "at" \in DOMAIN m
  /\ m.at \in PushSteps =>
       /\ m.todo \in Seq(SUBSET Nat) /\ m.todo # <<>>
       /\ \A n \in DOMAIN m.todo : m.todo[n] \subseteq DOMAIN rows
       /\ \A a, b \in DOMAIN m.todo : a # b => m.todo[a] \cap m.todo[b] = {}
  /\ m.at = "insert" => m.row \in RowType /\ ~m.row.delivered /\ ~m.row.read
  /\ m.at = "saveRead" => /\ m.index \in DOMAIN rows /\ m.row \in RowType
                          /\ m.row.read /\ m.row.channel = rows[m.index].channel
  /\ m.at = "savePreference" => m.user \in Users /\ m.channel \in Channels

\* A digest holds rows of its own channel, everyone else the row it has inserted.
Owned ==
  \A h \in Requests, i \in DOMAIN rows :
    Holds(h, i) => rows[i].channel = "push" \/ (h \in Digests /\ rows[i].channel = h)
Single == \A h, k \in Requests, i \in DOMAIN rows : Holds(h, i) /\ Holds(k, i) => h = k
Unmarked == \A h \in Requests, i \in DOMAIN rows : Holds(h, i) /\ ~rows[i].read => ~rows[i].delivered

\* A row that is neither marked nor sent was pushed for the processes that died.
Counted ==
  \A i \in DOMAIN rows :
    ~rows[i].read =>
      /\ pushed[i] <= 1 + deaths
      /\ ~rows[i].delivered /\ (\A h \in Requests : ~Sent(h, i)) => pushed[i] <= deaths

InboxInv ==
  /\ InboxType /\ Owned /\ Single /\ Unmarked /\ Counted
  /\ \A h \in Requests : Remembers(req[h])

\* The table and the requests that a step leaves alone.
LEMMA OthersRemember ==
  ASSUME InboxInv, NEW h \in Requests, NEW m, req' = [req EXCEPT ![h] = m],
         DOMAIN rows \subseteq DOMAIN rows',
         \A i \in DOMAIN rows : rows'[i].channel = rows[i].channel
  PROVE  /\ DOMAIN req' = Requests /\ req'[h] = m
         /\ \A k \in Requests \ {h} : req'[k] = req[k] /\ Remembers(req[k])'
<1>1. DOMAIN req' = Requests /\ req'[h] = m /\ \A k \in Requests \ {h} : req'[k] = req[k]
  BY DEF InboxInv, InboxType
<1>2. ASSUME NEW k \in Requests \ {h}  PROVE Remembers(req[k])'
  <2>1. Remembers(req[k]) /\ req'[k] = req[k]
    BY <1>1 DEF InboxInv
  <2> QED
    BY <2>1 DEF Remembers
<1> QED
  BY <1>1, <1>2

\* A step on h that leaves the rows what they are, apart from marks, and adds no batch.
LEMMA Handed ==
  ASSUME InboxInv, NEW h \in Requests, NEW m, req' = [req EXCEPT ![h] = m],
         DOMAIN rows' = DOMAIN rows,
         \A i \in DOMAIN rows : rows'[i].channel = rows[i].channel,
         Remembers(m)', \A i \in DOMAIN rows : Holds(h, i)' => Holds(h, i)
  PROVE  Owned' /\ Single' /\ \A k \in Requests : Remembers(req[k])'
<1>1. /\ req'[h] = m
      /\ \A k \in Requests \ {h} : req'[k] = req[k] /\ Remembers(req[k])'
  BY OthersRemember
<1>2. \A k \in Requests, i \in DOMAIN rows : Holds(k, i)' => Holds(k, i)
  BY <1>1 DEF Holds
<1>3. \A k \in Requests : Remembers(req[k])'
  BY <1>1
<1>4. Owned'
  BY <1>2 DEF InboxInv, Owned
<1>5. Single'
  BY <1>2 DEF InboxInv, Single
<1> QED
  BY <1>3, <1>4, <1>5

\* A request that has not sent a batch goes on, without one, and the rows stay.
LEMMA RowsStay ==
  ASSUME InboxInv, NEW h \in Requests, NEW m, req' = [req EXCEPT ![h] = m], deaths' = deaths,
         rows' = rows, pushed' = pushed, preference' \in [Users -> Channels \cup {None}],
         m.at \notin PushSteps, Remembers(m), req[h].at \notin {"prune", "deliver"}
  PROVE  InboxInv'
<1>1. /\ DOMAIN req' = Requests /\ req'[h] = m /\ \A k \in Requests \ {h} : req'[k] = req[k]
  BY OthersRemember
<1>2. Remembers(m)' /\ \A i \in DOMAIN rows : ~Holds(h, i)'
  BY <1>1 DEF Remembers, Holds
<1>3. Owned' /\ Single' /\ \A k \in Requests : Remembers(req[k])'
  BY <1>2, Handed
<1>4. InboxType'
  BY <1>1 DEF InboxInv, InboxType
<1>5. Unmarked'
  BY <1>1, <1>2 DEF InboxInv, Unmarked, Holds
<1>6. \A k \in Requests, i \in DOMAIN rows : Sent(k, i)' <=> Sent(k, i)
  BY <1>1 DEF Sent, PushSteps
<1>7. Counted'
  BY <1>6 DEF InboxInv, Counted
<1> QED
  BY <1>3, <1>4, <1>5, <1>7 DEF InboxInv

\* What a push still holds after its first batch.
LEMMA NextBatch ==
  ASSUME InboxInv, NEW h \in Requests, req[h].at \in PushSteps
  PROVE  LET todo == req[h].todo IN
         /\ todo \in Seq(SUBSET Nat) /\ 1 \in DOMAIN todo
         /\ ~(Len(todo) <= 1) =>
              /\ Remembers(Pushing(Tail(todo))) /\ Pushing(Tail(todo)).at = "findTokens"
              /\ Pushing(Tail(todo)).todo = Tail(todo)
              /\ \A n \in DOMAIN Tail(todo) :
                   n + 1 \in DOMAIN todo /\ Tail(todo)[n] = todo[n + 1] /\ Tail(todo)[n] \cap todo[1] = {}
<1> DEFINE todo == req[h].todo
<1>1. /\ todo \in Seq(SUBSET Nat) /\ todo # <<>>
      /\ \A n \in DOMAIN todo : todo[n] \subseteq DOMAIN rows
      /\ \A a, b \in DOMAIN todo : a # b => todo[a] \cap todo[b] = {}
  BY DEF InboxInv, Remembers
<1> HIDE DEF todo
<1>2. 1 \in DOMAIN todo
  BY <1>1
<1>3. ASSUME ~(Len(todo) <= 1)
      PROVE  /\ Tail(todo) \in Seq(SUBSET Nat) /\ Tail(todo) # <<>>
             /\ \A n \in DOMAIN Tail(todo) :
                  n + 1 \in DOMAIN todo /\ n + 1 # 1 /\ Tail(todo)[n] = todo[n + 1] /\ n \in Nat
  BY <1>1, <1>3
<1>4. ASSUME ~(Len(todo) <= 1)
      PROVE  \A a, b \in DOMAIN Tail(todo) : a # b => Tail(todo)[a] \cap Tail(todo)[b] = {}
  <2> SUFFICES ASSUME NEW a \in DOMAIN Tail(todo), NEW b \in DOMAIN Tail(todo), a # b
               PROVE  Tail(todo)[a] \cap Tail(todo)[b] = {}
    OBVIOUS
  <2>1. a + 1 \in DOMAIN todo /\ b + 1 \in DOMAIN todo /\ a + 1 # b + 1
    BY <1>3, <1>4
  <2> QED
    BY <1>1, <1>3, <1>4, <2>1
<1>5. ASSUME ~(Len(todo) <= 1)
      PROVE  Remembers(Pushing(Tail(todo)))
  <2> DEFINE rest == Tail(todo)
  <2>1. rest \in Seq(SUBSET Nat) /\ rest # <<>> /\ \A n \in DOMAIN rest : rest[n] \subseteq DOMAIN rows
    BY <1>1, <1>3, <1>5
  <2>2. \A a, b \in DOMAIN rest : a # b => rest[a] \cap rest[b] = {}
    BY <1>4, <1>5
  <2> HIDE DEF rest
  <2> QED
    BY <2>1, <2>2 DEF Remembers, Pushing, rest
<1>6. ASSUME ~(Len(todo) <= 1)
      PROVE  \A n \in DOMAIN Tail(todo) : Tail(todo)[n] \cap todo[1] = {}
  BY <1>1, <1>2, <1>3, <1>6
<1> QED
  BY <1>1, <1>2, <1>3, <1>5, <1>6 DEF todo, Pushing

LEMMA IdleRemembers == Remembers(Idle) /\ Idle.at = "idle" /\ Idle.at \notin PushSteps
BY DEF Remembers, Idle, PushSteps

LEMMA FindTokensInbox ==
  ASSUME InboxInv, NEW h \in Requests, FindTokens(h)
  PROVE  InboxInv'
<1> DEFINE todo == req[h].todo
           tokens == DevicesOf(UserOfBatch(req[h].todo[1]))
<1>1. /\ req[h].at = "findTokens" /\ req[h].at \in PushSteps
      /\ UNCHANGED <<rows, pushed, preference, owner, deaths>>
      /\ \E m : req' = [req EXCEPT ![h] = m]
  BY DEF FindTokens, inbox, PushSteps, Skip, PushNext, Reply, Goes
<1>2. PICK m : /\ req' = [req EXCEPT ![h] = m]
               /\ \/ m = Idle
                  \/ m = [at |-> "send", todo |-> todo, tokens |-> tokens]
                  \/ ~(Len(todo) <= 1) /\ m = Pushing(Tail(todo))
  BY DEF FindTokens, Skip, PushNext, Reply, Goes
<1>3. preference' \in [Users -> Channels \cup {None}]
  BY <1>1 DEF InboxInv, InboxType
<1>4. CASE m = Idle
  BY <1>1, <1>2, <1>3, <1>4, IdleRemembers, RowsStay
<1>5. CASE m # Idle
  <2>1. /\ Remembers(m) /\ m.at \in {"findTokens", "send"}
        /\ \A n \in DOMAIN m.todo : \E k \in DOMAIN todo : m.todo[n] = todo[k]
    <3>1. CASE m = Pushing(Tail(todo)) /\ ~(Len(todo) <= 1)
      <4>1. /\ Remembers(m) /\ m.at = "findTokens" /\ m.todo = Tail(todo)
            /\ \A n \in DOMAIN Tail(todo) : n + 1 \in DOMAIN todo /\ Tail(todo)[n] = todo[n + 1]
        BY <1>1, <3>1, NextBatch
      <4> QED
        BY <4>1
    <3>2. CASE m = [at |-> "send", todo |-> todo, tokens |-> tokens]
      <4>1. Remembers(req[h])
        BY DEF InboxInv
      <4> HIDE DEF tokens
      <4>2. m.at = "send" /\ m.todo = todo /\ DOMAIN m = {"at", "todo", "tokens"}
        BY <3>2
      <4> QED
        BY <1>1, <4>1, <4>2 DEF Remembers, PushSteps
    <3> QED
      BY <1>2, <1>5, <3>1, <3>2
  <2>2. DOMAIN req' = Requests /\ req'[h] = m /\ \A k \in Requests \ {h} : req'[k] = req[k]
    BY <1>1, <1>2, OthersRemember
  <2>3. Remembers(m)' /\ \A i \in DOMAIN rows : Holds(h, i)' => Holds(h, i)
    BY <1>1, <2>1, <2>2 DEF Remembers, Holds
  <2>4. Owned' /\ Single' /\ \A k \in Requests : Remembers(req[k])'
    BY <1>1, <1>2, <2>3, Handed
  <2>5. InboxType'
    BY <1>1, <2>2 DEF InboxInv, InboxType
  <2>6. Unmarked'
    BY <1>1, <2>2, <2>3 DEF InboxInv, Unmarked, Holds
  <2>7. \A k \in Requests, i \in DOMAIN rows : Sent(k, i)' <=> Sent(k, i)
    BY <1>1, <2>1, <2>2 DEF Sent
  <2>8. Counted'
    BY <1>1, <2>7 DEF InboxInv, Counted
  <2> QED
    BY <2>4, <2>5, <2>6, <2>8 DEF InboxInv
<1> QED
  BY <1>4, <1>5

\* A mark changes nothing else of a row.
LEMMA RowMarked ==
  ASSUME NEW r \in RowType
  PROVE  /\ [r EXCEPT !.delivered = TRUE] \in RowType /\ [r EXCEPT !.delivered = TRUE].delivered
         /\ [r EXCEPT !.delivered = TRUE].read = r.read
         /\ [r EXCEPT !.delivered = TRUE].channel = r.channel
         /\ [r EXCEPT !.read = TRUE] \in RowType /\ [r EXCEPT !.read = TRUE].read
         /\ [r EXCEPT !.read = TRUE].channel = r.channel
BY DEF RowType

\* A function of the rows is a sequence like them.
LEMMA RowsMapped ==
  ASSUME NEW S, NEW s \in Seq(S), NEW T, NEW f, DOMAIN f = DOMAIN s, \A i \in DOMAIN s : f[i] \in T,
         f = [i \in DOMAIN s |-> f[i]]
  PROVE  f \in Seq(T) /\ Len(f) = Len(s)
<1>1. Len(s) \in Nat /\ DOMAIN s = 1..Len(s)
  OBVIOUS
<1>2. f \in [1..Len(s) -> T]
  BY <1>1
<1> QED
  BY <1>1, <1>2, SeqDef, LenProperties

\* Send counts rows that nobody else holds, are not marked and have not been sent before.
LEMMA SendInbox ==
  ASSUME InboxInv, NEW h \in Requests, Send(h)
  PROVE  InboxInv'
<1> DEFINE todo == req[h].todo
           batch == req[h].todo[1]
<1>1. /\ req[h].at = "send" /\ req[h].at \in PushSteps
      /\ UNCHANGED <<rows, preference, owner, deaths>>
      /\ pushed' = [i \in DOMAIN pushed |-> IF i \in batch THEN pushed[i] + 1 ELSE pushed[i]]
  BY DEF Send, PushSteps, Goes
<1>2. PICK invalid : req' = [req EXCEPT ![h] = [at |-> "prune", todo |-> todo, invalid |-> invalid]]
  BY DEF Send, Goes
<1>3. PICK m : m = [at |-> "prune", todo |-> todo, invalid |-> invalid]
  OBVIOUS
<1>4. /\ req' = [req EXCEPT ![h] = m]
      /\ m.at = "prune" /\ m.todo = todo /\ DOMAIN m = {"at", "todo", "invalid"}
  BY <1>2, <1>3
<1>5. DOMAIN req' = Requests /\ req'[h] = m /\ \A k \in Requests \ {h} : req'[k] = req[k]
  BY <1>1, <1>4, OthersRemember
<1>6. Remembers(m)' /\ \A i \in DOMAIN rows : Holds(h, i)' => Holds(h, i)
  <2>1. Remembers(req[h])
    BY DEF InboxInv
  <2>2. Remembers(m)
    BY <1>1, <1>4, <2>1 DEF Remembers, PushSteps
  <2>3. Remembers(m)'
    BY <1>1, <2>2 DEF Remembers
  <2>4. \A i \in DOMAIN rows : Holds(h, i)' => Holds(h, i)
    BY <1>1, <1>4, <1>5 DEF Holds
  <2> QED
    BY <2>3, <2>4
<1>7. Owned' /\ Single' /\ \A k \in Requests : Remembers(req[k])'
  BY <1>1, <1>4, <1>6, Handed
<1>8. /\ DOMAIN pushed = DOMAIN rows /\ \A i \in DOMAIN rows : pushed[i] \in Nat
      /\ deaths \in Nat
  BY DEF InboxInv, InboxType
<1>9. InboxType'
  <2>1. pushed' \in Seq(Nat) /\ Len(pushed') = Len(pushed)
    <3>1. \A i \in DOMAIN pushed : pushed'[i] \in Nat
      BY <1>1, <1>8
    <3>2. DOMAIN pushed' = DOMAIN pushed /\ pushed' = [i \in DOMAIN pushed |-> pushed'[i]]
      BY <1>1
    <3>3. pushed \in Seq(Nat)
      BY DEF InboxInv, InboxType
    <3> QED
      BY <3>1, <3>2, <3>3, RowsMapped
  <2> QED
    BY <1>1, <1>5, <2>1 DEF InboxInv, InboxType
<1>10. Unmarked'
  BY <1>1, <1>5, <1>6 DEF InboxInv, Unmarked, Holds
<1>11. Counted'
  <2> SUFFICES ASSUME NEW i \in DOMAIN rows, ~rows[i].read
               PROVE  /\ pushed'[i] <= 1 + deaths
                      /\ ~rows[i].delivered /\ (\A k \in Requests : ~Sent(k, i)') => pushed'[i] <= deaths
    BY <1>1 DEF Counted
  <2>1. CASE i \in batch
    <3>1. Holds(h, i) /\ 1 \in DOMAIN todo
      BY <1>1, <2>1, NextBatch DEF Holds
    <3>2. ~rows[i].delivered /\ \A k \in Requests : ~Sent(k, i)
      <4>1. ~rows[i].delivered
        BY <3>1 DEF InboxInv, Unmarked
      <4>2. ASSUME NEW k \in Requests, Sent(k, i)  PROVE FALSE
        <5>1. req[k].at \in PushSteps /\ i \in req[k].todo[1]
          BY <4>2 DEF Sent, PushSteps
        <5>2. Holds(k, i)
          BY <5>1, NextBatch DEF Holds
        <5>3. k = h
          BY <3>1, <5>2 DEF InboxInv, Single
        <5> QED
          BY <1>1, <4>2, <5>3 DEF Sent
      <4> QED
        BY <4>1, <4>2
    <3>3. pushed[i] <= deaths
      BY <3>2 DEF InboxInv, Counted
    <3>4. Sent(h, i)'
      BY <1>4, <1>5, <2>1 DEF Sent
    <3> QED
      BY <1>1, <1>8, <2>1, <3>3, <3>4
  <2>2. CASE i \notin batch
    <3>1. pushed'[i] = pushed[i]
      BY <1>1, <1>8, <2>2
    <3>2. \A k \in Requests : Sent(k, i)' <=> Sent(k, i)
      BY <1>1, <1>4, <1>5, <2>2 DEF Sent
    <3> QED
      BY <3>1, <3>2 DEF InboxInv, Counted
  <2> QED
    BY <2>1, <2>2
<1> QED
  BY <1>7, <1>9, <1>10, <1>11 DEF InboxInv

LEMMA PruneInbox ==
  ASSUME InboxInv, NEW h \in Requests, Prune(h)
  PROVE  InboxInv'
<1> DEFINE todo == req[h].todo
<1>0. PICK m : m = [at |-> "deliver", todo |-> todo]
  OBVIOUS
<1>1. /\ req[h].at = "prune" /\ req[h].at \in PushSteps
      /\ UNCHANGED <<rows, pushed, preference, deaths>> /\ req' = [req EXCEPT ![h] = m]
  BY <1>0 DEF Prune, PushSteps, Goes
<1>2. m.at = "deliver" /\ m.todo = todo /\ DOMAIN m = {"at", "todo"}
  BY <1>0
<1>3. DOMAIN req' = Requests /\ req'[h] = m /\ \A k \in Requests \ {h} : req'[k] = req[k]
  BY <1>1, OthersRemember
<1>4. Remembers(m)' /\ \A i \in DOMAIN rows : Holds(h, i)' => Holds(h, i)
  <2>1. Remembers(req[h])
    BY DEF InboxInv
  <2>2. Remembers(m)
    BY <1>1, <1>2, <2>1 DEF Remembers, PushSteps
  <2>3. Remembers(m)'
    BY <1>1, <2>2 DEF Remembers
  <2>4. \A i \in DOMAIN rows : Holds(h, i)' => Holds(h, i)
    BY <1>1, <1>2, <1>3 DEF Holds
  <2> QED
    BY <2>3, <2>4
<1>5. Owned' /\ Single' /\ \A k \in Requests : Remembers(req[k])'
  BY <1>1, <1>4, Handed
<1>6. InboxType'
  BY <1>1, <1>3 DEF InboxInv, InboxType
<1>7. Unmarked'
  BY <1>1, <1>3, <1>4 DEF InboxInv, Unmarked, Holds
<1>8. \A k \in Requests, i \in DOMAIN rows : Sent(k, i)' <=> Sent(k, i)
  BY <1>1, <1>2, <1>3 DEF Sent
<1>9. Counted'
  BY <1>1, <1>8 DEF InboxInv, Counted
<1> QED
  BY <1>5, <1>6, <1>7, <1>9 DEF InboxInv

\* Deliver marks the batch, and h no longer holds a row of it.
LEMMA DeliverInbox ==
  ASSUME InboxInv, NEW h \in Requests, Deliver(h)
  PROVE  InboxInv'
<1> DEFINE todo == req[h].todo
           batch == req[h].todo[1]
<1>1. /\ req[h].at = "deliver" /\ req[h].at \in PushSteps
      /\ UNCHANGED <<pushed, preference, owner, deaths>>
      /\ rows' = [i \in DOMAIN rows |-> IF i \in batch THEN [rows[i] EXCEPT !.delivered = TRUE] ELSE rows[i]]
  BY DEF Deliver, Delivered, PushSteps, PushNext, Reply, Goes
<1>2. PICK m : /\ req' = [req EXCEPT ![h] = m]
               /\ m = Idle \/ (~(Len(todo) <= 1) /\ m = Pushing(Tail(todo)))
  BY DEF Deliver, PushNext, Reply, Goes
<1>3. /\ DOMAIN rows' = DOMAIN rows
      /\ \A i \in DOMAIN rows :
           /\ rows[i] \in RowType /\ rows'[i] \in RowType
           /\ rows'[i].channel = rows[i].channel /\ rows'[i].read = rows[i].read
           /\ i \in batch => rows'[i].delivered
           /\ i \notin batch => rows'[i] = rows[i]
  <2>1. \A i \in DOMAIN rows : rows[i] \in RowType
    BY DEF InboxInv, InboxType
  <2> QED
    BY <1>1, <2>1, RowMarked
<1>4. DOMAIN req' = Requests /\ req'[h] = m /\ \A k \in Requests \ {h} : req'[k] = req[k]
  BY <1>2, <1>3, OthersRemember
\* What h still holds is not of the batch.
<1>5. Remembers(m)' /\ \A i \in DOMAIN rows : Holds(h, i)' => Holds(h, i) /\ i \notin batch
  <2>1. CASE m = Idle
    BY <2>1, <1>4, IdleRemembers DEF Remembers, Holds, Idle, PushSteps
  <2>2. CASE m = Pushing(Tail(todo)) /\ ~(Len(todo) <= 1)
    <3>1. /\ Remembers(m) /\ m.at = "findTokens" /\ m.todo = Tail(todo)
          /\ \A n \in DOMAIN Tail(todo) :
               n + 1 \in DOMAIN todo /\ Tail(todo)[n] = todo[n + 1] /\ Tail(todo)[n] \cap todo[1] = {}
      BY <1>1, <2>2, NextBatch
    <3>2. Remembers(m)'
      BY <1>3, <3>1 DEF Remembers
    <3>3. \A i \in DOMAIN rows : Holds(h, i)' => Holds(h, i) /\ i \notin batch
      BY <1>1, <1>4, <3>1 DEF Holds
    <3> QED
      BY <3>2, <3>3
  <2> QED
    BY <1>2, <2>1, <2>2
<1>6. Owned' /\ Single' /\ \A k \in Requests : Remembers(req[k])'
  BY <1>2, <1>3, <1>5, Handed
<1>7. InboxType'
  <2>1. rows' \in Seq(RowType) /\ Len(rows') = Len(rows)
    <3>1. rows \in Seq(RowType) /\ rows' = [i \in DOMAIN rows |-> rows'[i]]
      BY <1>1 DEF InboxInv, InboxType
    <3> QED
      BY <1>3, <3>1, RowsMapped
  <2> QED
    BY <1>1, <1>4, <2>1 DEF InboxInv, InboxType
\* Nobody else holds a row of the batch.
<1>8. ASSUME NEW i \in DOMAIN rows, i \in batch  PROVE \A k \in Requests : Holds(k, i) => k = h
  <2>1. Holds(h, i)
    BY <1>1, <1>8, NextBatch DEF Holds
  <2> QED
    BY <2>1 DEF InboxInv, Single
<1>9. Unmarked'
  <2> SUFFICES ASSUME NEW k \in Requests, NEW i \in DOMAIN rows, Holds(k, i)', ~rows'[i].read
               PROVE  ~rows'[i].delivered
    BY <1>3 DEF Unmarked
  <2>1. Holds(k, i)
    BY <1>4, <1>5 DEF Holds
  <2>2. i \notin batch
    BY <1>5, <1>8, <2>1
  <2> QED
    BY <1>3, <2>1, <2>2 DEF InboxInv, Unmarked
<1>10. Counted'
  <2> SUFFICES ASSUME NEW i \in DOMAIN rows, ~rows[i].read
               PROVE  /\ pushed[i] <= 1 + deaths
                      /\ ~rows'[i].delivered /\ (\A k \in Requests : ~Sent(k, i)') => pushed[i] <= deaths
    BY <1>1, <1>3 DEF Counted
  <2>1. pushed[i] <= 1 + deaths
    BY DEF InboxInv, Counted
  <2>2. CASE i \notin batch
    <3>1. \A k \in Requests : Sent(k, i) => Sent(k, i)'
      BY <1>1, <1>4, <2>2 DEF Sent
    <3> QED
      BY <1>3, <2>2, <3>1 DEF InboxInv, Counted
  <2> QED
    BY <1>3, <2>1, <2>2
<1> QED
  BY <1>6, <1>7, <1>9, <1>10 DEF InboxInv

\* Insert adds a row that nobody holds, and may go on to push it.
LEMMA InsertInbox ==
  ASSUME InboxInv, NEW h \in Requests, Insert(h)
  PROVE  InboxInv'
<1> DEFINE new == Len(rows) + 1
<1>1. PICK row, m :
        /\ row = req[h].row /\ req[h].at = "insert"
        /\ rows' = Append(rows, row) /\ pushed' = Append(pushed, 0)
        /\ req' = [req EXCEPT ![h] = m] /\ deaths' = deaths /\ preference' = preference
        /\ m = Idle \/ (row.channel = "push" /\ m = Pushing(<<{new}>>))
  BY DEF Insert, Reply, Goes
<1>2. row \in RowType /\ ~row.delivered /\ ~row.read
  BY <1>1 DEF InboxInv, Remembers
<1>3. /\ rows \in Seq(RowType) /\ pushed \in Seq(Nat) /\ Len(pushed) = Len(rows) /\ deaths \in Nat
      /\ Len(rows) \in Nat /\ DOMAIN rows = 1..Len(rows) /\ DOMAIN pushed = DOMAIN rows
  BY DEF InboxInv, InboxType
<1>4. /\ DOMAIN rows' = DOMAIN rows \cup {new} /\ new \notin DOMAIN rows
      /\ rows'[new] = row /\ pushed'[new] = 0
      /\ \A i \in DOMAIN rows : rows'[i] = rows[i] /\ pushed'[i] = pushed[i] /\ pushed[i] \in Nat
  BY <1>1, <1>2, <1>3
<1>5. rows' \in Seq(RowType) /\ pushed' \in Seq(Nat) /\ Len(pushed') = Len(rows')
  BY <1>1, <1>2, <1>3
<1>6. /\ DOMAIN req' = Requests /\ req'[h] = m
      /\ \A k \in Requests \ {h} : req'[k] = req[k] /\ Remembers(req[k])'
  BY <1>1, <1>4, OthersRemember
<1> HIDE DEF new
<1>7. /\ Remembers(m)' /\ m.at \in {"idle", "findTokens"}
      /\ \A i \in DOMAIN rows' : Holds(h, i)' => i = new /\ row.channel = "push"
  <2>1. CASE m = Idle
    BY <1>6, <2>1, IdleRemembers DEF Remembers, Holds, Idle, PushSteps
  <2>2. CASE m = Pushing(<<{new}>>) /\ row.channel = "push"
    <3>1. m.at = "findTokens" /\ m.todo = <<{new}>> /\ DOMAIN m = {"at", "todo"}
      BY <2>2 DEF Pushing
    <3>2. new \in Nat
      BY <1>3 DEF new
    <3>3. /\ <<{new}>> \in Seq(SUBSET Nat) /\ <<{new}>> # <<>> /\ DOMAIN <<{new}>> = {1}
          /\ <<{new}>>[1] = {new}
      BY <3>2
    <3>4. Remembers(m)'
      BY <1>4, <3>1, <3>3 DEF Remembers
    <3>5. \A i \in DOMAIN rows' : Holds(h, i)' => i = new
      BY <1>6, <3>1, <3>3 DEF Holds
    <3> QED
      BY <2>2, <3>1, <3>4, <3>5
  <2> QED
    BY <1>1, <2>1, <2>2
\* What the others hold they held before, and it is no new row.
<1>8. \A k \in Requests \ {h} : \A i \in DOMAIN rows' :
        (Holds(k, i)' <=> Holds(k, i)) /\ (Holds(k, i) => i \in DOMAIN rows)
  BY <1>6 DEF InboxInv, Remembers, Holds
<1>9. Owned'
  BY <1>4, <1>7, <1>8 DEF InboxInv, Owned
<1>10. Single'
  BY <1>4, <1>7, <1>8 DEF InboxInv, Single
<1>11. Unmarked'
  BY <1>2, <1>4, <1>7, <1>8 DEF InboxInv, Unmarked
<1>12. Counted'
  <2>1. \A k \in Requests, i \in DOMAIN rows : Sent(k, i)' <=> Sent(k, i)
    BY <1>1, <1>6, <1>7 DEF Sent
  <2>2. ASSUME NEW i \in DOMAIN rows, ~rows[i].read
        PROVE  /\ pushed'[i] <= 1 + deaths
               /\ ~rows[i].delivered /\ (\A k \in Requests : ~Sent(k, i)') => pushed'[i] <= deaths
    BY <1>4, <2>1, <2>2 DEF InboxInv, Counted
  <2> QED
    BY <1>1, <1>3, <1>4, <2>2 DEF Counted
<1>13. \A k \in Requests : Remembers(req[k])'
  BY <1>6, <1>7
<1>14. InboxType'
  BY <1>1, <1>5, <1>6 DEF InboxInv, InboxType
<1> QED
  BY <1>9, <1>10, <1>11, <1>12, <1>13, <1>14 DEF InboxInv

\* The batches of a digest are apart, and of rows of its channel that are not delivered.
LEMMA BatchesListed ==
  ASSUME InboxInv, NEW h, Pending(h) # {}, NEW todo \in SetToSeqs(Batches(h))
  PROVE  /\ todo \in Seq(SUBSET Nat) /\ todo # <<>>
         /\ \A n \in DOMAIN todo : todo[n] \subseteq Pending(h)
         /\ \A a, b \in DOMAIN todo : a # b => todo[a] \cap todo[b] = {}
<1>1. rows \in Seq(RowType) /\ DOMAIN rows = 1..Len(rows) /\ Len(rows) \in Nat
  BY DEF InboxInv, InboxType
<1>2. Batches(h) # {}
  <2>1. PICK i \in Pending(h) : TRUE
    OBVIOUS
  <2>2. i \in DOMAIN rows /\ rows[i].user \in Users
    <3>1. i \in DOMAIN rows /\ rows[i] \in RowType
      BY <1>1 DEF Pending
    <3> QED
      BY <3>1 DEF RowType
  <2>3. i \in {j \in Pending(h) : rows[j].user = rows[i].user}
    OBVIOUS
  <2> QED
    BY <2>2, <2>3 DEF Batches
<1>3. \A B \in Batches(h) : B \subseteq Pending(h) /\ B \subseteq DOMAIN rows /\ B \subseteq Nat
  BY <1>1 DEF Batches, Pending
<1>4. \A B, C \in Batches(h) : B # C => B \cap C = {}
  BY DEF Batches
<1>5. IsFiniteSet(Batches(h)) /\ Cardinality(Batches(h)) \in Nat /\ Cardinality(Batches(h)) # 0
  <2>1. IsFiniteSet(DOMAIN rows)
    BY <1>1, FS_Interval
  <2>2. IsFiniteSet(SUBSET (DOMAIN rows))
    BY <2>1, FS_SUBSET
  <2>3. Batches(h) \subseteq SUBSET (DOMAIN rows)
    BY <1>3
  <2>4. IsFiniteSet(Batches(h))
    BY <2>2, <2>3, FS_Subset
  <2> QED
    BY <1>2, <2>4, FS_CardinalityType, FS_EmptySet
<1>6. /\ todo \in [1..Cardinality(Batches(h)) -> Batches(h)]
      /\ \A a, b \in 1..Cardinality(Batches(h)) : a # b => todo[a] # todo[b]
  BY DEF SetToSeqs
<1>7. DOMAIN todo = 1..Cardinality(Batches(h)) /\ 1 \in DOMAIN todo /\ todo \in Seq(SUBSET Nat)
  BY <1>3, <1>5, <1>6
<1>8. todo # <<>>
  <2>1. DOMAIN todo = 1..Len(todo) /\ Len(todo) \in Nat
    BY <1>7, LenProperties
  <2>2. 1 \in 1..Len(todo)
    BY <1>7, <2>1, Zenon
  <2> QED
    BY <2>2
<1> QED
  BY <1>3, <1>4, <1>6, <1>7, <1>8

LEMMA RunDigestInbox ==
  ASSUME InboxInv, NEW h \in Requests, RunDigest(h)
  PROVE  InboxInv'
<1>1. PICK todo \in SetToSeqs(Batches(h)) :
        /\ h \in Digests /\ req[h] = Idle /\ Pending(h) # {}
        /\ req' = [req EXCEPT ![h] = Pushing(todo)]
        /\ UNCHANGED <<rows, pushed, preference, deaths>>
  BY DEF RunDigest, Goes, inbox
<1>2. /\ todo \in Seq(SUBSET Nat) /\ todo # <<>>
      /\ \A n \in DOMAIN todo : todo[n] \subseteq Pending(h)
      /\ \A a, b \in DOMAIN todo : a # b => todo[a] \cap todo[b] = {}
  BY <1>1, BatchesListed
<1>3. PICK m : m = Pushing(todo)
  OBVIOUS
<1>4. m.at = "findTokens" /\ m.todo = todo /\ DOMAIN m = {"at", "todo"}
  BY <1>3 DEF Pushing
<1>5. DOMAIN req' = Requests /\ req'[h] = m /\ \A k \in Requests \ {h} : req'[k] = req[k] /\ Remembers(req[k])'
  BY <1>1, <1>3, OthersRemember
<1>6. Remembers(m)'
  BY <1>1, <1>2, <1>4 DEF Remembers, Pending
<1>7. \A i \in DOMAIN rows : Holds(h, i)' => rows[i].channel = h /\ ~rows[i].delivered
  BY <1>2, <1>4, <1>5 DEF Holds, Pending
<1>8. \A k \in Requests \ {h}, i \in DOMAIN rows : Holds(k, i)' <=> Holds(k, i)
  BY <1>5 DEF Holds
\* The rows of the channel are in nobody's hands: its last run is over.
<1>9. \A k \in Requests \ {h}, i \in DOMAIN rows : Holds(k, i) => rows[i].channel # h
  BY <1>1, NotificationsAssumption DEF InboxInv, Owned
<1>10. Owned'
  BY <1>1, <1>7, <1>8 DEF InboxInv, Owned
<1>11. Single'
  BY <1>1, <1>7, <1>8, <1>9 DEF InboxInv, Single
<1>12. Unmarked'
  BY <1>1, <1>7, <1>8 DEF InboxInv, Unmarked
<1>13. \A k \in Requests, i \in DOMAIN rows : Sent(k, i)' <=> Sent(k, i)
  BY <1>1, <1>4, <1>5, IdleRemembers DEF Sent
<1>14. Counted'
  BY <1>1, <1>13 DEF InboxInv, Counted
<1>15. InboxType'
  BY <1>1, <1>5 DEF InboxInv, InboxType
<1> QED
  BY <1>5, <1>6, <1>10, <1>11, <1>12, <1>14, <1>15 DEF InboxInv

\* SaveRead and MarkAllRead change rows that are read afterwards.
LEMMA ReadInbox ==
  ASSUME InboxInv, NEW h \in Requests, SaveRead(h) \/ MarkAllRead(h)
  PROVE  InboxInv'
<1>0. rows \in Seq(RowType) /\ \A i \in DOMAIN rows : rows[i] \in RowType
  BY DEF InboxInv, InboxType
<1>1. /\ UNCHANGED <<pushed, preference, deaths>> /\ req' = [req EXCEPT ![h] = Idle]
      /\ req[h].at \notin PushSteps
  BY IdleRemembers DEF SaveRead, MarkAllRead, Start, Reply, Goes, Arrives, PushSteps
<1>2. /\ rows' = [i \in DOMAIN rows |-> rows'[i]]
      /\ \A i \in DOMAIN rows : /\ rows'[i] \in RowType /\ rows'[i].channel = rows[i].channel
                                /\ rows'[i] = rows[i] \/ rows'[i].read
  <2>1. CASE SaveRead(h)
    <3>1. /\ req[h].index \in DOMAIN rows /\ req[h].row \in RowType
          /\ req[h].row.read /\ req[h].row.channel = rows[req[h].index].channel
      BY <2>1 DEF InboxInv, Remembers, SaveRead
    <3>2. rows' = [rows EXCEPT ![req[h].index] = req[h].row]
      BY <2>1 DEF SaveRead
    <3> QED
      BY <1>0, <3>1, <3>2
  <2>2. CASE MarkAllRead(h)
    <3>1. PICK u : rows' = [i \in DOMAIN rows |-> IF rows[i].user = u THEN [rows[i] EXCEPT !.read = TRUE] ELSE rows[i]]
      BY <2>2 DEF MarkAllRead
    <3> QED
      BY <1>0, <3>1, RowMarked
  <2> QED
    BY <2>1, <2>2
<1>3. DOMAIN rows' = DOMAIN rows /\ rows' \in Seq(RowType) /\ Len(rows') = Len(rows)
  <2>1. DOMAIN rows' = DOMAIN rows
    BY <1>2
  <2> QED
    BY <1>0, <1>2, <2>1, RowsMapped
<1>4. DOMAIN req' = Requests /\ req'[h] = Idle /\ \A k \in Requests \ {h} : req'[k] = req[k]
  BY <1>1, <1>2, <1>3, OthersRemember
<1>5. Remembers(Idle)' /\ \A i \in DOMAIN rows : ~Holds(h, i)'
  BY <1>4, IdleRemembers DEF Remembers, Holds, Idle, PushSteps
<1>6. Owned' /\ Single' /\ \A k \in Requests : Remembers(req[k])'
  BY <1>1, <1>2, <1>3, <1>5, Handed
<1>7. InboxType'
  BY <1>1, <1>3, <1>4 DEF InboxInv, InboxType
<1>8. \A k \in Requests, i \in DOMAIN rows : (Sent(k, i)' <=> Sent(k, i)) /\ (Holds(k, i)' => Holds(k, i))
  BY <1>1, <1>4, <1>5, IdleRemembers DEF Sent, Holds, PushSteps
<1>9. Unmarked'
  BY <1>2, <1>3, <1>8 DEF InboxInv, Unmarked
<1>10. Counted'
  BY <1>1, <1>2, <1>3, <1>8 DEF InboxInv, Counted
<1> QED
  BY <1>6, <1>7, <1>9, <1>10 DEF InboxInv

\* The steps that change no row.
LEMMA QuietInbox ==
  ASSUME InboxInv, NEW h \in Requests,
         \/ Notify(h) \/ MarkRead(h) \/ UpdatePreference(h) \/ RegisterDevice(h)
         \/ DeleteAccount(h) \/ SavePreference(h) \/ SaveDevice(h)
  PROVE  InboxInv'
<1> USE DEF Goes, Start, Reply, PushSteps
<1>0. /\ preference \in [Users -> Channels \cup {None}] /\ \A i \in DOMAIN rows : rows[i] \in RowType
      /\ \A k \in Requests : req[k] = Idle => req[k].at \notin {"prune", "deliver"}
  BY IdleRemembers DEF InboxInv, InboxType
<1>1. CASE Notify(h)
  <2>0. PICK u \in Users :
          /\ req[h] = Idle /\ UNCHANGED <<rows, pushed, preference, deaths>>
          /\ req' = [req EXCEPT ![h] = [at |-> "insert", row |-> Notification(u, ResolveChannel(u))]]
    BY <1>1 DEF Notify, Arrives, inbox
  <2>1. PICK m : /\ req' = [req EXCEPT ![h] = m]
                 /\ m = [at |-> "insert", row |-> Notification(u, ResolveChannel(u))]
    BY <2>0
  <2>2. Notification(u, ResolveChannel(u)) \in RowType
    BY <1>0 DEF Notification, ResolveChannel, RowType
  <2>3. Remembers(m) /\ m.at \notin PushSteps
    BY <2>1, <2>2 DEF Remembers, Notification
  <2> QED
    BY <1>0, <2>0, <2>1, <2>3, RowsStay
<1>2. CASE MarkRead(h)
  <2>0. PICK i \in DOMAIN rows :
          /\ req[h] = Idle /\ UNCHANGED <<rows, pushed, preference, deaths>>
          /\ req' = [req EXCEPT ![h] = [at |-> "saveRead", index |-> i, row |-> [rows[i] EXCEPT !.read = TRUE]]]
    BY <1>2 DEF MarkRead, Arrives, inbox
  <2>1. PICK m : /\ req' = [req EXCEPT ![h] = m]
                 /\ m = [at |-> "saveRead", index |-> i, row |-> [rows[i] EXCEPT !.read = TRUE]]
    BY <2>0
  <2>2. PICK row : row = [rows[i] EXCEPT !.read = TRUE]
    OBVIOUS
  <2>3. row \in RowType /\ row.read /\ row.channel = rows[i].channel
    BY <1>0, <2>2, RowMarked
  <2>4. Remembers(m) /\ m.at \notin PushSteps
    BY <2>1, <2>2, <2>3 DEF Remembers
  <2> QED
    BY <1>0, <2>0, <2>1, <2>4, RowsStay
<1>3. CASE UpdatePreference(h) \/ RegisterDevice(h)
  <2>1. PICK m :
          /\ req[h] = Idle /\ req' = [req EXCEPT ![h] = m] /\ UNCHANGED <<rows, pushed, preference, deaths>>
          /\ \/ \E u \in Users, channel \in Channels, found \in BOOLEAN :
                  m = [at |-> "savePreference", user |-> u, channel |-> channel, found |-> found]
             \/ \E u \in Users, d \in Devices, found \in BOOLEAN :
                  m = [at |-> "saveDevice", user |-> u, device |-> d, found |-> found]
    <3>1. CASE UpdatePreference(h)
      BY <3>1 DEF UpdatePreference, Arrives, inbox
    <3>2. CASE RegisterDevice(h)
      BY <3>2 DEF RegisterDevice, Arrives, inbox
    <3> QED
      BY <1>3, <3>1, <3>2
  <2>2. Remembers(m) /\ m.at \notin PushSteps
    BY <2>1 DEF Remembers
  <2> QED
    BY <1>0, <2>1, <2>2, RowsStay
<1>4. CASE SavePreference(h) \/ SaveDevice(h)
  <2>1. /\ req[h].at \in {"savePreference", "saveDevice"}
        /\ req' = [req EXCEPT ![h] = Idle] /\ UNCHANGED <<rows, pushed, deaths>>
    BY <1>4 DEF SavePreference, SaveDevice
  <2>2. preference' \in [Users -> Channels \cup {None}]
    BY <1>0, <1>4 DEF SavePreference, SaveDevice, InboxInv, Remembers
  <2> QED
    BY <2>1, <2>2, IdleRemembers, RowsStay
<1>5. CASE DeleteAccount(h)
  <2>1. /\ req[h] = Idle /\ req' = [req EXCEPT ![h] = Idle]
        /\ UNCHANGED <<rows, preference, pushed, deaths>>
    BY <1>5 DEF DeleteAccount, Arrives
  <2> QED
    BY <1>0, <2>1, IdleRemembers, RowsStay
<1> QED
  BY <1>1, <1>2, <1>3, <1>4, <1>5

LEMMA InboxStep ==
  ASSUME InboxInv, NEW h \in Requests, NotificationsStart(h) \/ NotificationsStep(h) \/ RunDigest(h)
  PROVE  InboxInv'
BY QuietInbox, InsertInbox, FindTokensInbox, SendInbox, PruneInbox, DeliverInbox, ReadInbox, RunDigestInbox
   DEF NotificationsStart, NotificationsStep

\* A step that works on a job leaves the request at a job, or idle.
LEMMA JobsRequest ==
  ASSUME JobsInv, NEW h \in Requests, CreateJob(h) \/ JobsStep(h)
  PROVE  /\ \E m : /\ req' = [req EXCEPT ![h] = m] /\ "at" \in DOMAIN m /\ m.at \in JobSteps \cup {"idle"}
         /\ req[h].at \in JobSteps \cup {"idle"} /\ deaths' = deaths
<1> USE DEF Goes, Start, Reply, JobSteps, ExportSteps
<1>1. CASE CreateJob(h)
  <2>1. PICK j, m : m = [at |-> "begin", job |-> j] /\ req' = [req EXCEPT ![h] = m]
    BY <1>1 DEF CreateJob
  <2>2. m.at = "begin" /\ "at" \in DOMAIN m
    BY <2>1
  <2>3. req[h].at = "idle" /\ deaths' = deaths
    BY <1>1, IdleRemembers DEF CreateJob, Arrives
  <2> QED
    BY <2>1, <2>2, <2>3
<1>2. CASE Begin(h)
  <2>1. PICK j, m : /\ req' = [req EXCEPT ![h] = m]
                    /\ \/ m = [at |-> "generate", job |-> j]
                       \/ m = [at |-> "rows", job |-> j, counts |-> Counts(0, 0)]
    BY <1>2 DEF Begin
  <2>2. m.at \in {"generate", "rows"} /\ "at" \in DOMAIN m
    BY <2>1
  <2>3. req[h].at = "begin" /\ deaths' = deaths
    BY <1>2 DEF Begin
  <2> QED
    BY <2>1, <2>2, <2>3
<1>3. CASE Generate(h) \/ WriteObject(h) \/ Throw(h)
  <2>1. PICK a \in {"write", "complete", "catch"} : req' = [req EXCEPT ![h] = [req[h] EXCEPT !.at = a]]
    BY <1>3 DEF Generate, WriteObject, Throw
  <2>2. req[h].at \in ExportSteps /\ deaths' = deaths
    BY <1>3 DEF Generate, WriteObject, Throw
  <2>3. req[h] = [at |-> req[h].at, job |-> req[h].job]
    BY <2>2 DEF JobsInv, MemoryOK
  <2>4. PICK b, j : req[h] = [at |-> b, job |-> j]
    BY <2>3
  <2>5. [req[h] EXCEPT !.at = a] = [at |-> a, job |-> j]
    BY <2>4
  <2> QED
    BY <2>1, <2>2, <2>5
<1>4. CASE Complete(h) \/ Catch(h) \/ Finish(h)
  <2>1. req[h].at \in JobSteps /\ deaths' = deaths /\ req' = [req EXCEPT ![h] = Idle]
    BY <1>4 DEF Complete, Catch, Finish
  <2>2. Idle.at = "idle" /\ "at" \in DOMAIN Idle
    BY DEF Idle
  <2> QED
    BY <2>1, <2>2
<1>5. CASE ImportRow(h)
  <2>1. req[h].at = "rows" /\ deaths' = deaths
    BY <1>5 DEF ImportRow
  <2>2. req[h] = [at |-> "rows", job |-> req[h].job, counts |-> req[h].counts]
    BY <2>1 DEF JobsInv, MemoryOK
  <2>3. PICK j, c : req[h] = [at |-> "rows", job |-> j, counts |-> c]
    BY <2>2
  <2>4. PICK m : req' = [req EXCEPT ![h] = m] /\ DOMAIN m = DOMAIN req[h] /\ m.at = req[h].at
    BY <1>5, <2>3 DEF ImportRow
  <2> QED
    BY <2>1, <2>3, <2>4
<1> QED
  BY <1>1, <1>2, <1>3, <1>4, <1>5 DEF JobsStep

LEMMA JobsInbox ==
  ASSUME InboxInv, JobsInv, NEW h \in Requests, CreateJob(h) \/ JobsStep(h), UNCHANGED inbox
  PROVE  InboxInv'
<1>1. PICK m : /\ req' = [req EXCEPT ![h] = m] /\ "at" \in DOMAIN m /\ m.at \in JobSteps \cup {"idle"}
               /\ req[h].at \in JobSteps \cup {"idle"} /\ deaths' = deaths
  BY JobsRequest
<1>2. Remembers(m) /\ m.at \notin PushSteps /\ req[h].at \notin {"prune", "deliver"}
  BY <1>1 DEF Remembers, PushSteps, JobSteps, ExportSteps
<1>3. rows' = rows /\ pushed' = pushed /\ preference' = preference
  BY DEF inbox
<1>4. preference' \in [Users -> Channels \cup {None}]
  BY <1>3 DEF InboxInv, InboxType
<1> QED
  BY <1>1, <1>2, <1>3, <1>4, RowsStay

\* What was pushed and not marked is pushed again by the next process.
LEMMA CrashInbox ==
  ASSUME InboxInv, Crash, UNCHANGED inbox
  PROVE  InboxInv'
<1>1. /\ req' = [h \in Requests |-> Idle] /\ deaths' = deaths + 1 /\ deaths \in Nat
      /\ rows' = rows /\ pushed' = pushed /\ preference' = preference
  BY DEF Crash, inbox, InboxInv, InboxType
<1>2. \A h \in Requests, i \in DOMAIN rows : ~Holds(h, i)'
  BY <1>1, IdleRemembers DEF Holds
<1>3. Owned' /\ Single' /\ Unmarked'
  BY <1>1, <1>2 DEF Owned, Single, Unmarked
<1>4. \A h \in Requests : Remembers(req[h])'
  BY <1>1 DEF Remembers, Idle, PushSteps
<1>5. InboxType'
  BY <1>1 DEF InboxInv, InboxType
<1>6. Counted'
  <2>1. \A i \in DOMAIN rows : pushed[i] \in Nat
    BY DEF InboxInv, InboxType
  <2> QED
    BY <1>1, <2>1 DEF InboxInv, Counted
<1> QED
  BY <1>3, <1>4, <1>5, <1>6 DEF InboxInv

\* What a run has pushed and not marked when it throws is pushed again by a later run.
LEMMA ThrowsInbox ==
  ASSUME InboxInv, NEW h \in Requests, Throws(h)
  PROVE  InboxInv'
<1>1. /\ req' = [req EXCEPT ![h] = Idle] /\ deaths' = deaths + 1 /\ deaths \in Nat
      /\ rows' = rows /\ pushed' = pushed /\ preference' = preference
  BY DEF Throws, Die, inbox, InboxInv, InboxType
<1>2. DOMAIN req' = Requests /\ req'[h] = Idle /\ \A k \in Requests \ {h} : req'[k] = req[k]
  BY <1>1, OthersRemember
<1>3. Remembers(Idle)' /\ \A i \in DOMAIN rows : ~Holds(h, i)'
  BY <1>2, IdleRemembers DEF Remembers, Holds, Idle, PushSteps
<1>4. Owned' /\ Single' /\ \A k \in Requests : Remembers(req[k])'
  BY <1>1, <1>3, Handed
<1>5. InboxType'
  BY <1>1, <1>2 DEF InboxInv, InboxType
<1>6. Unmarked'
  BY <1>1, <1>2, <1>3 DEF InboxInv, Unmarked, Holds
<1>7. Counted'
  <2>1. \A i \in DOMAIN rows : pushed[i] \in Nat
    BY DEF InboxInv, InboxType
  <2> QED
    BY <1>1, <2>1 DEF InboxInv, Counted
<1> QED
  BY <1>4, <1>5, <1>6, <1>7 DEF InboxInv

LEMMA InboxNext ==
  ASSUME InboxInv, JobsInv, [Next]_vars
  PROVE  InboxInv'
<1>1. ASSUME NEW h \in Requests, NotificationsStart(h) \/ NotificationsStep(h) \/ RunDigest(h)
      PROVE InboxInv'
  BY <1>1, InboxStep
<1>2. ASSUME NEW h \in Requests, CreateJob(h) \/ JobsStep(h), UNCHANGED inbox  PROVE InboxInv'
  BY <1>2, JobsInbox
<1>3. CASE UNCHANGED vars
  <2>1. UNCHANGED <<req, deaths, rows, preference, pushed>>
    BY <1>3 DEF vars, server, inbox
  <2> QED
    BY <2>1 DEF InboxInv, InboxType, Owned, Single, Unmarked, Counted, Holds, Sent, Remembers
<1> QED
  BY <1>1, <1>2, <1>3, ThrowsInbox, CrashInbox DEF Next, Proceed

LEMMA InboxStart == Init => InboxInv
<1> SUFFICES ASSUME Init  PROVE InboxInv
  OBVIOUS
<1>1. /\ rows = <<>> /\ pushed = <<>> /\ deaths = 0 /\ req = [h \in Requests |-> Idle]
      /\ preference = [u \in Users |-> None]
  BY DEF Init, ServerInit, InboxInit
<1>2. DOMAIN rows = {}
  BY <1>1
<1>3. InboxType
  BY <1>1 DEF InboxType
<1>4. \A h \in Requests : Remembers(req[h])
  BY <1>1, IdleRemembers
<1> QED
  BY <1>2, <1>3, <1>4 DEF InboxInv, Owned, Single, Unmarked, Counted

\* A notification is pushed at most once before it is read, and once more for every death of the
\* process or failed statement: for any number of rows, digests, users and devices, however a digest, a first push,
\* markRead and markAllRead overlap.
THEOREM Pushed == Spec => []PushedOnce
<1>1. InboxInv => PushedOnce
  BY DEF InboxInv, PushedOnce, Counted
<1>2. Init => JobsInv /\ InboxInv
  BY JobsStart, InboxStart
<1>3. JobsInv /\ InboxInv /\ [Next]_vars => JobsInv' /\ InboxInv'
  BY JobsNext, InboxNext
<1> QED
  BY <1>1, <1>2, <1>3, PTL DEF Spec
==============================================================================
