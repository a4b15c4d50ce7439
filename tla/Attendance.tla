----------------------------- MODULE Attendance -----------------------------
(***************************************************************************)
(* AttendanceService for one class on one day: bulkMark, the roll call     *)
(* that the app sends, and updateRecord, the correction of one mark.       *)
(*                                                                         *)
(* bulkMark checks the class and its enrollments and then runs one         *)
(* transaction (READ COMMITTED): find the session, save it, and for each   *)
(* student find the record and save it.  Saving the session updates its    *)
(* row, whose lock is held until the end; of two that insert it the second *)
(* waits for the first and is then refused by UNIQUE (class, date).  What  *)
(* a transaction writes is its draft until it commits.  updateRecord has   *)
(* no transaction: it loads the record, logs the change and saves it.      *)
(***************************************************************************)
EXTENDS Naturals, Sequences, FiniteSets, Functions

CONSTANTS
  Requests,      \* requests the server may have in progress at once
  Students,      \* the students of the class
  Statuses,      \* AttendanceStatus
  Rolls,         \* roll calls: a status for each student on the screen
  EditsAlone,    \* whether corrections neither overlap other requests nor die
  MaxEdits,      \* bound: corrections
  MaxFails,      \* bound: requests that die
  MaxLog,        \* bound of AttendanceSpec: changes of a mark before the last roll call
  None

ASSUME AttendanceAssumption ==
  /\ Rolls \subseteq [Students -> Statuses]
  /\ EditsAlone \in BOOLEAN
  /\ MaxEdits \in Nat /\ MaxFails \in Nat /\ MaxLog \in Nat
  /\ None \notin Statuses /\ None \notin Students /\ None \notin Requests

VARIABLES
  cancelled,   \* table schedule_exceptions: the class does not take place on that day
  enrolled,    \* table enrollments: the students enrolled on that day
  held,        \* table attendance_sessions: whether there is a row
  mark,        \* table attendance_records: the status of each student's row, or None
  log,         \* table attendance_audit_log: the changes of each student's row, oldest first
  lock,        \* the request that has written the session's row and not yet committed
  pc, job,     \* next statement and memory of each request
  edits, fails

tables == <<cancelled, enrolled, held, mark, log, lock>>
attendance == <<tables, pc, job, edits, fails>>

-----------------------------------------------------------------------------
NoRoll == [s \in {} |-> None]
NoJob == [roll |-> NoRoll, left |-> {}, draft |-> NoRoll, student |-> None, seen |-> None,
          to |-> None, found |-> FALSE, heard |-> FALSE]
Change(x, y) == [from |-> x, to |-> y]

AttendanceInit ==
  /\ cancelled = FALSE /\ enrolled = Students /\ held = FALSE
  /\ mark = [s \in Students |-> None]
  /\ log = [s \in Students |-> <<>>]
  /\ lock = None
  /\ pc = [h \in Requests |-> "idle"]
  /\ job = [h \in Requests |-> NoJob]
  /\ edits = 0 /\ fails = 0

Goes(h, from, to) == pc[h] = from /\ pc' = [pc EXCEPT ![h] = to]
Marking == {h \in Requests : pc[h] \in {"findSession", "saveSession", "records", "saveRecord"}}
Editing == {h \in Requests : pc[h] \in {"editLog", "editRead", "editSave"}}

\* The request is over; its sender, if it still listens, is answered "ok" or "refused".
Reply(h, answer) ==
  /\ pc' = [pc EXCEPT ![h] = IF job[h].heard THEN answer ELSE "idle"]
  /\ job' = [job EXCEPT ![h] = NoJob]

-----------------------------------------------------------------------------
(* bulkMark *)

\* Records of students who are not enrolled on that day are skipped.
StartMark(h, roll) ==
  /\ EditsAlone => Editing = {}
  /\ Goes(h, "idle", IF cancelled THEN "refused" ELSE "findSession")
  /\ job' = [job EXCEPT ![h] = [NoJob EXCEPT !.roll = Restrict(roll, enrolled), !.left = enrolled,
                                          !.heard = TRUE]]
  /\ UNCHANGED <<tables, edits, fails>>

FindSession(h) ==
  /\ Goes(h, "findSession", "saveSession")
  /\ job' = [job EXCEPT ![h].found = held]
  /\ UNCHANGED <<tables, edits, fails>>

\* Mutant: the session is saved after the records.
SaveSessionLast(h) ==
  /\ Goes(h, "saveSession", "records")
  /\ UNCHANGED <<tables, job, edits, fails>>

SaveSession(h) ==
  /\ pc[h] = "saveSession" /\ lock = None
  /\ \/ /\ job[h].found = held
        /\ Goes(h, "saveSession", "records")
        /\ lock' = h
        /\ UNCHANGED job
     \/ /\ job[h].found # held
        /\ Reply(h, "refused")       \* 500: UNIQUE (class, date)
        /\ UNCHANGED lock
  /\ UNCHANGED <<cancelled, enrolled, held, mark, log, edits, fails>>

\* A mark that is as it should be is left alone.  Mutant: it is logged again.
SameNever(x, y) == FALSE
Same(x, y) == x = y

FindRecord(h, s) ==
  LET to == job[h].roll[s] IN
  /\ s \in job[h].left
  /\ Goes(h, "records", IF Same(mark[s], to) THEN "records" ELSE "saveRecord")
  /\ job' = [job EXCEPT ![h].left = @ \ {s}, ![h].student = s, ![h].seen = mark[s], ![h].to = to]
  /\ UNCHANGED <<tables, edits, fails>>

\* Audit row and record.
SaveRecord(h) ==
  LET j == job[h] IN
  /\ Goes(h, "saveRecord", "records")
  /\ job' = [job EXCEPT ![h].draft =
       [s \in DOMAIN j.draft \union {j.student} |->
          IF s = j.student THEN Change(j.seen, j.to) ELSE j.draft[s]]]
  /\ UNCHANGED <<tables, edits, fails>>

Logged(s, c) == IF c.from = None THEN log[s] ELSE Append(log[s], c)

Commit(h) ==
  LET draft == job[h].draft IN
  /\ pc[h] = "records" /\ job[h].left = {}
  /\ held' = TRUE /\ lock' = None
  /\ mark' = [s \in Students |-> IF s \in DOMAIN draft THEN draft[s].to ELSE mark[s]]
  /\ log' = [s \in Students |-> IF s \in DOMAIN draft THEN Logged(s, draft[s]) ELSE log[s]]
  /\ Reply(h, "ok")
  /\ UNCHANGED <<cancelled, enrolled, edits, fails>>

\* A statement fails or the process dies: a transaction is rolled back.
Die(h) ==
  /\ h \in Marking \/ (~EditsAlone /\ h \in Editing)
  /\ fails < MaxFails
  /\ fails' = fails + 1
  /\ lock' = IF lock = h THEN None ELSE lock
  /\ Reply(h, "refused")
  /\ UNCHANGED <<cancelled, enrolled, held, mark, log, edits>>

-----------------------------------------------------------------------------
(* updateRecord.  Nothing sets a record's column `invoiced`, so the 409 of *)
(* an invoiced record is never answered.                                   *)

StartEdit(h, s, x) ==
  /\ edits < MaxEdits /\ mark[s] # None
  /\ EditsAlone => Marking \union Editing = {}
  /\ Goes(h, "idle", IF x = mark[s] THEN "editRead" ELSE "editLog")
  /\ job' = [job EXCEPT ![h] = [NoJob EXCEPT !.student = s, !.seen = mark[s], !.to = x]]
  /\ edits' = edits + 1
  /\ UNCHANGED <<tables, fails>>

EditLog(h) ==
  LET j == job[h] IN
  /\ Goes(h, "editLog", "editRead")
  /\ log' = [log EXCEPT ![j.student] = Append(@, Change(j.seen, j.to))]
  /\ UNCHANGED <<cancelled, enrolled, held, mark, lock, job, edits, fails>>

\* `save` reads the row and updates only what is different in memory.
EditRead(h) ==
  /\ Goes(h, "editRead", "editSave")
  /\ job' = [job EXCEPT ![h].found = mark[job[h].student] = job[h].to]
  /\ UNCHANGED <<tables, edits, fails>>

\* The update waits for a transaction that has written the record.
EditSave(h) ==
  LET j == job[h] IN
  /\ \A g \in Requests : j.student \notin DOMAIN job[g].draft
  /\ Goes(h, "editSave", "idle")
  /\ mark' = IF j.found THEN mark ELSE [mark EXCEPT ![j.student] = j.to]
  /\ job' = [job EXCEPT ![h] = NoJob]
  /\ UNCHANGED <<cancelled, enrolled, held, log, lock, edits, fails>>

-----------------------------------------------------------------------------
(* The classes component, of which this module needs two facts. *)

Cancel ==
  /\ ~cancelled
  /\ cancelled' = TRUE
  /\ UNCHANGED <<enrolled, held, mark, log, lock, pc, job, edits, fails>>

Withdraw(s) ==
  /\ s \in enrolled
  /\ enrolled' = enrolled \ {s}
  /\ UNCHANGED <<cancelled, held, mark, log, lock, pc, job, edits, fails>>

\* The next statement of a request in progress.
Proceed(h) ==
  \/ FindSession(h) \/ SaveSession(h) \/ SaveRecord(h) \/ Commit(h)
  \/ \E s \in Students : FindRecord(h, s)
  \/ EditLog(h) \/ EditRead(h) \/ EditSave(h)

Correction(h) == \E s \in Students, x \in Statuses : StartEdit(h, s, x)

-----------------------------------------------------------------------------
(* The service on its own: anybody may send any roll call at any time. *)

RollCall(h, roll) == (\A s \in Students : Len(log[s]) < MaxLog) /\ StartMark(h, roll)

Deliver(h) ==
  /\ \E answer \in {"ok", "refused"} : Goes(h, answer, "idle")
  /\ UNCHANGED <<tables, job, edits, fails>>

AttendanceNext ==
  \/ \E h \in Requests : Proceed(h) \/ Die(h) \/ Correction(h) \/ Deliver(h)
  \/ \E h \in Requests, roll \in Rolls : RollCall(h, roll)
  \/ Cancel
  \/ \E s \in Students : Withdraw(s)

AttendanceSpec == AttendanceInit /\ [][AttendanceNext]_attendance

-----------------------------------------------------------------------------
(* Properties. *)

Logs == Seq([from : Statuses, to : Statuses])
Partial(S) == UNION {[D -> S] : D \in SUBSET Students}

AttendanceTypeOK ==
  /\ cancelled \in BOOLEAN /\ enrolled \subseteq Students /\ held \in BOOLEAN
  /\ mark \in [Students -> Statuses \union {None}]
  /\ log \in [Students -> Logs]
  /\ lock \in Requests \union {None}
  /\ pc \in [Requests -> {"idle", "findSession", "saveSession", "records", "saveRecord", "editLog",
                          "editRead", "editSave", "ok", "refused"}]
  /\ job \in [Requests ->
       [roll : Partial(Statuses), left : SUBSET Students, student : Students \union {None},
        draft : Partial([from : Statuses \union {None}, to : Statuses]),
        seen : Statuses \union {None}, to : Statuses \union {None},
        found : BOOLEAN, heard : BOOLEAN]]
  /\ edits \in 0..MaxEdits /\ fails \in 0..MaxFails

\* The audit row of a correction whose record is not yet saved does not count.
Unsaved(h, s) == pc[h] \in {"editRead", "editSave"} /\ job[h].student = s /\ job[h].seen # job[h].to
Settled(s) ==
  IF \E h \in Requests : Unsaved(h, s) THEN SubSeq(log[s], 1, Len(log[s]) - 1) ELSE log[s]

\* Roll calls are entered as a whole and every change is logged with the mark it replaced, also
\* when they are sent twice, overlap or die ("append-only: every edit to an attendance_record
\* after its initial mark writes here", attendance-audit-log.entity.ts:12).
Book == INSTANCE AttendanceBook WITH log <- [s \in Students |-> Settled(s)]
ImplementsBook == Book!BookSpec

\* A roll call that commits is in force as a whole, whatever else was sent meanwhile: "replaying
\* the same call after a dropped connection converges to the same end state"
\* (attendance.service.ts:159-160).
Enters(h) == Commit(h) => \A s \in DOMAIN job[h].roll : mark'[s] = job[h].roll[s]
RollInForce == [][\A h \in Requests : Enters(h)]_attendance
=============================================================================
