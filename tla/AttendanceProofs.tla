-------------------------- MODULE AttendanceProofs --------------------------
(***************************************************************************)
(* Theorems about module Attendance, for any number of requests, students, *)
(* statuses and roll calls: the session's row keeps roll calls apart, so   *)
(* that each is in force when it commits and, as long as corrections       *)
(* neither overlap other requests nor die, marks and log are those of      *)
(* AttendanceBook.                                                         *)
(***************************************************************************)
EXTENDS Attendance, SequenceTheorems, TLAPS

-----------------------------------------------------------------------------
(* The inductive invariant. *)

Entry == [from : Statuses \union {None}, to : Statuses]
JobType == [roll : Partial(Statuses), left : SUBSET Students, student : Students \union {None},
            draft : Partial(Entry), seen : Statuses \union {None}, to : Statuses \union {None},
            found : BOOLEAN, heard : BOOLEAN]
Statements == {"idle", "findSession", "saveSession", "records", "saveRecord", "editLog", "editRead",
               "editSave", "ok", "refused"}
Writing == {"records", "saveRecord"}

TablesType ==
  /\ cancelled \in BOOLEAN /\ enrolled \subseteq Students /\ held \in BOOLEAN
  /\ mark \in [Students -> Statuses \union {None}]
  /\ log \in [Students -> Logs]
  /\ lock \in Requests \union {None}
RequestType == pc \in [Requests -> Statements] /\ job \in [Requests -> JobType]
BoundType == edits \in 0..MaxEdits /\ fails \in 0..MaxFails

\* What the next statement of a request says about the values in its memory.
TypedAt(p, j) ==
  /\ j.left \subseteq DOMAIN j.roll
  /\ p = "saveRecord" => j.student \in Students /\ j.to \in Statuses
  /\ p \in {"editLog", "editRead", "editSave"} =>
       j.student \in Students /\ j.to \in Statuses /\ j.seen \in Statuses

TypeInv == TablesType /\ RequestType /\ BoundType /\ \A h \in Requests : TypedAt(pc[h], job[h])

\* A record that is to be written replaces the mark in the table by another one, the roll call's.
Drafted(h, s) ==
  LET j == job[h] IN
  /\ s \in DOMAIN j.roll \ j.left
  /\ j.roll[s] # mark[s]
  /\ j.draft[s] = Change(mark[s], j.roll[s])

\* A student who has been looked at is in the draft, is about to be, or has the right mark.
Seen(h, s) ==
  LET j == job[h] IN
  \/ s \in DOMAIN j.draft
  \/ mark[s] = j.roll[s]
  \/ pc[h] = "saveRecord" /\ s = j.student

MarkOK(h) ==
  LET j == job[h] IN
  /\ pc[h] \in Writing => lock = h
  /\ pc[h] \notin Writing => DOMAIN j.draft = {}
  /\ pc[h] \in {"findSession", "saveSession"} => j.left = DOMAIN j.roll
  /\ \A s \in DOMAIN j.draft : Drafted(h, s)
  /\ pc[h] \in Writing => \A s \in DOMAIN j.roll \ j.left : Seen(h, s)
  /\ pc[h] = "saveRecord" =>
       /\ j.student \in DOMAIN j.roll \ j.left
       /\ j.to = j.roll[j.student] /\ j.seen = mark[j.student] /\ j.seen # j.to

\* A correction has seen the mark in the table, and once it is logged its audit row is the last.
EditOK(h) ==
  LET j == job[h] IN
  pc[h] \in {"editLog", "editRead", "editSave"} =>
    /\ j.seen = mark[j.student]
    /\ pc[h] = "editLog" => j.seen # j.to
    /\ pc[h] = "editSave" => (j.found <=> j.seen = j.to)
    /\ pc[h] # "editLog" /\ j.seen # j.to =>
         /\ log[j.student] # <<>>
         /\ log[j.student][Len(log[j.student])] = Change(j.seen, j.to)

\* A correction in progress is the only request in progress.
Alone == \A g, h \in Requests : g \in Editing /\ h \in Marking \union Editing => g = h

MarkInv == \A h \in Requests : MarkOK(h)
EditInv == Alone /\ \A h \in Requests : EditOK(h)

BookInv == TypeInv /\ MarkInv /\ EditInv

-----------------------------------------------------------------------------
(* Type correctness. *)

LEMMA PartialFacts ==
  ASSUME NEW S, NEW f \in Partial(S)
  PROVE  DOMAIN f \subseteq Students /\ f \in [DOMAIN f -> S] /\ \A s \in DOMAIN f : f[s] \in S
BY DEF Partial

LEMMA PartialIntro ==
  ASSUME NEW S, NEW D \in SUBSET Students, NEW f \in [D -> S]
  PROVE  f \in Partial(S) /\ DOMAIN f = D
BY DEF Partial

LEMMA NoJobType == NoJob \in JobType /\ DOMAIN NoJob.roll = {} /\ DOMAIN NoJob.draft = {}
<1>1. NoRoll \in [{} -> Statuses] /\ NoRoll \in [{} -> Entry]
  BY DEF NoRoll
<1>2. NoRoll \in Partial(Statuses) /\ NoRoll \in Partial(Entry) /\ DOMAIN NoRoll = {}
  BY <1>1, PartialIntro
<1> QED
  BY <1>2 DEF NoJob, JobType

LEMMA NoJobTyped == NoJob \in JobType /\ \A p : p \in {"idle", "ok", "refused"} => TypedAt(p, NoJob)
BY NoJobType DEF NoJob, TypedAt

LEMMA TypeInit == AttendanceInit => TypeInv
<1> SUFFICES ASSUME AttendanceInit PROVE TypeInv
  OBVIOUS
<1>1. TablesType
  <2>1. <<>> \in Logs
    BY DEF Logs
  <2> QED
    BY <2>1 DEF AttendanceInit, TablesType
<1>2. RequestType
  BY NoJobType DEF AttendanceInit, RequestType, Statements
<1>3. BoundType
  BY AttendanceAssumption DEF AttendanceInit, BoundType
<1>4. \A h \in Requests : TypedAt(pc[h], job[h])
  BY NoJobTyped DEF AttendanceInit
<1> QED
  BY <1>1, <1>2, <1>3, <1>4 DEF TypeInv

\* A step that moves one request.
LEMMA OneRequest ==
  ASSUME TypeInv, NEW h \in Requests, NEW p \in Statements, NEW j \in JobType, TypedAt(p, j),
         pc' = [pc EXCEPT ![h] = p], job' = [job EXCEPT ![h] = j]
  PROVE  /\ RequestType'
         /\ \A g \in Requests : TypedAt(pc[g], job[g])'
         /\ pc'[h] = p /\ job'[h] = j
         /\ \A g \in Requests \ {h} : pc'[g] = pc[g] /\ job'[g] = job[g]
<1>1. /\ pc'[h] = p /\ job'[h] = j
      /\ \A g \in Requests \ {h} : pc'[g] = pc[g] /\ job'[g] = job[g]
  BY DEF TypeInv, RequestType
<1>2. RequestType'
  BY DEF TypeInv, RequestType
<1>3. ASSUME NEW g \in Requests PROVE TypedAt(pc[g], job[g])'
  <2>1. TypedAt(pc'[g], job'[g])
    BY <1>1 DEF TypeInv
  <2> QED
    BY <2>1 DEF TypedAt
<1> QED
  BY <1>1, <1>2, <1>3

LEMMA ReplyType ==
  ASSUME TypeInv, NEW h \in Requests, NEW answer \in {"ok", "refused"}, Reply(h, answer)
  PROVE  /\ RequestType'
         /\ \A g \in Requests : TypedAt(pc[g], job[g])'
         /\ pc'[h] \in {"idle", "ok", "refused"} /\ job'[h] = NoJob
         /\ \A g \in Requests \ {h} : pc'[g] = pc[g] /\ job'[g] = job[g]
<1> DEFINE p == IF job[h].heard THEN answer ELSE "idle"
<1>1. p \in {"idle", "ok", "refused"}
  OBVIOUS
<1>2. p \in Statements /\ TypedAt(p, NoJob)
  BY <1>1, NoJobTyped DEF Statements
<1>3. pc' = [pc EXCEPT ![h] = p] /\ job' = [job EXCEPT ![h] = NoJob]
  BY DEF Reply
<1> HIDE DEF p
<1> QED
  BY <1>1, <1>2, <1>3, NoJobType, OneRequest

-----------------------------------------------------------------------------
(* The requests' moves: where each statement leads and what it remembers.  *)

\* Only request h moves, to statement p with memory j.
Moves(h, p, j) ==
  /\ p \in Statements /\ j \in JobType
  /\ pc' = [pc EXCEPT ![h] = p] /\ job' = [job EXCEPT ![h] = j]

LEMMA MoveFacts ==
  ASSUME TypeInv, NEW h \in Requests, NEW p, NEW j, Moves(h, p, j)
  PROVE  /\ pc'[h] = p /\ job'[h] = j
         /\ \A g \in Requests \ {h} : pc'[g] = pc[g] /\ job'[g] = job[g]
BY DEF TypeInv, RequestType, Moves

LEMMA MoveType ==
  ASSUME TypeInv, NEW h \in Requests, NEW p, NEW j, Moves(h, p, j), TypedAt(p, j),
         TablesType', BoundType'
  PROVE  TypeInv'
BY OneRequest DEF TypeInv, Moves

MarkedJob(roll) == [NoJob EXCEPT !.roll = Restrict(roll, enrolled), !.left = enrolled, !.heard = TRUE]
FoundJob(h) == [job[h] EXCEPT !.found = held]
SeenJob(h, s) ==
  [job[h] EXCEPT !.left = @ \ {s}, !.student = s, !.seen = mark[s], !.to = job[h].roll[s]]
DraftedJob(h) ==
  [job[h] EXCEPT !.draft = [s \in DOMAIN job[h].draft \union {job[h].student} |->
     IF s = job[h].student THEN Change(job[h].seen, job[h].to) ELSE job[h].draft[s]]]
EditJob(s, x) == [NoJob EXCEPT !.student = s, !.seen = mark[s], !.to = x]
ReadJob(h) == [job[h] EXCEPT !.found = mark[job[h].student] = job[h].to]

LEMMA StartMarkMoves ==
  ASSUME TypeInv, NEW h \in Requests, NEW roll \in Rolls, StartMark(h, roll)
  PROVE  /\ Moves(h, IF cancelled THEN "refused" ELSE "findSession", MarkedJob(roll))
         /\ TypedAt(IF cancelled THEN "refused" ELSE "findSession", MarkedJob(roll))
         /\ pc[h] = "idle" /\ DOMAIN MarkedJob(roll).roll = MarkedJob(roll).left
         /\ DOMAIN MarkedJob(roll).draft = {}
<1>1. enrolled \subseteq Students /\ roll \in [Students -> Statuses]
  BY AttendanceAssumption DEF TypeInv, TablesType
<1>2. Restrict(roll, enrolled) \in [enrolled -> Statuses]
  BY <1>1 DEF Restrict
<1>3. Restrict(roll, enrolled) \in Partial(Statuses) /\ DOMAIN Restrict(roll, enrolled) = enrolled
  BY <1>1, <1>2, PartialIntro
<1>4. MarkedJob(roll) \in JobType
  BY <1>1, <1>3, NoJobType DEF MarkedJob, JobType
<1>5. /\ MarkedJob(roll).roll = Restrict(roll, enrolled) /\ MarkedJob(roll).left = enrolled
      /\ MarkedJob(roll).draft = NoJob.draft
  BY DEF MarkedJob, NoJob
<1> QED
  BY <1>3, <1>4, <1>5, NoJobType DEF StartMark, Goes, Moves, MarkedJob, Statements, TypedAt

LEMMA FindSessionMoves ==
  ASSUME TypeInv, NEW h \in Requests, FindSession(h)
  PROVE  /\ Moves(h, "saveSession", FoundJob(h)) /\ TypedAt("saveSession", FoundJob(h))
         /\ pc[h] = "findSession"
<1>1. job[h] \in JobType /\ held \in BOOLEAN /\ TypedAt(pc[h], job[h])
  BY DEF TypeInv, TablesType, RequestType
<1>2. FoundJob(h) \in JobType /\ FoundJob(h).left = job[h].left /\ FoundJob(h).roll = job[h].roll
  BY <1>1 DEF FoundJob, JobType
<1>3. job' = [job EXCEPT ![h] = FoundJob(h)]
  BY <1>1 DEF FindSession, FoundJob
<1> QED
  BY <1>1, <1>2, <1>3 DEF FindSession, Goes, Moves, Statements, TypedAt

LEMMA FindRecordMoves ==
  ASSUME TypeInv, NEW h \in Requests, NEW s \in Students, FindRecord(h, s)
  PROVE  LET p == IF mark[s] = job[h].roll[s] THEN "records" ELSE "saveRecord" IN
         /\ Moves(h, p, SeenJob(h, s)) /\ TypedAt(p, SeenJob(h, s))
         /\ pc[h] = "records" /\ s \in DOMAIN job[h].roll /\ s \in job[h].left
<1> DEFINE p == IF mark[s] = job[h].roll[s] THEN "records" ELSE "saveRecord"
<1>1. job[h] \in JobType /\ mark[s] \in Statuses \union {None} /\ TypedAt(pc[h], job[h])
  BY DEF TypeInv, TablesType, RequestType
<1>2. s \in job[h].left /\ s \in DOMAIN job[h].roll
  BY <1>1 DEF FindRecord, TypedAt
<1>3. job[h].roll \in Partial(Statuses)
  BY <1>1 DEF JobType
<1>4. job[h].roll[s] \in Statuses
  BY <1>2, <1>3, PartialFacts
<1>5. /\ SeenJob(h, s) \in JobType /\ SeenJob(h, s).left = job[h].left \ {s}
      /\ SeenJob(h, s).roll = job[h].roll /\ SeenJob(h, s).student = s
      /\ SeenJob(h, s).to = job[h].roll[s]
  BY <1>1, <1>4 DEF SeenJob, JobType
<1>6. job' = [job EXCEPT ![h] = SeenJob(h, s)]
  BY <1>1 DEF FindRecord, SeenJob
<1>7. pc' = [pc EXCEPT ![h] = p] /\ pc[h] = "records"
  BY DEF FindRecord, Goes, Same
<1>8. p \in Statements /\ TypedAt(p, SeenJob(h, s))
  BY <1>1, <1>4, <1>5 DEF Statements, TypedAt
<1> QED
  BY <1>2, <1>5, <1>6, <1>7, <1>8 DEF Moves

LEMMA SaveRecordMoves ==
  ASSUME TypeInv, NEW h \in Requests, SaveRecord(h)
  PROVE  /\ Moves(h, "records", DraftedJob(h)) /\ TypedAt("records", DraftedJob(h))
         /\ pc[h] = "saveRecord"
<1> DEFINE d == [s \in DOMAIN job[h].draft \union {job[h].student} |->
       IF s = job[h].student THEN Change(job[h].seen, job[h].to) ELSE job[h].draft[s]]
<1>1. /\ job[h] \in JobType /\ TypedAt(pc[h], job[h]) /\ pc[h] = "saveRecord"
  BY DEF TypeInv, RequestType, SaveRecord, Goes
<1>2. job[h].student \in Students /\ job[h].to \in Statuses /\ job[h].draft \in Partial(Entry)
      /\ job[h].seen \in Statuses \union {None}
  BY <1>1 DEF TypedAt, JobType
<1>3. Change(job[h].seen, job[h].to) \in Entry
  BY <1>2 DEF Change, Entry
<1>4. DOMAIN job[h].draft \subseteq Students /\ \A s \in DOMAIN job[h].draft : job[h].draft[s] \in Entry
  BY <1>2, PartialFacts
<1>5. d \in [DOMAIN job[h].draft \union {job[h].student} -> Entry]
  BY <1>3, <1>4
<1>6. d \in Partial(Entry)
  BY <1>2, <1>4, <1>5, PartialIntro
<1>7. DraftedJob(h) = [job[h] EXCEPT !.draft = d]
  BY DEF DraftedJob
<1>8. job' = [job EXCEPT ![h] = [job[h] EXCEPT !.draft = d]]
  BY <1>1 DEF SaveRecord
<1> HIDE DEF d
<1>9. /\ DraftedJob(h) \in JobType /\ DraftedJob(h).left = job[h].left
      /\ DraftedJob(h).roll = job[h].roll
  BY <1>1, <1>6, <1>7 DEF JobType
<1> QED
  BY <1>1, <1>7, <1>8, <1>9 DEF SaveRecord, Goes, Moves, Statements, TypedAt

LEMMA StartEditMoves ==
  ASSUME TypeInv, NEW h \in Requests, NEW s \in Students, NEW x \in Statuses, StartEdit(h, s, x)
  PROVE  LET p == IF x = mark[s] THEN "editRead" ELSE "editLog" IN
         /\ Moves(h, p, EditJob(s, x)) /\ TypedAt(p, EditJob(s, x))
         /\ pc[h] = "idle"
<1> DEFINE p == IF x = mark[s] THEN "editRead" ELSE "editLog"
<1>1. mark[s] \in Statuses
  BY DEF TypeInv, TablesType, StartEdit
<1>2. EditJob(s, x) \in JobType
  BY <1>1, NoJobType DEF EditJob, JobType
<1>3. /\ EditJob(s, x).left = {} /\ EditJob(s, x).student = s /\ EditJob(s, x).to = x
      /\ EditJob(s, x).seen = mark[s]
  BY DEF EditJob, NoJob
<1>4. p \in Statements /\ TypedAt(p, EditJob(s, x))
  BY <1>1, <1>3 DEF Statements, TypedAt
<1> QED
  BY <1>2, <1>4 DEF StartEdit, Goes, Moves, EditJob

LEMMA EditReadMoves ==
  ASSUME TypeInv, NEW h \in Requests, EditRead(h)
  PROVE  Moves(h, "editSave", ReadJob(h)) /\ TypedAt("editSave", ReadJob(h)) /\ pc[h] = "editRead"
<1>1. job[h] \in JobType /\ TypedAt(pc[h], job[h])
  BY DEF TypeInv, RequestType
<1>2. /\ ReadJob(h) \in JobType /\ ReadJob(h).left = job[h].left /\ ReadJob(h).roll = job[h].roll
      /\ ReadJob(h).student = job[h].student /\ ReadJob(h).to = job[h].to
      /\ ReadJob(h).seen = job[h].seen
  BY <1>1 DEF ReadJob, JobType
<1>3. job' = [job EXCEPT ![h] = ReadJob(h)]
  BY <1>1 DEF EditRead, ReadJob
<1> QED
  BY <1>1, <1>2, <1>3 DEF EditRead, Goes, Moves, Statements, TypedAt

-----------------------------------------------------------------------------
(* Every step keeps the types. *)

LEMMA SameTables ==
  ASSUME TypeInv, UNCHANGED <<tables, fails>>, edits' = edits
  PROVE  TablesType' /\ BoundType'
BY DEF TypeInv, TablesType, BoundType, tables

LEMMA SaveSessionType == ASSUME TypeInv, NEW h \in Requests, SaveSession(h) PROVE TypeInv'
<1>1. TablesType' /\ BoundType'
  BY DEF SaveSession, TypeInv, TablesType, BoundType
<1>2. CASE Reply(h, "refused")
  BY <1>1, <1>2, ReplyType DEF TypeInv
<1>3. CASE Goes(h, "saveSession", "records") /\ UNCHANGED job
  <2>1. job[h] \in JobType /\ TypedAt(pc[h], job[h])
    BY DEF TypeInv, RequestType
  <2>2. Moves(h, "records", job[h]) /\ TypedAt("records", job[h])
    BY <1>3, <2>1 DEF Goes, Moves, Statements, TypedAt, TypeInv, RequestType
  <2> QED
    BY <1>1, <2>2, MoveType
<1> QED
  BY <1>2, <1>3 DEF SaveSession

LEMMA DraftFacts ==
  ASSUME TypeInv, NEW h \in Requests, NEW s \in DOMAIN job[h].draft
  PROVE  s \in Students /\ job[h].draft[s] \in Entry
<1>1. job[h].draft \in Partial(Entry)
  BY DEF TypeInv, RequestType, JobType
<1> QED
  BY <1>1, PartialFacts

LEMMA LoggedType ==
  ASSUME TypeInv, NEW s \in Students, NEW c \in Entry PROVE Logged(s, c) \in Logs
<1>1. log[s] \in Logs
  BY DEF TypeInv, TablesType
<1>2. c.from # None => c \in [from : Statuses, to : Statuses]
  BY DEF Entry
<1> QED
  BY <1>1, <1>2, AppendProperties DEF Logged, Logs

LEMMA CommitType == ASSUME TypeInv, NEW h \in Requests, Commit(h) PROVE TypeInv'
<1>1. mark' \in [Students -> Statuses \union {None}]
  BY DraftFacts DEF Commit, TypeInv, TablesType, Entry
<1>2. log' \in [Students -> Logs]
  BY DraftFacts, LoggedType DEF Commit, TypeInv, TablesType
<1>3. TablesType' /\ BoundType'
  BY <1>1, <1>2 DEF Commit, TypeInv, TablesType, BoundType
<1>4. Reply(h, "ok")
  BY DEF Commit
<1> QED
  BY <1>3, <1>4, ReplyType DEF TypeInv

LEMMA DieType == ASSUME TypeInv, NEW h \in Requests, Die(h) PROVE TypeInv'
<1>1. TablesType' /\ BoundType'
  BY AttendanceAssumption DEF Die, TypeInv, TablesType, BoundType
<1>2. Reply(h, "refused")
  BY DEF Die
<1> QED
  BY <1>1, <1>2, ReplyType DEF TypeInv

LEMMA StartEditType ==
  ASSUME TypeInv, NEW h \in Requests, NEW s \in Students, NEW x \in Statuses, StartEdit(h, s, x)
  PROVE  TypeInv'
<1>1. TablesType' /\ BoundType'
  BY AttendanceAssumption DEF StartEdit, TypeInv, TablesType, BoundType, tables
<1> QED
  BY <1>1, StartEditMoves, MoveType

LEMMA EditLogMoves ==
  ASSUME TypeInv, NEW h \in Requests, EditLog(h)
  PROVE  Moves(h, "editRead", job[h]) /\ TypedAt("editRead", job[h]) /\ pc[h] = "editLog"
<1>1. job[h] \in JobType /\ TypedAt(pc[h], job[h]) /\ job = [job EXCEPT ![h] = job[h]]
  BY DEF TypeInv, RequestType
<1> QED
  BY <1>1 DEF EditLog, Goes, Moves, Statements, TypedAt

LEMMA EditLogType == ASSUME TypeInv, NEW h \in Requests, EditLog(h) PROVE TypeInv'
<1> DEFINE j == job[h]
           c == Change(j.seen, j.to)
<1>1. j.student \in Students /\ c \in [from : Statuses, to : Statuses]
  BY DEF TypeInv, TypedAt, EditLog, Goes, Change
<1>2. log[j.student] \in Seq([from : Statuses, to : Statuses])
  BY <1>1 DEF TypeInv, TablesType, Logs
<1>3. Append(log[j.student], c) \in Logs
  BY <1>1, <1>2, AppendProperties DEF Logs
<1>4. log' = [log EXCEPT ![j.student] = Append(log[j.student], c)]
  BY DEF EditLog
<1> HIDE DEF j, c
<1>5. log' \in [Students -> Logs]
  BY <1>3, <1>4 DEF TypeInv, TablesType
<1>6. TablesType' /\ BoundType'
  BY <1>5 DEF EditLog, TypeInv, TablesType, BoundType
<1> QED
  BY <1>6, EditLogMoves, MoveType

LEMMA EditSaveMoves ==
  ASSUME TypeInv, NEW h \in Requests, EditSave(h)
  PROVE  Moves(h, "idle", NoJob) /\ TypedAt("idle", NoJob) /\ pc[h] = "editSave"
BY NoJobTyped DEF EditSave, Goes, Moves, Statements

LEMMA EditSaveType == ASSUME TypeInv, NEW h \in Requests, EditSave(h) PROVE TypeInv'
<1>1. job[h].student \in Students /\ job[h].to \in Statuses
  BY DEF TypeInv, TypedAt, EditSave, Goes
<1>2. mark' \in [Students -> Statuses \union {None}]
  BY <1>1 DEF EditSave, TypeInv, TablesType
<1>3. TablesType' /\ BoundType'
  BY <1>2 DEF EditSave, TypeInv, TablesType, BoundType
<1> QED
  BY <1>3, EditSaveMoves, MoveType

LEMMA DeliverMoves ==
  ASSUME TypeInv, NEW h \in Requests, Deliver(h)
  PROVE  Moves(h, "idle", job[h]) /\ TypedAt("idle", job[h]) /\ pc[h] \in {"ok", "refused"}
<1>1. job[h] \in JobType /\ TypedAt(pc[h], job[h]) /\ job = [job EXCEPT ![h] = job[h]]
  BY DEF TypeInv, RequestType
<1> QED
  BY <1>1 DEF Deliver, Goes, Moves, Statements, TypedAt

LEMMA TypeStep == TypeInv /\ [AttendanceNext]_attendance => TypeInv'
<1> SUFFICES ASSUME TypeInv, [AttendanceNext]_attendance PROVE TypeInv'
  OBVIOUS
<1>1. CASE UNCHANGED attendance
  BY <1>1 DEF TypeInv, TablesType, RequestType, BoundType, TypedAt, attendance, tables
<1>2. ASSUME NEW h \in Requests, FindSession(h) PROVE TypeInv'
  <2>1. TablesType' /\ BoundType'
    BY <1>2, SameTables DEF FindSession
  <2> QED
    BY <1>2, <2>1, FindSessionMoves, MoveType
<1>3. ASSUME NEW h \in Requests, NEW s \in Students, FindRecord(h, s) PROVE TypeInv'
  <2>1. TablesType' /\ BoundType'
    BY <1>3, SameTables DEF FindRecord
  <2> QED
    BY <1>3, <2>1, FindRecordMoves, MoveType
<1>4. ASSUME NEW h \in Requests, SaveRecord(h) PROVE TypeInv'
  <2>1. TablesType' /\ BoundType'
    BY <1>4, SameTables DEF SaveRecord
  <2> QED
    BY <1>4, <2>1, SaveRecordMoves, MoveType
<1>5. ASSUME NEW h \in Requests, EditRead(h) PROVE TypeInv'
  <2>1. TablesType' /\ BoundType'
    BY <1>5, SameTables DEF EditRead
  <2> QED
    BY <1>5, <2>1, EditReadMoves, MoveType
<1>6. ASSUME NEW h \in Requests, Deliver(h) PROVE TypeInv'
  <2>1. TablesType' /\ BoundType'
    BY <1>6, SameTables DEF Deliver
  <2> QED
    BY <1>6, <2>1, DeliverMoves, MoveType
<1>7. ASSUME NEW h \in Requests, NEW roll \in Rolls, StartMark(h, roll) PROVE TypeInv'
  <2>1. TablesType' /\ BoundType'
    BY <1>7, SameTables DEF StartMark
  <2> QED
    BY <1>7, <2>1, StartMarkMoves, MoveType
<1>8. CASE Cancel \/ \E s \in Students : Withdraw(s)
  BY <1>8 DEF Cancel, Withdraw, TypeInv, TablesType, RequestType, BoundType, TypedAt
<1> QED
  BY <1>1, <1>2, <1>3, <1>4, <1>5, <1>6, <1>7, <1>8, SaveSessionType, CommitType, DieType,
     StartEditType, EditLogType, EditSaveType
  DEF AttendanceNext, Proceed, Correction, RollCall

LEMMA TypeInvTypeOK == TypeInv => AttendanceTypeOK
BY DEF TypeInv, TablesType, RequestType, BoundType, AttendanceTypeOK, Statements, JobType, Entry

\* Every variable keeps its type, also when corrections overlap other requests or die.
THEOREM TypeCorrect == AttendanceSpec => []AttendanceTypeOK
<1>1. AttendanceSpec => []TypeInv
  BY TypeInit, TypeStep, PTL DEF AttendanceSpec
<1> QED
  BY <1>1, TypeInvTypeOK, PTL

-----------------------------------------------------------------------------
(* The session's row keeps roll calls apart. *)

LEMMA MarkInit == AttendanceInit => MarkInv
BY NoJobType DEF AttendanceInit, MarkInv, MarkOK, Writing

\* What another request has seen stays true, unless it has not yet seen anything.
LEMMA OtherMark ==
  ASSUME NEW g \in Requests, MarkOK(g), pc'[g] = pc[g], job'[g] = job[g],
         pc[g] \in Writing => UNCHANGED <<mark, lock>>
  PROVE  MarkOK(g)'
<1>1. CASE pc[g] \in Writing
  BY <1>1 DEF MarkOK, Drafted, Seen
<1>2. CASE pc[g] \notin Writing
  BY <1>2 DEF MarkOK, Writing
<1> QED
  BY <1>1, <1>2

\* A request that does not write has no draft.
LEMMA NoDraft ==
  ASSUME NEW g \in Requests, pc'[g] \notin Writing, DOMAIN job'[g].draft = {},
         pc'[g] \in {"findSession", "saveSession"} => job'[g].left = DOMAIN job'[g].roll
  PROVE  MarkOK(g)'
BY DEF MarkOK, Writing

LEMMA MoveMark ==
  ASSUME TypeInv, MarkInv, NEW h \in Requests, NEW p, NEW j, Moves(h, p, j), MarkOK(h)',
         UNCHANGED <<mark, lock>>
  PROVE  MarkInv'
<1>1. ASSUME NEW g \in Requests \ {h} PROVE MarkOK(g)'
  BY MoveFacts, OtherMark DEF MarkInv
<1> QED
  BY <1>1 DEF MarkInv

LEMMA StartMarkMark ==
  ASSUME TypeInv, MarkInv, NEW h \in Requests, NEW roll \in Rolls, StartMark(h, roll)
  PROVE  MarkInv'
<1>1. /\ pc'[h] \in {"refused", "findSession"} /\ job'[h] = MarkedJob(roll)
      /\ DOMAIN MarkedJob(roll).roll = MarkedJob(roll).left /\ DOMAIN MarkedJob(roll).draft = {}
  BY StartMarkMoves, MoveFacts
<1>2. MarkOK(h)'
  BY <1>1, NoDraft DEF Writing
<1>3. UNCHANGED <<mark, lock>>
  BY DEF StartMark, tables
<1> QED
  BY <1>2, <1>3, StartMarkMoves, MoveMark

LEMMA FindSessionMark ==
  ASSUME TypeInv, MarkInv, NEW h \in Requests, FindSession(h) PROVE MarkInv'
<1>1. /\ pc[h] = "findSession" /\ pc'[h] = "saveSession" /\ job'[h] = FoundJob(h)
      /\ job[h] \in JobType /\ MarkOK(h)
  BY FindSessionMoves, MoveFacts DEF MarkInv, TypeInv, RequestType
<1>2. /\ FoundJob(h).draft = job[h].draft /\ FoundJob(h).left = job[h].left
      /\ FoundJob(h).roll = job[h].roll
  BY <1>1 DEF FoundJob, JobType
<1>3. MarkOK(h)'
  BY <1>1, <1>2, NoDraft DEF Writing, MarkOK
<1>4. UNCHANGED <<mark, lock>>
  BY DEF FindSession, tables
<1> QED
  BY <1>3, <1>4, FindSessionMoves, MoveMark

\* A request that ends leaves the others alone: none of them writes, or the row is theirs.
LEMMA ReplyMark ==
  ASSUME TypeInv, MarkInv, NEW h \in Requests, NEW answer \in {"ok", "refused"}, Reply(h, answer),
         \A g \in Requests \ {h} : pc[g] \in Writing => UNCHANGED <<mark, lock>>
  PROVE  MarkInv'
<1>1. MarkOK(h)'
  BY ReplyType, NoDraft, NoJobType DEF Writing
<1>2. ASSUME NEW g \in Requests \ {h} PROVE MarkOK(g)'
  BY ReplyType, OtherMark DEF MarkInv
<1> QED
  BY <1>1, <1>2 DEF MarkInv

LEMMA SaveSessionMark ==
  ASSUME TypeInv, MarkInv, NEW h \in Requests, SaveSession(h) PROVE MarkInv'
<1>1. \A g \in Requests : pc[g] \notin Writing
  BY AttendanceAssumption DEF MarkInv, MarkOK, SaveSession
<1>2. CASE Reply(h, "refused")
  BY <1>1, <1>2, ReplyMark
<1>3. CASE Goes(h, "saveSession", "records") /\ lock' = h /\ UNCHANGED job
  <2>1. /\ pc[h] = "saveSession" /\ pc'[h] = "records"
        /\ \A g \in Requests \ {h} : pc'[g] = pc[g]
    BY <1>3 DEF Goes, TypeInv, RequestType
  <2>2. job[h].left = DOMAIN job[h].roll /\ DOMAIN job[h].draft = {}
    BY <2>1 DEF MarkInv, MarkOK, Writing
  <2>3. MarkOK(h)'
    BY <1>3, <2>1, <2>2 DEF MarkOK, Writing
  <2>4. ASSUME NEW g \in Requests \ {h} PROVE MarkOK(g)'
    BY <1>1, <1>3, <2>1, OtherMark DEF MarkInv
  <2> QED
    BY <2>3, <2>4 DEF MarkInv
<1> QED
  BY <1>2, <1>3 DEF SaveSession

LEMMA FindRecordMark ==
  ASSUME TypeInv, MarkInv, NEW h \in Requests, NEW s \in Students, FindRecord(h, s)
  PROVE  MarkInv'
<1> DEFINE p == IF mark[s] = job[h].roll[s] THEN "records" ELSE "saveRecord"
           j == SeenJob(h, s)
<1>1. /\ Moves(h, p, j) /\ pc[h] = "records" /\ s \in DOMAIN job[h].roll /\ s \in job[h].left
  BY FindRecordMoves
<1>2. job[h] \in JobType /\ MarkOK(h)
  BY DEF MarkInv, TypeInv, RequestType
<1>3. /\ j.left = job[h].left \ {s} /\ j.roll = job[h].roll /\ j.draft = job[h].draft
      /\ j.student = s /\ j.seen = mark[s] /\ j.to = job[h].roll[s]
  BY <1>2 DEF SeenJob, JobType
<1>4. UNCHANGED <<mark, lock>>
  BY DEF FindRecord, tables
<1>5. pc'[h] = p /\ job'[h] = j
  BY <1>1, MoveFacts
<1> HIDE DEF j
<1>6. lock = h /\ pc'[h] \in Writing
  BY <1>1, <1>2, <1>5 DEF MarkOK, Writing
<1>7. ASSUME NEW r \in DOMAIN j.draft PROVE Drafted(h, r)'
  BY <1>2, <1>3, <1>4, <1>5 DEF MarkOK, Drafted
<1>8. ASSUME NEW r \in DOMAIN j.roll \ j.left PROVE Seen(h, r)'
  BY <1>1, <1>2, <1>3, <1>4, <1>5 DEF MarkOK, Seen, Writing
<1>9. MarkOK(h)'
  BY <1>1, <1>3, <1>4, <1>5, <1>6, <1>7, <1>8 DEF MarkOK, Writing
<1> QED
  BY <1>1, <1>4, <1>9, MoveMark

LEMMA SaveRecordMark ==
  ASSUME TypeInv, MarkInv, NEW h \in Requests, SaveRecord(h) PROVE MarkInv'
<1> DEFINE j == DraftedJob(h)
<1>1. Moves(h, "records", j) /\ pc[h] = "saveRecord"
  BY SaveRecordMoves
<1>2. job[h] \in JobType /\ MarkOK(h)
  BY DEF MarkInv, TypeInv, RequestType
<1>3. /\ j.left = job[h].left /\ j.roll = job[h].roll
      /\ j.draft = [s \in DOMAIN job[h].draft \union {job[h].student} |->
           IF s = job[h].student THEN Change(job[h].seen, job[h].to) ELSE job[h].draft[s]]
  BY <1>2 DEF DraftedJob, JobType
<1>4. UNCHANGED <<mark, lock>>
  BY DEF SaveRecord, tables
<1>5. pc'[h] = "records" /\ job'[h] = j
  BY <1>1, MoveFacts
<1> HIDE DEF j
<1>6. lock = h
  BY <1>1, <1>2 DEF MarkOK, Writing
<1>7. ASSUME NEW r \in DOMAIN j.draft PROVE Drafted(h, r)'
  <2>1. CASE r = job[h].student
    BY <1>1, <1>2, <1>3, <1>4, <1>5, <2>1 DEF MarkOK, Drafted
  <2>2. CASE r # job[h].student
    BY <1>2, <1>3, <1>4, <1>5, <2>2 DEF MarkOK, Drafted
  <2> QED
    BY <2>1, <2>2
<1>8. ASSUME NEW r \in DOMAIN j.roll \ j.left PROVE Seen(h, r)'
  BY <1>1, <1>2, <1>3, <1>4, <1>5 DEF MarkOK, Seen, Writing
<1>9. MarkOK(h)'
  BY <1>4, <1>5, <1>6, <1>7, <1>8 DEF MarkOK, Writing
<1> QED
  BY <1>1, <1>4, <1>9, MoveMark

LEMMA CommitMark == ASSUME TypeInv, MarkInv, NEW h \in Requests, Commit(h) PROVE MarkInv'
<1>1. \A g \in Requests \ {h} : pc[g] \notin Writing
  BY DEF MarkInv, MarkOK, Commit, Writing
<1> QED
  BY <1>1, ReplyMark DEF Commit

LEMMA DieMark == ASSUME TypeInv, MarkInv, NEW h \in Requests, Die(h) PROVE MarkInv'
<1>1. \A g \in Requests \ {h} : pc[g] \in Writing => UNCHANGED <<mark, lock>>
  BY DEF MarkInv, MarkOK, Die
<1> QED
  BY <1>1, ReplyMark DEF Die

\* A correction has no draft; it may save while no roll call is in progress.
LEMMA EditMark ==
  ASSUME TypeInv, MarkInv, NEW h \in Requests, NEW p, NEW j, Moves(h, p, j),
         p \notin Writing \union {"findSession", "saveSession"},
         DOMAIN j.draft = {},
         \A g \in Requests \ {h} : pc[g] \in Writing => UNCHANGED <<mark, lock>>
  PROVE  MarkInv'
<1>1. MarkOK(h)'
  BY MoveFacts, NoDraft
<1>2. ASSUME NEW g \in Requests \ {h} PROVE MarkOK(g)'
  BY MoveFacts, OtherMark DEF MarkInv
<1> QED
  BY <1>1, <1>2 DEF MarkInv

LEMMA MarkStep ==
  ASSUME TypeInv, MarkInv, Alone, [AttendanceNext]_attendance PROVE MarkInv'
<1>1. CASE UNCHANGED attendance
  BY <1>1 DEF MarkInv, MarkOK, Drafted, Seen, attendance, tables
<1>2. CASE Cancel \/ \E s \in Students : Withdraw(s)
  BY <1>2 DEF Cancel, Withdraw, MarkInv, MarkOK, Drafted, Seen
<1>3. ASSUME NEW h \in Requests, NEW s \in Students, NEW x \in Statuses, StartEdit(h, s, x)
      PROVE  MarkInv'
  <2>1. DOMAIN EditJob(s, x).draft = {}
    BY NoJobType DEF EditJob, NoJob
  <2>2. UNCHANGED <<mark, lock>>
    BY <1>3 DEF StartEdit, tables
  <2> QED
    BY <1>3, <2>1, <2>2, StartEditMoves, EditMark DEF Writing
<1>4. ASSUME NEW h \in Requests, EditLog(h) PROVE MarkInv'
  <2>1. DOMAIN job[h].draft = {} /\ UNCHANGED <<mark, lock>>
    BY <1>4, EditLogMoves DEF MarkInv, MarkOK, Writing, EditLog
  <2> QED
    BY <1>4, <2>1, EditLogMoves, EditMark DEF Writing
<1>5. ASSUME NEW h \in Requests, EditRead(h) PROVE MarkInv'
  <2>1. DOMAIN job[h].draft = {} /\ UNCHANGED <<mark, lock>> /\ job[h] \in JobType
    BY <1>5, EditReadMoves DEF MarkInv, MarkOK, Writing, EditRead, tables, TypeInv, RequestType
  <2>2. ReadJob(h).draft = job[h].draft
    BY <2>1 DEF ReadJob, JobType
  <2> QED
    BY <1>5, <2>1, <2>2, EditReadMoves, EditMark DEF Writing
<1>6. ASSUME NEW h \in Requests, EditSave(h) PROVE MarkInv'
  <2>1. \A g \in Requests \ {h} : pc[g] \notin Writing
    BY <1>6, EditSaveMoves DEF Alone, Editing, Marking, Writing
  <2> QED
    BY <1>6, <2>1, EditSaveMoves, EditMark, NoJobType DEF Writing
<1>7. ASSUME NEW h \in Requests, Deliver(h) PROVE MarkInv'
  <2>1. DOMAIN job[h].draft = {} /\ UNCHANGED <<mark, lock>>
    BY <1>7, DeliverMoves DEF MarkInv, MarkOK, Writing, Deliver, tables
  <2> QED
    BY <1>7, <2>1, DeliverMoves, EditMark DEF Writing
<1> QED
  BY <1>1, <1>2, <1>3, <1>4, <1>5, <1>6, <1>7, StartMarkMark, FindSessionMark, SaveSessionMark,
     FindRecordMark, SaveRecordMark, CommitMark, DieMark
  DEF AttendanceNext, Proceed, Correction, RollCall

-----------------------------------------------------------------------------
(* A correction that is alone knows the mark it corrects. *)

LEMMA EditInit == AttendanceInit => EditInv
BY DEF AttendanceInit, EditInv, EditOK, Alone, Editing

LEMMA NoEdit == ASSUME Editing' = {} PROVE EditInv'
BY DEF EditInv, EditOK, Alone, Editing

\* A roll call is in progress, or begins, only while no mark is being corrected.
LEMMA NoEditAround ==
  ASSUME Alone, NEW h \in Requests, Editing = {} \/ h \in Marking, NEW p, pc'[h] = p,
         p \notin {"editLog", "editRead", "editSave"},
         \A g \in Requests \ {h} : pc'[g] = pc[g]
  PROVE  Editing = {} /\ Editing' = {}
BY DEF Alone, Editing, Marking

LEMMA MarkingStep ==
  ASSUME EditsAlone, TypeInv, Alone, NEW h \in Requests,
         \/ FindSession(h) \/ SaveSession(h) \/ SaveRecord(h) \/ Commit(h) \/ Die(h)
         \/ \E s \in Students : FindRecord(h, s)
         \/ \E roll \in Rolls : StartMark(h, roll)
  PROVE  Editing = {} /\ Editing' = {}
<1>1. ASSUME NEW roll \in Rolls, StartMark(h, roll) PROVE Editing = {} /\ Editing' = {}
  <2>1. pc'[h] \in {"refused", "findSession"} /\ \A g \in Requests \ {h} : pc'[g] = pc[g]
    BY <1>1, StartMarkMoves, MoveFacts
  <2>2. Editing = {}
    BY <1>1 DEF StartMark
  <2> QED
    BY <2>1, <2>2, NoEditAround
<1>2. CASE FindSession(h)
  BY <1>2, FindSessionMoves, MoveFacts, NoEditAround DEF Marking
<1>3. CASE SaveRecord(h)
  BY <1>3, SaveRecordMoves, MoveFacts, NoEditAround DEF Marking
<1>4. ASSUME NEW s \in Students, FindRecord(h, s) PROVE Editing = {} /\ Editing' = {}
  BY <1>4, FindRecordMoves, MoveFacts, NoEditAround DEF Marking
<1>5. CASE SaveSession(h)
  <2>1. /\ pc[h] = "saveSession" /\ pc'[h] \in {"idle", "ok", "refused", "records"}
        /\ \A g \in Requests \ {h} : pc'[g] = pc[g]
    BY <1>5, ReplyType DEF SaveSession, Goes, TypeInv, RequestType
  <2> QED
    BY <2>1, NoEditAround DEF Marking
<1>6. CASE Commit(h)
  BY <1>6, ReplyType, NoEditAround DEF Commit, Marking
<1>7. CASE Die(h)
  BY <1>7, ReplyType, NoEditAround DEF Die
<1> QED
  BY <1>1, <1>2, <1>3, <1>4, <1>5, <1>6, <1>7

\* The correction of request h is in progress before and after the step, or ends.
LEMMA OneEdit ==
  ASSUME NEW h \in Requests, EditOK(h)',
         \A g \in Requests \ {h} : pc'[g] \in {"idle", "ok", "refused"}
  PROVE  EditInv'
<1>1. ASSUME NEW g \in Requests \ {h} PROVE EditOK(g)'
  BY DEF EditOK
<1>2. Alone'
  BY DEF Alone, Editing, Marking
<1> QED
  BY <1>1, <1>2 DEF EditInv

LEMMA AloneFacts ==
  ASSUME TypeInv, Alone, NEW h \in Editing
  PROVE  \A g \in Requests \ {h} : pc[g] \in {"idle", "ok", "refused"}
BY DEF Alone, Editing, Marking, TypeInv, RequestType, Statements

LEMMA StartEditEdit ==
  ASSUME EditsAlone, TypeInv, NEW h \in Requests, NEW s \in Students, NEW x \in Statuses,
         StartEdit(h, s, x)
  PROVE  EditInv'
<1>1. /\ pc'[h] = IF x = mark[s] THEN "editRead" ELSE "editLog"
      /\ job'[h] = EditJob(s, x)
      /\ \A g \in Requests \ {h} : pc'[g] = pc[g]
  BY StartEditMoves, MoveFacts
<1>2. EditJob(s, x).student = s /\ EditJob(s, x).to = x /\ EditJob(s, x).seen = mark[s]
  BY DEF EditJob, NoJob
<1>3. mark' = mark
  BY DEF StartEdit, tables
<1>4. EditOK(h)'
  BY <1>1, <1>2, <1>3 DEF EditOK
<1>5. \A g \in Requests : pc[g] \in {"idle", "ok", "refused"}
  BY DEF StartEdit, Editing, Marking, TypeInv, RequestType, Statements
<1> QED
  BY <1>1, <1>4, <1>5, OneEdit

LEMMA AppendEnd ==
  ASSUME NEW S, NEW q \in Seq(S), NEW c \in S
  PROVE  /\ Append(q, c) # <<>> /\ Append(q, c)[Len(Append(q, c))] = c
         /\ SubSeq(Append(q, c), 1, Len(Append(q, c)) - 1) = q
<1>1. /\ Append(q, c) \in Seq(S) /\ Append(q, c) # <<>> /\ Len(Append(q, c)) = Len(q) + 1
      /\ \A i \in 1..Len(q) : Append(q, c)[i] = q[i]
      /\ Append(q, c)[Len(q) + 1] = c
  BY AppendProperties
<1>2. SubSeq(Append(q, c), 1, Len(q)) = q
  OBVIOUS
<1> QED
  BY <1>1, <1>2

LEMMA EditLogEdit ==
  ASSUME TypeInv, EditInv, NEW h \in Requests, EditLog(h) PROVE EditInv'
<1> DEFINE s == job[h].student
           c == Change(job[h].seen, job[h].to)
<1>1. /\ pc[h] = "editLog" /\ pc'[h] = "editRead" /\ job'[h] = job[h]
      /\ \A g \in Requests \ {h} : pc'[g] = pc[g]
  BY EditLogMoves, MoveFacts
<1>2. s \in Students /\ c \in [from : Statuses, to : Statuses]
  BY <1>1 DEF TypeInv, TypedAt, Change
<1>3. log[s] \in Seq([from : Statuses, to : Statuses])
  BY <1>2 DEF TypeInv, TablesType, Logs
<1>4. log'[s] = Append(log[s], c)
  BY <1>2 DEF EditLog, TypeInv, TablesType
<1>5. log'[s] # <<>> /\ log'[s][Len(log'[s])] = c
  BY <1>2, <1>3, <1>4, AppendEnd
<1>6. mark' = mark
  BY DEF EditLog
<1>7. EditOK(h)'
  BY <1>1, <1>5, <1>6 DEF EditOK, EditInv
<1>8. \A g \in Requests \ {h} : pc[g] \in {"idle", "ok", "refused"}
  BY <1>1, AloneFacts DEF EditInv, Editing
<1> QED
  BY <1>1, <1>7, <1>8, OneEdit

LEMMA EditReadEdit ==
  ASSUME TypeInv, EditInv, NEW h \in Requests, EditRead(h) PROVE EditInv'
<1>1. /\ pc[h] = "editRead" /\ pc'[h] = "editSave" /\ job'[h] = ReadJob(h)
      /\ \A g \in Requests \ {h} : pc'[g] = pc[g]
  BY EditReadMoves, MoveFacts
<1>2. /\ ReadJob(h).student = job[h].student /\ ReadJob(h).to = job[h].to
      /\ ReadJob(h).seen = job[h].seen
      /\ ReadJob(h).found = (mark[job[h].student] = job[h].to)
  BY DEF ReadJob, TypeInv, RequestType, JobType
<1>3. UNCHANGED <<mark, log>>
  BY DEF EditRead, tables
<1>4. EditOK(h)'
  BY <1>1, <1>2, <1>3 DEF EditOK, EditInv
<1>5. \A g \in Requests \ {h} : pc[g] \in {"idle", "ok", "refused"}
  BY <1>1, AloneFacts DEF EditInv, Editing
<1> QED
  BY <1>1, <1>4, <1>5, OneEdit

LEMMA EditSaveEdit ==
  ASSUME TypeInv, EditInv, NEW h \in Requests, EditSave(h) PROVE EditInv' /\ Editing' = {}
<1>1. /\ pc[h] = "editSave" /\ pc'[h] = "idle"
      /\ \A g \in Requests \ {h} : pc'[g] = pc[g]
  BY EditSaveMoves, MoveFacts
<1>2. \A g \in Requests \ {h} : pc[g] \in {"idle", "ok", "refused"}
  BY <1>1, AloneFacts DEF EditInv, Editing
<1>3. Editing' = {}
  BY <1>1, <1>2 DEF Editing
<1> QED
  BY <1>3, NoEdit

LEMMA DeliverEdit ==
  ASSUME TypeInv, EditInv, NEW h \in Requests, Deliver(h) PROVE EditInv'
<1>1. /\ pc[h] \in {"ok", "refused"} /\ pc'[h] = "idle"
      /\ \A g \in Requests \ {h} : pc'[g] = pc[g] /\ job'[g] = job[g]
  BY DeliverMoves, MoveFacts
<1>2. UNCHANGED <<mark, log>>
  BY DEF Deliver, tables
<1>3. ASSUME NEW g \in Requests PROVE EditOK(g)'
  BY <1>1, <1>2 DEF EditOK, EditInv
<1>4. Alone'
  BY <1>1 DEF EditInv, Alone, Editing, Marking
<1> QED
  BY <1>3, <1>4 DEF EditInv

LEMMA EditStep ==
  ASSUME EditsAlone, TypeInv, EditInv, [AttendanceNext]_attendance PROVE EditInv'
<1>1. CASE UNCHANGED attendance
  BY <1>1 DEF EditInv, EditOK, Alone, Editing, Marking, attendance, tables
<1>2. CASE Cancel \/ \E s \in Students : Withdraw(s)
  BY <1>2 DEF Cancel, Withdraw, EditInv, EditOK, Alone, Editing, Marking
<1>3. ASSUME NEW h \in Requests,
             \/ FindSession(h) \/ SaveSession(h) \/ SaveRecord(h) \/ Commit(h) \/ Die(h)
             \/ \E s \in Students : FindRecord(h, s)
             \/ \E roll \in Rolls : StartMark(h, roll)
      PROVE  EditInv'
  BY <1>3, MarkingStep, NoEdit DEF EditInv
<1> QED
  BY <1>1, <1>2, <1>3, StartEditEdit, EditLogEdit, EditReadEdit, EditSaveEdit, DeliverEdit
  DEF AttendanceNext, Proceed, Correction, RollCall

LEMMA Invariant == ASSUME EditsAlone PROVE AttendanceSpec => []BookInv
<1>1. AttendanceInit => BookInv
  BY TypeInit, MarkInit, EditInit DEF BookInv
<1>2. BookInv /\ [AttendanceNext]_attendance => BookInv'
  BY TypeStep, MarkStep, EditStep DEF BookInv, EditInv
<1> QED
  BY <1>1, <1>2, PTL DEF AttendanceSpec

-----------------------------------------------------------------------------
(* What a roll call commits. *)

LEMMA CommitEnters ==
  ASSUME BookInv, NEW h \in Requests, Commit(h), NEW s \in DOMAIN job[h].roll
  PROVE  mark'[s] = job[h].roll[s]
<1>1. job[h].left = {} /\ pc[h] = "records" /\ MarkOK(h) /\ job[h] \in JobType
  BY DEF BookInv, TypeInv, RequestType, MarkInv, Commit
<1>2. s \in Students
  BY <1>1, PartialFacts DEF JobType
<1>3. mark'[s] = IF s \in DOMAIN job[h].draft THEN job[h].draft[s].to ELSE mark[s]
  BY <1>2 DEF Commit
<1>4. CASE s \in DOMAIN job[h].draft
  <2>1. Drafted(h, s)
    BY <1>1, <1>4 DEF MarkOK
  <2>2. job[h].draft[s].to = job[h].roll[s]
    BY <2>1 DEF Drafted, Change
  <2> QED
    BY <1>3, <1>4, <2>2
<1>5. CASE s \notin DOMAIN job[h].draft
  BY <1>1, <1>3, <1>5 DEF MarkOK, Seen, Writing
<1> QED
  BY <1>4, <1>5

\* A roll call that commits is in force as a whole, as long as corrections neither overlap other
\* requests nor die (bulkMark; "converges to the same end state", attendance.service.ts:159-160).
THEOREM RollsInForce == ASSUME EditsAlone PROVE AttendanceSpec => RollInForce
<1>1. BookInv => \A h \in Requests : Enters(h)
  BY CommitEnters DEF Enters
<1>2. AttendanceSpec => []BookInv
  BY Invariant
<1> QED
  BY <1>1, <1>2, PTL DEF AttendanceSpec, RollInForce

-----------------------------------------------------------------------------
(* Every step of the service enters a roll in the book or leaves it as it is. *)

SettledLog == [s \in Students |-> Settled(s)]

LEMMA BookStart == AttendanceInit => Book!BookInit
BY DEF AttendanceInit, Book!BookInit, Settled, Unsaved

LEMMA NobodyEdits ==
  ASSUME Editing = {} PROVE SettledLog = [s \in Students |-> log[s]]
BY DEF Editing, SettledLog, Settled, Unsaved

LEMMA NobodyWillEdit ==
  ASSUME Editing' = {} PROVE SettledLog' = [s \in Students |-> log'[s]]
BY DEF Editing, SettledLog, Settled, Unsaved

\* No audit row is written and none becomes that of a saved record.
LEMMA SameSettled ==
  ASSUME UNCHANGED log,
         \A g \in Requests, s \in Students : Unsaved(g, s)' <=> Unsaved(g, s)
  PROVE  UNCHANGED SettledLog
BY DEF SettledLog, Settled

LEMMA CommitBook ==
  ASSUME EditsAlone, BookInv, NEW h \in Requests, Commit(h) PROVE Book!BookNext
<1> DEFINE draft == job[h].draft
           D == DOMAIN draft
           roll == [s \in D |-> draft[s].to]
<1>1. SettledLog = [s \in Students |-> log[s]] /\ SettledLog' = [s \in Students |-> log'[s]]
  BY MarkingStep, NobodyEdits, NobodyWillEdit DEF BookInv, EditInv
<1>2. ASSUME NEW s \in D
      PROVE  /\ s \in Students /\ draft[s].to \in Statuses /\ draft[s].to # mark[s]
             /\ draft[s] = [from |-> mark[s], to |-> draft[s].to]
  <2>1. s \in Students /\ draft[s] \in Entry
    BY DraftFacts DEF BookInv
  <2>2. Drafted(h, s)
    BY DEF BookInv, MarkInv, MarkOK
  <2> QED
    BY <2>1, <2>2 DEF Drafted, Change, Entry
<1>3. /\ mark' = [s \in Students |-> IF s \in D THEN draft[s].to ELSE mark[s]]
      /\ log' = [s \in Students |-> IF s \in D THEN Logged(s, draft[s]) ELSE log[s]]
  BY DEF Commit
<1> HIDE DEF draft
<1>4. D \in SUBSET Students /\ roll \in [D -> Statuses]
  BY <1>2
<1>5. mark' = [s \in Students |-> IF s \in DOMAIN roll THEN roll[s] ELSE mark[s]]
  BY <1>3
<1>6. ASSUME NEW s \in Students
      PROVE  log'[s] = IF s \in {r \in DOMAIN roll : mark[r] \notin {None, roll[r]}}
                       THEN Append(SettledLog[s], [from |-> mark[s], to |-> roll[s]])
                       ELSE SettledLog[s]
  <2>1. CASE s \in D
    <3>1. log'[s] = IF mark[s] = None THEN log[s] ELSE Append(log[s], draft[s])
      BY <1>2, <1>3, <2>1 DEF Logged
    <3> QED
      BY <1>1, <1>2, <2>1, <3>1
  <2>2. CASE s \notin D
    BY <1>1, <1>3, <2>2
  <2> QED
    BY <2>1, <2>2
<1> HIDE DEF roll, D
<1>7. SettledLog' = [s \in Students |->
        IF s \in {r \in DOMAIN roll : mark[r] \notin {None, roll[r]}}
        THEN Append(SettledLog[s], [from |-> mark[s], to |-> roll[s]]) ELSE SettledLog[s]]
  BY <1>1, <1>6
<1>8. Book!Enter(roll)
  BY <1>5, <1>7 DEF Book!Enter, Book!Changed, SettledLog
<1> QED
  BY <1>4, <1>8 DEF Book!BookNext

\* A correction's audit row counts once its record is saved.
LEMMA EditLogBook ==
  ASSUME BookInv, NEW h \in Requests, EditLog(h) PROVE UNCHANGED <<mark, SettledLog>>
<1> DEFINE st == job[h].student
           c == Change(job[h].seen, job[h].to)
<1>1. /\ pc[h] = "editLog" /\ pc'[h] = "editRead" /\ job'[h] = job[h]
      /\ \A g \in Requests \ {h} : pc'[g] = pc[g]
  BY EditLogMoves, MoveFacts DEF BookInv
<1>2. st \in Students /\ c \in [from : Statuses, to : Statuses] /\ job[h].seen # job[h].to
  BY <1>1 DEF BookInv, TypeInv, TypedAt, Change, EditInv, EditOK
<1>3. log[st] \in Seq([from : Statuses, to : Statuses])
  BY <1>2 DEF BookInv, TypeInv, TablesType, Logs
<1>4. log' = [log EXCEPT ![st] = Append(log[st], c)] /\ mark' = mark
  BY DEF EditLog
<1>5. log'[st] = Append(log[st], c) /\ \A s \in Students \ {st} : log'[s] = log[s]
  BY <1>2, <1>4 DEF BookInv, TypeInv, TablesType
<1>6. SubSeq(log'[st], 1, Len(log'[st]) - 1) = log[st]
  BY <1>2, <1>3, <1>5, AppendEnd
<1>7. \A g \in Requests \ {h} : pc[g] \in {"idle", "ok", "refused"}
  BY <1>1, AloneFacts DEF BookInv, EditInv, Editing
<1>8. ASSUME NEW s \in Students PROVE Settled(s) = log[s]
  BY <1>1, <1>7 DEF Settled, Unsaved
<1>9. ASSUME NEW s \in Students PROVE Settled(s)' = log[s]
  <2>1. CASE s = st
    <3>1. Unsaved(h, s)'
      BY <1>1, <1>2, <2>1 DEF Unsaved
    <3> QED
      BY <1>6, <2>1, <3>1 DEF Settled
  <2>2. CASE s # st
    <3>1. \A g \in Requests : ~Unsaved(g, s)'
      BY <1>1, <1>7, <2>2 DEF Unsaved
    <3> QED
      BY <1>5, <2>2, <3>1 DEF Settled
  <2> QED
    BY <2>1, <2>2
<1> QED
  BY <1>4, <1>8, <1>9 DEF SettledLog

LEMMA LastEnd ==
  ASSUME NEW S, NEW q \in Seq(S), q # <<>>
  PROVE  q = Append(SubSeq(q, 1, Len(q) - 1), q[Len(q)])
<1>1. Len(q) \in Nat \ {0}
  BY EmptySeq, LenProperties
<1> QED
  BY <1>1

LEMMA EditSaveBook ==
  ASSUME BookInv, NEW h \in Requests, EditSave(h)
  PROVE  Book!BookNext \/ UNCHANGED <<mark, SettledLog>>
<1> DEFINE st == job[h].student
           x == job[h].to
<1>1. pc[h] = "editSave" /\ \A g \in Requests \ {h} : pc[g] \in {"idle", "ok", "refused"}
  BY EditSaveMoves, AloneFacts DEF BookInv, EditInv, Editing
<1>2. /\ st \in Students /\ x \in Statuses /\ job[h].seen \in Statuses
      /\ job[h].seen = mark[st] /\ (job[h].found <=> job[h].seen = x)
      /\ job[h].seen # x => log[st] # <<>> /\ log[st][Len(log[st])] = Change(mark[st], x)
  BY <1>1 DEF BookInv, TypeInv, TypedAt, EditInv, EditOK
<1>3. SettledLog' = [s \in Students |-> log[s]]
  <2>1. log' = log
    BY DEF EditSave
  <2> QED
    BY <2>1, EditSaveEdit, NobodyWillEdit DEF BookInv
<1>4. mark' = IF job[h].seen = x THEN mark ELSE [mark EXCEPT ![st] = x]
  BY <1>2 DEF EditSave
<1>5. ASSUME NEW s \in Students
      PROVE  Settled(s) = IF s = st /\ job[h].seen # x
                          THEN SubSeq(log[s], 1, Len(log[s]) - 1) ELSE log[s]
  <2>1. (\E g \in Requests : Unsaved(g, s)) <=> s = st /\ job[h].seen # x
    BY <1>1 DEF Unsaved
  <2> QED
    BY <2>1 DEF Settled
<1>6. CASE job[h].seen = x
  BY <1>3, <1>4, <1>5, <1>6 DEF SettledLog
<1>7. CASE job[h].seen # x
  <2> DEFINE roll == [s \in {st} |-> x]
  <2>1. log[st] \in Seq([from : Statuses, to : Statuses])
    BY <1>2 DEF BookInv, TypeInv, TablesType, Logs
  <2>2. log[st] = Append(Settled(st), [from |-> mark[st], to |-> x])
    BY <1>2, <1>5, <1>7, <2>1, LastEnd DEF Change
  <2>3. mark \in [Students -> Statuses \union {None}]
    BY DEF BookInv, TypeInv, TablesType
  <2>4. mark' = [s \in Students |-> IF s \in DOMAIN roll THEN roll[s] ELSE mark[s]]
    BY <1>2, <1>4, <1>7, <2>3
  <2>5. {s \in DOMAIN roll : mark[s] \notin {None, roll[s]}} = {st}
    BY <1>2, <1>7, AttendanceAssumption
  <2>6. ASSUME NEW s \in Students
        PROVE  log[s] = IF s \in {st}
                        THEN Append(SettledLog[s], [from |-> mark[s], to |-> roll[s]])
                        ELSE SettledLog[s]
    BY <1>5, <2>2 DEF SettledLog
  <2>7. roll \in [{st} -> Statuses] /\ {st} \in SUBSET Students
    BY <1>2
  <2> HIDE DEF roll
  <2>8. SettledLog' = [s \in Students |->
          IF s \in {r \in DOMAIN roll : mark[r] \notin {None, roll[r]}}
          THEN Append(SettledLog[s], [from |-> mark[s], to |-> roll[s]]) ELSE SettledLog[s]]
    BY <1>3, <2>5, <2>6
  <2>9. Book!Enter(roll)
    BY <2>4, <2>8 DEF Book!Enter, Book!Changed, SettledLog
  <2> QED
    BY <2>7, <2>9 DEF Book!BookNext
<1> QED
  BY <1>6, <1>7

\* A step of no other kind changes which audit rows count.
LEMMA QuietBook ==
  ASSUME BookInv, [AttendanceNext]_attendance,
         ~ \E h \in Requests : Commit(h) \/ EditLog(h) \/ EditSave(h)
  PROVE  UNCHANGED <<mark, log>>
BY DEF AttendanceNext, Proceed, Correction, RollCall, FindSession, SaveSession, SaveRecord,
       FindRecord, EditRead, Die, StartEdit, Deliver, StartMark, Cancel, Withdraw, attendance, tables

LEMMA BookStep ==
  ASSUME EditsAlone, BookInv, [AttendanceNext]_attendance
  PROVE  Book!BookNext \/ UNCHANGED <<mark, SettledLog>>
<1> SUFFICES ASSUME ~ \E h \in Requests : Commit(h) \/ EditLog(h) \/ EditSave(h)
             PROVE  UNCHANGED SettledLog
  BY CommitBook, EditLogBook, EditSaveBook, QuietBook
<1>1. UNCHANGED log
  BY QuietBook
<1>2. CASE UNCHANGED <<pc, job>>
  BY <1>1, <1>2, SameSettled DEF Unsaved
<1>3. ASSUME NEW h \in Requests,
             \/ FindSession(h) \/ SaveSession(h) \/ SaveRecord(h) \/ Commit(h) \/ Die(h)
             \/ \E s \in Students : FindRecord(h, s)
             \/ \E roll \in Rolls : StartMark(h, roll)
      PROVE  UNCHANGED SettledLog
  <2>1. SettledLog = [s \in Students |-> log[s]] /\ SettledLog' = [s \in Students |-> log'[s]]
    BY <1>3, MarkingStep, NobodyEdits, NobodyWillEdit DEF BookInv, EditInv
  <2> QED
    BY <1>1, <2>1
<1>4. ASSUME NEW h \in Requests, EditRead(h) PROVE UNCHANGED SettledLog
  <2>1. /\ pc[h] = "editRead" /\ pc'[h] = "editSave" /\ job'[h] = ReadJob(h)
        /\ \A g \in Requests \ {h} : pc'[g] = pc[g] /\ job'[g] = job[g]
    BY <1>4, EditReadMoves, MoveFacts DEF BookInv
  <2>2. /\ ReadJob(h).student = job[h].student /\ ReadJob(h).to = job[h].to
        /\ ReadJob(h).seen = job[h].seen
    BY DEF ReadJob, BookInv, TypeInv, RequestType, JobType
  <2> QED
    BY <1>1, <2>1, <2>2, SameSettled DEF Unsaved
<1>5. ASSUME NEW h \in Requests, NEW s \in Students, NEW x \in Statuses, StartEdit(h, s, x)
      PROVE  UNCHANGED SettledLog
  <2>1. /\ pc[h] = "idle" /\ pc'[h] = IF x = mark[s] THEN "editRead" ELSE "editLog"
        /\ job'[h] = EditJob(s, x)
        /\ \A g \in Requests \ {h} : pc'[g] = pc[g] /\ job'[g] = job[g]
    BY <1>5, StartEditMoves, MoveFacts DEF BookInv
  <2>2. EditJob(s, x).to = x /\ EditJob(s, x).seen = mark[s]
    BY DEF EditJob, NoJob
  <2> QED
    BY <1>1, <2>1, <2>2, SameSettled DEF Unsaved
<1>6. ASSUME NEW h \in Requests, Deliver(h) PROVE UNCHANGED SettledLog
  <2>1. /\ pc[h] \in {"ok", "refused"} /\ pc'[h] = "idle"
        /\ \A g \in Requests \ {h} : pc'[g] = pc[g] /\ job'[g] = job[g]
    BY <1>6, DeliverMoves, MoveFacts DEF BookInv
  <2> QED
    BY <1>1, <2>1, SameSettled DEF Unsaved
<1> QED
  BY <1>2, <1>3, <1>4, <1>5, <1>6
  DEF AttendanceNext, Proceed, Correction, RollCall, Cancel, Withdraw, attendance, tables

\* Statement by statement, the service implements the book, as long as corrections neither overlap
\* other requests nor die (bulkMark, updateRecord; attendance-audit-log.entity.ts:12).
THEOREM BookImplemented == ASSUME EditsAlone PROVE AttendanceSpec => ImplementsBook
<1>1. BookInv /\ [AttendanceNext]_attendance
        => [Book!BookNext]_<<mark, [s \in Students |-> Settled(s)]>>
  BY BookStep DEF SettledLog
<1>2. AttendanceSpec => []BookInv
  BY Invariant
<1> QED
  BY <1>1, <1>2, BookStart, PTL DEF AttendanceSpec, ImplementsBook, Book!BookSpec
=============================================================================
