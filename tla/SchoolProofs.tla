---------------------------- MODULE SchoolProofs -----------------------------
(***************************************************************************)
(* Theorems about module SchoolService, for any number of requests, calls, *)
(* rows and deaths.  First the types: the tables stay well typed, and a    *)
(* plan of one call after the other has one request in progress; lemmas    *)
(* say what a step of each service changes and leaves alone, and module    *)
(* SchoolAccess builds on them too.  Then what the handlers decide by      *)
(* counting or looking for rows before they write, without a lock: the     *)
(* versions of a schedule, the seats of a class, the attempts at an        *)
(* assignment, the verification of a teacher, the codes of invites and the *)
(* payouts.                                                                *)
(***************************************************************************)
EXTENDS SchoolService, Integers, SequenceTheorems, FiniteSetTheorems, TLAPS

-----------------------------------------------------------------------------
(* Types: the tables, and what a request remembers at each statement.      *)

StudentRows == [status : {"active", "archived"} \cup Statuses, institute : Institutes \cup {None}]
AssignedRows == [student : Students, teacher : Teachers]
LinkedRows == [student : Students, guardian : Guardians]
EnrolledRows == [class : Classes, student : Students]
Verifications == {"unverified", "pending", "verified"}
ProfileRows == [institute : Institutes \cup {None}, verification : Verifications]
ClassRows == [capacity : Nat, status : {"active"} \cup ClassStatuses,
              institute : Institutes \cup {None}, place : Places]
Row == [from : Nat, to : Int \cup {None}, pattern : Patterns]
InviteRows == [institute : Institutes, redeemedBy : Teachers \cup {None}]
RequestRows == [teacher : Teachers, status : {"pending", "approved", "rejected"}]
Addressed == [type : {"student"}, id : Students] \cup [type : {"class"}, id : Classes]
Targets == Addressed \cup [type : {"institute"}, id : Institutes]
ShareRows == [document : Documents, with : Targets, download : BOOLEAN]
GivenRows == [to : Addressed, teacher : Teachers, resubmission : BOOLEAN, late : BOOLEAN]
SubmissionRows ==
  [assignment : Assignments, student : Students, attempt : Nat, grade : Grades \cup {None},
   feedback : BOOLEAN, reviewed : BOOLEAN]

SameAttempt(x, y) == x.assignment = y.assignment /\ x.student = y.student /\ x.attempt = y.attempt

\* What a request remembers, statement by statement; a row it has found is never deleted.
RecordsMemory(m) ==
  /\ m.at = "createStudent" =>
       m \in [at : {m.at}, student : Students, teacher : Teachers, institute : Institutes \cup {None},
              guardians : SUBSET Guardians]
  /\ m.at = "saveStudent" => m \in [at : {m.at}, student : Students, row : StudentRows]
  /\ m.at = "addGuardian" => m \in [at : {m.at}, link : LinkedRows]
  /\ m.at = "mergeFind" => m \in [at : {m.at}, surviving : Students, merged : Students, row : StudentRows]
  /\ m.at = "mergeCommit" =>
       m \in [at : {m.at}, surviving : Students, merged : Students, row : StudentRows,
              assignments : SUBSET Nat, links : SUBSET Nat]
  /\ m.at \in {"mergeFind", "mergeCommit"} => m.surviving # m.merged
RegistrationMemory(m) ==
  /\ m.at \in {"createUser", "assignRole", "findGuardians"} =>
       m \in [at : {m.at}, user : Accounts, role : SelfRoles]
  /\ m.at = "joinGuardians" => m \in [at : {m.at}, user : Accounts, found : SUBSET Guardians]
AffiliationMemory(m) ==
  /\ m.at = "insertProfile" => m \in [at : {m.at}, teacher : Teachers]
  /\ m.at = "saveProfile" =>
       m \in [at : {m.at}, teacher : Teachers, verification : Verifications] /\ profile[m.teacher] # None
  /\ m.at = "saveRequest" => m \in [at : {m.at}, request : DOMAIN verifications, decision : {"approved", "rejected"}]
  /\ m.at \in {"affiliate", "redeemed"} =>
       /\ m \in [at : {m.at}, code : Codes, teacher : Teachers, institute : Institutes \cup {None}]
       /\ profile[m.teacher] # None
  /\ m.at = "savePayout" => m \in [at : {m.at}, payout : Payouts]
ClassroomMemory(m) ==
  /\ m.at = "saveClass" => m \in [at : {m.at}, class : Classes, row : ClassRows]
  /\ m.at = "schedule" =>
       m \in [at : {m.at}, class : Classes, current : Nat, version : Row] /\ m.version.to = None
  /\ m.at \in {"countSeats", "takeSeat"} => m \in [at : {m.at}, seat : EnrolledRows, capacity : Nat]
  /\ m.at = "wait" => m \in [at : {m.at}, entry : EnrolledRows]
CourseworkMemory(m) ==
  /\ m.at = "submit" => m \in [at : {m.at}, submission : SubmissionRows]
  /\ m.at = "saveReview" =>
       /\ m \in [at : {m.at}, index : DOMAIN submissions, row : SubmissionRows]
       /\ SameAttempt(m.row, submissions[m.index])
  /\ m.at = "tell" => m \in [at : {m.at}, about : Documents \cup Assignments, to : Addressed]
Memory(m) ==
  /\ "at" \in DOMAIN m
  /\ RecordsMemory(m) /\ RegistrationMemory(m) /\ AffiliationMemory(m)
  /\ ClassroomMemory(m) /\ CourseworkMemory(m)

RequestsTyped == DOMAIN req = Requests /\ \A h \in Requests : Memory(req[h])
PeopleTyped ==
  /\ student \in [Students -> StudentRows \cup {None}]
  /\ assigned \in Seq(AssignedRows) /\ linked \in Seq(LinkedRows)
  /\ DOMAIN login = Guardians
  /\ mergeLog \in Seq([surviving : Students, merged : Students])
AffiliationTyped ==
  /\ profile \in [Teachers -> ProfileRows \cup {None}]
  /\ invites \in [Codes -> InviteRows \cup {None}]
  /\ verifications \in Seq(RequestRows)
  /\ \A i \in DOMAIN verifications : profile[verifications[i].teacher] # None
  /\ payments \in [Payouts -> Nat]
ClassroomTyped ==
  /\ enrolled \in Seq(EnrolledRows)
  /\ class \in [Classes -> ClassRows \cup {None}]
  /\ versions \in [Classes -> Seq(Row)]
  /\ roomiest \in [Classes -> Nat]
TasksTyped ==
  /\ shares \in Seq(ShareRows)
  /\ assignment \in [Assignments -> GivenRows \cup {None}]
  /\ submissions \in Seq(SubmissionRows)
TypeOK == RequestsTyped /\ PeopleTyped /\ AffiliationTyped /\ ClassroomTyped /\ TasksTyped

-----------------------------------------------------------------------------
(* The rows of a table, counted. *)

\* A table has finitely many rows.
LEMMA RowsCounted ==
  ASSUME NEW S, NEW rows \in Seq(S), NEW chosen \in SUBSET DOMAIN rows
  PROVE  IsFiniteSet(chosen) /\ Cardinality(chosen) \in Nat
<1>1. IsFiniteSet(1..Len(rows))
  BY FS_Interval, LenProperties
<1>2. chosen \subseteq 1..Len(rows)
  BY LenProperties
<1> QED
  BY <1>1, <1>2, FS_Subset, FS_CardinalityType

\* So has the table of the submissions.
LEMMA AttemptsCounted ==
  ASSUME submissions \in Seq(SubmissionRows), NEW a, NEW s
  PROVE  IsFiniteSet(Attempts(a, s)) /\ Cardinality(Attempts(a, s)) \in Nat
BY RowsCounted DEF Attempts

-----------------------------------------------------------------------------
(* Every step of a request, whatever else it does, leaves that request     *)
(* with a well-formed memory, and only a serial plan's only request runs.  *)

RecordsAts == {"idle", "createStudent", "saveStudent", "addGuardian", "mergeFind", "mergeCommit"}
RegistrationAts == {"idle", "createUser", "assignRole", "findGuardians", "joinGuardians"}
AffiliationAts == {"idle", "insertProfile", "saveProfile", "saveRequest", "affiliate", "redeemed", "savePayout"}
ClassroomAts == {"idle", "saveClass", "schedule", "countSeats", "takeSeat", "wait"}
SharingAts == {"idle", "tell"}
CourseworkAts == {"idle", "tell", "submit", "saveReview"}

\* h goes on with a memory m of one of the statements ats; in a serial plan no other is busy.
Runs(h, ats) ==
  /\ plan' = plan /\ deaths' = deaths
  /\ req[h].at # "idle" \/ (Serial => \A k \in Requests : req[k] = Idle)
  /\ \E m : Memory(m) /\ m.at \in ats /\ req' = [req EXCEPT ![h] = m]

\* A row of a typed table is typed.
LEMMA RowOf ==
  ASSUME NEW S, NEW rows \in Seq(S), NEW i \in DOMAIN rows
  PROVE  rows[i] \in S /\ i \in Nat
OBVIOUS

\* An idle request remembers nothing.
LEMMA IdleMemory == Memory(Idle) /\ Idle.at = "idle"
BY DEF Idle, Memory, RecordsMemory, RegistrationMemory, AffiliationMemory, ClassroomMemory, CourseworkMemory

\* A request that starts with a well-formed memory runs.
LEMMA StartRuns ==
  ASSUME NEW h, NEW m, NEW ats, Start(h, m), Memory(m), m.at \in ats,
         Serial => \A k \in Requests : req[k] = Idle
  PROVE  Runs(h, ats)
BY DEF Start, Runs

\* So does one that goes on.
LEMMA GoesRuns ==
  ASSUME NEW h, NEW m, NEW ats, Goes(h, m), Memory(m), m.at \in ats, req[h].at # "idle"
  PROVE  Runs(h, ats)
BY DEF Goes, Runs

\* So does one that is answered.
LEMMA ReplyRuns ==
  ASSUME NEW h, NEW ats, Reply(h), "idle" \in ats, req[h].at # "idle"
  PROVE  Runs(h, ats)
BY GoesRuns, IdleMemory DEF Reply

\* A call comes from a token; in a serial plan no other is in progress.
LEMMA Called ==
  ASSUME NEW h, NEW op, NEW permission, NEW q \in Callers(h, op, permission)
  PROVE  /\ Serial => \A k \in Requests : req[k] = Idle
         /\ q \in Tokens
BY DEF Callers, Arrives, With

\* The memory of a request is well formed when the part of its module is.
LEMMA MemoryOfModule ==
  ASSUME NEW m, "at" \in DOMAIN m,
         \/ m.at \in RecordsAts /\ RecordsMemory(m)
         \/ m.at \in RegistrationAts /\ RegistrationMemory(m)
         \/ m.at \in AffiliationAts /\ AffiliationMemory(m)
         \/ m.at \in ClassroomAts /\ ClassroomMemory(m)
         \/ m.at \in SharingAts \cup CourseworkAts /\ CourseworkMemory(m)
  PROVE  Memory(m)
BY DEF Memory, RecordsMemory, RegistrationMemory, AffiliationMemory, ClassroomMemory, CourseworkMemory,
       RecordsAts, RegistrationAts, AffiliationAts, ClassroomAts, SharingAts, CourseworkAts

-----------------------------------------------------------------------------
(* The rows of a class. *)

\* The end of a version leaves its row well formed, and every other row as it was.
LEMMA EndedRow ==
  ASSUME NEW rows \in Seq(Row), NEW i, NEW day \in Int
  PROVE  /\ EndedAt(rows, i, day) \in Seq(Row)
         /\ Len(EndedAt(rows, i, day)) = Len(rows)
         /\ \A j \in 1..Len(rows) :
              /\ EndedAt(rows, i, day)[j].from = rows[j].from
              /\ EndedAt(rows, i, day)[j].to = IF i # 0 /\ j = i THEN day ELSE rows[j].to
<1>1. CASE i = 0
  BY <1>1 DEF EndedAt
<1>2. CASE i # 0
  <2> DEFINE ended == [rows EXCEPT ![i].to = day]
  <2>1. EndedAt(rows, i, day) = ended
    BY <1>2 DEF EndedAt
  <2>2. DOMAIN ended = 1..Len(rows)
    OBVIOUS
  <2>3. \A j \in 1..Len(rows) : rows[j] \in Row
    OBVIOUS
  <2>4. ASSUME NEW j \in 1..Len(rows)
        PROVE  /\ ended[j] \in Row /\ ended[j].from = rows[j].from
               /\ ended[j].to = IF j = i THEN day ELSE rows[j].to
    <3>1. CASE j = i
      BY <2>3, <3>1 DEF Row
    <3>2. CASE j # i
      BY <2>3, <3>2
    <3> QED
      BY <3>1, <3>2
  <2>5. ended \in Seq(Row) /\ Len(ended) = Len(rows)
    <3>1. ended = [j \in 1..Len(rows) |-> ended[j]]
      BY <2>2
    <3> HIDE DEF ended
    <3>2. ended \in [1..Len(rows) -> Row]
      BY <2>4, <3>1
    <3>3. Len(rows) \in Nat
      OBVIOUS
    <3> QED
      BY <2>2, <3>2, <3>3, IsASeq, LenProperties
  <2> QED
    BY <1>2, <2>1, <2>4, <2>5
<1> QED
  BY <1>1, <1>2

\* A sequence of versions without a gap.
Gapless(rows) ==
  \A i \in DOMAIN rows : \A d \in Days : rows[i].from <= d => \E j \in DOMAIN rows : Covers(rows[j], d)

\* A new version leaves no gap behind, whichever version it ends and whenever it starts.
LEMMA NewVersion ==
  ASSUME NEW rows \in Seq(Row), Gapless(rows), NEW i, NEW v \in Row, v.to = None
  PROVE  /\ Append(EndedAt(rows, i, v.from - 1), v) \in Seq(Row)
         /\ Gapless(Append(EndedAt(rows, i, v.from - 1), v))
<1> DEFINE ended == EndedAt(rows, i, v.from - 1)
           new == Append(ended, v)
           n == Len(rows)
<1>1. v.from \in Nat /\ v.from - 1 \in Int
  BY DEF Row
<1>2. /\ ended \in Seq(Row) /\ Len(ended) = n
      /\ \A j \in 1..n : /\ ended[j].from = rows[j].from
                         /\ ended[j].to = IF i # 0 /\ j = i THEN v.from - 1 ELSE rows[j].to
  BY <1>1, EndedRow
<1> HIDE DEF ended
<1>3. new \in Seq(Row) /\ Len(new) = n + 1 /\ new[n + 1] = v /\ \A j \in 1..n : new[j] = ended[j]
  BY <1>2
<1>4. n \in Nat /\ DOMAIN new = 1..(n + 1) /\ DOMAIN rows = 1..n
  BY <1>3
<1> HIDE DEF new
<1>5. ASSUME NEW k \in DOMAIN new, NEW d \in Days, new[k].from <= d
      PROVE  \E j \in DOMAIN new : Covers(new[j], d)
  <2>1. d \in Nat
    BY ClassroomAssumption
  <2>2. CASE v.from <= d
    <3>1. Covers(new[n + 1], d)
      BY <1>3, <2>2 DEF Covers
    <3> QED
      BY <1>4, <3>1
  <2>3. CASE ~ (v.from <= d)
    <3>1. k \in 1..n /\ rows[k].from <= d
      BY <1>2, <1>3, <1>4, <1>5, <2>3
    <3>2. PICK j \in 1..n : Covers(rows[j], d)
      BY <1>4, <3>1 DEF Gapless
    <3>3. Covers(new[j], d)
      <4>1. d <= v.from - 1
        BY <1>1, <2>1, <2>3
      <4>2. new[j].from <= d
        BY <1>2, <1>3, <3>2 DEF Covers
      <4>3. new[j].to = v.from - 1 \/ new[j].to = rows[j].to
        BY <1>2, <1>3, <3>2
      <4> QED
        BY <3>2, <4>1, <4>2, <4>3 DEF Covers
    <3> QED
      BY <1>4, <3>3
  <2> QED
    BY <2>2, <2>3
<1>6. Gapless(new)
  BY <1>5 DEF Gapless
<1> QED
  BY <1>3, <1>6 DEF new, ended

\* A student record that a caller may manage is a row of the table.
LEMMA ManagedRow ==
  ASSUME TypeOK, NEW q, NEW s \in Managed(q)
  PROVE  s \in Students /\ student[s] \in StudentRows
BY DEF Managed, TypeOK, PeopleTyped

\* update and archive remember the row they loaded with its new status.
LEMMA LoadStudentRuns ==
  ASSUME TypeOK, NEW h \in Requests, NEW op, NEW statuses \in SUBSET ({"active", "archived"} \cup Statuses),
         LoadStudent(h, op, statuses)
  PROVE  Runs(h, RecordsAts)
<1>1. PICK q \in Callers(h, op, "student_manage"), status \in statuses : \E s \in Managed(q) :
        Start(h, [at |-> "saveStudent", student |-> s, row |-> [student[s] EXCEPT !.status = status]])
  BY DEF LoadStudent
<1>2. PICK s \in Managed(q) :
        Start(h, [at |-> "saveStudent", student |-> s, row |-> [student[s] EXCEPT !.status = status]])
  BY <1>1
<1> DEFINE m == [at |-> "saveStudent", student |-> s, row |-> [student[s] EXCEPT !.status = status]]
<1>3. [student[s] EXCEPT !.status = status] \in StudentRows
  BY ManagedRow DEF StudentRows
<1>4. RecordsMemory(m)
  BY <1>3, ManagedRow DEF RecordsMemory
<1>5. Memory(m)
  BY <1>4, MemoryOfModule DEF RecordsAts
<1> QED
  BY <1>2, <1>5, Called, StartRuns DEF RecordsAts

\* The statements of StudentsService.
LEMMA RecordsRun ==
  ASSUME TypeOK, NEW h \in Requests, RecordsStep(h)
  PROVE  Runs(h, RecordsAts)
<1> USE DEF RecordsAts
<1>0. Memory(req[h])
  BY DEF TypeOK, RequestsTyped
<1>1. ASSUME CreateStudent(h) PROVE Runs(h, RecordsAts)
  <2>1. PICK q \in Callers(h, "createStudent", "student_manage"), s \in Students, G \in SUBSET Guardians :
          \E t \in ProfileOf(q) :
            Start(h, [at |-> "createStudent", student |-> s, teacher |-> t,
                      institute |-> profile[t].institute, guardians |-> G])
    BY <1>1 DEF CreateStudent
  <2>2. PICK t \in ProfileOf(q) :
            Start(h, [at |-> "createStudent", student |-> s, teacher |-> t,
                      institute |-> profile[t].institute, guardians |-> G])
    BY <2>1
  <2>3. t \in Teachers /\ profile[t].institute \in Institutes \cup {None}
    BY <2>2 DEF ProfileOf, TypeOK, AffiliationTyped, ProfileRows
  <2> DEFINE m == [at |-> "createStudent", student |-> s, teacher |-> t,
                   institute |-> profile[t].institute, guardians |-> G]
  <2>4. RecordsMemory(m)
    BY <2>3 DEF RecordsMemory
  <2>5. Memory(m)
    BY <2>4, MemoryOfModule
  <2> QED
    BY <2>2, <2>5, Called, StartRuns
<1>2. ASSUME UpdateStudent(h) \/ ArchiveStudent(h) PROVE Runs(h, RecordsAts)
  BY <1>2, LoadStudentRuns DEF UpdateStudent, ArchiveStudent
<1>3. ASSUME CreateCommit(h) \/ SaveStudent(h) \/ LinkGuardian(h) \/ MergeCommit(h) PROVE Runs(h, RecordsAts)
  BY <1>0, <1>3, ReplyRuns DEF CreateCommit, SaveStudent, LinkGuardian, MergeCommit
<1>4. ASSUME AddGuardian(h) PROVE Runs(h, RecordsAts)
  <2>1. PICK q \in Callers(h, "addGuardian", "student_manage"), g \in Guardians :
          \E s \in Managed(q) : Start(h, [at |-> "addGuardian", link |-> Link(s, g)])
    BY <1>4 DEF AddGuardian
  <2>2. PICK s \in Managed(q) : Start(h, [at |-> "addGuardian", link |-> Link(s, g)])
    BY <2>1
  <2>3. RecordsMemory([at |-> "addGuardian", link |-> Link(s, g)])
    BY ManagedRow DEF RecordsMemory, Link, LinkedRows
  <2>4. Memory([at |-> "addGuardian", link |-> Link(s, g)])
    BY <2>3, MemoryOfModule
  <2> QED
    BY <2>2, <2>4, Called, StartRuns
<1>5. ASSUME StartMerge(h) PROVE Runs(h, RecordsAts)
  <2>1. PICK q \in Callers(h, "mergeStudents", "student_manage") :
          \E s \in Managed(q) : \E m \in Managed(q) \ {s} :
            Start(h, [at |-> "mergeFind", surviving |-> s, merged |-> m, row |-> student[m]])
    BY <1>5 DEF StartMerge
  <2>2. PICK s \in Managed(q), m \in Managed(q) :
            m # s /\ Start(h, [at |-> "mergeFind", surviving |-> s, merged |-> m, row |-> student[m]])
    BY <2>1
  <2> DEFINE r == [at |-> "mergeFind", surviving |-> s, merged |-> m, row |-> student[m]]
  <2>3. RecordsMemory(r)
    BY <2>2, ManagedRow DEF RecordsMemory
  <2>4. Memory(r)
    BY <2>3, MemoryOfModule
  <2> QED
    BY <2>2, <2>4, Called, StartRuns
<1>6. ASSUME MergeFind(h) PROVE Runs(h, RecordsAts)
  <2> DEFINE r == req[h]
             teachers == Moving(assigned, "teacher", r.surviving, r.merged)
             guardians == Moving(linked, "guardian", r.surviving, r.merged)
             m == [at |-> "mergeCommit", surviving |-> r.surviving, merged |-> r.merged, row |-> r.row,
                   assignments |-> teachers, links |-> guardians]
  <2>1. r.at = "mergeFind" /\ Goes(h, m)
    BY <1>6 DEF MergeFind
  <2>2. r \in [at : {r.at}, surviving : Students, merged : Students, row : StudentRows] /\ r.surviving # r.merged
    BY <1>0, <2>1 DEF Memory, RecordsMemory
  <2>3. teachers \subseteq Nat /\ guardians \subseteq Nat
    BY DEF Moving, TypeOK, PeopleTyped
  <2>4. RecordsMemory(m)
    <3> HIDE DEF teachers, guardians, r
    <3> QED
      BY <2>2, <2>3 DEF RecordsMemory
  <2>5. "at" \in DOMAIN m /\ m.at = "mergeCommit"
    OBVIOUS
  <2> HIDE DEF m
  <2>6. Memory(m)
    BY <2>4, <2>5, MemoryOfModule
  <2> QED
    BY <2>1, <2>5, <2>6, GoesRuns
<1> QED
  BY <1>1, <1>2, <1>3, <1>4, <1>5, <1>6 DEF RecordsStep

\* The statements of AuthService.register.
LEMMA RegistrationRun ==
  ASSUME TypeOK, NEW h \in Requests, RegistrationStep(h)
  PROVE  Runs(h, RegistrationAts)
<1> USE DEF RegistrationAts
<1>0. Memory(req[h])
  BY DEF TypeOK, RequestsTyped
<1>1. ASSUME Register(h) PROVE Runs(h, RegistrationAts)
  <2>1. PICK u \in Accounts, role \in SelfRoles :
          /\ Arrives(h, "register")
          /\ Start(h, [at |-> "createUser", user |-> u, role |-> role])
    BY <1>1 DEF Register
  <2>2. RegistrationMemory([at |-> "createUser", user |-> u, role |-> role])
    BY DEF RegistrationMemory
  <2>3. Memory([at |-> "createUser", user |-> u, role |-> role])
    BY <2>2, MemoryOfModule
  <2> QED
    BY <2>1, <2>3, StartRuns DEF Arrives
<1>2. ASSUME CreateUser(h) PROVE Runs(h, RegistrationAts)
  BY <1>0, <1>2, GoesRuns, ReplyRuns, IdleMemory, MemoryOfModule DEF CreateUser, Memory, RegistrationMemory
<1>3. ASSUME AssignRole(h) PROVE Runs(h, RegistrationAts)
  BY <1>0, <1>3, GoesRuns, ReplyRuns, IdleMemory, MemoryOfModule DEF AssignRole, Memory, RegistrationMemory
<1>4. ASSUME FindGuardians(h) PROVE Runs(h, RegistrationAts)
  <2> DEFINE found == FoundGuardians(req[h].user)
             m == [at |-> "joinGuardians", user |-> req[h].user, found |-> found]
  <2>1. req[h].at = "findGuardians" /\ (Reply(h) \/ Goes(h, m))
    BY <1>4 DEF FindGuardians
  <2>2. found \subseteq Guardians
    <3>1. \A i \in DOMAIN linked : linked[i] \in LinkedRows
      BY RowOf DEF TypeOK, PeopleTyped
    <3> QED
      BY <3>1 DEF FoundGuardians, GuardianRows, LinkedRows
  <2>3. req[h] \in [at : {req[h].at}, user : Accounts, role : SelfRoles]
    <3> HIDE DEF found
    <3>1. RegistrationMemory(req[h])
      BY <1>0 DEF Memory
    <3> QED
      BY <2>1, <3>1 DEF RegistrationMemory
  <2>4. Memory(m)
    <3> HIDE DEF found
    <3>1. RegistrationMemory(m)
      BY <2>2, <2>3 DEF RegistrationMemory
    <3> QED
      BY <3>1, MemoryOfModule
  <2> QED
    BY <2>1, <2>4, GoesRuns, ReplyRuns
<1>5. ASSUME JoinGuardian(h) PROVE Runs(h, RegistrationAts)
  BY <1>0, <1>5, GoesRuns, ReplyRuns, IdleMemory, MemoryOfModule DEF JoinGuardian, Memory, RegistrationMemory
<1> QED
  BY <1>1, <1>2, <1>3, <1>4, <1>5 DEF RegistrationStep

\* The statements of the services about a teacher's profile and institute.
LEMMA AffiliationRun ==
  ASSUME TypeOK, NEW h \in Requests, AffiliationStep(h)
  PROVE  Runs(h, AffiliationAts)
<1> USE DEF AffiliationAts
<1>0. AffiliationMemory(req[h])
  BY DEF TypeOK, RequestsTyped, Memory
<1>1. ASSUME CreateProfile(h) PROVE Runs(h, AffiliationAts)
  BY <1>1, StartRuns, Called, MemoryOfModule DEF CreateProfile, AffiliationMemory
<1>2. ASSUME CreateInvite(h) \/ Archive(h) PROVE Runs(h, AffiliationAts)
  BY <1>2, StartRuns, Called, IdleMemory DEF CreateInvite, Archive
<1>3. ASSUME InsertProfile(h) \/ SaveProfile(h) \/ Redeemed(h) \/ SavePayout(h) PROVE Runs(h, AffiliationAts)
  BY <1>3, ReplyRuns DEF InsertProfile, SaveProfile, Redeemed, SavePayout
<1>4. ASSUME UpdateProfile(h) PROVE Runs(h, AffiliationAts)
  <2>1. PICK q \in Callers(h, "updateProfile", "teacher_profile_manage") : \E t \in ProfileOf(q) :
          Start(h, [at |-> "saveProfile", teacher |-> t, verification |-> profile[t].verification])
    BY <1>4 DEF UpdateProfile
  <2>2. PICK t \in ProfileOf(q) :
          Start(h, [at |-> "saveProfile", teacher |-> t, verification |-> profile[t].verification])
    BY <2>1
  <2>3. t \in Teachers /\ profile[t].verification \in Verifications
    BY DEF ProfileOf, TypeOK, AffiliationTyped, ProfileRows
  <2>4. AffiliationMemory([at |-> "saveProfile", teacher |-> t, verification |-> profile[t].verification])
    BY <2>3 DEF AffiliationMemory, ProfileOf
  <2> QED
    BY <2>2, <2>4, Called, MemoryOfModule, StartRuns
<1>5. ASSUME SubmitVerification(h) PROVE Runs(h, AffiliationAts)
  <2>1. PICK q \in Callers(h, "submitVerification", "teacher_profile_manage") : \E t \in ProfileOf(q) :
          Start(h, [at |-> "saveProfile", teacher |-> t, verification |-> "pending"])
    BY <1>5 DEF SubmitVerification
  <2>2. PICK t \in ProfileOf(q) : Start(h, [at |-> "saveProfile", teacher |-> t, verification |-> "pending"])
    BY <2>1
  <2>3. AffiliationMemory([at |-> "saveProfile", teacher |-> t, verification |-> "pending"])
    BY DEF AffiliationMemory, Verifications, ProfileOf
  <2> QED
    BY <2>2, <2>3, Called, MemoryOfModule, StartRuns
<1>6. ASSUME Review(h) PROVE Runs(h, AffiliationAts)
  <2>1. PICK q \in Callers(h, "review", "verification_review"), i \in DOMAIN verifications,
             decision \in {"approved", "rejected"} :
          Start(h, [at |-> "saveRequest", request |-> i, decision |-> decision])
    BY <1>6 DEF Review
  <2>2. AffiliationMemory([at |-> "saveRequest", request |-> i, decision |-> decision])
    BY DEF AffiliationMemory
  <2> QED
    BY <2>1, <2>2, Called, MemoryOfModule, StartRuns
<1>7. ASSUME SaveRequest(h) PROVE Runs(h, AffiliationAts)
  <2> DEFINE t == verifications[req[h].request].teacher
             m == [at |-> "saveProfile", teacher |-> t, verification |-> Verdict(req[h].decision)]
  <2>1. req[h].at = "saveRequest" /\ Goes(h, m)
    BY <1>7 DEF SaveRequest
  <2>2. req[h].request \in DOMAIN verifications
    BY <1>0, <2>1 DEF AffiliationMemory
  <2>3. t \in Teachers /\ profile[t] # None
    <3>1. verifications[req[h].request] \in RequestRows
      BY <2>2, RowOf DEF TypeOK, AffiliationTyped
    <3> QED
      BY <2>2, <3>1 DEF RequestRows, TypeOK, AffiliationTyped
  <2>4. Verdict(req[h].decision) \in Verifications
    BY DEF Verdict, Verifications
  <2>5. Memory(m)
    <3> HIDE DEF t
    <3>1. AffiliationMemory(m)
      BY <2>3, <2>4 DEF AffiliationMemory
    <3> QED
      BY <3>1, MemoryOfModule
  <2> QED
    BY <2>1, <2>5, GoesRuns
<1>8. ASSUME Redeem(h) PROVE Runs(h, AffiliationAts)
  <2>1. PICK q \in Callers(h, "redeemInvite", "teacher_invite_redeem"), c \in Codes : \E t \in ProfileOf(q) :
          /\ Redeemable(c)
          /\ Start(h, [at |-> "affiliate", code |-> c, teacher |-> t, institute |-> Loaded(invites[c].institute)])
    BY <1>8 DEF Redeem
  <2>2. PICK t \in ProfileOf(q) :
          Start(h, [at |-> "affiliate", code |-> c, teacher |-> t, institute |-> Loaded(invites[c].institute)])
    BY <2>1
  <2>3. Loaded(invites[c].institute) \in Institutes \cup {None}
    BY <2>1 DEF Loaded, Redeemable, TypeOK, AffiliationTyped, InviteRows
  <2>4. AffiliationMemory([at |-> "affiliate", code |-> c, teacher |-> t,
                           institute |-> Loaded(invites[c].institute)])
    BY <2>3 DEF AffiliationMemory, ProfileOf
  <2> QED
    BY <2>2, <2>4, Called, MemoryOfModule, StartRuns
<1>9. ASSUME Affiliate(h) PROVE Runs(h, AffiliationAts)
  BY <1>0, <1>9, GoesRuns, MemoryOfModule DEF Affiliate, AffiliationMemory
<1>10. ASSUME MarkPaid(h) PROVE Runs(h, AffiliationAts)
  BY <1>10, StartRuns, Called, MemoryOfModule DEF MarkPaid, AffiliationMemory
<1> QED
  BY <1>1, <1>2, <1>3, <1>4, <1>5, <1>6, <1>7, <1>8, <1>9, <1>10 DEF AffiliationStep

\* The statements of ClassesService.
LEMMA ClassroomRun ==
  ASSUME TypeOK, NEW h \in Requests, ClassroomStep(h)
  PROVE  Runs(h, ClassroomAts)
<1> USE DEF ClassroomAts
<1>0. ClassroomMemory(req[h])
  BY DEF TypeOK, RequestsTyped, Memory
<1>w. ASSUME NEW q, NEW c \in Writable(q) PROVE c \in Classes /\ class[c] \in ClassRows
  BY <1>w DEF Writable, TypeOK, ClassroomTyped
<1>1. ASSUME CreateClass(h) \/ CreateException(h) PROVE Runs(h, ClassroomAts)
  BY <1>1, StartRuns, Called, IdleMemory DEF CreateClass, CreateException
<1>2. ASSUME SaveClass(h) \/ OpenVersion(h) \/ TakeSeat(h) \/ Wait(h) PROVE Runs(h, ClassroomAts)
  BY <1>2, ReplyRuns DEF SaveClass, OpenVersion, TakeSeat, Wait
<1>3. ASSUME UpdateClass(h) PROVE Runs(h, ClassroomAts)
  <2>1. PICK q \in Callers(h, "updateClass", "class_manage") : \E c \in Writable(q) :
          \E n \in Capacities \cup {class[c].capacity}, status \in ClassStatuses \cup {class[c].status} :
            Start(h, [at |-> "saveClass", class |-> c, row |-> [class[c] EXCEPT !.capacity = n, !.status = status]])
    BY <1>3 DEF UpdateClass
  <2>2. PICK c \in Writable(q) :
          \E n \in Capacities \cup {class[c].capacity}, status \in ClassStatuses \cup {class[c].status} :
            Start(h, [at |-> "saveClass", class |-> c, row |-> [class[c] EXCEPT !.capacity = n, !.status = status]])
    BY <2>1
  <2>3. PICK n \in Capacities \cup {class[c].capacity}, status \in ClassStatuses \cup {class[c].status} :
          Start(h, [at |-> "saveClass", class |-> c, row |-> [class[c] EXCEPT !.capacity = n, !.status = status]])
    BY <2>2
  <2> DEFINE row == [class[c] EXCEPT !.capacity = n, !.status = status]
  <2>4. row \in ClassRows
    BY <1>w, ClassroomAssumption DEF ClassRows
  <2>5. ClassroomMemory([at |-> "saveClass", class |-> c, row |-> row])
    <3> HIDE DEF row
    <3> QED
      BY <1>w, <2>4 DEF ClassroomMemory
  <2> QED
    BY <2>3, <2>5, Called, MemoryOfModule, StartRuns
<1>4. ASSUME CreateSchedule(h) PROVE Runs(h, ClassroomAts)
  <2>1. PICK q \in Callers(h, "createSchedule", "class_manage"), from \in Days, p \in Patterns :
          \E c \in Writable(q) :
            LET open == {i \in DOMAIN versions[c] : versions[c][i].to = None}
            IN \E current \in IF open = {} THEN {0} ELSE open :
                 Start(h, [at |-> "schedule", class |-> c, current |-> current, version |-> Version(from, p)])
    BY <1>4 DEF CreateSchedule
  <2>2. PICK c \in Writable(q) :
            LET open == {i \in DOMAIN versions[c] : versions[c][i].to = None}
            IN \E current \in IF open = {} THEN {0} ELSE open :
                 Start(h, [at |-> "schedule", class |-> c, current |-> current, version |-> Version(from, p)])
    BY <2>1
  <2>3. c \in Classes /\ DOMAIN versions[c] \subseteq Nat
    BY <1>w DEF TypeOK, ClassroomTyped
  <2>4. PICK current \in Nat :
          Start(h, [at |-> "schedule", class |-> c, current |-> current, version |-> Version(from, p)])
    BY <2>2, <2>3
  <2>5. Version(from, p) \in Row /\ Version(from, p).to = None
    BY ClassroomAssumption DEF Version, Row
  <2>6. ClassroomMemory([at |-> "schedule", class |-> c, current |-> current, version |-> Version(from, p)])
    BY <2>3, <2>5 DEF ClassroomMemory
  <2> QED
    BY <2>4, <2>6, Called, MemoryOfModule, StartRuns
<1>5. ASSUME Enroll(h) PROVE Runs(h, ClassroomAts)
  <2>1. PICK q \in Callers(h, "enrollStudent", "class_manage"), s \in Students : \E c \in Writable(q) :
          Start(h, [at |-> "countSeats", seat |-> Seat(c, s), capacity |-> class[c].capacity])
    BY <1>5 DEF Enroll
  <2>2. PICK c \in Writable(q) :
          Start(h, [at |-> "countSeats", seat |-> Seat(c, s), capacity |-> class[c].capacity])
    BY <2>1
  <2>3. Seat(c, s) \in EnrolledRows /\ class[c].capacity \in Nat
    BY <1>w DEF Seat, EnrolledRows, ClassRows
  <2>4. ClassroomMemory([at |-> "countSeats", seat |-> Seat(c, s), capacity |-> class[c].capacity])
    BY <2>3 DEF ClassroomMemory
  <2> QED
    BY <2>2, <2>4, Called, MemoryOfModule, StartRuns
<1>6. ASSUME CountSeats(h) PROVE Runs(h, ClassroomAts)
  BY <1>0, <1>6, GoesRuns, ReplyRuns, MemoryOfModule DEF CountSeats, ClassroomMemory
<1>7. ASSUME AddToWaitlist(h) PROVE Runs(h, ClassroomAts)
  <2>1. PICK q \in Callers(h, "addToWaitlist", "class_manage"), s \in Students : \E c \in Writable(q) :
          Start(h, [at |-> "wait", entry |-> Entry(c, s)])
    BY <1>7 DEF AddToWaitlist
  <2>2. PICK c \in Writable(q) : Start(h, [at |-> "wait", entry |-> Entry(c, s)])
    BY <2>1
  <2>3. ClassroomMemory([at |-> "wait", entry |-> Entry(c, s)])
    BY <1>w DEF ClassroomMemory, Entry, EnrolledRows
  <2> QED
    BY <2>2, <2>3, Called, MemoryOfModule, StartRuns
<1> QED
  BY <1>1, <1>2, <1>3, <1>4, <1>5, <1>6, <1>7 DEF ClassroomStep

\* The statements of NotesService and AnnouncementsService.
LEMMA SharingRun ==
  ASSUME TypeOK, NEW h \in Requests, SharingStep(h)
  PROVE  Runs(h, SharingAts)
<1> USE DEF SharingAts
<1>1. ASSUME CreateDocument(h) \/ GetFileContent(h) \/ CreateAnnouncement(h) PROVE Runs(h, SharingAts)
  BY <1>1, StartRuns, Called, IdleMemory DEF CreateDocument, GetFileContent, CreateAnnouncement
<1>2. ASSUME CreateShare(h) PROVE Runs(h, SharingAts)
  <2>1. PICK q \in Callers(h, "createShare", "note_manage"), target \in ShareTargets : \E d \in Stored :
          Start(h, IF target.type = "student" THEN Tell(d, target) ELSE Idle)
    BY <1>2 DEF CreateShare
  <2>2. PICK d \in Stored : Start(h, IF target.type = "student" THEN Tell(d, target) ELSE Idle)
    BY <2>1
  <2>3. target.type = "student" => target \in Addressed
    BY DEF ShareTargets, Addressed, ToStudent, ToClass, ToInstitute
  <2>4. target.type = "student" => CourseworkMemory(Tell(d, target))
    BY <2>3 DEF CourseworkMemory, Tell, Stored
  <2>5. target.type = "student" => Memory(Tell(d, target)) /\ Tell(d, target).at = "tell"
    BY <2>4, MemoryOfModule DEF Tell
  <2> QED
    BY <2>2, <2>5, Called, StartRuns, IdleMemory
<1> QED
  BY <1>1, <1>2 DEF SharingStep

\* The statements of AssignmentsService and PerformanceService.
LEMMA CourseworkRun ==
  ASSUME TypeOK, NEW h \in Requests, CourseworkStep(h)
  PROVE  Runs(h, CourseworkAts)
<1> USE DEF CourseworkAts
<1>0. CourseworkMemory(req[h])
  BY DEF TypeOK, RequestsTyped, Memory
<1>1. ASSUME CreateMetricDefinition(h) \/ RecordPerformance(h) PROVE Runs(h, CourseworkAts)
  BY <1>1, StartRuns, Called, IdleMemory DEF CreateMetricDefinition, RecordPerformance
<1>2. ASSUME CreateAssignment(h) PROVE Runs(h, CourseworkAts)
  <2>1. PICK q \in Callers(h, "createAssignment", "assignment_manage"), a \in Assignments : \E t \in ProfileOf(q) :
          \E to \in {ToStudent(s) : s \in {x \in Students : student[x] # None}}
                      \cup {ToClass(c) : c \in {x \in Classes : class[x] # None /\ TeacherOf[x] = t}} :
            Start(h, Tell(a, to))
    BY <1>2 DEF CreateAssignment
  <2>2. PICK to \in Addressed : Start(h, Tell(a, to))
    BY <2>1 DEF Addressed, ToStudent, ToClass
  <2>3. CourseworkMemory(Tell(a, to))
    BY DEF CourseworkMemory, Tell
  <2>4. Memory(Tell(a, to)) /\ Tell(a, to).at = "tell"
    BY <2>3, MemoryOfModule DEF Tell
  <2> QED
    BY <2>2, <2>4, Called, StartRuns
<1>3. ASSUME CreateSubmission(h) PROVE Runs(h, CourseworkAts)
  <2>1. PICK q \in Callers(h, "createSubmission", "assignment_submit"), a \in Given : \E s \in StudentOf(q) :
          Start(h, [at |-> "submit", submission |-> Submission(a, s, Cardinality(Attempts(a, s)) + 1)])
    BY <1>3 DEF CreateSubmission
  <2>2. PICK s \in StudentOf(q) :
          Start(h, [at |-> "submit", submission |-> Submission(a, s, Cardinality(Attempts(a, s)) + 1)])
    BY <2>1
  <2>3. Cardinality(Attempts(a, s)) + 1 \in Nat
    BY AttemptsCounted DEF TypeOK, TasksTyped
  <2>4. Submission(a, s, Cardinality(Attempts(a, s)) + 1) \in SubmissionRows
    BY <2>3 DEF Submission, SubmissionRows, Given, StudentOf
  <2> DEFINE m == [at |-> "submit", submission |-> Submission(a, s, Cardinality(Attempts(a, s)) + 1)]
  <2>5. CourseworkMemory(m)
    BY <2>4 DEF CourseworkMemory
  <2>6. Memory(m)
    BY <2>5, MemoryOfModule
  <2> QED
    BY <2>2, <2>6, Called, StartRuns
<1>4. ASSUME Submit(h) PROVE Runs(h, CourseworkAts)
  BY <1>4, ReplyRuns DEF Submit
<1>5. ASSUME ReviewSubmission(h) PROVE Runs(h, CourseworkAts)
  <2>1. PICK q \in Callers(h, "reviewSubmission", "assignment_manage"), i \in DOMAIN submissions,
             grade \in Grades \cup {None}, feedback \in BOOLEAN :
          Start(h, [at |-> "saveReview", index |-> i,
                    row |-> [submissions[i] EXCEPT !.grade = IF grade = None THEN @ ELSE grade,
                                                   !.feedback = @ \/ feedback, !.reviewed = TRUE]])
    BY <1>5 DEF ReviewSubmission
  <2> DEFINE row == [submissions[i] EXCEPT !.grade = IF grade = None THEN @ ELSE grade,
                                           !.feedback = @ \/ feedback, !.reviewed = TRUE]
  <2>2. submissions[i] \in SubmissionRows
    BY RowOf DEF TypeOK, TasksTyped
  <2>3. row \in SubmissionRows /\ SameAttempt(row, submissions[i])
    BY <2>2 DEF SubmissionRows, SameAttempt
  <2>4. CourseworkMemory([at |-> "saveReview", index |-> i, row |-> row])
    <3> HIDE DEF row
    <3> QED
      BY <2>3 DEF CourseworkMemory
  <2> QED
    BY <2>1, <2>4, Called, MemoryOfModule, StartRuns
<1>6. ASSUME SaveReview(h) PROVE Runs(h, CourseworkAts)
  <2> DEFINE m == Tell(req[h].row.assignment, ToStudent(req[h].row.student))
  <2>1. req[h].at = "saveReview" /\ Goes(h, m)
    BY <1>6 DEF SaveReview
  <2>2. req[h].row \in SubmissionRows
    BY <1>0, <2>1 DEF CourseworkMemory
  <2>3. CourseworkMemory(m)
    BY <2>2 DEF CourseworkMemory, Tell, ToStudent, Addressed, SubmissionRows
  <2>4. Memory(m) /\ m.at = "tell"
    BY <2>3, MemoryOfModule DEF Tell
  <2> QED
    BY <2>1, <2>4, GoesRuns
<1> QED
  BY <1>1, <1>2, <1>3, <1>4, <1>5, <1>6 DEF CourseworkStep

\* A request that tells the people of a student is over.
LEMMA TellRun ==
  ASSUME NEW h \in Requests, TellStudentParty(h)
  PROVE  Runs(h, {"idle"})
BY ReplyRuns DEF TellStudentParty

-----------------------------------------------------------------------------
(* The steps of Next, each with what it does to the requests and what it   *)
(* leaves alone.                                                           *)

RecordsMove(h) ==
  /\ RecordsStep(h) /\ Runs(h, RecordsAts)
  /\ UNCHANGED <<enrolled, profile, told, account, affiliation, classroom, sharing, coursework>>
RegistrationMove(h) ==
  /\ RegistrationStep(h) /\ Runs(h, RegistrationAts) /\ DOMAIN login' = DOMAIN login
  /\ UNCHANGED <<student, assigned, linked, enrolled, profile, told, mergeLog, affiliation, classroom, sharing, coursework>>
AffiliationMove(h) ==
  /\ AffiliationStep(h) /\ Runs(h, AffiliationAts)
  /\ UNCHANGED <<people, enrolled, told, mergeLog, account, classroom, sharing, coursework>>
ClassroomMove(h) ==
  /\ ClassroomStep(h) /\ Runs(h, ClassroomAts)
  /\ UNCHANGED <<people, profile, told, mergeLog, account, affiliation, sharing, coursework>>
SharingMove(h) ==
  /\ SharingStep(h) /\ Runs(h, SharingAts)
  /\ UNCHANGED <<school, mergeLog, account, affiliation, classroom, coursework>>
CourseworkMove(h) ==
  /\ CourseworkStep(h) /\ Runs(h, CourseworkAts)
  /\ UNCHANGED <<school, mergeLog, account, affiliation, classroom, sharing>>
TellMove(h) ==
  /\ TellStudentParty(h) /\ Runs(h, {"idle"})
  /\ UNCHANGED <<people, enrolled, profile, services>>
\* A death, the time that passes, or nothing.
RestMove ==
  /\ (UNCHANGED <<req, deaths>> \/ \E h \in Requests : Die(h)) /\ plan' = plan
  /\ UNCHANGED <<school, mergeLog, account, archived, invites, paperwork, classroom, doc, shares, announced,
                 assignment, submissions, metric, records>>

\* Every step is one of them.
LEMMA Moves ==
  ASSUME TypeOK, [Next]_vars
  PROVE  \/ \E h \in Requests :
              \/ RecordsMove(h) \/ RegistrationMove(h) \/ AffiliationMove(h) \/ ClassroomMove(h)
              \/ SharingMove(h) \/ CourseworkMove(h) \/ TellMove(h)
         \/ RestMove
<1>1. ASSUME NEW h \in Requests, RecordsStep(h), UNCHANGED <<account, affiliation, classroom, sharing, coursework>>
      PROVE  RecordsMove(h)
  <2>1. UNCHANGED <<enrolled, profile, told>>
    BY <1>1 DEF RecordsStep, CreateStudent, CreateCommit, UpdateStudent, ArchiveStudent, LoadStudent, SaveStudent,
                AddGuardian, LinkGuardian, StartMerge, MergeFind, MergeCommit, school
  <2> QED
    BY <1>1, <2>1, RecordsRun DEF RecordsMove
<1>2. ASSUME NEW h \in Requests, RegistrationStep(h), UNCHANGED <<mergeLog, affiliation, classroom, sharing, coursework>>
      PROVE  RegistrationMove(h)
  <2>1. UNCHANGED <<student, assigned, linked, enrolled, profile, told>> /\ DOMAIN login' = DOMAIN login
    BY <1>2 DEF RegistrationStep, Register, CreateUser, AssignRole, FindGuardians, JoinGuardian, school, people
  <2> QED
    BY <1>2, <2>1, RegistrationRun DEF RegistrationMove
<1>3. ASSUME NEW h \in Requests, AffiliationStep(h), UNCHANGED <<mergeLog, account, classroom, sharing, coursework>>
      PROVE  AffiliationMove(h)
  <2>1. UNCHANGED <<people, enrolled, told>>
    BY <1>3 DEF AffiliationStep, CreateProfile, InsertProfile, UpdateProfile, SaveProfile, SubmitVerification, Review,
                SaveRequest, CreateInvite, Redeem, Affiliate, Redeemed, Archive, MarkPaid, SavePayout, school
  <2> QED
    BY <1>3, <2>1, AffiliationRun DEF AffiliationMove
<1>4. ASSUME NEW h \in Requests, ClassroomStep(h), UNCHANGED <<mergeLog, account, affiliation, sharing, coursework>>
      PROVE  ClassroomMove(h)
  <2>1. UNCHANGED <<people, profile, told>>
    BY <1>4 DEF ClassroomStep, CreateClass, UpdateClass, SaveClass, CreateSchedule, OpenVersion, CreateException,
                Enroll, CountSeats, TakeSeat, AddToWaitlist, Wait, school
  <2> QED
    BY <1>4, <2>1, ClassroomRun DEF ClassroomMove
<1>5. ASSUME NEW h \in Requests, SharingStep(h), UNCHANGED <<mergeLog, account, affiliation, coursework>>
      PROVE  SharingMove(h)
  <2>1. UNCHANGED <<school, classroom>>
    BY <1>5 DEF SharingStep, CreateDocument, CreateShare, GetFileContent, CreateAnnouncement
  <2> QED
    BY <1>5, <2>1, SharingRun DEF SharingMove
<1>6. ASSUME NEW h \in Requests, CourseworkStep(h), UNCHANGED <<mergeLog, account, affiliation, sharing>>
      PROVE  CourseworkMove(h)
  <2>1. UNCHANGED <<school, classroom>>
    BY <1>6 DEF CourseworkStep, CreateAssignment, CreateSubmission, Submit, ReviewSubmission, SaveReview,
                CreateMetricDefinition, RecordPerformance
  <2> QED
    BY <1>6, <2>1, CourseworkRun DEF CourseworkMove
<1>7. ASSUME NEW h \in Requests, TellStudentParty(h), UNCHANGED services
      PROVE  TellMove(h)
  BY <1>7, TellRun DEF TellMove, TellStudentParty
<1>8. ASSUME NEW h \in Requests, Die(h), UNCHANGED <<school, services>>
      PROVE  RestMove
  BY <1>8 DEF RestMove, Die, services, affiliation, sharing, library, coursework
<1>9. CASE UNCHANGED vars
  BY <1>9 DEF RestMove, vars, server, services, affiliation, sharing, library, coursework
<1>10. ASSUME NEW c \in Codes, Expire(c), UNCHANGED <<mergeLog, account, classroom, sharing, coursework>>
       PROVE  RestMove
  BY <1>10 DEF RestMove, Expire, server, sharing, library, coursework
<1>11. ASSUME NEW d \in Documents, Lapse(d), UNCHANGED <<mergeLog, account, affiliation, coursework>>
       PROVE  RestMove
  BY <1>11 DEF RestMove, Lapse, server, affiliation, coursework
<1>12. ASSUME NEW a \in Assignments, Due(a), UNCHANGED <<mergeLog, account, affiliation, sharing>>
       PROVE  RestMove
  BY <1>12 DEF RestMove, Due, server, affiliation, sharing, library
<1>13. ASSUME NEW h \in Requests, Handled(h)
       PROVE  \/ RecordsMove(h) \/ RegistrationMove(h) \/ AffiliationMove(h) \/ ClassroomMove(h)
              \/ SharingMove(h) \/ CourseworkMove(h) \/ TellMove(h) \/ RestMove
  BY <1>1, <1>2, <1>3, <1>4, <1>5, <1>6, <1>7, <1>8, <1>13 DEF Handled
<1> QED
  BY <1>9, <1>10, <1>11, <1>12, <1>13 DEF Next


-----------------------------------------------------------------------------
(* The statements a service's step starts from. *)

\* A request that a call starts was idle.
LEMMA StartsIdle ==
  ASSUME NEW h, NEW op, NEW permission, Callers(h, op, permission) # {}
  PROVE  req[h].at = "idle"
BY IdleMemory DEF Callers, Arrives

\* Each service only continues the requests that are at a statement of its own.
LEMMA StepsFrom ==
  ASSUME NEW h \in Requests
  PROVE  /\ RecordsStep(h) => req[h].at \in RecordsAts
         /\ RegistrationStep(h) => req[h].at \in RegistrationAts
         /\ AffiliationStep(h) => req[h].at \in AffiliationAts
         /\ ClassroomStep(h) => req[h].at \in ClassroomAts
         /\ SharingStep(h) => req[h].at \in SharingAts
         /\ CourseworkStep(h) => req[h].at \in CourseworkAts
         /\ TellStudentParty(h) => req[h].at = "tell"
<1>1. ASSUME RecordsStep(h) PROVE req[h].at \in RecordsAts
  <2>1. CASE CreateStudent(h) \/ UpdateStudent(h) \/ ArchiveStudent(h) \/ AddGuardian(h) \/ StartMerge(h)
    <3>1. req[h].at = "idle"
      BY <2>1, StartsIdle, Zenon DEF CreateStudent, UpdateStudent, ArchiveStudent, LoadStudent, AddGuardian, StartMerge
    <3> QED
      BY <3>1 DEF RecordsAts
  <2> QED
    BY <1>1, <2>1 DEF RecordsStep, CreateCommit, SaveStudent, LinkGuardian, MergeFind, MergeCommit, RecordsAts
<1>2. ASSUME RegistrationStep(h) PROVE req[h].at \in RegistrationAts
  <2>1. Register(h) => req[h].at = "idle"
    BY IdleMemory, Zenon DEF Register, Arrives
  <2> QED
    BY <1>2, <2>1 DEF RegistrationStep, CreateUser, AssignRole, FindGuardians, JoinGuardian, RegistrationAts
<1>3. ASSUME AffiliationStep(h) PROVE req[h].at \in AffiliationAts
  <2>1. CASE CreateProfile(h) \/ UpdateProfile(h) \/ SubmitVerification(h) \/ Review(h) \/ CreateInvite(h) \/ Redeem(h)
             \/ Archive(h) \/ MarkPaid(h)
    <3>1. req[h].at = "idle"
      BY <2>1, StartsIdle, Zenon DEF CreateProfile, UpdateProfile, SubmitVerification, Review, CreateInvite, Redeem,
         Archive, MarkPaid
    <3> QED
      BY <3>1 DEF AffiliationAts
  <2> QED
    BY <1>3, <2>1 DEF AffiliationStep, InsertProfile, SaveProfile, SaveRequest, Affiliate, Redeemed, SavePayout, AffiliationAts
<1>4. ASSUME ClassroomStep(h) PROVE req[h].at \in ClassroomAts
  <2>1. CASE CreateClass(h) \/ UpdateClass(h) \/ CreateSchedule(h) \/ CreateException(h) \/ Enroll(h) \/ AddToWaitlist(h)
    <3>1. req[h].at = "idle"
      BY <2>1, StartsIdle, Zenon DEF CreateClass, UpdateClass, CreateSchedule, CreateException, Enroll, AddToWaitlist
    <3> QED
      BY <3>1 DEF ClassroomAts
  <2> QED
    BY <1>4, <2>1 DEF ClassroomStep, SaveClass, OpenVersion, CountSeats, TakeSeat, Wait, ClassroomAts
<1>5. ASSUME SharingStep(h) PROVE req[h].at \in SharingAts
  <2>1. req[h].at = "idle"
    BY <1>5, StartsIdle, Zenon DEF SharingStep, CreateDocument, CreateShare, GetFileContent, CreateAnnouncement
  <2> QED
    BY <2>1 DEF SharingAts
<1>6. ASSUME CourseworkStep(h) PROVE req[h].at \in CourseworkAts
  <2>1. CASE CreateAssignment(h) \/ CreateSubmission(h) \/ ReviewSubmission(h) \/ CreateMetricDefinition(h)
             \/ RecordPerformance(h)
    <3>1. req[h].at = "idle"
      BY <2>1, StartsIdle, Zenon DEF CreateAssignment, CreateSubmission, ReviewSubmission, CreateMetricDefinition, RecordPerformance
    <3> QED
      BY <3>1 DEF CourseworkAts
  <2> QED
    BY <1>6, <2>1 DEF CourseworkStep, Submit, SaveReview, CourseworkAts
<1>7. ASSUME TellStudentParty(h) PROVE req[h].at = "tell"
  BY <1>7 DEF TellStudentParty
<1> QED
  BY <1>1, <1>2, <1>3, <1>4, <1>5, <1>6, <1>7
-----------------------------------------------------------------------------
(* Type correctness: the tables of each service, then the whole.           *)

\* The guardians a new student is created with become a sequence of links of that student.
LEMMA NewLinks ==
  ASSUME NEW s \in Students, NEW G \in SUBSET Guardians
  PROVE  SetToSeq({Link(s, g) : g \in G}) \in Seq({Link(s, g) : g \in G})
<1> DEFINE T == {Link(s, g) : g \in G}
           f == [l \in T |-> l.guardian]
<1>1. f \in Injection(T, G)
  BY DEF Link, Injection, IsInjective
<1>2. IsFiniteSet(G)
  BY SchoolAssumption, FS_Subset
<1> HIDE DEF f, T
<1>3. IsFiniteSet(T)
  BY <1>1, <1>2, FS_Injection
<1>4. Cardinality(T) \in Nat /\ ExistsBijection(1..Cardinality(T), T)
  BY <1>3, FS_CardinalityType
<1>5. PICK b \in Bijection(1..Cardinality(T), T) : TRUE
  BY <1>4 DEF ExistsBijection
<1>6. b \in [1..Cardinality(T) -> T] /\ IsInjective(b)
  BY <1>5 DEF Bijection, Injection
<1>7. SetToSeq(T) \in [1..Cardinality(T) -> T]
  BY <1>6 DEF SetToSeq
<1>8. SetToSeq(T) \in Seq(T)
  BY <1>4, <1>7
<1> QED
  BY <1>8 DEF T

\* The links of a new student are links.
LEMMA NewLinksTyped ==
  ASSUME NEW s \in Students, NEW G \in SUBSET Guardians
  PROVE  SetToSeq({Link(s, g) : g \in G}) \in Seq(LinkedRows)
<1>1. {Link(s, g) : g \in G} \subseteq LinkedRows
  BY DEF Link, LinkedRows
<1> QED
  BY <1>1, NewLinks, SeqMonotonic

\* The rows a merge moves stay assignments, or links, and every other row stays.
LEMMA MovedRows ==
  ASSUME NEW Rows, NEW rows \in Seq(Rows), NEW chosen, NEW s,
         \A i \in DOMAIN rows : [rows[i] EXCEPT !.student = s] \in Rows
  PROVE  /\ Moved(rows, chosen, s) \in Seq(Rows)
         /\ DOMAIN Moved(rows, chosen, s) = DOMAIN rows
<1>1. DOMAIN rows = 1..Len(rows) /\ Len(rows) \in Nat
  BY LenProperties
<1>2. Moved(rows, chosen, s) \in [1..Len(rows) -> Rows]
  BY <1>1, RowOf DEF Moved
<1> QED
  BY <1>1, <1>2, IsASeq

\* StudentsService keeps its tables typed.
LEMMA RecordsTypes ==
  ASSUME TypeOK, NEW h \in Requests, RecordsStep(h)
  PROVE  PeopleTyped'
<1> USE DEF PeopleTyped
<1>0. RecordsMemory(req[h]) /\ PeopleTyped
  BY DEF TypeOK, RequestsTyped, Memory
<1>1. CASE CreateStudent(h) \/ UpdateStudent(h) \/ ArchiveStudent(h) \/ AddGuardian(h) \/ StartMerge(h) \/ MergeFind(h)
  BY <1>0, <1>1 DEF CreateStudent, UpdateStudent, ArchiveStudent, LoadStudent, AddGuardian, StartMerge, MergeFind,
                    school, people
<1>2. CASE CreateCommit(h)
  <2> DEFINE m == req[h]
             new == SetToSeq({Link(m.student, g) : g \in m.guardians})
  <2>1. m \in [at : {m.at}, student : Students, teacher : Teachers, institute : Institutes \cup {None},
               guardians : SUBSET Guardians]
    BY <1>0, <1>2 DEF CreateCommit, RecordsMemory
  <2>2. new \in Seq(LinkedRows)
    BY <2>1, NewLinksTyped
  <2>3. Assignment(m.student, m.teacher) \in AssignedRows /\ StudentRow("active", m.institute) \in StudentRows
    BY <2>1 DEF Assignment, AssignedRows, StudentRow, StudentRows
  <2>4. /\ student' = [student EXCEPT ![m.student] = StudentRow("active", m.institute)]
        /\ assigned' = Append(assigned, Assignment(m.student, m.teacher))
        /\ linked' = linked \o new
        /\ UNCHANGED <<login, mergeLog>>
    BY <1>2 DEF CreateCommit
  <2>5. linked' \in Seq(LinkedRows)
    <3> HIDE DEF new
    <3> QED
      BY <1>0, <2>2, <2>4, ConcatProperties
  <2>6. assigned' \in Seq(AssignedRows)
    BY <1>0, <2>3, <2>4, AppendProperties
  <2>7. student' \in [Students -> StudentRows \cup {None}]
    BY <1>0, <2>3, <2>4
  <2> QED
    BY <1>0, <2>4, <2>5, <2>6, <2>7
<1>3. CASE SaveStudent(h)
  <2>1. req[h].student \in Students /\ req[h].row \in StudentRows
    BY <1>0, <1>3 DEF SaveStudent, RecordsMemory
  <2> QED
    BY <1>0, <1>3, <2>1 DEF SaveStudent
<1>4. CASE LinkGuardian(h)
  <2>1. req[h].link \in LinkedRows
    BY <1>0, <1>4 DEF LinkGuardian, RecordsMemory
  <2>2. linked' \in Seq(LinkedRows)
    BY <1>0, <1>4, <2>1, AppendProperties DEF LinkGuardian
  <2> QED
    BY <1>0, <1>4, <2>2 DEF LinkGuardian
<1>5. CASE MergeCommit(h)
  <2> DEFINE r == req[h]
  <2>1. r \in [at : {r.at}, surviving : Students, merged : Students, row : StudentRows,
               assignments : SUBSET Nat, links : SUBSET Nat]
    BY <1>0, <1>5 DEF MergeCommit, RecordsMemory
  <2>2. CASE UNCHANGED <<people, mergeLog>>
    BY <1>0, <2>2 DEF people
  <2>3. CASE ~ UNCHANGED <<people, mergeLog>>
    <3>1. /\ assigned' = Moved(assigned, r.assignments, r.surviving)
          /\ linked' = Moved(linked, r.links, r.surviving)
          /\ student' = [student EXCEPT ![r.merged] = [r.row EXCEPT !.status = "archived"]]
          /\ login' = login
          /\ mergeLog' = Append(mergeLog, [surviving |-> r.surviving, merged |-> r.merged])
      BY <1>5, <2>3 DEF MergeCommit
    <3> HIDE DEF r
    <3>2. \A i \in DOMAIN assigned : [assigned[i] EXCEPT !.student = r.surviving] \in AssignedRows
      <4>1. \A i \in DOMAIN assigned : assigned[i] \in AssignedRows
        BY <1>0, RowOf
      <4> QED
        BY <2>1, <4>1 DEF AssignedRows
    <3>3. \A i \in DOMAIN linked : [linked[i] EXCEPT !.student = r.surviving] \in LinkedRows
      <4>1. \A i \in DOMAIN linked : linked[i] \in LinkedRows
        BY <1>0, RowOf
      <4> QED
        BY <2>1, <4>1 DEF LinkedRows
    <3>4. assigned' \in Seq(AssignedRows) /\ linked' \in Seq(LinkedRows)
      BY <1>0, <3>1, <3>2, <3>3, MovedRows
    <3>5. [r.row EXCEPT !.status = "archived"] \in StudentRows
      BY <2>1 DEF StudentRows
    <3>6. student' \in [Students -> StudentRows \cup {None}]
      BY <1>0, <2>1, <3>1, <3>5
    <3>7. mergeLog' \in Seq([surviving : Students, merged : Students])
      BY <1>0, <2>1, <3>1, AppendProperties
    <3> QED
      BY <1>0, <3>1, <3>4, <3>6, <3>7
  <2> QED
    BY <2>2, <2>3
<1> QED
  BY <1>1, <1>2, <1>3, <1>4, <1>5 DEF RecordsStep

\* A saved profile is a profile.
LEMMA NoneIsNoProfile == None \notin ProfileRows
BY TablesAssumption DEF ProfileRows, Verifications

\* The services about a teacher's profile and institute keep theirs, and delete no profile.
LEMMA AffiliationTypes ==
  ASSUME TypeOK, NEW h \in Requests, AffiliationStep(h)
  PROVE  AffiliationTyped' /\ \A t \in Teachers : profile[t] # None => profile'[t] # None
<1> USE DEF AffiliationTyped
<1>0. AffiliationMemory(req[h]) /\ AffiliationTyped
  BY DEF TypeOK, RequestsTyped, Memory
<1> DEFINE Kept == \A t \in Teachers : profile[t] # None => profile'[t] # None
<1>v. ASSUME Kept, profile' \in [Teachers -> ProfileRows \cup {None}], UNCHANGED <<invites, verifications, payments>>
      PROVE  AffiliationTyped'
  <2>1. \A i \in DOMAIN verifications : verifications[i].teacher \in Teachers
    <3>1. \A i \in DOMAIN verifications : verifications[i] \in RequestRows
      BY <1>0, RowOf
    <3> QED
      BY <3>1 DEF RequestRows
  <2> QED
    BY <1>0, <1>v, <2>1
<1>1. CASE CreateProfile(h) \/ UpdateProfile(h) \/ Review(h) \/ Redeem(h) \/ Archive(h) \/ MarkPaid(h)
  BY <1>0, <1>1 DEF CreateProfile, UpdateProfile, Review, Redeem, Archive, MarkPaid, school, affiliation, paperwork
<1>2. CASE InsertProfile(h)
  <2>1. ProfileRow(None, "unverified") \in ProfileRows
    BY DEF ProfileRow, ProfileRows, Verifications
  <2>2. profile' \in [Teachers -> ProfileRows \cup {None}] /\ Kept
    BY <1>0, <1>2, <2>1 DEF InsertProfile
  <2> QED
    BY <1>2, <1>v, <2>2 DEF InsertProfile, affiliation, paperwork
<1>3. CASE SaveProfile(h)
  <2>1. req[h].verification \in Verifications /\ req[h].teacher \in Teachers /\ profile[req[h].teacher] # None
    BY <1>0, <1>3 DEF SaveProfile, AffiliationMemory
  <2>2. [profile[req[h].teacher] EXCEPT !.verification = req[h].verification] \in ProfileRows
    BY <1>0, <2>1 DEF ProfileRows
  <2>3. profile' \in [Teachers -> ProfileRows \cup {None}] /\ Kept
    BY <1>0, <1>3, <2>1, <2>2, NoneIsNoProfile DEF SaveProfile
  <2> QED
    BY <1>3, <1>v, <2>3 DEF SaveProfile, affiliation, paperwork
<1>4. CASE SubmitVerification(h)
  <2>1. PICK q : \E t \in ProfileOf(q) : verifications' = Append(verifications, Request(t, "pending"))
    BY <1>4 DEF SubmitVerification
  <2>2. PICK t \in ProfileOf(q) : verifications' = Append(verifications, Request(t, "pending"))
    BY <2>1
  <2>3. Request(t, "pending") \in RequestRows /\ Request(t, "pending").teacher = t /\ profile[t] # None
    BY DEF Request, RequestRows, ProfileOf
  <2>4. /\ verifications' \in Seq(RequestRows)
        /\ \A i \in DOMAIN verifications' :
             verifications'[i] = Request(t, "pending") \/ (i \in DOMAIN verifications /\ verifications'[i] = verifications[i])
    BY <1>0, <2>2, <2>3, AppendProperties
  <2>5. UNCHANGED <<profile, invites, payments>>
    BY <1>4 DEF SubmitVerification, school
  <2> QED
    BY <1>0, <2>3, <2>4, <2>5
<1>5. CASE SaveRequest(h)
  <2>1. req[h].request \in DOMAIN verifications /\ req[h].decision \in {"approved", "rejected"}
    BY <1>0, <1>5 DEF SaveRequest, AffiliationMemory
  <2>2. verifications[req[h].request] \in RequestRows
    BY <1>0, <2>1, RowOf
  <2>3. [verifications[req[h].request] EXCEPT !.status = req[h].decision] \in RequestRows
    BY <2>1, <2>2 DEF RequestRows
  <2>4. /\ verifications' = [verifications EXCEPT ![req[h].request].status = req[h].decision]
        /\ UNCHANGED <<profile, invites, payments>>
    BY <1>5 DEF SaveRequest, school
  <2>5. verifications' \in Seq(RequestRows) /\ DOMAIN verifications' = DOMAIN verifications
    BY <1>0, <2>1, <2>3, <2>4, ExceptSeq
  <2>6. \A i \in DOMAIN verifications : verifications'[i].teacher = verifications[i].teacher
    BY <2>2, <2>4 DEF RequestRows
  <2> QED
    BY <1>0, <2>4, <2>5, <2>6
<1>6. CASE CreateInvite(h)
  <2>1. PICK c \in Codes, i \in Institutes : invites' = [invites EXCEPT ![c] = Invite(i, None)]
    BY <1>6 DEF CreateInvite, Manages
  <2>2. Invite(i, None) \in InviteRows
    BY DEF Invite, InviteRows
  <2>3. invites' \in [Codes -> InviteRows \cup {None}]
    BY <1>0, <2>1, <2>2
  <2> QED
    BY <1>0, <1>6, <2>3 DEF CreateInvite, school, paperwork
<1>7. CASE Affiliate(h)
  <2>1. req[h].teacher \in Teachers /\ req[h].institute \in Institutes \cup {None} /\ profile[req[h].teacher] # None
    BY <1>0, <1>7 DEF Affiliate, AffiliationMemory
  <2>2. [profile[req[h].teacher] EXCEPT !.institute = req[h].institute] \in ProfileRows
    BY <1>0, <2>1 DEF ProfileRows
  <2>3. profile' \in [Teachers -> ProfileRows \cup {None}] /\ Kept
    BY <1>0, <1>7, <2>1, <2>2, NoneIsNoProfile DEF Affiliate
  <2> QED
    BY <1>7, <1>v, <2>3 DEF Affiliate, affiliation, paperwork
<1>8. CASE Redeemed(h)
  <2>1. req[h].code \in Codes /\ req[h].teacher \in Teachers /\ req[h].institute \in Institutes \cup {None}
    BY <1>0, <1>8 DEF Redeemed, AffiliationMemory
  <2>2. req[h].institute # None => Invite(req[h].institute, req[h].teacher) \in InviteRows
    BY <2>1 DEF Invite, InviteRows
  <2>3. invites' \in [Codes -> InviteRows \cup {None}]
    BY <1>0, <1>8, <2>1, <2>2 DEF Redeemed
  <2> QED
    BY <1>0, <1>8, <2>3 DEF Redeemed, school, paperwork
<1>9. CASE SavePayout(h)
  <2>1. req[h].payout \in Payouts
    BY <1>0, <1>9 DEF SavePayout, AffiliationMemory
  <2>2. payments' \in [Payouts -> Nat]
    BY <1>0, <1>9, <2>1 DEF SavePayout
  <2> QED
    BY <1>0, <1>9, <2>2 DEF SavePayout, school
<1> QED
  BY <1>1, <1>2, <1>3, <1>4, <1>5, <1>6, <1>7, <1>8, <1>9 DEF AffiliationStep

\* A capacity that was counted against is the new maximum or below it.
LEMMA RoomierOf ==
  ASSUME NEW m \in Nat, NEW n \in Nat
  PROVE  Max({m, n}) \in Nat /\ m <= Max({m, n}) /\ n <= Max({m, n})
<1>1. \E x \in {m, n} : \A y \in {m, n} : x >= y
  OBVIOUS
<1> QED
  BY <1>1 DEF Max

\* ClassesService keeps its tables typed.
LEMMA ClassroomTypes ==
  ASSUME TypeOK, NEW h \in Requests, ClassroomStep(h)
  PROVE  ClassroomTyped'
<1> USE DEF ClassroomTyped
<1>0. ClassroomMemory(req[h]) /\ ClassroomTyped
  BY DEF TypeOK, RequestsTyped, Memory
<1>1. CASE UpdateClass(h) \/ CreateSchedule(h) \/ CreateException(h) \/ Enroll(h) \/ AddToWaitlist(h) \/ Wait(h)
  BY <1>0, <1>1 DEF UpdateClass, CreateSchedule, CreateException, Enroll, AddToWaitlist, Wait,
                    school, classroom, timetable
<1>2. CASE CreateClass(h)
  <2>1. PICK q \in Callers(h, "createClass", "class_manage"), c \in Classes, n \in Capacities, p \in Places :
          /\ class[c] = None /\ TeacherOf[c] \in ProfileOf(q)
          /\ Start(h, Idle)
          /\ class' = [class EXCEPT ![c] = ClassRow(n, profile[TeacherOf[c]].institute, p)]
          /\ UNCHANGED <<school, versions, exceptions, waitlist, roomiest>>
    BY <1>2, Zenon DEF CreateClass
  <2>2. profile[TeacherOf[c]].institute \in Institutes \cup {None}
    BY <2>1 DEF ProfileOf, TypeOK, AffiliationTyped, ProfileRows
  <2>3. ClassRow(n, profile[TeacherOf[c]].institute, p) \in ClassRows
    BY <2>2, ClassroomAssumption DEF ClassRow, ClassRows
  <2>4. class' \in [Classes -> ClassRows \cup {None}]
    BY <1>0, <2>1, <2>3
  <2> QED
    BY <1>0, <1>2, <2>4 DEF CreateClass, school
<1>3. CASE SaveClass(h)
  <2>1. req[h].class \in Classes /\ req[h].row \in ClassRows
    BY <1>0, <1>3 DEF SaveClass, ClassroomMemory
  <2> QED
    BY <1>0, <1>3, <2>1 DEF SaveClass, school
<1>4. CASE OpenVersion(h)
  <2> DEFINE m == req[h]
             rows == versions[m.class]
  <2>1. m.class \in Classes /\ m.version \in Row /\ m.version.from - 1 \in Int
    BY <1>0, <1>4 DEF OpenVersion, ClassroomMemory, Row
  <2>2. rows \in Seq(Row)
    BY <1>0, <2>1
  <2>3. EndedAt(rows, m.current, m.version.from - 1) \in Seq(Row)
    BY <2>1, <2>2, EndedRow
  <2>4. Append(EndedAt(rows, m.current, m.version.from - 1), m.version) \in Seq(Row)
    BY <2>1, <2>3, AppendProperties
  <2>5. versions' \in [Classes -> Seq(Row)]
    BY <1>0, <1>4, <2>1, <2>4 DEF OpenVersion
  <2> QED
    BY <1>0, <1>4, <2>5 DEF OpenVersion, school
<1>5. CASE CountSeats(h)
  <2>1. req[h].seat \in EnrolledRows /\ req[h].capacity \in Nat
    BY <1>0, <1>5 DEF CountSeats, ClassroomMemory
  <2>2. roomiest' \in [Classes -> Nat]
    BY <1>0, <1>5, <2>1, RoomierOf DEF CountSeats, EnrolledRows
  <2> QED
    BY <1>0, <1>5, <2>2 DEF CountSeats, school, timetable
<1>6. CASE TakeSeat(h)
  <2>1. req[h].seat \in EnrolledRows
    BY <1>0, <1>6 DEF TakeSeat, ClassroomMemory
  <2>2. enrolled' \in Seq(EnrolledRows)
    BY <1>0, <1>6, <2>1, AppendProperties DEF TakeSeat
  <2> QED
    BY <1>0, <1>6, <2>2 DEF TakeSeat, classroom, timetable
<1> QED
  BY <1>1, <1>2, <1>3, <1>4, <1>5, <1>6 DEF ClassroomStep

\* So does NotesService.
LEMMA SharingTypes ==
  ASSUME TypeOK, NEW h \in Requests, SharingStep(h)
  PROVE  shares' \in Seq(ShareRows)
<1>0. shares \in Seq(ShareRows)
  BY DEF TypeOK, TasksTyped
<1>1. CASE CreateDocument(h) \/ GetFileContent(h) \/ CreateAnnouncement(h)
  BY <1>0, <1>1 DEF CreateDocument, GetFileContent, CreateAnnouncement, library
<1>2. CASE CreateShare(h)
  <2>1. PICK q \in Callers(h, "createShare", "note_manage"), target \in ShareTargets, download \in BOOLEAN :
          \E d \in Stored : shares' = Append(shares, Share(d, target, download))
    BY <1>2 DEF CreateShare
  <2>2. target \in Targets
    BY DEF ShareTargets, Targets, Addressed, ToStudent, ToClass, ToInstitute
  <2>3. \A d \in Stored : Share(d, target, download) \in ShareRows
    BY <2>2 DEF Share, ShareRows, Stored
  <2> QED
    BY <1>0, <2>1, <2>3, AppendProperties
<1> QED
  BY <1>1, <1>2 DEF SharingStep

\* So do AssignmentsService and PerformanceService, and a review changes no attempt.
LEMMA CourseworkTypes ==
  ASSUME TypeOK, NEW h \in Requests, CourseworkStep(h)
  PROVE  /\ assignment' \in [Assignments -> GivenRows \cup {None}]
         /\ submissions' \in Seq(SubmissionRows)
         /\ DOMAIN submissions \subseteq DOMAIN submissions'
         /\ \A i \in DOMAIN submissions : SameAttempt(submissions'[i], submissions[i])
<1>0. CourseworkMemory(req[h]) /\ TasksTyped
  BY DEF TypeOK, RequestsTyped, Memory
<1>1. CASE CreateSubmission(h) \/ ReviewSubmission(h) \/ CreateMetricDefinition(h) \/ RecordPerformance(h)
  BY <1>0, <1>1 DEF CreateSubmission, ReviewSubmission, CreateMetricDefinition, RecordPerformance,
                    coursework, TasksTyped, SameAttempt
<1>2. CASE CreateAssignment(h)
  <2>1. PICK q \in Callers(h, "createAssignment", "assignment_manage"), a \in Assignments,
             resubmission \in BOOLEAN, late \in BOOLEAN :
          \E t \in ProfileOf(q) :
            \E to \in {ToStudent(s) : s \in {x \in Students : student[x] # None}}
                        \cup {ToClass(c) : c \in {x \in Classes : class[x] # None /\ TeacherOf[x] = t}} :
              assignment' = [assignment EXCEPT ![a] = AssignmentRow(to, t, resubmission, late)]
    BY <1>2, Zenon DEF CreateAssignment
  <2>2. PICK t \in ProfileOf(q), to \in Addressed :
          assignment' = [assignment EXCEPT ![a] = AssignmentRow(to, t, resubmission, late)]
    BY <2>1 DEF Addressed, ToStudent, ToClass
  <2>3. AssignmentRow(to, t, resubmission, late) \in GivenRows
    BY DEF AssignmentRow, GivenRows, ProfileOf
  <2> QED
    BY <1>0, <1>2, <2>2, <2>3 DEF CreateAssignment, TasksTyped, SameAttempt
<1>3. CASE Submit(h)
  <2>1. req[h].submission \in SubmissionRows
    BY <1>0, <1>3 DEF Submit, CourseworkMemory
  <2>2. submissions' = Append(submissions, req[h].submission) /\ UNCHANGED assignment
    BY <1>3 DEF Submit
  <2> QED
    BY <1>0, <2>1, <2>2, AppendProperties DEF TasksTyped, SameAttempt
<1>4. CASE SaveReview(h)
  <2>1. /\ req[h].index \in DOMAIN submissions /\ req[h].row \in SubmissionRows
        /\ SameAttempt(req[h].row, submissions[req[h].index])
    BY <1>0, <1>4 DEF SaveReview, CourseworkMemory
  <2>2. submissions' = [submissions EXCEPT ![req[h].index] = req[h].row] /\ UNCHANGED assignment
    BY <1>4 DEF SaveReview
  <2>3. submissions' \in Seq(SubmissionRows) /\ DOMAIN submissions' = DOMAIN submissions
    BY <1>0, <2>1, <2>2, ExceptSeq DEF TasksTyped
  <2> QED
    BY <1>0, <2>1, <2>2, <2>3 DEF TasksTyped, SameAttempt
<1> QED
  BY <1>1, <1>2, <1>3, <1>4 DEF CourseworkStep

\* No row that a request has found is gone when it goes on.
LEMMA MemoryGrows ==
  ASSUME NEW m, Memory(m),
         \A t \in Teachers : profile[t] # None => profile'[t] # None,
         DOMAIN verifications \subseteq DOMAIN verifications',
         DOMAIN submissions \subseteq DOMAIN submissions',
         \A i \in DOMAIN submissions : SameAttempt(submissions'[i], submissions[i])
  PROVE  Memory(m)'
<1>1. RecordsMemory(m)' /\ RegistrationMemory(m)' /\ ClassroomMemory(m)'
  BY DEF Memory, RecordsMemory, RegistrationMemory, ClassroomMemory
<1>2. AffiliationMemory(m)'
  <2>1. AffiliationMemory(m)
    BY DEF Memory
  <2>2. CASE m.at = "saveRequest"
    BY <2>1, <2>2 DEF AffiliationMemory
  <2>3. CASE m.at # "saveRequest"
    BY <2>1, <2>3 DEF AffiliationMemory
  <2> QED
    BY <2>2, <2>3
<1>3. CourseworkMemory(m)'
  <2>1. CourseworkMemory(m)
    BY DEF Memory
  <2>2. CASE m.at = "saveReview"
    <3>1. m \in [at : {m.at}, index : DOMAIN submissions, row : SubmissionRows] /\ SameAttempt(m.row, submissions[m.index])
      BY <2>1, <2>2 DEF CourseworkMemory
    <3>2. m.index \in DOMAIN submissions
      BY <3>1
    <3>3. m \in [at : {m.at}, index : DOMAIN submissions', row : SubmissionRows]
      BY <3>1, <3>2
    <3>4. SameAttempt(m.row, submissions'[m.index])
      BY <3>1, <3>2 DEF SameAttempt
    <3> QED
      BY <2>2, <3>3, <3>4 DEF CourseworkMemory
  <2>3. CASE m.at # "saveReview"
    BY <2>1, <2>3 DEF CourseworkMemory
  <2> QED
    BY <2>2, <2>3
<1> QED
  BY <1>1, <1>2, <1>3 DEF Memory

\* After a step of h, the memory of every request is well formed again.
LEMMA RunsTyped ==
  ASSUME RequestsTyped, NEW h \in Requests, NEW ats, Runs(h, ats),
         \A t \in Teachers : profile[t] # None => profile'[t] # None,
         DOMAIN verifications \subseteq DOMAIN verifications',
         DOMAIN submissions \subseteq DOMAIN submissions',
         \A i \in DOMAIN submissions : SameAttempt(submissions'[i], submissions[i])
  PROVE  RequestsTyped'
<1>1. PICK m : Memory(m) /\ req' = [req EXCEPT ![h] = m]
  BY DEF Runs
<1>2. DOMAIN req' = Requests
  BY <1>1 DEF RequestsTyped
<1>3. ASSUME NEW k \in Requests PROVE \E x : Memory(x) /\ req'[k] = x
  BY <1>1 DEF RequestsTyped
<1>4. \A x : Memory(x) => Memory(x)'
  BY MemoryGrows
<1>5. ASSUME NEW k \in Requests PROVE Memory(req[k])'
  <2>1. PICK x : Memory(x) /\ req'[k] = x
    BY <1>3
  <2>2. Memory(x)'
    BY <1>4, <2>1
  <2> QED
    BY <2>1, <2>2
<1> QED
  BY <1>2, <1>5 DEF RequestsTyped

\* Every step keeps the tables and the memories typed.
LEMMA TypeStep == TypeOK /\ [Next]_vars => TypeOK'
<1> SUFFICES ASSUME TypeOK, [Next]_vars PROVE TypeOK'
  OBVIOUS
<1>0. RequestsTyped /\ PeopleTyped /\ AffiliationTyped /\ ClassroomTyped /\ TasksTyped
  BY DEF TypeOK
<1>s. ASSUME NEW h \in Requests, NEW ats, Runs(h, ats), UNCHANGED <<profile, verifications, submissions>>
      PROVE  RequestsTyped'
  BY <1>0, <1>s, RunsTyped DEF SameAttempt
<1>1. ASSUME NEW h \in Requests, RecordsMove(h) PROVE TypeOK'
  <2>1. RequestsTyped' /\ PeopleTyped'
    BY <1>1, <1>s, RecordsTypes DEF RecordsMove, affiliation, paperwork, coursework
  <2>2. AffiliationTyped' /\ ClassroomTyped' /\ TasksTyped'
    BY <1>0, <1>1 DEF RecordsMove, affiliation, paperwork, classroom, timetable, sharing, library, coursework,
                      AffiliationTyped, ClassroomTyped, TasksTyped
  <2> QED
    BY <2>1, <2>2 DEF TypeOK
<1>2. ASSUME NEW h \in Requests, RegistrationMove(h) PROVE TypeOK'
  <2>1. RequestsTyped'
    BY <1>2, <1>s DEF RegistrationMove, affiliation, paperwork, coursework
  <2>2. PeopleTyped' /\ AffiliationTyped' /\ ClassroomTyped' /\ TasksTyped'
    BY <1>0, <1>2 DEF RegistrationMove, affiliation, paperwork, classroom, timetable, sharing, library, coursework,
                      PeopleTyped, AffiliationTyped, ClassroomTyped, TasksTyped
  <2> QED
    BY <2>1, <2>2 DEF TypeOK
<1>3. ASSUME NEW h \in Requests, AffiliationMove(h) PROVE TypeOK'
  <2>1. DOMAIN verifications \subseteq DOMAIN verifications'
    <3>1. CASE SubmitVerification(h)
      <4>1. PICK x : verifications' = Append(verifications, x)
        BY <3>1 DEF SubmitVerification
      <4> QED
        BY <1>0, <4>1 DEF AffiliationTyped
    <3>2. CASE ~ SubmitVerification(h)
      BY <1>3, <3>2 DEF AffiliationMove, AffiliationStep, CreateProfile, InsertProfile, UpdateProfile, SaveProfile,
                        Review, SaveRequest, CreateInvite, Redeem, Affiliate, Redeemed, Archive, MarkPaid, SavePayout,
                        affiliation, paperwork
    <3> QED
      BY <3>1, <3>2
  <2>2. RequestsTyped' /\ AffiliationTyped'
    BY <1>0, <1>3, <2>1, AffiliationTypes, RunsTyped DEF AffiliationMove, coursework, SameAttempt
  <2>3. PeopleTyped' /\ ClassroomTyped' /\ TasksTyped'
    BY <1>0, <1>3 DEF AffiliationMove, people, classroom, timetable, sharing, library, coursework,
                      PeopleTyped, ClassroomTyped, TasksTyped
  <2> QED
    BY <2>2, <2>3 DEF TypeOK
<1>4. ASSUME NEW h \in Requests, ClassroomMove(h) PROVE TypeOK'
  <2>1. RequestsTyped' /\ ClassroomTyped'
    BY <1>4, <1>s, ClassroomTypes DEF ClassroomMove, affiliation, paperwork, coursework
  <2>2. PeopleTyped' /\ AffiliationTyped' /\ TasksTyped'
    BY <1>0, <1>4 DEF ClassroomMove, people, affiliation, paperwork, sharing, library, coursework,
                      PeopleTyped, AffiliationTyped, TasksTyped
  <2> QED
    BY <2>1, <2>2 DEF TypeOK
<1>5. ASSUME NEW h \in Requests, SharingMove(h) PROVE TypeOK'
  <2>1. RequestsTyped' /\ TasksTyped'
    BY <1>0, <1>5, <1>s, SharingTypes DEF SharingMove, school, affiliation, paperwork, coursework, TasksTyped
  <2>2. PeopleTyped' /\ AffiliationTyped' /\ ClassroomTyped'
    BY <1>0, <1>5 DEF SharingMove, school, people, affiliation, paperwork, classroom, timetable,
                      PeopleTyped, AffiliationTyped, ClassroomTyped
  <2> QED
    BY <2>1, <2>2 DEF TypeOK
<1>6. ASSUME NEW h \in Requests, CourseworkMove(h) PROVE TypeOK'
  <2>1. RequestsTyped' /\ TasksTyped'
    BY <1>0, <1>6, CourseworkTypes, RunsTyped DEF CourseworkMove, school, affiliation, paperwork, sharing, library,
                                                  TasksTyped
  <2>2. PeopleTyped' /\ AffiliationTyped' /\ ClassroomTyped'
    BY <1>0, <1>6 DEF CourseworkMove, school, people, affiliation, paperwork, classroom, timetable,
                      PeopleTyped, AffiliationTyped, ClassroomTyped
  <2> QED
    BY <2>1, <2>2 DEF TypeOK
<1>7. ASSUME RestMove \/ \E h \in Requests : TellMove(h) PROVE TypeOK'
  <2>1. UNCHANGED <<people, enrolled, profile, mergeLog, invites, paperwork, classroom, shares, assignment, submissions>>
    BY <1>7 DEF RestMove, TellMove, school, services, affiliation, sharing, library, coursework
  <2>2. PeopleTyped' /\ AffiliationTyped' /\ ClassroomTyped' /\ TasksTyped'
    BY <1>0, <2>1 DEF people, paperwork, classroom, timetable, PeopleTyped, AffiliationTyped, ClassroomTyped, TasksTyped
  <2>3. RequestsTyped'
    <3>1. \A x : Memory(x) => Memory(x)'
      BY <2>1, MemoryGrows DEF SameAttempt, paperwork
    <3>2. \A k \in Requests : \E x : Memory(x) /\ req'[k] = x
      BY <1>0, <1>7, IdleMemory DEF RequestsTyped, RestMove, TellMove, Die, Runs
    <3>3. DOMAIN req' = Requests
      BY <1>0, <1>7 DEF RequestsTyped, RestMove, TellMove, Die, Runs
    <3>4. ASSUME NEW k \in Requests PROVE Memory(req[k])'
      <4>1. PICK x : Memory(x) /\ req'[k] = x
        BY <3>2
      <4>2. Memory(x)'
        BY <3>1, <4>1
      <4> QED
        BY <4>1, <4>2
    <3> QED
      BY <3>3, <3>4 DEF RequestsTyped
  <2> QED
    BY <2>2, <2>3 DEF TypeOK
<1> QED
  BY <1>1, <1>2, <1>3, <1>4, <1>5, <1>6, <1>7, Moves

\* The first tables are typed.
LEMMA TypeStart == Init => TypeOK
<1> SUFFICES ASSUME Init PROVE TypeOK
  OBVIOUS
<1>1. RequestsTyped
  BY IdleMemory DEF Init, SchoolInit, ServerInit, RequestsTyped
<1>2. PeopleTyped
  <2> DEFINE existing == {s \in Students : FirstStudent[s] # None}
  <2>1. /\ [student : existing, teacher : Teachers] \subseteq AssignedRows
        /\ [student : existing, guardian : Guardians] \subseteq LinkedRows
    BY DEF AssignedRows, LinkedRows
  <2>2. FirstAssigned \in Seq(AssignedRows) /\ FirstLinked \in Seq(LinkedRows)
    BY <2>1, TablesAssumption, SeqMonotonic
  <2>3. FirstStudent \in [Students -> StudentRows \cup {None}]
    BY RecordsAssumption DEF StudentRows
  <2> QED
    BY <2>2, <2>3 DEF Init, SchoolInit, RecordsInit, PeopleTyped
<1>3. AffiliationTyped
  BY TablesAssumption DEF Init, SchoolInit, AffiliationInit, AffiliationTyped, ProfileRows, Verifications
<1>4. ClassroomTyped
  <2> DEFINE existing == {s \in Students : FirstStudent[s] # None}
  <2>1. [class : Classes, student : existing] \subseteq EnrolledRows
    BY DEF EnrolledRows
  <2>2. FirstEnrolled \in Seq(EnrolledRows)
    BY <2>1, TablesAssumption, SeqMonotonic
  <2>3. enrolled = FirstEnrolled /\ class = FirstClass
    BY DEF Init, SchoolInit, ClassroomInit
  <2>4. \A c : Seats(c) \in Nat
    BY <2>2, <2>3, RowsCounted DEF Seats
  <2>5. class \in [Classes -> ClassRows \cup {None}]
    BY <2>3, ClassroomAssumption DEF ClassRows
  <2> QED
    BY <2>2, <2>3, <2>4, <2>5 DEF Init, ClassroomInit, ClassroomTyped
<1>5. TasksTyped
  BY DEF Init, SharingInit, CourseworkInit, TasksTyped
<1> QED
  BY <1>1, <1>2, <1>3, <1>4, <1>5 DEF TypeOK

\* The tables stay typed and every request remembers at each statement what the statement uses,
\* whatever the calls, whichever overlap and wherever they die; a row that was found is still there.
THEOREM TypeCorrect == Spec => []TypeOK
<1>1. Init => TypeOK
  BY TypeStart
<1>2. TypeOK /\ [Next]_vars => TypeOK'
  BY TypeStep
<1> QED
  BY <1>1, <1>2, PTL DEF Spec

-----------------------------------------------------------------------------
(* The requests in progress. *)

\* In a serial plan at most one request is in progress.
Alone == Serial => \A h, k \in Requests : req[h].at # "idle" /\ req[k].at # "idle" => h = k

\* As many requests as may be in progress: no more than Racing.
LEMMA RacingBounds ==
  ASSUME NEW Busy \in SUBSET Requests, Serial => \A h, k \in Busy : h = k
  PROVE  /\ IsFiniteSet(Busy) /\ Cardinality(Busy) \in Nat
         /\ Cardinality(Busy) <= Racing /\ Racing \in Nat /\ Racing >= 1
<1>1. IsFiniteSet(Busy) /\ Cardinality(Busy) \in Nat /\ Cardinality(Busy) <= Cardinality(Requests)
  BY ServerAssumption, FS_Subset, FS_CardinalityType
<1>2. Cardinality(Requests) \in Nat /\ Cardinality(Requests) >= 1
  BY ServerAssumption, FS_CardinalityType, FS_EmptySet
<1>3. CASE ~Serial
  BY <1>1, <1>2, <1>3 DEF Racing
<1>4. CASE Serial
  <2>1. CASE Busy = {}
    BY <1>1, <1>4, <2>1, FS_EmptySet DEF Racing
  <2>2. ASSUME NEW h \in Busy PROVE Cardinality(Busy) = 1
    <3>1. Busy = {h}
      BY <1>4
    <3> QED
      BY <3>1, FS_Singleton
  <2> QED
    BY <1>1, <1>4, <2>1, <2>2 DEF Racing
<1> QED
  BY <1>3, <1>4

\* A step of a request leaves the others as they are.
LEMMA RunsAlone ==
  ASSUME RequestsTyped, Alone, NEW h \in Requests, NEW ats, Runs(h, ats)
  PROVE  Alone'
<1>1. PICK m : req' = [req EXCEPT ![h] = m]
  BY DEF Runs
<1>2. \A k \in Requests \ {h} : req'[k] = req[k]
  BY <1>1 DEF RequestsTyped
<1>3. Serial' = Serial
  BY DEF Runs, Serial
<1>4. Serial => \A k \in Requests \ {h} : req[k].at = "idle"
  BY IdleMemory DEF Runs, Alone
<1> QED
  BY <1>2, <1>3, <1>4 DEF Alone

\* No step starts a second request in a serial plan.
LEMMA AloneStep == TypeOK /\ Alone /\ [Next]_vars => Alone'
<1> SUFFICES ASSUME TypeOK, Alone, [Next]_vars PROVE Alone'
  OBVIOUS
<1>0. RequestsTyped
  BY DEF TypeOK
<1>1. ASSUME RestMove PROVE Alone'
  BY <1>0, <1>1, IdleMemory DEF RestMove, Die, Alone, Serial, RequestsTyped
<1> QED
  BY <1>0, <1>1, Moves, RunsAlone DEF RecordsMove, RegistrationMove, AffiliationMove, ClassroomMove, SharingMove,
     CourseworkMove, TellMove

\* No request is in progress at first.
LEMMA AloneStart == Init => Alone
BY IdleMemory DEF Init, SchoolInit, ServerInit, Alone

\* A plan that calls one operation after the other has at most one request in progress at any time.
THEOREM OneAtATime == Spec => []Alone
<1>1. Init => Alone
  BY AloneStart
<1>2. TypeOK /\ Alone /\ [Next]_vars => Alone'
  BY AloneStep
<1> QED
  BY <1>1, <1>2, TypeCorrect, PTL DEF Spec

-----------------------------------------------------------------------------
(* The requests that a step does not bring to the statements it is about.  *)

\* No request comes to one of the statements ats.
Calm(ats) == req' = req \/ \E h \in Requests : \E m : m.at \notin ats /\ req' = [req EXCEPT ![h] = m]

\* A step of another service, a death or the time that passes is calm.
LEMMA RunsCalm ==
  ASSUME NEW h \in Requests, NEW ats, NEW others, Runs(h, ats), ats \cap others = {}
  PROVE  Calm(others) /\ plan' = plan
BY DEF Runs, Calm

\* So is the start of a request that goes on elsewhere.
LEMMA GoesCalm ==
  ASSUME NEW h \in Requests, NEW m, NEW ats, Start(h, m) \/ Goes(h, m), m.at \notin ats
  PROVE  Calm(ats) /\ plan' = plan
BY DEF Start, Goes, Calm

\* So is the end of a request.
LEMMA ReplyCalm ==
  ASSUME NEW h \in Requests, NEW ats, Start(h, Idle) \/ Reply(h), "idle" \notin ats
  PROVE  Calm(ats) /\ plan' = plan
BY GoesCalm, IdleMemory DEF Reply

\* A death or the time that passes is calm.
LEMMA RestCalm ==
  ASSUME NEW ats, RestMove, "idle" \notin ats
  PROVE  Calm(ats) /\ plan' = plan
BY IdleMemory DEF RestMove, Die, Calm

\* Requests that were at the statements ats before a calm step are the only ones there after it.
LEMMA CalmKeeps ==
  ASSUME RequestsTyped, NEW ats, Calm(ats), NEW k \in Requests, req'[k].at \in ats
  PROVE  req'[k] = req[k]
BY DEF Calm, RequestsTyped

-----------------------------------------------------------------------------
(* Counting the rows of a table. *)

\* The rows of R in a table.
Of(rows, R) == {i \in DOMAIN rows : rows[i] \in R}

\* A new row counts when it is one of R.
LEMMA AppendCounts ==
  ASSUME NEW S, NEW rows \in Seq(S), NEW x \in S, NEW R
  PROVE  /\ Cardinality(Of(rows, R)) \in Nat
         /\ Cardinality(Of(Append(rows, x), R)) = Cardinality(Of(rows, R)) + IF x \in R THEN 1 ELSE 0
<1> DEFINE n == Len(rows)
           new == Append(rows, x)
<1>1. n \in Nat /\ DOMAIN rows = 1..n
  BY LenProperties
<1>2. DOMAIN new = 1..(n + 1) /\ new[n + 1] = x /\ \A i \in 1..n : new[i] = rows[i]
  BY <1>1, AppendProperties
<1>3. IsFiniteSet(Of(rows, R)) /\ Cardinality(Of(rows, R)) \in Nat
  BY RowsCounted DEF Of
<1> HIDE DEF new
<1>4. CASE x \in R
  <2>1. Of(new, R) = Of(rows, R) \cup {n + 1} /\ n + 1 \notin Of(rows, R)
    BY <1>1, <1>2, <1>4 DEF Of
  <2> QED
    BY <1>3, <1>4, <2>1, FS_AddElement DEF new
<1>5. CASE x \notin R
  <2>1. Of(new, R) = Of(rows, R)
    BY <1>1, <1>2, <1>5 DEF Of
  <2> QED
    BY <1>3, <1>5, <2>1 DEF new
<1> QED
  BY <1>4, <1>5

-----------------------------------------------------------------------------
(* The versions of a schedule. *)

\* Only createSchedule's transaction changes them.
LEMMA VersionsMove ==
  ASSUME TypeOK, [Next]_vars
  PROVE  UNCHANGED versions \/ \E h \in Requests : OpenVersion(h)
<1>1. ASSUME NEW h \in Requests, ClassroomMove(h) PROVE UNCHANGED versions \/ OpenVersion(h)
  BY <1>1 DEF ClassroomMove, ClassroomStep, CreateClass, UpdateClass, SaveClass, CreateSchedule, CreateException,
              Enroll, CountSeats, TakeSeat, AddToWaitlist, Wait, classroom, timetable
<1> QED
  BY <1>1, Moves DEF RecordsMove, RegistrationMove, AffiliationMove, SharingMove, CourseworkMove, TellMove, RestMove,
                     services, classroom, timetable

\* No class has a gap in its schedule.
NoGaps == \A c \in Classes : Gapless(versions[c])

\* Every step keeps the schedules without gaps.
LEMMA NoGapsStep == TypeOK /\ NoGaps /\ [Next]_vars => NoGaps'
<1> SUFFICES ASSUME TypeOK, NoGaps, [Next]_vars PROVE NoGaps'
  OBVIOUS
<1>1. CASE UNCHANGED versions
  BY <1>1 DEF NoGaps, Gapless
<1>2. ASSUME NEW h \in Requests, OpenVersion(h) PROVE NoGaps'
  <2> DEFINE m == req[h]
             new == Append(EndedAt(versions[m.class], m.current, m.version.from - 1), m.version)
  <2>1. m.at = "schedule" /\ versions' = [versions EXCEPT ![m.class] = new]
    BY <1>2 DEF OpenVersion
  <2>2. m \in [at : {m.at}, class : Classes, current : Nat, version : Row] /\ m.version.to = None
    BY <2>1 DEF TypeOK, RequestsTyped, Memory, ClassroomMemory
  <2>3. m.class \in Classes /\ m.version \in Row
    BY <2>2
  <2>4. versions \in [Classes -> Seq(Row)]
    BY DEF TypeOK, ClassroomTyped
  <2>5. versions[m.class] \in Seq(Row) /\ Gapless(versions[m.class])
    BY <2>3, <2>4 DEF NoGaps
  <2>6. Gapless(new)
    BY <2>2, <2>3, <2>5, NewVersion
  <2>7. ASSUME NEW c \in Classes PROVE Gapless(versions'[c])
    <3> HIDE DEF new, m
    <3>1. CASE c = m.class
      BY <2>1, <2>3, <2>4, <2>6, <3>1
    <3>2. CASE c # m.class
      BY <2>1, <2>4, <3>2 DEF NoGaps
    <3> QED
      BY <3>1, <3>2
  <2> QED
    BY <2>7 DEF NoGaps, Gapless
<1> QED
  BY <1>1, <1>2, VersionsMove

\* createSchedule never leaves a day without a version: whatever requests do at once or die of,
\* and in whichever order versions start, every day from the earliest start of a class on is a
\* day of some version of it.
THEOREM Scheduled == Spec => []EveryDayScheduled
<1>1. Init => NoGaps
  BY DEF Init, ClassroomInit, NoGaps, Gapless
<1>2. TypeOK /\ NoGaps /\ [Next]_vars => NoGaps'
  BY NoGapsStep
<1>3. NoGaps => EveryDayScheduled
  BY DEF NoGaps, Gapless, EveryDayScheduled
<1> QED
  BY <1>1, <1>2, <1>3, TypeCorrect, PTL DEF Spec

-----------------------------------------------------------------------------
(* The seats of a class. *)

\* The requests about to insert an enrollment of the class, and those that have looked whether
\* this student has one.
Taking(c) == {h \in Requests : req[h].at = "takeSeat" /\ req[h].seat.class = c}
Booking(seat) == {h \in Requests : req[h].at \in {"countSeats", "takeSeat"} /\ req[h].seat = seat}
Booked(seat) == Of(enrolled, {seat})

\* The seats that are taken or about to be.
SeatsCounted ==
  \A c \in Classes : Seats(c) + Cardinality(Taking(c)) <= roomiest[c] + Racing - 1
RowsCountedOnce ==
  \A seat \in EnrolledRows : Cardinality(Booked(seat)) + Cardinality(Booking(seat)) <= Racing
SeatInv == SeatsCounted /\ RowsCountedOnce

\* The seats of a class are the rows of that class.
RowsOfClass(c) == {r \in EnrolledRows : r.class = c}
LEMMA SeatsAreRows ==
  ASSUME NEW rows \in Seq(EnrolledRows), NEW c
  PROVE  {i \in DOMAIN rows : rows[i].class = c} = Of(rows, RowsOfClass(c))
<1>1. \A i \in DOMAIN rows : rows[i] \in EnrolledRows
  BY RowOf
<1> QED
  BY <1>1 DEF Of, RowsOfClass

\* The counts of SeatInv are numbers.
LEMMA SeatCounts ==
  ASSUME TypeOK, Alone, NEW c, NEW seat
  PROVE  /\ Seats(c) \in Nat /\ Cardinality(Booked(seat)) \in Nat
         /\ IsFiniteSet(Taking(c)) /\ Cardinality(Taking(c)) \in Nat /\ Cardinality(Taking(c)) <= Racing
         /\ IsFiniteSet(Booking(seat)) /\ Cardinality(Booking(seat)) \in Nat /\ Cardinality(Booking(seat)) <= Racing
         /\ Racing \in Nat /\ Racing >= 1
<1>1. Seats(c) \in Nat /\ Cardinality(Booked(seat)) \in Nat
  BY RowsCounted DEF TypeOK, ClassroomTyped, Seats, Booked, Of
<1>2. Taking(c) \subseteq Requests /\ (Serial => \A h, k \in Taking(c) : h = k)
  BY DEF Taking, Alone
<1>3. Booking(seat) \subseteq Requests /\ (Serial => \A h, k \in Booking(seat) : h = k)
  BY DEF Booking, Alone
<1> QED
  BY <1>1, <1>2, <1>3, RacingBounds

\* Only enrollStudent takes seats, and only it comes to the statements that do.
SeatAts == {"countSeats", "takeSeat"}
LEMMA SeatMoves ==
  ASSUME TypeOK, [Next]_vars
  PROVE  \/ Calm(SeatAts) /\ UNCHANGED <<enrolled, roomiest, plan>>
         \/ \E h \in Requests : Enroll(h) \/ CountSeats(h) \/ TakeSeat(h)
<1> USE DEF SeatAts
<1>1. ASSUME NEW h \in Requests, RecordsMove(h) PROVE Calm(SeatAts) /\ UNCHANGED <<enrolled, roomiest, plan>>
  BY <1>1, RunsCalm DEF RecordsMove, RecordsAts, classroom
<1>2. ASSUME NEW h \in Requests, RegistrationMove(h) PROVE Calm(SeatAts) /\ UNCHANGED <<enrolled, roomiest, plan>>
  BY <1>2, RunsCalm DEF RegistrationMove, RegistrationAts, classroom
<1>3. ASSUME NEW h \in Requests, AffiliationMove(h) PROVE Calm(SeatAts) /\ UNCHANGED <<enrolled, roomiest, plan>>
  BY <1>3, RunsCalm DEF AffiliationMove, AffiliationAts, classroom
<1>4. ASSUME NEW h \in Requests, SharingMove(h) PROVE Calm(SeatAts) /\ UNCHANGED <<enrolled, roomiest, plan>>
  BY <1>4, RunsCalm DEF SharingMove, SharingAts, classroom, school
<1>5. ASSUME NEW h \in Requests, CourseworkMove(h) PROVE Calm(SeatAts) /\ UNCHANGED <<enrolled, roomiest, plan>>
  BY <1>5, RunsCalm DEF CourseworkMove, CourseworkAts, classroom, school
<1>6. ASSUME NEW h \in Requests, TellMove(h) PROVE Calm(SeatAts) /\ UNCHANGED <<enrolled, roomiest, plan>>
  BY <1>6, RunsCalm DEF TellMove, classroom, services
<1>7. ASSUME RestMove PROVE Calm(SeatAts) /\ UNCHANGED <<enrolled, roomiest, plan>>
  BY <1>7, RestCalm DEF RestMove, classroom, school
<1>8. ASSUME NEW h \in Requests, CreateClass(h) \/ CreateException(h)
      PROVE  Calm(SeatAts) /\ UNCHANGED <<enrolled, roomiest, plan>>
  BY <1>8, ReplyCalm DEF CreateClass, CreateException, school
<1>9. ASSUME NEW h \in Requests, SaveClass(h) \/ OpenVersion(h) \/ Wait(h)
      PROVE  Calm(SeatAts) /\ UNCHANGED <<enrolled, roomiest, plan>>
  <2>1. Reply(h) /\ UNCHANGED <<enrolled, roomiest>>
    BY <1>9 DEF SaveClass, OpenVersion, Wait, school
  <2> QED
    BY <2>1, ReplyCalm
<1>10. ASSUME NEW h \in Requests, UpdateClass(h) \/ CreateSchedule(h) \/ AddToWaitlist(h)
      PROVE  Calm(SeatAts) /\ UNCHANGED <<enrolled, roomiest, plan>>
  <2>1. \E m : m.at \notin SeatAts /\ Start(h, m)
    BY <1>10 DEF UpdateClass, CreateSchedule, AddToWaitlist
  <2> QED
    BY <1>10, <2>1, GoesCalm DEF UpdateClass, CreateSchedule, AddToWaitlist, school, classroom
<1>11. ASSUME NEW h \in Requests, ClassroomMove(h)
       PROVE  \/ Calm(SeatAts) /\ UNCHANGED <<enrolled, roomiest, plan>>
              \/ Enroll(h) \/ CountSeats(h) \/ TakeSeat(h)
  BY <1>8, <1>9, <1>10, <1>11 DEF ClassroomMove, ClassroomStep
<1> QED
  BY <1>1, <1>2, <1>3, <1>4, <1>5, <1>6, <1>7, <1>11, Moves

\* Every step keeps the counts.
LEMMA SeatStep == TypeOK /\ TypeOK' /\ Alone /\ Alone' /\ SeatInv /\ [Next]_vars => SeatInv'
<1> SUFFICES ASSUME TypeOK, TypeOK', Alone, Alone', SeatInv, [Next]_vars PROVE SeatInv'
  OBVIOUS
<1>t. RequestsTyped /\ enrolled \in Seq(EnrolledRows) /\ roomiest \in [Classes -> Nat]
  BY DEF TypeOK, ClassroomTyped
<1>t2. enrolled' \in Seq(EnrolledRows) /\ roomiest' \in [Classes -> Nat]
  BY DEF TypeOK, ClassroomTyped
<1>p. plan' = plan /\ Serial' = Serial /\ Racing' = Racing /\ Racing \in Nat /\ Racing >= 1
  <2>1. \A h \in Requests : Enroll(h) \/ CountSeats(h) \/ TakeSeat(h) => plan' = plan
    BY DEF Enroll, CountSeats, TakeSeat, Start, Goes, Reply
  <2>2. plan' = plan
    BY <2>1, SeatMoves
  <2> QED
    BY <2>2, SeatCounts DEF Serial, Racing
<1>c. ASSUME NEW c
      PROVE  /\ Seats(c) \in Nat /\ IsFiniteSet(Taking(c)) /\ Cardinality(Taking(c)) \in Nat
             /\ Cardinality(Taking(c)') \in Nat /\ Cardinality(Taking(c)') <= Racing
  <2>1. Taking(c)' \subseteq Requests /\ (Serial => \A h, k \in Taking(c)' : h = k)
    BY <1>p DEF Taking, Alone
  <2> QED
    BY <2>1, SeatCounts, RacingBounds
<1>b. ASSUME NEW seat
      PROVE  /\ Cardinality(Booked(seat)) \in Nat /\ IsFiniteSet(Booking(seat)) /\ Cardinality(Booking(seat)) \in Nat
             /\ Cardinality(Booking(seat)') \in Nat /\ Cardinality(Booking(seat)') <= Racing
  <2>1. Booking(seat)' \subseteq Requests /\ (Serial => \A h, k \in Booking(seat)' : h = k)
    BY <1>p DEF Booking, Alone
  <2> QED
    BY <2>1, SeatCounts, RacingBounds
<1>s. ASSUME UNCHANGED enrolled
      PROVE  /\ \A c : Seats(c)' = Seats(c)
             /\ \A seat : Booked(seat)' = Booked(seat)
  BY <1>s DEF Seats, Booked, Of
<1>1. CASE Calm(SeatAts) /\ UNCHANGED <<enrolled, roomiest, plan>>
  <2>1. ASSUME NEW c PROVE Taking(c)' \subseteq Taking(c)
    BY <1>1, <1>t, CalmKeeps DEF Taking, SeatAts
  <2>2. ASSUME NEW seat PROVE Booking(seat)' \subseteq Booking(seat)
    BY <1>1, <1>t, CalmKeeps DEF Booking, SeatAts
  <2>4. SeatsCounted'
    <3>1. ASSUME NEW c \in Classes PROVE Seats(c)' + Cardinality(Taking(c))' <= roomiest'[c] + Racing' - 1
      <4>1. Cardinality(Taking(c)') <= Cardinality(Taking(c))
        BY <1>c, <2>1, FS_Subset
      <4>2. Seats(c)' = Seats(c) /\ roomiest'[c] = roomiest[c] /\ roomiest[c] \in Nat
        BY <1>1, <1>t, <1>s
      <4>3. Seats(c) + Cardinality(Taking(c)) <= roomiest[c] + Racing - 1
        BY DEF SeatInv, SeatsCounted
      <4> QED
        BY <1>c, <1>p, <4>1, <4>2, <4>3
    <3> QED
      BY <3>1 DEF SeatsCounted
  <2>5. RowsCountedOnce'
    <3>1. ASSUME NEW seat \in EnrolledRows PROVE Cardinality(Booked(seat))' + Cardinality(Booking(seat))' <= Racing'
      <4>1. Cardinality(Booking(seat)') <= Cardinality(Booking(seat))
        BY <1>b, <2>2, FS_Subset
      <4>2. Booked(seat)' = Booked(seat)
        BY <1>1, <1>s
      <4>3. Cardinality(Booked(seat)) + Cardinality(Booking(seat)) <= Racing
        BY DEF SeatInv, RowsCountedOnce
      <4> QED
        BY <1>b, <1>p, <4>1, <4>2, <4>3
    <3> QED
      BY <3>1 DEF RowsCountedOnce
  <2> QED
    BY <2>4, <2>5 DEF SeatInv
<1>2. ASSUME NEW h \in Requests, Enroll(h) PROVE SeatInv'
  <2>1. PICK q \in Callers(h, "enrollStudent", "class_manage"), s \in Students : \E c \in Writable(q) :
          /\ s \notin Roster(c)
          /\ Start(h, [at |-> "countSeats", seat |-> Seat(c, s), capacity |-> class[c].capacity])
    BY <1>2 DEF Enroll
  <2>2. PICK c \in Writable(q) :
          /\ s \notin Roster(c)
          /\ Start(h, [at |-> "countSeats", seat |-> Seat(c, s), capacity |-> class[c].capacity])
    BY <2>1
  <2>3. /\ req' = [req EXCEPT ![h] = [at |-> "countSeats", seat |-> Seat(c, s), capacity |-> class[c].capacity]]
        /\ UNCHANGED <<enrolled, roomiest, plan>>
    BY <1>2, <2>2 DEF Enroll, Start, school, classroom
  <2>4. ASSUME NEW k \in Requests \ {h} PROVE req'[k] = req[k]
    BY <1>t, <2>3 DEF RequestsTyped
  <2>5. req'[h].at = "countSeats" /\ req'[h].seat = Seat(c, s)
    BY <1>t, <2>3 DEF RequestsTyped
  <2>6. SeatsCounted'
    <3>1. ASSUME NEW d PROVE Taking(d)' \subseteq Taking(d)
      BY <2>4, <2>5 DEF Taking
    <3>2. ASSUME NEW d \in Classes PROVE Seats(d)' + Cardinality(Taking(d))' <= roomiest'[d] + Racing' - 1
      <4>1. Cardinality(Taking(d)') <= Cardinality(Taking(d))
        BY <1>c, <3>1, FS_Subset
      <4>2. Seats(d)' = Seats(d) /\ roomiest'[d] = roomiest[d] /\ roomiest[d] \in Nat
        BY <1>t, <1>s, <2>3
      <4>3. Seats(d) + Cardinality(Taking(d)) <= roomiest[d] + Racing - 1
        BY DEF SeatInv, SeatsCounted
      <4> QED
        BY <1>c, <1>p, <4>1, <4>2, <4>3
    <3> QED
      BY <3>2 DEF SeatsCounted
  <2>7. RowsCountedOnce'
    <3>1. ASSUME NEW seat \in EnrolledRows PROVE Cardinality(Booked(seat))' + Cardinality(Booking(seat))' <= Racing'
      <4>1. CASE seat = Seat(c, s)
        <5>1. Booked(seat) = {}
          BY <1>t, <2>2, <4>1 DEF Booked, Of, Roster, Seat
        <5>2. Cardinality(Booked(seat))' = 0
          BY <1>s, <2>3, <5>1, FS_EmptySet
        <5> QED
          BY <1>b, <1>p, <5>2
      <4>2. CASE seat # Seat(c, s)
        <5>1. Booking(seat)' \subseteq Booking(seat)
          BY <2>4, <2>5, <4>2 DEF Booking
        <5>2. Cardinality(Booking(seat)') <= Cardinality(Booking(seat))
          BY <1>b, <5>1, FS_Subset
        <5>3. Booked(seat)' = Booked(seat)
          BY <1>s, <2>3
        <5>4. Cardinality(Booked(seat)) + Cardinality(Booking(seat)) <= Racing
          BY DEF SeatInv, RowsCountedOnce
        <5> QED
          BY <1>b, <1>p, <5>2, <5>3, <5>4
      <4> QED
        BY <4>1, <4>2
    <3> QED
      BY <3>1 DEF RowsCountedOnce
  <2> QED
    BY <2>6, <2>7 DEF SeatInv
<1>3. ASSUME NEW h \in Requests, CountSeats(h) PROVE SeatInv'
  <2> DEFINE m == req[h]
             c == m.seat.class
  <2>1. /\ m.at = "countSeats" /\ UNCHANGED <<enrolled, plan>>
        /\ roomiest' = [roomiest EXCEPT ![c] = Max({@, m.capacity})]
        /\ IF Seats(c) >= m.capacity THEN req' = [req EXCEPT ![h] = Idle]
                                     ELSE req' = [req EXCEPT ![h] = [m EXCEPT !.at = "takeSeat"]]
    BY <1>3 DEF CountSeats, Goes, Reply, school
  <2>2. m \in [at : {m.at}, seat : EnrolledRows, capacity : Nat]
    BY <2>1 DEF TypeOK, RequestsTyped, Memory, ClassroomMemory
  <2>3. c \in Classes /\ m.capacity \in Nat
    BY <2>2 DEF EnrolledRows
  <2>4. ASSUME NEW k \in Requests \ {h} PROVE req'[k] = req[k]
    BY <1>t, <2>1 DEF RequestsTyped
  <2>5. \/ req'[h] = Idle /\ Seats(c) >= m.capacity
        \/ req'[h] = [m EXCEPT !.at = "takeSeat"] /\ ~(Seats(c) >= m.capacity)
    BY <1>t, <2>1 DEF RequestsTyped
  <2>6. req'[h].at = "idle" \/ req'[h].seat = m.seat
    BY <2>2, <2>5, IdleMemory
  <2>7. /\ roomiest'[c] \in Nat /\ roomiest[c] <= roomiest'[c] /\ m.capacity <= roomiest'[c]
        /\ \A d \in Classes \ {c} : roomiest'[d] = roomiest[d]
    <3> HIDE DEF m, c
    <3>1. roomiest'[c] = Max({roomiest[c], m.capacity}) /\ roomiest[c] \in Nat
      BY <1>t, <2>1, <2>3
    <3> QED
      BY <1>t, <2>1, <2>3, <3>1, RoomierOf
  <2>8. SeatsCounted'
    <3>1. ASSUME NEW d \in Classes PROVE Seats(d)' + Cardinality(Taking(d))' <= roomiest'[d] + Racing' - 1
      <4> HIDE DEF m
      <4>1. CASE h \notin Taking(d)'
        <5>1. Taking(d)' \subseteq Taking(d)
          BY <2>4, <4>1 DEF Taking
        <5>2. Cardinality(Taking(d)') <= Cardinality(Taking(d))
          BY <1>c, <5>1, FS_Subset
        <5>3. roomiest[d] <= roomiest'[d] /\ roomiest[d] \in Nat /\ roomiest'[d] \in Nat
          <6> HIDE DEF c
          <6>1. CASE d = c
            BY <1>t, <1>t2, <2>3, <2>7, <6>1
          <6>2. CASE d # c
            BY <1>t, <1>t2, <2>7, <6>2
          <6> QED
            BY <6>1, <6>2
        <5>4. Seats(d) + Cardinality(Taking(d)) <= roomiest[d] + Racing - 1
          BY DEF SeatInv, SeatsCounted
        <5>5. Seats(d)' = Seats(d)
          BY <1>s, <2>1
        <5> QED
          BY <1>c, <1>p, <5>2, <5>3, <5>4, <5>5
      <4>2. CASE h \in Taking(d)'
        <5>1. req'[h].at = "takeSeat" /\ req'[h].seat.class = d
          BY <4>2 DEF Taking
        <5>2. d = c /\ ~(Seats(c) >= m.capacity)
          BY <2>5, <2>6, <5>1, IdleMemory
        <5>3. Seats(d)' = Seats(d) /\ Racing' = Racing
          BY <1>p, <1>s, <2>1
        <5>4. Seats(d) < m.capacity /\ m.capacity <= roomiest'[d] /\ m.capacity \in Nat /\ roomiest'[d] \in Nat
          <6>1. Seats(d) \in Nat /\ Seats(c) = Seats(d)
            BY <1>c, <5>2
          <6> HIDE DEF c
          <6>2. m.capacity \in Nat /\ m.capacity <= roomiest'[d] /\ roomiest'[d] \in Nat
            BY <2>3, <2>7, <5>2
          <6> QED
            BY <5>2, <6>1, <6>2
        <5> QED
          BY <1>c, <1>p, <5>3, <5>4
      <4> QED
        BY <4>1, <4>2
    <3> QED
      BY <3>1 DEF SeatsCounted
  <2>9. RowsCountedOnce'
    <3>1. ASSUME NEW seat \in EnrolledRows PROVE Cardinality(Booked(seat))' + Cardinality(Booking(seat))' <= Racing'
      <4>1. Booking(seat)' \subseteq Booking(seat)
        BY <2>1, <2>4, <2>6 DEF Booking
      <4>2. Cardinality(Booking(seat)') <= Cardinality(Booking(seat))
        BY <1>b, <4>1, FS_Subset
      <4>3. Booked(seat)' = Booked(seat)
        BY <1>s, <2>1
      <4>4. Cardinality(Booked(seat)) + Cardinality(Booking(seat)) <= Racing
        BY DEF SeatInv, RowsCountedOnce
      <4> QED
        BY <1>b, <1>p, <4>2, <4>3, <4>4
    <3> QED
      BY <3>1 DEF RowsCountedOnce
  <2> QED
    BY <2>8, <2>9 DEF SeatInv
<1>4. ASSUME NEW h \in Requests, TakeSeat(h) PROVE SeatInv'
  <2> DEFINE x == req[h].seat
  <2>1. /\ req[h].at = "takeSeat" /\ enrolled' = Append(enrolled, x) /\ UNCHANGED <<roomiest, plan>>
        /\ req' = [req EXCEPT ![h] = Idle]
    BY <1>4 DEF TakeSeat, Goes, Reply, classroom
  <2>2. x \in EnrolledRows
    BY <2>1 DEF TypeOK, RequestsTyped, Memory, ClassroomMemory
  <2>3. ASSUME NEW k \in Requests PROVE req'[k] = IF k = h THEN Idle ELSE req[k]
    BY <1>t, <2>1 DEF RequestsTyped
  <2>4. Racing' = Racing
    BY <1>p
  <2>5. SeatsCounted'
    <3>1. ASSUME NEW c \in Classes PROVE Seats(c)' + Cardinality(Taking(c))' <= roomiest'[c] + Racing' - 1
      <4>n. Seats(c) \in Nat /\ IsFiniteSet(Taking(c)) /\ Cardinality(Taking(c)) \in Nat /\ Racing \in Nat
        BY <1>c, <1>p
      <4>1. Seats(c)' = Seats(c) + IF x.class = c THEN 1 ELSE 0
        <5>1. Seats(c)' = Cardinality(Of(enrolled', RowsOfClass(c))) /\ Seats(c) = Cardinality(Of(enrolled, RowsOfClass(c)))
          BY <1>t, <1>t2, SeatsAreRows DEF Seats
        <5>2. x \in RowsOfClass(c) <=> x.class = c
          BY <2>2 DEF RowsOfClass
        <5> HIDE DEF x
        <5> QED
          BY <1>t, <2>1, <2>2, <5>1, <5>2, AppendCounts
      <4>2. Taking(c)' = Taking(c) \ {h}
        BY <2>3, IdleMemory DEF Taking
      <4>3. h \in Taking(c) <=> x.class = c
        BY <2>1 DEF Taking
      <4>4. Cardinality(Taking(c)') = Cardinality(Taking(c)) - IF x.class = c THEN 1 ELSE 0
        <5> HIDE DEF x
        <5>1. IsFiniteSet(Taking(c)) /\ Cardinality(Taking(c)) \in Nat
          BY <1>c
        <5>2. Cardinality(Taking(c) \ {h}) = IF h \in Taking(c) THEN Cardinality(Taking(c)) - 1 ELSE Cardinality(Taking(c))
          BY <5>1, FS_RemoveElement
        <5>3. CASE x.class = c
          BY <4>2, <4>3, <5>1, <5>2, <5>3
        <5>4. CASE ~(x.class = c)
          BY <4>2, <4>3, <5>1, <5>2, <5>4
        <5> QED
          BY <5>3, <5>4
      <4> HIDE DEF x
      <4> QED
        BY <4>n, <1>t, <2>1, <2>4, <4>1, <4>4 DEF SeatInv, SeatsCounted
    <3> QED
      BY <3>1 DEF SeatsCounted
  <2>6. RowsCountedOnce'
    <3>1. ASSUME NEW seat \in EnrolledRows PROVE Cardinality(Booked(seat))' + Cardinality(Booking(seat))' <= Racing'
      <4>1. Cardinality(Booked(seat))' = Cardinality(Booked(seat)) + IF x = seat THEN 1 ELSE 0
        <5> HIDE DEF x
        <5> QED
          BY <1>t, <2>1, <2>2, AppendCounts DEF Booked
      <4>2. Booking(seat)' = Booking(seat) \ {h}
        BY <2>3, IdleMemory DEF Booking
      <4>3. h \in Booking(seat) <=> x = seat
        BY <2>1 DEF Booking
      <4>4. Cardinality(Booking(seat)') = Cardinality(Booking(seat)) - IF x = seat THEN 1 ELSE 0
        <5> HIDE DEF x
        <5>1. IsFiniteSet(Booking(seat)) /\ Cardinality(Booking(seat)) \in Nat
          BY <1>b
        <5>2. Cardinality(Booking(seat) \ {h}) = IF h \in Booking(seat) THEN Cardinality(Booking(seat)) - 1 ELSE Cardinality(Booking(seat))
          BY <5>1, FS_RemoveElement
        <5>3. CASE x = seat
          BY <4>2, <4>3, <5>1, <5>2, <5>3
        <5>4. CASE ~(x = seat)
          BY <4>2, <4>3, <5>1, <5>2, <5>4
        <5> QED
          BY <5>3, <5>4
      <4> HIDE DEF x
      <4> QED
        BY <1>b, <1>p, <2>4, <4>1, <4>4 DEF SeatInv, RowsCountedOnce
    <3> QED
      BY <3>1 DEF RowsCountedOnce
  <2> QED
    BY <2>5, <2>6 DEF SeatInv
<1> QED
  BY <1>1, <1>2, <1>3, <1>4, SeatMoves

\* The counts at first: nobody is on the way, and no student has two rows of a class.
LEMMA SeatStart == TypeOK /\ Init => SeatInv
<1> SUFFICES ASSUME TypeOK, Init PROVE SeatInv
  OBVIOUS
<1>1. /\ \A h \in Requests : req[h] = Idle
      /\ enrolled = FirstEnrolled /\ roomiest = [c \in Classes |-> Seats(c)]
  BY DEF Init, SchoolInit, ServerInit, ClassroomInit
<1>2. ASSUME NEW c PROVE Cardinality(Taking(c)) = 0
  <2>1. Taking(c) = {}
    BY <1>1, IdleMemory DEF Taking
  <2> QED
    BY <2>1, FS_EmptySet
<1>3. ASSUME NEW seat PROVE Cardinality(Booking(seat)) = 0
  <2>1. Booking(seat) = {}
    BY <1>1, IdleMemory DEF Booking
  <2> QED
    BY <2>1, FS_EmptySet
<1>4. Racing \in Nat /\ Racing >= 1
  BY RacingBounds DEF Racing
<1>5. ASSUME NEW c \in Classes PROVE Seats(c) + Cardinality(Taking(c)) <= roomiest[c] + Racing - 1
  <2>1. Seats(c) \in Nat /\ roomiest[c] = Seats(c)
    BY <1>1, RowsCounted DEF TypeOK, ClassroomTyped, Seats
  <2> QED
    BY <1>2, <1>4, <2>1
<1>6. ASSUME NEW seat \in EnrolledRows PROVE Cardinality(Booked(seat)) + Cardinality(Booking(seat)) <= Racing
  <2>1. IsFiniteSet(Booked(seat)) /\ \A i, j \in Booked(seat) : i = j
    BY <1>1, TablesAssumption, RowsCounted DEF TypeOK, ClassroomTyped, Booked, Of, IsInjective
  <2>2. Cardinality(Booked(seat)) \in {0, 1}
    <3>1. CASE Booked(seat) = {}
      <4>1. Cardinality(Booked(seat)) = 0
        BY <3>1, FS_EmptySet
      <4> QED
        BY <4>1
    <3>2. ASSUME NEW i \in Booked(seat) PROVE Cardinality(Booked(seat)) = 1
      <4>1. Booked(seat) = {i}
        BY <2>1
      <4> QED
        BY <4>1, FS_Singleton
    <3> QED
      BY <3>1, <3>2
  <2> QED
    BY <1>3, <1>4, <2>2
<1> QED
  BY <1>5, <1>6 DEF SeatInv, SeatsCounted, RowsCountedOnce

\* Enrolling never overbooks a class beyond the calls that overlap, whatever its capacity is
\* changed to meanwhile, nor does it give one student more rows of a class than calls overlap:
\* enrollStudent's two checks and its insert are statements apart and no constraint backs them.
THEOREM Seated == Spec => []SeatsBounded
<1>1. Spec => SeatInv
  BY SeatStart, TypeStart DEF Spec
<1>2. TypeOK /\ TypeOK' /\ Alone /\ Alone' /\ SeatInv /\ [Next]_vars => SeatInv'
  BY SeatStep
<1>3. TypeOK /\ Alone /\ SeatInv => SeatsBounded
  <2> SUFFICES ASSUME TypeOK, Alone, SeatInv, NEW c \in Classes
               PROVE  /\ Seats(c) <= roomiest[c] + Racing - 1
                      /\ \A s \in Students :
                           Cardinality({i \in DOMAIN enrolled : enrolled[i] = Seat(c, s)}) <= Racing
    BY DEF SeatsBounded
  <2>1. Seats(c) \in Nat /\ Cardinality(Taking(c)) \in Nat /\ Racing \in Nat /\ roomiest[c] \in Nat
    BY SeatCounts DEF TypeOK, ClassroomTyped
  <2>2. Seats(c) + Cardinality(Taking(c)) <= roomiest[c] + Racing - 1
    BY DEF SeatInv, SeatsCounted
  <2>3. Seats(c) <= roomiest[c] + Racing - 1
    BY <2>1, <2>2
  <2>4. ASSUME NEW s \in Students
        PROVE  Cardinality({i \in DOMAIN enrolled : enrolled[i] = Seat(c, s)}) <= Racing
    <3>1. {i \in DOMAIN enrolled : enrolled[i] = Seat(c, s)} = Booked(Seat(c, s))
      BY DEF Booked, Of
    <3>2. Seat(c, s) \in EnrolledRows
      BY DEF Seat, EnrolledRows
    <3>3. Cardinality(Booked(Seat(c, s))) + Cardinality(Booking(Seat(c, s))) <= Racing
      BY <3>2 DEF SeatInv, RowsCountedOnce
    <3>4. /\ Cardinality(Booked(Seat(c, s))) \in Nat
          /\ Cardinality(Booking(Seat(c, s))) \in Nat
      BY SeatCounts
    <3>5. Cardinality(Booked(Seat(c, s))) <= Racing
      BY <2>1, <3>3, <3>4
    <3> QED
      BY <3>1, <3>5
  <2> QED
    BY <2>3, <2>4
<1> QED
  BY <1>1, <1>2, <1>3, TypeCorrect, OneAtATime, PTL DEF Spec

-----------------------------------------------------------------------------
(* The attempts at an assignment. *)

\* The rows of R that the table has, and that are about to be inserted.
Written(R) == Of(submissions, R)
Pending(R) == {h \in Requests : req[h].at = "submit" /\ req[h].submission \in R}

OfStudent(a, s) == {r \in SubmissionRows : r.assignment = a /\ r.student = s}
OfAttempt(a, s, n) == {r \in OfStudent(a, s) : r.attempt = n}

\* A review does not take a row into R or out of it.
Reviewable(R) == R \subseteq SubmissionRows /\ \A x, y \in SubmissionRows : SameAttempt(x, y) => (x \in R <=> y \in R)

\* Who may not submit again has one attempt, written or about to be; the attempts are numbered
\* apart, and up to their number; only what has been given is submitted.
AttemptsOnce ==
  \A a \in Given, s \in Students :
    ~assignment[a].resubmission => Cardinality(Written(OfStudent(a, s))) + Cardinality(Pending(OfStudent(a, s))) <= Racing
NumbersOnce ==
  \A a \in Assignments, s \in Students, n \in Nat :
    Cardinality(Written(OfAttempt(a, s, n))) + Cardinality(Pending(OfAttempt(a, s, n))) <= Racing
NumbersCounted ==
  \A a \in Assignments, s \in Students :
    LET R == OfStudent(a, s)
    IN /\ \A i \in Written(R) : submissions[i].attempt <= Cardinality(Written(R))
       /\ \A h \in Pending(R) : req[h].submission.attempt <= Cardinality(Written(R)) + 1
OnlyGiven ==
  \A a \in Assignments \ Given, s \in Students : Written(OfStudent(a, s)) = {} /\ Pending(OfStudent(a, s)) = {}
AttemptInv == AttemptsOnce /\ NumbersOnce /\ NumbersCounted /\ OnlyGiven

\* Both kinds of rows are.
LEMMA AttemptsReviewable == \A a, s, n : Reviewable(OfStudent(a, s)) /\ Reviewable(OfAttempt(a, s, n))
BY DEF Reviewable, OfStudent, OfAttempt, SameAttempt

\* The attempts of a student are the rows of the student.
LEMMA AttemptsAreRows ==
  ASSUME TypeOK, NEW a, NEW s
  PROVE  /\ Attempts(a, s) = Written(OfStudent(a, s))
         /\ \A n : {j \in Attempts(a, s) : submissions[j].attempt = n} = Written(OfAttempt(a, s, n))
<1>1. \A i \in DOMAIN submissions : submissions[i] \in SubmissionRows
  BY RowOf DEF TypeOK, TasksTyped
<1> QED
  BY <1>1 DEF Attempts, Written, Of, OfStudent, OfAttempt

\* The counts of AttemptInv are numbers.
LEMMA AttemptCounts ==
  ASSUME TypeOK, Alone, NEW R
  PROVE  /\ Cardinality(Written(R)) \in Nat
         /\ IsFiniteSet(Pending(R)) /\ Cardinality(Pending(R)) \in Nat /\ Cardinality(Pending(R)) <= Racing
         /\ Racing \in Nat /\ Racing >= 1
<1>1. Cardinality(Written(R)) \in Nat
  BY RowsCounted DEF TypeOK, TasksTyped, Written, Of
<1>2. Pending(R) \subseteq Requests /\ (Serial => \A h, k \in Pending(R) : h = k)
  BY DEF Pending, Alone
<1> QED
  BY <1>1, <1>2, RacingBounds

\* An assignment is given once, and only AssignmentsService writes about it.
LEMMA GivenOnce ==
  ASSUME TypeOK, [Next]_vars
  PROVE  \/ UNCHANGED assignment
         \/ /\ \E a \in Assignments \ Given : \A b \in Assignments \ {a} : assignment'[b] = assignment[b]
            /\ UNCHANGED submissions
            /\ Calm({"submit"}) /\ plan' = plan
<1>1. ASSUME NEW h \in Requests, CreateAssignment(h)
      PROVE  /\ \E a \in Assignments \ Given : \A b \in Assignments \ {a} : assignment'[b] = assignment[b]
             /\ UNCHANGED submissions
             /\ Calm({"submit"}) /\ plan' = plan
  <2>1. PICK q \in Callers(h, "createAssignment", "assignment_manage"), a \in Assignments,
             resubmission \in BOOLEAN, late \in BOOLEAN :
          \E t \in ProfileOf(q) :
            \E to \in {ToStudent(s) : s \in {x \in Students : student[x] # None}}
                        \cup {ToClass(c) : c \in {x \in Classes : class[x] # None /\ TeacherOf[x] = t}} :
              /\ a \notin Given
              /\ Start(h, Tell(a, to))
              /\ assignment' = [assignment EXCEPT ![a] = AssignmentRow(to, t, resubmission, late)]
              /\ UNCHANGED <<school, classroom, overdue, submissions, metric, records>>
    BY <1>1, Zenon DEF CreateAssignment
  <2>2. \A b \in Assignments \ {a} : assignment'[b] = assignment[b]
    BY <2>1 DEF TypeOK, TasksTyped
  <2>3. \E to : Start(h, Tell(a, to))
    BY <2>1
  <2>4. Calm({"submit"}) /\ plan' = plan
    BY <2>3, GoesCalm DEF Tell
  <2> QED
    BY <2>1, <2>2, <2>4
<1>2. ASSUME NEW h \in Requests, CourseworkMove(h) PROVE UNCHANGED assignment \/ CreateAssignment(h)
  BY <1>2 DEF CourseworkMove, CourseworkStep, CreateSubmission, Submit, ReviewSubmission, SaveReview,
              CreateMetricDefinition, RecordPerformance, coursework
<1> QED
  BY <1>1, <1>2, Moves DEF RecordsMove, RegistrationMove, AffiliationMove, ClassroomMove, SharingMove, TellMove, RestMove,
                           services, coursework

\* Only createSubmission and reviewSubmission write attempts.
LEMMA SubmissionMoves ==
  ASSUME TypeOK, [Next]_vars
  PROVE  \/ Calm({"submit"}) /\ UNCHANGED <<submissions, plan>>
         \/ \E h \in Requests : CreateSubmission(h) \/ Submit(h) \/ SaveReview(h)
<1>1. ASSUME NEW h \in Requests, RecordsMove(h) PROVE Calm({"submit"}) /\ UNCHANGED <<submissions, plan>>
  BY <1>1, RunsCalm DEF RecordsMove, RecordsAts, coursework
<1>2. ASSUME NEW h \in Requests, RegistrationMove(h) PROVE Calm({"submit"}) /\ UNCHANGED <<submissions, plan>>
  BY <1>2, RunsCalm DEF RegistrationMove, RegistrationAts, coursework
<1>3. ASSUME NEW h \in Requests, AffiliationMove(h) PROVE Calm({"submit"}) /\ UNCHANGED <<submissions, plan>>
  BY <1>3, RunsCalm DEF AffiliationMove, AffiliationAts, coursework
<1>4. ASSUME NEW h \in Requests, SharingMove(h) PROVE Calm({"submit"}) /\ UNCHANGED <<submissions, plan>>
  BY <1>4, RunsCalm DEF SharingMove, SharingAts, coursework
<1>5. ASSUME NEW h \in Requests, ClassroomMove(h) PROVE Calm({"submit"}) /\ UNCHANGED <<submissions, plan>>
  BY <1>5, RunsCalm DEF ClassroomMove, ClassroomAts, coursework
<1>6. ASSUME NEW h \in Requests, TellMove(h) PROVE Calm({"submit"}) /\ UNCHANGED <<submissions, plan>>
  BY <1>6, RunsCalm DEF TellMove, services, coursework
<1>7. ASSUME RestMove PROVE Calm({"submit"}) /\ UNCHANGED <<submissions, plan>>
  BY <1>7, RestCalm DEF RestMove
<1>8. ASSUME NEW h \in Requests, CreateMetricDefinition(h) \/ RecordPerformance(h)
      PROVE  Calm({"submit"}) /\ UNCHANGED <<submissions, plan>>
  BY <1>8, ReplyCalm DEF CreateMetricDefinition, RecordPerformance
<1>9. ASSUME NEW h \in Requests, ReviewSubmission(h)
      PROVE  Calm({"submit"}) /\ UNCHANGED <<submissions, plan>>
  <2>1. \E m : m.at = "saveReview" /\ Start(h, m)
    BY <1>9 DEF ReviewSubmission
  <2> QED
    BY <1>9, <2>1, GoesCalm DEF ReviewSubmission, coursework
<1>10. ASSUME NEW h \in Requests, CreateAssignment(h) PROVE Calm({"submit"}) /\ UNCHANGED <<submissions, plan>>
  <2>1. \E m : m.at = "tell" /\ Start(h, m)
    BY <1>10 DEF CreateAssignment, Tell
  <2> QED
    BY <1>10, <2>1, GoesCalm DEF CreateAssignment
<1>11. ASSUME NEW h \in Requests, CourseworkMove(h)
       PROVE  \/ Calm({"submit"}) /\ UNCHANGED <<submissions, plan>>
              \/ CreateSubmission(h) \/ Submit(h) \/ SaveReview(h)
  BY <1>8, <1>9, <1>10, <1>11 DEF CourseworkMove, CourseworkStep
<1> QED
  BY <1>1, <1>2, <1>3, <1>4, <1>5, <1>6, <1>7, <1>11, Moves

\* What a step does to the attempts, seen for any rows R that reviews keep together: nothing,
\* or a request comes to insert a row x, or inserts it.
Quiet(R) == /\ Written(R)' = Written(R) /\ Pending(R)' \subseteq Pending(R)
            /\ \A k \in Pending(R)' : req'[k] = req[k]
            /\ \A i \in Written(R) : submissions'[i].attempt = submissions[i].attempt
Comes(R, h, x) == /\ Written(R)' = Written(R) /\ submissions' = submissions
                  /\ x \in SubmissionRows /\ req'[h].submission = x
                  /\ Pending(R)' \subseteq Pending(R) \cup (IF x \in R THEN {h} ELSE {})
                  /\ \A k \in Requests \ {h} : req'[k] = req[k]
Inserts(R, h, x) == /\ submissions' = Append(submissions, x)
                    /\ x \in SubmissionRows /\ req[h].at = "submit" /\ req[h].submission = x
                    /\ Cardinality(Written(R)') = Cardinality(Written(R)) + IF x \in R THEN 1 ELSE 0
                    /\ Pending(R)' = Pending(R) \ {h} /\ (h \in Pending(R) <=> x \in R)
                    /\ \A k \in Requests \ {h} : req'[k] = req[k]

\* A calm step is quiet.
LEMMA CalmIsQuiet ==
  ASSUME TypeOK, Calm({"submit"}), UNCHANGED submissions, NEW R
  PROVE  Quiet(R)
<1>1. \A k \in Requests : req'[k].at = "submit" => req'[k] = req[k]
  BY CalmKeeps DEF TypeOK
<1> QED
  BY <1>1 DEF Quiet, Written, Of, Pending

\* So is a review.
LEMMA ReviewIsQuiet ==
  ASSUME TypeOK, TypeOK', NEW h \in Requests, SaveReview(h), NEW R, Reviewable(R)
  PROVE  Quiet(R)
<1> DEFINE m == req[h]
<1>1. /\ submissions' = [submissions EXCEPT ![m.index] = m.row]
      /\ req' = [req EXCEPT ![h] = Tell(m.row.assignment, ToStudent(m.row.student))]
  BY DEF SaveReview, Goes
<1>2. m.index \in DOMAIN submissions /\ m.row \in SubmissionRows /\ SameAttempt(m.row, submissions[m.index])
  BY DEF TypeOK, RequestsTyped, Memory, CourseworkMemory, SaveReview
<1>3. \A i \in DOMAIN submissions : submissions[i] \in SubmissionRows
  BY RowOf DEF TypeOK, TasksTyped
<1>4. DOMAIN submissions' = DOMAIN submissions /\ \A i \in DOMAIN submissions : SameAttempt(submissions'[i], submissions[i]) /\ submissions'[i] \in SubmissionRows
  BY <1>1, <1>2, <1>3 DEF SameAttempt
<1>5. Written(R)' = Written(R)
  BY <1>3, <1>4 DEF Written, Of, Reviewable
<1>6. \A k \in Requests : IF k = h THEN req'[k].at = "tell" ELSE req'[k] = req[k]
  BY <1>1 DEF TypeOK, RequestsTyped, Tell
<1> QED
  BY <1>4, <1>5, <1>6 DEF Quiet, Pending, SameAttempt, Written, Of

\* createSubmission comes with the number after those it counted.
LEMMA SubmissionComes ==
  ASSUME TypeOK, TypeOK', NEW h \in Requests, CreateSubmission(h)
  PROVE  \E a \in Given, s \in Students :
           /\ Attempts(a, s) # {} => assignment[a].resubmission
           /\ \A R : Comes(R, h, Submission(a, s, Cardinality(Attempts(a, s)) + 1))
<1>1. PICK q \in Callers(h, "createSubmission", "assignment_submit"), a \in Given : \E s \in StudentOf(q) :
        /\ IsTarget(a, s)
        /\ Attempts(a, s) # {} => assignment[a].resubmission
        /\ a \in overdue => assignment[a].late
        /\ Start(h, [at |-> "submit", submission |-> Submission(a, s, Cardinality(Attempts(a, s)) + 1)])
        /\ UNCHANGED <<school, classroom, coursework>>
  BY DEF CreateSubmission
<1>2. PICK s \in StudentOf(q) :
        /\ Attempts(a, s) # {} => assignment[a].resubmission
        /\ Start(h, [at |-> "submit", submission |-> Submission(a, s, Cardinality(Attempts(a, s)) + 1)])
        /\ UNCHANGED <<school, classroom, coursework>>
  BY <1>1
<1> DEFINE x == Submission(a, s, Cardinality(Attempts(a, s)) + 1)
<1>3. /\ \A k \in Requests \ {h} : req'[k] = req[k]
      /\ req'[h] = [at |-> "submit", submission |-> x] /\ UNCHANGED submissions
  BY <1>2 DEF Start, TypeOK, RequestsTyped, coursework
<1> HIDE DEF x
<1>4. req'[h].at = "submit" /\ req'[h].submission = x
  BY <1>3
<1>5. x \in SubmissionRows
  <2>1. CourseworkMemory(req[h])'
    BY DEF TypeOK, RequestsTyped, Memory
  <2> QED
    BY <1>4, <2>1 DEF CourseworkMemory
<1>6. ASSUME NEW R PROVE Comes(R, h, x)
  BY <1>3, <1>4, <1>5 DEF Comes, Written, Of, Pending
<1> QED
  BY <1>2, <1>6 DEF x, StudentOf

\* Its insert takes the request that comes with the row out.
LEMMA SubmissionInserts ==
  ASSUME TypeOK, NEW h \in Requests, Submit(h)
  PROVE  \E x : \A R : Inserts(R, h, x)
<1> DEFINE x == req[h].submission
<1>1. req[h].at = "submit" /\ submissions' = Append(submissions, x) /\ req' = [req EXCEPT ![h] = Idle]
  BY DEF Submit, Goes, Reply
<1>2. x \in SubmissionRows
  BY <1>1 DEF TypeOK, RequestsTyped, Memory, CourseworkMemory
<1>3. \A k \in Requests : req'[k] = IF k = h THEN Idle ELSE req[k]
  BY <1>1 DEF TypeOK, RequestsTyped
<1>4. ASSUME NEW R PROVE Inserts(R, h, x)
  <2>1. Pending(R)' = Pending(R) \ {h} /\ (h \in Pending(R) <=> x \in R)
    BY <1>1, <1>3, IdleMemory DEF Pending
  <2>2. Cardinality(Written(R)') = Cardinality(Written(R)) + IF x \in R THEN 1 ELSE 0
    <3> HIDE DEF x
    <3> QED
      BY <1>1, <1>2, AppendCounts DEF Written, TypeOK, TasksTyped
  <2> QED
    BY <1>1, <1>2, <1>3, <2>1, <2>2 DEF Inserts
<1> QED
  BY <1>4

\* Every step keeps the attempts numbered.
LEMMA AttemptStep == TypeOK /\ TypeOK' /\ Alone /\ Alone' /\ AttemptInv /\ [Next]_vars => AttemptInv'
<1> SUFFICES ASSUME TypeOK, TypeOK', Alone, Alone', AttemptInv, [Next]_vars PROVE AttemptInv'
  OBVIOUS
<1>p. plan' = plan /\ Serial' = Serial /\ Racing' = Racing /\ Racing \in Nat /\ Racing >= 1
  <2>1. \A h \in Requests : CreateSubmission(h) \/ Submit(h) \/ SaveReview(h) => plan' = plan
    BY DEF CreateSubmission, Submit, SaveReview, Start, Goes, Reply
  <2>2. plan' = plan
    BY <2>1, SubmissionMoves
  <2> QED
    BY <2>2, AttemptCounts DEF Serial, Racing
<1>n. ASSUME NEW R
      PROVE  /\ Cardinality(Written(R)) \in Nat /\ IsFiniteSet(Pending(R)) /\ Cardinality(Pending(R)) \in Nat
             /\ Cardinality(Pending(R)') \in Nat /\ Cardinality(Pending(R)') <= Racing
  <2>1. Pending(R)' \subseteq Requests /\ (Serial => \A h, k \in Pending(R)' : h = k)
    BY <1>p DEF Pending, Alone
  <2> QED
    BY <2>1, AttemptCounts, RacingBounds
\* A step that brings no new row to R.
<1>k. ASSUME NEW R,
             \/ Quiet(R)
             \/ \E h \in Requests : \E x : Comes(R, h, x) /\ x \notin R
             \/ \E h \in Requests : \E x : Inserts(R, h, x)
      PROVE  /\ Cardinality(Written(R)') \in Nat /\ Cardinality(Written(R)) <= Cardinality(Written(R)')
             /\ Cardinality(Written(R)') + Cardinality(Pending(R)') <= Cardinality(Written(R)) + Cardinality(Pending(R))
  <2>1. CASE Quiet(R) \/ \E h \in Requests : \E x : Comes(R, h, x) /\ x \notin R
    <3>1. Written(R)' = Written(R) /\ Pending(R)' \subseteq Pending(R)
      BY <2>1 DEF Quiet, Comes
    <3>2. Cardinality(Pending(R)') <= Cardinality(Pending(R))
      BY <1>n, <3>1, FS_Subset
    <3> QED
      BY <1>n, <3>1, <3>2
  <2>2. ASSUME NEW h \in Requests, NEW x, Inserts(R, h, x)
        PROVE  /\ Cardinality(Written(R)') \in Nat /\ Cardinality(Written(R)) <= Cardinality(Written(R)')
               /\ Cardinality(Written(R)') + Cardinality(Pending(R)') <= Cardinality(Written(R)) + Cardinality(Pending(R))
    <3>1. /\ Cardinality(Written(R)') = Cardinality(Written(R)) + IF x \in R THEN 1 ELSE 0
          /\ Pending(R)' = Pending(R) \ {h} /\ (h \in Pending(R) <=> x \in R)
      BY <2>2 DEF Inserts
    <3>2. Cardinality(Pending(R)') = IF h \in Pending(R) THEN Cardinality(Pending(R)) - 1 ELSE Cardinality(Pending(R))
      BY <1>n, <3>1, FS_RemoveElement
    <3> QED
      BY <1>n, <3>1, <3>2
  <2> QED
    BY <1>k, <2>1, <2>2
\* The step as R sees it.
<1>m. \/ \A R : Reviewable(R) => Quiet(R)
      \/ \E h \in Requests, x \in SubmissionRows : \A R : Inserts(R, h, x)
      \/ \E h \in Requests, a \in Given, s \in Students :
           /\ Attempts(a, s) # {} => assignment[a].resubmission
           /\ \A R : Comes(R, h, Submission(a, s, Cardinality(Attempts(a, s)) + 1))
  <2>1. CASE Calm({"submit"}) /\ UNCHANGED submissions
    BY <2>1, CalmIsQuiet
  <2>2. ASSUME NEW h \in Requests, SaveReview(h) PROVE \A R : Reviewable(R) => Quiet(R)
    BY <2>2, ReviewIsQuiet
  <2>3. ASSUME NEW h \in Requests, Submit(h) PROVE \E x \in SubmissionRows : \A R : Inserts(R, h, x)
    <3>1. PICK x : \A R : Inserts(R, h, x)
      BY <2>3, SubmissionInserts
    <3>2. x \in SubmissionRows
      BY <3>1 DEF Inserts
    <3> QED
      BY <3>1, <3>2
  <2>4. ASSUME NEW h \in Requests, CreateSubmission(h)
        PROVE  \E a \in Given, s \in Students :
                 /\ Attempts(a, s) # {} => assignment[a].resubmission
                 /\ \A R : Comes(R, h, Submission(a, s, Cardinality(Attempts(a, s)) + 1))
    BY <2>4, SubmissionComes
  <2> QED
    BY <2>1, <2>2, <2>3, <2>4, SubmissionMoves
<1>r. ASSUME NEW R, Reviewable(R)
      PROVE  \/ Quiet(R) \/ \E h \in Requests, x \in SubmissionRows : Inserts(R, h, x)
             \/ \E h \in Requests, b \in Given, t \in Students :
                  /\ Attempts(b, t) # {} => assignment[b].resubmission
                  /\ \A Q : Comes(Q, h, Submission(b, t, Cardinality(Attempts(b, t)) + 1))
  BY <1>m, <1>r
<1>c. ASSUME NEW h \in Requests, NEW a, NEW s, NEW n, Comes({}, h, Submission(a, s, n)), NEW b, NEW t
      PROVE  /\ Submission(a, s, n) \in OfStudent(b, t) <=> a = b /\ s = t
             /\ Submission(a, s, n).attempt = n
  BY <1>c DEF Comes, Submission, OfStudent
<1>g. /\ \A a \in Given : a \in Given' /\ assignment'[a] = assignment[a]
      /\ \A a \in Given' : a \in Given \/ (Calm({"submit"}) /\ UNCHANGED submissions)
  BY GivenOnce DEF Given
<1>1. AttemptsOnce'
  <2> SUFFICES ASSUME NEW a \in Given', NEW s \in Students, ~assignment'[a].resubmission
               PROVE  Cardinality(Written(OfStudent(a, s))') + Cardinality(Pending(OfStudent(a, s))') <= Racing
    BY <1>p DEF AttemptsOnce
  <2> DEFINE R == OfStudent(a, s)
  <2>1. Reviewable(R)
    BY AttemptsReviewable
  <2>2. CASE a \in Given
    <3>1. Cardinality(Written(R)) + Cardinality(Pending(R)) <= Racing
      BY <1>g, <2>2 DEF AttemptInv, AttemptsOnce
    <3>2. CASE Quiet(R) \/ \E h \in Requests, x \in SubmissionRows : Inserts(R, h, x)
      <4> HIDE DEF R
      <4> QED
        BY <1>k, <1>n, <1>p, <3>1, <3>2 DEF R
    <3>3. ASSUME NEW h \in Requests, NEW b \in Given, NEW t \in Students,
                 Attempts(b, t) # {} => assignment[b].resubmission,
                 \A Q : Comes(Q, h, Submission(b, t, Cardinality(Attempts(b, t)) + 1))
          PROVE  Cardinality(Written(R)') + Cardinality(Pending(R)') <= Racing
      <4>1. CASE b = a /\ t = s
        <5>1. Written(R) = {}
          BY <1>g, <2>2, <3>3, <4>1, AttemptsAreRows
        <5>2. Written(R)' = {}
          BY <3>3, <5>1 DEF Comes
        <5>3. Cardinality(Written(R)') = 0
          BY <5>2, FS_EmptySet
        <5> HIDE DEF R
        <5> QED
          BY <1>n, <1>p, <5>3
      <4>2. CASE ~(b = a /\ t = s)
        <5>1. Submission(b, t, Cardinality(Attempts(b, t)) + 1) \notin R
          BY <1>c, <3>3, <4>2
        <5> HIDE DEF R
        <5> QED
          BY <1>k, <1>n, <1>p, <3>1, <3>3, <5>1
      <4> QED
        BY <4>1, <4>2
    <3> QED
      <4>1. \/ Quiet(R) \/ \E h \in Requests, x \in SubmissionRows : Inserts(R, h, x)
            \/ \E h \in Requests, b \in Given, t \in Students :
                 /\ Attempts(b, t) # {} => assignment[b].resubmission
                 /\ \A Q : Comes(Q, h, Submission(b, t, Cardinality(Attempts(b, t)) + 1))
        BY <1>r, <2>1
      <4> QED
        BY <3>2, <3>3, <4>1
  <2>3. CASE a \notin Given
    <3>1. Quiet(R) /\ Written(R) = {} /\ Pending(R) = {}
      BY <1>g, <2>3, CalmIsQuiet DEF AttemptInv, OnlyGiven, Given
    <3>2. Cardinality(Written(R)') = 0 /\ Cardinality(Pending(R)') = 0
      BY <3>1, FS_EmptySet DEF Quiet
    <3> HIDE DEF R
    <3> QED
      BY <1>p, <3>2 DEF R
  <2> QED
    BY <2>2, <2>3
<1>2. NumbersOnce'
  <2> SUFFICES ASSUME NEW a \in Assignments, NEW s \in Students, NEW n \in Nat
               PROVE  Cardinality(Written(OfAttempt(a, s, n))') + Cardinality(Pending(OfAttempt(a, s, n))') <= Racing
    BY <1>p DEF NumbersOnce
  <2> DEFINE R == OfAttempt(a, s, n)
  <2>1. Reviewable(R)
    BY AttemptsReviewable
  <2>2. Cardinality(Written(R)) + Cardinality(Pending(R)) <= Racing
    BY DEF AttemptInv, NumbersOnce
  <2>3. CASE Quiet(R) \/ \E h \in Requests, x \in SubmissionRows : Inserts(R, h, x)
    <3> HIDE DEF R
    <3> QED
      BY <1>k, <1>n, <1>p, <2>2, <2>3 DEF R
  <2>4. ASSUME NEW h \in Requests, NEW b \in Given, NEW t \in Students,
               \A Q : Comes(Q, h, Submission(b, t, Cardinality(Attempts(b, t)) + 1))
        PROVE  Cardinality(Written(R)') + Cardinality(Pending(R)') <= Racing
    <3>1. CASE b = a /\ t = s /\ n = Cardinality(Attempts(b, t)) + 1
      <4>1. Attempts(a, s) = Written(OfStudent(a, s))
        BY AttemptsAreRows
      <4>2. /\ \A i \in Written(OfStudent(a, s)) : submissions[i].attempt <= Cardinality(Written(OfStudent(a, s)))
            /\ Cardinality(Written(OfStudent(a, s))) \in Nat
        BY <1>n DEF AttemptInv, NumbersCounted
      <4>3. \A i \in Written(OfStudent(a, s)) : submissions[i].attempt # n
        BY <3>1, <4>1, <4>2
      <4>4. Written(R) = {}
        BY <4>3 DEF Written, Of, OfStudent, OfAttempt
      <4>5. Cardinality(Written(R)') = 0
        BY <2>4, <4>4, FS_EmptySet DEF Comes
      <4> HIDE DEF R
      <4> QED
        BY <1>n, <1>p, <4>5
    <3>2. CASE ~(b = a /\ t = s /\ n = Cardinality(Attempts(b, t)) + 1)
      <4>1. Submission(b, t, Cardinality(Attempts(b, t)) + 1) \notin R
        <5> DEFINE l == Cardinality(Attempts(b, t)) + 1
        <5>1. Comes({}, h, Submission(b, t, l)) /\ ~(b = a /\ t = s /\ n = l)
          BY <2>4, <3>2
        <5> HIDE DEF l
        <5>2. Submission(b, t, l) \notin OfAttempt(a, s, n)
          BY <5>1 DEF Comes, Submission, OfStudent, OfAttempt
        <5> QED
          BY <5>2 DEF l
      <4> HIDE DEF R
      <4> QED
        BY <1>k, <1>n, <1>p, <2>2, <2>4, <4>1
    <3> QED
      BY <3>1, <3>2
  <2> QED
    <3>1. \/ Quiet(R) \/ \E h \in Requests, x \in SubmissionRows : Inserts(R, h, x)
          \/ \E h \in Requests, b \in Given, t \in Students :
               \A Q : Comes(Q, h, Submission(b, t, Cardinality(Attempts(b, t)) + 1))
      BY <1>r, <2>1
    <3> QED
      BY <2>3, <2>4, <3>1
<1>3. NumbersCounted'
  <2> SUFFICES ASSUME NEW a \in Assignments, NEW s \in Students
               PROVE  LET R == OfStudent(a, s)
                      IN /\ \A i \in Written(R)' : submissions'[i].attempt <= Cardinality(Written(R)')
                         /\ \A h \in Pending(R)' : req'[h].submission.attempt <= Cardinality(Written(R)') + 1
    BY DEF NumbersCounted
  <2> DEFINE R == OfStudent(a, s)
             Counted == /\ \A i \in Written(R)' : submissions'[i].attempt <= Cardinality(Written(R)')
                        /\ \A h \in Pending(R)' : req'[h].submission.attempt <= Cardinality(Written(R)') + 1
  <2>1. Reviewable(R)
    BY AttemptsReviewable
  <2>2. /\ \A i \in Written(R) : submissions[i].attempt <= Cardinality(Written(R))
        /\ \A h \in Pending(R) : req[h].submission.attempt <= Cardinality(Written(R)) + 1
    BY DEF AttemptInv, NumbersCounted
  <2>3. CASE Quiet(R)
    BY <2>2, <2>3 DEF Quiet
  <2>4. ASSUME NEW h \in Requests, NEW x \in SubmissionRows, Inserts(R, h, x) PROVE Counted
    <3>1. /\ submissions' = Append(submissions, x) /\ req[h].submission = x
          /\ Cardinality(Written(R)') = Cardinality(Written(R)) + IF x \in R THEN 1 ELSE 0
          /\ Pending(R)' = Pending(R) \ {h} /\ (h \in Pending(R) <=> x \in R)
          /\ \A k \in Requests \ {h} : req'[k] = req[k]
      BY <2>4 DEF Inserts
    <3>2. submissions \in Seq(SubmissionRows) /\ x.attempt \in Nat /\ Cardinality(Written(R)) \in Nat
      BY <1>n DEF TypeOK, TasksTyped, SubmissionRows
    <3>3. ASSUME NEW i \in Written(R)' PROVE submissions'[i].attempt <= Cardinality(Written(R)')
      <4>1. i \in DOMAIN submissions' /\ submissions'[i] \in R
        BY DEF Written, Of
      <4>2. \/ i \in DOMAIN submissions /\ submissions'[i] = submissions[i]
            \/ submissions'[i] = x
        BY <3>1, <3>2, <4>1, AppendProperties
      <4>3. CASE i \in DOMAIN submissions /\ submissions'[i] = submissions[i]
        <5>1. i \in Written(R)
          BY <4>1, <4>3 DEF Written, Of
        <5>2. submissions[i].attempt <= Cardinality(Written(R)) /\ submissions[i].attempt \in Nat
          <6>1. submissions[i] \in SubmissionRows
            BY <3>2, <4>3, RowOf
          <6> QED
            BY <2>2, <5>1, <6>1 DEF SubmissionRows
        <5> HIDE DEF R
        <5> QED
          BY <3>1, <3>2, <4>3, <5>2
      <4>4. CASE submissions'[i] = x
        <5>1. x \in R /\ h \in Pending(R)
          BY <3>1, <4>1, <4>4
        <5>2. x.attempt <= Cardinality(Written(R)) + 1
          BY <2>2, <3>1, <5>1
        <5> HIDE DEF R
        <5> QED
          BY <3>1, <3>2, <4>4, <5>1, <5>2
      <4> QED
        BY <4>2, <4>3, <4>4
    <3>4. ASSUME NEW k \in Pending(R)' PROVE req'[k].submission.attempt <= Cardinality(Written(R)') + 1
      <4>1. k \in Pending(R) /\ req'[k] = req[k]
        BY <3>1 DEF Pending
      <4>2. req[k].submission.attempt <= Cardinality(Written(R)) + 1 /\ req[k].submission.attempt \in Nat
        BY <2>2, <4>1 DEF Pending, SubmissionRows, OfStudent
      <4> HIDE DEF R
      <4> QED
        BY <3>1, <3>2, <4>1, <4>2
    <3> QED
      BY <3>3, <3>4
  <2>5. ASSUME NEW h \in Requests, NEW b \in Given, NEW t \in Students,
               \A Q : Comes(Q, h, Submission(b, t, Cardinality(Attempts(b, t)) + 1))
        PROVE  Counted
    <3> DEFINE x == Submission(b, t, Cardinality(Attempts(b, t)) + 1)
    <3>1. /\ Written(R)' = Written(R) /\ submissions' = submissions /\ req'[h].submission = x
          /\ Pending(R)' \subseteq Pending(R) \cup (IF x \in R THEN {h} ELSE {})
          /\ \A k \in Requests \ {h} : req'[k] = req[k]
      BY <2>5 DEF Comes
    <3>2. ASSUME NEW k \in Pending(R)' PROVE req'[k].submission.attempt <= Cardinality(Written(R)) + 1
      <4>1. CASE k # h
        BY <2>2, <3>1, <4>1 DEF Pending
      <4>2. CASE k = h
        <5>1. x \in R
          BY <3>1, <4>2 DEF Pending
        <5>2. Attempts(b, t) = Written(R) /\ x.attempt = Cardinality(Attempts(b, t)) + 1
          BY <1>c, <2>5, <5>1, AttemptsAreRows
        <5> HIDE DEF x, R
        <5> QED
          BY <1>n, <3>1, <4>2, <5>2
      <4> QED
        BY <4>1, <4>2
    <3> QED
      BY <2>2, <3>1, <3>2
  <2> QED
    BY <1>m, <2>1, <2>3, <2>4, <2>5
<1>4. OnlyGiven'
  <2> SUFFICES ASSUME NEW a \in Assignments, a \notin Given', NEW s \in Students
               PROVE  Written(OfStudent(a, s))' = {} /\ Pending(OfStudent(a, s))' = {}
    BY DEF OnlyGiven
  <2> DEFINE R == OfStudent(a, s)
  <2>1. Reviewable(R)
    BY AttemptsReviewable
  <2>2. a \notin Given /\ Written(R) = {} /\ Pending(R) = {}
    BY <1>g DEF AttemptInv, OnlyGiven
  <2>3. ASSUME NEW h \in Requests, NEW b \in Given, NEW t \in Students,
               \A Q : Comes(Q, h, Submission(b, t, Cardinality(Attempts(b, t)) + 1))
        PROVE  Submission(b, t, Cardinality(Attempts(b, t)) + 1) \notin R
    BY <1>c, <2>2, <2>3
  <2>4. /\ Cardinality(Written(R)') \in Nat /\ Cardinality(Pending(R)') \in Nat
        /\ Cardinality(Written(R)') + Cardinality(Pending(R)') <= Cardinality(Written(R)) + Cardinality(Pending(R))
    <3> HIDE DEF R
    <3> QED
      BY <1>k, <1>m, <1>n, <2>1, <2>3
  <2>5. Cardinality(Written(R)) = 0 /\ Cardinality(Pending(R)) = 0
    BY <2>2, FS_EmptySet
  <2>6. IsFiniteSet(Written(R)') /\ IsFiniteSet(Pending(R)')
    <3>1. Written(R)' \subseteq DOMAIN submissions' /\ submissions' \in Seq(SubmissionRows) /\ Pending(R)' \subseteq Requests
      BY DEF Written, Of, Pending, TypeOK, TasksTyped
    <3> QED
      BY <3>1, RowsCounted, ServerAssumption, FS_Subset
  <2> HIDE DEF R
  <2>7. Cardinality(Written(R)') = 0 /\ Cardinality(Pending(R)') = 0
    BY <2>4, <2>5
  <2> QED
    BY <2>6, <2>7, FS_EmptySet DEF R
<1> QED
  BY <1>1, <1>2, <1>3, <1>4 DEF AttemptInv

\* Nothing has been submitted at first.
LEMMA AttemptStart == TypeOK /\ Alone /\ Init => AttemptInv
<1> SUFFICES ASSUME TypeOK, Alone, Init PROVE AttemptInv
  OBVIOUS
<1>1. submissions = <<>> /\ \A h \in Requests : req[h] = Idle
  BY DEF Init, SchoolInit, ServerInit, CourseworkInit
<1>2. ASSUME NEW R PROVE Written(R) = {} /\ Pending(R) = {}
  BY <1>1, IdleMemory DEF Written, Of, Pending
<1>3. ASSUME NEW R PROVE Cardinality(Written(R)) = 0 /\ Cardinality(Pending(R)) = 0
  BY <1>2, FS_EmptySet
<1>4. Racing \in Nat /\ Racing >= 1
  BY AttemptCounts
<1> QED
  BY <1>2, <1>3, <1>4 DEF AttemptInv, AttemptsOnce, NumbersOnce, NumbersCounted, OnlyGiven

\* The attempts of a student are numbered apart, and who may not submit again has one, beyond
\* the calls that overlap, also while reviews save rows they read earlier: createSubmission
\* counts and inserts in two statements and no constraint backs the number.
THEOREM Numbered == Spec => []AttemptsNumbered
<1>1. TypeOK /\ Alone /\ Init => AttemptInv
  BY AttemptStart
<1>2. TypeOK /\ TypeOK' /\ Alone /\ Alone' /\ AttemptInv /\ [Next]_vars => AttemptInv'
  BY AttemptStep
<1>3. TypeOK /\ Alone /\ AttemptInv => AttemptsNumbered
  <2> SUFFICES ASSUME TypeOK, Alone, AttemptInv, NEW a \in Given, NEW s \in Students
               PROVE  /\ ~assignment[a].resubmission => Cardinality(Attempts(a, s)) <= Racing
                      /\ \A i \in Attempts(a, s) :
                           Cardinality({j \in Attempts(a, s) : submissions[j].attempt = submissions[i].attempt}) <= Racing
    BY DEF AttemptsNumbered
  <2>1. ASSUME NEW R, Cardinality(Written(R)) + Cardinality(Pending(R)) <= Racing
        PROVE  Cardinality(Written(R)) <= Racing
    <3>1. Cardinality(Written(R)) \in Nat /\ Cardinality(Pending(R)) \in Nat /\ Racing \in Nat
      BY AttemptCounts
    <3> QED
      BY <2>1, <3>1
  <2>2. ~assignment[a].resubmission => Cardinality(Attempts(a, s)) <= Racing
    BY <2>1, AttemptsAreRows DEF AttemptInv, AttemptsOnce
  <2>3. ASSUME NEW i \in Attempts(a, s)
        PROVE  Cardinality({j \in Attempts(a, s) : submissions[j].attempt = submissions[i].attempt}) <= Racing
    <3>1. submissions[i].attempt \in Nat
      <4>1. submissions[i] \in SubmissionRows
        BY RowOf DEF TypeOK, TasksTyped, Attempts
      <4> QED
        BY <4>1 DEF SubmissionRows
    <3>2. {j \in Attempts(a, s) : submissions[j].attempt = submissions[i].attempt}
            = Written(OfAttempt(a, s, submissions[i].attempt))
      BY AttemptsAreRows
    <3>3. Cardinality(Written(OfAttempt(a, s, submissions[i].attempt)))
            + Cardinality(Pending(OfAttempt(a, s, submissions[i].attempt))) <= Racing
      BY <3>1 DEF AttemptInv, NumbersOnce, Given
    <3> QED
      BY <2>1, <3>2, <3>3
  <2> QED
    BY <2>2, <2>3
<1> QED
  BY <1>1, <1>2, <1>3, TypeCorrect, OneAtATime, PTL DEF Spec


-----------------------------------------------------------------------------
(* The verification of a teacher, when one call follows the other. *)

\* A request for t with the status, and a request of the server that is about to decide t's profile.
Has(t, status) == \E i \in DOMAIN verifications : verifications[i] = Request(t, status)
Settling(t) == \E h \in Requests : req[h].at = "saveProfile" /\ req[h].teacher = t /\ req[h].verification # "pending"

Backed(t, verification) ==
  /\ (verification = "verified" /\ t \notin Verified) => Has(t, "approved")
  /\ (verification = "pending" /\ deaths = 0) => Has(t, "pending")
ProfileBacked(t) ==
  \/ Backed(t, profile[t].verification)
  \/ profile[t].verification = "pending" /\ Settling(t)
VerifyMemory(m) ==
  /\ m.at = "saveRequest" => verifications[m.request].status = "pending"
  /\ m.at = "saveProfile" => Backed(m.teacher, m.verification)
VerifyInv ==
  /\ deaths \in Nat
  /\ Serial => /\ \A t \in Teachers : profile[t] # None => ProfileBacked(t)
               /\ \A h \in Requests : VerifyMemory(req[h])

\* A step of another service is not one of a request that verifies.
VerifyAts == {"saveProfile", "saveRequest"}
LEMMA OtherService ==
  ASSUME NEW h \in Requests,
         RecordsStep(h) \/ RegistrationStep(h) \/ ClassroomStep(h) \/ SharingStep(h) \/ CourseworkStep(h) \/ TellStudentParty(h)
  PROVE  req[h].at \notin VerifyAts
BY StepsFrom DEF VerifyAts, RecordsAts, RegistrationAts, ClassroomAts, SharingAts, CourseworkAts

\* In a serial plan a step of h leaves the others idle.
LEMMA OthersIdle ==
  ASSUME TypeOK, Alone, Serial, NEW h \in Requests, NEW ats, Runs(h, ats)
  PROVE  \A k \in Requests \ {h} : req[k].at = "idle" /\ req'[k] = req[k]
<1>1. PICK m : req' = [req EXCEPT ![h] = m]
  BY DEF Runs
<1>2. \A k \in Requests \ {h} : req'[k] = req[k]
  BY <1>1 DEF TypeOK, RequestsTyped
<1> QED
  BY <1>2, IdleMemory DEF Runs, Alone

\* What a step does to a profile ...
LEMMA ProfileMoves ==
  ASSUME TypeOK, NEW h \in Requests, AffiliationStep(h), NEW t \in Teachers, profile'[t] # None
  PROVE  \/ profile[t] = None /\ profile'[t].verification = "unverified"
         \/ /\ profile[t] # None /\ profile'[t].verification = profile[t].verification
            /\ ~(SaveProfile(h) /\ t = req[h].teacher)
         \/ SaveProfile(h) /\ t = req[h].teacher /\ profile'[t].verification = req[h].verification
<1>0. profile \in [Teachers -> ProfileRows \cup {None}] /\ AffiliationMemory(req[h])
  BY DEF TypeOK, AffiliationTyped, RequestsTyped, Memory
<1>1. CASE profile' = profile /\ ~SaveProfile(h)
  BY <1>1
<1>2. CASE InsertProfile(h) /\ profile' # profile
  <2> DEFINE row == ProfileRow(None, "unverified")
  <2>1. row.verification = "unverified"
    BY DEF ProfileRow
  <2>2. profile[req[h].teacher] = None /\ profile' = [profile EXCEPT ![req[h].teacher] = row]
    BY <1>2 DEF InsertProfile
  <2>3. ~SaveProfile(h)
    BY <1>2 DEF InsertProfile, SaveProfile
  <2> HIDE DEF row
  <2> QED
    BY <1>0, <2>1, <2>2, <2>3
<1>3. CASE SaveProfile(h)
  <2>1. req[h].teacher \in Teachers /\ profile[req[h].teacher] \in ProfileRows
    BY <1>0, <1>3 DEF SaveProfile, AffiliationMemory
  <2>2. profile' = [profile EXCEPT ![req[h].teacher].verification = req[h].verification]
    BY <1>3 DEF SaveProfile
  <2>3. CASE t = req[h].teacher
    <3>1. profile'[t] = [profile[t] EXCEPT !.verification = req[h].verification]
      BY <1>0, <2>2, <2>3
    <3>2. profile'[t].verification = req[h].verification
      BY <2>1, <2>3, <3>1 DEF ProfileRows
    <3> QED
      BY <1>3, <2>3, <3>2
  <2>4. CASE t # req[h].teacher
    <3>1. profile'[t] = profile[t]
      BY <1>0, <2>2, <2>4
    <3> QED
      BY <1>0, <2>1, <2>4, <3>1, NoneIsNoProfile
  <2> QED
    BY <2>3, <2>4
<1>4. CASE Affiliate(h)
  <2>1. req[h].teacher \in Teachers /\ profile[req[h].teacher] \in ProfileRows
    BY <1>0, <1>4 DEF Affiliate, AffiliationMemory
  <2>2. profile' = [profile EXCEPT ![req[h].teacher].institute = req[h].institute]
    BY <1>4 DEF Affiliate
  <2>0. ~SaveProfile(h)
    BY <1>4 DEF Affiliate, SaveProfile
  <2>3. CASE t = req[h].teacher
    <3>1. profile'[t] = [profile[t] EXCEPT !.institute = req[h].institute]
      BY <1>0, <2>2, <2>3
    <3>2. profile'[t].verification = profile[t].verification /\ profile[t] # None
      BY <2>1, <2>3, <3>1, NoneIsNoProfile DEF ProfileRows
    <3> QED
      BY <2>0, <3>2
  <2>4. CASE t # req[h].teacher
    <3>1. profile'[t] = profile[t]
      BY <1>0, <2>2, <2>4
    <3> QED
      BY <2>0, <3>1
  <2> QED
    BY <2>3, <2>4
<1> QED
  BY <1>1, <1>2, <1>3, <1>4 DEF AffiliationStep, CreateProfile, InsertProfile, UpdateProfile, SubmitVerification, Review,
     SaveRequest, CreateInvite, Redeem, Redeemed, Archive, MarkPaid, SavePayout, school

\* ... and to the requests for verification.
LEMMA VerificationMoves ==
  ASSUME TypeOK, NEW h \in Requests, AffiliationStep(h)
  PROVE  \/ verifications' = verifications
         \/ \E t \in Teachers : /\ verifications' = Append(verifications, Request(t, "pending"))
                                /\ req' = [req EXCEPT ![h] = [at |-> "saveProfile", teacher |-> t, verification |-> "pending"]]
         \/ /\ req[h].at = "saveRequest" /\ req[h].request \in DOMAIN verifications
            /\ verifications' = [verifications EXCEPT ![req[h].request].status = req[h].decision]
            /\ req' = [req EXCEPT ![h] = [at |-> "saveProfile", teacher |-> verifications[req[h].request].teacher,
                                          verification |-> Verdict(req[h].decision)]]
<1>0. AffiliationMemory(req[h])
  BY DEF TypeOK, RequestsTyped, Memory
<1>1. CASE SubmitVerification(h)
  <2>1. PICK q \in Callers(h, "submitVerification", "teacher_profile_manage") : \E t \in ProfileOf(q) :
          /\ Start(h, [at |-> "saveProfile", teacher |-> t, verification |-> "pending"])
          /\ verifications' = Append(verifications, Request(t, "pending"))
    BY <1>1 DEF SubmitVerification
  <2> QED
    BY <2>1 DEF ProfileOf, Start
<1>2. CASE SaveRequest(h)
  BY <1>0, <1>2 DEF SaveRequest, AffiliationMemory, Goes
<1>3. CASE ~SubmitVerification(h) /\ ~SaveRequest(h)
  <2>1. verifications' = verifications
    BY <1>3 DEF AffiliationStep, CreateProfile, InsertProfile, UpdateProfile, SaveProfile, Review,
       CreateInvite, Redeem, Affiliate, Redeemed, Archive, MarkPaid, SavePayout, affiliation, paperwork
  <2> QED
    BY <2>1
<1> QED
  BY <1>1, <1>2, <1>3

\* A decided request stays decided; a pending one is there until its teacher's profile is being decided.
LEMMA RequestsStay ==
  ASSUME TypeOK, VerifyInv, Serial, NEW h \in Requests, AffiliationStep(h), NEW t
  PROVE  /\ Has(t, "approved") => Has(t, "approved")'
         /\ Has(t, "pending") => Has(t, "pending")' \/ Settling(t)'
<1>0. verifications \in Seq(RequestRows) /\ DOMAIN req = Requests
  BY DEF TypeOK, AffiliationTyped, RequestsTyped
<1>1. CASE verifications' = verifications
  BY <1>1 DEF Has
<1>2. ASSUME NEW row, verifications' = Append(verifications, row)
      PROVE  \A status : Has(t, status) => Has(t, status)'
  <2>1. \A i \in DOMAIN verifications : i \in DOMAIN verifications' /\ verifications'[i] = verifications[i]
    BY <1>0, <1>2
  <2> QED
    BY <2>1 DEF Has
<1>3. CASE /\ req[h].at = "saveRequest" /\ req[h].request \in DOMAIN verifications
           /\ verifications' = [verifications EXCEPT ![req[h].request].status = req[h].decision]
           /\ req' = [req EXCEPT ![h] = [at |-> "saveProfile", teacher |-> verifications[req[h].request].teacher,
                                         verification |-> Verdict(req[h].decision)]]
  <2> DEFINE n == req[h].request
  <2>1. verifications[n].status = "pending"
    BY <1>3 DEF VerifyInv, VerifyMemory
  <2>2. \A i \in DOMAIN verifications \ {n} : i \in DOMAIN verifications' /\ verifications'[i] = verifications[i]
    BY <1>0, <1>3
  <2> HIDE DEF n
  <2>3. ASSUME Has(t, "approved") PROVE Has(t, "approved")'
    <3>1. PICK i \in DOMAIN verifications : verifications[i] = Request(t, "approved")
      BY <2>3 DEF Has
    <3>2. i # n
      BY <2>1, <3>1 DEF Request
    <3> QED
      BY <2>2, <3>1, <3>2 DEF Has
  <2>4. ASSUME Has(t, "pending") PROVE Has(t, "pending")' \/ Settling(t)'
    <3>1. PICK i \in DOMAIN verifications : verifications[i] = Request(t, "pending")
      BY <2>4 DEF Has
    <3>2. CASE i # n
      BY <2>2, <3>1, <3>2 DEF Has
    <3>3. CASE i = n
      <4> DEFINE m == [at |-> "saveProfile", teacher |-> verifications[n].teacher, verification |-> Verdict(req[h].decision)]
      <4>1. verifications[n].teacher = t
        BY <3>1, <3>3 DEF Request
      <4>2. m.at = "saveProfile" /\ m.teacher = t /\ m.verification # "pending"
        BY <4>1 DEF Verdict
      <4>3. req'[h] = m
        BY <1>0, <1>3 DEF n
      <4> HIDE DEF m
      <4> QED
        BY <4>2, <4>3 DEF Settling
    <3> QED
      BY <3>2, <3>3
  <2> QED
    BY <2>3, <2>4
<1> QED
  BY <1>1, <1>2, <1>3, VerificationMoves

\* What a request of a serial plan comes to remember of a profile is backed.
LEMMA NewVerdict ==
  ASSUME TypeOK, Alone, VerifyInv, Serial, NEW h \in Requests, AffiliationMove(h)
  PROVE  \E m : VerifyMemory(m)' /\ req' = [req EXCEPT ![h] = m]
<1>0. /\ DOMAIN req = Requests /\ verifications \in Seq(RequestRows) /\ AffiliationMemory(req[h])
      /\ deaths' = deaths /\ AffiliationStep(h)
  BY DEF TypeOK, AffiliationTyped, RequestsTyped, Memory, AffiliationMove, Runs
<1>1. ASSUME NEW m, req' = [req EXCEPT ![h] = m], m.at \notin VerifyAts
      PROVE  \E x : VerifyMemory(x)' /\ req' = [req EXCEPT ![h] = x]
  <2>1. VerifyMemory(m)'
    BY <1>1 DEF VerifyMemory, VerifyAts
  <2> QED
    BY <1>1, <2>1
<1>2. CASE SubmitVerification(h)
  <2>1. PICK t \in Teachers :
          /\ verifications' = Append(verifications, Request(t, "pending"))
          /\ req' = [req EXCEPT ![h] = [at |-> "saveProfile", teacher |-> t, verification |-> "pending"]]
    <3>1. PICK q \in Callers(h, "submitVerification", "teacher_profile_manage") : \E t \in ProfileOf(q) :
            /\ Start(h, [at |-> "saveProfile", teacher |-> t, verification |-> "pending"])
            /\ verifications' = Append(verifications, Request(t, "pending"))
      BY <1>2 DEF SubmitVerification
    <3> QED
      BY <3>1 DEF ProfileOf, Start
  <2> DEFINE m == [at |-> "saveProfile", teacher |-> t, verification |-> "pending"]
  <2>2. Has(t, "pending")'
    <3> DEFINE n == Len(verifications) + 1
    <3>1. n \in DOMAIN verifications' /\ verifications'[n] = Request(t, "pending")
      BY <1>0, <2>1
    <3> QED
      BY <3>1 DEF Has
  <2>3. m.at = "saveProfile" /\ m.teacher = t /\ m.verification = "pending" /\ req' = [req EXCEPT ![h] = m]
    BY <2>1
  <2> HIDE DEF m
  <2>4. VerifyMemory(m)'
    BY <2>2, <2>3 DEF VerifyMemory, Backed
  <2> QED
    BY <2>3, <2>4
<1>3. CASE UpdateProfile(h)
  <2>1. PICK t \in Teachers :
          /\ profile[t] # None /\ \A k \in Requests : req[k] = Idle
          /\ req' = [req EXCEPT ![h] = [at |-> "saveProfile", teacher |-> t, verification |-> profile[t].verification]]
          /\ verifications' = verifications
    <3>1. PICK q \in Callers(h, "updateProfile", "teacher_profile_manage") : \E t \in ProfileOf(q) :
            /\ Start(h, [at |-> "saveProfile", teacher |-> t, verification |-> profile[t].verification])
            /\ UNCHANGED <<school, affiliation>>
      BY <1>3 DEF UpdateProfile
    <3> QED
      BY <3>1, Called DEF ProfileOf, Start, affiliation, paperwork
  <2>0. PICK m : m = [at |-> "saveProfile", teacher |-> t, verification |-> profile[t].verification]
    OBVIOUS
  <2>2. Backed(t, profile[t].verification)
    BY <2>1, IdleMemory DEF VerifyInv, ProfileBacked, Settling
  <2>3. m.at = "saveProfile" /\ m.teacher = t /\ m.verification = profile[t].verification /\ req' = [req EXCEPT ![h] = m]
    BY <2>0, <2>1
  <2>4. VerifyMemory(m)'
    BY <1>0, <2>1, <2>2, <2>3 DEF VerifyMemory, Backed, Has
  <2> QED
    BY <2>3, <2>4
<1>4. CASE SaveRequest(h)
  <2>1. PICK n, t, decision :
          /\ n = req[h].request /\ decision = req[h].decision
          /\ n \in DOMAIN verifications /\ t = verifications[n].teacher /\ decision \in {"approved", "rejected"}
    BY <1>0, <1>4 DEF SaveRequest, AffiliationMemory
  <2> DEFINE m == [at |-> "saveProfile", teacher |-> t, verification |-> Verdict(decision)]
  <2>2. verifications' = [verifications EXCEPT ![n].status = decision] /\ req' = [req EXCEPT ![h] = m]
    BY <1>4, <2>1 DEF SaveRequest, Goes
  <2>3. decision = "approved" => Has(t, "approved")'
    <3>1. verifications[n] \in RequestRows
      BY <1>0, <2>1, RowOf
    <3>2. verifications'[n] = [verifications[n] EXCEPT !.status = decision] /\ n \in DOMAIN verifications'
      BY <1>0, <2>1, <2>2
    <3>3. verifications'[n] = Request(t, decision)
      BY <2>1, <3>1, <3>2 DEF RequestRows, Request
    <3> QED
      BY <3>2, <3>3 DEF Has
  <2>4. /\ m.at = "saveProfile" /\ m.teacher = t /\ m.verification # "pending"
        /\ m.verification = "verified" => decision = "approved"
    BY <2>1 DEF Verdict
  <2> HIDE DEF m
  <2>5. VerifyMemory(m)'
    BY <2>3, <2>4 DEF VerifyMemory, Backed, m
  <2> QED
    BY <2>2, <2>5
<1>5. CASE Review(h)
  <2>1. PICK i, decision : /\ Start(h, [at |-> "saveRequest", request |-> i, decision |-> decision])
                           /\ verifications[i].status = "pending"
                           /\ UNCHANGED affiliation
    BY <1>5, Zenon DEF Review
  <2> DEFINE m == [at |-> "saveRequest", request |-> i, decision |-> decision]
  <2>2. m.at = "saveRequest" /\ m.request = i /\ req' = [req EXCEPT ![h] = m]
    BY <2>1 DEF Start
  <2> HIDE DEF m
  <2>3. VerifyMemory(m)'
    BY <2>1, <2>2 DEF VerifyMemory, affiliation, paperwork
  <2> QED
    BY <2>2, <2>3
<1>6. CASE Redeem(h)
  <2>1. PICK c, t, i : Start(h, [at |-> "affiliate", code |-> c, teacher |-> t, institute |-> i])
    BY <1>6, Zenon DEF Redeem
  <2> DEFINE m == [at |-> "affiliate", code |-> c, teacher |-> t, institute |-> i]
  <2>2. m.at = "affiliate" /\ req' = [req EXCEPT ![h] = m]
    BY <2>1 DEF Start
  <2> QED
    BY <1>1, <2>2 DEF VerifyAts
<1>7. CASE Affiliate(h)
  <2> DEFINE m == [req[h] EXCEPT !.at = "redeemed"]
  <2>1. m.at = "redeemed" /\ req' = [req EXCEPT ![h] = m]
    BY <1>0, <1>7 DEF Affiliate, AffiliationMemory, Goes
  <2> HIDE DEF m
  <2> QED
    BY <1>1, <2>1 DEF VerifyAts
<1>8. CASE CreateProfile(h)
  <2>1. PICK t : Start(h, [at |-> "insertProfile", teacher |-> t])
    BY <1>8, Zenon DEF CreateProfile
  <2> DEFINE m == [at |-> "insertProfile", teacher |-> t]
  <2>2. m.at = "insertProfile" /\ req' = [req EXCEPT ![h] = m]
    BY <2>1 DEF Start
  <2> QED
    BY <1>1, <2>2 DEF VerifyAts
<1>9. CASE MarkPaid(h)
  <2>1. PICK p : Start(h, [at |-> "savePayout", payout |-> p])
    BY <1>9, Zenon DEF MarkPaid
  <2> DEFINE m == [at |-> "savePayout", payout |-> p]
  <2>2. m.at = "savePayout" /\ req' = [req EXCEPT ![h] = m]
    BY <2>1 DEF Start
  <2> QED
    BY <1>1, <2>2 DEF VerifyAts
<1>10. CASE InsertProfile(h) \/ SaveProfile(h) \/ Redeemed(h) \/ SavePayout(h) \/ CreateInvite(h) \/ Archive(h)
  <2>1. req' = [req EXCEPT ![h] = Idle]
    BY <1>10 DEF InsertProfile, SaveProfile, Redeemed, SavePayout, CreateInvite, Archive, Start, Reply, Goes
  <2> QED
    BY <1>1, <2>1, IdleMemory DEF VerifyAts
<1> QED
  BY <1>0, <1>2, <1>3, <1>4, <1>5, <1>6, <1>7, <1>8, <1>9, <1>10 DEF AffiliationStep

\* A step leaves every profile backed.
LEMMA ProfilesStay ==
  ASSUME TypeOK, Alone, VerifyInv, Serial, NEW h \in Requests, AffiliationMove(h),
         NEW t \in Teachers, profile'[t] # None
  PROVE  ProfileBacked(t)'
<1>0. AffiliationStep(h) /\ deaths' = deaths /\ DOMAIN req = Requests
  BY DEF AffiliationMove, Runs, TypeOK, RequestsTyped
<1>1. (Has(t, "approved") => Has(t, "approved")') /\ (Has(t, "pending") => Has(t, "pending")' \/ Settling(t)')
  BY <1>0, RequestsStay
<1>2. CASE profile[t] = None /\ profile'[t].verification = "unverified"
  BY <1>2 DEF ProfileBacked, Backed
<1>3. CASE SaveProfile(h) /\ t = req[h].teacher /\ profile'[t].verification = req[h].verification
  <2>1. Backed(t, req[h].verification) /\ verifications' = verifications
    BY <1>3 DEF SaveProfile, VerifyInv, VerifyMemory, affiliation, paperwork
  <2> QED
    BY <1>0, <1>3, <2>1 DEF ProfileBacked, Backed, Has
<1>4. CASE profile[t] # None /\ profile'[t].verification = profile[t].verification /\ ~(SaveProfile(h) /\ t = req[h].teacher)
  <2>1. CASE Backed(t, profile[t].verification)
    BY <1>0, <1>1, <1>4, <2>1 DEF ProfileBacked, Backed
  <2>2. CASE profile[t].verification = "pending" /\ Settling(t)
    <3>1. PICK k \in Requests : req[k].at = "saveProfile" /\ req[k].teacher = t /\ req[k].verification # "pending"
      BY <2>2 DEF Settling
    <3>2. k = h
      BY <3>1, OthersIdle DEF AffiliationMove
    <3>3. SaveProfile(h)
      <4>1. CASE CreateProfile(h) \/ UpdateProfile(h) \/ SubmitVerification(h) \/ Review(h) \/ CreateInvite(h) \/ Redeem(h)
                 \/ Archive(h) \/ MarkPaid(h)
        <5>1. req[h].at = "idle"
          BY <4>1, StartsIdle, Zenon DEF CreateProfile, UpdateProfile, SubmitVerification, Review, CreateInvite, Redeem,
             Archive, MarkPaid
        <5> QED
          BY <3>1, <3>2, <5>1
      <4> QED
        BY <1>0, <3>1, <3>2, <4>1 DEF AffiliationStep, InsertProfile, SaveRequest, Affiliate, Redeemed, SavePayout
    <3> QED
      BY <1>4, <3>1, <3>2, <3>3
  <2> QED
    BY <1>4, <2>1, <2>2 DEF VerifyInv, ProfileBacked
<1> QED
  BY <1>0, <1>2, <1>3, <1>4, ProfileMoves

LEMMA VerifyStart == Init => VerifyInv
<1> SUFFICES ASSUME Init PROVE VerifyInv
  OBVIOUS
<1>1. profile = FirstProfile /\ deaths = 0 /\ \A h \in Requests : req[h] = Idle
  BY DEF Init, SchoolInit, ServerInit
<1>2. \A t \in Teachers : FirstProfile[t] # None => FirstProfile[t].verification # "pending"
  BY TablesAssumption
<1> QED
  BY <1>1, <1>2, IdleMemory DEF VerifyInv, VerifyMemory, ProfileBacked, Backed, Verified

LEMMA VerifyStep == TypeOK /\ Alone /\ VerifyInv /\ [Next]_vars => VerifyInv'
<1> SUFFICES ASSUME TypeOK, Alone, VerifyInv, [Next]_vars PROVE VerifyInv'
  OBVIOUS
<1>0. DOMAIN req = Requests /\ deaths \in Nat
  BY DEF TypeOK, RequestsTyped, VerifyInv
<1>1. deaths' \in Nat /\ Serial' = Serial
  BY <1>0, Moves DEF RecordsMove, RegistrationMove, AffiliationMove, ClassroomMove, SharingMove, CourseworkMove, TellMove,
     RestMove, Runs, Serial, Die
<1>2. SUFFICES ASSUME Serial
               PROVE  /\ \A t \in Teachers : profile'[t] # None => ProfileBacked(t)'
                      /\ \A h \in Requests : VerifyMemory(req[h])'
  BY <1>1 DEF VerifyInv
<1>3. CASE RestMove
  <2>1. profile' = profile /\ verifications' = verifications
    BY <1>3 DEF RestMove, school, paperwork
  <2>2. CASE UNCHANGED <<req, deaths>>
    BY <1>2, <2>1, <2>2 DEF VerifyInv, VerifyMemory, ProfileBacked, Backed, Has, Settling
  <2>3. ASSUME NEW k \in Requests, Die(k)
        PROVE  /\ \A t \in Teachers : profile'[t] # None => ProfileBacked(t)'
               /\ \A h \in Requests : VerifyMemory(req[h])'
    <3>1. deaths' # 0 /\ req' = [req EXCEPT ![k] = Idle]
      BY <1>0, <2>3 DEF Die
    <3>2. ASSUME NEW t \in Teachers, profile'[t] # None PROVE ProfileBacked(t)'
      BY <1>2, <2>1, <3>1, <3>2 DEF VerifyInv, ProfileBacked, Backed, Has
    <3>3. ASSUME NEW h \in Requests PROVE VerifyMemory(req[h])'
      <4>1. req'[h] = req[h] \/ req'[h].at = "idle"
        BY <1>0, <3>1, IdleMemory
      <4>2. VerifyMemory(req[h])
        BY <1>2 DEF VerifyInv
      <4> QED
        BY <2>1, <3>1, <4>1, <4>2 DEF VerifyMemory, Backed, Has
    <3> QED
      BY <3>2, <3>3
  <2> QED
    BY <1>3, <2>2, <2>3 DEF RestMove
<1>4. ASSUME NEW h \in Requests, RecordsMove(h) \/ RegistrationMove(h) \/ ClassroomMove(h) \/ SharingMove(h)
                                   \/ CourseworkMove(h) \/ TellMove(h)
      PROVE  /\ \A t \in Teachers : profile'[t] # None => ProfileBacked(t)'
             /\ \A k \in Requests : VerifyMemory(req[k])'
  <2>1. profile' = profile /\ verifications' = verifications /\ deaths' = deaths
    BY <1>4 DEF RecordsMove, RegistrationMove, ClassroomMove, SharingMove, CourseworkMove, TellMove, Runs, school,
       services, affiliation, paperwork
  <2>2. req[h].at \notin VerifyAts
    BY <1>4, OtherService DEF RecordsMove, RegistrationMove, ClassroomMove, SharingMove, CourseworkMove, TellMove
  <2>3. PICK m : m.at \notin VerifyAts /\ req' = [req EXCEPT ![h] = m]
    BY <1>4 DEF RecordsMove, RegistrationMove, ClassroomMove, SharingMove, CourseworkMove, TellMove, Runs, VerifyAts,
       RecordsAts, RegistrationAts, ClassroomAts, SharingAts, CourseworkAts
  <2>4. \A k \in Requests : req'[k] = req[k] \/ req'[k].at \notin VerifyAts
    BY <1>0, <2>3
  <2>5. ASSUME NEW k \in Requests PROVE VerifyMemory(req[k])'
    BY <1>2, <2>1, <2>4 DEF VerifyInv, VerifyMemory, Backed, Has, VerifyAts
  <2>6. \A t : Settling(t) => Settling(t)'
    BY <1>0, <2>2, <2>3 DEF Settling, VerifyAts
  <2>7. ASSUME NEW t \in Teachers, profile'[t] # None PROVE ProfileBacked(t)'
    BY <1>2, <2>1, <2>6, <2>7 DEF VerifyInv, ProfileBacked, Backed, Has
  <2> QED
    BY <2>5, <2>7
<1>5. ASSUME NEW h \in Requests, AffiliationMove(h)
      PROVE  /\ \A t \in Teachers : profile'[t] # None => ProfileBacked(t)'
             /\ \A k \in Requests : VerifyMemory(req[k])'
  <2>1. PICK m : VerifyMemory(m)' /\ req' = [req EXCEPT ![h] = m]
    BY <1>2, <1>5, NewVerdict
  <2>2. ASSUME NEW k \in Requests PROVE VerifyMemory(req[k])'
    <3>1. CASE k = h
      <4>1. PICK x : x = m /\ x = req'[k]
        BY <1>0, <2>1, <3>1
      <4> QED
        BY <2>1, <4>1 DEF VerifyMemory
    <3>2. CASE k # h
      <4>1. req'[k].at = "idle"
        BY <1>2, <1>5, <3>2, OthersIdle DEF AffiliationMove
      <4> QED
        BY <4>1 DEF VerifyMemory
    <3> QED
      BY <3>1, <3>2
  <2> QED
    BY <1>2, <1>5, <2>2, ProfilesStay
<1> QED
  BY <1>3, <1>4, <1>5, Moves

\* When one call follows the other, a profile is verified only by a request that was approved, wherever a
\* handler died; and when none did, a pending profile has its request in the queue of reviews.
THEOREM Verification == Spec => []VerificationBacked
<1>1. TypeOK /\ VerifyInv => VerificationBacked
  BY IdleMemory DEF VerifyInv, VerificationBacked, ProfileBacked, Backed, Has, Settling, Resting
<1> QED
  BY <1>1, VerifyStart, VerifyStep, TypeCorrect, OneAtATime, PTL DEF Spec

-----------------------------------------------------------------------------
(* The payouts of teachers. *)

\* The requests about to save the payout as paid.
Paying(p) == {h \in Requests : req[h].at = "savePayout" /\ req[h].payout = p}
PaidInv == \A p \in Payouts : payments[p] + Cardinality(Paying(p)) <= Racing

\* Only markPaid saves payouts.
PaidAts == {"savePayout"}
LEMMA PaidMoves ==
  ASSUME TypeOK, [Next]_vars
  PROVE  /\ plan' = plan
         /\ \/ Calm(PaidAts) /\ payments' = payments
            \/ \E h \in Requests : MarkPaid(h) \/ SavePayout(h)
<1> USE DEF PaidAts
<1>1. ASSUME NEW h \in Requests, RecordsMove(h) \/ RegistrationMove(h) \/ ClassroomMove(h) \/ SharingMove(h)
                                   \/ CourseworkMove(h) \/ TellMove(h)
      PROVE  Calm(PaidAts) /\ payments' = payments /\ plan' = plan
  <2>1. payments' = payments
    BY <1>1 DEF RecordsMove, RegistrationMove, ClassroomMove, SharingMove, CourseworkMove, TellMove, services,
       affiliation, paperwork
  <2>2. PICK ats : Runs(h, ats) /\ ats \cap PaidAts = {}
    BY <1>1 DEF RecordsMove, RegistrationMove, ClassroomMove, SharingMove, CourseworkMove, TellMove,
       RecordsAts, RegistrationAts, ClassroomAts, SharingAts, CourseworkAts
  <2> QED
    BY <2>1, <2>2, RunsCalm
<1>2. CASE RestMove
  BY <1>2, RestCalm DEF RestMove, paperwork
<1>3. ASSUME NEW h \in Requests, AffiliationMove(h)
      PROVE  plan' = plan /\ ((Calm(PaidAts) /\ payments' = payments) \/ MarkPaid(h) \/ SavePayout(h))
  <2>1. plan' = plan /\ AffiliationStep(h)
    BY <1>3 DEF AffiliationMove, Runs
  <2>2. CASE ~MarkPaid(h) /\ ~SavePayout(h)
    <3>1. payments' = payments
      BY <2>1, <2>2 DEF AffiliationStep, CreateProfile, InsertProfile, UpdateProfile, SaveProfile, SubmitVerification,
         Review, SaveRequest, CreateInvite, Redeem, Affiliate, Redeemed, Archive, affiliation, paperwork
    <3>2. CASE CreateProfile(h) \/ UpdateProfile(h) \/ SubmitVerification(h) \/ Review(h) \/ Redeem(h)
      <4>1. \E m : m.at \notin PaidAts /\ Start(h, m)
        BY <3>2, Zenon DEF CreateProfile, UpdateProfile, SubmitVerification, Review, Redeem
      <4> QED
        BY <3>1, <4>1, GoesCalm
    <3>3. CASE SaveRequest(h)
      <4>1. \E m : m.at \notin PaidAts /\ Goes(h, m)
        BY <3>3 DEF SaveRequest
      <4> QED
        BY <3>1, <4>1, GoesCalm
    <3>4. CASE Affiliate(h)
      <4>1. AffiliationMemory(req[h])
        BY DEF TypeOK, RequestsTyped, Memory
      <4>2. PICK m : m = [req[h] EXCEPT !.at = "redeemed"]
        OBVIOUS
      <4>3. m.at \notin PaidAts /\ Goes(h, m)
        BY <3>4, <4>1, <4>2 DEF Affiliate, AffiliationMemory
      <4> QED
        BY <3>1, <4>3, GoesCalm
    <3>5. CASE InsertProfile(h) \/ SaveProfile(h) \/ CreateInvite(h) \/ Redeemed(h) \/ Archive(h)
      <4>1. Start(h, Idle) \/ Reply(h)
        BY <3>5, Zenon DEF InsertProfile, SaveProfile, CreateInvite, Redeemed, Archive
      <4> QED
        BY <3>1, <4>1, ReplyCalm
    <3> QED
      BY <2>1, <2>2, <3>2, <3>3, <3>4, <3>5 DEF AffiliationStep
  <2> QED
    BY <2>1, <2>2
<1> QED
  BY <1>1, <1>2, <1>3, Moves

\* Every step keeps the count.
LEMMA PaidStep == TypeOK /\ TypeOK' /\ Alone /\ Alone' /\ PaidInv /\ [Next]_vars => PaidInv'
<1> SUFFICES ASSUME TypeOK, TypeOK', Alone, Alone', PaidInv, [Next]_vars, NEW p \in Payouts
             PROVE  payments'[p] + Cardinality(Paying(p))' <= Racing'
  BY DEF PaidInv
<1>0. /\ RequestsTyped /\ payments \in [Payouts -> Nat] /\ payments' \in [Payouts -> Nat]
      /\ payments[p] + Cardinality(Paying(p)) <= Racing
  BY DEF TypeOK, AffiliationTyped, PaidInv
<1>1. Serial' = Serial /\ Racing' = Racing
  BY PaidMoves DEF Serial, Racing
<1>2. /\ IsFiniteSet(Paying(p)) /\ Cardinality(Paying(p)) \in Nat /\ Racing \in Nat
      /\ Cardinality(Paying(p)') \in Nat /\ Cardinality(Paying(p)') <= Racing
  <2>1. Paying(p) \subseteq Requests /\ (Serial => \A h, k \in Paying(p) : h = k)
    BY DEF Paying, Alone
  <2>2. Paying(p)' \subseteq Requests /\ (Serial => \A h, k \in Paying(p)' : h = k)
    BY <1>1 DEF Paying, Alone
  <2> QED
    BY <2>1, <2>2, RacingBounds
<1>3. CASE Calm(PaidAts) /\ payments' = payments
  <2>1. Paying(p)' \subseteq Paying(p)
    BY <1>0, <1>3, CalmKeeps DEF Paying, PaidAts
  <2>2. Cardinality(Paying(p)') <= Cardinality(Paying(p))
    BY <1>2, <2>1, FS_Subset
  <2> QED
    BY <1>0, <1>1, <1>2, <1>3, <2>2
<1>4. ASSUME NEW h \in Requests, MarkPaid(h) PROVE payments'[p] + Cardinality(Paying(p))' <= Racing'
  <2>1. PICK x : payments[x] = 0 /\ Start(h, [at |-> "savePayout", payout |-> x]) /\ UNCHANGED affiliation
    BY <1>4, Zenon DEF MarkPaid
  <2> DEFINE m == [at |-> "savePayout", payout |-> x]
  <2>2. m.at = "savePayout" /\ m.payout = x /\ req' = [req EXCEPT ![h] = m] /\ payments' = payments
    BY <2>1 DEF Start, affiliation, paperwork
  <2> HIDE DEF m
  <2>3. CASE x = p
    BY <1>0, <1>1, <1>2, <2>1, <2>2, <2>3
  <2>4. CASE x # p
    <3>1. Paying(p)' \subseteq Paying(p)
      BY <1>0, <2>2, <2>4 DEF Paying, RequestsTyped
    <3>2. Cardinality(Paying(p)') <= Cardinality(Paying(p))
      BY <1>2, <3>1, FS_Subset
    <3> QED
      BY <1>0, <1>1, <1>2, <2>2, <3>2
  <2> QED
    BY <2>3, <2>4
<1>5. ASSUME NEW h \in Requests, SavePayout(h) PROVE payments'[p] + Cardinality(Paying(p))' <= Racing'
  <2>1. PICK x : x = req[h].payout
    OBVIOUS
  <2>2. req[h].at = "savePayout" /\ payments' = [payments EXCEPT ![x] = @ + 1] /\ req' = [req EXCEPT ![h] = Idle]
    BY <1>5, <2>1 DEF SavePayout, Reply, Goes
  <2>3. Paying(p)' = Paying(p) \ {h}
    BY <1>0, <2>2, IdleMemory DEF Paying, RequestsTyped
  <2>4. h \in Paying(p) <=> x = p
    BY <2>1, <2>2 DEF Paying
  <2>5. Cardinality(Paying(p) \ {h}) = IF h \in Paying(p) THEN Cardinality(Paying(p)) - 1 ELSE Cardinality(Paying(p))
    BY <1>2, FS_RemoveElement
  <2>6. CASE x = p
    BY <1>0, <1>1, <1>2, <2>2, <2>3, <2>4, <2>5, <2>6
  <2>7. CASE x # p
    BY <1>0, <1>1, <1>2, <2>2, <2>3, <2>4, <2>5, <2>7
  <2> QED
    BY <2>6, <2>7
<1> QED
  BY <1>3, <1>4, <1>5, PaidMoves

LEMMA PaidStart == Init => PaidInv
<1> SUFFICES ASSUME Init, NEW p \in Payouts PROVE payments[p] + Cardinality(Paying(p)) <= Racing
  BY DEF PaidInv
<1>1. payments[p] = 0 /\ \A h \in Requests : req[h] = Idle
  BY DEF Init, SchoolInit, ServerInit, AffiliationInit
<1>2. Paying(p) = {}
  BY <1>1, IdleMemory DEF Paying
<1>3. {} \in SUBSET Requests /\ (Serial => \A h, k \in {} : h = k)
  OBVIOUS
<1> QED
  BY <1>1, <1>2, <1>3, RacingBounds

-----------------------------------------------------------------------------
(* The invites of teachers. *)

\* Of an institute: the teachers who have joined it and the codes that have been redeemed.
InstituteOf(t) == IF profile[t] = None THEN None ELSE profile[t].institute
RedeemerOf(c) == IF invites[c] = None THEN None ELSE invites[c].redeemedBy
CameLater(t, i) == FirstProfile[t] = None \/ FirstProfile[t].institute # i
Comers(i) == {t \in Teachers : InstituteOf(t) = i /\ CameLater(t, i)}
Used(i) == {c \in Codes : RedeemerOf(c) # None /\ invites[c].institute = i}

\* The statements between the check of a code and its redemption.
InviteAts == {"affiliate", "redeemed"}
\* A request does something else, ...
Aside ==
  req' = req \/ \E h \in Requests : \E m : req[h].at \notin InviteAts /\ m.at \notin InviteAts /\ req' = [req EXCEPT ![h] = m]
\* ... teachers stay where they are, and codes are only created.
InvitesStay ==
  /\ \A t \in Teachers : InstituteOf(t)' = InstituteOf(t)
  /\ \A c \in Codes : invites[c] # None => invites'[c] = invites[c]
  /\ \A c \in Codes : RedeemerOf(c)' = RedeemerOf(c)

\* The steps about an institute's invites, and what the others leave alone.
LEMMA InviteMoves ==
  ASSUME TypeOK, [Next]_vars
  PROVE  /\ plan' = plan /\ archived \subseteq archived'
         /\ \/ Aside /\ InvitesStay /\ deaths' = deaths
            \/ /\ UNCHANGED <<profile, invites>>
               /\ \E h \in Requests : Die(h)
            \/ \E h \in Requests : Redeem(h) \/ Affiliate(h) \/ Redeemed(h)
<1>0. /\ RequestsTyped /\ profile \in [Teachers -> ProfileRows \cup {None}] /\ invites \in [Codes -> InviteRows \cup {None}]
      /\ None \notin Teachers
  BY SchoolAssumption DEF TypeOK, AffiliationTyped
<1>s. ASSUME UNCHANGED <<profile, invites>> PROVE InvitesStay
  BY <1>s DEF InvitesStay, InstituteOf, RedeemerOf
<1>1. ASSUME NEW h \in Requests, RecordsMove(h) \/ RegistrationMove(h) \/ ClassroomMove(h) \/ SharingMove(h)
                                   \/ CourseworkMove(h) \/ TellMove(h)
      PROVE  plan' = plan /\ archived' = archived /\ Aside /\ InvitesStay /\ deaths' = deaths
  <2>1. archived' = archived /\ invites' = invites /\ profile' = profile
    BY <1>1 DEF RecordsMove, RegistrationMove, ClassroomMove, SharingMove, CourseworkMove, TellMove, services,
       affiliation, school
  <2>2. PICK ats : Runs(h, ats) /\ ats \cap InviteAts = {}
    BY <1>1 DEF RecordsMove, RegistrationMove, ClassroomMove, SharingMove, CourseworkMove, TellMove,
       RecordsAts, RegistrationAts, ClassroomAts, SharingAts, CourseworkAts, InviteAts
  <2>3. req[h].at \notin InviteAts
    BY <1>1, StepsFrom DEF RecordsMove, RegistrationMove, ClassroomMove, SharingMove, CourseworkMove, TellMove,
       RecordsAts, RegistrationAts, ClassroomAts, SharingAts, CourseworkAts, InviteAts
  <2>4. PICK m : m.at \in ats /\ req' = [req EXCEPT ![h] = m] /\ plan' = plan /\ deaths' = deaths
    BY <2>2 DEF Runs
  <2>5. Aside
    BY <2>2, <2>3, <2>4 DEF Aside
  <2> QED
    BY <1>s, <2>1, <2>4, <2>5
<1>2. CASE RestMove
  <2>1. UNCHANGED <<profile, invites, archived, plan>>
    BY <1>2 DEF RestMove, school
  <2> QED
    BY <1>2, <1>s, <2>1 DEF RestMove, Aside
<1>3. ASSUME NEW h \in Requests, AffiliationMove(h), ~Redeem(h), ~Affiliate(h), ~Redeemed(h)
      PROVE  plan' = plan /\ archived \subseteq archived' /\ Aside /\ InvitesStay /\ deaths' = deaths
  <2>1. plan' = plan /\ deaths' = deaths /\ AffiliationStep(h) /\ AffiliationMemory(req[h])
    BY <1>0, <1>3 DEF AffiliationMove, Runs, RequestsTyped, Memory
  <2>2. archived \subseteq archived'
    BY <1>3, <2>1 DEF AffiliationStep, CreateProfile, InsertProfile, UpdateProfile, SaveProfile, SubmitVerification,
         Review, SaveRequest, CreateInvite, MarkPaid, SavePayout, Archive, affiliation, paperwork
  <2>3. Aside
    <3>1. ASSUME NEW m, m.at \notin InviteAts, req' = [req EXCEPT ![h] = m], req[h].at \notin InviteAts PROVE Aside
      BY <3>1 DEF Aside
    <3>2. CASE CreateProfile(h) \/ UpdateProfile(h) \/ SubmitVerification(h) \/ Review(h) \/ MarkPaid(h)
      <4>1. \E m : m.at \notin InviteAts /\ Start(h, m)
        BY <3>2, Zenon DEF CreateProfile, UpdateProfile, SubmitVerification, Review, MarkPaid, InviteAts
      <4>2. req[h].at = "idle"
        BY <3>2, StartsIdle, Zenon DEF CreateProfile, UpdateProfile, SubmitVerification, Review, MarkPaid
      <4> QED
        BY <3>1, <4>1, <4>2 DEF Start, InviteAts
    <3>3. CASE SaveRequest(h)
      <4>1. \E m : m.at \notin InviteAts /\ Goes(h, m)
        BY <3>3 DEF SaveRequest, InviteAts
      <4> QED
        BY <3>1, <3>3, <4>1 DEF Goes, SaveRequest, InviteAts
    <3>4. CASE CreateInvite(h) \/ Archive(h)
      <4>1. req[h].at = "idle"
        BY <3>4, StartsIdle, Zenon DEF CreateInvite, Archive
      <4>2. Start(h, Idle)
        BY <3>4, Zenon DEF CreateInvite, Archive
      <4> QED
        BY <3>1, <4>1, <4>2, IdleMemory DEF Start, InviteAts
    <3>5. CASE InsertProfile(h) \/ SaveProfile(h) \/ SavePayout(h)
      <4>1. req[h].at \notin InviteAts /\ Reply(h)
        BY <3>5 DEF InsertProfile, SaveProfile, SavePayout, InviteAts
      <4> QED
        BY <3>1, <4>1, IdleMemory DEF Goes, Reply, InviteAts
    <3> QED
      BY <1>3, <2>1, <3>2, <3>3, <3>4, <3>5 DEF AffiliationStep
  <2>4. InvitesStay
    <3>1. CASE InsertProfile(h)
      <4>1. PICK x, row : x = req[h].teacher /\ row = ProfileRow(None, "unverified")
        OBVIOUS
      <4>2. profile' = (IF profile[x] # None THEN profile ELSE [profile EXCEPT ![x] = row]) /\ invites' = invites
        BY <3>1, <4>1 DEF InsertProfile, affiliation
      <4>3. row.institute = None
        BY <4>1 DEF ProfileRow
      <4>4. \A t \in Teachers : InstituteOf(t)' = InstituteOf(t)
        BY <1>0, <4>2, <4>3 DEF InstituteOf
      <4> QED
        BY <4>2, <4>4 DEF InvitesStay, RedeemerOf
    <3>2. CASE SaveProfile(h)
      <4>1. PICK x, v : x = req[h].teacher /\ v = req[h].verification
        OBVIOUS
      <4>2. x \in Teachers /\ profile[x] \in ProfileRows /\ v \in Verifications
        BY <1>0, <2>1, <3>2, <4>1 DEF SaveProfile, AffiliationMemory
      <4>3. profile' = [profile EXCEPT ![x].verification = v] /\ invites' = invites
        BY <3>2, <4>1 DEF SaveProfile, affiliation
      <4>4. PICK row : row = [profile[x] EXCEPT !.verification = v]
        OBVIOUS
      <4>5. row \in ProfileRows /\ row.institute = profile[x].institute
        BY <4>2, <4>4 DEF ProfileRows
      <4>6. profile' = [profile EXCEPT ![x] = row]
        BY <1>0, <4>2, <4>3, <4>4
      <4>7. ASSUME NEW t \in Teachers PROVE InstituteOf(t)' = InstituteOf(t)
        <5>1. CASE t = x
          BY <1>0, <4>2, <4>5, <4>6, <5>1, NoneIsNoProfile DEF InstituteOf
        <5>2. CASE t # x
          BY <1>0, <4>6, <5>2 DEF InstituteOf
        <5> QED
          BY <5>1, <5>2
      <4> QED
        BY <4>3, <4>7 DEF InvitesStay, RedeemerOf
    <3>3. CASE CreateInvite(h)
      <4>1. PICK c, i : invites[c] = None /\ invites' = [invites EXCEPT ![c] = Invite(i, None)] /\ UNCHANGED school
        BY <3>3, Zenon DEF CreateInvite
      <4>2. PICK row : row = Invite(i, None)
        OBVIOUS
      <4>3. invites' = [invites EXCEPT ![c] = row] /\ row.redeemedBy = None /\ profile' = profile
        BY <4>1, <4>2 DEF Invite, school
      <4>4. \A d \in Codes : RedeemerOf(d)' = RedeemerOf(d)
        BY <1>0, <4>1, <4>3 DEF RedeemerOf
      <4> QED
        BY <1>0, <4>1, <4>3, <4>4 DEF InvitesStay, InstituteOf
    <3>4. CASE ~InsertProfile(h) /\ ~SaveProfile(h) /\ ~CreateInvite(h)
      <4>1. UNCHANGED <<profile, invites>>
        BY <1>3, <2>1, <3>4 DEF AffiliationStep, CreateProfile, UpdateProfile, SubmitVerification, Review, SaveRequest,
           Archive, MarkPaid, SavePayout, affiliation, school
      <4> QED
        BY <4>1, <1>s
    <3> QED
      BY <3>1, <3>2, <3>3, <3>4
  <2> QED
    BY <2>1, <2>2, <2>3, <2>4
<1>4. ASSUME NEW h \in Requests, AffiliationMove(h), Redeem(h) \/ Affiliate(h) \/ Redeemed(h)
      PROVE  plan' = plan /\ archived \subseteq archived'
  BY <1>4 DEF AffiliationMove, Runs, Redeem, Affiliate, Redeemed, affiliation
<1> QED
  BY <1>1, <1>2, <1>3, <1>4, Moves

\* What a request remembers of a code while no institute is archived.
CodeMemory(m) ==
  m.at \in InviteAts =>
    m.institute \in Institutes /\ invites[m.code] # None /\ invites[m.code].institute = m.institute

\* The requests about to affiliate a teacher with a code that has been used meanwhile, and
\* those that have affiliated one and are about to record that the code is used.
Late(i) == {h \in Requests : req[h].at = "affiliate" /\ req[h].institute = i /\ RedeemerOf(req[h].code) # None}
Owing(i) == {h \in Requests : req[h].at = "redeemed" /\ req[h].institute = i /\ RedeemerOf(req[h].code) = None}

JoinBound(i) ==
  /\ IsFiniteSet(Comers(i)) /\ IsFiniteSet(Used(i))
  /\ Cardinality(Comers(i)) + Cardinality(Late(i)) <= Racing * Cardinality(Used(i)) + deaths + Cardinality(Owing(i))
JoinInv ==
  archived = {} => /\ \A h \in Requests : CodeMemory(req[h])
                   /\ \A i \in Institutes : JoinBound(i)

LEMMA NoneIsNoInvite == None \notin InviteRows
BY InvitesAssumption DEF InviteRows

\* A request that is not about invites leaves those that are.
LEMMA AsideKeeps ==
  ASSUME RequestsTyped, Aside, NEW k \in Requests, req[k].at \in InviteAts \/ req'[k].at \in InviteAts
  PROVE  req'[k] = req[k]
BY DEF Aside, RequestsTyped

\* The requests that are late or owing are no more than may overlap.
LEMMA InviteCounts ==
  ASSUME Alone, NEW i
  PROVE  /\ IsFiniteSet(Late(i)) /\ Cardinality(Late(i)) \in Nat
         /\ IsFiniteSet(Owing(i)) /\ Cardinality(Owing(i)) \in Nat
         /\ Racing \in Nat /\ Racing >= 1
<1>1. Late(i) \subseteq Requests /\ (Serial => \A h, k \in Late(i) : h = k)
  BY DEF Late, Alone
<1>2. Owing(i) \subseteq Requests /\ (Serial => \A h, k \in Owing(i) : h = k)
  BY DEF Owing, Alone
<1> QED
  BY <1>1, <1>2, RacingBounds

\* What affiliate does ...
LEMMA AffiliateMoves ==
  ASSUME TypeOK, NEW h \in Requests, Affiliate(h), CodeMemory(req[h])
  PROVE  \E t \in Teachers, i \in Institutes, c \in Codes :
           /\ t = req[h].teacher /\ i = req[h].institute /\ c = req[h].code /\ req[h].at = "affiliate"
           /\ InstituteOf(t)' = i /\ \A x \in Teachers \ {t} : InstituteOf(x)' = InstituteOf(x)
           /\ invites' = invites /\ deaths' = deaths
           /\ req'[h].at = "redeemed" /\ req'[h].institute = i /\ req'[h].code = c /\ req'[h].teacher = t
           /\ \A k \in Requests \ {h} : req'[k] = req[k]
<1>0. profile \in [Teachers -> ProfileRows \cup {None}] /\ DOMAIN req = Requests /\ AffiliationMemory(req[h])
  BY DEF TypeOK, AffiliationTyped, RequestsTyped, Memory
<1>1. PICK t, i, c : t = req[h].teacher /\ i = req[h].institute /\ c = req[h].code
  OBVIOUS
<1>2. req[h].at = "affiliate"
  BY DEF Affiliate
<1>3. t \in Teachers /\ profile[t] \in ProfileRows /\ i \in Institutes /\ c \in Codes
  BY <1>0, <1>1, <1>2 DEF AffiliationMemory, CodeMemory, InviteAts
<1>4. /\ profile' = [profile EXCEPT ![t].institute = i] /\ invites' = invites /\ deaths' = deaths
      /\ req' = [req EXCEPT ![h] = [req[h] EXCEPT !.at = "redeemed"]]
  BY <1>1 DEF Affiliate, affiliation, Goes
<1>5. PICK row : row = [profile[t] EXCEPT !.institute = i]
  OBVIOUS
<1>6. row \in ProfileRows /\ row.institute = i
  BY <1>3, <1>5 DEF ProfileRows
<1>7. profile' = [profile EXCEPT ![t] = row]
  BY <1>0, <1>3, <1>4, <1>5
<1>8. InstituteOf(t)' = i /\ \A x \in Teachers \ {t} : InstituteOf(x)' = InstituteOf(x)
  BY <1>0, <1>3, <1>6, <1>7, NoneIsNoProfile DEF InstituteOf
<1>9. req'[h] = [req[h] EXCEPT !.at = "redeemed"] /\ \A k \in Requests \ {h} : req'[k] = req[k]
  BY <1>0, <1>4
<1>10. req'[h].at = "redeemed" /\ req'[h].institute = i /\ req'[h].code = c /\ req'[h].teacher = t
  BY <1>0, <1>1, <1>2, <1>9 DEF AffiliationMemory
<1> QED
  BY <1>1, <1>2, <1>3, <1>4, <1>8, <1>9, <1>10

\* ... and what saving the invite does.
LEMMA RedeemedMoves ==
  ASSUME TypeOK, NEW h \in Requests, Redeemed(h), CodeMemory(req[h])
  PROVE  \E t \in Teachers, i \in Institutes, c \in Codes :
           /\ t = req[h].teacher /\ i = req[h].institute /\ c = req[h].code /\ req[h].at = "redeemed"
           /\ invites[c] # None /\ invites[c].institute = i
           /\ invites'[c] # None /\ invites'[c].institute = i
           /\ \A d \in Codes \ {c} : invites'[d] = invites[d]
           /\ RedeemerOf(c)' = t /\ \A d \in Codes \ {c} : RedeemerOf(d)' = RedeemerOf(d)
           /\ profile' = profile /\ deaths' = deaths
           /\ req'[h].at = "idle" /\ \A k \in Requests \ {h} : req'[k] = req[k]
<1>0. /\ invites \in [Codes -> InviteRows \cup {None}] /\ invites' \in [Codes -> InviteRows \cup {None}]
      /\ DOMAIN req = Requests /\ AffiliationMemory(req[h]) /\ None \notin Institutes
  <2>1. AffiliationTyped'
    BY AffiliationTypes DEF AffiliationStep
  <2> QED
    BY <2>1, SchoolAssumption DEF TypeOK, AffiliationTyped, RequestsTyped, Memory
<1>1. PICK t, i, c : t = req[h].teacher /\ i = req[h].institute /\ c = req[h].code
  OBVIOUS
<1>2. req[h].at = "redeemed"
  BY DEF Redeemed
<1>3. t \in Teachers /\ i \in Institutes /\ c \in Codes /\ invites[c] # None /\ invites[c].institute = i
  BY <1>0, <1>1, <1>2 DEF AffiliationMemory, CodeMemory, InviteAts
<1>4. PICK row : row = Invite(i, t)
  OBVIOUS
<1>5. /\ invites' = [invites EXCEPT ![c] = row] /\ req' = [req EXCEPT ![h] = Idle]
      /\ profile' = profile /\ deaths' = deaths
  BY <1>0, <1>1, <1>3, <1>4 DEF Redeemed, Reply, Goes, school
<1>6. row.institute = i /\ row.redeemedBy = t /\ row \in InviteRows
  BY <1>3, <1>4 DEF Invite, InviteRows
<1>7. row # None
  BY <1>6, NoneIsNoInvite
<1>8. RedeemerOf(c)' = t /\ invites'[c] = row /\ \A d \in Codes \ {c} : invites'[d] = invites[d] /\ RedeemerOf(d)' = RedeemerOf(d)
  BY <1>0, <1>3, <1>5, <1>6, <1>7 DEF RedeemerOf
<1>9. req'[h].at = "idle" /\ \A k \in Requests \ {h} : req'[k] = req[k]
  BY <1>0, <1>5, IdleMemory
<1> QED
  BY <1>1, <1>2, <1>3, <1>5, <1>6, <1>7, <1>8, <1>9

\* No step forgets what a code leads to.
LEMMA CodesStep ==
  ASSUME TypeOK, [Next]_vars, archived' = {}, archived = {}, \A h \in Requests : CodeMemory(req[h])
  PROVE  \A h \in Requests : CodeMemory(req[h])'
<1>0. RequestsTyped /\ invites \in [Codes -> InviteRows \cup {None}]
  BY DEF TypeOK, AffiliationTyped
<1>t. ASSUME NEW k \in Requests, req[k].at \in InviteAts PROVE req[k].code \in Codes
  BY <1>0, <1>t DEF RequestsTyped, Memory, AffiliationMemory, InviteAts
<1>s. ASSUME NEW k \in Requests, req'[k] = req[k], \A c \in Codes : invites[c] # None => invites'[c] = invites[c]
      PROVE  CodeMemory(req[k])'
  BY <1>s, <1>t DEF CodeMemory
<1>1. CASE Aside /\ InvitesStay
  <2>1. ASSUME NEW k \in Requests PROVE CodeMemory(req[k])'
    <3>1. CASE req'[k].at \in InviteAts
      BY <1>0, <1>1, <1>s, <3>1, AsideKeeps DEF InvitesStay
    <3>2. CASE req'[k].at \notin InviteAts
      BY <3>2 DEF CodeMemory
    <3> QED
      BY <3>1, <3>2
  <2> QED
    BY <2>1
<1>2. ASSUME NEW h \in Requests, Die(h), UNCHANGED <<profile, invites>> PROVE \A k \in Requests : CodeMemory(req[k])'
  <2>1. req' = [req EXCEPT ![h] = Idle]
    BY <1>2 DEF Die
  <2>2. \A k \in Requests : req'[k] = req[k] \/ req'[k].at = "idle"
    BY <1>0, <2>1, IdleMemory DEF RequestsTyped
  <2> QED
    BY <1>2, <2>2 DEF CodeMemory, InviteAts
<1>3. ASSUME NEW h \in Requests, Redeem(h) PROVE \A k \in Requests : CodeMemory(req[k])'
  <2>1. PICK c, t : /\ Redeemable(c) /\ UNCHANGED <<school, affiliation>> /\ c \in Codes
                    /\ Start(h, [at |-> "affiliate", code |-> c, teacher |-> t, institute |-> Loaded(invites[c].institute)])
    BY <1>3, Zenon DEF Redeem
  <2>2. PICK i : i = invites[c].institute
    OBVIOUS
  <2> DEFINE m == [at |-> "affiliate", code |-> c, teacher |-> t, institute |-> i]
  <2>3. invites[c] # None /\ i \in Institutes /\ Loaded(i) = i
    BY <1>0, <2>1, <2>2 DEF Redeemable, InviteRows, Loaded
  <2>4. m.at = "affiliate" /\ m.code = c /\ m.institute = i /\ req' = [req EXCEPT ![h] = m] /\ invites' = invites
    BY <2>1, <2>2, <2>3 DEF Start, affiliation
  <2> HIDE DEF m
  <2>5. req'[h] = m /\ \A k \in Requests \ {h} : req'[k] = req[k]
    BY <1>0, <2>4 DEF RequestsTyped
  <2>6. ASSUME NEW k \in Requests PROVE CodeMemory(req[k])'
    <3>1. CASE k = h
      BY <2>2, <2>3, <2>4, <2>5, <3>1 DEF CodeMemory
    <3>2. CASE k # h
      BY <1>s, <2>4, <2>5, <3>2
    <3> QED
      BY <3>1, <3>2
  <2> QED
    BY <2>6
<1>4. ASSUME NEW h \in Requests, Affiliate(h) PROVE \A k \in Requests : CodeMemory(req[k])'
  <2>0. CodeMemory(req[h])
    OBVIOUS
  <2>1. PICK t \in Teachers, i \in Institutes, c \in Codes :
           /\ t = req[h].teacher /\ i = req[h].institute /\ c = req[h].code /\ req[h].at = "affiliate"
           /\ InstituteOf(t)' = i /\ \A x \in Teachers \ {t} : InstituteOf(x)' = InstituteOf(x)
           /\ invites' = invites /\ deaths' = deaths
           /\ req'[h].at = "redeemed" /\ req'[h].institute = i /\ req'[h].code = c /\ req'[h].teacher = t
           /\ \A k \in Requests \ {h} : req'[k] = req[k]
    BY <1>4, <2>0, AffiliateMoves
  <2>2. ASSUME NEW k \in Requests PROVE CodeMemory(req[k])'
    <3>1. CASE k = h
      BY <2>0, <2>1, <3>1 DEF CodeMemory, InviteAts
    <3>2. CASE k # h
      BY <1>s, <2>1, <3>2
    <3> QED
      BY <3>1, <3>2
  <2> QED
    BY <2>2
<1>5. ASSUME NEW h \in Requests, Redeemed(h) PROVE \A k \in Requests : CodeMemory(req[k])'
  <2>0. CodeMemory(req[h])
    OBVIOUS
  <2>1. PICK t \in Teachers, i \in Institutes, c \in Codes :
           /\ t = req[h].teacher /\ i = req[h].institute /\ c = req[h].code /\ req[h].at = "redeemed"
           /\ invites[c] # None /\ invites[c].institute = i
           /\ invites'[c] # None /\ invites'[c].institute = i
           /\ \A d \in Codes \ {c} : invites'[d] = invites[d]
           /\ RedeemerOf(c)' = t /\ \A d \in Codes \ {c} : RedeemerOf(d)' = RedeemerOf(d)
           /\ profile' = profile /\ deaths' = deaths
           /\ req'[h].at = "idle" /\ \A k \in Requests \ {h} : req'[k] = req[k]
    BY <1>5, <2>0, RedeemedMoves
  <2>2. ASSUME NEW k \in Requests PROVE CodeMemory(req[k])'
    <3>1. CASE k = h
      BY <2>1, <3>1 DEF CodeMemory, InviteAts
    <3>2. CASE k # h /\ req[k].at \in InviteAts
      <4>1. PICK d : d = req[k].code
        OBVIOUS
      <4>2. d \in Codes /\ invites[d] # None /\ invites[d].institute = req[k].institute /\ req[k].institute \in Institutes
        BY <1>t, <3>2, <4>1 DEF CodeMemory
      <4>3. invites'[d] # None /\ invites'[d].institute = req[k].institute
        BY <2>1, <4>2
      <4> QED
        BY <2>1, <3>2, <4>1, <4>2, <4>3 DEF CodeMemory
    <3>3. CASE k # h /\ req[k].at \notin InviteAts
      BY <2>1, <3>3 DEF CodeMemory
    <3> QED
      BY <3>1, <3>2, <3>3
  <2> QED
    BY <2>2
<1> QED
  BY <1>1, <1>2, <1>3, <1>4, <1>5, InviteMoves

\* Two finite sets together have no more elements than each on its own.
LEMMA UnionBound ==
  ASSUME NEW S, NEW T, IsFiniteSet(S), IsFiniteSet(T)
  PROVE  /\ IsFiniteSet(S \cup T) /\ Cardinality(S \cup T) \in Nat
         /\ Cardinality(S \cup T) <= Cardinality(S) + Cardinality(T)
<1>1. /\ IsFiniteSet(S \cup T) /\ IsFiniteSet(S \cap T)
      /\ Cardinality(S \cup T) = Cardinality(S) + Cardinality(T) - Cardinality(S \cap T)
  BY FS_Union, FS_Subset
<1>2. /\ Cardinality(S) \in Nat /\ Cardinality(T) \in Nat /\ Cardinality(S \cap T) \in Nat
      /\ Cardinality(S \cup T) \in Nat
  BY <1>1, FS_CardinalityType
<1> QED
  BY <1>1, <1>2

\* The bound survives when the teachers who join and the requests that are late are paid for by
\* requests that owe, by codes that are used or by deaths.
LEMMA BoundKept ==
  ASSUME NEW r \in Nat,
         NEW j \in Nat, NEW l \in Nat, NEW u \in Nat, NEW d \in Nat, NEW o \in Nat,
         NEW j2 \in Nat, NEW l2 \in Nat, NEW u2 \in Nat, NEW d2 \in Nat, NEW o2 \in Nat,
         j + l <= r * u + d + o,
         \/ u2 = u /\ j2 + l2 + d + o <= j + l + d2 + o2
         \/ u2 = u + 1 /\ j2 + l2 + d + o <= j + l + d2 + o2 + r
  PROVE  j2 + l2 <= r * u2 + d2 + o2
<1>1. r * (u + 1) = r * u + r /\ r * u \in Nat
  OBVIOUS
<1>2. PICK p, q : p = r * u /\ q = r * u2
  OBVIOUS
<1>3. p \in Nat /\ (u2 = u => q = p) /\ (u2 = u + 1 => q = p + r)
  BY <1>1, <1>2
<1>4. j + l <= p + d + o
  BY <1>2
<1>5. j2 + l2 <= q + d2 + o2
  <2> HIDE <1>2
  <2> QED
    BY <1>3, <1>4
<1> QED
  BY <1>2, <1>5

\* A step of h that takes no code leaves the codes of an institute, ...
LEMMA UsedStays ==
  ASSUME InvitesStay \/ UNCHANGED <<profile, invites>>, NEW i
  PROVE  /\ Used(i)' = Used(i) /\ Comers(i)' = Comers(i)
         /\ \A c \in Codes : RedeemerOf(c)' = RedeemerOf(c)
<1>1. /\ \A t \in Teachers : InstituteOf(t)' = InstituteOf(t)
      /\ \A c \in Codes : RedeemerOf(c)' = RedeemerOf(c)
      /\ \A c \in Codes : invites[c] # None => invites'[c] = invites[c]
  BY DEF InvitesStay, InstituteOf, RedeemerOf
<1>2. Comers(i)' = Comers(i)
  BY <1>1 DEF Comers, CameLater
<1>3. ASSUME NEW c \in Codes PROVE c \in Used(i)' <=> c \in Used(i)
  BY <1>1 DEF Used, RedeemerOf
<1>4. Used(i)' = Used(i)
  BY <1>3 DEF Used
<1> QED
  BY <1>1, <1>2, <1>4

\* ... and a request that does not move is late or owing as before.
LEMMA StillLate ==
  ASSUME NEW i, NEW k \in Requests, req'[k] = req[k],
         req[k].at \in InviteAts => RedeemerOf(req[k].code)' = RedeemerOf(req[k].code)
  PROVE  (k \in Late(i)' <=> k \in Late(i)) /\ (k \in Owing(i)' <=> k \in Owing(i))
BY DEF Late, Owing, InviteAts

\* The bound, step by step.
LEMMA BoundStep ==
  ASSUME TypeOK, Alone, Alone', deaths \in Nat, [Next]_vars, archived = {}, \A h \in Requests : CodeMemory(req[h]),
         NEW i \in Institutes, JoinBound(i)
  PROVE  JoinBound(i)'
<1>0. /\ RequestsTyped /\ IsFiniteSet(Comers(i)) /\ IsFiniteSet(Used(i))
      /\ Cardinality(Comers(i)) \in Nat /\ Cardinality(Used(i)) \in Nat
      /\ Cardinality(Comers(i)) + Cardinality(Late(i)) <= Racing * Cardinality(Used(i)) + deaths + Cardinality(Owing(i))
  BY FS_CardinalityType DEF JoinBound, TypeOK
<1>1. plan' = plan /\ Serial' = Serial /\ Racing' = Racing
  BY InviteMoves DEF Serial, Racing
<1>n. /\ IsFiniteSet(Late(i)) /\ Cardinality(Late(i)) \in Nat
      /\ IsFiniteSet(Owing(i)) /\ Cardinality(Owing(i)) \in Nat
      /\ IsFiniteSet(Late(i)') /\ Cardinality(Late(i)') \in Nat
      /\ IsFiniteSet(Owing(i)') /\ Cardinality(Owing(i)') \in Nat
      /\ Racing \in Nat
  <2>1. Late(i)' \subseteq Requests /\ (Serial => \A h, k \in Late(i)' : h = k)
    BY <1>1 DEF Late, Alone
  <2>2. Owing(i)' \subseteq Requests /\ (Serial => \A h, k \in Owing(i)' : h = k)
    BY <1>1 DEF Owing, Alone
  <2> QED
    BY <2>1, <2>2, InviteCounts, RacingBounds
<1>t. ASSUME NEW k \in Requests, req[k].at \in InviteAts PROVE req[k].code \in Codes
  BY <1>0, <1>t DEF RequestsTyped, Memory, AffiliationMemory, InviteAts
<1>k. ASSUME deaths' \in Nat, IsFiniteSet(Comers(i)'), IsFiniteSet(Used(i)'),
             LET moved == Cardinality(Comers(i)') + Cardinality(Late(i)') + deaths + Cardinality(Owing(i))
                 paid == Cardinality(Comers(i)) + Cardinality(Late(i)) + deaths' + Cardinality(Owing(i)')
             IN \/ Cardinality(Used(i)') = Cardinality(Used(i)) /\ moved <= paid
                \/ Cardinality(Used(i)') = Cardinality(Used(i)) + 1 /\ moved <= paid + Racing
      PROVE  JoinBound(i)'
  <2>1. Cardinality(Comers(i)') \in Nat /\ Cardinality(Used(i)') \in Nat
    BY <1>k, FS_CardinalityType
  <2>2. Cardinality(Comers(i)') + Cardinality(Late(i)') <= Racing * Cardinality(Used(i)') + deaths' + Cardinality(Owing(i)')
    BY <1>0, <1>k, <1>n, <2>1, BoundKept
  <2> QED
    BY <1>1, <1>k, <2>2 DEF JoinBound
<1>2. CASE Aside /\ InvitesStay /\ deaths' = deaths
  <2>1. ASSUME NEW k \in Requests PROVE (k \in Late(i)' <=> k \in Late(i)) /\ (k \in Owing(i)' <=> k \in Owing(i))
    <3>1. CASE req[k].at \in InviteAts \/ req'[k].at \in InviteAts
      BY <1>0, <1>2, <1>t, <3>1, AsideKeeps, StillLate, UsedStays
    <3>2. CASE req[k].at \notin InviteAts /\ req'[k].at \notin InviteAts
      BY <3>2 DEF Late, Owing, InviteAts
    <3> QED
      BY <3>1, <3>2
  <2>2. Late(i)' = Late(i) /\ Owing(i)' = Owing(i)
    BY <2>1 DEF Late, Owing
  <2>3. Used(i)' = Used(i) /\ Comers(i)' = Comers(i)
    BY <1>2, UsedStays
  <2> QED
    BY <1>0, <1>2, <1>k, <1>n, <2>2, <2>3
<1>3. ASSUME NEW h \in Requests, Die(h), UNCHANGED <<profile, invites>> PROVE JoinBound(i)'
  <2>1. deaths' = deaths + 1 /\ req' = [req EXCEPT ![h] = Idle]
    BY <1>3 DEF Die
  <2>2. req'[h].at = "idle" /\ \A k \in Requests \ {h} : req'[k] = req[k]
    BY <1>0, <2>1, IdleMemory DEF RequestsTyped
  <2>3. Used(i)' = Used(i) /\ Comers(i)' = Comers(i) /\ \A c \in Codes : RedeemerOf(c)' = RedeemerOf(c)
    BY <1>3, UsedStays
  <2>4. Late(i)' \subseteq Late(i) /\ Owing(i) \ {h} \subseteq Owing(i)'
    <3>1. \A k \in Requests \ {h} : (k \in Late(i)' <=> k \in Late(i)) /\ (k \in Owing(i)' <=> k \in Owing(i))
      BY <1>t, <2>2, <2>3, StillLate
    <3> QED
      BY <2>2, <3>1 DEF Late, Owing
  <2>5. Cardinality(Late(i)') <= Cardinality(Late(i)) /\ Cardinality(Owing(i) \ {h}) <= Cardinality(Owing(i)')
    BY <1>n, <2>4, FS_Subset
  <2>6. Cardinality(Owing(i) \ {h}) \in Nat /\ Cardinality(Owing(i)) <= Cardinality(Owing(i) \ {h}) + 1
    <3>1. /\ IsFiniteSet(Owing(i) \ {h})
          /\ Cardinality(Owing(i) \ {h}) = IF h \in Owing(i) THEN Cardinality(Owing(i)) - 1 ELSE Cardinality(Owing(i))
      BY <1>n, FS_RemoveElement
    <3>2. Cardinality(Owing(i) \ {h}) \in Nat
      BY <3>1, FS_CardinalityType
    <3> QED
      BY <1>n, <3>1, <3>2
  <2> QED
    BY <1>0, <1>k, <1>n, <2>1, <2>3, <2>5, <2>6
<1>4. ASSUME NEW h \in Requests, Redeem(h) PROVE JoinBound(i)'
  <2>1. PICK c, m : /\ Redeemable(c) /\ c \in Codes /\ req' = [req EXCEPT ![h] = m] /\ m.at = "affiliate" /\ m.code = c
                    /\ UNCHANGED <<profile, invites, deaths>>
    <3>1. PICK c, t, x : /\ Redeemable(c) /\ UNCHANGED <<school, affiliation>> /\ c \in Codes
                         /\ Start(h, [at |-> "affiliate", code |-> c, teacher |-> t, institute |-> x])
      BY <1>4, Zenon DEF Redeem
    <3>2. PICK m : m = [at |-> "affiliate", code |-> c, teacher |-> t, institute |-> x]
      OBVIOUS
    <3>3. m.at = "affiliate" /\ m.code = c
      BY <3>2
    <3>4. req' = [req EXCEPT ![h] = m] /\ UNCHANGED <<profile, invites, deaths>>
      BY <3>1, <3>2 DEF Start, affiliation, school
    <3> QED
      BY <3>1, <3>3, <3>4
  <2>2. req'[h].at = "affiliate" /\ req'[h].code = c /\ \A k \in Requests \ {h} : req'[k] = req[k]
    BY <1>0, <2>1 DEF RequestsTyped
  <2>3. req[h].at = "idle"
    BY <1>4, StartsIdle, Zenon DEF Redeem
  <2>4. /\ Used(i)' = Used(i) /\ Comers(i)' = Comers(i) /\ \A d \in Codes : RedeemerOf(d)' = RedeemerOf(d)
        /\ RedeemerOf(c) = None
    BY <2>1, UsedStays DEF Redeemable, RedeemerOf
  <2>5. h \notin Late(i)' /\ h \notin Late(i) /\ h \notin Owing(i)' /\ h \notin Owing(i)
    BY <2>1, <2>2, <2>3, <2>4 DEF Late, Owing
  <2>6. \A k \in Requests \ {h} : (k \in Late(i)' <=> k \in Late(i)) /\ (k \in Owing(i)' <=> k \in Owing(i))
    BY <1>t, <2>2, <2>4, StillLate
  <2>7. Late(i)' = Late(i) /\ Owing(i)' = Owing(i)
    BY <2>5, <2>6 DEF Late, Owing
  <2> QED
    BY <1>0, <1>k, <1>n, <2>1, <2>4, <2>7
<1>5. ASSUME NEW h \in Requests, Affiliate(h) PROVE JoinBound(i)'
  <2>0. CodeMemory(req[h])
    OBVIOUS
  <2>1. PICK t \in Teachers, x \in Institutes, c \in Codes :
           /\ t = req[h].teacher /\ x = req[h].institute /\ c = req[h].code /\ req[h].at = "affiliate"
           /\ InstituteOf(t)' = x /\ \A y \in Teachers \ {t} : InstituteOf(y)' = InstituteOf(y)
           /\ invites' = invites /\ deaths' = deaths
           /\ req'[h].at = "redeemed" /\ req'[h].institute = x /\ req'[h].code = c /\ req'[h].teacher = t
           /\ \A k \in Requests \ {h} : req'[k] = req[k]
    BY <1>5, <2>0, AffiliateMoves
  <2>2. Used(i)' = Used(i) /\ \A d \in Codes : RedeemerOf(d)' = RedeemerOf(d)
    BY <2>1 DEF Used, RedeemerOf
  <2>3. \A k \in Requests \ {h} : (k \in Late(i)' <=> k \in Late(i)) /\ (k \in Owing(i)' <=> k \in Owing(i))
    BY <1>t, <2>1, <2>2, StillLate
  <2>4. Comers(i)' \subseteq Comers(i) \cup {t} /\ (x # i => Comers(i)' \subseteq Comers(i))
    BY <2>1 DEF Comers, CameLater
  <2>5. /\ IsFiniteSet(Comers(i) \cup {t}) /\ Cardinality(Comers(i) \cup {t}) <= Cardinality(Comers(i)) + 1
        /\ Cardinality(Comers(i) \cup {t}) \in Nat
    <3>1. /\ IsFiniteSet(Comers(i) \cup {t})
          /\ Cardinality(Comers(i) \cup {t}) = IF t \in Comers(i) THEN Cardinality(Comers(i)) ELSE Cardinality(Comers(i)) + 1
      BY <1>0, FS_AddElement
    <3> QED
      BY <1>0, <3>1
  <2>6. IsFiniteSet(Comers(i)') /\ Cardinality(Comers(i)') \in Nat /\ Cardinality(Comers(i)') <= Cardinality(Comers(i)) + 1
    <3>1. IsFiniteSet(Comers(i)') /\ Cardinality(Comers(i)') <= Cardinality(Comers(i) \cup {t})
      BY <2>4, <2>5, FS_Subset
    <3> QED
      BY <1>0, <2>5, <3>1, FS_CardinalityType
  <2>7. CASE x # i
    <3>1. Late(i)' = Late(i) /\ Owing(i)' = Owing(i)
      BY <2>1, <2>3, <2>7 DEF Late, Owing
    <3>2. Cardinality(Comers(i)') <= Cardinality(Comers(i))
      BY <1>0, <2>4, <2>7, FS_Subset
    <3> QED
      BY <1>0, <1>k, <1>n, <2>1, <2>2, <2>6, <3>1, <3>2
  <2>8. CASE x = i /\ RedeemerOf(c) # None
    <3>1. Late(i)' = Late(i) \ {h} /\ h \in Late(i) /\ Owing(i)' = Owing(i)
      BY <2>1, <2>2, <2>3, <2>8 DEF Late, Owing
    <3>2. Cardinality(Late(i)') = Cardinality(Late(i)) - 1
      BY <1>n, <3>1, FS_RemoveElement
    <3> QED
      BY <1>0, <1>k, <1>n, <2>1, <2>2, <2>6, <3>1, <3>2
  <2>9. CASE x = i /\ RedeemerOf(c) = None
    <3>1. Late(i)' = Late(i) /\ h \notin Owing(i) /\ Owing(i)' = Owing(i) \cup {h}
      BY <2>1, <2>2, <2>3, <2>9 DEF Late, Owing
    <3>2. Cardinality(Owing(i)') = Cardinality(Owing(i)) + 1
      BY <1>n, <3>1, FS_AddElement
    <3> QED
      BY <1>0, <1>k, <1>n, <2>1, <2>2, <2>6, <3>1, <3>2
  <2> QED
    BY <2>7, <2>8, <2>9
<1>6. ASSUME NEW h \in Requests, Redeemed(h) PROVE JoinBound(i)'
  <2>0. CodeMemory(req[h])
    OBVIOUS
  <2>1. PICK t \in Teachers, x \in Institutes, c \in Codes :
           /\ t = req[h].teacher /\ x = req[h].institute /\ c = req[h].code /\ req[h].at = "redeemed"
           /\ invites[c] # None /\ invites[c].institute = x
           /\ invites'[c] # None /\ invites'[c].institute = x
           /\ \A d \in Codes \ {c} : invites'[d] = invites[d]
           /\ RedeemerOf(c)' = t /\ \A d \in Codes \ {c} : RedeemerOf(d)' = RedeemerOf(d)
           /\ profile' = profile /\ deaths' = deaths
           /\ req'[h].at = "idle" /\ \A k \in Requests \ {h} : req'[k] = req[k]
    BY <1>6, <2>0, RedeemedMoves
  <2>2. Comers(i)' = Comers(i) /\ t # None
    BY <2>1, SchoolAssumption DEF Comers, InstituteOf, CameLater
  <2>3. \A d \in Codes \ {c} : d \in Used(i)' <=> d \in Used(i)
    BY <2>1 DEF Used
  <2>4. CASE x # i
    <3>1. Used(i)' = Used(i)
      BY <2>1, <2>3, <2>4 DEF Used
    <3>2. ASSUME NEW k \in Requests PROVE (k \in Late(i)' <=> k \in Late(i)) /\ (k \in Owing(i)' <=> k \in Owing(i))
      <4>1. CASE k = h
        BY <2>1, <2>4, <4>1 DEF Late, Owing
      <4>2. CASE k # h /\ req[k].at \in InviteAts /\ req[k].institute = i
        <5>1. req[k].code # c
          BY <2>1, <2>4, <4>2 DEF CodeMemory
        <5> QED
          BY <1>t, <2>1, <4>2, <5>1, StillLate
      <4>3. CASE k # h /\ ~(req[k].at \in InviteAts /\ req[k].institute = i)
        BY <2>1, <4>3 DEF Late, Owing, InviteAts
      <4> QED
        BY <4>1, <4>2, <4>3
    <3>3. Late(i)' = Late(i) /\ Owing(i)' = Owing(i)
      BY <3>2 DEF Late, Owing
    <3> QED
      BY <1>0, <1>k, <1>n, <2>1, <2>2, <3>1, <3>3
  <2>5. CASE x = i /\ RedeemerOf(c) # None
    <3>1. Used(i)' = Used(i)
      BY <2>1, <2>2, <2>3, <2>5 DEF Used
    <3>2. ASSUME NEW k \in Requests PROVE (k \in Late(i)' <=> k \in Late(i)) /\ (k \in Owing(i)' <=> k \in Owing(i))
      <4>1. CASE k = h
        BY <2>1, <2>5, <4>1 DEF Late, Owing
      <4>2. CASE k # h
        <5>1. PICK d : d = req[k].code
          OBVIOUS
        <5>2. req[k].at \in InviteAts => (RedeemerOf(d)' = None <=> RedeemerOf(d) = None)
          BY <1>t, <2>1, <2>2, <2>5, <5>1
        <5> QED
          BY <2>1, <4>2, <5>1, <5>2 DEF Late, Owing, InviteAts
      <4> QED
        BY <4>1, <4>2
    <3>3. Late(i)' = Late(i) /\ Owing(i)' = Owing(i)
      BY <3>2 DEF Late, Owing
    <3> QED
      BY <1>0, <1>k, <1>n, <2>1, <2>2, <3>1, <3>3
  <2>6. CASE x = i /\ RedeemerOf(c) = None
    <3> DEFINE X == {k \in Requests : req[k].at = "affiliate" /\ req[k].code = c}
               Y == {k \in Requests : req[k].at = "redeemed" /\ req[k].code = c}
    <3>1. Used(i)' = Used(i) \cup {c} /\ c \notin Used(i)
      BY <2>1, <2>2, <2>3, <2>6 DEF Used
    <3>2. IsFiniteSet(Used(i)') /\ Cardinality(Used(i)') = Cardinality(Used(i)) + 1
      BY <1>0, <3>1, FS_AddElement
    <3>3. /\ IsFiniteSet(X) /\ IsFiniteSet(Y) /\ Cardinality(X) \in Nat /\ Cardinality(Y) \in Nat
          /\ Cardinality(X) + Cardinality(Y) <= Racing
      <4>1. X \cup Y \subseteq Requests /\ (Serial => \A k, l \in X \cup Y : k = l)
        BY DEF Alone
      <4>2. IsFiniteSet(X \cup Y) /\ Cardinality(X \cup Y) <= Racing
        BY <4>1, RacingBounds
      <4>3. X \cap Y = {}
        OBVIOUS
      <4>4. IsFiniteSet(X) /\ IsFiniteSet(Y)
        BY <4>2, FS_Subset
      <4> HIDE DEF X, Y
      <4>5. Cardinality(X) \in Nat /\ Cardinality(Y) \in Nat
        BY <4>4, FS_CardinalityType
      <4>6. Cardinality(X \cup Y) = Cardinality(X) + Cardinality(Y)
        BY <4>3, <4>4, <4>5, FS_Union, FS_EmptySet
      <4> QED
        BY <4>2, <4>4, <4>5, <4>6
    <3>4. ASSUME NEW k \in Requests
          PROVE  (k \in Late(i)' => k \in Late(i) \cup X) /\ (k \in Owing(i) => k \in Owing(i)' \cup Y)
      <4>1. CASE k = h
        BY <2>1, <4>1 DEF Late
      <4>2. CASE k # h /\ req[k].at \in InviteAts /\ req[k].code # c
        BY <1>t, <2>1, <4>2, StillLate
      <4>3. CASE k # h /\ req[k].at \in InviteAts /\ req[k].code = c
        BY <2>1, <4>3 DEF Late, Owing, InviteAts
      <4>4. CASE k # h /\ req[k].at \notin InviteAts
        BY <2>1, <4>4 DEF Late, Owing, InviteAts
      <4> QED
        BY <4>1, <4>2, <4>3, <4>4
    <3> HIDE DEF X, Y
    <3>5. Cardinality(Late(i)') <= Cardinality(Late(i)) + Cardinality(X)
      <4>1. Late(i)' \subseteq Late(i) \cup X
        BY <3>4 DEF Late
      <4>2. IsFiniteSet(Late(i) \cup X) /\ Cardinality(Late(i) \cup X) <= Cardinality(Late(i)) + Cardinality(X)
            /\ Cardinality(Late(i) \cup X) \in Nat
        BY <1>n, <3>3, UnionBound
      <4>3. Cardinality(Late(i)') <= Cardinality(Late(i) \cup X)
        BY <4>1, <4>2, FS_Subset
      <4> QED
        BY <1>n, <3>3, <4>2, <4>3
    <3>6. Cardinality(Owing(i)) <= Cardinality(Owing(i)') + Cardinality(Y)
      <4>1. Owing(i) \subseteq Owing(i)' \cup Y
        BY <3>4 DEF Owing
      <4>2. IsFiniteSet(Owing(i)' \cup Y) /\ Cardinality(Owing(i)' \cup Y) <= Cardinality(Owing(i)') + Cardinality(Y)
            /\ Cardinality(Owing(i)' \cup Y) \in Nat
        BY <1>n, <3>3, UnionBound
      <4>3. Cardinality(Owing(i)) <= Cardinality(Owing(i)' \cup Y)
        BY <4>1, <4>2, FS_Subset
      <4> QED
        BY <1>n, <3>3, <4>2, <4>3
    <3> QED
      BY <1>0, <1>k, <1>n, <2>1, <2>2, <3>2, <3>3, <3>5, <3>6
  <2> QED
    BY <2>4, <2>5, <2>6
<1> QED
  BY <1>2, <1>3, <1>4, <1>5, <1>6, InviteMoves

\* One call after the other, nobody uses a second code: a teacher who redeems one has no
\* institute before and keeps the one it led to.
TeacherMemory(m) ==
  /\ m.at \in InviteAts => \A c \in Codes : RedeemerOf(c) # m.teacher
  /\ m.at = "affiliate" => InstituteOf(m.teacher) = None
  /\ m.at = "redeemed" => m.teacher \in Comers(m.institute)
CodesKept ==
  /\ \A c \in Codes : RedeemerOf(c) # None => RedeemerOf(c) \in Comers(invites[c].institute)
  /\ \A c, d \in Codes : RedeemerOf(c) # None /\ RedeemerOf(c) = RedeemerOf(d) => c = d
  /\ \A t \in Teachers : InstituteOf(t) = None => FirstProfile[t] = None \/ FirstProfile[t].institute = None
InviteInv == (Serial /\ archived = {}) => CodesKept /\ \A h \in Requests : TeacherMemory(req[h])

\* No step breaks it.
LEMMA InviteStep ==
  ASSUME TypeOK, Alone, [Next]_vars, Serial, archived = {}, \A h \in Requests : CodeMemory(req[h]),
         CodesKept, \A h \in Requests : TeacherMemory(req[h])
  PROVE  CodesKept' /\ \A h \in Requests : TeacherMemory(req[h])'
<1>0. /\ RequestsTyped /\ profile \in [Teachers -> ProfileRows \cup {None}] /\ invites \in [Codes -> InviteRows \cup {None}]
      /\ None \notin Institutes /\ None \notin Teachers
  BY SchoolAssumption DEF TypeOK, AffiliationTyped
<1>u. ASSUME NEW c \in Codes, RedeemerOf(c) # None
      PROVE  invites[c] # None /\ invites[c].institute \in Institutes /\ RedeemerOf(c) \in Teachers
  BY <1>0, <1>u DEF RedeemerOf, InviteRows
<1>s. ASSUME InvitesStay \/ UNCHANGED <<profile, invites>>
      PROVE  CodesKept' /\ \A m : TeacherMemory(m) /\ (m.at = "affiliate" => m.teacher \in Teachers) => TeacherMemory(m)'
  <2>1. /\ \A t \in Teachers : InstituteOf(t)' = InstituteOf(t)
        /\ \A c \in Codes : RedeemerOf(c)' = RedeemerOf(c)
        /\ \A c \in Codes : invites[c] # None => invites'[c] = invites[c]
    BY <1>s DEF InvitesStay, InstituteOf, RedeemerOf
  <2>2. \A i : Comers(i)' = Comers(i)
    BY <1>s, UsedStays
  <2>3. ASSUME NEW c \in Codes, RedeemerOf(c)' # None PROVE RedeemerOf(c)' \in Comers(invites[c].institute)'
    <3>1. PICK i : i = invites[c].institute
      OBVIOUS
    <3>2. invites'[c].institute = i /\ RedeemerOf(c)' \in Comers(i)
      BY <1>u, <2>1, <2>3, <3>1 DEF CodesKept
    <3> QED
      BY <2>2, <3>2
  <2>4. CodesKept'
    BY <2>1, <2>3 DEF CodesKept
  <2>5. ASSUME NEW m, TeacherMemory(m), m.at = "affiliate" => m.teacher \in Teachers PROVE TeacherMemory(m)'
    <3>1. m.at \in InviteAts => \A c \in Codes : RedeemerOf(c)' # m.teacher
      BY <2>1, <2>5 DEF TeacherMemory
    <3>2. m.at = "affiliate" => InstituteOf(m.teacher)' = None
      BY <2>1, <2>5 DEF TeacherMemory
    <3>3. m.at = "redeemed" => m.teacher \in Comers(m.institute)'
      BY <2>2, <2>5 DEF TeacherMemory
    <3> QED
      BY <3>1, <3>2, <3>3 DEF TeacherMemory
  <2> QED
    BY <2>4, <2>5
<1>t. ASSUME NEW k \in Requests, req[k].at = "affiliate" PROVE req[k].teacher \in Teachers
  BY <1>0, <1>t DEF RequestsTyped, Memory, AffiliationMemory
<1>m. ASSUME NEW k \in Requests, NEW m, m = req'[k], TeacherMemory(m)' PROVE TeacherMemory(req[k])'
  BY <1>m DEF TeacherMemory
<1>i. ASSUME NEW k \in Requests, req'[k].at \notin InviteAts PROVE TeacherMemory(req[k])'
  BY <1>i DEF TeacherMemory, InviteAts
<1>1. CASE Aside /\ InvitesStay
  <2>1. ASSUME NEW k \in Requests PROVE TeacherMemory(req[k])'
    <3>1. CASE req'[k].at \in InviteAts
      BY <1>0, <1>1, <1>s, <1>t, <1>m, <3>1, AsideKeeps
    <3>2. CASE req'[k].at \notin InviteAts
      BY <1>i, <3>2
    <3> QED
      BY <3>1, <3>2
  <2> QED
    BY <1>1, <1>s, <2>1
<1>2. ASSUME NEW h \in Requests, Die(h), UNCHANGED <<profile, invites>>
      PROVE  CodesKept' /\ \A k \in Requests : TeacherMemory(req[k])'
  <2>1. \A k \in Requests : req'[k] = req[k] \/ req'[k].at \notin InviteAts
    BY <1>0, <1>2, IdleMemory DEF Die, RequestsTyped, InviteAts
  <2> QED
    BY <1>2, <1>s, <1>t, <1>m, <1>i, <2>1
<1>3. ASSUME NEW h \in Requests, Redeem(h) PROVE CodesKept' /\ \A k \in Requests : TeacherMemory(req[k])'
  <2>1. PICK m : /\ req' = [req EXCEPT ![h] = m] /\ m.at = "affiliate" /\ m.teacher \in Teachers
                 /\ profile[m.teacher] # None /\ profile[m.teacher].institute = None
                 /\ UNCHANGED <<profile, invites>>
    <3>1. PICK q, c, t, x : /\ t \in ProfileOf(q) /\ Loaded(profile[t].institute) = None /\ UNCHANGED <<school, affiliation>>
                            /\ Start(h, [at |-> "affiliate", code |-> c, teacher |-> t, institute |-> x])
      BY <1>3, Zenon DEF Redeem
    <3>2. PICK m : m = [at |-> "affiliate", code |-> c, teacher |-> t, institute |-> x]
      OBVIOUS
    <3>3. m.at = "affiliate" /\ m.teacher = t
      BY <3>2
    <3>4. req' = [req EXCEPT ![h] = m] /\ UNCHANGED <<profile, invites>>
      BY <3>1, <3>2 DEF Start, affiliation, school
    <3>5. t \in Teachers /\ profile[t] # None /\ profile[t].institute = None
      BY <3>1 DEF ProfileOf, Loaded
    <3> QED
      BY <3>3, <3>4, <3>5
  <2>2. req'[h] = m /\ \A k \in Requests \ {h} : req'[k] = req[k]
    BY <1>0, <2>1 DEF RequestsTyped
  <2>3. InstituteOf(m.teacher) = None
    BY <2>1 DEF InstituteOf
  <2>4. ASSUME NEW c \in Codes, RedeemerOf(c) = m.teacher PROVE FALSE
    <3>1. PICK i : i = invites[c].institute
      OBVIOUS
    <3>2. RedeemerOf(c) # None
      BY <1>0, <2>1, <2>4
    <3>3. i \in Institutes /\ m.teacher \in Comers(i)
      BY <1>u, <2>4, <3>1, <3>2 DEF CodesKept
    <3> QED
      BY <1>0, <2>3, <3>3 DEF Comers
  <2>5. TeacherMemory(m)
    BY <2>1, <2>3, <2>4 DEF TeacherMemory
  <2> QED
    BY <1>s, <1>t, <1>m, <2>1, <2>2, <2>5
<1>4. ASSUME NEW h \in Requests, Affiliate(h) PROVE CodesKept' /\ \A k \in Requests : TeacherMemory(req[k])'
  <2>0. CodeMemory(req[h]) /\ TeacherMemory(req[h])
    OBVIOUS
  <2>1. PICK t \in Teachers, i \in Institutes, c \in Codes :
           /\ t = req[h].teacher /\ i = req[h].institute /\ c = req[h].code /\ req[h].at = "affiliate"
           /\ InstituteOf(t)' = i /\ \A x \in Teachers \ {t} : InstituteOf(x)' = InstituteOf(x)
           /\ invites' = invites /\ deaths' = deaths
           /\ req'[h].at = "redeemed" /\ req'[h].institute = i /\ req'[h].code = c /\ req'[h].teacher = t
           /\ \A k \in Requests \ {h} : req'[k] = req[k]
    BY <1>4, <2>0, AffiliateMoves
  <2>2. InstituteOf(t) = None /\ \A d \in Codes : RedeemerOf(d) # t
    BY <2>0, <2>1 DEF TeacherMemory, InviteAts
  <2>3. \A d \in Codes : RedeemerOf(d)' = RedeemerOf(d)
    BY <2>1 DEF RedeemerOf
  <2>4. ASSUME NEW j PROVE Comers(j) \ {t} \subseteq Comers(j)'
    BY <2>1 DEF Comers, CameLater
  <2>5. ASSUME NEW d \in Codes, RedeemerOf(d)' # None PROVE RedeemerOf(d)' \in Comers(invites[d].institute)'
    <3>1. PICK j : j = invites[d].institute
      OBVIOUS
    <3>2. RedeemerOf(d) \in Comers(j) /\ RedeemerOf(d) # t
      BY <2>2, <2>3, <2>5, <3>1 DEF CodesKept
    <3>3. invites'[d].institute = j
      BY <2>1, <3>1
    <3> QED
      BY <2>3, <2>4, <3>2, <3>3
  <2>6. FirstProfile[t] = None \/ FirstProfile[t].institute = None
    BY <2>2 DEF CodesKept
  <2>7. CodesKept'
    <3>1. ASSUME NEW x \in Teachers, InstituteOf(x)' = None PROVE FirstProfile[x] = None \/ FirstProfile[x].institute = None
      BY <1>0, <2>1, <3>1 DEF CodesKept
    <3> QED
      BY <2>3, <2>5, <3>1 DEF CodesKept
  <2>8. t \in Comers(i)'
    BY <1>0, <2>1, <2>6 DEF Comers, CameLater
  <2>9. ASSUME NEW k \in Requests PROVE TeacherMemory(req[k])'
    <3>1. CASE k = h
      <4>1. PICK m : m = req'[h]
        OBVIOUS
      <4>2. m.at = "redeemed" /\ m.teacher = t /\ m.institute = i
        BY <2>1, <4>1
      <4>3. TeacherMemory(m)'
        BY <2>2, <2>3, <2>8, <4>2 DEF TeacherMemory
      <4> QED
        BY <1>m, <3>1, <4>1, <4>3
    <3>2. CASE k # h
      <4>1. req[k].at = "idle"
        BY <2>1, <3>2 DEF Alone
      <4> QED
        BY <1>i, <2>1, <3>2, <4>1 DEF InviteAts
    <3> QED
      BY <3>1, <3>2
  <2> QED
    BY <2>7, <2>9
<1>5. ASSUME NEW h \in Requests, Redeemed(h) PROVE CodesKept' /\ \A k \in Requests : TeacherMemory(req[k])'
  <2>0. CodeMemory(req[h]) /\ TeacherMemory(req[h])
    OBVIOUS
  <2>1. PICK t \in Teachers, i \in Institutes, c \in Codes :
           /\ t = req[h].teacher /\ i = req[h].institute /\ c = req[h].code /\ req[h].at = "redeemed"
           /\ invites[c] # None /\ invites[c].institute = i
           /\ invites'[c] # None /\ invites'[c].institute = i
           /\ \A d \in Codes \ {c} : invites'[d] = invites[d]
           /\ RedeemerOf(c)' = t /\ \A d \in Codes \ {c} : RedeemerOf(d)' = RedeemerOf(d)
           /\ profile' = profile /\ deaths' = deaths
           /\ req'[h].at = "idle" /\ \A k \in Requests \ {h} : req'[k] = req[k]
    BY <1>5, <2>0, RedeemedMoves
  <2>2. t \in Comers(i) /\ \A d \in Codes : RedeemerOf(d) # t
    BY <2>0, <2>1 DEF TeacherMemory, InviteAts
  <2>3. (\A x : InstituteOf(x)' = InstituteOf(x)) /\ \A j : Comers(j)' = Comers(j)
    BY <2>1 DEF InstituteOf, Comers, CameLater
  <2>4. ASSUME NEW d \in Codes, RedeemerOf(d)' # None PROVE RedeemerOf(d)' \in Comers(invites[d].institute)'
    <3>1. PICK j : j = invites'[d].institute
      OBVIOUS
    <3>2. RedeemerOf(d)' \in Comers(j)
      <4>1. CASE d = c
        BY <2>1, <2>2, <3>1, <4>1
      <4>2. CASE d # c
        BY <2>1, <2>4, <3>1, <4>2 DEF CodesKept
      <4> QED
        BY <4>1, <4>2
    <3> QED
      BY <2>3, <3>1, <3>2
  <2>5. ASSUME NEW d \in Codes, NEW e \in Codes, RedeemerOf(d)' # None, RedeemerOf(d)' = RedeemerOf(e)' PROVE d = e
    BY <2>1, <2>2, <2>5 DEF CodesKept
  <2>6. CodesKept'
    BY <2>3, <2>4, <2>5 DEF CodesKept
  <2>7. ASSUME NEW k \in Requests PROVE TeacherMemory(req[k])'
    <3>1. req'[k].at = "idle"
      BY <2>1 DEF Alone
    <3> QED
      BY <1>i, <3>1 DEF InviteAts
  <2> QED
    BY <2>6, <2>7
<1> QED
  BY <1>1, <1>2, <1>3, <1>4, <1>5, InviteMoves

\* At first no code exists, and nobody has moved.
LEMMA InviteStart == TypeOK /\ Init => JoinInv /\ InviteInv
<1> SUFFICES ASSUME TypeOK, Init PROVE JoinInv /\ InviteInv
  OBVIOUS
<1>1. /\ profile = FirstProfile /\ invites = [c \in Codes |-> None] /\ deaths = 0
      /\ \A h \in Requests : req[h] = Idle
  BY DEF Init, SchoolInit, ServerInit, AffiliationInit
<1>2. \A h \in Requests : CodeMemory(req[h]) /\ TeacherMemory(req[h])
  BY <1>1, IdleMemory DEF CodeMemory, TeacherMemory, InviteAts
<1>3. \A c \in Codes : RedeemerOf(c) = None
  BY <1>1 DEF RedeemerOf
<1>4. CodesKept
  BY <1>1, <1>3 DEF CodesKept, InstituteOf
<1>5. ASSUME NEW i \in Institutes PROVE JoinBound(i)
  <2>1. Used(i) = {} /\ Comers(i) = {} /\ Late(i) = {} /\ Owing(i) = {}
    BY <1>1, <1>3, IdleMemory, SchoolAssumption DEF Used, Comers, InstituteOf, CameLater, Late, Owing
  <2>2. Racing \in Nat
    BY AloneStart, InviteCounts
  <2> QED
    BY <1>1, <2>1, <2>2, FS_EmptySet DEF JoinBound
<1> QED
  BY <1>2, <1>4, <1>5 DEF JoinInv, InviteInv

LEMMA InvitesStep ==
  TypeOK /\ Alone /\ Alone' /\ deaths \in Nat /\ JoinInv /\ InviteInv /\ [Next]_vars => JoinInv' /\ InviteInv'
<1> SUFFICES ASSUME TypeOK, Alone, Alone', deaths \in Nat, JoinInv, InviteInv, [Next]_vars PROVE JoinInv' /\ InviteInv'
  OBVIOUS
<1>1. archived \subseteq archived' /\ Serial' = Serial
  BY InviteMoves DEF Serial
<1>2. ASSUME archived' = {}
      PROVE  (\A h \in Requests : CodeMemory(req[h])') /\ \A i \in Institutes : JoinBound(i)'
  <2>1. archived = {} /\ \A h \in Requests : CodeMemory(req[h])
    BY <1>1, <1>2 DEF JoinInv
  <2>2. ASSUME NEW i \in Institutes PROVE JoinBound(i)'
    <3>1. JoinBound(i)
      BY <2>1 DEF JoinInv
    <3> QED
      BY <2>1, <3>1, BoundStep
  <2> QED
    BY <1>2, <2>1, <2>2, CodesStep
<1>3. ASSUME archived' = {}, Serial PROVE CodesKept' /\ \A h \in Requests : TeacherMemory(req[h])'
  <2>1. archived = {} /\ \A h \in Requests : CodeMemory(req[h])
    BY <1>1, <1>3 DEF JoinInv
  <2>2. CodesKept /\ \A h \in Requests : TeacherMemory(req[h])
    BY <1>3, <2>1 DEF InviteInv
  <2> QED
    BY <1>3, <2>1, <2>2, InviteStep
<1>4. JoinInv'
  BY <1>2 DEF JoinInv
<1>5. InviteInv'
  BY <1>1, <1>3 DEF InviteInv
<1> QED
  BY <1>4, <1>5

\* Nobody in progress: the teachers who joined are those the codes brought, and more only for
\* calls that overlapped or died.
LEMMA CodesCounted ==
  ASSUME TypeOK, Alone, deaths \in Nat, PaidInv, JoinInv, InviteInv
  PROVE  UsedOnce
<1>1. ASSUME NEW p \in Payouts PROVE payments[p] <= Racing
  <2>1. Paying(p) \subseteq Requests /\ (Serial => \A h, k \in Paying(p) : h = k)
    BY DEF Paying, Alone
  <2>2. Cardinality(Paying(p)) \in Nat /\ Racing \in Nat
    BY <2>1, RacingBounds
  <2>3. payments[p] \in Nat /\ payments[p] + Cardinality(Paying(p)) <= Racing
    BY DEF TypeOK, AffiliationTyped, PaidInv
  <2> QED
    BY <2>2, <2>3
<1>2. ASSUME Resting, archived = {}, NEW i \in Institutes
      PROVE  /\ Cardinality(Comers(i)) <= Racing * Cardinality(Used(i)) + deaths
             /\ Serial => Cardinality(Used(i)) <= Cardinality(Comers(i))
  <2>1. /\ IsFiniteSet(Comers(i)) /\ IsFiniteSet(Used(i))
        /\ Cardinality(Comers(i)) + Cardinality(Late(i)) <= Racing * Cardinality(Used(i)) + deaths + Cardinality(Owing(i))
    BY <1>2 DEF JoinInv, JoinBound
  <2>2. Late(i) = {} /\ Owing(i) = {}
    BY <1>2, IdleMemory DEF Resting, Late, Owing
  <2>3. Cardinality(Late(i)) = 0 /\ Cardinality(Owing(i)) = 0
    BY <2>2, FS_EmptySet
  <2>4. Cardinality(Comers(i)) \in Nat /\ Cardinality(Used(i)) \in Nat /\ Racing \in Nat
    BY <2>1, InviteCounts, FS_CardinalityType
  <2>5. Cardinality(Comers(i)) <= Racing * Cardinality(Used(i)) + deaths
    BY <2>1, <2>3, <2>4
  <2>6. ASSUME Serial PROVE Cardinality(Used(i)) <= Cardinality(Comers(i))
    <3> DEFINE f == [c \in Used(i) |-> RedeemerOf(c)]
    <3>1. ASSUME NEW c \in Used(i) PROVE RedeemerOf(c) \in Comers(i)
      BY <1>2, <2>6 DEF InviteInv, CodesKept, Used
    <3>2. \A c, d \in Used(i) : RedeemerOf(c) = RedeemerOf(d) => c = d
      BY <1>2, <2>6 DEF InviteInv, CodesKept, Used
    <3>3. f \in Injection(Used(i), Comers(i))
      BY <3>1, <3>2 DEF Injection, IsInjective
    <3> QED
      BY <2>1, <3>3, FS_Injection
  <2> QED
    BY <2>5, <2>6
<1>3. ASSUME NEW i \in Institutes
      PROVE  /\ Comers(i) = {t \in Teachers : /\ profile[t] # None /\ profile[t].institute = i
                                              /\ FirstProfile[t] = None \/ FirstProfile[t].institute # i}
             /\ Used(i) = {c \in Codes : invites[c] # None /\ invites[c].institute = i /\ invites[c].redeemedBy # None}
  BY SchoolAssumption DEF Comers, InstituteOf, CameLater, Used, RedeemerOf
<1> QED
  BY <1>1, <1>2, <1>3 DEF UsedOnce

\* A code brings one teacher to its institute and a payout is paid once, except for calls that
\* overlap or die half-way: redeemInvite and markPaid check, and write in statements of their own.
\* One call after the other, every code that is used has brought a teacher.
THEOREM Invited == Spec => []UsedOnce
<1>1. TypeOK /\ VerifyInv /\ Init => VerifyInv /\ PaidInv /\ JoinInv /\ InviteInv
  BY PaidStart, InviteStart
<1>2. VerifyInv => deaths \in Nat
  BY DEF VerifyInv
<1>3. TypeOK /\ Alone /\ VerifyInv /\ PaidInv /\ JoinInv /\ InviteInv => UsedOnce
  BY <1>2, CodesCounted
<1>4. TypeOK /\ Alone /\ Alone' /\ VerifyInv /\ JoinInv /\ InviteInv /\ [Next]_vars => JoinInv' /\ InviteInv'
  BY <1>2, InvitesStep
<1> QED
  BY <1>1, <1>3, <1>4, PaidStep, VerifyStart, VerifyStep, TypeStart, TypeCorrect, OneAtATime, PTL DEF Spec
=============================================================================
