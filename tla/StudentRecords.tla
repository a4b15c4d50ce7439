--------------------------- MODULE StudentRecords ---------------------------
(***************************************************************************)
(* StudentsService: create, update, archive, addGuardian and               *)
(* mergeStudents.  A guardian is the contact (phone or email) that         *)
(* findOrCreateGuardian looks up; no endpoint ends an assignment.          *)
(***************************************************************************)
EXTENDS School

CONSTANT Statuses   \* the values of EnrollmentStatus an update may set

ASSUME RecordsAssumption ==
  LET rows == [status : {"active", "archived"} \cup Statuses, institute : Institutes \cup {None}]
  IN None \notin rows /\ FirstStudent \in [Students -> rows \cup {None}]

VARIABLE mergeLog   \* table student_merge_log: the rows, oldest first

HasWriteAccess(s, q) ==
  \/ q.role = "super_admin"
  \/ Administers(q, student[s].institute)
  \/ Teaches(q, s)

HasReadAccess(s, q) ==
  HasWriteAccess(s, q) \/ s \in StudentOf(q) \/ s \in ChildrenOf(q)

\* findAll: the students a caller is shown.
ListedStudents(q) ==
  {s \in Students :
     /\ student[s] # None
     /\ CASE q.role = "super_admin"     -> TRUE
          [] q.role = "institute_admin" -> Administers(q, student[s].institute)
          [] q.role = "parent"          -> s \in ChildrenOf(q)
          [] OTHER                      -> Teaches(q, s)}

\* The students a caller may manage.
Managed(q) == {s \in Students : student[s] # None /\ HasWriteAccess(s, q)}

-----------------------------------------------------------------------------
CreateStudent(h) ==
  \E q \in Callers(h, "createStudent", "student_manage"), s \in Students, G \in SUBSET Guardians :
    \E t \in ProfileOf(q) :
      /\ student[s] = None
      /\ \A k \in Requests : req[k].at # "createStudent"   \* ids are not handed out twice
      /\ Start(h, [at |-> "createStudent", student |-> s, teacher |-> t,
                                    institute |-> profile[t].institute, guardians |-> G])
      /\ UNCHANGED <<school, mergeLog>>

\* The transaction: the profile, its assignment and its guardians.
CreateCommit(h) ==
  LET m == req[h]
  IN /\ m.at = "createStudent"
     /\ student' = [student EXCEPT ![m.student] = StudentRow("active", m.institute)]
     /\ assigned' = Append(assigned, Assignment(m.student, m.teacher))
     /\ linked' = linked \o SetToSeq({Link(m.student, g) : g \in m.guardians})
     /\ Reply(h)
     /\ UNCHANGED <<login, enrolled, profile, told, mergeLog>>

\* update and archive load the row, change the status and save the whole row.
LoadStudent(h, op, statuses) ==
  \E q \in Callers(h, op, "student_manage"), status \in statuses :
    \E s \in Managed(q) :
      /\ Start(h, [at |-> "saveStudent", student |-> s,
                       row |-> [student[s] EXCEPT !.status = status]])
      /\ UNCHANGED <<school, mergeLog>>
UpdateStudent(h) == LoadStudent(h, "updateStudent", Statuses)
ArchiveStudent(h) == LoadStudent(h, "archiveStudent", {"archived"})

SaveStudent(h) ==
  LET m == req[h]
  IN /\ m.at = "saveStudent"
     /\ student' = [student EXCEPT ![m.student] = m.row]
     /\ Reply(h)
     /\ UNCHANGED <<assigned, linked, login, enrolled, profile, told, mergeLog>>

AddGuardian(h) ==
  \E q \in Callers(h, "addGuardian", "student_manage"), g \in Guardians :
    \E s \in Managed(q) :
      /\ g \notin GuardiansOf(s)
      /\ Start(h, [at |-> "addGuardian", link |-> Link(s, g)])
      /\ UNCHANGED <<school, mergeLog>>

\* UNIQUE (student, guardian) refuses a second row.
LinkGuardian(h) ==
  LET m == req[h]
  IN /\ m.at = "addGuardian"
     /\ linked' = IF m.link.guardian \in GuardiansOf(m.link.student) THEN linked
                  ELSE Append(linked, m.link)
     /\ Reply(h)
     /\ UNCHANGED <<student, assigned, login, enrolled, profile, told, mergeLog>>

-----------------------------------------------------------------------------
\* mergeStudents loads both rows and checks them, and then runs its transaction.

StartMerge(h) ==
  \E q \in Callers(h, "mergeStudents", "student_manage") : \E s \in Managed(q) : \E m \in Managed(q) \ {s} :
    /\ student[m].status # "archived"
    /\ Start(h, [at |-> "mergeFind", surviving |-> s, merged |-> m, row |-> student[m]])
    /\ UNCHANGED <<school, mergeLog>>

\* Mutant: a row is compared with itself, so that the first of several is not the first.
MovingLater(rows, col, s, m) ==
  {i \in DOMAIN rows :
     /\ rows[i].student = m
     /\ \A j \in DOMAIN rows :
          rows[j][col] = rows[i][col] =>
            rows[j].student # s /\ (rows[j].student = m => i < j)}

\* The rows of m that move to s: of several with the same value of col, the first one,
\* and none that s has already.
Moving(rows, col, s, m) ==
  {i \in DOMAIN rows :
     /\ rows[i].student = m
     /\ \A j \in DOMAIN rows :
          rows[j][col] = rows[i][col] =>
            rows[j].student # s /\ (rows[j].student = m => i <= j)}

MergeFind(h) ==
  LET r == req[h]
  IN /\ r.at = "mergeFind"
     /\ Goes(h, [at |-> "mergeCommit", surviving |-> r.surviving, merged |-> r.merged, row |-> r.row,
                 assignments |-> Moving(assigned, "teacher", r.surviving, r.merged),
                 links |-> Moving(linked, "guardian", r.surviving, r.merged)])
     /\ UNCHANGED <<school, mergeLog>>

Moved(rows, chosen, s) ==
  [i \in DOMAIN rows |-> IF i \in chosen THEN [rows[i] EXCEPT !.student = s] ELSE rows[i]]

\* A guardian whom s has got in the meantime breaks the unique index: nothing is written.
MergeCommit(h) ==
  LET r == req[h]
  IN /\ r.at = "mergeCommit"
     /\ IF \E i \in r.links : \E j \in DOMAIN linked \ {i} :
             linked[j] = Link(r.surviving, linked[i].guardian)
        THEN UNCHANGED <<people, mergeLog>>
        ELSE /\ assigned' = Moved(assigned, r.assignments, r.surviving)
             /\ linked' = Moved(linked, r.links, r.surviving)
             /\ student' = [student EXCEPT ![r.merged] = [r.row EXCEPT !.status = "archived"]]
             /\ login' = login
             /\ mergeLog' = Append(mergeLog, [surviving |-> r.surviving, merged |-> r.merged])
     /\ Reply(h)
     /\ UNCHANGED <<enrolled, profile, told>>

RecordsInit == mergeLog = <<>>

RecordsStep(h) ==
  \/ CreateStudent(h) \/ CreateCommit(h)
  \/ UpdateStudent(h) \/ ArchiveStudent(h) \/ SaveStudent(h)
  \/ AddGuardian(h) \/ LinkGuardian(h)
  \/ StartMerge(h) \/ MergeFind(h) \/ MergeCommit(h)

-----------------------------------------------------------------------------
\* A merge (mergeStudents) drops nobody: every teacher and guardian of the merged-away record
\* is of the survivor afterwards, or still of the merged one when a call in between brought
\* them.  One call at a time, the survivor has the people of both, each of them once.
MergeKeepsPeople ==
  [][\A s, m \in Students :
       mergeLog' = Append(mergeLog, [surviving |-> s, merged |-> m]) =>
         /\ TeachersOf(m) \subseteq TeachersOf(s)' \cup TeachersOf(m)'
         /\ GuardiansOf(m) \subseteq GuardiansOf(s)' \cup GuardiansOf(m)'
         /\ student'[m].status = "archived"
         /\ Serial =>
              /\ TeachersOf(s)' = TeachersOf(s) \cup TeachersOf(m)
              /\ GuardiansOf(s)' = GuardiansOf(s) \cup GuardiansOf(m)
              /\ \A i, j \in DOMAIN assigned' :
                   assigned'[i].student = s /\ assigned'[i] = assigned'[j] => i = j
    ]_<<people, mergeLog>>
=============================================================================
