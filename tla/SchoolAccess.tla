---------------------------- MODULE SchoolAccess -----------------------------
(***************************************************************************)
(* Theorems about module SchoolService: who may see what.  What a service  *)
(* lists it also opens, the services agree on the rules they repeat, who   *)
(* was told of something can read it, a merge keeps every person, and      *)
(* registration tells the whole family.                                    *)
(***************************************************************************)
EXTENDS SchoolProofs, WellFoundedInduction

-----------------------------------------------------------------------------
(* Rows that are referred to exist: no student, class or teacher's profile *)
(* is ever deleted.                                                        *)

TheStudent(s) == s \in Students /\ student[s] # None
TheTarget(x) ==
  /\ x.type = "student" => TheStudent(x.id)
  /\ x.type = "class" => x.id \in Classes /\ class[x.id] # None

\* The students of assignments and links, the targets of shares, and the students that a
\* request has found.
MemoryExists(m) ==
  /\ m.at = "addGuardian" => TheStudent(m.link.student)
  /\ m.at \in {"mergeFind", "mergeCommit"} => TheStudent(m.surviving) /\ TheStudent(m.merged)
RowsExist ==
  /\ \A i \in DOMAIN assigned : TheStudent(assigned[i].student)
  /\ \A i \in DOMAIN linked : TheStudent(linked[i].student)
  /\ \A i \in DOMAIN shares : TheTarget(shares[i].with)
  /\ \A h \in Requests : MemoryExists(req[h])

\* A typed row is not None.
LEMMA NoneIsNoRow == None \notin StudentRows /\ None \notin ClassRows
BY RecordsAssumption, ClassroomAssumption DEF StudentRows, ClassRows

\* Students stay, whatever StudentsService saves.
LEMMA StudentsStay ==
  ASSUME TypeOK, [Next]_vars, NEW s, TheStudent(s)
  PROVE  TheStudent(s)'
<1>1. ASSUME NEW h \in Requests, RecordsStep(h) PROVE TheStudent(s)'
  <2>0. RecordsMemory(req[h]) /\ student \in [Students -> StudentRows \cup {None}]
    BY DEF TypeOK, RequestsTyped, Memory, PeopleTyped
  <2>1. CASE UNCHANGED student
    BY <2>1 DEF TheStudent
  <2>2. CASE CreateCommit(h)
    <3>1. student' = [student EXCEPT ![req[h].student] = StudentRow("active", req[h].institute)]
          /\ req[h].institute \in Institutes \cup {None}
      BY <2>0, <2>2 DEF CreateCommit, RecordsMemory
    <3>2. StudentRow("active", req[h].institute) \in StudentRows
      BY <3>1 DEF StudentRow, StudentRows
    <3> QED
      BY <2>0, <3>1, <3>2, NoneIsNoRow DEF TheStudent
  <2>3. CASE SaveStudent(h)
    <3>1. student' = [student EXCEPT ![req[h].student] = req[h].row] /\ req[h].row \in StudentRows
      BY <2>0, <2>3 DEF SaveStudent, RecordsMemory
    <3> QED
      BY <2>0, <3>1, NoneIsNoRow DEF TheStudent
  <2>4. CASE MergeCommit(h) /\ ~ UNCHANGED student
    <3>1. student' = [student EXCEPT ![req[h].merged] = [req[h].row EXCEPT !.status = "archived"]]
          /\ req[h].row \in StudentRows
      BY <2>0, <2>4 DEF MergeCommit, RecordsMemory, people
    <3>2. [req[h].row EXCEPT !.status = "archived"] \in StudentRows
      BY <3>1 DEF StudentRows
    <3> QED
      BY <2>0, <3>1, <3>2, NoneIsNoRow DEF TheStudent
  <2> QED
    BY <1>1, <2>1, <2>2, <2>3, <2>4 DEF RecordsStep, CreateStudent, UpdateStudent, ArchiveStudent, LoadStudent,
       AddGuardian, LinkGuardian, StartMerge, MergeFind, school, people
<1>2. (\A h \in Requests : ~RecordsStep(h)) => UNCHANGED student
  BY Moves DEF RecordsMove, RegistrationMove, AffiliationMove, ClassroomMove, SharingMove, CourseworkMove, TellMove,
               RestMove, school, people
<1> QED
  BY <1>1, <1>2 DEF TheStudent

\* So do classes.
LEMMA ClassesStay ==
  ASSUME TypeOK, [Next]_vars, NEW c \in Classes, class[c] # None
  PROVE  class'[c] # None
<1>1. ASSUME NEW h \in Requests, ClassroomStep(h) PROVE class'[c] # None
  <2>0. ClassroomMemory(req[h]) /\ class \in [Classes -> ClassRows \cup {None}]
    BY DEF TypeOK, RequestsTyped, Memory, ClassroomTyped
  <2>1. CASE UNCHANGED class
    BY <2>1
  <2>2. CASE CreateClass(h)
    <3>1. PICK d \in Classes, n \in Capacities, p \in Places :
            class[d] = None /\ class' = [class EXCEPT ![d] = ClassRow(n, profile[TeacherOf[d]].institute, p)]
      BY <2>2 DEF CreateClass
    <3> QED
      BY <2>0, <3>1
  <2>3. CASE SaveClass(h)
    <3>1. class' = [class EXCEPT ![req[h].class] = req[h].row] /\ req[h].row \in ClassRows
      BY <2>0, <2>3 DEF SaveClass, ClassroomMemory
    <3> QED
      BY <2>0, <3>1, NoneIsNoRow
  <2> QED
    BY <1>1, <2>1, <2>2, <2>3 DEF ClassroomStep, UpdateClass, CreateSchedule, OpenVersion, CreateException, Enroll,
       CountSeats, TakeSeat, AddToWaitlist, Wait, classroom, timetable
<1>2. (\A h \in Requests : ~ClassroomStep(h)) => UNCHANGED class
  BY Moves DEF RecordsMove, RegistrationMove, AffiliationMove, ClassroomMove, SharingMove, CourseworkMove, TellMove,
               RestMove, services, classroom, timetable
<1> QED
  BY <1>1, <1>2

\* A row is added to rows whose students are in S.
LEMMA StudentsAppended ==
  ASSUME NEW Rows, NEW rows \in Seq(Rows), NEW S, \A i \in DOMAIN rows : rows[i].student \in S,
         NEW row \in Rows, row.student \in S
  PROVE  \A i \in DOMAIN Append(rows, row) : Append(rows, row)[i].student \in S
<1> DEFINE new == Append(rows, row)
<1>1. DOMAIN new = 1..(Len(rows) + 1) /\ DOMAIN rows = 1..Len(rows) /\ Len(rows) \in Nat
  OBVIOUS
<1>2. new[Len(rows) + 1] = row /\ \A i \in 1..Len(rows) : new[i] = rows[i]
  OBVIOUS
<1> HIDE DEF new
<1>3. ASSUME NEW i \in DOMAIN new PROVE new[i].student \in S
  BY <1>1, <1>2
<1> QED
  BY <1>3 DEF new

\* A sequence of them is.
LEMMA StudentsConcatenated ==
  ASSUME NEW Rows, NEW rows \in Seq(Rows), NEW more \in Seq(Rows), NEW S,
         \A i \in DOMAIN rows : rows[i].student \in S, \A i \in DOMAIN more : more[i].student \in S
  PROVE  \A i \in DOMAIN (rows \o more) : (rows \o more)[i].student \in S
<1> DEFINE new == rows \o more
           n == Len(rows)
           k == Len(more)
<1>1. /\ DOMAIN new = 1..(n + k) /\ DOMAIN rows = 1..n /\ DOMAIN more = 1..k
      /\ n \in Nat /\ k \in Nat
  BY ConcatProperties, LenProperties
<1>2. \A i \in 1..(n + k) : new[i] = IF i <= n THEN rows[i] ELSE more[i - n]
  BY ConcatProperties
<1> HIDE DEF new, n, k
<1>3. ASSUME NEW i \in DOMAIN new PROVE new[i].student \in S
  <2>1. CASE i <= n
    BY <1>1, <1>2, <2>1
  <2>2. CASE ~ (i <= n)
    <3>1. i - n \in 1..k
      BY <1>1, <2>2
    <3> QED
      BY <1>1, <1>2, <2>2, <3>1
  <2> QED
    BY <2>1, <2>2
<1> QED
  BY <1>3 DEF new

\* Some of them move to another student of S.
LEMMA StudentsMoved ==
  ASSUME NEW Rows, NEW rows \in Seq(Rows), NEW S, \A i \in DOMAIN rows : rows[i].student \in S,
         \A i \in DOMAIN rows : "student" \in DOMAIN rows[i],
         NEW chosen, NEW s \in S
  PROVE  \A i \in DOMAIN Moved(rows, chosen, s) : Moved(rows, chosen, s)[i].student \in S
BY DEF Moved

\* What StudentsService saves refers to students that exist.
LEMMA RecordsExist ==
  ASSUME TypeOK, TypeOK', RowsExist, NEW h \in Requests, RecordsMove(h), Existing \subseteq Existing'
  PROVE  /\ \A i \in DOMAIN assigned' : assigned'[i].student \in Existing'
         /\ \A i \in DOMAIN linked' : linked'[i].student \in Existing'
<1>0. /\ RecordsMemory(req[h]) /\ MemoryExists(req[h])
      /\ assigned \in Seq(AssignedRows) /\ linked \in Seq(LinkedRows)
      /\ student \in [Students -> StudentRows \cup {None}]
  BY DEF TypeOK, RequestsTyped, Memory, PeopleTyped, RowsExist
<1>1. /\ \A i \in DOMAIN assigned : assigned[i].student \in Existing'
      /\ \A i \in DOMAIN linked : linked[i].student \in Existing'
  BY DEF RowsExist, TheStudent, Existing
<1>2. /\ \A i \in DOMAIN assigned : "student" \in DOMAIN assigned[i]
      /\ \A i \in DOMAIN linked : "student" \in DOMAIN linked[i]
  <2>1. \A i \in DOMAIN assigned : assigned[i] \in AssignedRows
    BY <1>0, RowOf
  <2>2. \A i \in DOMAIN linked : linked[i] \in LinkedRows
    BY <1>0, RowOf
  <2> QED
    BY <2>1, <2>2 DEF AssignedRows, LinkedRows
<1>3. CASE UNCHANGED <<assigned, linked>>
  BY <1>1, <1>3
<1>4. CASE CreateCommit(h)
  <2> DEFINE m == req[h]
             new == SetToSeq({Link(m.student, g) : g \in m.guardians})
  <2>1. m \in [at : {m.at}, student : Students, teacher : Teachers, institute : Institutes \cup {None},
               guardians : SUBSET Guardians]
    BY <1>0, <1>4 DEF CreateCommit, RecordsMemory
  <2>2. /\ student' = [student EXCEPT ![m.student] = StudentRow("active", m.institute)]
        /\ assigned' = Append(assigned, Assignment(m.student, m.teacher))
        /\ linked' = linked \o new
    BY <1>4 DEF CreateCommit
  <2>3. m.student \in Existing'
    <3>1. StudentRow("active", m.institute) \in StudentRows
      BY <2>1 DEF StudentRow, StudentRows
    <3> QED
      BY <1>0, <2>1, <2>2, <3>1, NoneIsNoRow DEF Existing
  <2>4. new \in Seq(LinkedRows) /\ \A i \in DOMAIN new : new[i].student \in Existing'
    <3>1. new \in Seq({Link(m.student, g) : g \in m.guardians}) /\ new \in Seq(LinkedRows)
      BY <2>1, NewLinks, NewLinksTyped
    <3>2. \A i \in DOMAIN new : new[i] \in {Link(m.student, g) : g \in m.guardians}
      <4> HIDE DEF new
      <4> QED
        BY <3>1, RowOf
    <3>3. \A l \in {Link(m.student, g) : g \in m.guardians} : l.student = m.student
      BY DEF Link
    <3> HIDE DEF new
    <3> QED
      BY <2>3, <3>1, <3>2, <3>3
  <2>5. Assignment(m.student, m.teacher) \in AssignedRows /\ Assignment(m.student, m.teacher).student = m.student
    BY <2>1 DEF Assignment, AssignedRows
  <2>6. \A i \in DOMAIN assigned' : assigned'[i].student \in Existing'
    BY <1>0, <1>1, <2>2, <2>3, <2>5, StudentsAppended
  <2>7. \A i \in DOMAIN linked' : linked'[i].student \in Existing'
    <3> HIDE DEF new
    <3> QED
      BY <1>0, <1>1, <2>2, <2>4, StudentsConcatenated
  <2> QED
    BY <2>6, <2>7
<1>5. CASE LinkGuardian(h)
  <2>1. req[h].link \in LinkedRows /\ req[h].link.student \in Existing'
    BY <1>0, <1>5 DEF LinkGuardian, RecordsMemory, MemoryExists, TheStudent, Existing
  <2>2. assigned' = assigned /\ (linked' = linked \/ linked' = Append(linked, req[h].link))
    BY <1>5 DEF LinkGuardian
  <2>3. \A i \in DOMAIN linked' : linked'[i].student \in Existing'
    BY <1>0, <1>1, <2>1, <2>2, StudentsAppended
  <2> QED
    BY <1>1, <2>2, <2>3
<1>6. CASE MergeCommit(h) /\ ~UNCHANGED <<assigned, linked>>
  <2>1. req[h].surviving \in Existing'
    BY <1>0, <1>6 DEF MergeCommit, RecordsMemory, MemoryExists, TheStudent, Existing
  <2>2. /\ assigned' = Moved(assigned, req[h].assignments, req[h].surviving)
        /\ linked' = Moved(linked, req[h].links, req[h].surviving)
    BY <1>6 DEF MergeCommit, people
  <2> QED
    BY <1>0, <1>1, <1>2, <2>1, <2>2, StudentsMoved
<1> QED
  BY <1>3, <1>4, <1>5, <1>6 DEF RecordsMove, RecordsStep, CreateStudent, UpdateStudent, ArchiveStudent, LoadStudent,
     SaveStudent, AddGuardian, StartMerge, MergeFind, school, people

\* A request of StudentsService goes on with students that exist.
LEMMA RecordsFound ==
  ASSUME TypeOK, RowsExist, NEW h \in Requests, RecordsMove(h)
  PROVE  \E m : MemoryExists(m) /\ req' = [req EXCEPT ![h] = m]
<1>0. RecordsMemory(req[h]) /\ MemoryExists(req[h])
  BY DEF TypeOK, RequestsTyped, Memory, RowsExist
<1>1. MemoryExists(Idle)
  BY DEF MemoryExists, Idle
<1>2. CASE CreateStudent(h) \/ UpdateStudent(h) \/ ArchiveStudent(h)
  <2>1. CASE CreateStudent(h)
    <3>1. PICK q \in Tokens, s \in Students, G \in SUBSET Guardians : \E t \in ProfileOf(q) :
            Start(h, [at |-> "createStudent", student |-> s, teacher |-> t,
                      institute |-> profile[t].institute, guardians |-> G])
      BY <2>1, Called, Zenon DEF CreateStudent
    <3> QED
      BY <3>1 DEF MemoryExists, Start
  <2>2. CASE UpdateStudent(h) \/ ArchiveStudent(h)
    <3>1. PICK s, status : Start(h, [at |-> "saveStudent", student |-> s, row |-> [student[s] EXCEPT !.status = status]])
      BY <2>2, Zenon DEF UpdateStudent, ArchiveStudent, LoadStudent
    <3> QED
      BY <3>1 DEF MemoryExists, Start
  <2> QED
    BY <1>2, <2>1, <2>2
<1>3. CASE CreateCommit(h) \/ SaveStudent(h) \/ LinkGuardian(h) \/ MergeCommit(h)
  BY <1>1, <1>3 DEF CreateCommit, SaveStudent, LinkGuardian, MergeCommit, Reply, Goes
<1>4. CASE AddGuardian(h)
  <2>1. PICK q \in Tokens, g \in Guardians : \E s \in Managed(q) : Start(h, [at |-> "addGuardian", link |-> Link(s, g)])
    BY <1>4, Called DEF AddGuardian
  <2>2. PICK s \in Managed(q) : Start(h, [at |-> "addGuardian", link |-> Link(s, g)])
    BY <2>1
  <2>3. MemoryExists([at |-> "addGuardian", link |-> Link(s, g)])
    BY DEF MemoryExists, Link, TheStudent, Managed
  <2> QED
    BY <2>2, <2>3 DEF Start
<1>5. CASE StartMerge(h)
  <2>1. PICK q \in Tokens : \E s \in Managed(q) : \E m \in Managed(q) :
          Start(h, [at |-> "mergeFind", surviving |-> s, merged |-> m, row |-> student[m]])
    BY <1>5, Called DEF StartMerge
  <2>2. PICK s \in Managed(q), m \in Managed(q) :
          Start(h, [at |-> "mergeFind", surviving |-> s, merged |-> m, row |-> student[m]])
    BY <2>1
  <2>3. MemoryExists([at |-> "mergeFind", surviving |-> s, merged |-> m, row |-> student[m]])
    BY DEF MemoryExists, TheStudent, Managed
  <2> QED
    BY <2>2, <2>3 DEF Start
<1>6. CASE MergeFind(h)
  <2> DEFINE r == req[h]
             m == [at |-> "mergeCommit", surviving |-> r.surviving, merged |-> r.merged, row |-> r.row,
                   assignments |-> Moving(assigned, "teacher", r.surviving, r.merged),
                   links |-> Moving(linked, "guardian", r.surviving, r.merged)]
  <2>1. r.at = "mergeFind" /\ Goes(h, m)
    BY <1>6 DEF MergeFind
  <2>2. MemoryExists(m)
    BY <1>0, <2>1 DEF MemoryExists
  <2> QED
    BY <2>1, <2>2 DEF Goes
<1> QED
  BY <1>2, <1>3, <1>4, <1>5, <1>6 DEF RecordsMove, RecordsStep

\* The request of every other step does not come to a statement that a student is found for.
LEMMA OthersFind ==
  ASSUME TypeOK, [Next]_vars, \A h \in Requests : ~RecordsMove(h)
  PROVE  Calm({"addGuardian", "mergeFind", "mergeCommit"}) /\ UNCHANGED <<student, assigned, linked>>
<1> DEFINE ats == {"addGuardian", "mergeFind", "mergeCommit"}
<1>1. RestMove => Calm(ats)
  BY RestCalm
<1>2. /\ RegistrationAts \cap ats = {} /\ AffiliationAts \cap ats = {} /\ ClassroomAts \cap ats = {}
      /\ SharingAts \cap ats = {} /\ CourseworkAts \cap ats = {} /\ {"idle"} \cap ats = {}
  BY DEF RegistrationAts, AffiliationAts, ClassroomAts, SharingAts, CourseworkAts
<1> HIDE DEF ats
<1>3. \A h \in Requests : RegistrationMove(h) \/ AffiliationMove(h) \/ ClassroomMove(h) \/ SharingMove(h)
                            \/ CourseworkMove(h) \/ TellMove(h) => Calm(ats)
  BY <1>2, RunsCalm DEF RegistrationMove, AffiliationMove, ClassroomMove, SharingMove, CourseworkMove, TellMove
<1>4. Calm(ats)
  BY <1>1, <1>3, Moves
<1>5. UNCHANGED <<student, assigned, linked>>
  BY Moves DEF RegistrationMove, AffiliationMove, ClassroomMove, SharingMove, CourseworkMove, TellMove, RestMove,
               school, people
<1> QED
  BY <1>4, <1>5 DEF ats

\* A share is given to a student or class that exists.
LEMMA SharesExist ==
  ASSUME TypeOK, TypeOK', RowsExist, [Next]_vars, \A x : TheTarget(x) => TheTarget(x)'
  PROVE  \A i \in DOMAIN shares' : TheTarget(shares[i].with)'
<1>1. ASSUME shares' = shares, NEW i \in DOMAIN shares' PROVE TheTarget(shares[i].with)'
  <2>1. PICK x : x = shares[i].with
    OBVIOUS
  <2>2. TheTarget(x)'
    BY <1>1, <2>1 DEF RowsExist
  <2> QED
    BY <1>1, <2>1, <2>2 DEF TheTarget, TheStudent
<1>2. ASSUME NEW h \in Requests, CreateShare(h)
      PROVE  \A i \in DOMAIN shares' : TheTarget(shares[i].with)'
  <2>1. PICK target \in ShareTargets, d \in Documents, download \in BOOLEAN :
          shares' = Append(shares, Share(d, target, download))
    BY <1>2, Zenon DEF CreateShare, Stored
  <2>2. TheTarget(target)
    BY DEF ShareTargets, ToStudent, ToClass, ToInstitute, TheTarget, TheStudent
  <2>3. shares \in Seq(ShareRows)
    BY DEF TypeOK, TasksTyped
  <2>4. ASSUME NEW i \in DOMAIN shares' PROVE TheTarget(shares[i].with)'
    <3>1. CASE i \in DOMAIN shares
      <4>1. shares'[i] = shares[i] /\ TheTarget(shares[i].with)
        BY <2>1, <2>3, <3>1 DEF RowsExist
      <4>2. PICK x : x = shares[i].with
        OBVIOUS
      <4>3. TheTarget(x)'
        BY <4>1, <4>2
      <4> QED
        BY <4>1, <4>2, <4>3 DEF TheTarget, TheStudent
    <3>2. CASE i \notin DOMAIN shares
      <4>1. shares'[i] = Share(d, target, download)
        BY <2>1, <2>3, <3>2
      <4>2. TheTarget(target)'
        BY <2>2
      <4> QED
        BY <4>1, <4>2 DEF Share, TheTarget, TheStudent
    <3> QED
      BY <3>1, <3>2
  <2> QED
    BY <2>4
<1>3. ASSUME NEW h \in Requests, SharingStep(h) PROVE CreateShare(h) \/ shares' = shares
  BY <1>3 DEF SharingStep, CreateDocument, GetFileContent, CreateAnnouncement, library
<1> QED
  BY <1>1, <1>2, <1>3, Moves DEF RecordsMove, RegistrationMove, AffiliationMove, ClassroomMove, SharingMove,
     CourseworkMove, TellMove, RestMove, services, sharing, library

\* What is referred to exists at first, and stays.
LEMMA ExistStart == Init => RowsExist
<1> SUFFICES ASSUME Init PROVE RowsExist
  OBVIOUS
<1>1. assigned = FirstAssigned /\ linked = FirstLinked /\ student = FirstStudent /\ shares = <<>>
  BY DEF Init, SchoolInit, SharingInit
<1>2. \A h \in Requests : MemoryExists(req[h])
  BY DEF Init, SchoolInit, ServerInit, Idle, MemoryExists
<1> DEFINE existing == {s \in Students : FirstStudent[s] # None}
<1>3. /\ FirstAssigned \in Seq([student : existing, teacher : Teachers])
      /\ FirstLinked \in Seq([student : existing, guardian : Guardians])
  BY TablesAssumption
<1> HIDE DEF existing
<1>4. /\ \A i \in DOMAIN assigned : assigned[i] \in [student : existing, teacher : Teachers]
      /\ \A i \in DOMAIN linked : linked[i] \in [student : existing, guardian : Guardians]
  BY <1>1, <1>3, RowOf
<1>5. \A s \in existing : TheStudent(s)
  BY <1>1 DEF existing, TheStudent
<1> QED
  BY <1>1, <1>2, <1>4, <1>5 DEF RowsExist

LEMMA ExistStep == TypeOK /\ TypeOK' /\ RowsExist /\ [Next]_vars => RowsExist'
<1> SUFFICES ASSUME TypeOK, TypeOK', RowsExist, [Next]_vars PROVE RowsExist'
  OBVIOUS
<1>1. \A s : TheStudent(s) => TheStudent(s)'
  BY StudentsStay
<1>2. \A c \in Classes : class[c] # None => class'[c] # None
  BY ClassesStay
<1>3. Existing \subseteq Existing' /\ (\A s : s \in Existing' <=> TheStudent(s)')
  BY <1>1 DEF Existing, TheStudent
<1>4. \A x : TheTarget(x) => TheTarget(x)'
  BY <1>1, <1>2 DEF TheTarget
<1>5. \A i \in DOMAIN shares' : TheTarget(shares[i].with)'
  BY <1>4, SharesExist
<1>6. \A m : MemoryExists(m) => MemoryExists(m)'
  BY <1>1 DEF MemoryExists
<1>7. DOMAIN req = Requests
  BY DEF TypeOK, RequestsTyped
<1>8. CASE \E h \in Requests : RecordsMove(h)
  <2>1. PICK h \in Requests : RecordsMove(h)
    BY <1>8
  <2>2. PICK m : MemoryExists(m) /\ req' = [req EXCEPT ![h] = m]
    BY <2>1, RecordsFound
  <2>3. ASSUME NEW k \in Requests PROVE MemoryExists(req[k])'
    <3>1. req'[k] = IF k = h THEN m ELSE req[k]
      BY <1>7, <2>2
    <3>2. MemoryExists(req[k])
      BY DEF RowsExist
    <3> QED
      BY <1>6, <2>2, <3>1, <3>2
  <2>4. /\ \A i \in DOMAIN assigned' : assigned'[i].student \in Existing'
        /\ \A i \in DOMAIN linked' : linked'[i].student \in Existing'
    BY <1>3, <2>1, RecordsExist
  <2> QED
    <3>1. /\ \A i \in DOMAIN assigned' : TheStudent(assigned[i].student)'
          /\ \A i \in DOMAIN linked' : TheStudent(linked[i].student)'
      BY <2>4 DEF Existing, TheStudent
    <3> QED
      BY <1>5, <2>3, <3>1 DEF RowsExist
<1>9. CASE ~ \E h \in Requests : RecordsMove(h)
  <2>1. Calm({"addGuardian", "mergeFind", "mergeCommit"}) /\ UNCHANGED <<student, assigned, linked>>
    BY <1>9, OthersFind
  <2>2. ASSUME NEW k \in Requests PROVE MemoryExists(req[k])'
    <3>1. CASE req'[k].at \in {"addGuardian", "mergeFind", "mergeCommit"}
      <4>1. req'[k] = req[k]
        BY <2>1, <3>1, CalmKeeps DEF TypeOK
      <4> QED
        BY <1>6, <4>1 DEF RowsExist
    <3>2. CASE req'[k].at \notin {"addGuardian", "mergeFind", "mergeCommit"}
      BY <3>2 DEF MemoryExists
    <3> QED
      BY <3>1, <3>2
  <2> QED
    <3>1. /\ \A i \in DOMAIN assigned' : TheStudent(assigned[i].student)'
          /\ \A i \in DOMAIN linked' : TheStudent(linked[i].student)'
      BY <2>1 DEF RowsExist, TheStudent
    <3> QED
      BY <1>5, <2>2, <3>1 DEF RowsExist
<1> QED
  BY <1>8, <1>9

\* Every row and every request refers to students and classes that exist.
LEMMA Existence == Spec => []RowsExist
<1> QED
  BY ExistStart, ExistStep, TypeCorrect, PTL DEF Spec

-----------------------------------------------------------------------------
(* The lists and the checks. *)

\* An institute's admin administers it.
LEMMA AdminOf ==
  ASSUME NEW q \in Tokens, q.role = "institute_admin"
  PROVE  Administers(q, q.institute) /\ q.institute \in Institutes /\ q.institute # None
BY SchoolAssumption DEF Administers

\* Whom a document is shared with for a caller's list, it is opened for.
LEMMA RelevantGranted ==
  ASSUME RowsExist, NEW q \in Tokens, NEW x \in RelevantShareTargets(q), TheTarget(x)
  PROVE  GrantsAccess(x, q)
<1> USE DEF ToInstitute, ToStudent, ToClass
<1>1. CASE x \in {ToInstitute(i) : i \in {q.institute} \ {None}}
  <2>1. x.type = "institute" /\ x.id = q.institute
    BY <1>1
  <2> QED
    BY <2>1 DEF GrantsAccess
<1>2. ASSUME NEW s, x = ToStudent(s), s \in StudentOf(q) \/ s \in ChildrenOf(q) \/ Teaches(q, s)
      PROVE  GrantsAccess(x, q)
  <2>1. student[s] # None
    BY <1>2 DEF TheTarget, TheStudent
  <2> QED
    BY <1>2, <2>1 DEF GrantsAccess, IsSelfGuardianOrTeacher
<1>3. ASSUME NEW c, x = ToClass(c), HasAccessToClass(c, q)
      PROVE  GrantsAccess(x, q)
  <2>1. class[c] # None
    BY <1>3 DEF TheTarget
  <2> QED
    BY <1>3, <2>1 DEF GrantsAccess
<1>4. ASSUME NEW S, S = StudentOf(q) \/ S = ChildrenOf(q), x \in ReachedBy(S)
      PROVE  GrantsAccess(x, q)
  <2>1. CASE x \in {ToStudent(s) : s \in S}
    BY <1>2, <1>4, <2>1
  <2>2. CASE x \in {ToClass(c) : c \in UNION {ClassesOf(s) : s \in S}}
    <3>1. PICK s, c : s \in S /\ c \in ClassesOf(s) /\ x = ToClass(c)
      BY <2>2
    <3>2. s \in Roster(c)
      BY <3>1 DEF ClassesOf, Roster
    <3>3. HasAccessToClass(c, q)
      BY <1>4, <3>1, <3>2 DEF HasAccessToClass
    <3> QED
      BY <1>3, <3>1, <3>3
  <2> QED
    BY <1>4, <2>1, <2>2 DEF ReachedBy
<1>5. CASE x \in {ToStudent(s) : s \in Taught(q)}
  BY <1>2, <1>5 DEF Taught
<1>6. CASE x \in {ToClass(c) : c \in TaughtClasses(q)}
  BY <1>3, <1>6 DEF TaughtClasses, HasAccessToClass
<1>7. x \in ReachedBy(StudentOf(q)) \cup ReachedBy(ChildrenOf(q)) => GrantsAccess(x, q)
  BY <1>4
<1> QED
  BY <1>1, <1>5, <1>6, <1>7 DEF RelevantShareTargets

\* A document that is listed can be opened.
LEMMA DocumentsListed ==
  ASSUME RowsExist, NEW q \in Tokens, NEW d \in ListedDocuments(q)
  PROVE  CanReadDocument(d, q)
<1>1. CASE q.role = "super_admin"
  BY <1>1 DEF CanReadDocument, CanWriteDocument
<1>2. CASE q.role = "institute_admin"
  BY <1>2, AdminOf DEF ListedDocuments, CanReadDocument, CanWriteDocument
<1>3. CASE q.role \notin {"super_admin", "institute_admin"}
  <2>1. doc[d].uploader = q.user \/ \E x \in SharesOf(d) : x.with \in RelevantShareTargets(q)
    BY <1>3 DEF ListedDocuments
  <2>2. ASSUME NEW x \in SharesOf(d), x.with \in RelevantShareTargets(q) PROVE GrantsAccess(x.with, q)
    <3>1. TheTarget(x.with)
      BY DEF SharesOf, RowsExist
    <3> QED
      BY <2>2, <3>1, RelevantGranted
  <2> QED
    BY <2>1, <2>2 DEF CanReadDocument, CanWriteDocument
<1> QED
  BY <1>1, <1>2, <1>3

\* An assignment that is listed can be read.
LEMMA AssignmentsListed ==
  ASSUME NEW q \in Tokens, NEW a \in ListedAssignments(q)
  PROVE  CanReadAssignment(a, q)
<1>1. CASE q.role = "institute_admin"
  BY <1>1, AdminOf DEF ListedAssignments, CanReadAssignment
<1>2. CASE q.role = "student"
  <2>1. PICK s \in StudentOf(q) : assignment[a].to \in {ToStudent(s)} \cup {ToClass(c) : c \in ClassesOf(s)}
    BY <1>2 DEF ListedAssignments
  <2>2. IsTarget(a, s)
    <3>1. ASSUME NEW c \in ClassesOf(s), assignment[a].to = ToClass(c) PROVE IsTarget(a, s)
      BY <3>1 DEF ClassesOf, Roster, ToClass, IsTarget
    <3> QED
      BY <2>1, <3>1 DEF IsTarget
  <2> QED
    BY <1>2, <2>2 DEF CanReadAssignment
<1>3. CASE q.role \notin {"institute_admin", "student"}
  BY <1>3 DEF ListedAssignments, CanReadAssignment, CanWriteAssignment
<1> QED
  BY <1>1, <1>2, <1>3

\* The calendar of a class that a caller's own calendar shows can be read.
LEMMA CalendarListed ==
  ASSUME NEW q \in Tokens, NEW c \in OwnCalendar(q)
  PROVE  CanReadCalendarOf(c, q)
<1>1. CASE q.role = "institute_admin"
  <2>1. class[c].institute = q.institute
    BY <1>1, AdminOf DEF OwnCalendar, InstituteCalendar
  <2> QED
    BY <1>1, <2>1, AdminOf DEF CanReadCalendarOf
<1>2. ASSUME NEW S, c \in StudentsCalendar(S) PROVE S \cap Roster(c) # {}
  <2>1. PICK s \in S : c \in ClassesOf(s)
    BY <1>2 DEF StudentsCalendar
  <2>2. s \in Roster(c)
    BY <2>1 DEF ClassesOf, Roster
  <2> QED
    BY <2>2
<1>3. CASE q.role \in {"student", "parent"}
  BY <1>2, <1>3 DEF OwnCalendar, CanReadCalendarOf
<1>4. CASE q.role = "teacher"
  BY <1>4 DEF OwnCalendar, TeacherCalendar, CanReadCalendarOf
<1>5. CASE q.role \notin {"institute_admin", "student", "parent", "teacher"}
  BY <1>5 DEF CanReadCalendarOf
<1> QED
  BY <1>1, <1>3, <1>4, <1>5

\* What a service lists for a caller it also opens: a list is a query over the caller's scope, the
\* check another one for the one row, in the same service.
THEOREM Listed == Spec => []ListedIsReadable
<1>1. ASSUME RowsExist PROVE ListedIsReadable
  <2> SUFFICES ASSUME NEW q \in Tokens
               PROVE  /\ \A s \in ListedStudents(q) : HasReadAccess(s, q)
                      /\ \A c \in ListedClasses(q) : CanReadClass(c, q)
                      /\ \A c \in OwnCalendar(q) : CanReadCalendarOf(c, q)
                      /\ \A a \in ListedAssignments(q) : CanReadAssignment(a, q)
                      /\ \A d \in ListedDocuments(q) : CanReadDocument(d, q)
                      /\ \A i \in InvoiceOverview(q) :
                           \/ q.role = "institute_admin" /\ CanWriteInvoice(i, q)
                           \/ HasStudentFinanceAccess(i.student, q)
    BY DEF ListedIsReadable
  <2>1. \A s \in ListedStudents(q) : HasReadAccess(s, q)
    BY DEF ListedStudents, HasReadAccess, HasWriteAccess
  <2>2. \A c \in ListedClasses(q) : CanReadClass(c, q)
    BY DEF ListedClasses, CanReadClass, CanWriteClass
  <2>3. ASSUME NEW i \in InvoiceOverview(q)
        PROVE  \/ q.role = "institute_admin" /\ CanWriteInvoice(i, q)
               \/ HasStudentFinanceAccess(i.student, q)
    BY <2>3, AdminOf DEF InvoiceOverview, CanWriteInvoice, HasStudentFinanceAccess
  <2> QED
    BY <1>1, <2>1, <2>2, <2>3, CalendarListed, AssignmentsListed, DocumentsListed
<1> QED
  BY <1>1, Existence, PTL

-----------------------------------------------------------------------------
(* The calendar. *)

\* A class has one occurrence a day.
LEMMA OneADay ==
  ASSUME NEW c, NEW x \in MaterializedOccurrences(c), NEW y \in MaterializedOccurrences(c), x.day = y.day
  PROVE  x = y /\ x.class = c
<1>1. MaterializedOccurrences(c) =
        LET v == CurrentVersion(c)
        IN {Occurrence(c, d, v.pattern) : d \in {z \in v.pattern.days : v.from <= z /\ ~Ended(v, z)}}
  BY DEF MaterializedOccurrences
<1> DEFINE p == CurrentVersion(c).pattern
<1>2. \A z \in MaterializedOccurrences(c) : \E d : z = Occurrence(c, d, p)
  BY <1>1
<1> HIDE DEF p
<1>3. \A d : Occurrence(c, d, p).day = d /\ Occurrence(c, d, p).class = c
  BY DEF Occurrence
<1> QED
  BY <1>2, <1>3

\* A warning of class c names another class, on a day when an occurrence of each overlap.
LEMMA OverlapsAre ==
  ASSUME NEW c, NEW others, NEW type, NEW x
  PROVE  x \in Overlaps(c, others, type) <=>
           \E o \in others : \E a \in MaterializedOccurrences(c), b \in MaterializedOccurrences(o) :
             OccurrencesOverlap(a, b) /\ x = Conflict(o, a.day, type)
<1> DEFINE theirs == UNION {MaterializedOccurrences(o) : o \in others}
           pairs == {p \in MaterializedOccurrences(c) \X theirs : OccurrencesOverlap(p[1], p[2])}
<1>1. x \in Overlaps(c, others, type) <=> \E p \in pairs : x = Conflict(p[2].class, p[1].day, type)
  BY DEF Overlaps
<1>2. (\E p \in pairs : x = Conflict(p[2].class, p[1].day, type)) <=>
        \E a \in MaterializedOccurrences(c), b \in theirs :
          OccurrencesOverlap(a, b) /\ x = Conflict(b.class, a.day, type)
  <2>1. ASSUME NEW a \in MaterializedOccurrences(c), NEW b \in theirs, OccurrencesOverlap(a, b)
        PROVE  <<a, b>> \in pairs /\ <<a, b>>[1] = a /\ <<a, b>>[2] = b
    BY <2>1
  <2>2. ASSUME NEW p \in pairs
        PROVE  p[1] \in MaterializedOccurrences(c) /\ p[2] \in theirs /\ OccurrencesOverlap(p[1], p[2])
    OBVIOUS
  <2> HIDE DEF pairs, theirs
  <2>3. ASSUME NEW a \in MaterializedOccurrences(c), NEW b \in theirs,
               OccurrencesOverlap(a, b), x = Conflict(b.class, a.day, type)
        PROVE  \E p \in pairs : x = Conflict(p[2].class, p[1].day, type)
    <3>1. <<a, b>> \in pairs /\ x = Conflict(<<a, b>>[2].class, <<a, b>>[1].day, type)
      BY <2>1, <2>3
    <3> QED
      BY <3>1
  <2> QED
    BY <2>2, <2>3
<1>3. \A o \in others : \A b \in MaterializedOccurrences(o) : b.class = o
  BY OneADay
<1> QED
  BY <1>1, <1>2, <1>3

\* getConflicts and flagConflicts find the same conflicts in the calendar of a teacher, an institute
\* or the platform, though each computes them apart: from the rows of the classes as they are, in
\* every state.
THEOREM Flagged == Spec => []CalendarAgrees
<1> DEFINE Calendars == {TeacherCalendar(t) : t \in Teachers} \cup {InstituteCalendar(i) : i \in Institutes}
<1>1. ASSUME NEW C, \A c \in C : c \in Classes /\ class[c] # None /\ class[c].status = "active",
             NEW e \in CalendarOccurrences(C)
      PROVE  ConflictReason(e, C) # None <=> \E x \in GetConflicts(e.class) : x.day = e.day /\ x.with \in C
  <2> DEFINE c == e.class
             others == {o \in Classes \ {c} : class[o] # None /\ class[o].status # "cancelled"}
             sharePlace(o) == /\ class[c].institute # None /\ class[o].institute = class[c].institute
                              /\ class[c].place # None /\ class[o].place = class[c].place
                              /\ TeacherOf[o] # TeacherOf[c]
             sameTeacher == {o \in others : TeacherOf[o] = TeacherOf[c]}
             samePlace == {o \in others : sharePlace(o)}
             meets == {x \in CalendarOccurrences(C) : x.class # e.class /\ OccurrencesOverlap(e, x)}
             double == \E x \in meets : TeacherOf[x.class] = TeacherOf[e.class]
             clash == \E x \in meets : /\ class[e.class].institute # None
                                       /\ class[x.class].institute = class[e.class].institute
                                       /\ class[e.class].place # None
                                       /\ class[x.class].place = class[e.class].place
  <2>1. c \in C /\ e \in MaterializedOccurrences(c)
    <3>1. PICK d \in C : e \in MaterializedOccurrences(d)
      BY DEF CalendarOccurrences
    <3> QED
      BY <3>1, OneADay
  <2>2. ASSUME NEW x PROVE x \in meets <=> \E o \in C \ {c} : x \in MaterializedOccurrences(o) /\ x.class = o
                                                            /\ OccurrencesOverlap(e, x)
    BY OneADay DEF CalendarOccurrences
  <2>3. C \ {c} \subseteq others
    BY <1>1
  <2>4. ConflictReason(e, C) # None <=> double \/ clash
    <3>1. None \notin {"teacher_double_booking", "location_conflict"}
      BY ClassroomAssumption
    <3> QED
      BY <3>1 DEF ConflictReason
  <2>5. ASSUME NEW S, NEW type
        PROVE  (\E x \in Overlaps(c, S, type) : x.day = e.day /\ x.with \in C) <=>
                 \E o \in S \cap C : \E b \in MaterializedOccurrences(o) : OccurrencesOverlap(e, b)
    <3>1. ASSUME NEW x \in Overlaps(c, S, type), x.day = e.day, x.with \in C
          PROVE  \E o \in S \cap C : \E b \in MaterializedOccurrences(o) : OccurrencesOverlap(e, b)
      <4>1. PICK o \in S : \E a \in MaterializedOccurrences(c), b \in MaterializedOccurrences(o) :
              OccurrencesOverlap(a, b) /\ x = Conflict(o, a.day, type)
        BY OverlapsAre
      <4>2. PICK a \in MaterializedOccurrences(c), b \in MaterializedOccurrences(o) :
              OccurrencesOverlap(a, b) /\ x = Conflict(o, a.day, type)
        BY <4>1
      <4>3. a.day = e.day /\ o \in C
        BY <3>1, <4>2 DEF Conflict
      <4>4. a = e
        BY <2>1, <4>3, OneADay
      <4> QED
        BY <4>2, <4>3, <4>4
    <3>2. ASSUME NEW o \in S \cap C, NEW b \in MaterializedOccurrences(o), OccurrencesOverlap(e, b)
          PROVE  \E x \in Overlaps(c, S, type) : x.day = e.day /\ x.with \in C
      <4>1. Conflict(o, e.day, type) \in Overlaps(c, S, type)
        BY <2>1, <3>2, OverlapsAre
      <4>2. Conflict(o, e.day, type).day = e.day /\ Conflict(o, e.day, type).with = o
        BY DEF Conflict
      <4> QED
        BY <4>1, <4>2
    <3> QED
      BY <3>1, <3>2
  <2>6. GetConflicts(c) = Overlaps(c, sameTeacher, "teacher_double_booking") \cup Overlaps(c, samePlace, "location_conflict")
    BY DEF GetConflicts
  <2> DEFINE met(o) == \E b \in MaterializedOccurrences(o) : OccurrencesOverlap(e, b)
  <2>7. (\E x \in GetConflicts(c) : x.day = e.day /\ x.with \in C) <=>
          (\E o \in sameTeacher \cap C : met(o)) \/ (\E o \in samePlace \cap C : met(o))
    <3> HIDE DEF sameTeacher, samePlace, c
    <3> QED
      BY <2>5, <2>6
  <2>8. double <=> \E o \in sameTeacher \cap C : met(o)
    <3>1. double <=> \E o \in C \ {c} : TeacherOf[o] = TeacherOf[c] /\ met(o)
      <4> HIDE DEF meets
      <4>1. ASSUME NEW x \in meets PROVE x.class \in C \ {c} /\ met(x.class)
        BY <2>2
      <4>2. ASSUME NEW o \in C \ {c}, met(o) PROVE \E x \in meets : x.class = o
        BY <2>2, <4>2, OneADay
      <4> QED
        BY <4>1, <4>2
    <3> QED
      BY <2>3, <3>1
  <2>9. double \/ clash <=> double \/ \E o \in samePlace \cap C : met(o)
    <3>1. clash <=> \E o \in C \ {c} : /\ class[c].institute # None /\ class[o].institute = class[c].institute
                                      /\ class[c].place # None /\ class[o].place = class[c].place
                                      /\ met(o)
      <4> HIDE DEF meets
      <4>1. ASSUME NEW x \in meets PROVE x.class \in C \ {c} /\ met(x.class)
        BY <2>2
      <4>2. ASSUME NEW o \in C \ {c}, met(o) PROVE \E x \in meets : x.class = o
        BY <2>2, <4>2, OneADay
      <4> QED
        BY <4>1, <4>2
    <3>2. ASSUME NEW o \in C \ {c}, met(o), TeacherOf[o] = TeacherOf[c] PROVE double
      BY <2>3, <2>8, <3>2
    <3> HIDE DEF clash, double, met
    <3> QED
      BY <2>3, <3>1, <3>2
  <2> HIDE DEF double, clash, met, sameTeacher, samePlace
  <2> QED
    BY <2>4, <2>7, <2>8, <2>9
<1>2. \A C \in Calendars : \A c \in C : c \in Classes /\ class[c] # None /\ class[c].status = "active"
  BY DEF TeacherCalendar, InstituteCalendar
<1>3. CalendarAgrees
  <2> HIDE DEF Calendars
  <2>1. ASSUME NEW C \in Calendars, NEW e \in CalendarOccurrences(C)
        PROVE  ConflictReason(e, C) # None <=> \E x \in GetConflicts(e.class) : x.day = e.day /\ x.with \in C
    BY <1>1, <1>2
  <2> QED
    BY <2>1 DEF CalendarAgrees, Calendars
<1> QED
  BY <1>3, PTL

-----------------------------------------------------------------------------
(* The rules that several services repeat. *)

\* The login of a guardian is the one it had, or one that registered since; the scope of a metric
\* is a teacher's, a category or an institute.
LoginsKnown == \A g \in Guardians : login[g] = UserOf[g] \/ login[g] \in Accounts
MetricScope(scope) == \E id : scope \in {Scope(type, id) : type \in {"teacher", "category", "institute"}}
MetricsTyped == DOMAIN metric = Metrics /\ \A d \in Metrics : metric[d] # None => MetricScope(metric[d])
KnownOK == LoginsKnown /\ MetricsTyped

\* They are at first, and stay so.
LEMMA KnownStart == Init => KnownOK
BY DEF Init, SchoolInit, CourseworkInit, KnownOK, LoginsKnown, MetricsTyped

LEMMA KnownStep == TypeOK /\ KnownOK /\ [Next]_vars => KnownOK'
<1> SUFFICES ASSUME TypeOK, KnownOK, [Next]_vars PROVE KnownOK'
  OBVIOUS
<1>1. LoginsKnown'
  <2>1. CASE login' = login
    BY <2>1 DEF KnownOK, LoginsKnown
  <2>2. ASSUME NEW h \in Requests, JoinGuardian(h) PROVE LoginsKnown'
    <3>1. req[h].user \in Accounts /\ DOMAIN login = Guardians
      <4>1. RegistrationMemory(req[h])
        BY DEF TypeOK, RequestsTyped, Memory
      <4> QED
        BY <2>2, <4>1 DEF JoinGuardian, RegistrationMemory, TypeOK, PeopleTyped
    <3>2. PICK g \in Guardians \cup req[h].found : login' = [login EXCEPT ![g] = req[h].user]
      BY <2>2 DEF JoinGuardian
    <3> QED
      BY <3>1, <3>2 DEF KnownOK, LoginsKnown
  <2>3. ASSUME NEW h \in Requests, RecordsStep(h) \/ RegistrationStep(h) PROVE login' = login \/ JoinGuardian(h)
    BY <2>3 DEF RecordsStep, CreateStudent, CreateCommit, UpdateStudent, ArchiveStudent, LoadStudent, SaveStudent,
       AddGuardian, LinkGuardian, StartMerge, MergeFind, MergeCommit, RegistrationStep, Register, CreateUser,
       AssignRole, FindGuardians, school, people
  <2> QED
    BY <2>1, <2>2, <2>3, Moves DEF RecordsMove, RegistrationMove, AffiliationMove, ClassroomMove, SharingMove,
       CourseworkMove, TellMove, RestMove, school, people
<1>2. MetricsTyped'
  <2>1. CASE metric' = metric
    BY <2>1 DEF KnownOK, MetricsTyped
  <2>2. ASSUME NEW h \in Requests, CreateMetricDefinition(h) PROVE MetricsTyped'
    <3>1. PICK q \in Tokens, d \in Metrics, scope \in UNION {DefinedScopes(p) : p \in Tokens} :
            scope \in DefinedScopes(q) /\ metric' = [metric EXCEPT ![d] = scope]
      <4>1. PICK q \in Callers(h, "createMetric", "performance_define"), d \in Metrics :
              \E scope \in DefinedScopes(q) : metric' = [metric EXCEPT ![d] = scope]
        BY <2>2, Zenon DEF CreateMetricDefinition
      <4>2. q \in Tokens
        BY Called
      <4> QED
        BY <4>1, <4>2
    <3>2. MetricScope(scope)
      BY <3>1 DEF DefinedScopes, MetricScope
    <3> QED
      BY <3>1, <3>2 DEF KnownOK, MetricsTyped
  <2>3. ASSUME NEW h \in Requests, CourseworkStep(h) PROVE CreateMetricDefinition(h) \/ metric' = metric
    BY <2>3 DEF CourseworkStep, CreateAssignment, CreateSubmission, Submit, ReviewSubmission, SaveReview,
       RecordPerformance, coursework
  <2> QED
    BY <2>1, <2>2, <2>3, Moves DEF RecordsMove, RegistrationMove, AffiliationMove, ClassroomMove, SharingMove,
       CourseworkMove, TellMove, RestMove, services, coursework
<1> QED
  BY <1>1, <1>2 DEF KnownOK

\* A caller with a profile, a record or a child has a token of that role.
LEMMA RoleHeld ==
  ASSUME KnownOK, TypeOK, NEW q \in Tokens
  PROVE  /\ ProfileOf(q) # {} => \E p \in Tokens : p.user = q.user /\ p.role = "teacher"
         /\ StudentOf(q) # {} => \E p \in Tokens : p.user = q.user /\ p.role = "student"
         /\ ChildrenOf(q) # {} => \E p \in Tokens : p.user = q.user /\ p.role = "parent"
<1>1. ProfileOf(q) # {} => \E p \in Tokens : p.user = q.user /\ p.role = "teacher"
  BY RolesAssumption DEF ProfileOf
<1>2. StudentOf(q) # {} => \E p \in Tokens : p.user = q.user /\ p.role = "student"
  BY RolesAssumption DEF StudentOf
<1>3. ASSUME ChildrenOf(q) # {} PROVE \E p \in Tokens : p.user = q.user /\ p.role = "parent"
  <2>1. PICK j \in DOMAIN linked : login[linked[j].guardian] = q.user
    BY <1>3 DEF ChildrenOf
  <2>2. linked[j].guardian \in Guardians
    <3>1. linked[j] \in LinkedRows
      BY RowOf DEF TypeOK, PeopleTyped
    <3> QED
      BY <3>1 DEF LinkedRows
  <2>3. q.user \in Accounts \/ \E g \in Guardians : UserOf[g] = q.user
    BY <2>1, <2>2 DEF KnownOK, LoginsKnown
  <2> QED
    BY <2>3, RolesAssumption
<1> QED
  BY <1>1, <1>2, <1>3

\* The same user is the same teacher, student and parent with every token.
LEMMA SameUser ==
  ASSUME NEW p, NEW q, p.user = q.user
  PROVE  ProfileOf(p) = ProfileOf(q) /\ StudentOf(p) = StudentOf(q) /\ ChildrenOf(p) = ChildrenOf(q)
BY DEF ProfileOf, StudentOf, ChildrenOf

\* Notes and announcements reach the same classes.
LEMMA ClassesAgree ==
  ASSUME KnownOK, TypeOK, NEW q \in Tokens, NEW c \in Classes, class[c] # None
  PROVE  HasAccessToClass(c, q) <=>
           ToClass(c) \in UNION {RelevantTargets(p) : p \in {x \in Tokens : x.user = q.user /\ x.role \in Acting}}
<1>1. ASSUME NEW S, NEW s \in S, s \in Roster(c) PROVE ToClass(c) \in ClassTargets(S)
  BY <1>1 DEF Roster, ClassesOf, ClassTargets
<1>2. ASSUME HasAccessToClass(c, q)
      PROVE  \E p \in Tokens : p.user = q.user /\ p.role \in Acting /\ ToClass(c) \in RelevantTargets(p)
  <2>1. CASE TeacherOf[c] \in ProfileOf(q)
    <3>1. PICK p \in Tokens : p.user = q.user /\ p.role = "teacher"
      BY <2>1, RoleHeld
    <3>2. ToClass(c) \in {ToClass(d) : d \in TaughtClasses(p)}
      BY <2>1, <3>1, SameUser DEF TaughtClasses
    <3>3. ToClass(c) \in RelevantTargets(p)
      BY <3>1, <3>2 DEF RelevantTargets
    <3> QED
      BY <3>1, <3>3 DEF Acting
  <2>2. ASSUME NEW s \in Roster(c), s \in StudentOf(q)
        PROVE  \E p \in Tokens : p.user = q.user /\ p.role \in Acting /\ ToClass(c) \in RelevantTargets(p)
    <3>1. PICK p \in Tokens : p.user = q.user /\ p.role = "student"
      BY <2>2, RoleHeld
    <3>2. ToClass(c) \in ClassTargets(StudentOf(p))
      BY <1>1, <2>2, <3>1, SameUser
    <3>3. ToClass(c) \in RelevantTargets(p)
      BY <3>1, <3>2 DEF RelevantTargets
    <3> QED
      BY <3>1, <3>3 DEF Acting
  <2>3. ASSUME NEW s \in Roster(c), s \in ChildrenOf(q)
        PROVE  \E p \in Tokens : p.user = q.user /\ p.role \in Acting /\ ToClass(c) \in RelevantTargets(p)
    <3>1. PICK p \in Tokens : p.user = q.user /\ p.role = "parent"
      BY <2>3, RoleHeld
    <3>2. ToClass(c) \in ClassTargets(ChildrenOf(p))
      BY <1>1, <2>3, <3>1, SameUser
    <3>3. ToClass(c) \in RelevantTargets(p)
      BY <3>1, <3>2 DEF RelevantTargets
    <3> QED
      BY <3>1, <3>3 DEF Acting
  <2> QED
    BY <1>2, <2>1, <2>2, <2>3 DEF HasAccessToClass
<1>3. ASSUME NEW p \in Tokens, p.user = q.user, p.role \in Acting, ToClass(c) \in RelevantTargets(p)
      PROVE  HasAccessToClass(c, q)
  <2>1. ToClass(c) # Platform /\ \A i : ToClass(c) # ToInstitute(i)
    BY DEF ToClass, Platform, ToInstitute
  <2>2. \A d : ToClass(c) = ToClass(d) => c = d
    BY DEF ToClass
  <2>3. ASSUME NEW S, ToClass(c) \in InstitutesOf(S) \cup ClassTargets(S) PROVE \E s \in S : s \in Roster(c)
    BY <2>1, <2>2, <2>3 DEF InstitutesOf, ClassTargets, ClassesOf, Roster
  <2>4. CASE p.role = "teacher"
    <3>1. ToClass(c) \in {ToClass(d) : d \in TaughtClasses(p)}
      BY <1>3, <2>1, <2>4 DEF RelevantTargets
    <3> QED
      BY <1>3, <2>2, <3>1, SameUser DEF TaughtClasses, HasAccessToClass
  <2>5. CASE p.role = "student"
    <3>1. ToClass(c) \in InstitutesOf(StudentOf(p)) \cup ClassTargets(StudentOf(p))
      BY <1>3, <2>1, <2>5 DEF RelevantTargets
    <3> QED
      BY <1>3, <2>3, <3>1, SameUser DEF HasAccessToClass
  <2>6. CASE p.role = "parent"
    <3>1. ToClass(c) \in InstitutesOf(ChildrenOf(p)) \cup ClassTargets(ChildrenOf(p))
      BY <1>3, <2>1, <2>6 DEF RelevantTargets
    <3> QED
      BY <1>3, <2>3, <3>1, SameUser DEF HasAccessToClass
  <2> QED
    BY <1>3, <2>4, <2>5, <2>6 DEF Acting
<1> QED
  BY <1>2, <1>3

\* Whoever can open a document, and is no admin, is shown it.
LEMMA ReadersListed ==
  ASSUME TypeOK, RowsExist, NEW q \in Tokens, q.role \in Acting, NEW d \in Stored, CanReadDocument(d, q)
  PROVE  d \in ListedDocuments(q)
<1>1. q.role \notin {"super_admin", "institute_admin"}
  BY DEF Acting
<1>2. doc[d].uploader = q.user \/ \E x \in SharesOf(d) : GrantsAccess(x.with, q)
  BY <1>1 DEF CanReadDocument, CanWriteDocument, Administers
<1>3. ASSUME NEW x \in SharesOf(d), GrantsAccess(x.with, q) PROVE x.with \in RelevantShareTargets(q)
  <2> DEFINE target == x.with
  <2>1. target \in Targets
    <3>1. PICK i \in DOMAIN shares : x = shares[i]
      BY DEF SharesOf
    <3>2. shares[i] \in ShareRows
      BY RowOf DEF TypeOK, TasksTyped
    <3> QED
      BY <3>1, <3>2 DEF ShareRows
  <2>2. CASE target.type = "institute"
    <3>1. target = ToInstitute(target.id) /\ target.id \in Institutes
      BY <2>1, <2>2 DEF Targets, Addressed, ToInstitute
    <3>2. q.institute = target.id /\ target.id # None
      BY <1>3, <2>2, <3>1, SchoolAssumption DEF GrantsAccess
    <3> QED
      BY <3>1, <3>2 DEF RelevantShareTargets
  <2>3. CASE target.type = "student"
    <3>1. target = ToStudent(target.id) /\ target.id \in Students
      BY <2>1, <2>3 DEF Targets, Addressed, ToStudent
    <3>2. IsSelfGuardianOrTeacher(target.id, q)
      BY <1>3, <2>3 DEF GrantsAccess
    <3> QED
      BY <3>1, <3>2 DEF IsSelfGuardianOrTeacher, RelevantShareTargets, ReachedBy, Taught
  <2>4. CASE target.type = "class"
    <3>1. target = ToClass(target.id) /\ target.id \in Classes
      BY <2>1, <2>4 DEF Targets, Addressed, ToClass
    <3>2. class[target.id] # None /\ HasAccessToClass(target.id, q)
      BY <1>3, <2>4 DEF GrantsAccess
    <3>3. CASE TeacherOf[target.id] \in ProfileOf(q)
      BY <3>1, <3>2, <3>3 DEF TaughtClasses, RelevantShareTargets
    <3>4. ASSUME NEW s \in Roster(target.id), s \in StudentOf(q) \/ s \in ChildrenOf(q)
          PROVE  target \in RelevantShareTargets(q)
      <4>1. target.id \in ClassesOf(s)
        BY DEF Roster, ClassesOf
      <4> QED
        BY <3>1, <3>4, <4>1 DEF ReachedBy, RelevantShareTargets
    <3> QED
      BY <3>2, <3>3, <3>4 DEF HasAccessToClass
  <2> QED
    BY <2>1, <2>2, <2>3, <2>4 DEF Targets, Addressed
<1> QED
  BY <1>1, <1>2, <1>3 DEF ListedDocuments

\* The services that repeat a rule agree on it: which students, classes, invoices, documents,
\* announcements and metrics are a caller's.
THEOREM Agreed == Spec => []CopiesAgree
<1>1. ASSUME TypeOK, RowsExist, KnownOK PROVE CopiesAgree
  <2>1. ASSUME NEW q \in Tokens, NEW s \in Existing
        PROVE  LET reads == HasReadAccess(s, q)
               IN /\ HasStudentFinanceAccess(s, q) = reads
                  /\ HasStudentPerformanceAccess(s, q) = reads
                  /\ HasStudentAttendanceReadAccess(s, q) = reads
    BY DEF HasReadAccess, HasWriteAccess, HasStudentFinanceAccess, HasStudentPerformanceAccess,
           HasStudentAttendanceReadAccess
  <2>2. ASSUME NEW q \in Tokens, q \in With("report_generate")
        PROVE  /\ ReportClasses(q, None) = ListedClasses(q)
               /\ \A i \in ReportInvoices(q, None) : CanWriteInvoice(i, q)
               /\ q.role # "teacher" =>
                    \A s \in Existing :
                      /\ CanReportOn(s, q) => HasReadAccess(s, q)
                      /\ HasReadAccess(s, q) => CanReportOn(s, q) \/ Teaches(q, s) \/ s \in StudentOf(q) \cup ChildrenOf(q)
    <3>1. q.role \in {"teacher", "institute_admin", "super_admin"}
      BY <2>2 DEF With, Grants
    <3>2. q.role = "institute_admin" => \A i : Administers(q, i) <=> i = q.institute
      BY AdminOf DEF Administers
    <3>3. ReportClasses(q, None) = ListedClasses(q)
      <4>1. ASSUME NEW c \in Classes PROVE c \in ReportClasses(q, None) <=> c \in ListedClasses(q)
        BY <3>1, <3>2 DEF ReportClasses, ListedClasses
      <4> QED
        BY <4>1 DEF ReportClasses, ListedClasses
    <3>4. \A i \in ReportInvoices(q, None) : CanWriteInvoice(i, q)
      BY <3>1, <3>2 DEF ReportInvoices, CanWriteInvoice
    <3>5. ASSUME q.role # "teacher", NEW s
          PROVE  /\ CanReportOn(s, q) => HasReadAccess(s, q)
                 /\ HasReadAccess(s, q) => CanReportOn(s, q) \/ Teaches(q, s) \/ s \in StudentOf(q) \cup ChildrenOf(q)
      BY <3>1, <3>5 DEF CanReportOn, HasReadAccess, HasWriteAccess, Administers
    <3> QED
      BY <3>3, <3>4, <3>5
  <2>3. ASSUME NEW q \in Tokens, q.role = "teacher"
        PROVE  ListedMetrics(q) = {d \in Defined : \E t \in ProfileOf(q) : IsApplicable(d, t)}
    <3>1. ASSUME NEW d \in Defined, NEW t
          PROVE  metric[d] \in {Scope("teacher", t), Scope("institute", profile[t].institute),
                                Scope("category", CategoryOf[t])} <=> IsApplicable(d, t)
      <4>1. PICK type, id : type \in {"teacher", "category", "institute"} /\ metric[d] = Scope(type, id)
        BY <1>1 DEF Defined, KnownOK, MetricsTyped, MetricScope
      <4>2. metric[d].type = type /\ metric[d].id = id
        BY <4>1 DEF Scope
      <4>3. \A y, k : metric[d] = Scope(y, k) <=> type = y /\ id = k
        BY <4>1 DEF Scope
      <4>4. CASE type = "teacher"
        BY <4>2, <4>3, <4>4 DEF IsApplicable
      <4>5. CASE type = "category"
        BY <4>2, <4>3, <4>5 DEF IsApplicable
      <4>6. CASE type = "institute"
        BY <4>2, <4>3, <4>6 DEF IsApplicable
      <4> QED
        BY <4>1, <4>4, <4>5, <4>6
    <3> QED
      BY <2>3, <3>1 DEF ListedMetrics
  <2> QED
    BY <1>1, <2>1, <2>2, <2>3, ClassesAgree, ReadersListed DEF CopiesAgree
<1>2. Spec => []KnownOK
  BY KnownStart, KnownStep, TypeCorrect, PTL DEF Spec
<1> QED
  BY <1>1, <1>2, Existence, TypeCorrect, PTL

-----------------------------------------------------------------------------
(* A merge of two records of one student. *)

\* A set of numbers has a smallest one.
LEMMA Smallest ==
  ASSUME NEW S \in SUBSET Nat, S # {}
  PROVE  \E n \in S : \A k \in S : n <= k
<1>1. PICK n \in S : \A k \in S : <<k, n>> \notin OpToRel(<, Nat)
  BY NatLessThanWellFounded, WFMin
<1>2. \A k \in S : ~ (k < n)
  BY <1>1 DEF OpToRel
<1> QED
  BY <1>2

\* What the rows of s name in column col: the teachers, or the guardians.
Named(rows, col, s) == {rows[i][col] : i \in {j \in DOMAIN rows : rows[j].student = s}}

\* A row that moves keeps its column.
LEMMA MovedRow ==
  ASSUME NEW rows, NEW chosen, NEW s, NEW col, col # "student", NEW i \in DOMAIN rows,
         DOMAIN rows[i] = {"student", col}
  PROVE  /\ Moved(rows, chosen, s)[i].student = IF i \in chosen THEN s ELSE rows[i].student
         /\ Moved(rows, chosen, s)[i][col] = rows[i][col]
         /\ i \notin chosen => Moved(rows, chosen, s)[i] = rows[i]
BY DEF Moved

\* Whoever the merged record names, the survivor or still that record names afterwards.
LEMMA NoneDropped ==
  ASSUME NEW Rows, NEW rows \in Seq(Rows), NEW chosen, NEW s, NEW m, NEW col, col # "student",
         \A i \in DOMAIN rows : DOMAIN rows[i] = {"student", col}
  PROVE  Named(rows, col, m) \subseteq
           Named(Moved(rows, chosen, s), col, s) \cup Named(Moved(rows, chosen, s), col, m)
<1> DEFINE new == Moved(rows, chosen, s)
<1>1. DOMAIN new = DOMAIN rows
  BY DEF Moved
<1>2. ASSUME NEW i \in DOMAIN rows PROVE new[i][col] = rows[i][col] /\ new[i].student \in {s, rows[i].student}
  <2>1. DOMAIN rows[i] = {"student", col}
    OBVIOUS
  <2> QED
    BY <2>1 DEF Moved
<1> HIDE DEF new
<1> QED
  BY <1>1, <1>2 DEF Named, new

\* In the rows new, s names whom s and m name in the rows old.
Joined(old, new, col, s, m) == Named(new, col, s) = Named(old, col, s) \cup Named(old, col, m)

\* When the rows that move are chosen from the rows as they are, the survivor gets everybody ...
LEMMA AllMoved ==
  ASSUME NEW rows, DOMAIN rows \subseteq Nat, NEW s, NEW m, s # m, NEW col, col # "student",
         \A i \in DOMAIN rows : DOMAIN rows[i] = {"student", col}
  PROVE  Joined(rows, Moved(rows, Moving(rows, col, s, m), s), col, s, m)
<1> DEFINE chosen == Moving(rows, col, s, m)
           new == Moved(rows, chosen, s)
<1>1. DOMAIN new = DOMAIN rows
  BY DEF Moved
<1>2. ASSUME NEW i \in DOMAIN rows
      PROVE  new[i][col] = rows[i][col] /\ new[i].student = IF i \in chosen THEN s ELSE rows[i].student
  <2>1. DOMAIN rows[i] = {"student", col}
    OBVIOUS
  <2> QED
    BY <2>1 DEF Moved
<1>3. \A i \in DOMAIN rows : i \in chosen <=>
        rows[i].student = m /\ \A j \in DOMAIN rows :
          rows[j][col] = rows[i][col] => rows[j].student # s /\ (rows[j].student = m => i <= j)
  BY DEF Moving
<1> HIDE DEF new, chosen
<1>4. ASSUME NEW i \in DOMAIN rows, rows[i].student = s PROVE new[i].student = s
  BY <1>2, <1>3, <1>4
<1>5. ASSUME NEW i \in DOMAIN rows, rows[i].student = m PROVE rows[i][col] \in Named(new, col, s)
  <2>1. CASE \E j \in DOMAIN rows : rows[j].student = s /\ rows[j][col] = rows[i][col]
    BY <1>1, <1>2, <1>4, <2>1 DEF Named
  <2>2. CASE ~ \E j \in DOMAIN rows : rows[j].student = s /\ rows[j][col] = rows[i][col]
    <3> DEFINE same == {j \in DOMAIN rows : rows[j].student = m /\ rows[j][col] = rows[i][col]}
    <3>1. same \in SUBSET Nat /\ same # {}
      BY <1>5
    <3>2. PICK k \in same : \A j \in same : k <= j
      <4> HIDE DEF same
      <4> QED
        BY <3>1, Smallest
    <3>3. k \in chosen
      BY <1>3, <2>2, <3>2
    <3> QED
      BY <1>1, <1>2, <3>2, <3>3 DEF Named
  <2> QED
    BY <2>1, <2>2
<1>6. Named(rows, col, s) \cup Named(rows, col, m) \subseteq Named(new, col, s)
  BY <1>1, <1>2, <1>4, <1>5 DEF Named
<1>7. Named(new, col, s) \subseteq Named(rows, col, s) \cup Named(rows, col, m)
  BY <1>1, <1>2, <1>3 DEF Named
<1> QED
  BY <1>6, <1>7 DEF new, chosen, Joined

\* ... once.
LEMMA MovedOnce ==
  ASSUME NEW Rows, NEW rows \in Seq(Rows), NEW s, NEW m, s # m, NEW col, col # "student",
         \A i \in DOMAIN rows : DOMAIN rows[i] = {"student", col}, IsInjective(rows)
  PROVE  IsInjective(Moved(rows, Moving(rows, col, s, m), s))
<1> DEFINE chosen == Moving(rows, col, s, m)
           new == Moved(rows, chosen, s)
<1>1. DOMAIN new = DOMAIN rows /\ DOMAIN rows \subseteq Nat
  BY DEF Moved
<1>2. ASSUME NEW i \in DOMAIN rows
      PROVE  /\ new[i][col] = rows[i][col]
             /\ new[i].student = IF i \in chosen THEN s ELSE rows[i].student
             /\ i \notin chosen => new[i] = rows[i]
  <2>1. DOMAIN rows[i] = {"student", col}
    OBVIOUS
  <2> QED
    BY <2>1 DEF Moved
<1>3. \A i \in DOMAIN rows : i \in chosen <=>
        rows[i].student = m /\ \A j \in DOMAIN rows :
          rows[j][col] = rows[i][col] => rows[j].student # s /\ (rows[j].student = m => i <= j)
  BY DEF Moving
<1> HIDE DEF new, chosen
<1>4. ASSUME NEW i \in DOMAIN new, NEW j \in DOMAIN new, new[i] = new[j], i \in chosen PROVE i = j
  <2>1. rows[j][col] = rows[i][col]
    BY <1>1, <1>2, <1>4
  <2>2. new[j].student = s
    BY <1>1, <1>2, <1>4
  <2>3. rows[j].student # s
    BY <1>1, <1>3, <1>4, <2>1
  <2>4. j \in chosen
    BY <1>1, <1>2, <2>2, <2>3
  <2>5. i <= j /\ j <= i
    BY <1>1, <1>3, <1>4, <2>1, <2>4
  <2> QED
    BY <1>1, <2>5
<1>5. ASSUME NEW i \in DOMAIN new, NEW j \in DOMAIN new, new[i] = new[j], i \notin chosen, j \notin chosen PROVE i = j
  BY <1>1, <1>2, <1>5 DEF IsInjective
<1>6. IsInjective(new)
  BY <1>4, <1>5 DEF IsInjective
<1> QED
  BY <1>6 DEF new, chosen

\* One call at a time, what a merge has found is so, the id of a new student is free, and no
\* student is assigned to a teacher twice.
MergeMemory(m) ==
  /\ m.at = "createStudent" => student[m.student] = None
  /\ m.at = "mergeCommit" => /\ m.assignments = Moving(assigned, "teacher", m.surviving, m.merged)
                             /\ m.links = Moving(linked, "guardian", m.surviving, m.merged)
MergeInv == Serial => IsInjective(assigned) /\ \A h \in Requests : MergeMemory(req[h])

\* The columns of the tables.
LEMMA Columns ==
  ASSUME TypeOK
  PROVE  /\ assigned \in Seq(AssignedRows) /\ \A i \in DOMAIN assigned : DOMAIN assigned[i] = {"student", "teacher"}
         /\ linked \in Seq(LinkedRows) /\ \A i \in DOMAIN linked : DOMAIN linked[i] = {"student", "guardian"}
<1>1. assigned \in Seq(AssignedRows) /\ linked \in Seq(LinkedRows)
  BY DEF TypeOK, PeopleTyped
<1>2. /\ \A i \in DOMAIN assigned : assigned[i] \in AssignedRows
      /\ \A i \in DOMAIN linked : linked[i] \in LinkedRows
  BY <1>1, RowOf
<1> QED
  BY <1>1, <1>2 DEF AssignedRows, LinkedRows

\* It is so at first.
LEMMA MergeStart == Init => MergeInv
<1> SUFFICES ASSUME Init PROVE MergeInv
  OBVIOUS
<1>1. IsInjective(assigned)
  BY TablesAssumption DEF Init, SchoolInit
<1>2. \A h \in Requests : MergeMemory(req[h])
  BY DEF Init, SchoolInit, ServerInit, Idle, MergeMemory
<1> QED
  BY <1>1, <1>2 DEF MergeInv

\* The only request in progress sees the tables as they are.
LEMMA MergeStep == TypeOK /\ RowsExist /\ Alone /\ MergeInv /\ [Next]_vars => MergeInv'
<1> SUFFICES ASSUME TypeOK, RowsExist, Alone, MergeInv, [Next]_vars, Serial' PROVE MergeInv'
  BY DEF MergeInv
<1>0. DOMAIN req = Requests
  BY DEF TypeOK, RequestsTyped
<1>1. Serial
  BY Moves DEF RecordsMove, RegistrationMove, AffiliationMove, ClassroomMove, SharingMove, CourseworkMove, TellMove,
               RestMove, Runs, Serial
<1>2. IsInjective(assigned) /\ \A h \in Requests : MergeMemory(req[h])
  BY <1>1 DEF MergeInv
<1>3. ASSUME NEW h \in Requests, NEW ats, Runs(h, ats), ats \cap {"createStudent", "mergeCommit"} = {}
      PROVE  \A k \in Requests : req'[k].at \notin {"createStudent", "mergeCommit"}
  <2>1. PICK m : m.at \in ats /\ req' = [req EXCEPT ![h] = m]
    BY <1>3 DEF Runs
  <2>2. \A k \in Requests \ {h} : req[k].at = "idle"
    BY <1>1, <1>3, IdleMemory DEF Runs, Alone
  <2>3. ASSUME NEW k \in Requests PROVE req'[k].at \notin {"createStudent", "mergeCommit"}
    BY <1>0, <1>3, <2>1, <2>2
  <2> QED
    BY <2>3
<1>4. CASE RestMove
  <2>1. UNCHANGED <<student, assigned, linked>>
    BY <1>4 DEF RestMove, school, people
  <2>2. \A k \in Requests : req'[k] = req[k] \/ req'[k] = Idle
    BY <1>0, <1>4 DEF RestMove, Die
  <2>3. ASSUME NEW k \in Requests PROVE MergeMemory(req[k])'
    BY <1>2, <2>1, <2>2, IdleMemory DEF MergeMemory
  <2> QED
    BY <1>2, <2>1, <2>3 DEF MergeInv
<1>5. ASSUME NEW h \in Requests, RegistrationMove(h) \/ AffiliationMove(h) \/ ClassroomMove(h) \/ SharingMove(h)
                                   \/ CourseworkMove(h) \/ TellMove(h)
      PROVE  MergeInv'
  <2>1. assigned' = assigned
    BY <1>5 DEF RegistrationMove, AffiliationMove, ClassroomMove, SharingMove, CourseworkMove, TellMove, school, people
  <2>2. \A k \in Requests : req'[k].at \notin {"createStudent", "mergeCommit"}
    BY <1>3, <1>5 DEF RegistrationMove, AffiliationMove, ClassroomMove, SharingMove, CourseworkMove, TellMove,
       RegistrationAts, AffiliationAts, ClassroomAts, SharingAts, CourseworkAts
  <2> QED
    BY <1>2, <2>1, <2>2 DEF MergeInv, MergeMemory
<1>6. ASSUME NEW h \in Requests, RecordsMove(h) PROVE MergeInv'
  <2>1. \A k \in Requests \ {h} : req'[k].at = "idle"
    <3>1. PICK m : req' = [req EXCEPT ![h] = m]
      BY <1>6 DEF RecordsMove, Runs
    <3>2. \A k \in Requests \ {h} : req[k].at = "idle"
      BY <1>1, <1>6, IdleMemory DEF RecordsMove, Runs, Alone
    <3> QED
      BY <1>0, <3>1, <3>2
  <2>2. SUFFICES IsInjective(assigned)' /\ MergeMemory(req[h])'
    <3>1. ASSUME NEW k \in Requests \ {h} PROVE MergeMemory(req[k])'
      BY <2>1 DEF MergeMemory
    <3> QED
      BY <2>2, <3>1 DEF MergeInv
  <2>3. CASE CreateStudent(h)
    <3>1. PICK s \in Students : student[s] = None /\ req'[h].at = "createStudent" /\ req'[h].student = s
                                /\ UNCHANGED <<student, assigned>>
      <4>1. PICK q \in Callers(h, "createStudent", "student_manage"), s \in Students, G \in SUBSET Guardians :
              \E t \in ProfileOf(q) :
                /\ student[s] = None
                /\ Start(h, [at |-> "createStudent", student |-> s, teacher |-> t,
                             institute |-> profile[t].institute, guardians |-> G])
                /\ UNCHANGED school
        BY <2>3, Zenon DEF CreateStudent
      <4>2. PICK t \in ProfileOf(q) :
                /\ student[s] = None
                /\ Start(h, [at |-> "createStudent", student |-> s, teacher |-> t,
                             institute |-> profile[t].institute, guardians |-> G])
                /\ UNCHANGED school
        BY <4>1
      <4> QED
        BY <1>0, <4>2 DEF Start, school, people
    <3> QED
      BY <1>2, <3>1 DEF MergeMemory
  <2>4. CASE CreateCommit(h)
    <3>1. req'[h].at = "idle" /\ assigned' = Append(assigned, Assignment(req[h].student, req[h].teacher))
      BY <1>0, <2>4, IdleMemory DEF CreateCommit, Reply, Goes
    <3>2. student[req[h].student] = None
      BY <1>2, <2>4 DEF CreateCommit, MergeMemory
    <3>3. \A i \in DOMAIN assigned : assigned[i].student # req[h].student
      BY <3>2 DEF RowsExist, TheStudent
    <3>4. IsInjective(Append(assigned, Assignment(req[h].student, req[h].teacher)))
      <4> DEFINE row == Assignment(req[h].student, req[h].teacher)
                 new == Append(assigned, row)
                 n == Len(assigned)
      <4>1. n \in Nat /\ DOMAIN new = 1..(n + 1) /\ DOMAIN assigned = 1..n
            /\ new[n + 1] = row /\ \A i \in 1..n : new[i] = assigned[i]
        BY Columns
      <4>2. row.student = req[h].student
        BY DEF Assignment
      <4> HIDE DEF new, row, n
      <4>3. \A i \in 1..n : new[i] # row
        BY <3>3, <4>1, <4>2
      <4>4. ASSUME NEW i \in DOMAIN new, NEW j \in DOMAIN new, new[i] = new[j] PROVE i = j
        <5>1. CASE i \in 1..n /\ j \in 1..n
          BY <1>2, <4>1, <4>4, <5>1 DEF IsInjective
        <5>2. CASE i = n + 1
          BY <4>1, <4>3, <4>4, <5>2
        <5>3. CASE j = n + 1
          BY <4>1, <4>3, <4>4, <5>3
        <5> QED
          BY <4>1, <5>1, <5>2, <5>3
      <4> QED
        BY <4>4 DEF IsInjective, new, row
    <3> QED
      BY <3>1, <3>4 DEF MergeMemory
  <2>5. CASE UpdateStudent(h) \/ ArchiveStudent(h)
    <3>1. PICK s, status : /\ Start(h, [at |-> "saveStudent", student |-> s, row |-> [student[s] EXCEPT !.status = status]])
                           /\ UNCHANGED school
      BY <2>5, Zenon DEF UpdateStudent, ArchiveStudent, LoadStudent
    <3>2. req'[h].at = "saveStudent" /\ assigned' = assigned
      BY <1>0, <3>1 DEF Start, school, people
    <3> QED
      BY <1>2, <3>2 DEF MergeMemory
  <2>6. CASE SaveStudent(h) \/ LinkGuardian(h)
    <3>1. req'[h].at = "idle" /\ assigned' = assigned
      BY <1>0, <2>6, IdleMemory DEF SaveStudent, LinkGuardian, Reply, Goes
    <3> QED
      BY <1>2, <3>1 DEF MergeMemory
  <2>7. CASE AddGuardian(h)
    <3>1. PICK s, g : Start(h, [at |-> "addGuardian", link |-> Link(s, g)]) /\ UNCHANGED school
      BY <2>7, Zenon DEF AddGuardian
    <3>2. req'[h].at = "addGuardian" /\ assigned' = assigned
      BY <1>0, <3>1 DEF Start, school, people
    <3> QED
      BY <1>2, <3>2 DEF MergeMemory
  <2>8. CASE StartMerge(h)
    <3>1. PICK s, m : /\ Start(h, [at |-> "mergeFind", surviving |-> s, merged |-> m, row |-> student[m]])
                      /\ UNCHANGED school
      BY <2>8, Zenon DEF StartMerge
    <3>2. req'[h].at = "mergeFind" /\ assigned' = assigned
      BY <1>0, <3>1 DEF Start, school, people
    <3> QED
      BY <1>2, <3>2 DEF MergeMemory
  <2>9. CASE MergeFind(h)
    <3> DEFINE r == req[h]
               m == [at |-> "mergeCommit", surviving |-> r.surviving, merged |-> r.merged, row |-> r.row,
                     assignments |-> Moving(assigned, "teacher", r.surviving, r.merged),
                     links |-> Moving(linked, "guardian", r.surviving, r.merged)]
    <3>1. req' = [req EXCEPT ![h] = m] /\ UNCHANGED <<assigned, linked>>
      BY <2>9 DEF MergeFind, Goes, school, people
    <3>2. MergeMemory(m)
      BY DEF MergeMemory
    <3>3. req'[h] = m
      BY <1>0, <3>1
    <3> HIDE DEF m
    <3>4. MergeMemory(req[h])'
      <4>1. m.at = "mergeCommit"
        BY DEF m
      <4> QED
        BY <3>1, <3>2, <3>3, <4>1 DEF MergeMemory, Moving
    <3> QED
      BY <1>2, <3>1, <3>4
  <2>10. CASE MergeCommit(h)
    <3>1. req'[h].at = "idle"
      BY <1>0, <2>10, IdleMemory DEF MergeCommit, Reply, Goes
    <3>2. CASE assigned' = assigned
      BY <1>2, <3>1, <3>2 DEF MergeMemory
    <3>3. CASE assigned' = Moved(assigned, req[h].assignments, req[h].surviving)
      <4>1. req[h].assignments = Moving(assigned, "teacher", req[h].surviving, req[h].merged)
        BY <1>2, <2>10 DEF MergeCommit, MergeMemory
      <4>2. req[h].surviving # req[h].merged
        BY <2>10 DEF MergeCommit, TypeOK, RequestsTyped, Memory, RecordsMemory
      <4>3. IsInjective(Moved(assigned, Moving(assigned, "teacher", req[h].surviving, req[h].merged), req[h].surviving))
        BY <1>2, <4>2, Columns, MovedOnce
      <4> QED
        BY <3>1, <3>3, <4>1, <4>3 DEF MergeMemory
    <3> QED
      BY <2>10, <3>2, <3>3 DEF MergeCommit, people
  <2> QED
    BY <1>6, <2>3, <2>4, <2>5, <2>6, <2>7, <2>8, <2>9, <2>10 DEF RecordsMove, RecordsStep
<1> QED
  BY <1>4, <1>5, <1>6, Moves

\* mergeStudents drops nobody: the survivor or, after a call in between, still the merged record has
\* every teacher and guardian, and one call at a time the survivor has those of both, each once.
THEOREM Merged == Spec => MergeKeepsPeople
<1>1. ASSUME TypeOK, RowsExist, MergeInv, MergeInv', [Next]_vars, NEW s \in Students, NEW m \in Students,
             mergeLog' = Append(mergeLog, [surviving |-> s, merged |-> m])
      PROVE  /\ TeachersOf(m) \subseteq TeachersOf(s)' \cup TeachersOf(m)'
             /\ GuardiansOf(m) \subseteq GuardiansOf(s)' \cup GuardiansOf(m)'
             /\ student'[m].status = "archived"
             /\ Serial =>
                  /\ TeachersOf(s)' = TeachersOf(s) \cup TeachersOf(m)
                  /\ GuardiansOf(s)' = GuardiansOf(s) \cup GuardiansOf(m)
                  /\ \A i, j \in DOMAIN assigned' :
                       assigned'[i].student = s /\ assigned'[i] = assigned'[j] => i = j
  <2>1. mergeLog \in Seq([surviving : Students, merged : Students])
    BY <1>1 DEF TypeOK, PeopleTyped
  <2>2. mergeLog' # mergeLog
    BY <1>1, <2>1
  <2>3. PICK h \in Requests : MergeCommit(h)
    <3>1. PICK h \in Requests : RecordsMove(h)
      BY <1>1, <2>2, Moves DEF RegistrationMove, AffiliationMove, ClassroomMove, SharingMove, CourseworkMove, TellMove,
                         RestMove, services
    <3> QED
      BY <2>2, <3>1 DEF RecordsMove, RecordsStep, CreateStudent, CreateCommit, UpdateStudent, ArchiveStudent,
         LoadStudent, SaveStudent, AddGuardian, LinkGuardian, StartMerge, MergeFind
  <2> DEFINE r == req[h]
  <2>4. /\ assigned' = Moved(assigned, r.assignments, r.surviving)
        /\ linked' = Moved(linked, r.links, r.surviving)
        /\ student' = [student EXCEPT ![r.merged] = [r.row EXCEPT !.status = "archived"]]
        /\ mergeLog' = Append(mergeLog, [surviving |-> r.surviving, merged |-> r.merged])
        /\ r.at = "mergeCommit"
    BY <2>2, <2>3 DEF MergeCommit
  <2>5. /\ r \in [at : {r.at}, surviving : Students, merged : Students, row : StudentRows,
                  assignments : SUBSET Nat, links : SUBSET Nat]
        /\ r.surviving # r.merged
    BY <1>1, <2>4 DEF TypeOK, RequestsTyped, Memory, RecordsMemory
  <2>6. s = r.surviving /\ m = r.merged
    <3>1. [surviving |-> s, merged |-> m] = [surviving |-> r.surviving, merged |-> r.merged]
      <4> DEFINE x == [surviving |-> s, merged |-> m]
                 y == [surviving |-> r.surviving, merged |-> r.merged]
      <4>1. Append(mergeLog, x)[Len(mergeLog) + 1] = x /\ Append(mergeLog, y)[Len(mergeLog) + 1] = y
        BY <2>1
      <4> HIDE DEF x, y
      <4> QED
        BY <1>1, <2>4, <4>1 DEF x, y
    <3> QED
      BY <3>1
  <2>7. /\ \A z : TeachersOf(z) = Named(assigned, "teacher", z) /\ TeachersOf(z)' = Named(assigned', "teacher", z)
        /\ \A z : GuardiansOf(z) = Named(linked, "guardian", z) /\ GuardiansOf(z)' = Named(linked', "guardian", z)
    BY DEF TeachersOf, GuardiansOf, Named
  <2>8. TeachersOf(m) \subseteq TeachersOf(s)' \cup TeachersOf(m)'
    BY <1>1, <2>4, <2>6, <2>7, Columns, NoneDropped
  <2>9. GuardiansOf(m) \subseteq GuardiansOf(s)' \cup GuardiansOf(m)'
    BY <1>1, <2>4, <2>6, <2>7, Columns, NoneDropped
  <2>10. student'[m].status = "archived"
    <3>1. student \in [Students -> StudentRows \cup {None}] /\ "status" \in DOMAIN r.row
      BY <1>1, <2>5 DEF TypeOK, PeopleTyped, StudentRows
    <3> QED
      BY <2>4, <2>6, <3>1
  <2>11. ASSUME Serial
         PROVE  /\ TeachersOf(s)' = TeachersOf(s) \cup TeachersOf(m)
                /\ GuardiansOf(s)' = GuardiansOf(s) \cup GuardiansOf(m)
                /\ \A i, j \in DOMAIN assigned' :
                     assigned'[i].student = s /\ assigned'[i] = assigned'[j] => i = j
    <3>1. r.assignments = Moving(assigned, "teacher", s, m) /\ r.links = Moving(linked, "guardian", s, m)
      BY <1>1, <2>4, <2>6, <2>11 DEF MergeInv, MergeMemory
    <3> HIDE DEF r
    <3>2. TeachersOf(s)' = TeachersOf(s) \cup TeachersOf(m)
      <4>1. Joined(assigned, Moved(assigned, Moving(assigned, "teacher", s, m), s), "teacher", s, m)
        <5>1. DOMAIN assigned \subseteq Nat /\ \A i \in DOMAIN assigned : DOMAIN assigned[i] = {"student", "teacher"}
          BY <1>1, Columns
        <5>2. s # m /\ "teacher" # "student"
          BY <2>5, <2>6
        <5> QED
          BY <5>1, <5>2, AllMoved
      <4> QED
        BY <2>4, <2>6, <2>7, <3>1, <4>1 DEF Joined
    <3>3. GuardiansOf(s)' = GuardiansOf(s) \cup GuardiansOf(m)
      <4>1. Joined(linked, Moved(linked, Moving(linked, "guardian", s, m), s), "guardian", s, m)
        <5>1. DOMAIN linked \subseteq Nat /\ \A i \in DOMAIN linked : DOMAIN linked[i] = {"student", "guardian"}
          BY <1>1, Columns
        <5>2. s # m /\ "guardian" # "student"
          BY <2>5, <2>6
        <5> QED
          BY <5>1, <5>2, AllMoved
      <4> QED
        BY <2>4, <2>6, <2>7, <3>1, <4>1 DEF Joined
    <3>4. IsInjective(assigned)'
      <4>1. IsInjective(assigned)
        BY <1>1, <2>11 DEF MergeInv
      <4> QED
        BY <1>1, <2>4, <2>5, <2>6, <3>1, <4>1, Columns, MovedOnce
    <3> QED
      BY <3>2, <3>3, <3>4 DEF IsInjective
  <2> QED
    BY <2>8, <2>9, <2>10, <2>11
<1>2. TypeOK /\ RowsExist /\ MergeInv /\ MergeInv' /\ [Next]_vars =>
        [\A s, m \in Students :
           mergeLog' = Append(mergeLog, [surviving |-> s, merged |-> m]) =>
             /\ TeachersOf(m) \subseteq TeachersOf(s)' \cup TeachersOf(m)'
             /\ GuardiansOf(m) \subseteq GuardiansOf(s)' \cup GuardiansOf(m)'
             /\ student'[m].status = "archived"
             /\ Serial =>
                  /\ TeachersOf(s)' = TeachersOf(s) \cup TeachersOf(m)
                  /\ GuardiansOf(s)' = GuardiansOf(s) \cup GuardiansOf(m)
                  /\ \A i, j \in DOMAIN assigned' :
                       assigned'[i].student = s /\ assigned'[i] = assigned'[j] => i = j
        ]_<<people, mergeLog>>
  BY <1>1
<1>3. Spec => []MergeInv
  BY MergeStart, MergeStep, Existence, OneAtATime, TypeCorrect, PTL DEF Spec
<1> QED
  BY <1>2, <1>3, Existence, TypeCorrect, PTL DEF Spec, MergeKeepsPeople

-----------------------------------------------------------------------------
(* What a notification is about reaches the student it names: the document *)
(* is shared with the student, the assignment is the student's.            *)

SharedWith(d, s) == \E i \in DOMAIN shares : shares[i].document = d /\ shares[i].with = ToStudent(s)
Reaches(about, s) ==
  /\ TheStudent(s)
  /\ about \in Documents => SharedWith(about, s)
  /\ about \in Assignments => assignment[about] # None /\ IsTarget(about, s)

\* What a request is about to save or tell.
ReachMemory(m) ==
  /\ m.at \in {"countSeats", "takeSeat"} => TheStudent(m.seat.student)
  /\ m.at = "submit" => Reaches(m.submission.assignment, m.submission.student)
  /\ m.at = "saveReview" => Reaches(m.row.assignment, m.row.student)
  /\ m.at = "tell" =>
       \/ m.to.type = "student" /\ Reaches(m.about, m.to.id)
       \/ m.to.type = "class" /\ m.about \in Assignments /\ assignment[m.about] # None /\ assignment[m.about].to = m.to
ReachInv ==
  /\ \A i \in DOMAIN enrolled : TheStudent(enrolled[i].student)
  /\ \A i \in DOMAIN submissions : Reaches(submissions[i].assignment, submissions[i].student)
  /\ \A x \in told : Reaches(x.about, x.student)
  /\ \A h \in Requests : ReachMemory(req[h])

\* The statements it is about.
ReachAts == {"countSeats", "takeSeat", "submit", "saveReview", "tell"}

\* Students do not leave a class, shares and assignments stay.
LEMMA RosterGrows ==
  ASSUME TypeOK, [Next]_vars, NEW c, NEW s \in Roster(c)
  PROVE  s \in Roster(c)'
<1>1. CASE enrolled' = enrolled
  BY <1>1 DEF Roster
<1>2. ASSUME NEW h \in Requests, TakeSeat(h) PROVE s \in Roster(c)'
  <2>1. enrolled' = Append(enrolled, req[h].seat) /\ enrolled \in Seq(EnrolledRows)
    BY <1>2 DEF TakeSeat, TypeOK, ClassroomTyped
  <2>2. PICK i \in DOMAIN enrolled : enrolled[i].class = c /\ enrolled[i].student = s
    BY DEF Roster
  <2>3. i \in DOMAIN enrolled' /\ enrolled'[i] = enrolled[i]
    BY <2>1
  <2> QED
    BY <2>2, <2>3 DEF Roster
<1>3. ASSUME NEW h \in Requests, ClassroomStep(h) PROVE TakeSeat(h) \/ enrolled' = enrolled
  BY <1>3 DEF ClassroomStep, CreateClass, UpdateClass, SaveClass, CreateSchedule, OpenVersion, CreateException,
              Enroll, CountSeats, AddToWaitlist, Wait, school
<1> QED
  BY <1>1, <1>2, <1>3, Moves DEF RecordsMove, RegistrationMove, AffiliationMove, ClassroomMove, SharingMove,
     CourseworkMove, TellMove, RestMove, school

LEMMA SharesStay ==
  ASSUME TypeOK, [Next]_vars, NEW d, NEW s, SharedWith(d, s)
  PROVE  SharedWith(d, s)'
<1>1. CASE shares' = shares
  BY <1>1 DEF SharedWith
<1>2. ASSUME NEW h \in Requests, CreateShare(h) PROVE SharedWith(d, s)'
  <2>1. PICK row : shares' = Append(shares, row)
    BY <1>2, Zenon DEF CreateShare
  <2>2. shares \in Seq(ShareRows)
    BY DEF TypeOK, TasksTyped
  <2>3. \A i \in DOMAIN shares : i \in DOMAIN shares' /\ shares'[i] = shares[i]
    BY <2>1, <2>2
  <2> QED
    BY <2>3 DEF SharedWith
<1>3. ASSUME NEW h \in Requests, SharingStep(h) PROVE CreateShare(h) \/ shares' = shares
  BY <1>3 DEF SharingStep, CreateDocument, GetFileContent, CreateAnnouncement, library
<1> QED
  BY <1>1, <1>2, <1>3, Moves DEF RecordsMove, RegistrationMove, AffiliationMove, ClassroomMove, SharingMove,
     CourseworkMove, TellMove, RestMove, services, sharing, library

LEMMA AssignmentsStay ==
  ASSUME TypeOK, [Next]_vars, NEW a \in Assignments, assignment[a] # None
  PROVE  assignment'[a] = assignment[a]
<1>1. CASE assignment' = assignment
  BY <1>1
<1>2. ASSUME NEW h \in Requests, CreateAssignment(h) PROVE assignment'[a] = assignment[a]
  <2>1. PICK b, row : b \notin Given /\ assignment' = [assignment EXCEPT ![b] = row]
    BY <1>2, Zenon DEF CreateAssignment
  <2>2. b # a /\ assignment \in [Assignments -> GivenRows \cup {None}]
    BY <2>1 DEF Given, TypeOK, TasksTyped
  <2> QED
    BY <2>1, <2>2
<1>3. ASSUME NEW h \in Requests, CourseworkStep(h) PROVE CreateAssignment(h) \/ assignment' = assignment
  BY <1>3 DEF CourseworkStep, CreateSubmission, Submit, ReviewSubmission, SaveReview, CreateMetricDefinition,
              RecordPerformance, coursework
<1> QED
  BY <1>1, <1>2, <1>3, Moves DEF RecordsMove, RegistrationMove, AffiliationMove, ClassroomMove, SharingMove,
     CourseworkMove, TellMove, RestMove, services, coursework

\* So what reaches a student does so for good.
LEMMA ReachesStay ==
  ASSUME TypeOK, [Next]_vars, NEW about, NEW s, Reaches(about, s)
  PROVE  Reaches(about, s)'
<1>1. TheStudent(s)'
  BY StudentsStay DEF Reaches
<1>2. about \in Documents => SharedWith(about, s)'
  BY SharesStay DEF Reaches
<1>3. ASSUME about \in Assignments PROVE assignment'[about] # None /\ IsTarget(about, s)'
  <2>1. assignment[about] # None /\ IsTarget(about, s)
    BY <1>3 DEF Reaches
  <2>2. assignment'[about] = assignment[about]
    BY <1>3, <2>1, AssignmentsStay
  <2>3. \A c : s \in Roster(c) => s \in Roster(c)'
    BY RosterGrows
  <2> QED
    BY <2>1, <2>2, <2>3 DEF IsTarget
<1> QED
  BY <1>1, <1>2, <1>3 DEF Reaches

LEMMA ReachMemoryStays ==
  ASSUME TypeOK, [Next]_vars, NEW m, ReachMemory(m)
  PROVE  ReachMemory(m)'
<1>1. m.at \in {"countSeats", "takeSeat"} => TheStudent(m.seat.student)'
  BY StudentsStay DEF ReachMemory
<1>2. /\ m.at = "submit" => Reaches(m.submission.assignment, m.submission.student)'
      /\ m.at = "saveReview" => Reaches(m.row.assignment, m.row.student)'
  BY ReachesStay DEF ReachMemory
<1>3. ASSUME m.at = "tell"
      PROVE  \/ m.to.type = "student" /\ Reaches(m.about, m.to.id)'
             \/ m.to.type = "class" /\ m.about \in Assignments /\ assignment'[m.about] # None /\ assignment'[m.about].to = m.to
  BY <1>3, ReachesStay, AssignmentsStay DEF ReachMemory
<1> QED
  BY <1>1, <1>2, <1>3 DEF ReachMemory

\* A request that is not at one of its statements remembers nothing it is about.
LEMMA NothingReached ==
  ASSUME NEW m, m.at \notin ReachAts
  PROVE  ReachMemory(m) /\ ReachMemory(m)'
BY DEF ReachMemory, ReachAts

\* Whom a class or a student stands for when they are told.
LEMMA ToldReached ==
  ASSUME TypeOK, ReachInv, NEW h \in Requests, TellStudentParty(h)
  PROVE  \A x \in told' : Reaches(x.about, x.student)
<1> DEFINE to == req[h].to
           audience == IF to.type = "class" THEN Roster(to.id) ELSE {to.id}
<1>1. told' = told \cup UNION {{[user |-> u, about |-> req[h].about, student |-> s] : u \in NotifiableUsers(s)} : s \in audience}
      /\ req[h].at = "tell"
  BY DEF TellStudentParty
<1>2. ASSUME NEW s \in audience PROVE Reaches(req[h].about, s)
  <2>1. CASE to.type = "student" /\ Reaches(req[h].about, to.id)
    BY <1>2, <2>1
  <2>2. CASE /\ to.type = "class" /\ req[h].about \in Assignments
             /\ assignment[req[h].about] # None /\ assignment[req[h].about].to = to
    <3>1. s \in Roster(to.id)
      BY <1>2, <2>2
    <3>2. TheStudent(s)
      BY <3>1 DEF Roster, ReachInv
    <3>3. req[h].about \notin Documents
      BY <2>2, ServicesAssumption
    <3>4. IsTarget(req[h].about, s)
      BY <2>2, <3>1 DEF IsTarget
    <3> QED
      BY <2>2, <3>2, <3>3, <3>4 DEF Reaches
  <2> QED
    BY <1>1, <2>1, <2>2 DEF ReachInv, ReachMemory
<1>3. ASSUME NEW x \in told' PROVE Reaches(x.about, x.student)
  <2>1. CASE x \in told
    BY <2>1 DEF ReachInv
  <2>2. CASE x \notin told
    <3>1. PICK s, u : s \in audience /\ x = [user |-> u, about |-> req[h].about, student |-> s]
      BY <1>1, <1>3, <2>2
    <3> QED
      BY <1>2, <3>1
  <2> QED
    BY <2>1, <2>2
<1> QED
  BY <1>3

\* CreateShare and createAssignment tell whom what they save is for.
LEMMA ShareReaches ==
  ASSUME TypeOK, NEW h \in Requests, CreateShare(h)
  PROVE  \E m : ReachMemory(m)' /\ req' = [req EXCEPT ![h] = m]
<1>1. PICK target \in ShareTargets, d \in Stored, download \in BOOLEAN :
        /\ Start(h, IF target.type = "student" THEN Tell(d, target) ELSE Idle)
        /\ shares' = Append(shares, Share(d, target, download))
        /\ UNCHANGED school
  BY Zenon DEF CreateShare
<1>2. CASE target.type # "student"
  BY <1>1, <1>2, IdleMemory, NothingReached DEF Start, ReachAts
<1>3. CASE target.type = "student"
  <2>1. PICK s \in Students : student[s] # None /\ target = ToStudent(s)
    BY <1>3 DEF ShareTargets, ToStudent, ToClass, ToInstitute
  <2>2. shares \in Seq(ShareRows)
    BY DEF TypeOK, TasksTyped
  <2>3. Len(shares) + 1 \in DOMAIN shares' /\ shares'[Len(shares) + 1] = Share(d, target, download)
    BY <1>1, <2>2
  <2>4. SharedWith(d, s)'
    BY <2>1, <2>3 DEF SharedWith, Share
  <2>5. TheStudent(s)'
    BY <1>1, <2>1 DEF TheStudent, school, people
  <2>6. d \notin Assignments
    BY ServicesAssumption DEF Stored
  <2>7. Reaches(d, s)'
    BY <2>4, <2>5, <2>6 DEF Reaches
  <2>8. ReachMemory(Tell(d, target))'
    <3> DEFINE m == Tell(d, target)
    <3>1. m.at = "tell" /\ m.to.type = "student" /\ m.about = d /\ m.to.id = s
      BY <2>1 DEF Tell, ToStudent
    <3> HIDE DEF m
    <3>2. ReachMemory(m)'
      BY <2>7, <3>1 DEF ReachMemory
    <3> QED
      BY <3>2 DEF m
  <2> QED
    BY <1>1, <1>3, <2>8 DEF Start
<1> QED
  BY <1>2, <1>3

LEMMA AssignmentReaches ==
  ASSUME TypeOK, NEW h \in Requests, CreateAssignment(h)
  PROVE  \E m : ReachMemory(m)' /\ req' = [req EXCEPT ![h] = m]
<1>1. PICK a, t, to, resubmission, late :
        /\ a \in Assignments
        /\ to \in {ToStudent(s) : s \in {x \in Students : student[x] # None}}
                  \cup {ToClass(c) : c \in {x \in Classes : class[x] # None /\ TeacherOf[x] = t}}
        /\ Start(h, Tell(a, to))
        /\ assignment' = [assignment EXCEPT ![a] = AssignmentRow(to, t, resubmission, late)]
        /\ UNCHANGED school
        /\ t \in Teachers /\ resubmission \in BOOLEAN /\ late \in BOOLEAN
  <2>1. PICK q \in Callers(h, "createAssignment", "assignment_manage"), a \in Assignments,
             resubmission \in BOOLEAN, late \in BOOLEAN :
          \E t \in ProfileOf(q) :
            \E to \in {ToStudent(s) : s \in {x \in Students : student[x] # None}}
                        \cup {ToClass(c) : c \in {x \in Classes : class[x] # None /\ TeacherOf[x] = t}} :
              /\ Start(h, Tell(a, to))
              /\ assignment' = [assignment EXCEPT ![a] = AssignmentRow(to, t, resubmission, late)]
              /\ UNCHANGED school
    BY Zenon DEF CreateAssignment
  <2> QED
    BY <2>1 DEF ProfileOf
<1>2. assignment'[a].to = to /\ assignment' \in [Assignments -> GivenRows \cup {None}] /\ a \in DOMAIN assignment
  <2>1. assignment \in [Assignments -> GivenRows \cup {None}]
    BY DEF TypeOK, TasksTyped
  <2>2. to \in Addressed
    BY <1>1 DEF Addressed, ToStudent, ToClass
  <2>3. AssignmentRow(to, t, resubmission, late) \in GivenRows /\ AssignmentRow(to, t, resubmission, late).to = to
    BY <1>1, <2>2 DEF AssignmentRow, GivenRows
  <2> QED
    BY <1>1, <2>1, <2>3
<1>3. assignment'[a] # None
  <2>1. assignment'[a] = AssignmentRow(to, t, resubmission, late)
    BY <1>1, <1>2
  <2>2. assignment'[a] \in GivenRows
    <3>1. to \in Addressed
      BY <1>1 DEF Addressed, ToStudent, ToClass
    <3> QED
      BY <1>1, <2>1, <3>1 DEF AssignmentRow, GivenRows
  <2> QED
    BY <2>1, <2>2, CourseworkAssumption DEF GivenRows, Addressed
<1> DEFINE m == Tell(a, to)
<1>4. m.at = "tell" /\ m.about = a /\ m.to = to
  BY DEF Tell
<1>5. req' = [req EXCEPT ![h] = m]
  BY <1>1 DEF Start
<1> HIDE DEF m
<1>6. ReachMemory(m)'
  <2>1. ASSUME NEW s \in Students, student[s] # None, to = ToStudent(s) PROVE ReachMemory(m)'
    <3>1. IsTarget(a, s)'
      BY <1>2, <2>1 DEF IsTarget
    <3>2. TheStudent(s)' /\ a \notin Documents
      BY <1>1, <2>1, ServicesAssumption DEF TheStudent, school, people
    <3>3. Reaches(a, s)'
      BY <1>1, <1>3, <3>1, <3>2 DEF Reaches
    <3>4. to.type = "student" /\ to.id = s
      BY <2>1 DEF ToStudent
    <3> QED
      BY <1>4, <3>3, <3>4 DEF ReachMemory
  <2>2. ASSUME NEW c, to = ToClass(c) PROVE ReachMemory(m)'
    <3>1. to.type = "class"
      BY <2>2 DEF ToClass
    <3> QED
      BY <1>1, <1>2, <1>3, <1>4, <3>1 DEF ReachMemory
  <2> QED
    BY <1>1, <2>1, <2>2
<1> QED
  BY <1>5, <1>6

\* A submission is of a student the assignment is for.
LEMMA CourseworkReaches ==
  ASSUME TypeOK, ReachInv, [Next]_vars, NEW h \in Requests, CourseworkMove(h)
  PROVE  \E m : ReachMemory(m)' /\ req' = [req EXCEPT ![h] = m]
<1>0. CourseworkMemory(req[h]) /\ ReachMemory(req[h])
  BY DEF TypeOK, RequestsTyped, Memory, ReachInv
<1>1. CASE CreateAssignment(h)
  BY <1>1, AssignmentReaches
<1>2. CASE CreateSubmission(h)
  <2>1. PICK q \in Tokens, a \in Given : \E s \in StudentOf(q) :
          /\ IsTarget(a, s)
          /\ Start(h, [at |-> "submit", submission |-> Submission(a, s, Cardinality(Attempts(a, s)) + 1)])
    BY <1>2, Called, Zenon DEF CreateSubmission
  <2>2. PICK s \in StudentOf(q) :
          /\ IsTarget(a, s)
          /\ Start(h, [at |-> "submit", submission |-> Submission(a, s, Cardinality(Attempts(a, s)) + 1)])
    BY <2>1
  <2>3. Reaches(a, s)
    BY <2>2, ServicesAssumption DEF Given, StudentOf, TheStudent, Reaches
  <2> DEFINE m == [at |-> "submit", submission |-> Submission(a, s, Cardinality(Attempts(a, s)) + 1)]
  <2>4. m.at = "submit" /\ m.submission.assignment = a /\ m.submission.student = s
    BY DEF Submission
  <2>5. req' = [req EXCEPT ![h] = m]
    BY <2>2 DEF Start
  <2> HIDE DEF m
  <2>6. ReachMemory(m)
    BY <2>3, <2>4 DEF ReachMemory
  <2> QED
    BY <2>5, <2>6, ReachMemoryStays
<1>3. CASE ReviewSubmission(h)
  <2>1. PICK i, grade, feedback :
          /\ i \in DOMAIN submissions
          /\ Start(h, [at |-> "saveReview", index |-> i,
                       row |-> [submissions[i] EXCEPT !.grade = IF grade = None THEN @ ELSE grade,
                                                      !.feedback = @ \/ feedback, !.reviewed = TRUE]])
    BY <1>3, Zenon DEF ReviewSubmission
  <2> DEFINE row == [submissions[i] EXCEPT !.grade = IF grade = None THEN @ ELSE grade,
                                           !.feedback = @ \/ feedback, !.reviewed = TRUE]
             m == [at |-> "saveReview", index |-> i, row |-> row]
  <2>2. i \in DOMAIN submissions /\ submissions[i] \in SubmissionRows
    BY <2>1, RowOf DEF TypeOK, TasksTyped
  <2>3. row.assignment = submissions[i].assignment /\ row.student = submissions[i].student
    BY <2>2 DEF SubmissionRows
  <2>4. Reaches(submissions[i].assignment, submissions[i].student)
    BY <2>2 DEF ReachInv
  <2>5. req' = [req EXCEPT ![h] = m]
    BY <2>1 DEF Start
  <2> HIDE DEF row
  <2>6. m.at = "saveReview" /\ m.row = row
    OBVIOUS
  <2> HIDE DEF m
  <2>7. ReachMemory(m)
    BY <2>3, <2>4, <2>6 DEF ReachMemory
  <2> QED
    BY <2>5, <2>7, ReachMemoryStays
<1>4. CASE SaveReview(h)
  <2> DEFINE m == Tell(req[h].row.assignment, ToStudent(req[h].row.student))
  <2>1. Reaches(req[h].row.assignment, req[h].row.student)
    BY <1>0, <1>4 DEF SaveReview, ReachMemory
  <2>2. /\ m.at = "tell" /\ m.about = req[h].row.assignment
        /\ m.to.type = "student" /\ m.to.id = req[h].row.student
    BY DEF Tell, ToStudent
  <2>3. req' = [req EXCEPT ![h] = m]
    BY <1>4 DEF SaveReview, Goes
  <2> HIDE DEF m
  <2>4. ReachMemory(m)
    BY <2>1, <2>2 DEF ReachMemory
  <2> QED
    BY <2>3, <2>4, ReachMemoryStays
<1>5. CASE Submit(h) \/ CreateMetricDefinition(h) \/ RecordPerformance(h)
  <2>1. req' = [req EXCEPT ![h] = Idle]
    BY <1>5 DEF Submit, CreateMetricDefinition, RecordPerformance, Start, Reply, Goes
  <2> QED
    BY <2>1, NothingReached, IdleMemory DEF ReachAts
<1> QED
  BY <1>1, <1>2, <1>3, <1>4, <1>5 DEF CourseworkMove, CourseworkStep

\* A request that starts elsewhere is not about them.
LEMMA StartsElsewhere ==
  ASSUME NEW h, NEW m, Start(h, m), m.at \notin ReachAts
  PROVE  \E x : ReachMemory(x)' /\ req' = [req EXCEPT ![h] = x]
BY NothingReached DEF Start

\* A seat is for a student that exists.
LEMMA ClassroomReaches ==
  ASSUME TypeOK, ReachInv, [Next]_vars, NEW h \in Requests, ClassroomMove(h)
  PROVE  \E m : ReachMemory(m)' /\ req' = [req EXCEPT ![h] = m]
<1>0. ReachMemory(req[h]) /\ ClassroomMemory(req[h])
  BY DEF ReachInv, TypeOK, RequestsTyped, Memory
<1>1. CASE Enroll(h)
  <2>1. PICK q \in Tokens, s \in Students : \E c \in Writable(q) :
          /\ student[s] # None
          /\ Start(h, [at |-> "countSeats", seat |-> Seat(c, s), capacity |-> class[c].capacity])
    BY <1>1, Called, Zenon DEF Enroll
  <2>2. PICK c \in Writable(q) :
          /\ student[s] # None
          /\ Start(h, [at |-> "countSeats", seat |-> Seat(c, s), capacity |-> class[c].capacity])
    BY <2>1
  <2> DEFINE m == [at |-> "countSeats", seat |-> Seat(c, s), capacity |-> class[c].capacity]
  <2>3. m.at = "countSeats" /\ m.seat.student = s /\ TheStudent(s) /\ req' = [req EXCEPT ![h] = m]
    BY <2>2 DEF Start, Seat, TheStudent
  <2> HIDE DEF m
  <2>4. ReachMemory(m)
    BY <2>3 DEF ReachMemory
  <2> QED
    BY <2>3, <2>4, ReachMemoryStays
<1>2. CASE CountSeats(h)
  <2>0. req[h] \in [at : {req[h].at}, seat : EnrolledRows, capacity : Nat] /\ req[h].at = "countSeats"
    BY <1>0, <1>2 DEF CountSeats, ClassroomMemory
  <2> DEFINE m == [req[h] EXCEPT !.at = "takeSeat"]
  <2>1. m.at = "takeSeat" /\ m.seat = req[h].seat /\ TheStudent(req[h].seat.student)
    BY <1>0, <2>0 DEF ReachMemory
  <2>2. req' = [req EXCEPT ![h] = m] \/ req' = [req EXCEPT ![h] = Idle]
    BY <1>2 DEF CountSeats, Reply, Goes
  <2> HIDE DEF m
  <2>3. ReachMemory(m)
    BY <2>1 DEF ReachMemory
  <2> QED
    BY <2>2, <2>3, ReachMemoryStays, NothingReached, IdleMemory DEF ReachAts
<1>3. CASE ~Enroll(h) /\ ~CountSeats(h)
  <2>1. CASE UpdateClass(h)
    <3>1. PICK c, row : Start(h, [at |-> "saveClass", class |-> c, row |-> row])
      BY <2>1, Zenon DEF UpdateClass
    <3> QED
      BY <3>1, StartsElsewhere DEF ReachAts
  <2>2. CASE CreateSchedule(h)
    <3>1. PICK c, current, version :
            Start(h, [at |-> "schedule", class |-> c, current |-> current, version |-> version])
      BY <2>2, Zenon DEF CreateSchedule
    <3> QED
      BY <3>1, StartsElsewhere DEF ReachAts
  <2>3. CASE AddToWaitlist(h)
    <3>1. PICK entry : Start(h, [at |-> "wait", entry |-> entry])
      BY <2>3, Zenon DEF AddToWaitlist
    <3> QED
      BY <3>1, StartsElsewhere DEF ReachAts
  <2>4. CASE CreateClass(h) \/ SaveClass(h) \/ OpenVersion(h) \/ CreateException(h) \/ TakeSeat(h) \/ Wait(h)
    <3>1. req' = [req EXCEPT ![h] = Idle]
      BY <2>4 DEF CreateClass, SaveClass, OpenVersion, CreateException, TakeSeat, Wait, Start, Reply, Goes
    <3> QED
      BY <3>1, NothingReached, IdleMemory DEF ReachAts
  <2> QED
    BY <1>3, <2>1, <2>2, <2>3, <2>4 DEF ClassroomMove, ClassroomStep
<1> QED
  BY <1>1, <1>2, <1>3

\* The other services do not come to its statements.
LEMMA OthersReach ==
  ASSUME TypeOK, ReachInv, [Next]_vars, NEW h \in Requests,
         \/ RecordsMove(h) \/ RegistrationMove(h) \/ AffiliationMove(h) \/ TellMove(h)
         \/ SharingMove(h)
  PROVE  \E m : ReachMemory(m)' /\ req' = [req EXCEPT ![h] = m]
<1>1. ASSUME NEW ats, Runs(h, ats), ats \cap ReachAts = {}
      PROVE  \E m : ReachMemory(m)' /\ req' = [req EXCEPT ![h] = m]
  <2>1. PICK m : m.at \in ats /\ req' = [req EXCEPT ![h] = m]
    BY <1>1 DEF Runs
  <2> QED
    BY <1>1, <2>1, NothingReached
<1>2. /\ RecordsAts \cap ReachAts = {} /\ RegistrationAts \cap ReachAts = {} /\ AffiliationAts \cap ReachAts = {}
      /\ {"idle"} \cap ReachAts = {}
  BY DEF RecordsAts, RegistrationAts, AffiliationAts, ReachAts
<1>3. CASE SharingMove(h)
  <2>1. CASE CreateShare(h)
    BY <2>1, ShareReaches
  <2>2. CASE ~CreateShare(h)
    <3>1. req' = [req EXCEPT ![h] = Idle]
      BY <1>3, <2>2 DEF SharingMove, SharingStep, CreateDocument, GetFileContent, CreateAnnouncement, Start
    <3> QED
      BY <3>1, NothingReached, IdleMemory DEF ReachAts
  <2> QED
    BY <2>1, <2>2
<1> QED
  BY <1>1, <1>2, <1>3 DEF RecordsMove, RegistrationMove, AffiliationMove, TellMove

\* What reaches a student reaches that student at first, and after every step.
LEMMA ReachStart == Init => ReachInv
<1> SUFFICES ASSUME Init PROVE ReachInv
  OBVIOUS
<1>1. enrolled = FirstEnrolled /\ student = FirstStudent /\ submissions = <<>> /\ told = {}
  BY DEF Init, SchoolInit, CourseworkInit
<1>2. \A h \in Requests : ReachMemory(req[h])
  BY NothingReached, IdleMemory DEF Init, SchoolInit, ServerInit, ReachAts
<1> DEFINE existing == {s \in Students : FirstStudent[s] # None}
<1>3. FirstEnrolled \in Seq([class : Classes, student : existing])
  BY TablesAssumption
<1> HIDE DEF existing
<1>4. \A i \in DOMAIN enrolled : enrolled[i] \in [class : Classes, student : existing]
  BY <1>1, <1>3, RowOf
<1>5. \A s \in existing : TheStudent(s)
  BY <1>1 DEF existing, TheStudent
<1> QED
  BY <1>1, <1>2, <1>4, <1>5 DEF ReachInv

LEMMA ReachStep == TypeOK /\ ReachInv /\ [Next]_vars => ReachInv'
<1> SUFFICES ASSUME TypeOK, ReachInv, [Next]_vars PROVE ReachInv'
  OBVIOUS
<1>0. DOMAIN req = Requests
  BY DEF TypeOK, RequestsTyped
<1>1. ASSUME NEW k \in Requests PROVE ReachMemory(req[k])'
  <2>1. \A m : ReachMemory(m) => ReachMemory(m)'
    BY ReachMemoryStays
  <2>2. CASE RestMove
    <3>1. req'[k] = req[k] \/ req'[k] = Idle
      BY <1>0, <2>2 DEF RestMove, Die
    <3>2. PICK m : m = req'[k] /\ ReachMemory(m)
      BY <3>1, NothingReached, IdleMemory DEF ReachInv, ReachAts
    <3>3. ReachMemory(m)'
      BY <2>1, <3>2
    <3> QED
      BY <3>2, <3>3
  <2>3. CASE ~RestMove
    <3>1. PICK h \in Requests : \E m : ReachMemory(m)' /\ req' = [req EXCEPT ![h] = m]
      BY <2>3, Moves, OthersReach, ClassroomReaches, CourseworkReaches
    <3>2. PICK m : ReachMemory(m)' /\ req' = [req EXCEPT ![h] = m]
      BY <3>1
    <3>3. PICK x : x = req'[k] /\ ReachMemory(x)'
      <4>1. CASE k = h
        BY <1>0, <3>2, <4>1
      <4>2. CASE k # h
        BY <1>0, <2>1, <3>2, <4>2 DEF ReachInv
      <4> QED
        BY <4>1, <4>2
    <3> QED
      BY <3>3
  <2> QED
    BY <2>2, <2>3
<1>2. ASSUME NEW i \in DOMAIN enrolled' PROVE TheStudent(enrolled[i].student)'
  <2>1. PICK s : s = enrolled'[i].student /\ TheStudent(s)
    <3>1. CASE enrolled' = enrolled
      BY <1>2, <3>1 DEF ReachInv
    <3>2. ASSUME NEW h \in Requests, TakeSeat(h) PROVE TheStudent(enrolled'[i].student)
      <4>1. enrolled' = Append(enrolled, req[h].seat) /\ enrolled \in Seq(EnrolledRows) /\ TheStudent(req[h].seat.student)
        BY <3>2 DEF TakeSeat, TypeOK, ClassroomTyped, ReachInv, ReachMemory
      <4>2. (i \in DOMAIN enrolled /\ enrolled'[i] = enrolled[i]) \/ enrolled'[i] = req[h].seat
        BY <1>2, <4>1
      <4> QED
        BY <4>1, <4>2 DEF ReachInv
    <3>3. ASSUME NEW h \in Requests, ClassroomStep(h) PROVE TakeSeat(h) \/ enrolled' = enrolled
      BY <3>3 DEF ClassroomStep, CreateClass, UpdateClass, SaveClass, CreateSchedule, OpenVersion, CreateException,
                  Enroll, CountSeats, AddToWaitlist, Wait, school
    <3> QED
      BY <3>1, <3>2, <3>3, Moves DEF RecordsMove, RegistrationMove, AffiliationMove, ClassroomMove, SharingMove,
         CourseworkMove, TellMove, RestMove, school
  <2>2. TheStudent(s)'
    BY <2>1, StudentsStay
  <2> QED
    BY <2>1, <2>2 DEF TheStudent
<1>3. ASSUME NEW i \in DOMAIN submissions' PROVE Reaches(submissions[i].assignment, submissions[i].student)'
  <2>1. PICK a, s : a = submissions'[i].assignment /\ s = submissions'[i].student /\ Reaches(a, s)
    <3>1. CASE submissions' = submissions
      BY <1>3, <3>1 DEF ReachInv
    <3>2. ASSUME NEW h \in Requests, Submit(h)
          PROVE  Reaches(submissions'[i].assignment, submissions'[i].student)
      <4>1. submissions' = Append(submissions, req[h].submission) /\ submissions \in Seq(SubmissionRows)
            /\ Reaches(req[h].submission.assignment, req[h].submission.student)
        BY <3>2 DEF Submit, TypeOK, TasksTyped, ReachInv, ReachMemory
      <4>2. (i \in DOMAIN submissions /\ submissions'[i] = submissions[i]) \/ submissions'[i] = req[h].submission
        BY <1>3, <4>1
      <4> QED
        BY <4>1, <4>2 DEF ReachInv
    <3>3. ASSUME NEW h \in Requests, SaveReview(h)
          PROVE  Reaches(submissions'[i].assignment, submissions'[i].student)
      <4>1. submissions' = [submissions EXCEPT ![req[h].index] = req[h].row]
            /\ Reaches(req[h].row.assignment, req[h].row.student)
        BY <3>3 DEF SaveReview, ReachInv, ReachMemory
      <4>2. i \in DOMAIN submissions /\ (submissions'[i] = submissions[i] \/ submissions'[i] = req[h].row)
        BY <1>3, <4>1
      <4> QED
        BY <4>1, <4>2 DEF ReachInv
    <3>4. ASSUME NEW h \in Requests, CourseworkStep(h) PROVE Submit(h) \/ SaveReview(h) \/ submissions' = submissions
      BY <3>4 DEF CourseworkStep, CreateAssignment, CreateSubmission, ReviewSubmission, CreateMetricDefinition,
                  RecordPerformance, coursework
    <3> QED
      BY <3>1, <3>2, <3>3, <3>4, Moves DEF RecordsMove, RegistrationMove, AffiliationMove, ClassroomMove,
         SharingMove, CourseworkMove, TellMove, RestMove, services, coursework
  <2>2. Reaches(a, s)'
    BY <2>1, ReachesStay
  <2> QED
    BY <2>1, <2>2
<1>4. ASSUME NEW x \in told' PROVE Reaches(x.about, x.student)'
  <2>1. told' = told \/ \E h \in Requests : TellStudentParty(h)
    BY Moves DEF RecordsMove, RegistrationMove, AffiliationMove, ClassroomMove, SharingMove, CourseworkMove, TellMove,
                 RestMove, school
  <2>2. Reaches(x.about, x.student)
    BY <1>4, <2>1, ToldReached DEF ReachInv
  <2> QED
    BY <2>2, ReachesStay
<1> QED
  BY <1>1, <1>2, <1>3, <1>4 DEF ReachInv

-----------------------------------------------------------------------------
(* Who was told is a student, or was then a student's guardian; what ends  *)
(* it is a merge, or another parent who joins the same guardian.           *)

Connected(u, s) == UserOf[s] = u \/ \E g \in GuardiansOf(s) : login[g] = u
WasMerged(s) == \E i \in DOMAIN mergeLog : mergeLog[i].merged = s
MergedTwice == \E i, j \in DOMAIN mergeLog : i # j /\ mergeLog[i].merged = mergeLog[j].merged
Replaced(u, s) == \E g \in GuardiansOf(s) : u \in Accounts /\ login[g] \in Accounts \ {u}
Lost(u, s) == WasMerged(s) \/ (~Serial /\ Replaced(u, s)) \/ (~Serial /\ MergedTwice)

\* The links a merge has found are the merged student's, unless another merge moved them first; the
\* guardians a registration has found had no account.
LinkMemory(m) ==
  /\ m.at = "mergeCommit" =>
       \A i \in m.links : i \in DOMAIN linked /\ (linked[i].student = m.merged
                                                    \/ (~Serial /\ (WasMerged(m.merged) \/ MergedTwice)))
  /\ m.at = "joinGuardians" => \A g \in m.found : UserOf[g] = None /\ (Serial => login[g] = None)
ConnectInv ==
  /\ \A x \in told : x.user # None /\ (Connected(x.user, x.student) \/ Lost(x.user, x.student))
  /\ \A h \in Requests : LinkMemory(req[h])

\* What the log of merges says stays true.
LEMMA LogGrows ==
  ASSUME TypeOK, [Next]_vars
  PROVE  /\ \A s : WasMerged(s) => WasMerged(s)'
         /\ MergedTwice => MergedTwice'
         /\ Serial' = Serial
<1>1. \A i \in DOMAIN mergeLog : i \in DOMAIN mergeLog' /\ mergeLog'[i] = mergeLog[i]
  <2>1. CASE mergeLog' = mergeLog
    BY <2>1
  <2>2. ASSUME NEW row, mergeLog' = Append(mergeLog, row)
        PROVE  \A i \in DOMAIN mergeLog : i \in DOMAIN mergeLog' /\ mergeLog'[i] = mergeLog[i]
    <3>1. mergeLog \in Seq([surviving : Students, merged : Students])
      BY DEF TypeOK, PeopleTyped
    <3> QED
      BY <2>2, <3>1
  <2>3. ASSUME NEW h \in Requests, RecordsStep(h) PROVE mergeLog' = mergeLog \/ \E row : mergeLog' = Append(mergeLog, row)
    BY <2>3 DEF RecordsStep, CreateStudent, CreateCommit, UpdateStudent, ArchiveStudent, LoadStudent, SaveStudent,
       AddGuardian, LinkGuardian, StartMerge, MergeFind, MergeCommit
  <2> QED
    BY <2>1, <2>2, <2>3, Moves DEF RecordsMove, RegistrationMove, AffiliationMove, ClassroomMove, SharingMove,
       CourseworkMove, TellMove, RestMove, services
<1>2. Serial' = Serial
  BY Moves DEF RecordsMove, RegistrationMove, AffiliationMove, ClassroomMove, SharingMove, CourseworkMove, TellMove,
               RestMove, Runs, Serial
<1> QED
  BY <1>1, <1>2 DEF WasMerged, MergedTwice

\* A link keeps its guardian, and its student unless a merge moves it.
LEMMA LinksKept ==
  ASSUME TypeOK, [Next]_vars, NEW i \in DOMAIN linked
  PROVE  /\ i \in DOMAIN linked' /\ linked'[i].guardian = linked[i].guardian
         /\ \/ linked'[i].student = linked[i].student
            \/ \E h \in Requests :
                 /\ MergeCommit(h) /\ i \in req[h].links
                 /\ mergeLog' = Append(mergeLog, [surviving |-> req[h].surviving, merged |-> req[h].merged])
<1>0. linked \in Seq(LinkedRows)
  BY DEF TypeOK, PeopleTyped
<1>1. CASE linked' = linked
  BY <1>1
<1>2. ASSUME NEW h \in Requests, RecordsStep(h), linked' # linked, ~MergeCommit(h)
      PROVE  i \in DOMAIN linked' /\ linked'[i] = linked[i]
  <2>0. RecordsMemory(req[h])
    BY DEF TypeOK, RequestsTyped, Memory
  <2>1. \E more \in Seq(LinkedRows) : linked' = linked \o more
    <3>1. CASE CreateCommit(h)
      <4> DEFINE new == SetToSeq({Link(req[h].student, g) : g \in req[h].guardians})
      <4>1. req[h].student \in Students /\ req[h].guardians \in SUBSET Guardians
        BY <2>0, <3>1 DEF CreateCommit, RecordsMemory
      <4>2. new \in Seq(LinkedRows)
        BY <4>1, NewLinksTyped
      <4>3. linked' = linked \o new
        BY <3>1 DEF CreateCommit
      <4> QED
        BY <4>2, <4>3
    <3>2. CASE LinkGuardian(h)
      <4>1. linked' = Append(linked, req[h].link) /\ req[h].link \in LinkedRows
        BY <1>2, <2>0, <3>2 DEF LinkGuardian, RecordsMemory
      <4>2. <<req[h].link>> \in Seq(LinkedRows) /\ Append(linked, req[h].link) = linked \o <<req[h].link>>
        BY <1>0, <4>1
      <4> QED
        BY <4>1, <4>2
    <3> QED
      BY <1>2, <3>1, <3>2 DEF RecordsStep, CreateStudent, UpdateStudent, ArchiveStudent, LoadStudent, SaveStudent,
         AddGuardian, StartMerge, MergeFind, school, people
  <2>2. PICK more \in Seq(LinkedRows) : linked' = linked \o more
    BY <2>1
  <2> QED
    BY <1>0, <2>2, ConcatProperties, LenProperties
<1>3. ASSUME NEW h \in Requests, MergeCommit(h), linked' # linked
      PROVE  /\ i \in DOMAIN linked' /\ linked'[i].guardian = linked[i].guardian
             /\ \/ linked'[i].student = linked[i].student
                \/ /\ i \in req[h].links
                   /\ mergeLog' = Append(mergeLog, [surviving |-> req[h].surviving, merged |-> req[h].merged])
  <2>1. /\ linked' = Moved(linked, req[h].links, req[h].surviving)
        /\ mergeLog' = Append(mergeLog, [surviving |-> req[h].surviving, merged |-> req[h].merged])
    BY <1>3 DEF MergeCommit, people
  <2>2. DOMAIN linked[i] = {"student", "guardian"}
    BY Columns
  <2> QED
    BY <2>1, <2>2 DEF Moved
<1>4. linked' = linked \/ \E h \in Requests : RecordsStep(h)
  BY Moves DEF RecordsMove, RegistrationMove, AffiliationMove, ClassroomMove, SharingMove, CourseworkMove, TellMove,
               RestMove, school, people
<1> QED
  BY <1>1, <1>2, <1>3, <1>4

\* A link that moves was the merged student's.
LEMMA MovedAway ==
  ASSUME TypeOK, ConnectInv, [Next]_vars,
         NEW i \in DOMAIN linked, NEW s, linked[i].student = s, linked'[i].student # s
  PROVE  WasMerged(s)' \/ (~Serial /\ MergedTwice')
<1>1. PICK h \in Requests :
        /\ MergeCommit(h) /\ i \in req[h].links
        /\ mergeLog' = Append(mergeLog, [surviving |-> req[h].surviving, merged |-> req[h].merged])
  BY LinksKept
<1>2. mergeLog \in Seq([surviving : Students, merged : Students])
  BY DEF TypeOK, PeopleTyped
<1> DEFINE n == Len(mergeLog) + 1
<1>3. /\ n \in DOMAIN mergeLog' /\ mergeLog'[n].merged = req[h].merged /\ n \notin DOMAIN mergeLog
      /\ \A k \in DOMAIN mergeLog : k \in DOMAIN mergeLog' /\ mergeLog'[k] = mergeLog[k]
  BY <1>1, <1>2
<1> HIDE DEF n
<1>4. s = req[h].merged \/ (~Serial /\ (WasMerged(req[h].merged) \/ MergedTwice))
  BY <1>1 DEF MergeCommit, ConnectInv, LinkMemory
<1>5. CASE s = req[h].merged
  BY <1>3, <1>5 DEF WasMerged
<1>6. CASE s # req[h].merged /\ WasMerged(req[h].merged)
  <2>1. PICK k \in DOMAIN mergeLog : mergeLog[k].merged = req[h].merged
    BY <1>6 DEF WasMerged
  <2>2. k # n /\ k \in DOMAIN mergeLog' /\ mergeLog'[k].merged = mergeLog'[n].merged
    BY <1>3, <2>1
  <2>3. MergedTwice'
    BY <1>3, <2>2 DEF MergedTwice
  <2> QED
    BY <1>4, <1>6, <2>3
<1>7. CASE s # req[h].merged /\ MergedTwice
  BY <1>4, <1>7, LogGrows
<1> QED
  BY <1>4, <1>5, <1>6, <1>7

\* What is lost stays so.
LEMMA LostStays ==
  ASSUME TypeOK, [Next]_vars, NEW u, NEW s, WasMerged(s) \/ (~Serial /\ MergedTwice)
  PROVE  Lost(u, s)'
<1>1. WasMerged(s)' \/ (~Serial /\ MergedTwice')
  BY LogGrows
<1>2. ~Serial => ~Serial'
  BY LogGrows
<1> QED
  BY <1>1, <1>2 DEF Lost

\* Only register joins a guardian to an account.
LEMMA LoginsKept ==
  ASSUME TypeOK, [Next]_vars
  PROVE  login' = login \/ \E h \in Requests : JoinGuardian(h)
<1>1. ASSUME NEW h \in Requests, RecordsStep(h) \/ RegistrationStep(h) PROVE login' = login \/ JoinGuardian(h)
  BY <1>1 DEF RecordsStep, CreateStudent, CreateCommit, UpdateStudent, ArchiveStudent, LoadStudent, SaveStudent,
     AddGuardian, LinkGuardian, StartMerge, MergeFind, MergeCommit, RegistrationStep, Register, CreateUser,
     AssignRole, FindGuardians, school, people
<1> QED
  BY <1>1, Moves DEF RecordsMove, RegistrationMove, AffiliationMove, ClassroomMove, SharingMove,
     CourseworkMove, TellMove, RestMove, school, people

\* What it joins was joined to none, or to another of those who registered.
LEMMA Joins ==
  ASSUME TypeOK, KnownOK, ConnectInv, NEW h \in Requests, JoinGuardian(h)
  PROVE  \E g \in req[h].found :
           /\ login' = [login EXCEPT ![g] = req[h].user]
           /\ g \in Guardians /\ g \in DOMAIN login /\ UserOf[g] = None /\ req[h].user \in Accounts
           /\ Serial => login[g] = None
           /\ login[g] # None => login[g] \in Accounts
           /\ req' = [req EXCEPT ![h] = IF req[h].found = {g} THEN Idle ELSE [req[h] EXCEPT !.found = @ \ {g}]]
<1>1. req[h] \in [at : {"joinGuardians"}, user : Accounts, found : SUBSET Guardians] /\ DOMAIN login = Guardians
  BY DEF JoinGuardian, TypeOK, RequestsTyped, Memory, RegistrationMemory, PeopleTyped
<1>2. PICK g \in req[h].found :
        /\ login' = [login EXCEPT ![g] = req[h].user]
        /\ IF req[h].found = {g} THEN Reply(h) ELSE Goes(h, [req[h] EXCEPT !.found = @ \ {g}])
  BY DEF JoinGuardian
<1>3. UserOf[g] = None /\ (Serial => login[g] = None)
  BY <1>1 DEF ConnectInv, LinkMemory
<1>4. login[g] # None => login[g] \in Accounts
  BY <1>1, <1>3 DEF KnownOK, LoginsKnown
<1> QED
  BY <1>1, <1>2, <1>3, <1>4 DEF Reply, Goes

\* Who was told stays connected, but for what is said above.
LEMMA ConnectedStay ==
  ASSUME TypeOK, KnownOK, ConnectInv, [Next]_vars, NEW u, u # None, NEW s, Connected(u, s) \/ Lost(u, s)
  PROVE  (Connected(u, s) \/ Lost(u, s))'
<1>0. ~Serial => ~Serial'
  BY LogGrows
<1>1. CASE WasMerged(s) \/ (~Serial /\ MergedTwice)
  BY <1>1, LostStays
<1>2. CASE UserOf[s] = u
  BY <1>2 DEF Connected
<1>3. ASSUME NEW i \in DOMAIN linked, linked[i].student = s,
             login[linked[i].guardian] = u \/ (~Serial /\ u \in Accounts /\ login[linked[i].guardian] \in Accounts \ {u})
      PROVE  (Connected(u, s) \/ Lost(u, s))'
  <2> DEFINE g == linked[i].guardian
  <2>1. CASE linked'[i].student # s
    <3>1. WasMerged(s)' \/ (~Serial /\ MergedTwice')
      BY <1>3, <2>1, MovedAway
    <3> QED
      BY <1>0, <3>1 DEF Lost
  <2>2. CASE linked'[i].student = s
    <3>1. g \in GuardiansOf(s)'
      <4>1. i \in DOMAIN linked' /\ linked'[i].guardian = g
        BY LinksKept
      <4> QED
        BY <2>2, <4>1 DEF GuardiansOf
    <3> HIDE DEF g
    <3>2. CASE login'[g] = u
      BY <3>1, <3>2 DEF Connected
    <3>3. CASE login' = login /\ login'[g] # u
      BY <1>0, <1>3, <3>1, <3>3 DEF Lost, Replaced, g
    <3>4. ASSUME NEW h \in Requests, JoinGuardian(h), login'[g] # u PROVE Lost(u, s)'
      <4>1. PICK k \in req[h].found :
              /\ login' = [login EXCEPT ![k] = req[h].user]
              /\ k \in Guardians /\ k \in DOMAIN login /\ UserOf[k] = None /\ req[h].user \in Accounts
              /\ Serial => login[k] = None
              /\ login[k] # None => login[k] \in Accounts
        BY <3>4, Joins
      <4>2. CASE k # g
        <5>1. login'[g] = login[g]
          BY <4>1, <4>2
        <5> QED
          BY <1>0, <1>3, <3>1, <3>4, <5>1 DEF Lost, Replaced, g
      <4>3. CASE k = g
        <5>1. login'[g] = req[h].user /\ req[h].user \in Accounts \ {u}
          BY <3>4, <4>1, <4>3
        <5>2. ~Serial /\ u \in Accounts
          <6>1. CASE login[g] = u
            BY <4>1, <4>3, <6>1
          <6>2. CASE login[g] # u
            BY <1>3, <6>2 DEF g
          <6> QED
            BY <6>1, <6>2
        <5> QED
          BY <1>0, <3>1, <5>1, <5>2 DEF Lost, Replaced
      <4> QED
        BY <4>2, <4>3
    <3> QED
      BY <3>2, <3>3, <3>4, LoginsKept
  <2> QED
    BY <2>1, <2>2
<1> QED
  BY <1>1, <1>2, <1>3 DEF Connected, Lost, Replaced, GuardiansOf

\* Who is told is connected.
LEMMA ToldConnected ==
  ASSUME TypeOK, ConnectInv, NEW h \in Requests, TellStudentParty(h), NEW x \in told'
  PROVE  x.user # None /\ (Connected(x.user, x.student) \/ Lost(x.user, x.student))
<1>1. CASE x \in told
  BY <1>1 DEF ConnectInv
<1>2. CASE x \notin told
  <2> DEFINE to == req[h].to
             audience == IF to.type = "class" THEN Roster(to.id) ELSE {to.id}
  <2>1. told' = told \cup UNION {{[user |-> u, about |-> req[h].about, student |-> s] : u \in NotifiableUsers(s)} : s \in audience}
    BY DEF TellStudentParty
  <2> HIDE DEF audience
  <2>2. PICK s \in audience : \E u \in NotifiableUsers(s) : x = [user |-> u, about |-> req[h].about, student |-> s]
    BY <1>2, <2>1
  <2>3. PICK u \in NotifiableUsers(s) : x = [user |-> u, about |-> req[h].about, student |-> s]
    BY <2>2
  <2>4. x.user = u /\ x.student = s
    BY <2>3
  <2> QED
    BY <2>4 DEF NotifiableUsers, Connected
<1> QED
  BY <1>1, <1>2

\* Only a merge comes to its commit, only a registration to the guardians it joins.
LinkAts == {"mergeCommit", "joinGuardians"}
LEMMA MemoryCases ==
  ASSUME TypeOK, [Next]_vars, NEW k \in Requests, req'[k].at \in LinkAts
  PROVE  req'[k] = req[k] \/ MergeFind(k) \/ FindGuardians(k) \/ JoinGuardian(k)
<1>0. RequestsTyped /\ DOMAIN req = Requests
  BY DEF TypeOK, RequestsTyped
<1>1. CASE Calm(LinkAts)
  BY <1>0, <1>1, CalmKeeps
<1>2. ASSUME NEW h \in Requests, AffiliationMove(h) \/ ClassroomMove(h) \/ SharingMove(h)
                                   \/ CourseworkMove(h) \/ TellMove(h)
      PROVE  Calm(LinkAts)
  BY <1>2, RunsCalm DEF AffiliationMove, ClassroomMove, SharingMove, CourseworkMove, TellMove,
     AffiliationAts, ClassroomAts, SharingAts, CourseworkAts, LinkAts
<1>3. ASSUME NEW h \in Requests, RecordsMove(h), ~MergeFind(h) PROVE Calm(LinkAts)
  <2>1. CASE CreateStudent(h)
    <3>1. PICK s, t, i, G : Start(h, [at |-> "createStudent", student |-> s, teacher |-> t, institute |-> i, guardians |-> G])
      BY <2>1, Zenon DEF CreateStudent
    <3> QED
      BY <3>1, GoesCalm DEF LinkAts
  <2>2. CASE UpdateStudent(h) \/ ArchiveStudent(h)
    <3>1. PICK s, row : Start(h, [at |-> "saveStudent", student |-> s, row |-> row])
      BY <2>2, Zenon DEF UpdateStudent, ArchiveStudent, LoadStudent
    <3> QED
      BY <3>1, GoesCalm DEF LinkAts
  <2>3. CASE AddGuardian(h)
    <3>1. PICK link : Start(h, [at |-> "addGuardian", link |-> link])
      BY <2>3, Zenon DEF AddGuardian
    <3> QED
      BY <3>1, GoesCalm DEF LinkAts
  <2>4. CASE StartMerge(h)
    <3>1. PICK s, m, row : Start(h, [at |-> "mergeFind", surviving |-> s, merged |-> m, row |-> row])
      BY <2>4, Zenon DEF StartMerge
    <3> QED
      BY <3>1, GoesCalm DEF LinkAts
  <2>5. CASE CreateCommit(h) \/ SaveStudent(h) \/ LinkGuardian(h) \/ MergeCommit(h)
    <3>1. Reply(h)
      BY <2>5 DEF CreateCommit, SaveStudent, LinkGuardian, MergeCommit
    <3> QED
      BY <3>1, ReplyCalm DEF LinkAts
  <2> QED
    BY <1>3, <2>1, <2>2, <2>3, <2>4, <2>5 DEF RecordsMove, RecordsStep
<1>4. ASSUME NEW h \in Requests, RegistrationMove(h), ~FindGuardians(h), ~JoinGuardian(h) PROVE Calm(LinkAts)
  <2>0. RegistrationMemory(req[h])
    BY DEF TypeOK, RequestsTyped, Memory
  <2>1. CASE Register(h)
    <3>1. PICK u, role : Start(h, [at |-> "createUser", user |-> u, role |-> role])
      BY <2>1, Zenon DEF Register
    <3> QED
      BY <3>1, GoesCalm DEF LinkAts
  <2>2. CASE Reply(h)
    BY <2>2, ReplyCalm DEF LinkAts
  <2>3. ASSUME NEW at, at \notin LinkAts, Goes(h, [req[h] EXCEPT !.at = at]), "at" \in DOMAIN req[h] PROVE Calm(LinkAts)
    <3> DEFINE m == [req[h] EXCEPT !.at = at]
    <3>1. m.at = at /\ Goes(h, m)
      BY <2>3
    <3> HIDE DEF m
    <3> QED
      BY <2>3, <3>1, GoesCalm
  <2>4. "at" \in DOMAIN req[h]
    BY DEF TypeOK, RequestsTyped, Memory
  <2>5. CASE CreateUser(h)
    <3>1. Reply(h) \/ Goes(h, [req[h] EXCEPT !.at = "assignRole"])
      BY <2>5, Zenon DEF CreateUser
    <3> QED
      BY <2>2, <2>3, <2>4, <3>1 DEF LinkAts
  <2>6. CASE AssignRole(h)
    <3>1. Reply(h) \/ Goes(h, [req[h] EXCEPT !.at = "findGuardians"])
      BY <2>6, Zenon DEF AssignRole
    <3> QED
      BY <2>2, <2>3, <2>4, <3>1 DEF LinkAts
  <2> QED
    BY <1>4, <2>1, <2>5, <2>6 DEF RegistrationMove, RegistrationStep
<1>5. ASSUME NEW h \in Requests, h # k, RecordsMove(h) \/ RegistrationMove(h) PROVE req'[k] = req[k]
  BY <1>0, <1>5 DEF RecordsMove, RegistrationMove, Runs
<1>6. CASE RestMove
  BY <1>1, <1>6, RestCalm DEF LinkAts
<1> QED
  BY <1>1, <1>2, <1>3, <1>4, <1>5, <1>6, Moves

\* What a request remembers of links and guardians stays true while it keeps it.
LEMMA KeptMemory ==
  ASSUME TypeOK, Alone, KnownOK, ConnectInv, [Next]_vars, NEW k \in Requests, NEW m, m = req[k], m = req'[k]
  PROVE  LinkMemory(m)'
<1>0. LinkMemory(m) /\ Serial' = Serial /\ DOMAIN req = Requests
  BY LogGrows DEF ConnectInv, TypeOK, RequestsTyped
<1>1. ASSUME m.at = "mergeCommit", NEW i \in m.links
      PROVE  i \in DOMAIN linked' /\ (linked'[i].student = m.merged
                                        \/ (~Serial' /\ (WasMerged(m.merged)' \/ MergedTwice')))
  <2>1. i \in DOMAIN linked /\ (linked[i].student = m.merged \/ (~Serial /\ (WasMerged(m.merged) \/ MergedTwice)))
    BY <1>0, <1>1 DEF LinkMemory
  <2>2. i \in DOMAIN linked'
    BY <2>1, LinksKept
  <2>3. CASE ~Serial /\ (WasMerged(m.merged) \/ MergedTwice)
    BY <1>0, <2>2, <2>3, LogGrows
  <2>4. CASE linked[i].student = m.merged /\ linked'[i].student # m.merged
    <3>1. WasMerged(m.merged)' \/ (~Serial /\ MergedTwice')
      BY <2>1, <2>4, MovedAway
    <3>2. ~Serial
      <4>1. PICK h \in Requests : MergeCommit(h)
        BY <2>1, <2>4, LinksKept
      <4>2. req[h].at = "mergeCommit" /\ req'[h] = Idle
        BY <1>0, <4>1 DEF MergeCommit, Reply, Goes
      <4>3. h # k
        BY <1>1, <4>2, IdleMemory
      <4> QED
        BY <1>1, <4>2, <4>3 DEF Alone
    <3> QED
      BY <1>0, <2>2, <3>1, <3>2
  <2> QED
    BY <2>1, <2>2, <2>3, <2>4
<1>2. ASSUME m.at = "joinGuardians", NEW g \in m.found
      PROVE  UserOf[g] = None /\ (Serial' => login'[g] = None)
  <2>1. UserOf[g] = None /\ (Serial => login[g] = None)
    BY <1>0, <1>2 DEF LinkMemory
  <2>2. ASSUME NEW h \in Requests, JoinGuardian(h), Serial PROVE login'[g] = None
    <3>1. h = k
      BY <1>2, <2>2 DEF Alone, JoinGuardian
    <3>2. PICK x \in req[h].found :
            req' = [req EXCEPT ![h] = IF req[h].found = {x} THEN Idle ELSE [req[h] EXCEPT !.found = @ \ {x}]]
      BY <2>2, Joins
    <3>3. req[h] \in [at : {"joinGuardians"}, user : Accounts, found : SUBSET Guardians]
      BY <1>2, <3>1 DEF TypeOK, RequestsTyped, Memory, RegistrationMemory
    <3>4. CASE req[h].found = {x}
      BY <1>0, <1>2, <3>1, <3>2, <3>4, IdleMemory
    <3>5. CASE req[h].found # {x}
      <4>1. req'[h] = [req[h] EXCEPT !.found = @ \ {x}]
        BY <1>0, <3>2, <3>5
      <4>2. req'[h].found = req[h].found \ {x}
        BY <3>3, <4>1
      <4> QED
        BY <3>1, <3>2, <4>2
    <3> QED
      BY <3>4, <3>5
  <2> QED
    BY <1>0, <2>1, <2>2, LoginsKept
<1> QED
  BY <1>1, <1>2 DEF LinkMemory

\* What a request comes to remember of them is true.
LEMMA NewMemory ==
  ASSUME TypeOK, KnownOK, ConnectInv, [Next]_vars, NEW k \in Requests,
         MergeFind(k) \/ FindGuardians(k) \/ JoinGuardian(k), NEW m, m = req'[k]
  PROVE  LinkMemory(m)'
<1>0. /\ Serial' = Serial /\ DOMAIN req = Requests
      /\ linked \in Seq(LinkedRows)
  BY LogGrows DEF TypeOK, RequestsTyped, PeopleTyped
<1>1. CASE MergeFind(k)
  <2> DEFINE r == req[k]
             x == [at |-> "mergeCommit", surviving |-> r.surviving, merged |-> r.merged, row |-> r.row,
                   assignments |-> Moving(assigned, "teacher", r.surviving, r.merged),
                   links |-> Moving(linked, "guardian", r.surviving, r.merged)]
  <2>1. m = x /\ UNCHANGED linked
    BY <1>0, <1>1 DEF MergeFind, Goes, school, people
  <2>2. x.at = "mergeCommit" /\ x.merged = r.merged /\ x.links = Moving(linked, "guardian", r.surviving, r.merged)
    OBVIOUS
  <2> HIDE DEF x
  <2>3. \A i \in x.links : i \in DOMAIN linked /\ linked[i].student = x.merged
    BY <2>2 DEF Moving
  <2> QED
    BY <2>1, <2>2, <2>3 DEF LinkMemory
<1>2. CASE FindGuardians(k)
  <2>1. CASE m = Idle
    BY <2>1, IdleMemory DEF LinkMemory
  <2>2. CASE m = [at |-> "joinGuardians", user |-> req[k].user, found |-> FoundGuardians(req[k].user)]
    <3>1. m.at = "joinGuardians" /\ m.found = FoundGuardians(req[k].user) /\ login' = login
      BY <1>2, <2>2 DEF FindGuardians, school, people
    <3>2. ASSUME NEW g \in m.found PROVE UserOf[g] = None /\ login'[g] = None
      <4>1. login[g] = None /\ g \in GuardianRows
        BY <3>1, <3>2 DEF FoundGuardians
      <4>2. g \in Guardians
        <5>1. PICK i \in DOMAIN linked : g = linked[i].guardian
          BY <4>1 DEF GuardianRows
        <5>2. linked[i] \in LinkedRows
          BY <1>0, <5>1, RowOf
        <5> QED
          BY <5>1, <5>2 DEF LinkedRows
      <4> QED
        BY <3>1, <4>1, <4>2, RegistrationAssumption DEF KnownOK, LoginsKnown
    <3> QED
      BY <3>1, <3>2 DEF LinkMemory
  <2> QED
    BY <1>0, <1>2, <2>1, <2>2 DEF FindGuardians, Goes, Reply
<1>3. CASE JoinGuardian(k)
  <2>1. req[k] \in [at : {"joinGuardians"}, user : Accounts, found : SUBSET Guardians] /\ DOMAIN login = Guardians
    BY <1>3 DEF JoinGuardian, TypeOK, RequestsTyped, Memory, RegistrationMemory, PeopleTyped
  <2>2. PICK g \in req[k].found :
          /\ login' = [login EXCEPT ![g] = req[k].user]
          /\ req' = [req EXCEPT ![k] = IF req[k].found = {g} THEN Idle ELSE [req[k] EXCEPT !.found = @ \ {g}]]
    BY <1>3, Joins
  <2>3. CASE req[k].found = {g}
    <3>1. m = Idle
      BY <1>0, <2>2, <2>3
    <3> QED
      BY <3>1, IdleMemory DEF LinkMemory
  <2>4. CASE req[k].found # {g}
    <3>1. m = [req[k] EXCEPT !.found = @ \ {g}]
      BY <1>0, <2>2, <2>4
    <3>2. m.at = "joinGuardians" /\ m.found = req[k].found \ {g}
      BY <2>1, <3>1
    <3>3. \A x \in m.found : login'[x] = login[x]
      BY <2>1, <2>2, <3>2
    <3>4. \A x \in m.found : UserOf[x] = None /\ (Serial => login[x] = None)
      BY <2>1, <3>2 DEF ConnectInv, LinkMemory
    <3> QED
      BY <1>0, <3>2, <3>3, <3>4 DEF LinkMemory
  <2> QED
    BY <2>3, <2>4
<1> QED
  BY <1>1, <1>2, <1>3

LEMMA ConnectStart == Init => ConnectInv
BY IdleMemory DEF Init, SchoolInit, ServerInit, ConnectInv, LinkMemory

LEMMA ConnectStep == TypeOK /\ Alone /\ KnownOK /\ ConnectInv /\ [Next]_vars => ConnectInv'
<1> SUFFICES ASSUME TypeOK, Alone, KnownOK, ConnectInv, [Next]_vars PROVE ConnectInv'
  OBVIOUS
<1>1. ASSUME NEW k \in Requests PROVE LinkMemory(req[k])'
  <2>1. PICK m : m = req'[k]
    OBVIOUS
  <2>2. CASE m.at \notin LinkAts
    BY <2>1, <2>2 DEF LinkMemory, LinkAts
  <2>3. CASE m.at \in LinkAts
    <3>1. LinkMemory(m)'
      BY <2>1, <2>3, MemoryCases, KeptMemory, NewMemory
    <3> QED
      BY <2>1, <3>1
  <2> QED
    BY <2>2, <2>3
<1>2. ASSUME NEW x \in told' PROVE x.user # None /\ (Connected(x.user, x.student) \/ Lost(x.user, x.student))'
  <2>1. PICK u, s : u = x.user /\ s = x.student
    OBVIOUS
  <2>2. told' = told \/ \E h \in Requests : TellStudentParty(h)
    BY Moves DEF RecordsMove, RegistrationMove, AffiliationMove, ClassroomMove, SharingMove, CourseworkMove, TellMove,
                 RestMove, school
  <2>3. u # None /\ (Connected(u, s) \/ Lost(u, s))
    BY <1>2, <2>1, <2>2, ToldConnected DEF ConnectInv
  <2>4. (Connected(u, s) \/ Lost(u, s))'
    BY <2>3, ConnectedStay
  <2> QED
    BY <2>1, <2>3, <2>4
<1> QED
  BY <1>1, <1>2 DEF ConnectInv

\* Who is connected to a student is the student or a parent.
LEMMA ConnectedReads ==
  ASSUME NEW q \in Tokens, NEW s, TheStudent(s), Connected(q.user, s)
  PROVE  s \in StudentOf(q) \cup ChildrenOf(q)
BY DEF TheStudent, Connected, StudentOf, ChildrenOf, GuardiansOf

\* Whoever was told of a document can open it, and a student who was told of an assignment can read it.
LEMMA ToldReads ==
  ASSUME TypeOK, ReachInv, ConnectInv
  PROVE  ToldCanRead
<1>1. ASSUME NEW x \in told, NEW q \in Tokens, q.user = x.user, x.about \in Documents
      PROVE  \/ CanReadDocument(x.about, q)
             \/ \E i \in DOMAIN mergeLog : mergeLog[i].merged = x.student
             \/ ~Serial /\ \E g \in GuardiansOf(x.student) : x.user \in Accounts /\ login[g] \in Accounts \ {x.user}
             \/ ~Serial /\ \E i, j \in DOMAIN mergeLog : i # j /\ mergeLog[i].merged = mergeLog[j].merged
  <2>1. TheStudent(x.student) /\ SharedWith(x.about, x.student)
    BY <1>1 DEF ReachInv, Reaches
  <2>2. CASE Connected(x.user, x.student)
    <3>1. x.student \in StudentOf(q) \cup ChildrenOf(q)
      BY <1>1, <2>1, <2>2, ConnectedReads
    <3>2. GrantsAccess(ToStudent(x.student), q)
      BY <2>1, <3>1 DEF GrantsAccess, IsSelfGuardianOrTeacher, ToStudent, TheStudent
    <3>3. PICK i \in DOMAIN shares : shares[i].document = x.about /\ shares[i].with = ToStudent(x.student)
      BY <2>1 DEF SharedWith
    <3>4. shares[i] \in SharesOf(x.about)
      BY <3>3 DEF SharesOf
    <3> QED
      BY <3>2, <3>3, <3>4 DEF CanReadDocument
  <2>3. CASE Lost(x.user, x.student)
    BY <2>3 DEF Lost, WasMerged, Replaced, MergedTwice
  <2> QED
    BY <1>1, <2>2, <2>3 DEF ConnectInv
<1>2. ASSUME NEW x \in told, NEW q \in Tokens, q.user = x.user,
             x.about \in Assignments, q.role = "student", UserOf[x.student] = q.user
      PROVE  CanReadAssignment(x.about, q)
  BY <1>2 DEF ReachInv, Reaches, TheStudent, StudentOf, CanReadAssignment
<1> QED
  BY <1>1, <1>2 DEF ToldCanRead

\* Whoever was told of a shared document can open it, and a student who was told of an assignment can
\* read it, for as long as the service runs: but for a student merged into another, a guardian whom two
\* parents were joined to at once, and two merges of one record at once, nothing takes it away.
THEOREM Told == Spec => []ToldCanRead
<1>1. Init => ReachInv /\ KnownOK /\ ConnectInv
  BY ReachStart, KnownStart, ConnectStart
<1>2. TypeOK /\ Alone /\ ReachInv /\ KnownOK /\ ConnectInv /\ [Next]_vars => (ReachInv /\ KnownOK /\ ConnectInv)'
  BY ReachStep, KnownStep, ConnectStep
<1>3. TypeOK /\ ReachInv /\ ConnectInv => ToldCanRead
  BY ToldReads
<1> QED
  BY <1>1, <1>2, <1>3, TypeCorrect, OneAtATime, PTL DEF Spec

-----------------------------------------------------------------------------
(* Registration reaches the family: what each of its statements has seen   *)
(* to, and what is still to be done.                                       *)

\* The guardians with a child at first.
FirstGuardians == {FirstLinked[i].guardian : i \in DOMAIN FirstLinked}
\* The statements after the account was inserted.
Registering == {"assignRole", "findGuardians", "joinGuardians"}
FamilyMemory(m) ==
  /\ m.at = "assignRole" => m.user \in Registered /\ account[m.user] = Unassigned
  /\ m.at \in {"findGuardians", "joinGuardians"} => m.user \in Registered /\ account[m.user] = "parent"
  /\ m.at = "joinGuardians" => \A g \in m.found : SameContact(g, m.user)
RegisteredOnce ==
  \A h, k \in Requests :
    (req[h].at \in Registering /\ req[k].at \in Registering /\ req[h].user = req[k].user) => h = k
\* A guardian has its first account, or that of a parent who gave its e-mail or phone.
Parental(g) ==
  \/ login[g] = UserOf[g]
  \/ UserOf[g] = None /\ login[g] \in Registered /\ account[login[g]] = "parent" /\ SameContact(g, login[g])
\* h is about to give u a role, to look for u's guardians or to join g.
Assigning(u) == \E h \in Requests : req[h].at = "assignRole" /\ req[h].user = u
Joining(u, g) ==
  \E h \in Requests :
    /\ req[h].at = "findGuardians" \/ (req[h].at = "joinGuardians" /\ g \in req[h].found)
    /\ req[h].user = u
ReachedOf(u) ==
  /\ account[u] = Unassigned => Assigning(u)
  /\ \A g \in FirstGuardians :
       (UserOf[g] = None /\ account[u] = "parent" /\ SameContact(g, u)) => login[g] # None \/ Joining(u, g)
FamilyCore ==
  /\ \A h \in Requests : FamilyMemory(req[h])
  /\ RegisteredOnce
  /\ \A g \in Guardians : Parental(g)
  /\ deaths = 0 => \A u \in Accounts : ReachedOf(u)
FamilyInv ==
  /\ deaths \in Nat /\ DOMAIN account = Accounts
  /\ FirstGuardians \subseteq GuardianRows
  /\ FamilyCore

\* A guardian keeps its links.
LEMMA GuardiansKept ==
  ASSUME TypeOK, [Next]_vars
  PROVE  GuardianRows \subseteq GuardianRows'
BY LinksKept DEF GuardianRows

\* A step that is not a registration's leaves accounts, guardians and registrations as they were.
LEMMA RegistrationOnly ==
  ASSUME TypeOK, [Next]_vars
  PROVE  \/ \E h \in Requests : RegistrationMove(h)
         \/ /\ account' = account /\ login' = login
            /\ \A k \in Requests : req'[k] = req[k] \/ req'[k].at \notin Registering
            /\ \A k \in Requests : req[k].at \in Registering => req'[k] = req[k] \/ deaths' = deaths + 1
            /\ deaths' = deaths \/ deaths' = deaths + 1
<1>0. DOMAIN req = Requests
  BY DEF TypeOK, RequestsTyped
<1>1. ASSUME NEW h \in Requests, RecordsMove(h) \/ AffiliationMove(h) \/ ClassroomMove(h) \/ SharingMove(h)
                                   \/ CourseworkMove(h) \/ TellMove(h)
      PROVE  /\ account' = account /\ login' = login /\ deaths' = deaths
             /\ \A k \in Requests : req'[k] = req[k] \/ (req'[k].at \notin Registering /\ req[k].at \notin Registering)
  <2>1. account' = account /\ deaths' = deaths
    BY <1>1 DEF RecordsMove, AffiliationMove, ClassroomMove, SharingMove, CourseworkMove, TellMove, Runs, services
  <2>2. RecordsStep(h) => login' = login
    BY DEF RecordsStep, CreateStudent, CreateCommit, UpdateStudent, ArchiveStudent, LoadStudent, SaveStudent,
       AddGuardian, LinkGuardian, StartMerge, MergeFind, MergeCommit, school, people
  <2>3. login' = login
    BY <1>1, <2>2 DEF RecordsMove, AffiliationMove, ClassroomMove, SharingMove, CourseworkMove, TellMove, school, people
  <2>4. req[h].at \notin Registering
    BY <1>1, StepsFrom DEF RecordsMove, AffiliationMove, ClassroomMove, SharingMove, CourseworkMove, TellMove, Registering,
       RecordsAts, AffiliationAts, ClassroomAts, SharingAts, CourseworkAts
  <2>5. PICK m : m.at \notin Registering /\ req' = [req EXCEPT ![h] = m]
    BY <1>1 DEF RecordsMove, AffiliationMove, ClassroomMove, SharingMove, CourseworkMove, TellMove, Runs, Registering,
       RecordsAts, AffiliationAts, ClassroomAts, SharingAts, CourseworkAts
  <2> QED
    BY <1>0, <2>1, <2>3, <2>4, <2>5
<1>2. CASE RestMove
  <2>1. account' = account /\ login' = login
    BY <1>2 DEF RestMove, school, people
  <2>2. UNCHANGED <<req, deaths>> \/ \E h \in Requests : req' = [req EXCEPT ![h] = Idle] /\ deaths' = deaths + 1
    BY <1>2 DEF RestMove, Die
  <2>3. \A k \in Requests : req'[k] = req[k] \/ req'[k].at \notin Registering
    BY <1>0, <2>2, IdleMemory DEF Registering
  <2> QED
    BY <2>1, <2>2, <2>3
<1> QED
  BY <1>1, <1>2, Moves

\* The account that register inserts.
LEMMA CreateUserFamily ==
  ASSUME TypeOK, FamilyInv, NEW h \in Requests, CreateUser(h)
  PROVE  FamilyCore' /\ DOMAIN account' = Accounts
<1>0. /\ DOMAIN req = Requests /\ DOMAIN account = Accounts /\ FamilyCore
      /\ req[h] \in [at : {"createUser"}, user : Accounts, role : SelfRoles]
      /\ deaths' = deaths /\ login' = login
  BY DEF CreateUser, TypeOK, RequestsTyped, Memory, RegistrationMemory, FamilyInv, Goes, Reply, school, people
<1>1. PICK u \in Accounts : u = req[h].user
  BY <1>0
<1>2. CASE account' = account /\ req' = [req EXCEPT ![h] = Idle]
  <2>1. \A k \in Requests : req'[k] = req[k] \/ req'[k] = Idle
    BY <1>0, <1>2
  <2>2. ASSUME NEW k \in Requests PROVE FamilyMemory(req[k])'
    BY <1>0, <1>2, <2>1, IdleMemory DEF FamilyCore, FamilyMemory, Registered
  <2>3. RegisteredOnce'
    BY <1>0, <2>1, IdleMemory DEF FamilyCore, RegisteredOnce, Registering
  <2>4. \A g \in Guardians : Parental(g)'
    BY <1>0, <1>2 DEF FamilyCore, Parental, Registered
  <2>5. ASSUME deaths' = 0, NEW v \in Accounts PROVE ReachedOf(v)'
    <3>1. ReachedOf(v)
      BY <1>0, <2>5 DEF FamilyCore
    <3>2. \A k \in Requests : req[k].at \in Registering => req'[k] = req[k]
      BY <1>0, <1>2 DEF Registering
    <3>3. Assigning(v) => Assigning(v)'
      BY <3>2 DEF Assigning, Registering
    <3>4. \A g : Joining(v, g) => Joining(v, g)'
      BY <3>2 DEF Joining, Registering
    <3> QED
      BY <1>0, <1>2, <3>1, <3>3, <3>4 DEF ReachedOf
  <2> QED
    BY <1>0, <1>2, <2>2, <2>3, <2>4, <2>5 DEF FamilyCore
<1>3. CASE /\ ~ \E v \in Registered : SameContact(u, v)
           /\ account' = [account EXCEPT ![u] = Unassigned]
           /\ req' = [req EXCEPT ![h] = [req[h] EXCEPT !.at = "assignRole"]]
  <2> DEFINE m == [req[h] EXCEPT !.at = "assignRole"]
  <2>1. m.at = "assignRole" /\ m.user = u
    BY <1>0, <1>1
  <2>2. req'[h] = m /\ \A k \in Requests \ {h} : req'[k] = req[k]
    BY <1>0, <1>3
  <2> HIDE DEF m
  <2>3. u \notin Registered
    BY <1>3, RegistrationAssumption DEF SameContact, SameEmail, SamePhone
  <2>4. /\ Registered' = Registered \cup {u} /\ account'[u] = Unassigned
        /\ \A v \in Accounts \ {u} : account'[v] = account[v]
    BY <1>0, <1>3, RegistrationAssumption DEF Registered
  <2>5. \A k \in Requests : req[k].at \in Registering => req[k].user \in Registered /\ k # h
    BY <1>0 DEF FamilyCore, FamilyMemory, Registering
  <2>6. ASSUME NEW k \in Requests PROVE FamilyMemory(req[k])'
    <3>1. CASE k = h
      BY <2>1, <2>2, <2>4, <3>1 DEF FamilyMemory
    <3>2. CASE k # h
      <4>1. FamilyMemory(req[k]) /\ req'[k] = req[k]
        BY <1>0, <2>2, <3>2 DEF FamilyCore
      <4>2. \A v \in Registered : account'[v] = account[v] /\ v \in Registered'
        BY <2>3, <2>4 DEF Registered
      <4> QED
        BY <4>1, <4>2 DEF FamilyMemory
    <3> QED
      BY <3>1, <3>2
  <2>7. RegisteredOnce'
    <3>1. ASSUME NEW k \in Requests, NEW j \in Requests,
                 req'[k].at \in Registering, req'[j].at \in Registering, req'[k].user = req'[j].user, k # j
          PROVE  FALSE
      BY <1>0, <2>1, <2>2, <2>3, <2>5, <3>1 DEF FamilyCore, RegisteredOnce
    <3> QED
      BY <3>1 DEF RegisteredOnce
  <2>8. ASSUME NEW g \in Guardians PROVE Parental(g)'
    BY <1>0, <2>3, <2>4 DEF FamilyCore, Parental, Registered
  <2>9. ASSUME deaths' = 0, NEW v \in Accounts PROVE ReachedOf(v)'
    <3>1. CASE v = u
      <4>1. Assigning(u)'
        BY <2>1, <2>2 DEF Assigning
      <4> QED
        BY <2>4, <3>1, <4>1 DEF ReachedOf, Unassigned
    <3>2. CASE v # u
      <4>1. ReachedOf(v)
        BY <1>0, <2>9 DEF FamilyCore
      <4>2. \A k \in Requests : req[k].at \in Registering => req'[k] = req[k]
        BY <2>2, <2>5
      <4>3. Assigning(v) => Assigning(v)'
        BY <4>2 DEF Assigning, Registering
      <4>4. \A g : Joining(v, g) => Joining(v, g)'
        BY <4>2 DEF Joining, Registering
      <4> QED
        BY <1>0, <2>4, <3>2, <4>1, <4>3, <4>4 DEF ReachedOf
    <3> QED
      BY <3>1, <3>2
  <2> QED
    BY <1>0, <1>3, <2>6, <2>7, <2>8, <2>9 DEF FamilyCore
<1> QED
  BY <1>1, <1>2, <1>3, Zenon DEF CreateUser, Reply, Goes

\* Its role.
LEMMA AssignRoleFamily ==
  ASSUME TypeOK, FamilyInv, NEW h \in Requests, AssignRole(h)
  PROVE  FamilyCore' /\ DOMAIN account' = Accounts
<1>0. /\ DOMAIN req = Requests /\ DOMAIN account = Accounts /\ FamilyCore
      /\ req[h] \in [at : {"assignRole"}, user : Accounts, role : SelfRoles]
      /\ deaths' = deaths /\ login' = login
  BY DEF AssignRole, TypeOK, RequestsTyped, Memory, RegistrationMemory, FamilyInv, Goes, Reply, school, people
<1>1. PICK u \in Accounts, role \in SelfRoles : u = req[h].user /\ role = req[h].role
  BY <1>0
<1>2. PICK m : /\ req' = [req EXCEPT ![h] = m]
               /\ IF role = "parent" THEN m.at = "findGuardians" /\ m.user = u ELSE m.at = "idle"
  <2>1. CASE role = "parent"
    <3>1. req' = [req EXCEPT ![h] = [req[h] EXCEPT !.at = "findGuardians"]]
      BY <1>1, <2>1 DEF AssignRole, Goes
    <3>2. [req[h] EXCEPT !.at = "findGuardians"].at = "findGuardians" /\ [req[h] EXCEPT !.at = "findGuardians"].user = u
      BY <1>0, <1>1
    <3> QED
      BY <2>1, <3>1, <3>2
  <2>2. CASE role # "parent"
    BY <1>1, <2>2, IdleMemory DEF AssignRole, Reply, Goes
  <2> QED
    BY <2>1, <2>2
<1>3. req'[h] = m /\ \A k \in Requests \ {h} : req'[k] = req[k]
  BY <1>0, <1>2
<1>4. u \in Registered /\ account[u] = Unassigned
  BY <1>0, <1>1 DEF FamilyCore, FamilyMemory
<1>5. /\ account' = [account EXCEPT ![u] = role] /\ account'[u] = role
      /\ \A v \in Accounts \ {u} : account'[v] = account[v]
  BY <1>0, <1>1 DEF AssignRole
<1>6. \A v : v \in Registered <=> v \in Registered'
  BY <1>0, <1>4, <1>5, RegistrationAssumption DEF Registered
<1>7. \A k \in Requests \ {h} : req[k].at \in Registering => req[k].user \in Accounts \ {u}
  <2>1. ASSUME NEW k \in Requests \ {h}, req[k].at \in Registering PROVE req[k].user \in Accounts \ {u}
    <3>1. req[k].user \in Registered
      BY <1>0, <2>1 DEF FamilyCore, FamilyMemory, Registering
    <3>2. req[k].user # u
      BY <1>0, <1>1, <2>1 DEF FamilyCore, RegisteredOnce, Registering
    <3> QED
      BY <3>1, <3>2 DEF Registered
  <2> QED
    BY <2>1
<1>8. ASSUME NEW k \in Requests PROVE FamilyMemory(req[k])'
  <2>1. CASE k = h
    BY <1>2, <1>3, <1>4, <1>5, <1>6, <2>1 DEF FamilyMemory
  <2>2. CASE k # h
    <3>1. FamilyMemory(req[k]) /\ req'[k] = req[k]
      BY <1>0, <1>3, <2>2 DEF FamilyCore
    <3> QED
      BY <1>5, <1>6, <1>7, <2>2, <3>1 DEF FamilyMemory, Registering
  <2> QED
    BY <2>1, <2>2
<1>9. RegisteredOnce'
  <2>1. \A k \in Requests : req'[k].at \in Registering => req[k].at \in Registering /\ req'[k].user = req[k].user
    BY <1>0, <1>1, <1>2, <1>3 DEF Registering
  <2> QED
    BY <1>0, <2>1 DEF FamilyCore, RegisteredOnce
<1>10. ASSUME NEW g \in Guardians PROVE Parental(g)'
  <2>1. CASE login[g] = UserOf[g]
    BY <1>0, <2>1 DEF Parental
  <2>2. CASE login[g] # UserOf[g]
    <3>1. UserOf[g] = None /\ login[g] \in Registered /\ account[login[g]] = "parent" /\ SameContact(g, login[g])
      BY <1>0, <2>2 DEF FamilyCore, Parental
    <3>2. login[g] \in Accounts \ {u}
      BY <1>4, <3>1 DEF Registered, Unassigned
    <3> QED
      BY <1>0, <1>5, <1>6, <3>1, <3>2 DEF Parental
  <2> QED
    BY <2>1, <2>2
<1>11. ASSUME deaths' = 0, NEW v \in Accounts PROVE ReachedOf(v)'
  <2>1. CASE v = u
    <3>1. role # Unassigned
      BY DEF SelfRoles, Unassigned
    <3>2. \A g : role = "parent" => Joining(u, g)'
      BY <1>2, <1>3 DEF Joining
    <3> QED
      BY <1>5, <2>1, <3>1, <3>2 DEF ReachedOf
  <2>2. CASE v # u
    <3>1. ReachedOf(v)
      BY <1>0, <1>11 DEF FamilyCore
    <3>2. \A k \in Requests : (req[k].at \in Registering /\ req[k].user = v) => req'[k] = req[k]
      BY <1>1, <1>3, <2>2
    <3>3. Assigning(v) => Assigning(v)'
      BY <3>2 DEF Assigning, Registering
    <3>4. \A g : Joining(v, g) => Joining(v, g)'
      BY <3>2 DEF Joining, Registering
    <3> QED
      BY <1>0, <1>5, <2>2, <3>1, <3>3, <3>4 DEF ReachedOf
  <2> QED
    BY <2>1, <2>2
<1> QED
  BY <1>0, <1>5, <1>8, <1>9, <1>10, <1>11 DEF FamilyCore

\* The guardians it finds.
LEMMA FindGuardiansFamily ==
  ASSUME TypeOK, FamilyInv, NEW h \in Requests, FindGuardians(h)
  PROVE  FamilyCore' /\ DOMAIN account' = Accounts
<1>0. /\ DOMAIN req = Requests /\ DOMAIN account = Accounts /\ FamilyCore
      /\ req[h] \in [at : {"findGuardians"}, user : Accounts, role : SelfRoles]
      /\ deaths' = deaths /\ login' = login /\ account' = account
  BY DEF FindGuardians, TypeOK, RequestsTyped, Memory, RegistrationMemory, FamilyInv, Goes, Reply, school, people
<1>1. PICK u \in Accounts : u = req[h].user
  BY <1>0
<1>2. PICK m : /\ req' = [req EXCEPT ![h] = m]
               /\ IF FoundGuardians(u) = {} THEN m.at = "idle"
                  ELSE m.at = "joinGuardians" /\ m.user = u /\ m.found = FoundGuardians(u)
  <2>1. CASE FoundGuardians(u) = {}
    BY <1>1, <2>1, IdleMemory DEF FindGuardians, Reply, Goes
  <2>2. CASE FoundGuardians(u) # {}
    <3> DEFINE x == [at |-> "joinGuardians", user |-> u, found |-> FoundGuardians(u)]
    <3>1. req' = [req EXCEPT ![h] = x]
      BY <1>1, <2>2 DEF FindGuardians, Goes
    <3>2. x.at = "joinGuardians" /\ x.user = u /\ x.found = FoundGuardians(u)
      OBVIOUS
    <3> HIDE DEF x
    <3> QED
      BY <2>2, <3>1, <3>2
  <2> QED
    BY <2>1, <2>2
<1>3. req'[h] = m /\ \A k \in Requests \ {h} : req'[k] = req[k]
  BY <1>0, <1>2
<1>4. Registered' = Registered
  BY <1>0 DEF Registered
<1>5. ASSUME NEW k \in Requests PROVE FamilyMemory(req[k])'
  <2>1. CASE k = h
    <3>1. u \in Registered /\ account[u] = "parent"
      BY <1>0, <1>1 DEF FamilyCore, FamilyMemory
    <3>2. \A g \in FoundGuardians(u) : SameContact(g, u)
      BY DEF FoundGuardians
    <3> QED
      BY <1>0, <1>2, <1>3, <1>4, <2>1, <3>1, <3>2 DEF FamilyMemory
  <2>2. CASE k # h
    BY <1>0, <1>3, <1>4, <2>2 DEF FamilyCore, FamilyMemory
  <2> QED
    BY <2>1, <2>2
<1>6. RegisteredOnce'
  <2>1. \A k \in Requests : req'[k].at \in Registering => req[k].at \in Registering /\ req'[k].user = req[k].user
    BY <1>0, <1>1, <1>2, <1>3 DEF Registering
  <2> QED
    BY <1>0, <2>1 DEF FamilyCore, RegisteredOnce
<1>7. \A g \in Guardians : Parental(g)'
  BY <1>0, <1>4 DEF FamilyCore, Parental
<1>8. ASSUME deaths' = 0, NEW v \in Accounts PROVE ReachedOf(v)'
  <2>1. ReachedOf(v)
    BY <1>0, <1>8 DEF FamilyCore
  <2>2. Assigning(v) => Assigning(v)'
    BY <1>0, <1>3 DEF Assigning
  <2>3. ASSUME NEW g \in FirstGuardians, SameContact(g, v), Joining(v, g), login[g] = None PROVE Joining(v, g)'
    <3>1. PICK k \in Requests : /\ req[k].at = "findGuardians" \/ (req[k].at = "joinGuardians" /\ g \in req[k].found)
                                /\ req[k].user = v
      BY <2>3 DEF Joining
    <3>2. CASE k # h
      BY <1>3, <3>1, <3>2 DEF Joining
    <3>3. CASE k = h
      <4>1. g \in FoundGuardians(u) /\ u = v
        BY <1>1, <2>3, <3>1, <3>3 DEF FoundGuardians, FamilyInv
      <4> QED
        BY <1>2, <1>3, <4>1 DEF Joining
    <3> QED
      BY <3>2, <3>3
  <2> QED
    BY <1>0, <2>1, <2>2, <2>3 DEF ReachedOf
<1> QED
  BY <1>0, <1>5, <1>6, <1>7, <1>8 DEF FamilyCore

\* The guardian it joins.
LEMMA JoinGuardianFamily ==
  ASSUME TypeOK, KnownOK, ConnectInv, FamilyInv, NEW h \in Requests, JoinGuardian(h)
  PROVE  FamilyCore' /\ DOMAIN account' = Accounts
<1>0. /\ DOMAIN req = Requests /\ DOMAIN account = Accounts /\ FamilyCore /\ DOMAIN login = Guardians
      /\ req[h] \in [at : {"joinGuardians"}, user : Accounts, found : SUBSET Guardians]
      /\ account' = account
  BY DEF JoinGuardian, TypeOK, PeopleTyped, RequestsTyped, Memory, RegistrationMemory, FamilyInv
<1>1. PICK g \in req[h].found :
        /\ login' = [login EXCEPT ![g] = req[h].user]
        /\ g \in Guardians /\ UserOf[g] = None /\ req[h].user \in Accounts
        /\ req' = [req EXCEPT ![h] = IF req[h].found = {g} THEN Idle ELSE [req[h] EXCEPT !.found = @ \ {g}]]
  BY Joins
<1>2. PICK u \in Accounts : u = req[h].user
  BY <1>0
<1>3. PICK m : /\ req' = [req EXCEPT ![h] = m]
               /\ IF req[h].found = {g} THEN m.at = "idle"
                  ELSE m.at = "joinGuardians" /\ m.user = u /\ m.found = req[h].found \ {g}
  <2>1. CASE req[h].found = {g}
    BY <1>1, <2>1, IdleMemory
  <2>2. CASE req[h].found # {g}
    <3> DEFINE x == [req[h] EXCEPT !.found = @ \ {g}]
    <3>1. x.at = "joinGuardians" /\ x.user = u /\ x.found = req[h].found \ {g}
      BY <1>0, <1>2
    <3> QED
      BY <1>1, <2>2, <3>1
  <2> QED
    BY <2>1, <2>2
<1>4. req'[h] = m /\ \A k \in Requests \ {h} : req'[k] = req[k]
  BY <1>0, <1>3
<1>5. Registered' = Registered /\ deaths' = deaths
  BY <1>0 DEF Registered, JoinGuardian, Reply, Goes
<1>6. u \in Registered /\ account[u] = "parent" /\ \A x \in req[h].found : SameContact(x, u)
  BY <1>0, <1>2 DEF FamilyCore, FamilyMemory
<1>7. login'[g] = u /\ \A x \in Guardians \ {g} : login'[x] = login[x]
  BY <1>0, <1>1, <1>2
<1>8. ASSUME NEW k \in Requests PROVE FamilyMemory(req[k])'
  <2>1. CASE k = h
    BY <1>0, <1>3, <1>4, <1>5, <1>6, <2>1 DEF FamilyMemory
  <2>2. CASE k # h
    BY <1>0, <1>4, <1>5, <2>2 DEF FamilyCore, FamilyMemory
  <2> QED
    BY <2>1, <2>2
<1>9. RegisteredOnce'
  <2>1. \A k \in Requests : req'[k].at \in Registering => req[k].at \in Registering /\ req'[k].user = req[k].user
    BY <1>0, <1>2, <1>3, <1>4 DEF Registering
  <2> QED
    BY <1>0, <2>1 DEF FamilyCore, RegisteredOnce
<1>10. ASSUME NEW x \in Guardians PROVE Parental(x)'
  <2>1. CASE x = g
    BY <1>0, <1>1, <1>5, <1>6, <1>7, <2>1 DEF Parental
  <2>2. CASE x # g
    BY <1>0, <1>5, <1>7, <2>2 DEF FamilyCore, Parental
  <2> QED
    BY <2>1, <2>2
<1>11. ASSUME deaths' = 0, NEW v \in Accounts PROVE ReachedOf(v)'
  <2>1. ReachedOf(v)
    BY <1>0, <1>5, <1>11 DEF FamilyCore
  <2>2. Assigning(v) => Assigning(v)'
    BY <1>0, <1>4 DEF Assigning
  <2>3. ASSUME NEW x, login[x] # None PROVE login'[x] # None
    BY <1>0, <1>1, <1>2, <2>3, RegistrationAssumption
  <2>4. ASSUME NEW x, Joining(v, x), x # g PROVE Joining(v, x)'
    <3>1. PICK k \in Requests : /\ req[k].at = "findGuardians" \/ (req[k].at = "joinGuardians" /\ x \in req[k].found)
                                /\ req[k].user = v
      BY <2>4 DEF Joining
    <3>2. CASE k # h
      BY <1>4, <3>1, <3>2 DEF Joining
    <3>3. CASE k = h
      <4>1. x \in req[h].found \ {g} /\ u = v
        BY <1>0, <1>2, <2>4, <3>1, <3>3
      <4>2. m.at = "joinGuardians" /\ m.user = v /\ x \in m.found
        BY <1>3, <4>1
      <4> QED
        BY <1>4, <4>2 DEF Joining
    <3> QED
      BY <3>2, <3>3
  <2>5. login'[g] # None
    BY <1>7, RegistrationAssumption
  <2> QED
    BY <1>0, <2>1, <2>2, <2>3, <2>4, <2>5 DEF ReachedOf
<1> QED
  BY <1>0, <1>8, <1>9, <1>10, <1>11 DEF FamilyCore

\* A registration that starts, a death, or a step of another service.
LEMMA RestFamily ==
  ASSUME TypeOK, FamilyInv, account' = account, login' = login, deaths' = deaths \/ deaths' = deaths + 1,
         \A k \in Requests : req'[k] = req[k] \/ req'[k].at \notin Registering,
         \A k \in Requests : req[k].at \in Registering => req'[k] = req[k] \/ deaths' = deaths + 1
  PROVE  FamilyCore' /\ DOMAIN account' = Accounts
<1>1. ASSUME NEW k \in Requests PROVE FamilyMemory(req[k])'
  BY DEF FamilyInv, FamilyCore, FamilyMemory, Registered, Registering
<1>2. RegisteredOnce'
  BY DEF FamilyInv, FamilyCore, RegisteredOnce
<1>3. \A g \in Guardians : Parental(g)'
  BY DEF FamilyInv, FamilyCore, Parental, Registered
<1>4. ASSUME deaths' = 0, NEW v \in Accounts PROVE ReachedOf(v)'
  <2>1. deaths' = deaths /\ deaths' # deaths + 1
    BY <1>4 DEF FamilyInv
  <2>2. \A k \in Requests : req[k].at \in Registering => req'[k] = req[k]
    BY <2>1
  <2>3. ReachedOf(v)
    BY <1>4, <2>1 DEF FamilyInv, FamilyCore
  <2>4. Assigning(v) => Assigning(v)'
    BY <2>2 DEF Assigning, Registering
  <2>5. \A g : Joining(v, g) => Joining(v, g)'
    BY <2>2 DEF Joining, Registering
  <2> QED
    BY <2>3, <2>4, <2>5 DEF ReachedOf
<1> QED
  BY <1>1, <1>2, <1>3, <1>4 DEF FamilyInv, FamilyCore

LEMMA FamilyStart == Init => FamilyInv
<1> SUFFICES ASSUME Init PROVE FamilyInv
  OBVIOUS
<1>1. /\ deaths = 0 /\ linked = FirstLinked /\ login = [g \in Guardians |-> UserOf[g]]
      /\ account = [u \in Accounts |-> None] /\ \A h \in Requests : req[h].at = "idle"
  BY IdleMemory DEF Init, SchoolInit, ServerInit, RegistrationInit
<1>2. FirstGuardians \subseteq GuardianRows
  BY <1>1 DEF FirstGuardians, GuardianRows
<1>3. \A u \in Accounts : ReachedOf(u)
  BY <1>1, RegistrationAssumption DEF ReachedOf, SelfRoles
<1>4. \A g \in Guardians : Parental(g)
  BY <1>1 DEF Parental
<1>5. RegisteredOnce /\ \A h \in Requests : FamilyMemory(req[h])
  BY <1>1 DEF RegisteredOnce, Registering, FamilyMemory
<1> QED
  BY <1>1, <1>2, <1>3, <1>4, <1>5 DEF FamilyInv, FamilyCore

LEMMA FamilyStep == TypeOK /\ KnownOK /\ ConnectInv /\ FamilyInv /\ [Next]_vars => FamilyInv'
<1> SUFFICES ASSUME TypeOK, KnownOK, ConnectInv, FamilyInv, [Next]_vars PROVE FamilyInv'
  OBVIOUS
<1>0. DOMAIN req = Requests /\ deaths \in Nat
  BY DEF TypeOK, RequestsTyped, FamilyInv
<1>1. deaths' \in Nat
  BY <1>0, RegistrationOnly DEF RegistrationMove, Runs
<1>2. FirstGuardians \subseteq GuardianRows'
  BY GuardiansKept DEF FamilyInv
<1>3. FirstGuardians' = FirstGuardians
  BY DEF FirstGuardians
<1>4. FamilyCore' /\ DOMAIN account' = Accounts
  <2>1. ASSUME NEW h \in Requests, RegistrationMove(h) PROVE FamilyCore' /\ DOMAIN account' = Accounts
    <3>1. CASE Register(h)
      <4>1. PICK u, role : Start(h, [at |-> "createUser", user |-> u, role |-> role]) /\ Arrives(h, "register")
                           /\ UNCHANGED <<school, account>>
        BY <3>1, Zenon DEF Register
      <4> DEFINE m == [at |-> "createUser", user |-> u, role |-> role]
      <4>2. m.at = "createUser" /\ req' = [req EXCEPT ![h] = m] /\ req[h].at = "idle"
        BY <4>1, IdleMemory DEF Start, Arrives
      <4> HIDE DEF m
      <4>3. account' = account /\ login' = login /\ deaths' = deaths
        BY <4>1 DEF Start, school, people
      <4>4. \A k \in Requests : req'[k] = req[k] \/ (req'[k].at \notin Registering /\ req[k].at \notin Registering)
        BY <1>0, <4>2 DEF Registering
      <4> QED
        BY <4>3, <4>4, RestFamily
    <3> QED
      BY <2>1, <3>1, CreateUserFamily, AssignRoleFamily, FindGuardiansFamily, JoinGuardianFamily
      DEF RegistrationMove, RegistrationStep
  <2> QED
    BY <2>1, RegistrationOnly, RestFamily
<1> QED
  BY <1>1, <1>2, <1>3, <1>4 DEF FamilyInv

\* Who registered has reached the family.
LEMMA FamilyOfRegistered ==
  ASSUME TypeOK, RowsExist, KnownOK, FamilyInv, deaths = 0, NEW g \in FirstGuardians, UserOf[g] = None,
         NEW u \in Registered, \A h \in Requests : ~InProgress(h, u)
  PROVE  /\ account[u] # Unassigned
         /\ (account[u] = "parent" /\ SameContact(g, u)) =>
              \E q \in Tokens :
                /\ q.user \in Registered /\ account[q.user] = "parent" /\ SameContact(g, q.user)
                /\ \A i \in DOMAIN linked : linked[i].guardian = g => linked[i].student \in ListedStudents(q)
<1>1. ReachedOf(u) /\ g \in Guardians
  <2>1. u \in Accounts
    BY DEF Registered
  <2>2. PICK i \in DOMAIN linked : g = linked[i].guardian
    BY DEF FamilyInv, GuardianRows
  <2>3. linked[i] \in LinkedRows
    BY RowOf DEF TypeOK, PeopleTyped
  <2> QED
    BY <2>1, <2>2, <2>3 DEF FamilyInv, FamilyCore, LinkedRows
<1>2. ~Assigning(u) /\ ~Joining(u, g)
  BY DEF InProgress, Assigning, Joining
<1>3. ASSUME account[u] = "parent", SameContact(g, u)
      PROVE  \E q \in Tokens :
               /\ q.user \in Registered /\ account[q.user] = "parent" /\ SameContact(g, q.user)
               /\ \A i \in DOMAIN linked : linked[i].guardian = g => linked[i].student \in ListedStudents(q)
  <2>1. login[g] # None
    BY <1>1, <1>2, <1>3 DEF ReachedOf
  <2>2. login[g] \in Registered /\ account[login[g]] = "parent" /\ SameContact(g, login[g])
    BY <1>1, <2>1 DEF FamilyInv, FamilyCore, Parental
  <2>3. PICK q \in Tokens : q.user = login[g] /\ q.role = "parent"
    BY <2>2, RolesAssumption DEF Registered
  <2>4. ASSUME NEW i \in DOMAIN linked, linked[i].guardian = g PROVE linked[i].student \in ListedStudents(q)
    <3>1. linked[i].student \in Students /\ student[linked[i].student] # None
      BY DEF RowsExist, TheStudent
    <3>2. linked[i].student \in ChildrenOf(q)
      BY <2>3, <2>4 DEF ChildrenOf
    <3> QED
      BY <2>3, <3>1, <3>2 DEF ListedStudents
  <2> QED
    BY <2>2, <2>3, <2>4
<1> QED
  BY <1>1, <1>2, <1>3 DEF ReachedOf

\* Unless a request died, registration reaches the family: whoever has registered has a role, and the students
\* of every guardian with that e-mail or phone are on the list of a parent who gave it; a guardian with an
\* account keeps it.
THEOREM Families == Spec => []FamilyReached
<1>1. Init => KnownOK /\ ConnectInv /\ FamilyInv
  BY KnownStart, ConnectStart, FamilyStart
<1>2. TypeOK /\ Alone /\ KnownOK /\ ConnectInv /\ FamilyInv /\ [Next]_vars => (KnownOK /\ ConnectInv /\ FamilyInv)'
  BY KnownStep, ConnectStep, FamilyStep
<1>3. TypeOK /\ RowsExist /\ KnownOK /\ FamilyInv => FamilyReached
  <2> SUFFICES ASSUME TypeOK, RowsExist, KnownOK, FamilyInv, NEW g \in FirstGuardians
               PROVE  IF UserOf[g] # None
                      THEN login[g] = UserOf[g]
                      ELSE deaths = 0 =>
                             \A u \in Registered :
                               (\A h \in Requests : ~InProgress(h, u)) =>
                                 /\ account[u] # Unassigned
                                 /\ (account[u] = "parent" /\ SameContact(g, u)) =>
                                      \E q \in Tokens :
                                        /\ q.user \in Registered /\ account[q.user] = "parent" /\ SameContact(g, q.user)
                                        /\ \A i \in DOMAIN linked : linked[i].guardian = g => linked[i].student \in ListedStudents(q)
    BY DEF FamilyReached, FirstGuardians
  <2>1. ASSUME UserOf[g] # None PROVE login[g] = UserOf[g]
    <3>1. PICK i \in DOMAIN linked : g = linked[i].guardian
      BY DEF FamilyInv, GuardianRows
    <3>2. linked[i] \in LinkedRows
      BY RowOf DEF TypeOK, PeopleTyped
    <3> QED
      BY <2>1, <3>1, <3>2 DEF FamilyInv, FamilyCore, Parental, LinkedRows
  <2> QED
    BY <2>1, FamilyOfRegistered
<1> QED
  BY <1>1, <1>2, <1>3, TypeCorrect, OneAtATime, Existence, PTL DEF Spec
=============================================================================
