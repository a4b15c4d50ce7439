------------------------------- MODULE School -------------------------------
(***************************************************************************)
(* What the services of the school's records share: the tables several of  *)
(* them read and the callers with their roles.                             *)
(***************************************************************************)
EXTENDS Server

CONSTANTS
  Students, Teachers, Guardians, Classes, Institutes,
  UserOf,          \* the login of each student, teacher profile and, at first, guardian, or None
  Tokens,          \* the callers: the user, role and institute of an access token
  FirstStudent,    \* the student_profiles at first: [status, institute], or None
  FirstAssigned,   \* the student_teacher_assignments at first
  FirstLinked,     \* the student_guardian_links at first
  FirstEnrolled,   \* the active enrollments at first
  FirstProfile,    \* the teacher_profiles at first: [institute, verification], or None
  TeacherOf        \* the teacher profile of each class

Roles == {"teacher", "student", "parent", "institute_admin", "super_admin"}

\* The token of an institute's admin names the institute.
ASSUME SchoolAssumption ==
  /\ \A q \in Tokens : q.role \in Roles /\ (q.role = "institute_admin" => q.institute \in Institutes)
  /\ TeacherOf \in [Classes -> Teachers]
  /\ None \notin Students \cup Teachers \cup Guardians \cup Classes \cup Institutes
  /\ \A q \in Tokens : q.user # None
  /\ IsFiniteSet(Guardians)

\* The first rows obey the foreign keys and unique indexes; no verification is pending.
ASSUME TablesAssumption ==
  LET existing == {s \in Students : FirstStudent[s] # None}
      profiles == [institute : Institutes \cup {None}, verification : {"unverified", "pending", "verified"}]
  IN /\ FirstAssigned \in Seq([student : existing, teacher : Teachers])
     /\ FirstLinked \in Seq([student : existing, guardian : Guardians])
     /\ FirstEnrolled \in Seq([class : Classes, student : existing])
     /\ IsInjective(FirstAssigned) /\ IsInjective(FirstLinked) /\ IsInjective(FirstEnrolled)
     /\ None \notin profiles /\ FirstProfile \in [Teachers -> profiles \cup {None}]
     /\ \A t \in Teachers : FirstProfile[t] # None => FirstProfile[t].verification # "pending"

VARIABLES
  student,    \* table student_profiles: [status, institute], or None
  assigned,   \* table student_teacher_assignments: the rows, oldest first
  linked,     \* table student_guardian_links: the rows, oldest first
  login,      \* table guardians, user_id: the account of each, or None
  enrolled,   \* table enrollments: the rows (no endpoint ends one), oldest first
  profile,    \* table teacher_profiles: [institute, verification], or None
  told        \* table notifications: who was told of which document or assignment, and of
              \* which student: [user, about, student]

people == <<student, assigned, linked, login>>
school == <<people, enrolled, profile, told>>

\* The permissions of the roles, and the callers who hold one.
Grants ==
  [student_manage    |-> {"teacher", "institute_admin", "super_admin"},
   class_manage      |-> {"teacher", "institute_admin", "super_admin"},
   note_manage       |-> {"teacher", "institute_admin", "super_admin"},
   note_read         |-> Roles,
   assignment_manage |-> {"teacher", "super_admin"},
   assignment_submit |-> {"student"},
   performance_define |-> {"teacher", "institute_admin", "super_admin"},
   performance_record |-> {"teacher"},
   report_generate   |-> {"teacher", "institute_admin", "super_admin"},
   teacher_profile_manage |-> {"teacher", "institute_admin", "super_admin"},
   verification_review |-> {"super_admin"},
   institute_manage  |-> {"institute_admin", "super_admin"},
   teacher_invite_manage |-> {"institute_admin", "super_admin"},
   teacher_invite_redeem |-> {"teacher"},
   payout_manage     |-> {"institute_admin", "super_admin"},
   announcement_manage |-> {"teacher", "institute_admin", "super_admin"}]
With(permission) == {q \in Tokens : q.role \in Grants[permission]}
Callers(h, op, permission) == IF Arrives(h, op) THEN With(permission) ELSE {}

\* findByUserId: the teacher profiles, at most one, of q's user.
ProfileOf(q) == {t \in Teachers : profile[t] # None /\ UserOf[t] = q.user}
StudentOf(q) == {s \in Students : student[s] # None /\ UserOf[s] = q.user}
ChildrenOf(q) ==
  {linked[i].student : i \in {j \in DOMAIN linked : login[linked[j].guardian] = q.user}}
\* An institute_admin of the institute i, which is not archived: the relation to an archived one
\* loads as null and compares equal to nobody's, which only Affiliation models.
Administers(q, i) == q.role = "institute_admin" /\ i # None /\ q.institute = i

TeachersOf(s) == {assigned[i].teacher : i \in {j \in DOMAIN assigned : assigned[j].student = s}}
GuardiansOf(s) == {linked[i].guardian : i \in {j \in DOMAIN linked : linked[j].student = s}}
ClassesOf(s) == {enrolled[i].class : i \in {j \in DOMAIN enrolled : enrolled[j].student = s}}
Roster(c) == {enrolled[i].student : i \in {j \in DOMAIN enrolled : enrolled[j].class = c}}
Seats(c) == Cardinality({i \in DOMAIN enrolled : enrolled[i].class = c})
Teaches(q, s) ==
  \E i \in DOMAIN assigned : assigned[i].student = s /\ assigned[i].teacher \in ProfileOf(q)

\* getNotifiableUserIds: the student's own login and those of the guardians.
NotifiableUsers(s) == ({UserOf[s]} \cup {login[g] : g \in GuardiansOf(s)}) \ {None}

\* What a document, an assignment or an announcement is addressed to.
ToStudent(s) == [type |-> "student", id |-> s]
ToClass(c) == [type |-> "class", id |-> c]

\* notifyStudentParty, for the student or every student of the class.
Tell(about, to) == [at |-> "tell", about |-> about, to |-> to]
TellStudentParty(h) ==
  LET to == req[h].to
      audience == IF to.type = "class" THEN Roster(to.id) ELSE {to.id}
  IN /\ req[h].at = "tell"
     /\ told' = told \cup UNION {{[user |-> u, about |-> req[h].about, student |-> s] : u \in NotifiableUsers(s)} :
                                 s \in audience}
     /\ Reply(h)
     /\ UNCHANGED <<people, enrolled, profile>>

StudentRow(status, i) == [status |-> status, institute |-> i]
Assignment(s, t) == [student |-> s, teacher |-> t]
Link(s, g) == [student |-> s, guardian |-> g]
Seat(c, s) == [class |-> c, student |-> s]
ProfileRow(i, v) == [institute |-> i, verification |-> v]

SchoolInit ==
  /\ ServerInit
  /\ assigned = FirstAssigned /\ linked = FirstLinked /\ enrolled = FirstEnrolled
  /\ login = [g \in Guardians |-> UserOf[g]]
  /\ profile = FirstProfile /\ student = FirstStudent
  /\ told = {}
=============================================================================
