----------------------------- MODULE Coursework ------------------------------
(***************************************************************************)
(* AssignmentsService (assignments, submissions, reviews) and              *)
(* PerformanceService (metric definitions and records).                    *)
(***************************************************************************)
EXTENDS Classroom

CONSTANTS
  Assignments,   \* the rows table assignments may get
  Metrics,       \* the rows table performance_metric_definitions may get
  Categories,    \* the teacher categories
  CategoryOf,    \* the category of each teacher profile
  Grades         \* the grades a review may give

ASSUME CourseworkAssumption ==
  LET targets == [type : {"student"}, id : Students] \cup [type : {"class"}, id : Classes]
  IN None \notin [to : targets, teacher : Teachers, resubmission : BOOLEAN, late : BOOLEAN]

VARIABLES
  assignment,    \* table assignments: [to, teacher, resubmission, late], or None
  overdue,       \* the assignments whose dueAt has passed
  submissions,   \* table assignment_submissions: the rows, oldest first
  metric,        \* table performance_metric_definitions: the scope of each, or None
  records        \* table performance_records: [student, metric, teacher]

coursework == <<assignment, overdue, submissions, metric, records>>

AssignmentRow(to, t, resubmission, late) ==
  [to |-> to, teacher |-> t, resubmission |-> resubmission, late |-> late]
\* Mutant: every attempt is the first.
FirstSubmission(a, s, n) ==
  [assignment |-> a, student |-> s, attempt |-> 1, grade |-> None, feedback |-> FALSE, reviewed |-> FALSE]
Submission(a, s, n) ==
  [assignment |-> a, student |-> s, attempt |-> n, grade |-> None, feedback |-> FALSE, reviewed |-> FALSE]
Scope(type, id) == [type |-> type, id |-> id]
Given == {a \in Assignments : assignment[a] # None}
Defined == {d \in Metrics : metric[d] # None}

\* isAssignmentTarget
IsTarget(a, s) ==
  LET to == assignment[a].to
  IN to = ToStudent(s) \/ (to.type = "class" /\ s \in Roster(to.id))

CanWriteAssignment(a, q) == q.role = "super_admin" \/ assignment[a].teacher \in ProfileOf(q)
CanReadAssignment(a, q) ==
  \/ CanWriteAssignment(a, q)
  \/ Administers(q, profile[assignment[a].teacher].institute)
  \/ q.role = "student" /\ \E s \in StudentOf(q) : IsTarget(a, s)

ListedAssignments(q) ==
  {a \in Given :
     CASE q.role = "super_admin"     -> TRUE
       [] q.role = "institute_admin" -> profile[assignment[a].teacher].institute = q.institute
       [] q.role = "student" ->
            \E s \in StudentOf(q) :
              assignment[a].to \in {ToStudent(s)} \cup {ToClass(c) : c \in ClassesOf(s)}
       [] OTHER -> assignment[a].teacher \in ProfileOf(q)}

-----------------------------------------------------------------------------
CreateAssignment(h) ==
  \E q \in Callers(h, "createAssignment", "assignment_manage"), a \in Assignments, resubmission, late \in BOOLEAN :
    \E t \in ProfileOf(q) :
      \E to \in {ToStudent(s) : s \in {x \in Students : student[x] # None}}
                  \cup {ToClass(c) : c \in {x \in Classes : class[x] # None /\ TeacherOf[x] = t}} :
        /\ a \notin Given
        /\ Start(h, Tell(a, to))
        /\ assignment' = [assignment EXCEPT ![a] = AssignmentRow(to, t, resubmission, late)]
        /\ UNCHANGED <<school, classroom, overdue, submissions, metric, records>>

Due(a) ==
  /\ a \in Given \ overdue
  /\ overdue' = overdue \cup {a}
  /\ UNCHANGED <<server, school, classroom, assignment, submissions, metric, records>>

\* createSubmission counts the earlier attempts and refuses what is not allowed ...
Attempts(a, s) == {i \in DOMAIN submissions : submissions[i].assignment = a /\ submissions[i].student = s}
CreateSubmission(h) ==
  \E q \in Callers(h, "createSubmission", "assignment_submit"), a \in Given : \E s \in StudentOf(q) :
    /\ IsTarget(a, s)
    /\ Attempts(a, s) # {} => assignment[a].resubmission
    /\ a \in overdue => assignment[a].late
    /\ Start(h, [at |-> "submit", submission |-> Submission(a, s, Cardinality(Attempts(a, s)) + 1)])
    /\ UNCHANGED <<school, classroom, coursework>>

\* ... and inserts its row; no constraint of the table looks at its number.
Submit(h) ==
  /\ req[h].at = "submit"
  /\ submissions' = Append(submissions, req[h].submission)
  /\ Reply(h)
  /\ UNCHANGED <<school, classroom, assignment, overdue, metric, records>>

\* reviewSubmission loads the row, keeps what the review does not give and saves the whole row.
ReviewSubmission(h) ==
  \E q \in Callers(h, "reviewSubmission", "assignment_manage"), i \in DOMAIN submissions, grade \in Grades \cup {None}, feedback \in BOOLEAN :
    LET row == submissions[i]
    IN /\ CanWriteAssignment(row.assignment, q)
       /\ Start(h, [at |-> "saveReview", index |-> i,
                 row |-> [row EXCEPT !.grade = IF grade = None THEN @ ELSE grade,
                                     !.feedback = @ \/ feedback, !.reviewed = TRUE]])
       /\ UNCHANGED <<school, classroom, coursework>>

SaveReview(h) ==
  /\ req[h].at = "saveReview"
  /\ submissions' = [submissions EXCEPT ![req[h].index] = req[h].row]
  /\ Goes(h, Tell(req[h].row.assignment, ToStudent(req[h].row.student)))
  /\ UNCHANGED <<school, classroom, assignment, overdue, metric, records>>

-----------------------------------------------------------------------------
\* The scope a definition of q gets.
DefinedScopes(q) ==
  CASE q.role = "super_admin"     -> {Scope("category", k) : k \in Categories}
    [] q.role = "institute_admin" -> {Scope("institute", q.institute)}
    [] OTHER                      -> {Scope("teacher", t) : t \in ProfileOf(q)}
CreateMetricDefinition(h) ==
  \E q \in Callers(h, "createMetric", "performance_define"), d \in Metrics : \E scope \in DefinedScopes(q) :
    /\ metric[d] = None
    /\ Start(h, Idle)
    /\ metric' = [metric EXCEPT ![d] = scope]
    /\ UNCHANGED <<school, classroom, assignment, overdue, submissions, records>>

\* listApplicableDefinitions
ListedMetrics(q) ==
  {d \in Defined :
     CASE q.role \in {"student", "parent"} -> FALSE
       [] q.role = "super_admin"           -> TRUE
       [] q.role = "institute_admin"       -> metric[d].type = "category" \/ metric[d] = Scope("institute", q.institute)
       [] OTHER -> \E t \in ProfileOf(q) :
                     metric[d] \in {Scope("teacher", t), Scope("institute", profile[t].institute),
                                    Scope("category", CategoryOf[t])}}

\* isDefinitionApplicableToTeacher
IsApplicable(d, t) ==
  CASE metric[d].type = "teacher"   -> metric[d].id = t
    [] metric[d].type = "category"  -> metric[d].id = CategoryOf[t]
    [] metric[d].type = "institute" -> metric[d].id = profile[t].institute

RecordPerformance(h) ==
  \E q \in Callers(h, "recordPerformance", "performance_record"), s \in Students, d \in Defined : \E t \in ProfileOf(q) :
    /\ student[s] # None /\ t \in TeachersOf(s) /\ IsApplicable(d, t)
    /\ Start(h, Idle)
    /\ records' = records \cup {[student |-> s, metric |-> d, teacher |-> t]}
    /\ UNCHANGED <<school, classroom, assignment, overdue, submissions, metric>>

CourseworkInit ==
  /\ assignment = [a \in Assignments |-> None]
  /\ overdue = {} /\ submissions = <<>>
  /\ metric = [d \in Metrics |-> None]
  /\ records = {}

CourseworkStep(h) ==
  \/ CreateAssignment(h) \/ CreateSubmission(h) \/ Submit(h)
  \/ ReviewSubmission(h) \/ SaveReview(h)
  \/ CreateMetricDefinition(h) \/ RecordPerformance(h)

-----------------------------------------------------------------------------
\* createSubmission: the attempts of a student are numbered apart, and there is one where
\* resubmission is not allowed, except for the calls that overlap.
AttemptsNumbered ==
  \A a \in Given, s \in Students :
    /\ ~assignment[a].resubmission => Cardinality(Attempts(a, s)) <= Racing
    /\ \A i \in Attempts(a, s) :
         Cardinality({j \in Attempts(a, s) : submissions[j].attempt = submissions[i].attempt}) <= Racing
=============================================================================
