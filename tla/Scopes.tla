------------------------------- MODULE Scopes -------------------------------
(***************************************************************************)
(* Who may read what in the services that only read the school's records:  *)
(* the balances and overviews of FeesService, the records of Performance-  *)
(* Service and AttendanceService, and the reports of ReportsService.  Each *)
(* of them repeats the rule of StudentsService in code of its own.         *)
(***************************************************************************)
EXTENDS Classroom

CONSTANTS
  Invoices,   \* the rows of table invoices: [student, teacher, institute]
  Marks       \* the rows of table attendance_records: [student, class]

HasStudentFinanceAccess(s, q) ==
  \/ q.role = "super_admin"
  \/ Administers(q, student[s].institute)
  \/ s \in StudentOf(q) \/ Teaches(q, s) \/ s \in ChildrenOf(q)

\* Mutant: the guardians are forgotten in one copy.
HasStudentPerformanceAccessOwn(s, q) ==
  \/ q.role = "super_admin"
  \/ Administers(q, student[s].institute)
  \/ s \in StudentOf(q) \/ Teaches(q, s)

HasStudentPerformanceAccess(s, q) ==
  \/ q.role = "super_admin"
  \/ Administers(q, student[s].institute)
  \/ s \in StudentOf(q) \/ Teaches(q, s) \/ s \in ChildrenOf(q)

HasStudentAttendanceReadAccess(s, q) ==
  \/ q.role = "super_admin"
  \/ Administers(q, student[s].institute)
  \/ s \in StudentOf(q) \/ Teaches(q, s) \/ s \in ChildrenOf(q)

-----------------------------------------------------------------------------
\* FeesService: assertInvoiceWriteAccess and the invoices of getInvoiceOverview.
CanWriteInvoice(i, q) ==
  q.role = "super_admin" \/ Administers(q, i.institute) \/ i.teacher \in ProfileOf(q)

InvoiceOverview(q) ==
  CASE q.role = "super_admin"     -> Invoices
    [] q.role = "institute_admin" -> {i \in Invoices : i.institute = q.institute}
    [] q.role = "teacher"         -> {i \in Invoices : Teaches(q, i.student)}
    [] OTHER                      -> {}

-----------------------------------------------------------------------------
\* ReportsService: the classes and invoices of a report about the institute `about` (None: all).
ReportClasses(q, about) ==
  {c \in Classes :
     /\ class[c] # None
     /\ CASE q.role = "teacher"         -> TeacherOf[c] \in ProfileOf(q)
          [] q.role = "institute_admin" -> class[c].institute = q.institute
          [] OTHER                      -> about = None \/ class[c].institute = about}

ReportInvoices(q, about) ==
  {i \in Invoices :
     CASE q.role = "teacher"         -> i.teacher \in ProfileOf(q)
       [] q.role = "institute_admin" -> i.institute = q.institute
       [] OTHER                      -> about = None \/ i.institute = about}

\* assertStudentReportAccess
CanReportOn(s, q) ==
  CASE q.role = "super_admin"     -> TRUE
    [] q.role = "institute_admin" -> Administers(q, student[s].institute)
    [] q.role = "teacher" ->
         \E t \in ProfileOf(q) :
           \/ \E i \in Invoices : i.student = s /\ i.teacher = t
           \/ \E m \in Marks : m.student = s /\ TeacherOf[m.class] = t
    [] OTHER -> FALSE
=============================================================================
