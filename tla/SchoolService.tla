--------------------------- MODULE SchoolService ----------------------------
(***************************************************************************)
(* The services of the school's records in one process: they share its     *)
(* tables, and each decides on its own who may see what the others write.  *)
(***************************************************************************)
EXTENDS StudentRecords, Registration, Affiliation, Sharing, Coursework, Scopes

\* Whoever owns the record of a student, a teacher or a guardian has that role too, and who
\* registers may do so as a parent.
ASSUME RolesAssumption ==
  LET holds(u, role) == \E p \in Tokens : p.user = u /\ p.role = role
  IN /\ \A u \in Accounts : holds(u, "parent")
     /\ \A q \in Tokens :
          /\ (\E t \in Teachers : UserOf[t] = q.user) => holds(q.user, "teacher")
          /\ (\E s \in Students : UserOf[s] = q.user) => holds(q.user, "student")
          /\ (\E g \in Guardians : UserOf[g] = q.user) => holds(q.user, "parent")

\* The ids of different tables are different.
ASSUME ServicesAssumption == Documents \cap Assignments = {}

services == <<mergeLog, account, affiliation, classroom, sharing, coursework>>
vars == <<server, school, services>>

Init ==
  /\ SchoolInit
  /\ RecordsInit /\ RegistrationInit /\ AffiliationInit /\ ClassroomInit /\ SharingInit /\ CourseworkInit

\* The next statement of h.
Handled(h) ==
  \/ RecordsStep(h) /\ UNCHANGED <<account, affiliation, classroom, sharing, coursework>>
  \/ RegistrationStep(h) /\ UNCHANGED <<mergeLog, affiliation, classroom, sharing, coursework>>
  \/ AffiliationStep(h) /\ UNCHANGED <<mergeLog, account, classroom, sharing, coursework>>
  \/ ClassroomStep(h) /\ UNCHANGED <<mergeLog, account, affiliation, sharing, coursework>>
  \/ SharingStep(h) /\ UNCHANGED <<mergeLog, account, affiliation, coursework>>
  \/ CourseworkStep(h) /\ UNCHANGED <<mergeLog, account, affiliation, sharing>>
  \/ TellStudentParty(h) /\ UNCHANGED services
  \/ Die(h) /\ UNCHANGED <<school, services>>

Next ==
  \/ \E h \in Requests : Handled(h)
  \/ \E c \in Codes : Expire(c) /\ UNCHANGED <<mergeLog, account, classroom, sharing, coursework>>
  \/ \E d \in Documents : Lapse(d) /\ UNCHANGED <<mergeLog, account, affiliation, coursework>>
  \/ \E a \in Assignments : Due(a) /\ UNCHANGED <<mergeLog, account, affiliation, sharing>>

Spec == Init /\ [][Next]_vars

-----------------------------------------------------------------------------
Existing == {s \in Students : student[s] # None}

\* No service lists what it would refuse to open: its list is a query over the caller's
\* scope, its check another query for the one row (the students and classes of findAll, the
\* calendar of resolveScope, the assignments and documents, the overview of invoices).
ListedIsReadable ==
  \A q \in Tokens :
    /\ \A s \in ListedStudents(q) : HasReadAccess(s, q)
    /\ \A c \in ListedClasses(q) : CanReadClass(c, q)
    /\ \A c \in OwnCalendar(q) : CanReadCalendarOf(c, q)
    /\ \A a \in ListedAssignments(q) : CanReadAssignment(a, q)
    /\ \A d \in ListedDocuments(q) : CanReadDocument(d, q)
    /\ \A i \in InvoiceOverview(q) :
         \/ q.role = "institute_admin" /\ CanWriteInvoice(i, q)
         \/ HasStudentFinanceAccess(i.student, q)

\* The roles that learn, teach or have children.
Acting == {"student", "parent", "teacher"}

\* The services that repeat a rule agree on it: who may see a student (students, fees,
\* performance, attendance, and reports but for a teacher's), which classes and invoices are a
\* caller's own (classes, fees, reports), whom a class stands for (notes, announcements), and
\* which metrics a teacher is shown and may record.  A user may have several roles: reports and
\* announcements look at the one of the token, the others at all the user's profiles and children.
CopiesAgree ==
  \A q \in Tokens :
    /\ \A s \in Existing :
         LET reads == HasReadAccess(s, q)
         IN /\ HasStudentFinanceAccess(s, q) = reads
            /\ HasStudentPerformanceAccess(s, q) = reads
            /\ HasStudentAttendanceReadAccess(s, q) = reads
    /\ q \in With("report_generate") =>
         /\ ReportClasses(q, None) = ListedClasses(q)
         /\ \A i \in ReportInvoices(q, None) : CanWriteInvoice(i, q)
         /\ q.role # "teacher" =>
              \A s \in Existing :
                /\ CanReportOn(s, q) => HasReadAccess(s, q)
                /\ HasReadAccess(s, q) => CanReportOn(s, q) \/ Teaches(q, s) \/ s \in StudentOf(q) \cup ChildrenOf(q)
    /\ q.role \in Acting =>
         {d \in Stored : CanReadDocument(d, q)} \subseteq ListedDocuments(q)
    /\ LET announcedTo == UNION {RelevantTargets(p) : p \in {x \in Tokens : x.user = q.user /\ x.role \in Acting}}
       IN \A c \in Classes :
            class[c] # None => (HasAccessToClass(c, q) <=> ToClass(c) \in announcedTo)
    /\ q.role = "teacher" =>
         ListedMetrics(q) = {d \in Defined : \E t \in ProfileOf(q) : IsApplicable(d, t)}

\* Whoever was told of a shared document can open it, and a student who was told of an
\* assignment can read it, whatever happened to links, enrollments and records since; only
\* a student who was merged into another record loses what the guardians were told of, a
\* parent the students of a guardian whom another one has been joined to at the same time, and
\* a survivor the guardians whom a second merge of the same record, in progress, moves on.
ToldCanRead ==
  \A x \in told, q \in Tokens :
    q.user = x.user =>
      /\ x.about \in Documents =>
           \/ CanReadDocument(x.about, q)
           \/ \E i \in DOMAIN mergeLog : mergeLog[i].merged = x.student
           \/ ~Serial /\ \E g \in GuardiansOf(x.student) : x.user \in Accounts /\ login[g] \in Accounts \ {x.user}
           \/ ~Serial /\ \E i, j \in DOMAIN mergeLog : i # j /\ mergeLog[i].merged = mergeLog[j].merged
      /\ (x.about \in Assignments /\ q.role = "student" /\ UserOf[x.student] = q.user) =>
           CanReadAssignment(x.about, q)

\* Registration reaches the family: unless a request died half-way, a user whose register is
\* over has a role, and the students of every guardian with the user's e-mail or phone who had
\* no account are on the list of a parent who gave that e-mail or phone, also when several
\* register at once and while teachers link guardians.  A guardian with an account keeps it.
FamilyReached ==
  \A g \in {FirstLinked[i].guardian : i \in DOMAIN FirstLinked} :
    IF UserOf[g] # None
    THEN login[g] = UserOf[g]
    ELSE deaths = 0 =>
           \A u \in Registered :
             (\A h \in Requests : ~InProgress(h, u)) =>
               /\ account[u] # Unassigned
               /\ (account[u] = "parent" /\ SameContact(g, u)) =>
                    \E q \in Tokens :
                      /\ q.user \in Registered /\ account[q.user] = "parent" /\ SameContact(g, q.user)
                      /\ \A i \in DOMAIN linked : linked[i].guardian = g => linked[i].student \in ListedStudents(q)
=============================================================================
