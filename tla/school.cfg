\* Sixteen plans, each one call after the other and two at once; one request may die.
\* Deadlock is not an error: when the calls of a plan are used up, no call is left to make.
SPECIFICATION Spec
CONSTANTS
  None = None
  r1 = r1
  r2 = r2
  Requests = {r1, r2}
  Plans <- MCPlans
  MaxDeaths = 1
  Students = {"s1", "s2", "s3", "s4"}
  Teachers = {"t1", "t2", "t3", "t4"}
  Guardians = {"g1", "g2", "g3"}
  Accounts = {"may", "max"}
  EmailOf <- MCEmailOf
  PhoneOf <- MCPhoneOf
  Classes = {"c1", "c2", "c3"}
  Institutes = {"i1", "i2"}
  UserOf <- MCUserOf
  Tokens <- MCTokens
  FirstStudent <- MCFirstStudent
  FirstAssigned <- MCFirstAssigned
  FirstLinked <- MCFirstLinked
  FirstEnrolled <- MCFirstEnrolled
  FirstProfile <- MCFirstProfile
  TeacherOf <- MCTeacherOf
  Statuses = {"active", "graduated"}
  Days = {1, 2}
  Patterns <- MCPatterns
  Capacities = {1}
  ClassStatuses = {"cancelled"}
  Places = {"hall"}
  FirstClass <- MCFirstClass
  Codes = {"k1", "k2"}
  Payouts = {"p1"}
  PaidBy <- MCPaidBy
  Documents = {"d1", "d2"}
  FirstDocument <- MCFirstDocument
  Assignments = {"a1"}
  Metrics = {"m1"}
  Categories = {"music"}
  CategoryOf <- MCCategoryOf
  Grades = {"A", "B"}
  Invoices <- MCInvoices
  Marks <- MCMarks
SYMMETRY Symmetry
INVARIANTS SeatsBounded EveryDayScheduled CalendarAgrees AttemptsNumbered VerificationBacked UsedOnce ListedIsReadable CopiesAgree ToldCanRead FamilyReached
PROPERTIES MergeKeepsPeople
CHECK_DEADLOCK FALSE
