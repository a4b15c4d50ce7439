----------------------------- MODULE Classroom ------------------------------
(***************************************************************************)
(* ClassesService (classes, schedule versions, exceptions, enrollments,    *)
(* waitlist, conflict warnings) and the class occurrences of               *)
(* CalendarService.  A recurrence rule is the set of days it names, with a *)
(* start and an end hour; a window is all days.                            *)
(***************************************************************************)
EXTENDS School

CONSTANTS
  Days,           \* the days of the calendar, in order
  Patterns,       \* recurrence rules with their times: [days, start, end]
  Capacities,     \* capacityMax of new or updated classes (one without takes everybody)
  ClassStatuses,  \* ClassStatus values an update may set
  Places,         \* locationOrMeetingLink of new classes
  FirstClass      \* table classes at first

ASSUME ClassroomAssumption ==
  /\ Days \subseteq Nat
  /\ Capacities \subseteq Nat
  /\ LET rows == [capacity : Nat, status : {"active"} \cup ClassStatuses,
                  institute : Institutes \cup {None}, place : Places]
     IN None \notin rows /\ FirstClass \in [Classes -> rows \cup {None}]
  /\ None \notin {"teacher_double_booking", "location_conflict"}

VARIABLES
  class,       \* table classes: [capacity, status, institute, place], or None
  versions,    \* table class_schedule_versions: the rows of each class, oldest first
  exceptions,  \* table schedule_exceptions: the days of each class
  waitlist,    \* table waitlist_entries: the rows, oldest first
  roomiest     \* history: the largest capacity an enrollment of each class was checked against

timetable == <<class, versions, exceptions>>
classroom == <<timetable, waitlist, roomiest>>

ClassRow(n, i, p) == [capacity |-> n, status |-> "active", institute |-> i, place |-> p]
Version(from, p) == [from |-> from, to |-> None, pattern |-> p]
Entry(c, s) == [class |-> c, student |-> s]

CanWriteClass(c, q) ==
  \/ q.role = "super_admin"
  \/ Administers(q, class[c].institute)
  \/ TeacherOf[c] \in ProfileOf(q)
CanReadClass(c, q) == CanWriteClass(c, q) \/ \E s \in StudentOf(q) : s \in Roster(c)

ListedClasses(q) ==
  {c \in Classes :
     /\ class[c] # None
     /\ CASE q.role = "super_admin"     -> TRUE
          [] q.role = "institute_admin" -> Administers(q, class[c].institute)
          [] OTHER                      -> TeacherOf[c] \in ProfileOf(q)}

Writable(q) == {c \in Classes : class[c] # None /\ CanWriteClass(c, q)}

-----------------------------------------------------------------------------
CreateClass(h) ==
  \E q \in Callers(h, "createClass", "class_manage"), c \in Classes, n \in Capacities, p \in Places :
    /\ class[c] = None /\ TeacherOf[c] \in ProfileOf(q)
    /\ Start(h, Idle)
    /\ class' = [class EXCEPT ![c] = ClassRow(n, profile[TeacherOf[c]].institute, p)]
    /\ UNCHANGED <<school, versions, exceptions, waitlist, roomiest>>

\* update loads the row, changes the given fields and saves the whole row.
UpdateClass(h) ==
  \E q \in Callers(h, "updateClass", "class_manage") : \E c \in Writable(q) :
    \E n \in Capacities \cup {class[c].capacity}, status \in ClassStatuses \cup {class[c].status} :
      /\ Start(h, [at |-> "saveClass", class |-> c,
                 row |-> [class[c] EXCEPT !.capacity = n, !.status = status]])
      /\ UNCHANGED <<school, classroom>>

SaveClass(h) ==
  /\ req[h].at = "saveClass"
  /\ class' = [class EXCEPT ![req[h].class] = req[h].row]
  /\ Reply(h)
  /\ UNCHANGED <<school, versions, exceptions, waitlist, roomiest>>

\* createSchedule's transaction finds an open version, of several any.
CreateSchedule(h) ==
  \E q \in Callers(h, "createSchedule", "class_manage"), from \in Days, p \in Patterns : \E c \in Writable(q) :
    LET open == {i \in DOMAIN versions[c] : versions[c][i].to = None}
    IN \E current \in IF open = {} THEN {0} ELSE open :
         /\ Start(h, [at |-> "schedule", class |-> c, current |-> current,
                                        version |-> Version(from, p)])
         /\ UNCHANGED <<school, classroom>>

\* Mutant: off by one.
EndedADayEarly(rows, i, day) == IF i = 0 THEN rows ELSE [rows EXCEPT ![i].to = day - 1]
\* The version that was current ends on the day before the new one starts.
EndedAt(rows, i, day) == IF i = 0 THEN rows ELSE [rows EXCEPT ![i].to = day]
OpenVersion(h) ==
  LET m == req[h]
  IN /\ m.at = "schedule"
     /\ versions' = [versions EXCEPT ![m.class] =
          Append(EndedAt(versions[m.class], m.current, m.version.from - 1), m.version)]
     /\ Reply(h)
     /\ UNCHANGED <<school, class, exceptions, waitlist, roomiest>>

CreateException(h) ==
  \E q \in Callers(h, "createException", "class_manage"), day \in Days : \E c \in Writable(q) :
    /\ Start(h, Idle)
    /\ exceptions' = [exceptions EXCEPT ![c] = @ \cup {day}]
    /\ UNCHANGED <<school, class, versions, waitlist, roomiest>>

\* Mutant: the count decides when one seat is left over the capacity.
CountSeatsLate(h) ==
  LET m == req[h]
  IN /\ m.at = "countSeats"
     /\ roomiest' = [roomiest EXCEPT ![m.seat.class] = Max({@, m.capacity})]
     /\ IF Seats(m.seat.class) > m.capacity THEN Reply(h) ELSE Goes(h, [m EXCEPT !.at = "takeSeat"])
     /\ UNCHANGED <<school, timetable, waitlist>>

\* enrollStudent loads the class and looks for the student's enrollment ...
Enroll(h) ==
  \E q \in Callers(h, "enrollStudent", "class_manage"), s \in Students : \E c \in Writable(q) :
    /\ student[s] # None /\ s \notin Roster(c)
    /\ Start(h, [at |-> "countSeats", seat |-> Seat(c, s),
                                  capacity |-> class[c].capacity])
    /\ UNCHANGED <<school, classroom>>

\* ... counts the active enrollments ...
CountSeats(h) ==
  LET m == req[h]
  IN /\ m.at = "countSeats"
     /\ roomiest' = [roomiest EXCEPT ![m.seat.class] = Max({@, m.capacity})]
     /\ IF Seats(m.seat.class) >= m.capacity THEN Reply(h) ELSE Goes(h, [m EXCEPT !.at = "takeSeat"])
     /\ UNCHANGED <<school, timetable, waitlist>>

\* ... and inserts its row; no constraint of the table looks at it.
TakeSeat(h) ==
  /\ req[h].at = "takeSeat"
  /\ enrolled' = Append(enrolled, req[h].seat)
  /\ Reply(h)
  /\ UNCHANGED <<people, profile, told, classroom>>

AddToWaitlist(h) ==
  \E q \in Callers(h, "addToWaitlist", "class_manage"), s \in Students : \E c \in Writable(q) :
    /\ student[s] # None /\ ~Contains(waitlist, Entry(c, s))
    /\ Start(h, [at |-> "wait", entry |-> Entry(c, s)])
    /\ UNCHANGED <<school, classroom>>

Wait(h) ==
  /\ req[h].at = "wait"
  /\ waitlist' = Append(waitlist, req[h].entry)
  /\ Reply(h)
  /\ UNCHANGED <<school, timetable, roomiest>>

-----------------------------------------------------------------------------
\* Occurrences of a class: those of the open version that starts last.

Ended(v, d) == v.to # None /\ v.to < d
OpenVersions(c) == {i \in DOMAIN versions[c] : versions[c][i].to = None}
CurrentVersion(c) ==
  versions[c][CHOOSE i \in OpenVersions(c) :
                \A j \in OpenVersions(c) : versions[c][j].from <= versions[c][i].from]

\* materializeOccurrences
Occurrence(c, d, p) == [class |-> c, day |-> d, start |-> p.start, end |-> p.end]
MaterializedOccurrences(c) ==
  IF OpenVersions(c) = {} THEN {}
  ELSE LET v == CurrentVersion(c)
       IN {Occurrence(c, d, v.pattern) : d \in {x \in v.pattern.days : v.from <= x /\ ~Ended(v, x)}}

OccurrencesOverlap(a, b) == a.day = b.day /\ a.start < b.end /\ b.start < a.end

\* getConflicts(c)
Conflict(other, day, type) == [with |-> other, day |-> day, type |-> type]
Overlaps(c, others, type) ==
  LET theirs == UNION {MaterializedOccurrences(o) : o \in others}
      pairs == {p \in MaterializedOccurrences(c) \X theirs : OccurrencesOverlap(p[1], p[2])}
  IN {Conflict(p[2].class, p[1].day, type) : p \in pairs}

GetConflicts(c) ==
  LET others == {o \in Classes \ {c} : class[o] # None /\ class[o].status # "cancelled"}
      sharePlace(o) == /\ class[c].institute # None /\ class[o].institute = class[c].institute
                       /\ class[c].place # None /\ class[o].place = class[c].place
                       /\ TeacherOf[o] # TeacherOf[c]
  IN Overlaps(c, {o \in others : TeacherOf[o] = TeacherOf[c]}, "teacher_double_booking")
     \cup Overlaps(c, {o \in others : sharePlace(o)}, "location_conflict")

\* classOccurrences and flagConflicts of a calendar that shows the classes C.
CalendarOccurrences(C) == UNION {MaterializedOccurrences(c) : c \in C}

\* Mutant: the place is not looked at.
ConflictReasonOfTeacher(e, C) ==
  IF \E x \in CalendarOccurrences(C) :
       x.class # e.class /\ OccurrencesOverlap(e, x) /\ TeacherOf[x.class] = TeacherOf[e.class]
  THEN "teacher_double_booking" ELSE None

ConflictReason(e, C) ==
  LET meets == {x \in CalendarOccurrences(C) : x.class # e.class /\ OccurrencesOverlap(e, x)}
  IN CASE \E x \in meets : TeacherOf[x.class] = TeacherOf[e.class] -> "teacher_double_booking"
       [] \E x \in meets : /\ class[e.class].institute # None
                           /\ class[x.class].institute = class[e.class].institute
                           /\ class[e.class].place # None
                           /\ class[x.class].place = class[e.class].place -> "location_conflict"
       [] OTHER -> None

\* The classes of the calendars of a teacher, an institute (None: the platform) and students.
TeacherCalendar(t) == {c \in Classes : class[c] # None /\ TeacherOf[c] = t /\ class[c].status = "active"}
InstituteCalendar(i) ==
  {c \in Classes : class[c] # None /\ class[c].status = "active" /\ (i = None \/ class[c].institute = i)}
StudentsCalendar(S) == UNION {ClassesOf(s) : s \in S}

\* resolveScope without an owner: the classes of the caller's own calendar.
OwnCalendar(q) ==
  CASE q.role = "teacher"         -> UNION {TeacherCalendar(t) : t \in ProfileOf(q)}
    [] q.role = "student"         -> StudentsCalendar(StudentOf(q))
    [] q.role = "parent"          -> StudentsCalendar(ChildrenOf(q))
    [] q.role = "institute_admin" -> InstituteCalendar(q.institute)
    [] OTHER                      -> InstituteCalendar(None)

\* assertClassAccess
CanReadCalendarOf(c, q) ==
  CASE q.role = "institute_admin" -> Administers(q, class[c].institute)
    [] q.role = "teacher"         -> TeacherOf[c] \in ProfileOf(q)
    [] q.role = "student"         -> StudentOf(q) \cap Roster(c) # {}
    [] q.role = "parent"          -> ChildrenOf(q) \cap Roster(c) # {}
    [] OTHER                      -> TRUE

ClassroomInit ==
  /\ class = FirstClass
  /\ versions = [c \in Classes |-> <<>>]
  /\ exceptions = [c \in Classes |-> {}]
  /\ waitlist = <<>>
  /\ roomiest = [c \in Classes |-> Seats(c)]

ClassroomStep(h) ==
  \/ CreateClass(h) \/ UpdateClass(h) \/ SaveClass(h)
  \/ CreateSchedule(h) \/ OpenVersion(h) \/ CreateException(h)
  \/ Enroll(h) \/ CountSeats(h) \/ TakeSeat(h)
  \/ AddToWaitlist(h) \/ Wait(h)

-----------------------------------------------------------------------------
\* enrollStudent: a class never holds more enrollments than the largest capacity one of them
\* was checked against, and a student has one, except for the calls that overlap: they
\* count before either of them inserts.
SeatsBounded ==
  \A c \in Classes :
    /\ Seats(c) <= roomiest[c] + Racing - 1
    /\ \A s \in Students :
         Cardinality({i \in DOMAIN enrolled : enrolled[i] = Seat(c, s)}) <= Racing

\* createSchedule leaves no gap: from the earliest start on, every day is a day of some version
\* of the class, also when a version starts before the current one and when calls overlap.
Covers(v, d) == v.from <= d /\ (v.to = None \/ d <= v.to)
EveryDayScheduled ==
  \A c \in Classes : \A i \in DOMAIN versions[c] : \A d \in Days :
    versions[c][i].from <= d => \E j \in DOMAIN versions[c] : Covers(versions[c][j], d)

\* A calendar flags an occurrence (flagConflicts) exactly when the warnings of its class
\* (getConflicts) name a class of that calendar on that day: the two compute it apart.
CalendarAgrees ==
  \A C \in {TeacherCalendar(t) : t \in Teachers} \cup {InstituteCalendar(i) : i \in Institutes} :
    \A e \in CalendarOccurrences(C) :
      ConflictReason(e, C) # None <=>
        \E x \in GetConflicts(e.class) : x.day = e.day /\ x.with \in C
=============================================================================
