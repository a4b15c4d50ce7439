\* Two requests in progress for a class of two students; one may die, one mark is corrected.
\* Deadlock is not an error: when every bound is used up, no request is left to make.
SPECIFICATION AttendanceSpec
CONSTANTS
  s1 = s1
  s2 = s2
  present = present
  absent = absent
  None = None
  Requests = {h1, h2}
  Students = {s1, s2}
  Statuses = {present, absent}
  Rolls <- RollsDef
  EditsAlone = TRUE
  MaxEdits = 1
  MaxFails = 1
  MaxLog = 2
SYMMETRY Interchangeable
PROPERTIES ImplementsBook RollInForce
CHECK_DEADLOCK FALSE
