--------------------------- MODULE AttendanceBook ---------------------------
(***************************************************************************)
(* What marking attendance promises for one class on one day: a roll call  *)
(* is entered as a whole, whoever sends it and however often, and every    *)
(* change of a mark after the first is logged with the mark it replaced.   *)
(* Module Attendance, statement by statement, is shown to implement this.  *)
(***************************************************************************)
EXTENDS Sequences

CONSTANTS Students, Statuses, None

VARIABLES
  mark,   \* the mark of each student, or None
  log     \* for each student the changes, oldest first

BookInit == mark = [s \in Students |-> None] /\ log = [s \in Students |-> <<>>]

Changed(roll) == {s \in DOMAIN roll : mark[s] \notin {None, roll[s]}}

Enter(roll) ==
  /\ mark' = [s \in Students |-> IF s \in DOMAIN roll THEN roll[s] ELSE mark[s]]
  /\ log' = [s \in Students |->
       IF s \in Changed(roll) THEN Append(log[s], [from |-> mark[s], to |-> roll[s]]) ELSE log[s]]

BookNext == \E S \in SUBSET Students : \E roll \in [S -> Statuses] : Enter(roll)

BookSpec == BookInit /\ [][BookNext]_<<mark, log>>
=============================================================================
