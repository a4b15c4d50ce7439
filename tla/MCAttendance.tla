---------------------------- MODULE MCAttendance ----------------------------
(* A class of two students. *)
EXTENDS Attendance, TLC

CONSTANTS s1, s2, present, absent

\* Two roll calls that differ in one student.
RollsDef == {[s \in Students |-> present], [s \in Students |-> IF s = s1 THEN present ELSE absent]}

Interchangeable == Permutations(Requests)
=============================================================================
