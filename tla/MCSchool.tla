------------------------------ MODULE MCSchool ------------------------------
(***************************************************************************)
(* Small instances of SchoolService.  A plan names a handful of operations *)
(* that touch the same rows; every plan runs one call after the other and  *)
(* with two calls at once.                                                 *)
(***************************************************************************)
EXTENDS SchoolService

CONSTANTS r1, r2
Symmetry == Permutations(Requests)

Groups == {
  [ops |-> {"mergeStudents", "addGuardian"}, calls |-> 2],
  [ops |-> {"mergeStudents", "createStudent", "updateStudent", "archiveStudent"}, calls |-> 2],
  [ops |-> {"enrollStudent", "updateClass"}, calls |-> 3],
  [ops |-> {"createSchedule"}, calls |-> 3],
  [ops |-> {"createSchedule", "createClass", "createException", "addToWaitlist", "updateClass"}, calls |-> 2],
  [ops |-> {"createDocument", "createShare", "getFileContent", "createAnnouncement"}, calls |-> 2],
  [ops |-> {"createShare", "addGuardian"}, calls |-> 2],
  [ops |-> {"createShare", "mergeStudents"}, calls |-> 2],
  [ops |-> {"createAssignment", "createSubmission", "reviewSubmission"}, calls |-> 3],
  [ops |-> {"createMetric", "recordPerformance"}, calls |-> 2],
  [ops |-> {"createProfile", "updateProfile", "submitVerification", "review"}, calls |-> 3],
  [ops |-> {"createInvite", "redeemInvite", "archiveInstitute"}, calls |-> 3],
  [ops |-> {"markPaid"}, calls |-> 2],
  [ops |-> {"register"}, calls |-> 3],
  [ops |-> {"register", "addGuardian"}, calls |-> 2],
  [ops |-> {"register", "createShare"}, calls |-> 2]}
MCPlans == {[ops |-> g.ops, calls |-> g.calls, serial |-> b] : g \in Groups, b \in BOOLEAN}

MCUserOf ==
  [x \in Students \cup Teachers \cup Guardians |->
     CASE x = "s1" -> "ann" [] x = "g1" -> "pat" [] x = "t1" -> "tom" [] x = "t2" -> "tia"
       [] x = "t3" -> "tim" [] x = "t4" -> "pat" [] OTHER -> None]
Caller(u, r, i) == [user |-> u, role |-> r, institute |-> i]
MCTokens ==
  {Caller("tom", "teacher", None), Caller("tia", "teacher", None), Caller("tim", "teacher", None), Caller("pat", "teacher", None),
   Caller("ann", "student", None), Caller("pat", "parent", None),
   Caller("may", "parent", None), Caller("max", "parent", None),
   Caller("ida", "institute_admin", "i1"), Caller("tom", "institute_admin", "i2"), Caller("sue", "super_admin", None)}

MCFirstStudent ==
  [s \in Students |-> CASE s = "s1" -> StudentRow("active", "i1") [] s = "s2" -> StudentRow("active", None)
                       [] s = "s3" -> StudentRow("active", "i1") [] OTHER -> None]
MCFirstAssigned ==
  <<Assignment("s1", "t1"), Assignment("s2", "t1"), Assignment("s2", "t2"), Assignment("s3", "t1"), Assignment("s3", "t2")>>
MCFirstLinked == <<Link("s1", "g2"), Link("s2", "g1"), Link("s2", "g2")>>
\* A household of two parents with one phone: only pat has an account.
MCEmailOf == [x \in Accounts \cup Guardians |-> CASE x = "g1" -> "pat@" [] x \in {"g2", "may"} -> "may@" [] OTHER -> None]
MCPhoneOf == [x \in Accounts \cup Guardians |-> IF x \in {"g1", "g2", "max"} THEN "home" ELSE IF x = "g3" THEN "g3" ELSE None]
MCFirstEnrolled == <<Seat("c1", "s1"), Seat("c2", "s2")>>
MCFirstProfile ==
  [t \in Teachers |-> CASE t = "t1" -> ProfileRow("i1", "verified") [] t \in {"t2", "t4"} -> ProfileRow(None, "unverified")
                       [] OTHER -> None]
MCTeacherOf == [c \in Classes |-> IF c = "c2" THEN "t2" ELSE "t1"]
MCFirstClass ==
  [c \in Classes |-> CASE c = "c1" -> ClassRow(2, "i1", "hall") [] c = "c2" -> ClassRow(2, "i1", "hall") [] OTHER -> None]
MCFirstDocument == [d \in Documents |-> IF d = "d1" THEN DocumentRow("tom", None, 1) ELSE None]
MCPatterns == {[days |-> {1, 2}, start |-> 1, end |-> 2], [days |-> {2}, start |-> 2, end |-> 3]}
MCCategoryOf == [t \in Teachers |-> IF t = "t1" THEN "music" ELSE "sports"]
MCInvoices == {[student |-> "s1", teacher |-> "t1", institute |-> "i1"], [student |-> "s2", teacher |-> "t2", institute |-> None]}
MCPaidBy == [p \in Payouts |-> "i1"]
MCMarks == {[student |-> "s1", class |-> "c1"]}
=============================================================================
