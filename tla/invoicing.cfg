\* Requests of classes without a common student interleave, and one request may die.
SPECIFICATION Spec
CONSTANTS
  c1 = c1
  c2 = c2
  c3 = c3
  s1 = s1
  s2 = s2
  t1 = t1
  t2 = t2
  Handlers = {h1, h2}
  Classes = {c1, c2, c3}
  Students = {s1, s2}
  Teachers = {t1, t2}
  Periods = {p1}
  Fees = {5}
  Grants = {0, 2}
  MaxDiscounts = 2
  MaxGrants = 1
  MaxFails = 1
  None = None
  MaxOverlap = 1
  Teacher <- MCTeacher
  Enrolled <- Apart
  Held <- MCHeld
  Absent <- MCAbsent
  Discounts <- MCDiscounts
SYMMETRY Interchangeable
INVARIANTS NoDoubleBill BalanceKept CreditAccounted ItemsExplainTotal AllBilled
PROPERTIES ImplementsBilling
