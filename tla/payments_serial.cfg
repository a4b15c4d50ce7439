\* One request at a time, one of which may die half-way.
\* Deadlock is not an error: when every bound is used up, no request is left to make.
SPECIFICATION Spec
CONSTANTS
  Handlers = {h1}
  Invoices = {i1}
  Shared = {i1}
  Keys = {k1, k2}
  Sessions = {s1}
  Totals = {0, 3}
  Amounts = {1, 2}
  MaxAmount = 3
  MaxNotes = 1
  MaxRefunds = 1
  MaxFails = 1
  MaxInFlight = 2
  None = None
INVARIANTS StatusAgrees NoDuplicateCredit AuditComplete
CHECK_DEADLOCK FALSE
