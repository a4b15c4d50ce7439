\* Two requests interleave, deliveries of a webhook may overlap and one request may die half-way.
\* Deadlock is not an error: when every bound is used up, no request is left to make.
SPECIFICATION Spec
CONSTANTS
  Handlers = {h1, h2}
  Invoices = {i1}
  Shared = {i1}
  Keys = {k1}
  Sessions = {s1}
  Totals = {1, 3}
  Amounts = {2}
  MaxAmount = 3
  MaxNotes = 0
  MaxRefunds = 1
  MaxFails = 1
  MaxInFlight = 2
  None = None
SYMMETRY Interchangeable
INVARIANTS GatewayTruth RefundBacked PayoutBacked StatusBacked
PROPERTIES HistoryKept
CHECK_DEADLOCK FALSE
