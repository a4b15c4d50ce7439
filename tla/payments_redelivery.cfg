\* One property, which a comment or document states and the code does not keep.
SPECIFICATION Spec
CONSTANTS
  Handlers = {h1, h2}
  Invoices = {i1}
  Shared = {i1}
  Keys = {k1}
  Sessions = {s1}
  Totals = {2}
  Amounts = {2}
  MaxAmount = 2
  MaxNotes = 0
  MaxRefunds = 1
  MaxFails = 0
  MaxInFlight = 2
  None = None
PROPERTIES ReconciledIsFinal
CHECK_DEADLOCK FALSE
