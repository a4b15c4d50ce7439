\* One property, which a comment or document states and the code does not keep.
SPECIFICATION FairSpec
CONSTANTS
  Handlers = {h1}
  Invoices = {i1}
  Shared = {i1}
  Keys = {k1}
  Sessions = {s1}
  Totals = {2}
  Amounts = {2}
  MaxAmount = 2
  MaxNotes = 0
  MaxRefunds = 0
  MaxFails = 1
  MaxInFlight = 2
  None = None
PROPERTIES ConfirmedGetsPayout
CHECK_DEADLOCK FALSE
