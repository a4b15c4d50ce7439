\* The server works on what it accepted; the gateway repeats an unacknowledged webhook
\* once the last delivery has ended.
\* Deadlock is not an error: when every bound is used up, no request is left to make.
SPECIFICATION FairSpec
CONSTANTS
  Handlers = {h1, h2}
  Invoices = {i1}
  Shared = {i1}
  Keys = {k1}
  Sessions = {s1}
  Totals = {2}
  Amounts = {2}
  MaxAmount = 2
  MaxNotes = 0
  MaxRefunds = 1
  MaxFails = 1
  MaxInFlight = 1
  None = None
PROPERTIES SettledIsReconciled ImplementsLifecycle
CHECK_DEADLOCK FALSE
