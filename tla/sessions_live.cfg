\* One call at a time; a lost connection or a killed app, and a logout, a deletion or the end of
\* a token.  A deleted account and an app that shows the login screen: nothing is left to do.
SPECIFICATION FairSpec
CONSTANTS
  Devices = {d1}
  Calls = {c1}
  Handlers = {h1, h2}
  Pairs = {1, 2, 3, 4, 5}
  MaxFaults = 1
  MaxOuts = 1
  None = None
PROPERTIES CallsEnd DeletedStaysOut
CHECK_DEADLOCK FALSE
