\* Two calls of an app, one of which may lose its connection, or the app is killed.
SPECIFICATION Spec
CONSTANTS
  Devices = {d1}
  Calls = {c1, c2}
  Handlers = {h1, h2}
  Pairs = {1, 2, 3, 4, 5}
  MaxFaults = 1
  MaxOuts = 0
  None = None
SYMMETRY Interchangeable
INVARIANTS SingleUse NeverForcedOut
