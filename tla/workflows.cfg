\* Two requests, a daily digest and the jobs; the process may die once.
\* Deadlock is not an error: when the calls of a plan are used up, no call is left to make.
SPECIFICATION Spec
CONSTANTS
  None = None
  r1 = r1
  r2 = r2
  Requests = {r1, r2, "digest_daily"}
  Digests = {"digest_daily"}
  Plans <- MCPlans
  MaxDeaths = 1
  Users = {"ann", "pat"}
  Devices = {"phone"}
  Default = "digest_daily"
  MaxRows = 2
  Exports = {"e1"}
  Imports = {"i1", "i2"}
  RowsOf <- MCRowsOf
INVARIANTS PushedOnce JobsAccounted
PROPERTIES DigestDelivered JobsEnd
CHECK_DEADLOCK FALSE
