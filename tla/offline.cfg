\* A save and a drain, or two of either, at a time; the network goes away or an answer is lost once,
\* the app is killed once, and once a task accesses the queue while another one updates it.
\* Deadlock is not an error: with an empty queue and no save left nothing remains to be done.
SPECIFICATION FairSpec
CONSTANTS
  None = None
  Tasks = {t1, t2}
  Requests = {h1, h2}
  Reopens = TRUE
  MaxSaves = 2
  MaxOutages = 1
  MaxKills = 1
  MaxOverlaps = 1
INVARIANTS Accounted
PROPERTIES RunsEmpty
CHECK_DEADLOCK FALSE
