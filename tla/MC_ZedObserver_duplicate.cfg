SPECIFICATION Spec
CONSTANTS
  t1 = t1
  t2 = t2
  c1 = c1
  c2 = c2
  c3 = c3
  NoThread = NoThread
  Threads <- MCThreads
  Calls <- MCCalls
  ThreadOf <- MCThreadOf
  Unreadable = {}
  Outcomes = {"completed"}
  Backfill = FALSE
  MaxWrites = 3
  MaxFailures = 0
  MaxDeaths = 1
INVARIANT NoDuplicateExport
CHECK_DEADLOCK FALSE
