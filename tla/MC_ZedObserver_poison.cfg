SPECIFICATION FairSpec
CONSTANTS
  t1 = t1
  t2 = t2
  c1 = c1
  c2 = c2
  c3 = c3
  NoThread = NoThread
  Threads <- MCThreads
  Calls <- MCTwoCalls
  ThreadOf <- MCTwoThreadOf
  Unreadable = {t2}
  Outcomes = {"completed"}
  Backfill = FALSE
  MaxWrites = 3
  MaxFailures = 1
  MaxDeaths = 1
PROPERTY EveryCallHandled
CHECK_DEADLOCK FALSE
