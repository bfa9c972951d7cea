SPECIFICATION Spec
CONSTANTS
  t1 = t1
  t2 = t2
  c1 = c1
  c2 = c2
  c3 = c3
  NoThread = NoThread
  Threads <- MCThreads
  Calls <- MCCalls
  ThreadOf <- MCThreadOf
  Unreadable = {}
  Outcomes = {}
  Backfill = FALSE
  MaxWrites = 3
  MaxFailures = 1
  MaxDeaths = 1
INVARIANTS
  TypeOK
  HandledIsAccountedFor
  LevelThreadIsHandled
PROPERTIES
  HistoryIsNeverExported
  CheckpointedIsNeverReexported
  StateFileOnlyGrows
  HistoryIsClosed
  ImplementsPromise
CHECK_DEADLOCK FALSE
