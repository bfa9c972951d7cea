SPECIFICATION FairSpec
CONSTANTS
  g1 = g1
  g2 = g2
  timer = timer
  operator = operator
  e1 = e1
  e2 = e2
  Grants <- MCGrants
  Auditors = {timer, operator}
  Emails = {e1}
  EmailOf <- MCSameEmail
  MaxFailures = 1
  MaxCrashes = 1
INVARIANTS
  TypeOK
  ClosedTicketsAreOver
PROPERTY OverdueTicketsAreClosed
CHECK_DEADLOCK FALSE
