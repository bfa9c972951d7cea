SPECIFICATION FairSpec
CONSTANTS
  g1 = g1
  g2 = g2
  timer = timer
  operator = operator
  e1 = e1
  e2 = e2
  Grants <- MCGrants
  Auditors = {timer}
  Emails = {e1, e2}
  EmailOf <- MCTwoEmails
  MaxFailures = 0
  MaxCrashes = 0
PROPERTY ExpiredAccessEnds
CHECK_DEADLOCK FALSE
