SPECIFICATION Spec
CONSTANTS
  loan1 = loan1
  t1 = t1
  t2 = t2
  a1 = a1
  a2 = a2
  Loans = {loan1}
  Variable = {loan1}
  Amount = 5
  Period = 3
  Triggers = {}
  Approvals = {a1}
  Month = 3
  RetryGap = 2
  Margins = {0}
  InitClient = 0
  InitBank = 5
  MaxDay = 9
  MaxTriggers = 0
  MaxUpdates = 0
  MaxFaults = 0
  MaxSpent = 4
  MaxEarned = 2
  LastApproval = 0
  SlowRuns = FALSE
INVARIANT OverdueIsCollected
CHECK_DEADLOCK FALSE
