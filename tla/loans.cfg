SPECIFICATION Spec
CONSTANTS
  loan1 = loan1
  t1 = t1
  t2 = t2
  a1 = a1
  a2 = a2
  Loans = {loan1}
  Variable = {loan1}
  Amount = 5
  Period = 3
  Triggers = {t1}
  Approvals = {a1, a2}
  Month = 3
  RetryGap = 2
  Margins = {0, 1}
  InitClient = 0
  InitBank = 5
  MaxDay = 9
  MaxTriggers = 1
  MaxUpdates = 1
  MaxFaults = 1
  MaxSpent = 1
  MaxEarned = 2
  LastApproval = 0
  SlowRuns = FALSE
SYMMETRY Alike
INVARIANTS TypeOK DebtIsKept BankBooks SerialCharges ScheduleCoversDebt
CHECK_DEADLOCK FALSE
