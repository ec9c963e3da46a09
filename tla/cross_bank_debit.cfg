SPECIFICATION Spec
CONSTANTS
  n1 = n1
  t1 = t1
  t2 = t2
  c1 = c1
  c2 = c2
  c3 = c3
  c4 = c4
  Negotiations = {n1}
  Calls = {c1, c2, c3}
  Terms = {t1, t2}
  Amount <- MCAmount
  Strike <- MCStrike
  Premium <- MCPremium
  Opened = {"none", "PENDING_BUYER"}
  InitBalance = 4
  InitHeld = 3
  InitCash = 0
  Payment = 3
  MaxSpent = 0
  MaxTries = 2
  MaxFaults = 0
SYMMETRY Alike
INVARIANT AvailableWithinBalance
CHECK_DEADLOCK FALSE
