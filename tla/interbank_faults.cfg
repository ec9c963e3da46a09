SPECIFICATION Spec
CONSTANTS
  B1 = B1
  B2 = B2
  a1 = a1
  a2 = a2
  r = r
  v1 = v1
  v2 = v2
  p1 = p1
  p2 = p2
  q = q
  Banks = {B1, B2}
  Accounts = {a1, a2, r, v1, v2}
  Home <- MCHome
  BankAccounts <- MCBanks
  Payments = {p1, q}
  Kind <- MCKind
  From <- MCFrom
  To <- MCTo
  ViaFrom <- MCViaFrom
  ViaTo <- MCViaTo
  Amount <- MCAmount
  Final <- MCFinal
  Acceptable <- MCAcceptable
  InitBalance <- MCBalance
  Limit <- MCLimit
  Retries = 3
  Faults <- EveryFault
  Cancels = TRUE
  MaxFailures = 2
  MaxCrashes = 1
  MaxDeletes = 1
INVARIANTS CreditedOnce DebitedIsCommitted NeverOverdrawn TwoPhase
CHECK_DEADLOCK FALSE
