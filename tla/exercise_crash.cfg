SPECIFICATION Spec
CONSTANTS
  c1 = c1
  c2 = c2
  k1 = k1
  k2 = k2
  k3 = k3
  s = s
  b = b
  sAcc = sAcc
  bAcc = bAcc
  bAcc2 = bAcc2
  Contracts <- OneContract
  Callers = {k1, k2}
  Calls <- MCCalls
  Users = {s, b}
  Accounts = {sAcc, bAcc}
  Seller <- MCSeller
  Buyer <- MCBuyer
  SellerAccount <- MCSellerAccount
  PayingAccount <- MCBuyerAccount
  FoundAccount <- MCBuyerAccount
  NoContractCurrency = {}
  Amount <- MCAmount
  Pay <- MCPay
  Receive <- MCReceive
  InitBalance <- RichBalance
  InitShares <- TwoShares
  Faults <- EveryFault
  Disconnects = TRUE
  CrashPoints <- Anywhere
  MaxCrashes = 1
  MaxGiveUps = 1
  MaxSales = 1
SYMMETRY CallerSymmetry
INVARIANTS LockProtects ExercisedOnce CompletedIsExercised LoggedBeforeExercised
CHECK_DEADLOCK FALSE
