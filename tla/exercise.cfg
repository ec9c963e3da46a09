SPECIFICATION Spec
CONSTANTS
  c1 = c1
  c2 = c2
  k1 = k1
  k2 = k2
  k3 = k3
  s = s
  b = b
  sAcc = sAcc
  bAcc = bAcc
  bAcc2 = bAcc2
  Contracts <- TwoContracts
  Callers = {k1, k2, k3}
  Calls <- MCCalls
  Users = {s, b}
  Accounts = {sAcc, bAcc}
  Seller <- MCSeller
  Buyer <- MCBuyer
  SellerAccount <- MCSellerAccount
  PayingAccount <- MCBuyerAccount
  FoundAccount <- MCBuyerAccount
  NoContractCurrency = {}
  Amount <- MCAmount
  Pay <- MCPay
  Receive <- MCReceive
  InitBalance <- MCBalance
  InitShares <- SpareShares
  Faults <- AllFaults
  Disconnects = TRUE
  CrashPoints = {}
  MaxCrashes = 0
  MaxGiveUps = 0
  MaxSales = 0
SYMMETRY CallerSymmetry
PROPERTIES ExerciseIsAtomic
CHECK_DEADLOCK FALSE
