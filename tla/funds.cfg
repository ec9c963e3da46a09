SPECIFICATION Spec
CONSTANTS
  F = F
  a = a
  v = v
  n = n
  b = b
  w1 = w1
  w2 = w2
  t = t
  Funds = {F}
  Investors = {a, v}
  Clients = {a}
  Investments = {n}
  Withdrawals = {w1, w2, b}
  Trades = {t}
  By <- MCBy
  Of <- MCOf
  Amounts = {0, 1, 2}
  Quantities = {1}
  Minimum = 1
  Rate <- MCRate
  Price = 1
  Fee = 1
  InitCash <- MCCash
  InitPosition <- MCPosition
  InitLiquid <- MCLiquid
  InitShares <- MCShares
  Faults <- EveryFault
  MaxFaults = 2
  MaxStarted = 2
SYMMETRY Alike
INVARIANTS TypeOK InvestorsWhole FundBooks PendingPaidOnce
CHECK_DEADLOCK FALSE
