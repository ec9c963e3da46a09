SPECIFICATION Spec
CONSTANTS
  n1 = n1
  n2 = n2
  seller = seller
  buyer = buyer
  s1 = s1
  s2 = s2
  b1 = b1
  sAcc = sAcc
  bAcc = bAcc
  Negotiations = {n1, n2}
  Users = {seller, buyer}
  Sessions = {s1, s2, b1}
  UserOf <- MCUserOf
  Buyer <- MCBuyer
  Sellers <- MCSellers
  Seller <- MCSeller
  Owners = {seller}
  Free <- MCFree
  Terms <- MCTerms
  PayingAccount <- MCPaying
  PaidAccount <- MCPaid
  Rate <- MCRate
  Accounts = {sAcc, bAcc}
  InitBalance <- MCBalance
  Taxable <- MCTaxable
  Faults <- Failures
  MaxRefusals = 1
SYMMETRY Symmetry
INVARIANTS TypeOK PremiumsBalance ContractsCovered
PROPERTIES AgreementsHold
CHECK_DEADLOCK FALSE
