SPECIFICATION Spec
CONSTANTS
  o1 = o1
  o2 = o2
  client = client
  house = house
  clientAcc = clientAcc
  houseAcc = houseAcc
  g = g
  s1 = s1
  Orders = {o1, o2}
  Owners = {client, house}
  Accounts = {clientAcc, houseAcc}
  Agents = {g}
  Supervisors = {s1}
  Requests <- MCRequests
  InitBalance <- MCBalance
  InitShares <- MCShares
  Limit <- MCLimit
  NeedApproval = {}
  Cancellable = {o1}
  Faults <- EveryFault
  MaxIncidents = 1
INVARIANTS AllOrNone DoneMeansFilled NoOverfill
  PendingNotExecuted BooksBalance FillsArePaid HoldingsMatch LimitCharged
CHECK_DEADLOCK FALSE
PROPERTIES ApprovedOrderEnds
