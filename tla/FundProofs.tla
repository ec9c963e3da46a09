----------------------------- MODULE FundProofs -----------------------------
(* Proofs about FundPositions: for any investors, funds, orders, amounts,  *)
(* rates and failures, what an investor pays and is paid is what enters    *)
(* and leaves his positions, the account of a fund and liquid_assets part  *)
(* only by commissions and pending payments, and what waited is paid once. *)
EXTENDS FundPositions, SumTheorems

CallType == [pc : CallLabels, amount : Nat, sum : Nat, liquid : Int, here : BOOLEAN]
OrderType == [pc : OrderLabels, direction : {"BUY", "SELL"}, left : Nat, qty : Nat, fills : Nat]
CheckType == [pc : CheckLabels, liquid : Int, rows : SUBSET Withdrawals,
              row : Withdrawals \cup {None}, sum : Nat]
RowType == [status : {None, "PENDING", "COMPLETED"}, amount : Nat]

(* What TypeOK says of the tables, of the accounts and of who is at work.  *)
Tables ==
  /\ active \in [Funds -> BOOLEAN] /\ liquid \in [Funds -> Int]
  /\ position \in [Funds -> [Investors -> Int]] /\ shares \in [Funds -> Nat]
Accounts == cash \in [Holders -> Int] /\ adrift \subseteq Holders
Rows == pending \in [Withdrawals -> RowType] /\ arrived \in [Withdrawals -> Nat]
Ghosts ==
  /\ deleting \subseteq Funds /\ payouts \in [Withdrawals -> Nat]
  /\ overlapped \in BOOLEAN /\ faults \in Nat

(* A row that a check has read was left by a withdrawal, and a withdrawal  *)
(* leaves its row, and places its order, once.                             *)
RowsRead ==
  \A o \in Orders :
    /\ InHand(o) => check[o].row \in Withdrawals
    /\ \A w \in Withdrawals :
         w \in check[o].rows \/ (InHand(o) /\ check[o].row = w) => pending[w].status # None
OncePending ==
  \A w \in Withdrawals :
    /\ pending[w].status # None => call[w].pc = "end"
    /\ order[w].pc # "none" => call[w].pc \in {"await", "end"}
    /\ pending[w].status = None => payouts[w] = 0
Fitting ==
  \A o \in Orders :
    /\ order[o].pc = "holding" => order[o].qty <= order[o].left
    /\ order[o].pc = "none" => order[o].fills = 0

(* A withdrawal was paid at least once for every check that has it in hand *)
(* and once if it is completed.                                            *)
Hand(o, w) == IF InHand(o) /\ Row(o) = w THEN 1 ELSE 0
Hands(w) == SumFunctionOnSet([o \in Orders |-> Hand(o, w)], Orders)
Done(w) == IF pending[w].status = "COMPLETED" THEN 1 ELSE 0
Backed == \A w \in Withdrawals : payouts[w] >= Hands(w) + Done(w)

Working ==
  /\ call \in [Calls -> CallType] /\ order \in [Orders -> OrderType]
  /\ check \in [Orders -> CheckType]
Shape == Tables /\ Accounts /\ Rows /\ Working /\ Ghosts
Core == Shape /\ RowsRead /\ OncePending /\ Fitting /\ Backed

LEMMA ShapeIsTypeOK == Shape <=> TypeOK
  BY DEF Shape, Tables, Accounts, Rows, Working, Ghosts, TypeOK, CallType, OrderType, CheckType,
         RowType

LEMMA Names ==
  /\ \A c \in Calls : By[c] \in Investors /\ By[c] \in Holders
  /\ \A x \in Calls \cup Trades : Of[x] \in Funds /\ Of[x] \in Holders
  /\ \A i \in Investors : Rate[i] \in Nat /\ i \in Holders
  /\ \A f \in Funds : f \notin Investors /\ f \in Holders
  /\ Investments \subseteq Calls /\ Withdrawals \subseteq Calls /\ Withdrawals \subseteq Orders
  /\ Orders \subseteq Calls \cup Trades /\ Calls = Investments \cup Withdrawals
  /\ Investments \cap Withdrawals = {}
  BY NamesAssumption, AmountsAssumption DEF Calls, Orders, Holders

LEMMA Products == \A x, y \in Nat : x * y \in Nat
  OBVIOUS
LEMMA FiniteOrders == IsFiniteSet(Orders) /\ IsFiniteSet(Calls)
  BY FiniteAssumption, FS_Union DEF Orders, Calls
-----------------------------------------------------------------------------
(* Types.                                                                  *)

LEMMA CallTypes ==
  ASSUME Shape, NEW c \in Calls
  PROVE  call[c] \in CallType
  BY DEF Shape, Working

LEMMA GoingTypes ==
  ASSUME Shape, NEW c \in Calls, NEW label \in CallLabels, GoTo(c, label)
  PROVE  call' \in [Calls -> CallType]
  BY DEF Shape, Working, CallType, GoTo

LEMMA ChangeTypes ==
  ASSUME Shape, NEW h \in Holders, NEW x \in Int, Change(h, x)
  PROVE  cash' \in [Holders -> Int]
  BY DEF Shape, Accounts, Change

LEMMA MoveTypes ==
  ASSUME Shape, NEW f \in Funds, NEW i \in Investors, NEW x \in Int, Move(f, i, x)
  PROVE  liquid' \in [Funds -> Int] /\ position' \in [Funds -> [Investors -> Int]]
<1>1. liquid \in [Funds -> Int] /\ position \in [Funds -> [Investors -> Int]]
  BY DEF Shape, Tables
<1>2. position[f] \in [Investors -> Int]
  BY <1>1
<1> DEFINE moved == [position[f] EXCEPT ![i] = position[f][i] + x]
<1>3. moved \in [Investors -> Int]
  BY <1>2
<1>4. position' = [position EXCEPT ![f] = moved]
  BY DEF Move
<1>5. liquid' = [liquid EXCEPT ![f] = liquid[f] + x]
  BY DEF Move
<1> HIDE DEF moved
<1> QED
  BY <1>1, <1>3, <1>4, <1>5

LEMMA InvestTypes ==
  ASSUME Shape, NEW c \in Investments, Invest(c)
  PROVE  Shape'
<1>0. /\ c \in Calls /\ call[c] \in CallType /\ By[c] \in Holders /\ By[c] \in Investors
      /\ Of[c] \in Funds /\ Of[c] \in Holders
      /\ Rate[By[c]] \in Nat /\ call[c].amount \in Nat /\ call[c].sum \in Nat
  BY CallTypes, Names DEF CallType
<1> USE DEF Succeeds, Refused, Runs, Fails, LeftAdrift, Compensate, fundVars, rowVars, ghosts
<1>1. ASSUME NEW amount \in Amounts, StartInvestment(c, amount) PROVE Shape'
  <2>1. amount \in Nat
    BY AmountsAssumption
  <2>2. call' \in [Calls -> CallType]
    BY <1>0, <1>1, <2>1 DEF StartInvestment, Shape, Working, CallType, CallLabels
  <2> QED
    BY <1>1, <2>2 DEF StartInvestment, Shape, Tables, Accounts, Rows, Working, Ghosts
<1>2. CASE CheckBalance(c)
  <2>1. PICK sum \in {call[c].amount * Rate[By[c]], call[c].amount} :
          /\ Converted(By[c], call[c].amount, sum)
          /\ call' = [call EXCEPT ![c] = [@ EXCEPT
               !.pc = IF cash[By[c]] < sum THEN "end" ELSE "debit", !.sum = sum]]
    BY <1>2 DEF CheckBalance
  <2>2. sum \in Nat
    BY <1>0, <2>1, Products
  <2>3. call' \in [Calls -> CallType]
    BY <1>0, <2>1, <2>2 DEF Shape, Working, CallType, CallLabels
  <2>4. adrift' \subseteq Holders /\ faults' \in Nat
    BY <1>0, <2>1 DEF Converted, Shape, Accounts, Ghosts
  <2> QED
    BY <1>2, <2>3, <2>4 DEF CheckBalance, Shape, Tables, Accounts, Rows, Working, Ghosts
<1>3. CASE DebitInvestor(c)
  <2>1. cash' \in [Holders -> Int] /\ call' \in [Calls -> CallType] /\ faults' \in Nat
    BY <1>0, <1>3, GoingTypes DEF DebitInvestor, CallLabels, Change, Shape, Accounts, Ghosts
  <2> QED
    BY <1>3, <2>1 DEF DebitInvestor, Shape, Tables, Accounts, Rows, Working, Ghosts
<1>4. CASE CreditFund(c)
  <2>1. cash' \in [Holders -> Int] /\ call' \in [Calls -> CallType] /\ faults' \in Nat
    BY <1>0, <1>4, GoingTypes DEF CreditFund, CallLabels, Change, Shape, Accounts, Ghosts
  <2> QED
    BY <1>4, <2>1 DEF CreditFund, Shape, Tables, Accounts, Rows, Working, Ghosts
<1>5. CASE CommitInvestment(c)
  <2>1. /\ liquid' \in [Funds -> Int] /\ position' \in [Funds -> [Investors -> Int]]
        /\ call' \in [Calls -> CallType] /\ faults' \in Nat /\ adrift' \subseteq Holders
    BY <1>0, <1>5, GoingTypes, MoveTypes
    DEF CommitInvestment, CallLabels, Shape, Tables, Accounts, Ghosts
  <2> QED
    BY <1>5, <2>1 DEF CommitInvestment, Shape, Tables, Accounts, Rows, Working, Ghosts
<1>6. CASE Refund(c)
  <2>1. /\ cash' \in [Holders -> Int] /\ call' \in [Calls -> CallType] /\ faults' \in Nat
        /\ adrift' \subseteq Holders
    BY <1>0, <1>6, GoingTypes DEF Refund, CallLabels, Change, Shape, Accounts, Ghosts
  <2> QED
    BY <1>6, <2>1 DEF Refund, Shape, Tables, Accounts, Rows, Working, Ghosts
<1> QED
  BY <1>1, <1>2, <1>3, <1>4, <1>5, <1>6 DEF Invest

LEMMA WithdrawTypes ==
  ASSUME Shape, NEW c \in Withdrawals, Withdraw(c)
  PROVE  Shape'
<1>0. /\ c \in Calls /\ c \in Orders /\ call[c] \in CallType
      /\ By[c] \in Holders /\ By[c] \in Investors
      /\ Of[c] \in Funds /\ Of[c] \in Holders
      /\ Rate[By[c]] \in Nat /\ call[c].amount \in Nat /\ call[c].sum \in Nat
      /\ position[Of[c]][By[c]] \in Int /\ liquid[Of[c]] \in Int /\ shares[Of[c]] \in Nat
  <2>1. c \in Calls /\ c \in Orders /\ By[c] \in Investors /\ Of[c] \in Funds
    BY Names
  <2>2. position[Of[c]][By[c]] \in Int /\ liquid[Of[c]] \in Int /\ shares[Of[c]] \in Nat
    BY <2>1 DEF Shape, Tables
  <2> QED
    BY <2>1, <2>2, CallTypes, Names DEF CallType
<1> USE DEF Succeeds, Refused, Runs, Fails, LeftAdrift, Compensate, fundVars, rowVars, ghosts
<1>1. ASSUME NEW amount \in Amounts, StartWithdrawal(c, amount) PROVE Shape'
  <2>1. amount \in Nat
    BY AmountsAssumption
  <2>2. call' \in [Calls -> CallType]
    BY <1>0, <1>1, <2>1 DEF StartWithdrawal, Shape, Working, CallType, CallLabels
  <2> QED
    BY <1>1, <2>2 DEF StartWithdrawal, Shape, Tables, Accounts, Rows, Working, Ghosts
<1>2. CASE CheckPosition(c)
  <2>1. UNCHANGED <<fundVars, rowVars, cash, order, check, deleting, ghosts>>
    BY <1>2 DEF CheckPosition
  <2>2. CASE GoTo(c, "end") /\ Succeeds /\ UNCHANGED adrift
    <3>1. call' \in [Calls -> CallType]
      BY <1>0, <2>2, GoingTypes DEF CallLabels
    <3> QED
      BY <2>1, <2>2, <3>1 DEF Shape, Tables, Accounts, Rows, Working, Ghosts
  <2>3. CASE /\ 0 < Asked(c) /\ Succeeds /\ UNCHANGED adrift
             /\ call' = [call EXCEPT ![c] = [@ EXCEPT
                  !.pc = IF By[c] \in Clients THEN "liquidate" ELSE "end",
                  !.amount = Asked(c)]]
    <3>1. Asked(c) \in Nat
      BY <1>0, <2>3 DEF Asked
    <3>2. call' \in [Calls -> CallType]
      BY <1>0, <2>3, <3>1 DEF Shape, Working, CallType, CallLabels
    <3> QED
      BY <2>1, <2>3, <3>2 DEF Shape, Tables, Accounts, Rows, Working, Ghosts
  <2>4. CASE /\ 0 < Asked(c)
             /\ \E sum \in {Asked(c) * Rate[By[c]], Asked(c)} :
                  /\ Converted(By[c], Asked(c), sum)
                  /\ call' = [call EXCEPT ![c] = [@ EXCEPT
                       !.pc = "debitFund", !.amount = Asked(c), !.sum = sum]]
    <3>1. Asked(c) \in Nat
      BY <1>0, <2>4 DEF Asked
    <3>2. PICK sum \in {Asked(c) * Rate[By[c]], Asked(c)} :
            /\ Converted(By[c], Asked(c), sum)
            /\ call' = [call EXCEPT ![c] = [@ EXCEPT
                 !.pc = "debitFund", !.amount = Asked(c), !.sum = sum]]
      BY <2>4
    <3>3. sum \in Nat
      BY <1>0, <3>1, <3>2, Products
    <3>4. call' \in [Calls -> CallType]
      BY <1>0, <3>1, <3>2, <3>3 DEF Shape, Working, CallType, CallLabels
    <3>5. adrift' \subseteq Holders /\ faults' \in Nat
      BY <1>0, <3>2 DEF Converted, Shape, Accounts, Ghosts
    <3> QED
      BY <2>1, <3>4, <3>5 DEF Shape, Tables, Accounts, Rows, Working, Ghosts
  <2> QED
    BY <1>2, <2>2, <2>3, <2>4 DEF CheckPosition
<1>3. CASE DebitFund(c)
  <2>1. cash' \in [Holders -> Int] /\ call' \in [Calls -> CallType] /\ faults' \in Nat
    BY <1>0, <1>3, GoingTypes DEF DebitFund, CallLabels, Change, Shape, Accounts, Ghosts
  <2> QED
    BY <1>3, <2>1 DEF DebitFund, Shape, Tables, Accounts, Rows, Working, Ghosts
<1>4. CASE PayInvestor(c)
  <2>1. cash' \in [Holders -> Int] /\ call' \in [Calls -> CallType] /\ faults' \in Nat
    BY <1>0, <1>4, GoingTypes DEF PayInvestor, CallLabels, Change, Shape, Accounts, Ghosts
  <2> QED
    BY <1>4, <2>1 DEF PayInvestor, Shape, Tables, Accounts, Rows, Working, Ghosts
<1>5. CASE CommitWithdrawal(c)
  <2>1. /\ liquid' \in [Funds -> Int] /\ position' \in [Funds -> [Investors -> Int]]
        /\ call' \in [Calls -> CallType] /\ faults' \in Nat /\ adrift' \subseteq Holders
    <3>1. -call[c].amount \in Int
      BY <1>0
    <3>2. call' \in [Calls -> CallType] /\ faults' \in Nat /\ adrift' \subseteq Holders
      BY <1>0, <1>5, GoingTypes DEF CommitWithdrawal, CallLabels, Shape, Accounts, Ghosts
    <3>3. Move(Of[c], By[c], -call[c].amount) \/ UNCHANGED <<liquid, position>>
      BY <1>5 DEF CommitWithdrawal
    <3> QED
      BY <1>0, <3>1, <3>2, <3>3, MoveTypes DEF Shape, Tables
  <2> QED
    BY <1>5, <2>1 DEF CommitWithdrawal, Shape, Tables, Accounts, Rows, Working, Ghosts
<1>6. CASE TakeBack(c)
  <2>1. /\ cash' \in [Holders -> Int] /\ call' \in [Calls -> CallType] /\ faults' \in Nat
        /\ adrift' \subseteq Holders
    BY <1>0, <1>6, GoingTypes DEF TakeBack, CallLabels, Change, Shape, Accounts, Ghosts
  <2> QED
    BY <1>6, <2>1 DEF TakeBack, Shape, Tables, Accounts, Rows, Working, Ghosts
<1>7. CASE RefundFund(c)
  <2>1. /\ cash' \in [Holders -> Int] /\ call' \in [Calls -> CallType] /\ faults' \in Nat
        /\ adrift' \subseteq Holders
    BY <1>0, <1>7, GoingTypes DEF RefundFund, CallLabels, Change, Shape, Accounts, Ghosts
  <2> QED
    BY <1>7, <2>1 DEF RefundFund, Shape, Tables, Accounts, Rows, Working, Ghosts
<1>8. CASE SellShares(c)
  <2>1. call' \in [Calls -> CallType]
    BY <1>0, <1>8, GoingTypes DEF SellShares, CallLabels
  <2>2. order' \in [Orders -> OrderType]
    BY <1>0, <1>8 DEF SellShares, NewOrder, Shape, Working, OrderType, OrderLabels
  <2> QED
    BY <1>8, <2>1, <2>2 DEF SellShares, Shape, Tables, Accounts, Rows, Working, Ghosts
<1>9. CASE InsertPending(c)
  <2>1. call' \in [Calls -> CallType] /\ faults' \in Nat
    BY <1>0, <1>9, GoingTypes DEF InsertPending, CallLabels, Shape, Ghosts
  <2>2. pending' \in [Withdrawals -> RowType]
    BY <1>0, <1>9 DEF InsertPending, Shape, Rows, RowType
  <2>3. arrived' \in [Withdrawals -> Nat]
    <3> DEFINE at == Cardinality({w \in Withdrawals : pending[w].status # None}) + 1
    <3>1. IsFiniteSet({w \in Withdrawals : pending[w].status # None})
      BY FiniteAssumption, FS_Subset
    <3>2. at \in Nat
      BY <3>1, FS_CardinalityType
    <3>3. arrived' = [arrived EXCEPT ![c] = at] \/ arrived' = arrived
      BY <1>9 DEF InsertPending
    <3> HIDE DEF at
    <3> QED
      BY <3>2, <3>3 DEF Shape, Rows
  <2> QED
    BY <1>9, <2>1, <2>2, <2>3 DEF InsertPending, Shape, Tables, Accounts, Rows, Working, Ghosts
<1> QED
  BY <1>1, <1>2, <1>3, <1>4, <1>5, <1>6, <1>7, <1>8, <1>9 DEF Withdraw

LEMMA OrderFacts ==
  ASSUME Shape, NEW o \in Orders
  PROVE  /\ order[o] \in OrderType /\ check[o] \in CheckType
         /\ Of[o] \in Funds /\ Of[o] \in Holders /\ Price \in Nat /\ Fee \in Nat
         /\ \A qty \in Nat : Cost(o, qty) \in Int /\ -Cost(o, qty) \in Int
         /\ Bought(o) \in Int /\ Bought(o) * Price \in Int
<1>1. /\ order[o] \in OrderType /\ check[o] \in CheckType
      /\ Of[o] \in Funds /\ Of[o] \in Holders /\ Price \in Nat /\ Fee \in Nat
  BY Names, AmountsAssumption DEF Shape, Working
<1>2. Bought(o) \in Int
  BY <1>1 DEF Bought, OrderType
<1>3. \A x \in Int, y \in Nat : x * y \in Int
  OBVIOUS
<1>4. ASSUME NEW qty \in Nat PROVE Cost(o, qty) \in Int
  <2>1. qty * Price \in Int
    BY <1>1, <1>3
  <2> QED
    BY <1>1, <2>1 DEF Cost
<1> QED
  BY <1>1, <1>2, <1>3, <1>4

LEMMA OrderTypes ==
  ASSUME Shape, Fitting, NEW o \in Orders,
         \/ Execute(o)
         \/ \E direction \in {"BUY", "SELL"}, quantity \in Quantities :
              o \in Trades /\ PlaceTrade(o, direction, quantity)
  PROVE  Shape'
<1>0. /\ order[o] \in OrderType /\ check[o] \in CheckType
      /\ Of[o] \in Funds /\ Of[o] \in Holders
      /\ \A qty \in Nat : Cost(o, qty) \in Int /\ -Cost(o, qty) \in Int
      /\ Bought(o) \in Int /\ Bought(o) * Price \in Int
      /\ order \in [Orders -> OrderType]
  BY OrderFacts DEF Shape, Working
<1> USE DEF Succeeds, Refused, LeftAdrift, fundVars, rowVars, ghosts
<1>1. ASSUME NEW direction \in {"BUY", "SELL"}, NEW quantity \in Quantities,
             PlaceTrade(o, direction, quantity)
      PROVE  Shape'
  <2>1. quantity \in Nat
    BY AmountsAssumption
  <2>2. order' \in [Orders -> OrderType]
    BY <1>0, <1>1, <2>1 DEF PlaceTrade, NewOrder, OrderType, OrderLabels
  <2> QED
    BY <1>1, <2>2 DEF PlaceTrade, Shape, Tables, Accounts, Rows, Working, Ghosts
<1>2. ASSUME NEW qty \in 1..order[o].left, SettleFill(o, qty) PROVE Shape'
  <2>1. qty \in Nat /\ -Cost(o, qty) \in Int
    BY <1>0 DEF OrderType
  <2>2. order' \in [Orders -> OrderType]
    <3>1. Decline(o) => order' \in [Orders -> OrderType]
      BY <1>0 DEF Decline, OrderType, OrderLabels
    <3> DEFINE filled == [order[o] EXCEPT !.pc = "holding", !.qty = qty,
                                     !.fills = order[o].fills + 1]
    <3>2. filled \in OrderType
      <4>1. order[o] \in OrderType /\ qty \in Nat /\ order[o].fills + 1 \in Nat
        BY <1>0, <2>1 DEF OrderType
      <4> QED
        BY <4>1 DEF OrderType, OrderLabels
    <3>3. Decline(o) \/ order' = [order EXCEPT ![o] = filled]
      BY <1>2 DEF SettleFill
    <3> HIDE DEF filled
    <3> QED
      BY <1>0, <3>1, <3>2, <3>3
  <2>3. cash' \in [Holders -> Int]
    <3>1. UNCHANGED cash \/ Change(Of[o], -Cost(o, qty))
      BY <1>2 DEF SettleFill
    <3> QED
      BY <1>0, <2>1, <3>1, ChangeTypes DEF Shape, Accounts
  <2>4. faults' \in Nat /\ adrift' \subseteq Holders
    BY <1>0, <1>2 DEF SettleFill, Shape, Ghosts, Accounts
  <2> QED
    BY <1>2, <2>2, <2>3, <2>4 DEF SettleFill, Shape, Tables, Accounts, Rows, Working, Ghosts
<1>3. CASE UpdateFundHolding(o)
  <2>1. order' \in [Orders -> OrderType]
    <3> DEFINE left == order[o].left - order[o].qty
               ended == [order[o] EXCEPT
                  !.pc = CASE left > 0 -> "fill"
                           [] left = 0 /\ order[o].direction = "SELL" -> "check"
                           [] OTHER -> "over",
                  !.left = left, !.qty = 0]
    <3>1. left \in Nat
      BY <1>0, <1>3 DEF UpdateFundHolding, Fitting, OrderType
    <3>2. ended \in OrderType
      BY <1>0, <3>1 DEF OrderType, OrderLabels
    <3>3. order' = [order EXCEPT ![o] = ended]
      BY <1>3 DEF UpdateFundHolding, EndFill
    <3> HIDE DEF ended
    <3> QED
      BY <1>0, <3>2, <3>3
  <2>2. liquid' \in [Funds -> Int] /\ shares' \in [Funds -> Nat]
    BY <1>0, <1>3 DEF UpdateFundHolding, Kept, Shape, Tables
  <2>3. faults' \in Nat /\ adrift' \subseteq Holders
    BY <1>0, <1>3 DEF UpdateFundHolding, Shape, Ghosts, Accounts
  <2> QED
    BY <1>3, <2>1, <2>2, <2>3 DEF UpdateFundHolding, Shape, Tables, Accounts, Rows, Working, Ghosts
<1> QED
  BY <1>1, <1>2, <1>3 DEF Execute

LEMMA HandsAreNat ==
  ASSUME NEW w
  PROVE  Hands(w) \in Nat /\ \A o \in Orders : Hand(o, w) \in Nat /\ Hand(o, w) <= Hands(w)
<1> DEFINE f == [o \in Orders |-> Hand(o, w)]
<1>1. \A o \in Orders : f[o] \in Nat /\ f[o] = Hand(o, w)
  BY DEF Hand
<1>2. Hands(w) = SumFunctionOnSet(f, Orders)
  BY DEF Hands
<1> HIDE DEF f
<1> QED
  BY <1>1, <1>2, SumNat, FiniteOrders

LEMMA CheckTypes ==
  ASSUME Core, NEW o \in Orders, CheckPendingWithdrawals(o)
  PROVE  Shape'
<1>0. /\ order[o] \in OrderType /\ check[o] \in CheckType /\ check \in [Orders -> CheckType]
      /\ Of[o] \in Funds /\ Of[o] \in Holders /\ Shape /\ liquid[Of[o]] \in Int
      /\ order \in [Orders -> OrderType]
  <2>1. Shape
    BY DEF Core
  <2> QED
    BY <2>1, OrderFacts DEF Shape, Working, Tables
<1>1. ASSUME NEW w \in Withdrawals
      PROVE  /\ By[w] \in Investors /\ By[w] \in Holders /\ Rate[By[w]] \in Nat
             /\ pending[w].amount \in Nat /\ -pending[w].amount \in Int
             /\ payouts[w] \in Nat /\ pending[w] \in RowType
  BY <1>0, Names DEF Shape, Rows, RowType, Ghosts
<1>2. InHand(o) => Row(o) \in Withdrawals
  BY DEF Core, RowsRead, Row
<1> USE DEF Succeeds, Refused, LeftAdrift, fundVars, rowVars, ghosts
<1>3. ASSUME NEW next \in CheckType, check' = [check EXCEPT ![o] = next]
      PROVE  check' \in [Orders -> CheckType]
  BY <1>0, <1>3
<1>4. CASE ReadLiquid(o)
  <2> DEFINE next == [check[o] EXCEPT !.pc = "rows", !.liquid = liquid[Of[o]]]
  <2>1. next \in CheckType
    BY <1>0 DEF CheckType, CheckLabels
  <2>2. check' = [check EXCEPT ![o] = next]
    BY <1>4 DEF ReadLiquid
  <2> HIDE DEF next
  <2> QED
    BY <1>0, <1>3, <1>4, <2>1, <2>2
    DEF ReadLiquid, Shape, Tables, Accounts, Rows, Working, Ghosts
<1>5. CASE FetchRows(o)
  <2> DEFINE next == [check[o] EXCEPT !.pc = "pay", !.rows = {w \in Withdrawals : IsPending(o, w)}]
  <2>1. next \in CheckType
    BY <1>0 DEF CheckType, CheckLabels
  <2>2. check' = [check EXCEPT ![o] = next]
    BY <1>5 DEF FetchRows
  <2>3. overlapped' \in BOOLEAN
    BY <1>0, <1>5 DEF FetchRows, Shape, Ghosts
  <2> HIDE DEF next
  <2> QED
    BY <1>0, <1>3, <1>5, <2>1, <2>2, <2>3
    DEF FetchRows, Shape, Tables, Accounts, Rows, Working, Ghosts
<1>6. ASSUME NEW w \in Withdrawals, PayRow(o, w) PROVE Shape'
  <2>0. check[o].rows \ {w} \in SUBSET Withdrawals
    BY <1>0 DEF CheckType
  <2>1. CASE Skip(o, w)
    <3> DEFINE next == [check[o] EXCEPT !.rows = check[o].rows \ {w}]
    <3>1. next \in CheckType
      BY <1>0, <2>0 DEF CheckType
    <3>2. check' \in [Orders -> CheckType]
      BY <1>3, <2>1, <3>1 DEF Skip
    <3> HIDE DEF next
    <3>3. CASE UNCHANGED <<cash, payouts, adrift>>
      <4>1. faults' \in Nat
        BY <1>0, <1>6 DEF PayRow, Converted, Shape, Ghosts
      <4> QED
        BY <1>0, <1>6, <3>2, <3>3, <4>1
        DEF PayRow, Shape, Tables, Accounts, Rows, Working, Ghosts
    <3> QED
      BY <1>6, <2>1, <3>3, <1>0, ZenonT(60) DEF PayRow, Skip, CheckAt, CheckType
  <2>2. ASSUME NEW sum \in {pending[w].amount * Rate[By[w]], pending[w].amount},
               Converted(By[w], pending[w].amount, sum), Change(By[w], sum),
               check' = [check EXCEPT ![o] = [@ EXCEPT
                  !.pc = "commit", !.rows = check[o].rows \ {w}, !.row = w, !.sum = sum]],
               payouts' = [payouts EXCEPT ![w] = @ + 1]
        PROVE  Shape'
    <3> DEFINE next == [check[o] EXCEPT
                  !.pc = "commit", !.rows = check[o].rows \ {w}, !.row = w, !.sum = sum]
    <3>1. sum \in Nat
      BY <1>1, <2>2, Products
    <3>2. next \in CheckType
      BY <1>0, <2>0, <3>1 DEF CheckType, CheckLabels
    <3>3. check' \in [Orders -> CheckType]
      BY <1>3, <2>2, <3>2
    <3> HIDE DEF next
    <3>4. cash' \in [Holders -> Int]
      BY <1>0, <1>1, <2>2, <3>1, ChangeTypes
    <3>5. payouts' \in [Withdrawals -> Nat] /\ faults' \in Nat /\ adrift' \subseteq Holders
      BY <1>0, <1>1, <2>2 DEF Converted, Shape, Ghosts, Accounts
    <3> QED
      BY <1>0, <1>6, <3>3, <3>4, <3>5 DEF PayRow, Shape, Tables, Accounts, Rows, Working, Ghosts
  <2> QED
    BY <1>6, <2>1, <2>2 DEF PayRow
<1>7. CASE CommitRow(o)
  <2> DEFINE w == Row(o)
  <2>0. InHand(o) /\ w \in Withdrawals
    BY <1>2, <1>7 DEF CommitRow, CheckAt, InHand
  <2> HIDE DEF w
  <2>1. check' \in [Orders -> CheckType]
    <3> DEFINE done == [check[o] EXCEPT !.pc = "pay", !.row = None, !.sum = 0,
                          !.liquid = check[o].liquid - pending[w].amount]
               undo == [check[o] EXCEPT !.pc = "undo"]
               less == [check[o] EXCEPT !.pc = "undo", !.sum = pending[w].amount]
    <3>1. done \in CheckType /\ undo \in CheckType /\ less \in CheckType
      <4>1. check[o].liquid - pending[w].amount \in Int /\ pending[w].amount \in Nat
        BY <1>0, <1>1, <2>0 DEF CheckType
      <4> QED
        BY <1>0, <4>1 DEF CheckType, CheckLabels
    <3>2. \/ check' = [check EXCEPT ![o] = done] \/ check' = [check EXCEPT ![o] = undo]
          \/ check' = [check EXCEPT ![o] = less]
      BY <1>7 DEF CommitRow, w
    <3> HIDE DEF done, undo, less
    <3> QED
      BY <1>3, <3>1, <3>2
  <2>2. liquid' \in [Funds -> Int] /\ position' \in [Funds -> [Investors -> Int]]
    <3>1. Move(Of[o], By[w], -pending[w].amount) \/ UNCHANGED <<liquid, position>>
      BY <1>7 DEF CommitRow, w
    <3> QED
      BY <1>0, <1>1, <2>0, <3>1, MoveTypes DEF Shape, Tables
  <2>3. pending' \in [Withdrawals -> RowType]
    <3>1. \/ pending' = [pending EXCEPT ![w] = [@ EXCEPT !.status = "COMPLETED"]]
          \/ UNCHANGED pending
      BY <1>7 DEF CommitRow, w
    <3> QED
      BY <1>0, <2>0, <3>1 DEF Shape, Rows, RowType
  <2>4. faults' \in Nat
    BY <1>0, <1>7 DEF CommitRow, Shape, Ghosts
  <2>5. adrift' \subseteq Holders
    <3>1. UNCHANGED adrift \/ adrift' = adrift \cup {By[w]}
      BY <1>7 DEF CommitRow, w
    <3> QED
      BY <1>0, <1>1, <2>0, <3>1 DEF Shape, Accounts
  <2> QED
    BY <1>0, <1>7, <2>1, <2>2, <2>3, <2>4, <2>5
    DEF CommitRow, Shape, Tables, Accounts, Rows, Working, Ghosts
<1>8. CASE UndoRow(o)
  <2> DEFINE w == Row(o)
  <2>0. InHand(o) /\ w \in Withdrawals
    BY <1>2, <1>8 DEF UndoRow, CheckAt, InHand
  <2>1. payouts[w] >= 1
    <3>1. Hand(o, w) = 1
      BY <2>0 DEF Hand
    <3>2. Hands(w) \in Nat /\ Hands(w) >= 1
      BY <3>1, HandsAreNat
    <3>3. payouts[w] >= Hands(w) + Done(w) /\ Done(w) \in Nat
      BY <2>0 DEF Core, Backed, Done
    <3> HIDE DEF w
    <3> QED
      BY <1>1, <2>0, <3>2, <3>3
  <2> HIDE DEF w
  <2>2. check' \in [Orders -> CheckType]
    <3> DEFINE next == [check[o] EXCEPT !.pc = "pay", !.row = None, !.sum = 0]
    <3>1. next \in CheckType
      BY <1>0 DEF CheckType, CheckLabels
    <3> QED
      BY <1>3, <1>8, <3>1 DEF UndoRow, NextRow
  <2>3. payouts' \in [Withdrawals -> Nat]
    <3>1. payouts' = [payouts EXCEPT ![w] = @ - 1] \/ UNCHANGED payouts
      BY <1>8 DEF UndoRow, w
    <3> QED
      BY <1>0, <1>1, <2>0, <2>1, <3>1 DEF Shape, Ghosts
  <2>4. cash' \in [Holders -> Int]
    <3>1. -check[o].sum \in Int
      BY <1>0 DEF CheckType
    <3>2. Change(By[w], -check[o].sum) \/ UNCHANGED cash
      BY <1>8 DEF UndoRow, w
    <3> QED
      BY <1>0, <1>1, <2>0, <3>1, <3>2, ChangeTypes DEF Shape, Accounts
  <2>5. faults' \in Nat
    BY <1>0, <1>8 DEF UndoRow, Shape, Ghosts
  <2>6. adrift' \subseteq Holders
    <3>1. UNCHANGED adrift \/ adrift' = adrift \cup {By[w], Of[o]}
      BY <1>8 DEF UndoRow, w
    <3> QED
      BY <1>0, <1>1, <2>0, <3>1 DEF Shape, Accounts
  <2> QED
    BY <1>0, <1>8, <2>2, <2>3, <2>4, <2>5, <2>6
    DEF UndoRow, Shape, Tables, Accounts, Rows, Working, Ghosts
<1>9. CASE EndCheck(o)
  <2>1. check' \in [Orders -> CheckType]
    <3> DEFINE next == [check[o] EXCEPT !.pc = "end"]
    <3>1. next \in CheckType
      BY <1>0 DEF CheckType, CheckLabels
    <3> QED
      BY <1>3, <1>9, <3>1 DEF EndCheck
  <2>2. order' \in [Orders -> OrderType]
    BY <1>0, <1>9 DEF EndCheck, Decline, OrderType, OrderLabels
  <2> QED
    BY <1>0, <1>9, <2>1, <2>2 DEF EndCheck, Shape, Tables, Accounts, Rows, Working, Ghosts
<1> QED
  BY <1>4, <1>5, <1>6, <1>7, <1>8, <1>9 DEF CheckPendingWithdrawals

LEMMA CrashTypes == ASSUME Shape, Crash PROVE Shape'
<1> USE DEF Refused, fundVars, rowVars, ghosts
<1>1. call' \in [Calls -> CallType]
  BY DEF Crash, Shape, Working, CallType, CallLabels
<1>2. check' \in [Orders -> CheckType]
  BY ZenonT(60) DEF Crash, Shape, Working, CheckType, CheckLabels
<1>3. order' \in [Orders -> OrderType]
  BY ZenonT(60) DEF Crash, Shape, Working, OrderType, OrderLabels
<1>4. adrift' \subseteq Holders
  BY DEF Crash, Shape, Accounts
<1> QED
  BY <1>1, <1>2, <1>3, <1>4 DEF Crash, Shape, Tables, Accounts, Rows, Working, Ghosts

LEMMA OtherTypes ==
  ASSUME Shape,
         \/ \E c \in Calls : Disconnect(c)
         \/ \E f \in Funds : CountPositions(f) \/ DeactivateFund(f)
         \/ UNCHANGED vars
  PROVE  Shape'
<1> USE DEF Refused, fundVars, rowVars, ghosts
<1>1. ASSUME NEW c \in Calls, Disconnect(c) PROVE Shape'
  <2>1. call' \in [Calls -> CallType]
    BY <1>1 DEF Disconnect, Shape, Working, CallType
  <2> QED
    BY <1>1, <2>1 DEF Disconnect, Shape, Tables, Accounts, Rows, Working, Ghosts
<1>2. ASSUME NEW f \in Funds, CountPositions(f) PROVE Shape'
  BY <1>2 DEF CountPositions, Shape, Tables, Accounts, Rows, Working, Ghosts
<1>3. ASSUME NEW f \in Funds, DeactivateFund(f) PROVE Shape'
  BY <1>3 DEF DeactivateFund, Shape, Tables, Accounts, Rows, Working, Ghosts
<1>4. CASE UNCHANGED vars
  BY <1>4 DEF vars, Shape, Tables, Accounts, Rows, Working, Ghosts
<1> QED
  BY <1>1, <1>2, <1>3, <1>4
-----------------------------------------------------------------------------
(* Rows and orders of withdrawals.                                         *)

LEMMA HandsChange ==
  ASSUME NEW o \in Orders, \A p \in Orders \ {o} : check'[p] = check[p], NEW w
  PROVE  Hands(w)' = Hands(w) - Hand(o, w) + Hand(o, w)'
<1> DEFINE f == [p \in Orders |-> Hand(p, w)]
           g == [p \in Orders |-> Hand(p, w)']
<1>1. \A p \in Orders : f[p] \in Int /\ g[p] \in Int
  BY DEF Hand
<1>2. \A p \in Orders \ {o} : g[p] = f[p]
  BY DEF Hand, InHand, Row
<1>3. f[o] = Hand(o, w) /\ g[o] = Hand(o, w)'
  OBVIOUS
<1>4. Hands(w) = SumFunctionOnSet(f, Orders) /\ Hands(w)' = SumFunctionOnSet(g, Orders)
  BY DEF Hands
<1> HIDE DEF f, g
<1> QED
  BY <1>1, <1>2, <1>3, <1>4, SumChange, FiniteOrders

LEMMA HandsKept == UNCHANGED check => \A w : Hands(w)' = Hands(w)
<1> SUFFICES ASSUME UNCHANGED check, NEW w PROVE Hands(w)' = Hands(w)
  OBVIOUS
<1>1. \A o \in Orders : Hand(o, w)' = Hand(o, w)
  BY DEF Hand, InHand, Row
<1> QED
  BY <1>1 DEF Hands

LEMMA NumbersOfRows ==
  ASSUME Shape, NEW w \in Withdrawals
  PROVE  /\ payouts[w] \in Nat /\ Hands(w) \in Nat /\ Done(w) \in Nat
         /\ pending[w].amount \in Nat
  BY HandsAreNat DEF Shape, Ghosts, Done, Rows, RowType

(* A call that has not placed its order and left its row goes on. *)
LEMMA CallCore ==
  ASSUME Core, Shape', NEW c \in Calls, \A d \in Calls \ {c} : call'[d] = call[d],
         call[c].pc \notin {"await", "end"}, UNCHANGED <<pending, payouts, order, check>>
  PROVE  Core'
<1>1. OncePending'
  BY Names DEF Core, OncePending
<1>2. RowsRead' /\ Fitting'
  BY DEF Core, RowsRead, Fitting, InHand
<1>3. Backed'
  BY HandsKept DEF Core, Backed, Done
<1> QED
  BY <1>1, <1>2, <1>3 DEF Core

LEMMA OrderCore ==
  ASSUME Core, Shape', NEW o \in Orders, \A p \in Orders \ {o} : order'[p] = order[p],
         order[o].pc # "none", order'[o].pc # "none",
         order'[o].pc = "holding" => order'[o].qty <= order'[o].left,
         UNCHANGED <<pending, payouts, call, check>>
  PROVE  Core'
<1>1. OncePending'
  BY Names DEF Core, OncePending
<1>2. RowsRead' /\ Fitting'
  BY DEF Core, RowsRead, Fitting, InHand
<1>3. Backed'
  BY HandsKept DEF Core, Backed, Done
<1> QED
  BY <1>1, <1>2, <1>3 DEF Core

(* A check that reads, or leaves a row. *)
LEMMA ReadingCore ==
  ASSUME Core, Shape', NEW o \in Orders, \A p \in Orders \ {o} : check'[p] = check[p],
         ~InHand(o), ~InHand(o)',
         \A w \in check'[o].rows : w \in check[o].rows \/ pending[w].status # None,
         UNCHANGED <<pending, payouts, call, order>>
  PROVE  Core'
<1>1. OncePending' /\ Fitting'
  BY DEF Core, OncePending, Fitting
<1>2. RowsRead'
  BY DEF Core, RowsRead, InHand
<1>3. ASSUME NEW w \in Withdrawals PROVE Hands(w)' = Hands(w)
  <2>1. Hand(o, w) = 0 /\ Hand(o, w)' = 0
    BY DEF Hand
  <2> QED
    BY <2>1, HandsChange, HandsAreNat
<1>4. Backed'
  BY <1>3 DEF Core, Backed, Done
<1> QED
  BY <1>1, <1>2, <1>4 DEF Core

LEMMA InvestCore ==
  ASSUME Core, NEW c \in Investments, Invest(c)
  PROVE  Core'
<1>1. c \in Calls /\ call \in [Calls -> CallType] /\ Shape'
  BY Names, InvestTypes DEF Core, Shape, Working
<1>2. /\ \A d \in Calls \ {c} : call'[d] = call[d]
      /\ call[c].pc \notin {"await", "end"} /\ UNCHANGED <<pending, payouts, order, check>>
  BY <1>1 DEF Invest, StartInvestment, CheckBalance, DebitInvestor, CreditFund, CommitInvestment,
     Refund, GoTo, At, rowVars, ghosts
<1> QED
  BY <1>1, <1>2, CallCore

LEMMA WithdrawCore ==
  ASSUME Core, NEW c \in Withdrawals, Withdraw(c)
  PROVE  Core'
<1>0. /\ c \in Calls /\ c \in Orders /\ call \in [Calls -> CallType] /\ Shape'
      /\ order \in [Orders -> OrderType] /\ pending \in [Withdrawals -> RowType]
      /\ call[c] \in CallType /\ Shape
  BY Names, WithdrawTypes DEF Core, Shape, Working, Rows
<1>1. CASE SellShares(c)
  <2>1. call[c].pc = "liquidate" /\ UNCHANGED <<pending, payouts, check>>
    BY <1>1 DEF SellShares, At, rowVars, ghosts
  <2>2. call'[c].pc = "await" /\ \A d \in Calls \ {c} : call'[d] = call[d]
    BY <1>0, <1>1 DEF SellShares, GoTo, CallType
  <2>3. order'[c] = order[c] \/ order'[c].pc = "fill"
    BY <1>0, <1>1 DEF SellShares, NewOrder
  <2>4. \A p \in Orders \ {c} : order'[p] = order[p]
    BY <1>0, <1>1 DEF SellShares, NewOrder
  <2>5. OncePending'
    BY <1>0, <2>1, <2>2, <2>4, Names DEF Core, OncePending
  <2>6. Fitting' /\ RowsRead'
    BY <2>1, <2>3, <2>4 DEF Core, Fitting, RowsRead, InHand
  <2>7. Backed'
    BY <2>1, HandsKept DEF Core, Backed, Done
  <2> QED
    BY <1>0, <2>5, <2>6, <2>7 DEF Core
<1>2. CASE InsertPending(c)
  <2>1. call[c].pc = "await" /\ UNCHANGED <<payouts, check, order>>
    BY <1>2 DEF InsertPending, At, ghosts
  <2>2. call'[c].pc = "end" /\ \A d \in Calls \ {c} : call'[d] = call[d]
    BY <1>0, <1>2 DEF InsertPending, GoTo, CallType
  <2>3. pending'[c] = pending[c] \/ pending'[c].status = "PENDING"
    BY <1>0, <1>2 DEF InsertPending, rowVars
  <2>4. \A w \in Withdrawals \ {c} : pending'[w] = pending[w]
    BY <1>0, <1>2 DEF InsertPending, rowVars
  <2>5. pending[c].status = None
    BY <2>1 DEF Core, OncePending
  <2>6. OncePending'
    BY <1>0, <2>1, <2>2, <2>3, <2>4, <2>5, Names DEF Core, OncePending
  <2>7. Fitting' /\ RowsRead'
    BY <2>1, <2>3, <2>4, <2>5 DEF Core, Fitting, RowsRead, InHand, None
  <2>8. Backed'
    BY <2>1, <2>3, <2>4, <2>5, HandsKept DEF Core, Backed, Done, None
  <2> QED
    BY <1>0, <2>6, <2>7, <2>8 DEF Core
<1>3. CASE ~SellShares(c) /\ ~InsertPending(c)
  <2>1. /\ \A d \in Calls \ {c} : call'[d] = call[d]
        /\ call[c].pc \notin {"await", "end"} /\ UNCHANGED <<pending, payouts, order, check>>
    BY <1>0, <1>3 DEF Withdraw, StartWithdrawal, CheckPosition, DebitFund, PayInvestor,
       CommitWithdrawal, TakeBack, RefundFund, GoTo, At, rowVars, ghosts
  <2> QED
    BY <1>0, <2>1, CallCore
<1> QED
  BY <1>1, <1>2, <1>3

LEMMA ExecuteCore ==
  ASSUME Core, NEW o \in Orders, Execute(o)
  PROVE  Core'
<1>0. Shape' /\ order \in [Orders -> OrderType] /\ order[o] \in OrderType
  BY OrderTypes DEF Core, Shape, Working
<1>1. ASSUME NEW qty \in 1..order[o].left, SettleFill(o, qty) PROVE Core'
  <2>1. order[o].pc = "fill" /\ UNCHANGED <<pending, payouts, call, check>>
    BY <1>1 DEF SettleFill, rowVars, ghosts
  <2>2. CASE Decline(o)
    <3>1. order'[o].pc = "over" /\ \A p \in Orders \ {o} : order'[p] = order[p]
      BY <1>0, <2>2 DEF Decline, OrderType
    <3> QED
      BY <1>0, <2>1, <3>1, OrderCore
  <2>3. CASE order' = [order EXCEPT ![o] = [@ EXCEPT
                 !.pc = "holding", !.qty = qty, !.fills = order[o].fills + 1]]
    <3>1. /\ order'[o] = [order[o] EXCEPT !.pc = "holding", !.qty = qty,
                                          !.fills = order[o].fills + 1]
          /\ \A p \in Orders \ {o} : order'[p] = order[p]
      BY <1>0, <2>3
    <3>2. order'[o].pc = "holding" /\ order'[o].qty = qty /\ order'[o].left = order[o].left
      BY <1>0, <3>1 DEF OrderType
    <3>3. qty <= order[o].left
      BY <1>0 DEF OrderType
    <3> QED
      BY <1>0, <2>1, <3>1, <3>2, <3>3, OrderCore
  <2> QED
    BY <1>1, <2>2, <2>3 DEF SettleFill
<1>2. CASE UpdateFundHolding(o)
  <2>1. order[o].pc = "holding" /\ UNCHANGED <<pending, payouts, call, check>>
    BY <1>2 DEF UpdateFundHolding, rowVars
  <2>2. order'[o].pc \in {"fill", "check", "over"} /\ \A p \in Orders \ {o} : order'[p] = order[p]
    BY <1>0, <1>2 DEF UpdateFundHolding, EndFill, OrderType
  <2> QED
    BY <1>0, <2>1, <2>2, OrderCore
<1> QED
  BY <1>1, <1>2 DEF Execute

LEMMA TradeCore ==
  ASSUME Core, NEW o \in Trades, NEW direction \in {"BUY", "SELL"}, NEW quantity \in Quantities,
         PlaceTrade(o, direction, quantity)
  PROVE  Core'
<1>0. o \in Orders /\ o \notin Withdrawals /\ order \in [Orders -> OrderType]
  BY NamesAssumption DEF Orders, Calls, Core, Shape, Working
<1>1. Shape'
  BY <1>0, OrderTypes DEF Core
<1>2. UNCHANGED <<pending, payouts, call, check>>
  BY DEF PlaceTrade, rowVars, ghosts
<1>3. order'[o].pc = "fill" /\ \A p \in Orders \ {o} : order'[p] = order[p]
  BY <1>0 DEF PlaceTrade, NewOrder
<1>4. OncePending'
  BY <1>0, <1>2, <1>3, Names DEF Core, OncePending
<1>5. Fitting' /\ RowsRead'
  BY <1>2, <1>3 DEF Core, Fitting, RowsRead, InHand
<1>6. Backed'
  BY <1>2, HandsKept DEF Core, Backed, Done
<1> QED
  BY <1>1, <1>4, <1>5, <1>6 DEF Core

(* The rows that a check still has were read by it. *)
LEMMA RowsReadKept ==
  ASSUME Core, NEW o \in Orders, \A p \in Orders \ {o} : check'[p] = check[p],
         \A w \in Withdrawals : pending[w].status # None => pending'[w].status # None,
         \A w \in check'[o].rows : w \in check[o].rows,
         InHand(o)' => check'[o].row \in Withdrawals /\ pending'[check'[o].row].status # None
  PROVE  RowsRead'
<1> SUFFICES ASSUME NEW p \in Orders
             PROVE  /\ InHand(p)' => check'[p].row \in Withdrawals
                    /\ \A w \in Withdrawals :
                         w \in check'[p].rows \/ (InHand(p)' /\ check'[p].row = w)
                           => pending'[w].status # None
  BY DEF RowsRead
<1>1. CASE p = o
  BY <1>1 DEF Core, RowsRead
<1>2. CASE p # o
  <2>1. check'[p] = check[p] /\ (InHand(p)' <=> InHand(p))
    BY <1>2 DEF InHand
  <2> QED
    BY <2>1 DEF Core, RowsRead
<1> QED
  BY <1>1, <1>2

LEMMA CheckCore ==
  ASSUME Core, NEW o \in Orders, CheckPendingWithdrawals(o)
  PROVE  Core'
<1>0. /\ Shape /\ Shape' /\ check \in [Orders -> CheckType] /\ check[o] \in CheckType
      /\ order \in [Orders -> OrderType] /\ pending \in [Withdrawals -> RowType]
      /\ payouts \in [Withdrawals -> Nat]
  BY CheckTypes DEF Core, Shape, Working, Rows, Ghosts
<1> USE DEF rowVars, ghosts
<1>1. CASE ReadLiquid(o)
  <2>1. UNCHANGED <<pending, payouts, call, order>> /\ check[o].pc = "idle"
    BY <1>1 DEF ReadLiquid, CheckAt
  <2>2. /\ check'[o] = [check[o] EXCEPT !.pc = "rows", !.liquid = liquid[Of[o]]]
        /\ \A p \in Orders \ {o} : check'[p] = check[p]
    BY <1>0, <1>1 DEF ReadLiquid
  <2>3. check'[o].pc = "rows" /\ check'[o].rows = check[o].rows
    BY <1>0, <2>2 DEF CheckType
  <2> QED
    BY <1>0, <2>1, <2>2, <2>3, ReadingCore DEF InHand
<1>2. CASE FetchRows(o)
  <2>1. UNCHANGED <<pending, payouts, call, order>> /\ check[o].pc = "rows"
    BY <1>2 DEF FetchRows, CheckAt
  <2>2. /\ check'[o] = [check[o] EXCEPT !.pc = "pay",
                                        !.rows = {w \in Withdrawals : IsPending(o, w)}]
        /\ \A p \in Orders \ {o} : check'[p] = check[p]
    BY <1>0, <1>2 DEF FetchRows
  <2>3. check'[o].pc = "pay" /\ check'[o].rows = {w \in Withdrawals : IsPending(o, w)}
    BY <1>0, <2>2 DEF CheckType
  <2>4. \A w \in check'[o].rows : pending[w].status # None
    BY <2>3 DEF IsPending, None
  <2> QED
    BY <1>0, <2>1, <2>2, <2>3, <2>4, ReadingCore DEF InHand
<1>3. ASSUME NEW w \in Withdrawals, PayRow(o, w) PROVE Core'
  <2>1. UNCHANGED <<pending, call, order>> /\ check[o].pc = "pay" /\ w \in check[o].rows
    BY <1>3 DEF PayRow, CheckAt, IsNext
  <2>2. CASE Skip(o, w) /\ UNCHANGED payouts
    <3>1. /\ check'[o] = [check[o] EXCEPT !.rows = check[o].rows \ {w}]
          /\ \A p \in Orders \ {o} : check'[p] = check[p]
      BY <1>0, <2>2 DEF Skip
    <3>2. check'[o].pc = "pay" /\ check'[o].rows = check[o].rows \ {w}
      BY <1>0, <2>1, <3>1 DEF CheckType
    <3> QED
      BY <1>0, <2>1, <2>2, <3>1, <3>2, ReadingCore DEF InHand
  <2>3. ASSUME NEW sum, payouts' = [payouts EXCEPT ![w] = @ + 1],
               check' = [check EXCEPT ![o] = [@ EXCEPT
                  !.pc = "commit", !.rows = check[o].rows \ {w}, !.row = w, !.sum = sum]]
        PROVE  Core'
    <3>1. /\ check'[o] = [check[o] EXCEPT
                !.pc = "commit", !.rows = check[o].rows \ {w}, !.row = w, !.sum = sum]
          /\ \A p \in Orders \ {o} : check'[p] = check[p]
      BY <1>0, <2>3
    <3>2. check'[o].pc = "commit" /\ check'[o].rows = check[o].rows \ {w} /\ check'[o].row = w
      BY <1>0, <3>1 DEF CheckType
    <3>3. pending[w].status # None
      BY <2>1 DEF Core, RowsRead
    <3>4. /\ payouts'[w] = payouts[w] + 1
          /\ \A v \in Withdrawals \ {w} : payouts'[v] = payouts[v]
      BY <1>0, <2>3
    <3>5. OncePending' /\ Fitting'
      BY <2>1, <3>3, <3>4 DEF Core, OncePending, Fitting
    <3>6. RowsRead'
      BY <2>1, <3>1, <3>2, <3>3, RowsReadKept
    <3>7. ASSUME NEW v \in Withdrawals PROVE Hands(v)' = Hands(v) + (IF v = w THEN 1 ELSE 0)
      <4>1. Hand(o, v) = 0 /\ Hand(o, v)' = IF v = w THEN 1 ELSE 0
        BY <2>1, <3>2 DEF Hand, InHand, Row
      <4> QED
        BY <3>1, <4>1, HandsChange, HandsAreNat
    <3>8. Backed'
      <4> SUFFICES ASSUME NEW v \in Withdrawals PROVE payouts'[v] >= Hands(v)' + Done(v)'
        BY DEF Backed
      <4>1. payouts[v] >= Hands(v) + Done(v) /\ Done(v)' = Done(v)
        BY <2>1 DEF Core, Backed, Done
      <4> QED
        BY <1>0, <3>4, <3>7, <4>1, NumbersOfRows
    <3> QED
      BY <1>0, <3>5, <3>6, <3>8 DEF Core
  <2> QED
    BY <1>3, <2>2, <2>3 DEF PayRow
<1>4. CASE CommitRow(o)
  <2> DEFINE w == Row(o)
  <2>0. InHand(o) /\ w \in Withdrawals /\ pending[w].status # None
    BY <1>4 DEF CommitRow, CheckAt, InHand, Core, RowsRead, Row
  <2>1. UNCHANGED <<payouts, call, order>>
    BY <1>4 DEF CommitRow
  <2>2. \/ /\ pending' = [pending EXCEPT ![w] = [@ EXCEPT !.status = "COMPLETED"]]
           /\ check' = [check EXCEPT ![o] = [@ EXCEPT !.pc = "pay", !.row = None, !.sum = 0,
                          !.liquid = check[o].liquid - pending[w].amount]]
        \/ /\ UNCHANGED pending
           /\ \/ check' = [check EXCEPT ![o] = [@ EXCEPT !.pc = "undo"]]
              \/ check' = [check EXCEPT ![o] = [@ EXCEPT !.pc = "undo", !.sum = pending[w].amount]]
    BY <1>4 DEF CommitRow
  <2> HIDE DEF w
  <2>3. CASE UNCHANGED pending
    <3>1. \A p \in Orders \ {o} : check'[p] = check[p]
      BY <1>0, <2>2
    <3>2. /\ check'[o].rows = check[o].rows
          /\ \/ check'[o].row = check[o].row /\ check'[o].pc = "undo"
             \/ check'[o].pc = "pay"
      <4>1. \/ check'[o] = [check[o] EXCEPT !.pc = "pay", !.row = None, !.sum = 0,
                              !.liquid = check[o].liquid - pending[w].amount]
            \/ check'[o] = [check[o] EXCEPT !.pc = "undo"]
            \/ check'[o] = [check[o] EXCEPT !.pc = "undo", !.sum = pending[w].amount]
        BY <1>0, <2>2
      <4> QED
        BY <1>0, <4>1 DEF CheckType
    <3>3. OncePending' /\ Fitting' /\ RowsRead'
      BY <2>0, <2>1, <2>3, <3>1, <3>2 DEF Core, OncePending, Fitting, RowsRead, InHand
    <3>4. ASSUME NEW v \in Withdrawals PROVE Hands(v)' <= Hands(v)
      <4>1. Hand(o, v)' <= Hand(o, v) /\ Hand(o, v)' \in Nat
        BY <2>0, <3>2 DEF Hand, InHand, Row
      <4> QED
        BY <3>1, <4>1, HandsChange, HandsAreNat
    <3>5. ASSUME NEW v \in Withdrawals PROVE Hands(v)' \in Int
      <4>1. Hand(o, v)' \in Int
        BY DEF Hand
      <4> QED
        BY <3>1, <4>1, HandsChange, HandsAreNat
    <3>6. Backed'
      <4> SUFFICES ASSUME NEW v \in Withdrawals PROVE payouts'[v] >= Hands(v)' + Done(v)'
        BY DEF Backed
      <4>1. payouts[v] >= Hands(v) + Done(v) /\ Done(v)' = Done(v)
        BY <2>3 DEF Core, Backed, Done
      <4> QED
        BY <1>0, <2>1, <3>4, <3>5, <4>1, NumbersOfRows
    <3> QED
      BY <1>0, <3>3, <3>6 DEF Core
  <2>4. CASE pending' # pending
    <3>1. /\ pending' = [pending EXCEPT ![w] = [@ EXCEPT !.status = "COMPLETED"]]
          /\ check' = [check EXCEPT ![o] = [@ EXCEPT !.pc = "pay", !.row = None, !.sum = 0,
                          !.liquid = check[o].liquid - pending[w].amount]]
      BY <2>2, <2>4
    <3>2. /\ pending'[w].status = "COMPLETED"
          /\ \A v \in Withdrawals \ {w} : pending'[v] = pending[v]
      BY <1>0, <2>0, <3>1 DEF RowType
    <3>3. /\ check'[o] = [check[o] EXCEPT !.pc = "pay", !.row = None, !.sum = 0,
                            !.liquid = check[o].liquid - pending[w].amount]
          /\ \A p \in Orders \ {o} : check'[p] = check[p]
      BY <1>0, <3>1
    <3>4. check'[o].rows = check[o].rows /\ check'[o].pc = "pay"
      BY <1>0, <3>3 DEF CheckType
    <3>9. \A v \in Withdrawals : pending[v].status # None <=> pending'[v].status # None
      BY <2>0, <3>2 DEF None
    <3>10. RowsRead'
      BY <3>3, <3>4, <3>9, RowsReadKept DEF InHand
    <3>11. OncePending' /\ Fitting'
      BY <2>1, <3>9 DEF Core, OncePending, Fitting
    <3>5. OncePending' /\ Fitting' /\ RowsRead'
      BY <3>10, <3>11
    <3>6. ASSUME NEW v \in Withdrawals PROVE Hands(v)' = Hands(v) - (IF v = w THEN 1 ELSE 0)
      <4>1. Hand(o, v)' = 0 /\ Hand(o, v) = IF v = w THEN 1 ELSE 0
        BY <2>0, <3>4 DEF Hand, InHand, w
      <4> QED
        BY <3>3, <4>1, HandsChange, HandsAreNat
    <3>7. Backed'
      <4> SUFFICES ASSUME NEW v \in Withdrawals PROVE payouts'[v] >= Hands(v)' + Done(v)'
        BY DEF Backed
      <4>1. payouts[v] >= Hands(v) + Done(v)
        BY DEF Core, Backed
      <4>2. Done(v)' <= Done(v) + (IF v = w THEN 1 ELSE 0) /\ Done(v)' \in Nat
        BY <3>2 DEF Done
      <4> QED
        BY <1>0, <2>1, <3>6, <4>1, <4>2, NumbersOfRows
    <3> QED
      BY <1>0, <3>5, <3>7 DEF Core
  <2> QED
    BY <2>3, <2>4
<1>5. CASE UndoRow(o)
  <2> DEFINE w == Row(o)
  <2>0. InHand(o) /\ w \in Withdrawals /\ pending[w].status # None
    BY <1>5 DEF UndoRow, CheckAt, InHand, Core, RowsRead, Row
  <2>1. UNCHANGED <<pending, call, order>>
    BY <1>5 DEF UndoRow
  <2>2. payouts' = [payouts EXCEPT ![w] = @ - 1] \/ UNCHANGED payouts
    BY <1>5 DEF UndoRow
  <2>3. /\ check'[o] = [check[o] EXCEPT !.pc = "pay", !.row = None, !.sum = 0]
        /\ \A p \in Orders \ {o} : check'[p] = check[p]
    BY <1>0, <1>5 DEF UndoRow, NextRow
  <2>4. check'[o].rows = check[o].rows /\ check'[o].pc = "pay"
    BY <1>0, <2>3 DEF CheckType
  <2> HIDE DEF w
  <2>5. /\ payouts'[w] >= payouts[w] - 1
        /\ \A v \in Withdrawals \ {w} : payouts'[v] = payouts[v]
        /\ \A v \in Withdrawals : payouts'[v] \in Nat
    BY <1>0, <2>0, <2>2 DEF Shape, Ghosts
  <2>9. RowsRead'
    BY <2>1, <2>3, <2>4, RowsReadKept DEF InHand
  <2>10. OncePending' /\ Fitting'
    BY <2>0, <2>1, <2>5 DEF Core, OncePending, Fitting
  <2>6. OncePending' /\ Fitting' /\ RowsRead'
    BY <2>9, <2>10
  <2>7. ASSUME NEW v \in Withdrawals PROVE Hands(v)' = Hands(v) - (IF v = w THEN 1 ELSE 0)
    <3>1. Hand(o, v)' = 0 /\ Hand(o, v) = IF v = w THEN 1 ELSE 0
      BY <2>0, <2>4 DEF Hand, InHand, w
    <3> QED
      BY <2>3, <3>1, HandsChange, HandsAreNat
  <2>8. Backed'
    <3> SUFFICES ASSUME NEW v \in Withdrawals PROVE payouts'[v] >= Hands(v)' + Done(v)'
      BY DEF Backed
    <3>1. payouts[v] >= Hands(v) + Done(v) /\ Done(v)' = Done(v)
      BY <2>1 DEF Core, Backed, Done
    <3> QED
      BY <1>0, <2>5, <2>7, <3>1, NumbersOfRows
  <2> QED
    BY <1>0, <2>6, <2>8 DEF Core
<1>6. CASE EndCheck(o)
  <2>1. UNCHANGED <<pending, payouts, call>> /\ check[o].pc = "pay" /\ order[o].pc = "check"
    BY <1>6 DEF EndCheck, CheckAt
  <2>2. /\ check'[o] = [check[o] EXCEPT !.pc = "end"]
        /\ \A p \in Orders \ {o} : check'[p] = check[p]
    BY <1>0, <1>6 DEF EndCheck
  <2>3. check'[o].rows = check[o].rows /\ check'[o].pc = "end"
    BY <1>0, <2>2 DEF CheckType
  <2>4. order'[o].pc = "over" /\ \A p \in Orders \ {o} : order'[p] = order[p]
    BY <1>0, <1>6 DEF EndCheck, Decline, OrderType
  <2>5. OncePending' /\ Fitting'
    BY <2>1, <2>4, Names DEF Core, OncePending, Fitting
  <2>6. RowsRead'
    BY <2>1, <2>2, <2>3, RowsReadKept DEF InHand
  <2>7. ASSUME NEW v \in Withdrawals PROVE Hands(v)' = Hands(v)
    <3>1. Hand(o, v)' = 0 /\ Hand(o, v) = 0
      BY <2>1, <2>3 DEF Hand, InHand
    <3> QED
      BY <2>2, <3>1, HandsChange, HandsAreNat
  <2>8. Backed'
    BY <2>1, <2>7 DEF Core, Backed, Done
  <2> QED
    BY <1>0, <2>5, <2>6, <2>8 DEF Core
<1> QED
  BY <1>1, <1>2, <1>3, <1>4, <1>5, <1>6 DEF CheckPendingWithdrawals

LEMMA CrashCore == ASSUME Core, Crash PROVE Core'
<1>0. /\ Shape' /\ call \in [Calls -> CallType] /\ order \in [Orders -> OrderType]
      /\ check \in [Orders -> CheckType]
  BY CrashTypes DEF Core, Shape, Working
<1>1. UNCHANGED <<pending, payouts>>
  BY DEF Crash, rowVars, ghosts
<1>2. \A c \in Calls : call'[c].pc = IF call[c].pc = "idle" THEN "idle" ELSE "end"
  BY <1>0 DEF Crash, At, CallType
<1>3. \A o \in Orders :
        /\ check'[o].pc \in {"idle", "end"} /\ check'[o].rows = check[o].rows
        /\ order'[o] = order[o] \/ (order[o].pc = "check" /\ order'[o].pc = "over")
  <2> SUFFICES ASSUME NEW o \in Orders
               PROVE  /\ check'[o].pc \in {"idle", "end"} /\ check'[o].rows = check[o].rows
                      /\ order'[o] = order[o] \/ (order[o].pc = "check" /\ order'[o].pc = "over")
    OBVIOUS
  <2>1. check[o] \in CheckType /\ order[o] \in OrderType
    BY <1>0
  <2>2. check'[o] = IF check[o].pc = "idle" THEN check[o] ELSE [check[o] EXCEPT !.pc = "end"]
    BY <1>0 DEF Crash
  <2>3. check'[o].pc \in {"idle", "end"} /\ check'[o].rows = check[o].rows
    BY <2>1, <2>2 DEF CheckType
  <2>4. order'[o] = IF order[o].pc = "check" /\ check[o].pc # "idle"
                    THEN [order[o] EXCEPT !.pc = "over"] ELSE order[o]
    BY <1>0 DEF Crash
  <2>5. order'[o] = order[o] \/ (order[o].pc = "check" /\ order'[o].pc = "over")
    <3>1. [order[o] EXCEPT !.pc = "over"].pc = "over"
      BY <2>1 DEF OrderType
    <3>2. CASE order[o].pc = "check" /\ check[o].pc # "idle"
      BY <2>4, <3>1, <3>2
    <3>3. CASE ~(order[o].pc = "check" /\ check[o].pc # "idle")
      BY <2>4, <3>3
    <3> QED
      BY <3>2, <3>3
  <2> QED
    BY <2>3, <2>5
<1>4. OncePending'
  BY <1>1, <1>2, <1>3, Names DEF Core, OncePending
<1>5. Fitting' /\ RowsRead'
  BY <1>1, <1>3 DEF Core, Fitting, RowsRead, InHand
<1>6. ASSUME NEW w PROVE Hands(w)' = 0
  <2> DEFINE g == [o \in Orders |-> Hand(o, w)']
  <2>1. \A o \in Orders : g[o] = 0
    BY <1>3 DEF Hand, InHand
  <2>2. Hands(w)' = SumFunctionOnSet(g, Orders)
    BY DEF Hands
  <2> HIDE DEF g
  <2> QED
    BY <2>1, <2>2, SumZero, FiniteOrders
<1>7. Backed'
  <2> SUFFICES ASSUME NEW w \in Withdrawals PROVE payouts'[w] >= Hands(w)' + Done(w)'
    BY DEF Backed
  <2>1. payouts[w] >= Hands(w) + Done(w) /\ Done(w)' = Done(w) /\ Shape
    BY <1>1 DEF Core, Backed, Done
  <2> QED
    BY <1>1, <1>6, <2>1, NumbersOfRows
<1> QED
  BY <1>0, <1>4, <1>5, <1>7 DEF Core

LEMMA OtherCore ==
  ASSUME Core,
         \/ \E c \in Calls : Disconnect(c)
         \/ \E f \in Funds : CountPositions(f) \/ DeactivateFund(f)
         \/ UNCHANGED vars
  PROVE  Core'
<1>1. Shape'
  BY OtherTypes DEF Core
<1>2. ASSUME NEW c \in Calls, Disconnect(c) PROVE Core'
  <2>1. /\ \A d \in Calls \ {c} : call'[d] = call[d]
        /\ call'[c] = [call[c] EXCEPT !.here = FALSE] /\ call[c] \in CallType
        /\ UNCHANGED <<pending, payouts, order, check>>
    BY <1>2 DEF Disconnect, Core, Shape, Working, rowVars, ghosts
  <2>2. call'[c].pc = call[c].pc
    BY <2>1 DEF CallType
  <2>3. OncePending' /\ RowsRead' /\ Fitting'
    BY <2>1, <2>2, Names, ZenonT(60) DEF Core, OncePending, RowsRead, Fitting, InHand
  <2>4. Backed'
    BY <2>1, HandsKept DEF Core, Backed, Done
  <2> QED
    BY <1>1, <2>3, <2>4 DEF Core
<1>3. ASSUME UNCHANGED <<call, pending, payouts, order, check>> PROVE Core'
  <2>1. OncePending' /\ RowsRead' /\ Fitting'
    BY <1>3 DEF Core, OncePending, RowsRead, Fitting, InHand
  <2>2. Backed'
    BY <1>3, HandsKept DEF Core, Backed, Done
  <2> QED
    BY <1>1, <2>1, <2>2 DEF Core
<1> QED
  BY <1>2, <1>3 DEF CountPositions, DeactivateFund, vars, rowVars, ghosts

LEMMA CoreStep == ASSUME Core, [Next]_vars PROVE Core'
  BY InvestCore, WithdrawCore, ExecuteCore, TradeCore, CheckCore, CrashCore, OtherCore DEF Next

LEMMA InitCore == Init => Core
<1> SUFFICES ASSUME Init PROVE Core
  OBVIOUS
<1>1. IdleCall \in CallType /\ NoOrder \in OrderType /\ NoCheck \in CheckType
  BY DEF IdleCall, CallType, CallLabels, NoOrder, OrderType, OrderLabels, NoCheck, CheckType,
     CheckLabels
<1>2. Working
  BY <1>1 DEF Init, Working
<1>3. Tables
  <2>1. liquid = InitLiquid /\ position = InitPosition /\ shares = InitShares
    BY DEF Init
  <2>2. liquid \in [Funds -> Int] /\ shares \in [Funds -> Nat]
    BY <2>1, AmountsAssumption
  <2>3. ASSUME NEW f \in Funds PROVE position[f] \in [Investors -> Int]
    <3>1. InitPosition[f] \in [Investors -> Nat]
      BY AmountsAssumption
    <3> QED
      BY <2>1, <3>1
  <2>4. position \in [Funds -> [Investors -> Int]]
    BY <2>1, <2>3, AmountsAssumption
  <2>5. active \in [Funds -> BOOLEAN]
    BY DEF Init
  <2> QED
    BY <2>2, <2>4, <2>5 DEF Tables
<1>4. Accounts
  <2>1. cash = InitCash /\ adrift = {}
    BY DEF Init
  <2> QED
    BY <2>1, AmountsAssumption DEF Accounts
<1>5. Rows
  BY DEF Init, Rows, RowType
<1>6. Ghosts
  <2>1. overlapped \in BOOLEAN
    BY DEF Init
  <2> QED
    BY <2>1 DEF Init, Ghosts
<1>7. RowsRead /\ OncePending /\ Fitting
  BY Names DEF Init, RowsRead, OncePending, Fitting, NoCheck, InHand, NoOrder
<1>8. Backed
  <2> SUFFICES ASSUME NEW w \in Withdrawals PROVE payouts[w] >= Hands(w) + Done(w)
    BY DEF Backed
  <2>1. Done(w) = 0 /\ payouts[w] = 0
    BY DEF Init, Done, None
  <2> DEFINE f == [o \in Orders |-> Hand(o, w)]
  <2>2. \A o \in Orders : f[o] = 0
    BY DEF Init, Hand, InHand, NoCheck
  <2>3. Hands(w) = SumFunctionOnSet(f, Orders)
    BY DEF Hands
  <2> HIDE DEF f
  <2> QED
    BY <2>1, <2>2, <2>3, SumZero, FiniteOrders
<1> QED
  BY <1>2, <1>3, <1>4, <1>5, <1>6, <1>7, <1>8 DEF Core, Shape

(* The tables, the accounts, the calls, the orders and the checks keep     *)
(* their types: the fund never holds a negative number of shares, and      *)
(* no withdrawal is undone that was not paid.                              *)
THEOREM FundTypes == Spec => []TypeOK
<1>1. Core => TypeOK
  BY ShapeIsTypeOK DEF Core
<1> QED
  BY InitCore, CoreStep, <1>1, PTL DEF Spec
-----------------------------------------------------------------------------
(* What was converted, and which rows are paid.                            *)

(* What a call takes from or gives to an account is its amount in the      *)
(* currency of the account, and so is what a check has paid.               *)
Rated ==
  {"debit", "creditFund", "invest", "refund", "debitFund", "pay", "withdraw", "takeBack",
   "takeBackBoth", "refundFund"}
Converts ==
  /\ \A c \in Calls :
       By[c] \notin adrift /\ call[c].pc \in Rated
         => call[c].sum = call[c].amount * Rate[By[c]]
  /\ \A o \in Orders :
       InHand(o) /\ By[Row(o)] \notin adrift
         => check[o].sum = pending[Row(o)].amount * Rate[By[Row(o)]]

(* A check pays rows of its own fund. *)
OwnRows ==
  \A o \in Orders :
    /\ \A w \in check[o].rows : Of[w] = Of[o]
    /\ InHand(o) => Of[Row(o)] = Of[o]

(* While no two checks of a fund overlap, only one of them pays, its rows  *)
(* are not completed by another, and the payments of a row are those that  *)
(* are in hand and the one that completed it.                              *)
OneCheck ==
  \A o, p \in Orders :
    check[o].pc \in Paying /\ check[p].pc \in Paying /\ Of[o] = Of[p] => o = p
StillPending ==
  \A o \in Orders :
    check[o].pc \in Paying =>
      /\ \A w \in check[o].rows : pending[w].status = "PENDING"
      /\ InHand(o) => pending[Row(o)].status = "PENDING" /\ Row(o) \notin check[o].rows
Counted == \A w \in Withdrawals : By[w] \notin adrift => payouts[w] = Hands(w) + Done(w)
Serial == ~overlapped => OneCheck /\ StillPending /\ Counted

Steady == Converts /\ OwnRows /\ Serial

LEMMA CallSteady ==
  ASSUME Core, Steady, NEW c \in Calls, \A d \in Calls \ {c} : call'[d] = call[d],
         adrift \subseteq adrift', UNCHANGED <<pending, payouts, check, overlapped>>,
         By[c] \notin adrift' /\ call'[c].pc \in Rated
           => call'[c].sum = call'[c].amount * Rate[By[c]]
  PROVE  Steady'
<1>1. Converts'
  BY DEF Steady, Converts, InHand, Row
<1>2. OwnRows'
  BY DEF Steady, OwnRows, InHand, Row
<1>3. Serial'
  <2>1. OneCheck => OneCheck'
    BY DEF OneCheck
  <2>2. StillPending => StillPending'
    BY DEF StillPending, InHand, Row
  <2>3. Counted => Counted'
    BY HandsKept DEF Counted, Done
  <2> QED
    BY <2>1, <2>2, <2>3 DEF Steady, Serial
<1> QED
  BY <1>1, <1>2, <1>3 DEF Steady

(* Nothing that these invariants speak of changes. *)
LEMMA IdleSteady ==
  ASSUME Core, Steady, adrift \subseteq adrift',
         UNCHANGED <<call, pending, payouts, check, overlapped>>
  PROVE  Steady'
<1>1. Converts'
  BY DEF Steady, Converts, InHand, Row
<1>2. OwnRows'
  BY DEF Steady, OwnRows, InHand, Row
<1>3. Serial'
  <2>1. OneCheck => OneCheck'
    BY DEF OneCheck
  <2>2. StillPending => StillPending'
    BY DEF StillPending, InHand, Row
  <2>3. Counted => Counted'
    BY HandsKept DEF Counted, Done
  <2> QED
    BY <2>1, <2>2, <2>3 DEF Steady, Serial
<1> QED
  BY <1>1, <1>2, <1>3 DEF Steady

LEMMA GoingSteady ==
  ASSUME Core, Steady, NEW c \in Calls, NEW label, GoTo(c, label),
         label \in Rated => call[c].pc \in Rated,
         adrift \subseteq adrift', UNCHANGED <<pending, payouts, check, overlapped>>
  PROVE  Steady'
<1>1. call[c] \in CallType /\ call \in [Calls -> CallType]
  BY DEF Core, Shape, Working
<1>2. /\ \A d \in Calls \ {c} : call'[d] = call[d]
      /\ call'[c] = [call[c] EXCEPT !.pc = label]
  BY <1>1 DEF GoTo
<1>3. call'[c].pc = label /\ call'[c].sum = call[c].sum /\ call'[c].amount = call[c].amount
  BY <1>1, <1>2 DEF CallType
<1>4. By[c] \notin adrift' /\ label \in Rated => call[c].sum = call[c].amount * Rate[By[c]]
  BY DEF Steady, Converts
<1> QED
  BY <1>2, <1>3, <1>4, CallSteady

LEMMA InvestSteady ==
  ASSUME Core, Steady, NEW c \in Investments, Invest(c)
  PROVE  Steady'
<1>0. /\ c \in Calls /\ call[c] \in CallType /\ call \in [Calls -> CallType]
  BY Names DEF Core, Shape, Working
<1> USE DEF Succeeds, Refused, Runs, Fails, LeftAdrift, Compensate, rowVars, ghosts, At
<1>1. ASSUME NEW amount \in Amounts, StartInvestment(c, amount) PROVE Steady'
  <2>1. \A d \in Calls \ {c} : call'[d] = call[d]
    BY <1>0, <1>1 DEF StartInvestment
  <2>2. call'[c].pc \in {"balance", "end"}
    BY <1>0, <1>1 DEF StartInvestment, CallType
  <2> QED
    BY <1>0, <1>1, <2>1, <2>2, CallSteady DEF StartInvestment, Rated
<1>2. CASE CheckBalance(c)
  <2>1. PICK sum \in {call[c].amount * Rate[By[c]], call[c].amount} :
          /\ Converted(By[c], call[c].amount, sum)
          /\ call' = [call EXCEPT ![c] = [@ EXCEPT
               !.pc = IF cash[By[c]] < sum THEN "end" ELSE "debit", !.sum = sum]]
    BY <1>2 DEF CheckBalance
  <2>2. \A d \in Calls \ {c} : call'[d] = call[d]
    BY <1>0, <2>1
  <2>3. call'[c].sum = sum /\ call'[c].amount = call[c].amount
    BY <1>0, <2>1 DEF CallType
  <2>4. By[c] \notin adrift' => sum = call[c].amount * Rate[By[c]]
    BY <2>1 DEF Converted
  <2>5. adrift \subseteq adrift'
    BY <2>1 DEF Converted
  <2>6. UNCHANGED <<pending, payouts, check, overlapped>>
    BY <1>2 DEF CheckBalance
  <2> QED
    BY <1>0, <2>2, <2>3, <2>4, <2>5, <2>6, CallSteady
<1>3. CASE DebitInvestor(c)
  BY <1>0, <1>3, GoingSteady DEF DebitInvestor, Rated
<1>4. CASE CreditFund(c)
  BY <1>0, <1>4, GoingSteady DEF CreditFund, Rated
<1>5. CASE CommitInvestment(c)
  BY <1>0, <1>5, GoingSteady DEF CommitInvestment, Rated
<1>6. CASE Refund(c)
  BY <1>0, <1>6, GoingSteady DEF Refund, Rated
<1> QED
  BY <1>1, <1>2, <1>3, <1>4, <1>5, <1>6 DEF Invest

LEMMA WithdrawSteady ==
  ASSUME Core, Steady, NEW c \in Withdrawals, Withdraw(c)
  PROVE  Steady'
<1>0. /\ c \in Calls /\ call[c] \in CallType /\ call \in [Calls -> CallType]
      /\ pending \in [Withdrawals -> RowType]
  BY Names DEF Core, Shape, Working, Rows
<1> USE DEF Succeeds, Refused, Runs, Fails, LeftAdrift, Compensate, rowVars, ghosts, At
<1>1. ASSUME NEW amount \in Amounts, StartWithdrawal(c, amount) PROVE Steady'
  <2>1. \A d \in Calls \ {c} : call'[d] = call[d]
    BY <1>0, <1>1 DEF StartWithdrawal
  <2>2. call'[c].pc \in {"position", "end"}
    BY <1>0, <1>1 DEF StartWithdrawal, CallType
  <2> QED
    BY <1>0, <1>1, <2>1, <2>2, CallSteady DEF StartWithdrawal, Rated
<1>2. CASE CheckPosition(c)
  <2>0. UNCHANGED <<pending, payouts, check, overlapped>>
    BY <1>2 DEF CheckPosition
  <2>1. CASE GoTo(c, "end") /\ UNCHANGED adrift
    BY <1>0, <2>0, <2>1, GoingSteady DEF Rated
  <2>2. CASE /\ UNCHANGED adrift
             /\ call' = [call EXCEPT ![c] = [@ EXCEPT
                  !.pc = IF By[c] \in Clients THEN "liquidate" ELSE "end",
                  !.amount = Asked(c)]]
    <3>1. \A d \in Calls \ {c} : call'[d] = call[d]
      BY <1>0, <2>2
    <3>2. call'[c].pc \in {"liquidate", "end"}
      BY <1>0, <2>2 DEF CallType
    <3> QED
      BY <1>0, <2>0, <2>2, <3>1, <3>2, CallSteady DEF Rated
  <2>3. ASSUME NEW sum, Converted(By[c], Asked(c), sum),
               call' = [call EXCEPT ![c] = [@ EXCEPT
                 !.pc = "debitFund", !.amount = Asked(c), !.sum = sum]]
        PROVE  Steady'
    <3>1. \A d \in Calls \ {c} : call'[d] = call[d]
      BY <1>0, <2>3
    <3>2. call'[c].sum = sum /\ call'[c].amount = Asked(c)
      BY <1>0, <2>3 DEF CallType
    <3>3. By[c] \notin adrift' => sum = Asked(c) * Rate[By[c]]
      BY <2>3 DEF Converted
    <3>4. adrift \subseteq adrift'
      BY <2>3 DEF Converted
    <3> QED
      BY <1>0, <2>0, <3>1, <3>2, <3>3, <3>4, CallSteady
  <2> QED
    BY <1>2, <2>1, <2>2, <2>3 DEF CheckPosition
<1>3. CASE DebitFund(c)
  BY <1>0, <1>3, GoingSteady DEF DebitFund, Rated
<1>4. CASE PayInvestor(c)
  BY <1>0, <1>4, GoingSteady DEF PayInvestor, Rated
<1>5. CASE CommitWithdrawal(c)
  BY <1>0, <1>5, GoingSteady DEF CommitWithdrawal, Rated
<1>6. CASE TakeBack(c)
  BY <1>0, <1>6, GoingSteady DEF TakeBack, Rated
<1>7. CASE RefundFund(c)
  BY <1>0, <1>7, GoingSteady DEF RefundFund, Rated
<1>8. CASE SellShares(c)
  BY <1>0, <1>8, GoingSteady DEF SellShares, Rated
<1>9. CASE InsertPending(c)
  <2>1. call[c].pc = "await" /\ UNCHANGED <<payouts, check, adrift, overlapped>>
    BY <1>9 DEF InsertPending
  <2>2. call'[c].pc = "end" /\ \A d \in Calls \ {c} : call'[d] = call[d]
    BY <1>0, <1>9 DEF InsertPending, GoTo, CallType
  <2>3. pending'[c] = pending[c] \/ pending'[c].status = "PENDING"
    BY <1>0, <1>9 DEF InsertPending
  <2>4. \A w \in Withdrawals \ {c} : pending'[w] = pending[w]
    BY <1>0, <1>9 DEF InsertPending
  <2>5. pending[c].status = None
    BY <2>1 DEF Core, OncePending
  <2>6. \A o \in Orders : InHand(o) => Row(o) \in Withdrawals \ {c}
    BY <2>5 DEF Core, RowsRead, Row
  <2>7. \A o \in Orders : c \notin check[o].rows
    BY <2>5 DEF Core, RowsRead
  <2>8. Converts'
    BY <2>1, <2>2, <2>4, <2>6 DEF Steady, Converts, Rated, InHand, Row
  <2>9. OwnRows'
    BY <2>1 DEF Steady, OwnRows, InHand, Row
  <2>10. OneCheck => OneCheck'
    BY <2>1 DEF OneCheck
  <2>11. StillPending => StillPending'
    <3> SUFFICES ASSUME StillPending, NEW o \in Orders, check'[o].pc \in Paying
                 PROVE  /\ \A w \in check'[o].rows : pending'[w].status = "PENDING"
                        /\ InHand(o)' => /\ pending'[Row(o)'].status = "PENDING"
                                         /\ Row(o)' \notin check'[o].rows
      BY DEF StillPending
    <3>1. check[o].rows \subseteq Withdrawals
      BY DEF Core, Shape, Working, CheckType
    <3> QED
      BY <2>1, <2>4, <2>6, <2>7, <3>1 DEF StillPending, InHand, Row
  <2>12. Counted => Counted'
    BY <2>1, <2>3, <2>4, <2>5, HandsKept DEF Counted, Done, None
  <2> QED
    BY <2>1, <2>8, <2>9, <2>10, <2>11, <2>12 DEF Steady, Serial
<1> QED
  BY <1>1, <1>2, <1>3, <1>4, <1>5, <1>6, <1>7, <1>8, <1>9 DEF Withdraw

(* What one check does leaves the others as they were. *)
LEMMA OtherChecksSteady ==
  ASSUME Core, Steady, NEW o \in Orders, \A p \in Orders \ {o} : check'[p] = check[p],
         UNCHANGED call, adrift \subseteq adrift',
         \A w \in Withdrawals : pending'[w].amount = pending[w].amount,
         \A w \in check'[o].rows : w \in check[o].rows \/ Of[w] = Of[o],
         InHand(o)' => Of[Row(o)'] = Of[o],
         InHand(o)' /\ By[Row(o)'] \notin adrift'
           => check'[o].sum = pending'[Row(o)'].amount * Rate[By[Row(o)']]
  PROVE  Converts' /\ OwnRows'
<1>1. \A p \in Orders \ {o} : (InHand(p)' <=> InHand(p)) /\ Row(p)' = Row(p)
  BY DEF InHand, Row
<1>2. \A p \in Orders : InHand(p) => Row(p) \in Withdrawals
  BY DEF Core, RowsRead, Row
<1>3. Converts'
  <2>1. ASSUME NEW p \in Orders, InHand(p)', By[Row(p)'] \notin adrift'
        PROVE  check'[p].sum = pending'[Row(p)'].amount * Rate[By[Row(p)']]
    <3>1. CASE p = o
      BY <2>1, <3>1
    <3>2. CASE p # o
      BY <1>1, <1>2, <2>1, <3>2 DEF Steady, Converts
    <3> QED
      BY <3>1, <3>2
  <2>2. \A c \in Calls : By[c] \notin adrift' /\ call'[c].pc \in Rated
                           => call'[c].sum = call'[c].amount * Rate[By[c]]
    BY DEF Steady, Converts
  <2> QED
    BY <2>1, <2>2 DEF Converts
<1>4. OwnRows'
  <2> SUFFICES ASSUME NEW p \in Orders
               PROVE  /\ \A w \in check'[p].rows : Of[w] = Of[p]
                      /\ InHand(p)' => Of[Row(p)'] = Of[p]
    BY DEF OwnRows
  <2>1. CASE p = o
    BY <2>1 DEF Steady, OwnRows
  <2>2. CASE p # o
    BY <1>1, <2>2 DEF Steady, OwnRows
  <2> QED
    BY <2>1, <2>2
<1> QED
  BY <1>3, <1>4

LEMMA OneCheckKept ==
  ASSUME OneCheck, \A p \in Orders : check'[p].pc \in Paying => check[p].pc \in Paying
  PROVE  OneCheck'
  BY DEF OneCheck

LEMMA StillPendingKept ==
  ASSUME Core, OwnRows, OneCheck, StillPending, NEW o \in Orders, check[o].pc \in Paying,
         \A p \in Orders \ {o} : check'[p] = check[p],
         \A w \in Withdrawals : pending'[w].status = pending[w].status \/ Of[w] = Of[o],
         check'[o].pc \in Paying =>
           /\ \A w \in check'[o].rows : pending'[w].status = "PENDING"
           /\ InHand(o)' => /\ pending'[Row(o)'].status = "PENDING"
                            /\ Row(o)' \notin check'[o].rows
  PROVE  StillPending'
<1> SUFFICES ASSUME NEW p \in Orders, check'[p].pc \in Paying
             PROVE  /\ \A w \in check'[p].rows : pending'[w].status = "PENDING"
                    /\ InHand(p)' => /\ pending'[Row(p)'].status = "PENDING"
                                     /\ Row(p)' \notin check'[p].rows
  BY DEF StillPending
<1>1. CASE p = o
  BY <1>1
<1>2. CASE p # o
  <2>1. check'[p] = check[p] /\ (InHand(p)' <=> InHand(p)) /\ Row(p)' = Row(p)
    BY <1>2 DEF InHand, Row
  <2>2. Of[p] # Of[o]
    BY <1>2, <2>1 DEF OneCheck
  <2>3. /\ \A w \in check[p].rows : Of[w] = Of[p] /\ pending[w].status = "PENDING"
        /\ InHand(p) => /\ Of[Row(p)] = Of[p] /\ pending[Row(p)].status = "PENDING"
                        /\ Row(p) \notin check[p].rows
    BY <2>1 DEF OwnRows, StillPending
  <2>4. check[p].rows \subseteq Withdrawals /\ (InHand(p) => Row(p) \in Withdrawals)
    BY DEF Core, Shape, Working, CheckType, RowsRead, Row
  <2> QED
    BY <2>1, <2>2, <2>3, <2>4
<1> QED
  BY <1>1, <1>2

LEMMA CheckSteady ==
  ASSUME Core, Core', Steady, NEW o \in Orders, CheckPendingWithdrawals(o)
  PROVE  Steady'
<1>0. /\ Shape /\ Shape' /\ check \in [Orders -> CheckType] /\ check[o] \in CheckType
      /\ pending \in [Withdrawals -> RowType] /\ payouts \in [Withdrawals -> Nat]
      /\ payouts' \in [Withdrawals -> Nat]
  BY DEF Core, Shape, Working, Rows, Ghosts
<1> USE DEF rowVars, ghosts, Succeeds, Refused, LeftAdrift
<1>1. CASE ReadLiquid(o)
  <2>1. UNCHANGED <<pending, payouts, call, adrift, overlapped>> /\ check[o].pc = "idle"
    BY <1>1 DEF ReadLiquid, CheckAt
  <2>2. /\ check'[o] = [check[o] EXCEPT !.pc = "rows", !.liquid = liquid[Of[o]]]
        /\ \A p \in Orders \ {o} : check'[p] = check[p]
    BY <1>0, <1>1 DEF ReadLiquid
  <2>3. check'[o].pc = "rows" /\ check'[o].rows = check[o].rows
    BY <1>0, <2>2 DEF CheckType
  <2>4. Converts' /\ OwnRows'
    BY <2>1, <2>2, <2>3, OtherChecksSteady DEF InHand
  <2>5. OneCheck => OneCheck'
    BY <2>2, <2>3, OneCheckKept DEF Paying
  <2>6. StillPending => StillPending'
    BY <2>1, <2>2, <2>3, ZenonT(60) DEF StillPending, Paying, InHand, Row
  <2>7. ASSUME NEW w PROVE Hands(w)' = Hands(w)
    <3>1. Hand(o, w) = 0 /\ Hand(o, w)' = 0
      BY <2>1, <2>3 DEF Hand, InHand
    <3> QED
      BY <2>2, <3>1, HandsChange, HandsAreNat
  <2>8. Counted => Counted'
    BY <2>1, <2>7 DEF Counted, Done
  <2> QED
    BY <2>1, <2>4, <2>5, <2>6, <2>8 DEF Steady, Serial
<1>2. CASE FetchRows(o)
  <2>1. UNCHANGED <<pending, payouts, call, adrift>> /\ check[o].pc = "rows"
    BY <1>2 DEF FetchRows, CheckAt
  <2>2. /\ check'[o] = [check[o] EXCEPT !.pc = "pay",
                                        !.rows = {w \in Withdrawals : IsPending(o, w)}]
        /\ \A p \in Orders \ {o} : check'[p] = check[p]
    BY <1>0, <1>2 DEF FetchRows
  <2>3. check'[o].pc = "pay" /\ check'[o].rows = {w \in Withdrawals : IsPending(o, w)}
    BY <1>0, <2>2 DEF CheckType
  <2>4. \A w \in check'[o].rows : pending[w].status = "PENDING" /\ Of[w] = Of[o]
    BY <2>3 DEF IsPending
  <2>5. ~InHand(o)'
    BY <2>3 DEF InHand
  <2>6. Converts' /\ OwnRows'
    BY <2>1, <2>2, <2>4, <2>5, OtherChecksSteady
  <2>7. ~overlapped' => ~overlapped /\ \A p \in Orders \ {o} : Of[p] = Of[o] => check[p].pc \notin Paying
    BY <1>2 DEF FetchRows
  <2>8. ~overlapped' /\ OneCheck => OneCheck'
    BY <2>2, <2>7 DEF OneCheck
  <2>9. StillPending => StillPending'
    <3> SUFFICES ASSUME StillPending, NEW p \in Orders, check'[p].pc \in Paying
                 PROVE  /\ \A w \in check'[p].rows : pending'[w].status = "PENDING"
                        /\ InHand(p)' => /\ pending'[Row(p)'].status = "PENDING"
                                         /\ Row(p)' \notin check'[p].rows
      BY DEF StillPending
    <3>1. CASE p = o
      BY <2>1, <2>4, <2>5, <3>1
    <3>2. CASE p # o
      BY <2>1, <2>2, <3>2 DEF StillPending, InHand, Row
    <3> QED
      BY <3>1, <3>2
  <2>10. ASSUME NEW w PROVE Hands(w)' = Hands(w)
    <3>1. Hand(o, w) = 0 /\ Hand(o, w)' = 0
      BY <2>1, <2>5 DEF Hand, InHand
    <3> QED
      BY <2>2, <3>1, HandsChange, HandsAreNat
  <2>11. Counted => Counted'
    BY <2>1, <2>10 DEF Counted, Done
  <2> QED
    BY <2>6, <2>7, <2>8, <2>9, <2>11 DEF Steady, Serial
<1>3. ASSUME NEW w \in Withdrawals, PayRow(o, w) PROVE Steady'
  <2>1. /\ UNCHANGED <<pending, call, overlapped>> /\ check[o].pc = "pay"
        /\ w \in check[o].rows /\ check[o].pc \in Paying /\ ~InHand(o)
    BY <1>3 DEF PayRow, CheckAt, IsNext, Paying, InHand
  <2>2. CASE Skip(o, w) /\ UNCHANGED <<payouts, adrift>>
    <3>1. /\ check'[o] = [check[o] EXCEPT !.rows = check[o].rows \ {w}]
          /\ \A p \in Orders \ {o} : check'[p] = check[p]
      BY <1>0, <2>2 DEF Skip
    <3>2. check'[o].pc = "pay" /\ check'[o].rows = check[o].rows \ {w} /\ ~InHand(o)'
      BY <1>0, <2>1, <3>1 DEF CheckType, InHand
    <3>3. Converts' /\ OwnRows'
      BY <2>1, <2>2, <3>1, <3>2, OtherChecksSteady
    <3>4. OneCheck => OneCheck'
      BY <2>1, <3>1, OneCheckKept
    <3>5. OneCheck /\ StillPending => StillPending'
      <4> SUFFICES ASSUME OneCheck, StillPending PROVE StillPending'
        OBVIOUS
      <4>1. \A v \in check'[o].rows : pending'[v].status = "PENDING"
        BY <2>1, <3>2 DEF StillPending
      <4> QED
        BY <2>1, <3>1, <3>2, <4>1, StillPendingKept DEF Steady
    <3>6. ASSUME NEW v PROVE Hands(v)' = Hands(v)
      <4>1. Hand(o, v) = 0 /\ Hand(o, v)' = 0
        BY <2>1, <3>2 DEF Hand
      <4> QED
        BY <3>1, <4>1, HandsChange, HandsAreNat
    <3>7. Counted => Counted'
      BY <2>1, <2>2, <3>6 DEF Counted, Done
    <3> QED
      BY <2>1, <3>3, <3>4, <3>5, <3>7 DEF Steady, Serial
  <2>3. ASSUME NEW sum, Converted(By[w], pending[w].amount, sum),
               payouts' = [payouts EXCEPT ![w] = @ + 1],
               check' = [check EXCEPT ![o] = [@ EXCEPT
                  !.pc = "commit", !.rows = check[o].rows \ {w}, !.row = w, !.sum = sum]]
        PROVE  Steady'
    <3>1. /\ check'[o] = [check[o] EXCEPT
                !.pc = "commit", !.rows = check[o].rows \ {w}, !.row = w, !.sum = sum]
          /\ \A p \in Orders \ {o} : check'[p] = check[p]
      BY <1>0, <2>3
    <3>2. /\ check'[o].pc = "commit" /\ check'[o].rows = check[o].rows \ {w} /\ check'[o].row = w
          /\ check'[o].sum = sum
      BY <1>0, <3>1 DEF CheckType
    <3>3. Of[w] = Of[o]
      BY <2>1 DEF Steady, OwnRows
    <3>4. /\ payouts'[w] = payouts[w] + 1
          /\ \A v \in Withdrawals \ {w} : payouts'[v] = payouts[v]
      BY <1>0, <2>3
    <3>5. adrift \subseteq adrift' /\ (By[w] \notin adrift' => sum = pending[w].amount * Rate[By[w]])
      BY <2>3 DEF Converted
    <3>6. Row(o)' = w
      BY <3>2 DEF Row
    <3>7. Converts' /\ OwnRows'
      <4>1. \A v \in check'[o].rows : v \in check[o].rows
        BY <3>2
      <4> QED
        BY <2>1, <3>1, <3>2, <3>3, <3>5, <3>6, <4>1, OtherChecksSteady
    <3>8. OneCheck => OneCheck'
      BY <2>1, <3>1, OneCheckKept
    <3>9. OneCheck /\ StillPending => StillPending'
      <4> SUFFICES ASSUME OneCheck, StillPending PROVE StillPending'
        OBVIOUS
      <4>1. /\ \A v \in check'[o].rows : pending'[v].status = "PENDING"
            /\ pending'[w].status = "PENDING" /\ w \notin check'[o].rows
        BY <2>1, <3>2 DEF StillPending
      <4> QED
        BY <2>1, <3>1, <3>6, <4>1, StillPendingKept DEF Steady
    <3>10. ASSUME NEW v \in Withdrawals PROVE Hands(v)' = Hands(v) + (IF v = w THEN 1 ELSE 0)
      <4>1. Hand(o, v) = 0 /\ Hand(o, v)' = IF v = w THEN 1 ELSE 0
        BY <2>1, <3>2, <3>6 DEF Hand, InHand
      <4> QED
        BY <3>1, <4>1, HandsChange, HandsAreNat
    <3>11. Counted => Counted'
      <4> SUFFICES ASSUME Counted, NEW v \in Withdrawals, By[v] \notin adrift'
                   PROVE  payouts'[v] = Hands(v)' + Done(v)'
        BY DEF Counted
      <4>1. payouts[v] = Hands(v) + Done(v) /\ Done(v)' = Done(v)
        BY <2>1, <3>5 DEF Counted, Done
      <4> QED
        BY <1>0, <3>4, <3>10, <4>1, NumbersOfRows
    <3> QED
      BY <2>1, <3>7, <3>8, <3>9, <3>11 DEF Steady, Serial
  <2> QED
    BY <1>3, <2>2, <2>3 DEF PayRow
<1>4. CASE CommitRow(o)
  <2> DEFINE w == Row(o)
  <2>0. /\ InHand(o) /\ w \in Withdrawals /\ pending[w].status # None /\ check[o].pc \in Paying
        /\ Of[w] = Of[o] /\ check[o].row = w
    BY <1>4 DEF CommitRow, CheckAt, InHand, Core, RowsRead, Row, Paying, Steady, OwnRows
  <2>1. UNCHANGED <<payouts, call, overlapped>>
    BY <1>4 DEF CommitRow
  <2>2. StillPending => pending[w].status = "PENDING" /\ w \notin check[o].rows
    BY <2>0 DEF StillPending
  <2>3. By[w] \notin adrift => check[o].sum = pending[w].amount * Rate[By[w]]
    BY <2>0 DEF Steady, Converts
  <2>4. \/ /\ pending' = [pending EXCEPT ![w] = [@ EXCEPT !.status = "COMPLETED"]]
           /\ check' = [check EXCEPT ![o] = [@ EXCEPT !.pc = "pay", !.row = None, !.sum = 0,
                          !.liquid = check[o].liquid - pending[w].amount]]
           /\ UNCHANGED adrift
        \/ /\ UNCHANGED <<pending, adrift>>
           /\ check' = [check EXCEPT ![o] = [@ EXCEPT !.pc = "undo"]]
        \/ /\ UNCHANGED pending
           /\ check' = [check EXCEPT ![o] = [@ EXCEPT !.pc = "undo", !.sum = pending[w].amount]]
           /\ adrift' = IF check[o].sum = pending[w].amount THEN adrift
                        ELSE adrift \cup {By[w]}
    BY <1>4 DEF CommitRow
  <2> HIDE DEF w
  <2>5. CASE /\ pending' = [pending EXCEPT ![w] = [@ EXCEPT !.status = "COMPLETED"]]
             /\ check' = [check EXCEPT ![o] = [@ EXCEPT !.pc = "pay", !.row = None, !.sum = 0,
                            !.liquid = check[o].liquid - pending[w].amount]]
             /\ UNCHANGED adrift
    <3>1. /\ pending'[w].status = "COMPLETED" /\ pending'[w].amount = pending[w].amount
          /\ \A v \in Withdrawals \ {w} : pending'[v] = pending[v]
      BY <1>0, <2>0, <2>5 DEF RowType
    <3>2. /\ check'[o] = [check[o] EXCEPT !.pc = "pay", !.row = None, !.sum = 0,
                            !.liquid = check[o].liquid - pending[w].amount]
          /\ \A p \in Orders \ {o} : check'[p] = check[p]
      BY <1>0, <2>5
    <3>3. check'[o].rows = check[o].rows /\ check'[o].pc = "pay" /\ ~InHand(o)'
      BY <1>0, <3>2 DEF CheckType, InHand
    <3>4. Converts' /\ OwnRows'
      BY <2>1, <2>5, <3>1, <3>2, <3>3, OtherChecksSteady
    <3>5. OneCheck => OneCheck'
      BY <2>0, <3>2, OneCheckKept
    <3>6. OneCheck /\ StillPending => StillPending'
      <4> SUFFICES ASSUME OneCheck, StillPending PROVE StillPending'
        OBVIOUS
      <4>1. \A v \in check'[o].rows : pending'[v].status = "PENDING"
        <5> SUFFICES ASSUME NEW v \in check[o].rows PROVE pending'[v].status = "PENDING"
          BY <3>3
        <5>1. v \in Withdrawals /\ v # w /\ pending[v].status = "PENDING"
          BY <1>0, <2>0, <2>2 DEF CheckType, StillPending
        <5> QED
          BY <3>1, <5>1
      <4>2. \A v \in Withdrawals : pending'[v].status = pending[v].status \/ Of[v] = Of[o]
        BY <2>0, <3>1
      <4> QED
        BY <2>0, <3>2, <3>3, <4>1, <4>2, StillPendingKept DEF Steady
    <3>7. ASSUME NEW v \in Withdrawals PROVE Hands(v)' = Hands(v) - (IF v = w THEN 1 ELSE 0)
      <4>1. Hand(o, v)' = 0 /\ Hand(o, v) = IF v = w THEN 1 ELSE 0
        BY <2>0, <3>3 DEF Hand, w
      <4> QED
        BY <3>2, <4>1, HandsChange, HandsAreNat
    <3>8. StillPending /\ Counted => Counted'
      <4> SUFFICES ASSUME StillPending, Counted, NEW v \in Withdrawals, By[v] \notin adrift'
                   PROVE  payouts'[v] = Hands(v)' + Done(v)'
        BY DEF Counted
      <4>1. payouts[v] = Hands(v) + Done(v)
        BY <2>5 DEF Counted
      <4>2. Done(v)' = Done(v) + (IF v = w THEN 1 ELSE 0)
        BY <2>2, <3>1 DEF Done
      <4> QED
        BY <1>0, <2>1, <3>7, <4>1, <4>2, NumbersOfRows
    <3> QED
      BY <2>1, <3>4, <3>5, <3>6, <3>8 DEF Steady, Serial
  <2>6. ASSUME UNCHANGED pending, adrift \subseteq adrift', NEW sum,
               check'[o] = [check[o] EXCEPT !.pc = "undo", !.sum = sum],
               \A p \in Orders \ {o} : check'[p] = check[p],
               By[w] \notin adrift' => sum = check[o].sum
        PROVE  Steady'
    <3>1. check'[o].rows = check[o].rows /\ check'[o].pc = "undo" /\ check'[o].row = w
          /\ check'[o].sum = sum /\ InHand(o)' /\ Row(o)' = w
      BY <1>0, <2>0, <2>6 DEF CheckType, InHand, Row
    <3>2. Converts' /\ OwnRows'
      <4>1. By[w] \notin adrift' => check'[o].sum = pending'[w].amount * Rate[By[w]]
        BY <2>3, <2>6, <3>1
      <4> QED
        BY <2>0, <2>1, <2>6, <3>1, <4>1, OtherChecksSteady
    <3>3. OneCheck => OneCheck'
      BY <2>0, <2>6, OneCheckKept
    <3>4. OneCheck /\ StillPending => StillPending'
      <4> SUFFICES ASSUME OneCheck, StillPending PROVE StillPending'
        OBVIOUS
      <4>1. /\ \A v \in check'[o].rows : pending'[v].status = "PENDING"
            /\ pending'[w].status = "PENDING" /\ w \notin check'[o].rows
        BY <2>0, <2>2, <2>6, <3>1 DEF StillPending
      <4> QED
        BY <2>0, <2>6, <3>1, <4>1, StillPendingKept DEF Steady
    <3>5. ASSUME NEW v \in Withdrawals PROVE Hands(v)' = Hands(v)
      <4>1. Hand(o, v)' = Hand(o, v)
        BY <2>0, <3>1 DEF Hand, w
      <4>2. Hand(o, v) \in Int
        BY DEF Hand
      <4> QED
        BY <2>6, <4>1, <4>2, HandsChange, HandsAreNat
    <3>6. Counted => Counted'
      BY <2>1, <2>6, <3>5 DEF Counted, Done
    <3> QED
      BY <2>1, <3>2, <3>3, <3>4, <3>6 DEF Steady, Serial
  <2>7. CASE /\ UNCHANGED <<pending, adrift>>
             /\ check' = [check EXCEPT ![o] = [@ EXCEPT !.pc = "undo"]]
    <3>1. check'[o] = [check[o] EXCEPT !.pc = "undo", !.sum = check[o].sum]
      BY <1>0, <2>7 DEF CheckType
    <3>2. \A p \in Orders \ {o} : check'[p] = check[p]
      BY <1>0, <2>7
    <3> QED
      BY <2>6, <2>7, <3>1, <3>2
  <2>8. CASE /\ UNCHANGED pending
             /\ check' = [check EXCEPT ![o] = [@ EXCEPT !.pc = "undo", !.sum = pending[w].amount]]
             /\ adrift' = IF check[o].sum = pending[w].amount THEN adrift
                          ELSE adrift \cup {By[w]}
    <3>1. check'[o] = [check[o] EXCEPT !.pc = "undo", !.sum = pending[w].amount]
      BY <1>0, <2>8
    <3>2. \A p \in Orders \ {o} : check'[p] = check[p]
      BY <1>0, <2>8
    <3>3. By[w] \notin adrift' => pending[w].amount = check[o].sum
      BY <2>8
    <3> QED
      BY <2>6, <2>8, <3>1, <3>2, <3>3
  <2> QED
    BY <2>4, <2>5, <2>7, <2>8
<1>5. CASE UndoRow(o)
  <2> DEFINE w == Row(o)
  <2>0. InHand(o) /\ w \in Withdrawals /\ pending[w].status # None /\ check[o].pc \in Paying
    BY <1>5 DEF UndoRow, CheckAt, InHand, Core, RowsRead, Row, Paying
  <2>1. UNCHANGED <<pending, call, overlapped>>
    BY <1>5 DEF UndoRow
  <2>2. \/ payouts' = [payouts EXCEPT ![w] = @ - 1] /\ UNCHANGED adrift
        \/ UNCHANGED payouts /\ By[w] \in adrift' /\ adrift \subseteq adrift'
    BY <1>5 DEF UndoRow
  <2>3. /\ check'[o] = [check[o] EXCEPT !.pc = "pay", !.row = None, !.sum = 0]
        /\ \A p \in Orders \ {o} : check'[p] = check[p]
    BY <1>0, <1>5 DEF UndoRow, NextRow
  <2>4. check'[o].rows = check[o].rows /\ check'[o].pc = "pay" /\ ~InHand(o)'
    BY <1>0, <2>3 DEF CheckType, InHand
  <2> HIDE DEF w
  <2>5. Converts' /\ OwnRows'
    BY <2>1, <2>2, <2>3, <2>4, OtherChecksSteady
  <2>6. OneCheck => OneCheck'
    BY <2>0, <2>3, OneCheckKept
  <2>7. OneCheck /\ StillPending => StillPending'
    <3> SUFFICES ASSUME OneCheck, StillPending PROVE StillPending'
      OBVIOUS
    <3>1. \A v \in check'[o].rows : pending'[v].status = "PENDING"
      BY <2>0, <2>1, <2>4 DEF StillPending
    <3> QED
      BY <2>0, <2>1, <2>3, <2>4, <3>1, StillPendingKept DEF Steady
  <2>8. ASSUME NEW v \in Withdrawals PROVE Hands(v)' = Hands(v) - (IF v = w THEN 1 ELSE 0)
    <3>1. Hand(o, v)' = 0 /\ Hand(o, v) = IF v = w THEN 1 ELSE 0
      BY <2>0, <2>4 DEF Hand, w
    <3> QED
      BY <2>3, <3>1, HandsChange, HandsAreNat
  <2>9. Counted => Counted'
    <3> SUFFICES ASSUME Counted, NEW v \in Withdrawals, By[v] \notin adrift'
                 PROVE  payouts'[v] = Hands(v)' + Done(v)'
      BY DEF Counted
    <3>1. payouts[v] = Hands(v) + Done(v) /\ Done(v)' = Done(v)
      BY <2>1, <2>2 DEF Counted, Done
    <3>2. payouts'[v] = payouts[v] - (IF v = w THEN 1 ELSE 0)
      BY <1>0, <2>0, <2>2
    <3> QED
      BY <1>0, <2>8, <3>1, <3>2, NumbersOfRows
  <2> QED
    BY <2>1, <2>5, <2>6, <2>7, <2>9 DEF Steady, Serial
<1>6. CASE EndCheck(o)
  <2>1. UNCHANGED <<pending, payouts, call, adrift, overlapped>> /\ check[o].pc = "pay"
    BY <1>6 DEF EndCheck, CheckAt
  <2>2. /\ check'[o] = [check[o] EXCEPT !.pc = "end"]
        /\ \A p \in Orders \ {o} : check'[p] = check[p]
    BY <1>0, <1>6 DEF EndCheck
  <2>3. check'[o].rows = check[o].rows /\ check'[o].pc = "end" /\ ~InHand(o)'
    BY <1>0, <2>2 DEF CheckType, InHand
  <2>4. Converts' /\ OwnRows'
    BY <2>1, <2>2, <2>3, OtherChecksSteady
  <2>5. OneCheck => OneCheck'
    BY <2>1, <2>2, OneCheckKept DEF Paying
  <2>6. OneCheck /\ StillPending => StillPending'
    BY <2>1, <2>2, <2>3, StillPendingKept DEF Steady, Paying
  <2>7. ASSUME NEW v PROVE Hands(v)' = Hands(v)
    <3>1. Hand(o, v)' = 0 /\ Hand(o, v) = 0
      BY <2>1, <2>3 DEF Hand, InHand
    <3> QED
      BY <2>2, <3>1, HandsChange, HandsAreNat
  <2>8. Counted => Counted'
    BY <2>1, <2>7 DEF Counted, Done
  <2> QED
    BY <2>1, <2>4, <2>5, <2>6, <2>8 DEF Steady, Serial
<1> QED
  BY <1>1, <1>2, <1>3, <1>4, <1>5, <1>6 DEF CheckPendingWithdrawals

LEMMA CrashSteady == ASSUME Core, Core', Steady, Crash PROVE Steady'
<1>0. /\ call \in [Calls -> CallType] /\ check \in [Orders -> CheckType]
  BY DEF Core, Shape, Working
<1>1. UNCHANGED <<pending, payouts, overlapped>> /\ adrift \subseteq adrift'
  BY DEF Crash, rowVars, ghosts
<1>2. \A c \in Calls : call'[c].pc \notin Rated
  <2> SUFFICES ASSUME NEW c \in Calls PROVE call'[c].pc \notin Rated
    OBVIOUS
  <2>1. call'[c].pc = IF call[c].pc = "idle" THEN "idle" ELSE "end"
    BY <1>0 DEF Crash, At, CallType
  <2> QED
    BY <2>1 DEF Rated
<1>3. \A o \in Orders : check'[o].pc \in {"idle", "end"} /\ check'[o].rows = check[o].rows
  <2> SUFFICES ASSUME NEW o \in Orders
               PROVE  check'[o].pc \in {"idle", "end"} /\ check'[o].rows = check[o].rows
    OBVIOUS
  <2>1. check'[o] = IF check[o].pc = "idle" THEN check[o] ELSE [check[o] EXCEPT !.pc = "end"]
    BY <1>0 DEF Crash
  <2> QED
    BY <1>0, <2>1 DEF CheckType
<1>4. \A o \in Orders : check'[o].pc \notin Paying /\ ~InHand(o)'
  BY <1>3 DEF Paying, InHand
<1>5. Converts' /\ OwnRows' /\ OneCheck' /\ StillPending'
  BY <1>1, <1>2, <1>3, <1>4 DEF Steady, Converts, OwnRows, OneCheck, StillPending
<1>6. Counted => Counted'
  <2> SUFFICES ASSUME Counted, NEW w \in Withdrawals, By[w] \notin adrift'
               PROVE  payouts'[w] = Hands(w)' + Done(w)'
    BY DEF Counted
  <2>1. payouts[w] = Hands(w) + Done(w) /\ Done(w)' = Done(w)
    BY <1>1 DEF Counted, Done
  <2>2. ASSUME NEW o \in Orders PROVE Hand(o, w) = 0 /\ Hand(o, w)' = 0
    <3>1. By[w] \in Holders
      BY Names
    <3>2. ~(InHand(o) /\ Row(o) = w)
      BY <3>1 DEF Crash
    <3> QED
      BY <1>4, <3>2 DEF Hand
  <2> QED
    BY <1>1, <2>1, <2>2 DEF Hands
<1> QED
  BY <1>1, <1>5, <1>6 DEF Steady, Serial

LEMMA OtherSteady ==
  ASSUME Core, Steady,
         \/ \E c \in Calls : Disconnect(c)
         \/ \E f \in Funds : CountPositions(f) \/ DeactivateFund(f)
         \/ UNCHANGED vars
         \/ \E o \in Orders : Execute(o)
         \/ \E o \in Trades, direction \in {"BUY", "SELL"}, quantity \in Quantities :
              PlaceTrade(o, direction, quantity)
  PROVE  Steady'
<1> USE DEF rowVars, ghosts
<1>1. ASSUME NEW c \in Calls, Disconnect(c) PROVE Steady'
  <2>1. /\ \A d \in Calls \ {c} : call'[d] = call[d]
        /\ call'[c] = [call[c] EXCEPT !.here = FALSE] /\ call[c] \in CallType
        /\ UNCHANGED <<pending, payouts, check, overlapped, adrift>>
    BY <1>1 DEF Disconnect, Core, Shape, Working
  <2>2. call'[c].pc = call[c].pc /\ call'[c].sum = call[c].sum /\ call'[c].amount = call[c].amount
    BY <2>1 DEF CallType
  <2>3. By[c] \notin adrift /\ call[c].pc \in Rated => call[c].sum = call[c].amount * Rate[By[c]]
    BY DEF Steady, Converts
  <2> QED
    BY <2>1, <2>2, <2>3, CallSteady
<1>2. ASSUME NEW o \in Orders, Execute(o) PROVE Steady'
  <2>1. adrift \subseteq adrift' /\ UNCHANGED <<call, pending, payouts, check, overlapped>>
    BY <1>2 DEF Execute, SettleFill, UpdateFundHolding, LeftAdrift
  <2> QED
    BY <2>1, IdleSteady
<1>3. ASSUME adrift' = adrift, UNCHANGED <<call, pending, payouts, check, overlapped>>
      PROVE  Steady'
  BY <1>3, IdleSteady
<1>4. ASSUME NEW f \in Funds, CountPositions(f) \/ DeactivateFund(f) PROVE Steady'
  BY <1>3, <1>4 DEF CountPositions, DeactivateFund
<1>5. ASSUME NEW o \in Trades, NEW direction, NEW quantity, PlaceTrade(o, direction, quantity)
      PROVE  Steady'
  BY <1>3, <1>5 DEF PlaceTrade
<1>6. CASE UNCHANGED vars
  BY <1>3, <1>6 DEF vars
<1> QED
  BY <1>1, <1>2, <1>4, <1>5, <1>6

LEMMA SteadyStep == ASSUME Core, Steady, [Next]_vars PROVE Steady'
<1>1. Core'
  BY CoreStep
<1> QED
  BY <1>1, InvestSteady, WithdrawSteady, CheckSteady, CrashSteady, OtherSteady DEF Next

LEMMA InitSteady == Init => Steady
<1> SUFFICES ASSUME Init PROVE Steady
  OBVIOUS
<1>1. \A o \in Orders : check[o] = NoCheck
  BY DEF Init
<1>2. \A o \in Orders : ~InHand(o) /\ check[o].pc \notin Paying /\ check[o].rows = {}
  BY <1>1 DEF NoCheck, InHand, Paying
<1>3. \A c \in Calls : call[c].pc \notin Rated
  BY DEF Init, IdleCall, Rated
<1>4. Converts /\ OwnRows /\ OneCheck /\ StillPending
  BY <1>2, <1>3 DEF Converts, OwnRows, OneCheck, StillPending
<1>5. Counted
  <2> SUFFICES ASSUME NEW w \in Withdrawals PROVE payouts[w] = Hands(w) + Done(w)
    BY DEF Counted
  <2>1. Done(w) = 0 /\ payouts[w] = 0
    BY DEF Init, Done, None
  <2> DEFINE f == [o \in Orders |-> Hand(o, w)]
  <2>2. \A o \in Orders : f[o] = 0
    BY <1>2 DEF Hand
  <2>3. Hands(w) = SumFunctionOnSet(f, Orders)
    BY DEF Hands
  <2> HIDE DEF f
  <2> QED
    BY <2>1, <2>2, <2>3, SumZero, FiniteOrders
<1> QED
  BY <1>4, <1>5 DEF Steady, Serial
-----------------------------------------------------------------------------
(* At most one check has a row in hand, and it is still pending then.      *)
LEMMA OneHand ==
  ASSUME Core, OwnRows, OneCheck, StillPending, NEW w \in Withdrawals
  PROVE  Hands(w) + Done(w) <= 1
<1> DEFINE f == [o \in Orders |-> Hand(o, w)]
           z == [o \in Orders |-> 0]
<1>1. Hands(w) = SumFunctionOnSet(f, Orders)
  BY DEF Hands
<1>2. \A o \in Orders : f[o] = Hand(o, w)
  OBVIOUS
<1>3. \A o \in Orders : z[o] = 0
  OBVIOUS
<1> HIDE DEF f, z
<1>4. SumFunctionOnSet(z, Orders) = 0
  BY <1>3, SumZero, FiniteOrders
<1>5. CASE \E o \in Orders : InHand(o) /\ Row(o) = w
  <2>1. PICK o \in Orders : InHand(o) /\ Row(o) = w
    BY <1>5
  <2>2. f[o] = 1
    BY <1>2, <2>1 DEF Hand
  <2>3. check[o].pc \in Paying /\ Of[w] = Of[o]
    BY <2>1 DEF InHand, Paying, OwnRows
  <2>4. Done(w) = 0
    BY <2>1, <2>3 DEF StillPending, Done
  <2>5. \A p \in Orders \ {o} : f[p] = 0
    <3> SUFFICES ASSUME NEW p \in Orders \ {o}, f[p] # 0 PROVE FALSE
      OBVIOUS
    <3>1. InHand(p) /\ Row(p) = w
      BY <1>2 DEF Hand
    <3> QED
      BY <2>3, <3>1 DEF InHand, Paying, OwnRows, OneCheck
  <2>6. SumFunctionOnSet(f, Orders) = SumFunctionOnSet(z, Orders) - z[o] + f[o]
    <3>1. /\ \A p \in Orders : f[p] \in Int /\ z[p] \in Int
          /\ \A p \in Orders \ {o} : f[p] = z[p]
      BY <1>3, <2>2, <2>5
    <3> QED
      BY <3>1, SumChange, FiniteOrders
  <2> QED
    BY <1>1, <1>3, <1>4, <2>2, <2>4, <2>6
<1>6. CASE ~\E o \in Orders : InHand(o) /\ Row(o) = w
  <2>1. \A o \in Orders : f[o] = 0
    BY <1>2, <1>6 DEF Hand
  <2>2. SumFunctionOnSet(f, Orders) = 0
    BY <2>1, SumZero, FiniteOrders
  <2>3. Done(w) = 0 \/ Done(w) = 1
    BY DEF Done
  <2> QED
    BY <1>1, <2>2, <2>3
<1> QED
  BY <1>5, <1>6

(* A withdrawal that waited for a sale is COMPLETED only once its client   *)
(* was paid, and while no two checks of its fund overlap and his account   *)
(* is not left with an error, he is paid for it once at most, whatever     *)
(* fails, in whatever order the rows are paid, and after any crash.        *)
THEOREM PaidOnce == Spec => []PendingPaidOnce
<1>1. Core /\ Steady => PendingPaidOnce
  <2> SUFFICES ASSUME Core, Steady, NEW w \in Withdrawals
               PROVE  /\ pending[w].status = "COMPLETED" => payouts[w] >= 1
                      /\ ~overlapped /\ By[w] \notin adrift => payouts[w] <= 1
    BY DEF PendingPaidOnce
  <2>1. payouts[w] \in Nat /\ Hands(w) \in Nat /\ Done(w) \in Nat
    BY NumbersOfRows DEF Core
  <2>2. payouts[w] >= Hands(w) + Done(w)
    BY DEF Core, Backed
  <2>3. pending[w].status = "COMPLETED" => Done(w) = 1
    BY DEF Done
  <2>4. pending[w].status = "COMPLETED" => payouts[w] >= 1
    BY <2>1, <2>2, <2>3
  <2>5. ASSUME ~overlapped, By[w] \notin adrift PROVE payouts[w] <= 1
    <3>1. payouts[w] = Hands(w) + Done(w) /\ Hands(w) + Done(w) <= 1
      BY <2>5, OneHand DEF Steady, Serial, Counted
    <3> QED
      BY <3>1
  <2> QED
    BY <2>4, <2>5
<1> QED
  BY InitCore, CoreStep, InitSteady, SteadyStep, <1>1, PTL DEF Spec
-----------------------------------------------------------------------------
(* The books of an investor.                                               *)

Held(i) == SumFunctionOnSet([f \in Funds |-> position[f][i]], Funds)
HeldFirst(i) == SumFunctionOnSet([f \in Funds |-> InitPosition[f][i]], Funds)
AllInvesting(i) == SumFunctionOnSet([c \in Investments |-> Investing(c, i)], Investments)
AllWithdrawing(i) == SumFunctionOnSet([c \in Withdrawals |-> Withdrawing(c, i)], Withdrawals)
AllPaying(i) == SumFunctionOnSet([o \in Orders |-> PayingOut(o, i)], Orders)
Whole(i) ==
  cash[i] + Rate[i] * Held(i) + (AllInvesting(i) - AllWithdrawing(i) - AllPaying(i))
    = InitCash[i] + Rate[i] * HeldFirst(i)

LEMMA WholeIs == InvestorsWhole <=> \A i \in Investors \ adrift : Whole(i)
  BY DEF InvestorsWhole, Whole, OnTheWay, SumOver, Held, HeldFirst, AllInvesting, AllWithdrawing,
         AllPaying

LEMMA WholeTerms ==
  ASSUME Shape, NEW i \in Investors
  PROVE  /\ \A f \in Funds : position[f][i] \in Int
         /\ \A c \in Calls : Investing(c, i) \in Int /\ Withdrawing(c, i) \in Int
         /\ \A o \in Orders : PayingOut(o, i) \in Int
  BY DEF Shape, Tables, Working, CallType, CheckType, Investing, Withdrawing, PayingOut

LEMMA WholeNumbers ==
  ASSUME Shape, NEW i \in Investors
  PROVE  /\ cash[i] \in Int /\ Rate[i] \in Nat /\ Held(i) \in Int /\ AllInvesting(i) \in Int
         /\ AllWithdrawing(i) \in Int /\ AllPaying(i) \in Int
<1> DEFINE h == [f \in Funds |-> position[f][i]]
           n == [c \in Investments |-> Investing(c, i)]
           w == [c \in Withdrawals |-> Withdrawing(c, i)]
           p == [o \in Orders |-> PayingOut(o, i)]
<1>1. /\ \A f \in Funds : h[f] \in Int
      /\ \A c \in Investments : n[c] \in Int
      /\ \A c \in Withdrawals : w[c] \in Int
      /\ \A o \in Orders : p[o] \in Int
  BY WholeTerms, Names
<1>2. /\ Held(i) = SumFunctionOnSet(h, Funds)
      /\ AllInvesting(i) = SumFunctionOnSet(n, Investments)
      /\ AllWithdrawing(i) = SumFunctionOnSet(w, Withdrawals)
      /\ AllPaying(i) = SumFunctionOnSet(p, Orders)
  BY DEF Held, AllInvesting, AllWithdrawing, AllPaying
<1> HIDE DEF h, n, w, p
<1>3. /\ SumFunctionOnSet(h, Funds) \in Int /\ SumFunctionOnSet(n, Investments) \in Int
      /\ SumFunctionOnSet(w, Withdrawals) \in Int /\ SumFunctionOnSet(p, Orders) \in Int
  BY <1>1, SumInt, FiniteAssumption, FiniteOrders
<1> QED
  BY <1>2, <1>3, Names DEF Shape, Accounts

(* What moves between an account and the positions keeps the two together. *)
LEMMA WholeMoves ==
  ASSUME Shape, NEW i \in Investors, Whole(i),
         NEW a \in Int, NEW b \in Int, NEW x \in Int, NEW y \in Int, NEW z \in Int,
         cash'[i] = cash[i] + a, Held(i)' = Held(i) + b,
         AllInvesting(i)' = AllInvesting(i) + x, AllWithdrawing(i)' = AllWithdrawing(i) + y,
         AllPaying(i)' = AllPaying(i) + z,
         a + Rate[i] * b + x - y - z = 0
  PROVE  Whole(i)'
<1> DEFINE r == Rate[i]
<1>1. /\ cash[i] \in Int /\ r \in Nat /\ Held(i) \in Int /\ AllInvesting(i) \in Int
      /\ AllWithdrawing(i) \in Int /\ AllPaying(i) \in Int
  BY WholeNumbers
<1>2. \A u, v \in Int : r * (u + v) = r * u + r * v /\ r * u \in Int
  BY <1>1
<1>3. r * (Held(i) + b) = r * Held(i) + r * b /\ r * b \in Int /\ r * Held(i) \in Int
  BY <1>1, <1>2
<1>4. cash[i] + r * Held(i) + (AllInvesting(i) - AllWithdrawing(i) - AllPaying(i))
        = InitCash[i] + r * HeldFirst(i)
  BY DEF Whole
<1>5. Whole(i)' <=>
        (cash[i] + a) + r * (Held(i) + b)
          + ((AllInvesting(i) + x) - (AllWithdrawing(i) + y) - (AllPaying(i) + z))
          = InitCash[i] + r * HeldFirst(i)
  BY DEF Whole, HeldFirst
<1> HIDE DEF r
<1>6. a + r * b + x - y - z = 0
  BY DEF r
<1> DEFINE k == InitCash[i] + r * HeldFirst(i)
           rh == r * Held(i)
           rb == r * b
<1>7. /\ rh \in Int /\ rb \in Int /\ a + rb + x - y - z = 0
      /\ cash[i] + rh + (AllInvesting(i) - AllWithdrawing(i) - AllPaying(i)) = k
      /\ r * (Held(i) + b) = rh + rb
  BY <1>3, <1>4, <1>6
<1> HIDE DEF k, rh, rb
<1>8. (cash[i] + a) + (rh + rb)
          + ((AllInvesting(i) + x) - (AllWithdrawing(i) + y) - (AllPaying(i) + z)) = k
  <2>1. PICK c \in Int : c = cash[i]
    BY <1>1
  <2>2. PICK n \in Int, w \in Int, p \in Int :
          n = AllInvesting(i) /\ w = AllWithdrawing(i) /\ p = AllPaying(i)
    BY <1>1
  <2>3. c + rh + (n - w - p) = k
    BY <1>7, <2>1, <2>2
  <2>4. (c + a) + (rh + rb) + ((n + x) - (w + y) - (p + z)) = k
    BY <1>7, <2>3
  <2> QED
    BY <2>1, <2>2, <2>4
<1> QED
  BY <1>5, <1>7, <1>8 DEF k

LEMMA InvestingChanges ==
  ASSUME Shape, Shape', NEW i \in Investors, NEW c \in Investments,
         \A d \in Calls \ {c} : call'[d] = call[d]
  PROVE  /\ AllInvesting(i)' = AllInvesting(i) + (Investing(c, i)' - Investing(c, i))
         /\ AllWithdrawing(i)' = AllWithdrawing(i)
<1> DEFINE n == [d \in Investments |-> Investing(d, i)]
           m == [d \in Investments |-> Investing(d, i)']
<1>1. /\ \A d \in Investments : n[d] \in Int /\ m[d] \in Int
      /\ n[c] = Investing(c, i) /\ m[c] = Investing(c, i)'
  <2>1. \A d \in Calls : Investing(d, i) \in Int
    BY WholeTerms
  <2>2. \A d \in Calls : Investing(d, i)' \in Int
    BY DEF Shape, Working, CallType, Investing
  <2> QED
    BY <2>1, <2>2, Names
<1>2. \A d \in Investments \ {c} : m[d] = n[d]
  BY Names DEF Investing
<1>3. AllInvesting(i) = SumFunctionOnSet(n, Investments)
  BY DEF AllInvesting
<1>4. AllInvesting(i)' = SumFunctionOnSet(m, Investments)
  BY DEF AllInvesting
<1>5. \A d \in Withdrawals : Withdrawing(d, i)' = Withdrawing(d, i)
  BY Names DEF Withdrawing
<1>6. AllWithdrawing(i)' = AllWithdrawing(i)
  BY <1>5 DEF AllWithdrawing
<1> HIDE DEF n, m
<1>7. SumFunctionOnSet(m, Investments) = SumFunctionOnSet(n, Investments) - n[c] + m[c]
  BY <1>1, <1>2, SumChange, FiniteAssumption
<1>8. SumFunctionOnSet(n, Investments) \in Int
  BY <1>1, SumInt, FiniteAssumption
<1>9. n[c] \in Int /\ m[c] \in Int
  BY <1>1
<1> QED
  BY <1>1, <1>3, <1>4, <1>6, <1>7, <1>8, <1>9

LEMMA WithdrawingChanges ==
  ASSUME Shape, Shape', NEW i \in Investors, NEW c \in Withdrawals,
         \A d \in Calls \ {c} : call'[d] = call[d]
  PROVE  /\ AllWithdrawing(i)' = AllWithdrawing(i) + (Withdrawing(c, i)' - Withdrawing(c, i))
         /\ AllInvesting(i)' = AllInvesting(i)
<1> DEFINE n == [d \in Withdrawals |-> Withdrawing(d, i)]
           m == [d \in Withdrawals |-> Withdrawing(d, i)']
<1>1. /\ \A d \in Withdrawals : n[d] \in Int /\ m[d] \in Int
      /\ n[c] = Withdrawing(c, i) /\ m[c] = Withdrawing(c, i)'
  <2>1. \A d \in Calls : Withdrawing(d, i) \in Int
    BY WholeTerms
  <2>2. \A d \in Calls : Withdrawing(d, i)' \in Int
    BY DEF Shape, Working, CallType, Withdrawing
  <2> QED
    BY <2>1, <2>2, Names
<1>2. \A d \in Withdrawals \ {c} : m[d] = n[d]
  BY Names DEF Withdrawing
<1>3. AllWithdrawing(i) = SumFunctionOnSet(n, Withdrawals)
  BY DEF AllWithdrawing
<1>4. AllWithdrawing(i)' = SumFunctionOnSet(m, Withdrawals)
  BY DEF AllWithdrawing
<1>5. \A d \in Investments : Investing(d, i)' = Investing(d, i)
  BY Names DEF Investing
<1>6. AllInvesting(i)' = AllInvesting(i)
  BY <1>5 DEF AllInvesting
<1> HIDE DEF n, m
<1>7. SumFunctionOnSet(m, Withdrawals) = SumFunctionOnSet(n, Withdrawals) - n[c] + m[c]
  BY <1>1, <1>2, SumChange, FiniteAssumption
<1>8. SumFunctionOnSet(n, Withdrawals) \in Int
  BY <1>1, SumInt, FiniteAssumption
<1>9. n[c] \in Int /\ m[c] \in Int
  BY <1>1
<1> QED
  BY <1>1, <1>3, <1>4, <1>6, <1>7, <1>8, <1>9

LEMMA PayingChanges ==
  ASSUME Shape, Shape', NEW i \in Investors, NEW o \in Orders,
         \A p \in Orders \ {o} : check'[p] = check[p]
  PROVE  AllPaying(i)' = AllPaying(i) + (PayingOut(o, i)' - PayingOut(o, i))
<1> DEFINE n == [p \in Orders |-> PayingOut(p, i)]
           m == [p \in Orders |-> PayingOut(p, i)']
<1>1. /\ \A p \in Orders : n[p] \in Int /\ m[p] \in Int
      /\ n[o] = PayingOut(o, i) /\ m[o] = PayingOut(o, i)'
  <2>1. \A p \in Orders : PayingOut(p, i) \in Int
    BY WholeTerms
  <2>2. \A p \in Orders : PayingOut(p, i)' \in Int
    BY DEF Shape, Working, CheckType, PayingOut
  <2> QED
    BY <2>1, <2>2
<1>2. \A p \in Orders \ {o} : m[p] = n[p]
  BY DEF PayingOut, InHand, Row
<1>3. AllPaying(i) = SumFunctionOnSet(n, Orders)
  BY DEF AllPaying
<1>4. AllPaying(i)' = SumFunctionOnSet(m, Orders)
  BY DEF AllPaying
<1> HIDE DEF n, m
<1>5. SumFunctionOnSet(m, Orders) = SumFunctionOnSet(n, Orders) - n[o] + m[o]
  BY <1>1, <1>2, SumChange, FiniteOrders
<1>6. SumFunctionOnSet(n, Orders) \in Int
  BY <1>1, SumInt, FiniteOrders
<1>7. n[o] \in Int /\ m[o] \in Int
  BY <1>1
<1> QED
  BY <1>1, <1>3, <1>4, <1>5, <1>6, <1>7

LEMMA HeldChanges ==
  ASSUME Shape, Shape', NEW i \in Investors, NEW f \in Funds, NEW j \in Investors, NEW x \in Int,
         Move(f, j, x)
  PROVE  Held(i)' = Held(i) + (IF i = j THEN x ELSE 0)
<1> DEFINE n == [g \in Funds |-> position[g][i]]
           m == [g \in Funds |-> position'[g][i]]
<1>1. \A g \in Funds : n[g] \in Int /\ m[g] \in Int
  BY DEF Shape, Tables
<1>2. position \in [Funds -> [Investors -> Int]]
  BY DEF Shape, Tables
<1> DEFINE moved == [position[f] EXCEPT ![j] = position[f][j] + x]
<1>3. position' = [position EXCEPT ![f] = moved]
  BY DEF Move
<1>4. position'[f] = moved /\ \A g \in Funds \ {f} : position'[g] = position[g]
  BY <1>2, <1>3
<1>5. moved[i] = position[f][i] + (IF i = j THEN x ELSE 0)
  BY <1>2
<1>6. m[f] = n[f] + (IF i = j THEN x ELSE 0) /\ \A g \in Funds \ {f} : m[g] = n[g]
  BY <1>4, <1>5
<1>7. Held(i) = SumFunctionOnSet(n, Funds)
  BY DEF Held
<1>8. Held(i)' = SumFunctionOnSet(m, Funds)
  BY DEF Held
<1> HIDE DEF n, m
<1>9. SumFunctionOnSet(m, Funds) = SumFunctionOnSet(n, Funds) - n[f] + m[f]
  BY <1>1, <1>6, SumChange, FiniteAssumption
<1>10. SumFunctionOnSet(n, Funds) \in Int
  BY <1>1, SumInt, FiniteAssumption
<1>11. n[f] \in Int
  BY <1>1
<1> QED
  BY <1>6, <1>7, <1>8, <1>9, <1>10, <1>11

LEMMA WholeParts ==
  ASSUME NEW i \in Investors
  PROVE  /\ UNCHANGED position => Held(i)' = Held(i)
         /\ UNCHANGED call =>
              AllInvesting(i)' = AllInvesting(i) /\ AllWithdrawing(i)' = AllWithdrawing(i)
         /\ UNCHANGED check => AllPaying(i)' = AllPaying(i)
<1>1. UNCHANGED position => Held(i)' = Held(i)
  BY DEF Held
<1>2. UNCHANGED call =>
        AllInvesting(i)' = AllInvesting(i) /\ AllWithdrawing(i)' = AllWithdrawing(i)
  BY DEF AllInvesting, AllWithdrawing, Investing, Withdrawing
<1>3. UNCHANGED check => AllPaying(i)' = AllPaying(i)
  BY DEF AllPaying, PayingOut, InHand, Row
<1> QED
  BY <1>1, <1>2, <1>3

LEMMA CashChanges ==
  ASSUME Shape, NEW h \in Holders, NEW x \in Int, Change(h, x), NEW i \in Holders
  PROVE  cash'[i] = cash[i] + (IF i = h THEN x ELSE 0)
  BY DEF Shape, Accounts, Change

LEMMA Going ==
  ASSUME Shape, NEW c \in Calls, NEW label, GoTo(c, label)
  PROVE  /\ call'[c].pc = label /\ call'[c].sum = call[c].sum
         /\ call'[c].amount = call[c].amount
         /\ \A d \in Calls \ {c} : call'[d] = call[d]
<1>1. call[c] \in CallType /\ call \in [Calls -> CallType]
  BY DEF Shape, Working
<1>2. call'[c] = [call[c] EXCEPT !.pc = label] /\ \A d \in Calls \ {c} : call'[d] = call[d]
  BY <1>1 DEF GoTo
<1> QED
  BY <1>1, <1>2 DEF CallType

(* Of the sums of a call that pays nobody but its own investor. *)
LEMMA CallWhole ==
  ASSUME Shape, Shape', NEW i \in Investors, Whole(i), NEW c \in Calls,
         \A d \in Calls \ {c} : call'[d] = call[d], UNCHANGED check,
         NEW a \in Int, cash'[i] = cash[i] + a, NEW b \in Int, Held(i)' = Held(i) + b,
         c \in Investments =>
           a + Rate[i] * b + (Investing(c, i)' - Investing(c, i)) = 0,
         c \in Withdrawals =>
           a + Rate[i] * b - (Withdrawing(c, i)' - Withdrawing(c, i)) = 0
  PROVE  Whole(i)'
<1>0. AllPaying(i)' = AllPaying(i) + 0
  BY WholeParts, WholeNumbers
<1>1. CASE c \in Investments
  <2> DEFINE x == Investing(c, i)' - Investing(c, i)
  <2>1. x \in Int
    BY DEF Investing, Shape, Working, CallType
  <2>2. AllInvesting(i)' = AllInvesting(i) + x /\ AllWithdrawing(i)' = AllWithdrawing(i) + 0
    BY <1>1, InvestingChanges, WholeNumbers
  <2>3. a + Rate[i] * b + x = 0
    BY <1>1
  <2>4. Rate[i] * b \in Int
    BY WholeNumbers
  <2> HIDE DEF x
  <2>5. a + Rate[i] * b + x - 0 - 0 = 0
    BY <2>1, <2>3, <2>4
  <2> QED
    BY <1>0, <2>1, <2>2, <2>5, WholeMoves
<1>2. CASE c \in Withdrawals
  <2> DEFINE y == Withdrawing(c, i)' - Withdrawing(c, i)
  <2>1. y \in Int
    BY DEF Withdrawing, Shape, Working, CallType
  <2>2. AllWithdrawing(i)' = AllWithdrawing(i) + y /\ AllInvesting(i)' = AllInvesting(i) + 0
    BY <1>2, WithdrawingChanges, WholeNumbers
  <2>3. a + Rate[i] * b - y = 0
    BY <1>2
  <2>4. Rate[i] * b \in Int
    BY WholeNumbers
  <2> HIDE DEF y
  <2>5. a + Rate[i] * b + 0 - y - 0 = 0
    BY <2>1, <2>3, <2>4
  <2> QED
    BY <1>0, <2>1, <2>2, <2>5, WholeMoves
<1> QED
  BY <1>1, <1>2 DEF Calls

LEMMA InvestWhole ==
  ASSUME Core, Core', Steady, NEW c \in Investments, Invest(c),
         NEW i \in Investors, i \notin adrift', i \notin adrift, Whole(i)
  PROVE  Whole(i)'
<1>0. /\ Shape /\ Shape' /\ c \in Calls /\ c \notin Withdrawals /\ i \in Holders
      /\ call[c].sum \in Nat /\ call[c].amount \in Nat
      /\ By[c] \in Investors /\ By[c] \in Holders /\ Of[c] \in Funds /\ Of[c] \in Holders
      /\ Of[c] # i /\ Rate[i] \in Nat /\ cash[i] \in Int /\ Held(i) \in Int
  BY Names, WholeNumbers DEF Core, Shape, Working, CallType
<1>1. UNCHANGED check
  BY DEF Invest, StartInvestment, CheckBalance, DebitInvestor, CreditFund, CommitInvestment, Refund
<1>2. By[c] = i /\ call[c].pc \in Rated => call[c].sum = call[c].amount * Rate[i]
  BY <1>0 DEF Steady, Converts
<1>3. \A x \in Int : Change(Of[c], x) => cash'[i] = cash[i] + 0
  BY <1>0, CashChanges
<1>4. \A x \in Int : Change(By[c], x) => cash'[i] = cash[i] + (IF i = By[c] THEN x ELSE 0)
  BY <1>0, CashChanges
<1>5. UNCHANGED cash => cash'[i] = cash[i] + 0
  BY <1>0
<1>6. UNCHANGED position => Held(i)' = Held(i) + 0
  BY <1>0, WholeParts
<1>7. Rate[i] * 0 = 0
  BY <1>0
<1> USE DEF Succeeds, Refused, Runs, Fails, LeftAdrift, Compensate, At, fundVars
<1>8. ASSUME UNCHANGED cash, UNCHANGED position, \A d \in Calls \ {c} : call'[d] = call[d],
             Investing(c, i)' = 0, Investing(c, i) = 0
      PROVE  Whole(i)'
  BY <1>0, <1>1, <1>5, <1>6, <1>7, <1>8, CallWhole
<1>9. ASSUME NEW amount \in Amounts, StartInvestment(c, amount) PROVE Whole(i)'
  <2>1. /\ \A d \in Calls \ {c} : call'[d] = call[d]
        /\ call[c].pc = "idle" /\ call'[c].pc \in {"balance", "end"}
    BY <1>0, <1>9 DEF StartInvestment, Shape, Working, CallType
  <2> QED
    BY <1>8, <1>9, <2>1 DEF StartInvestment, Investing
<1>10. CASE CheckBalance(c)
  <2>1. /\ \A d \in Calls \ {c} : call'[d] = call[d]
        /\ call[c].pc = "balance" /\ call'[c].pc \in {"debit", "end"}
    BY <1>0, <1>10 DEF CheckBalance, Shape, Working, CallType
  <2> QED
    BY <1>8, <1>10, <2>1 DEF CheckBalance, Investing
<1>11. CASE DebitInvestor(c)
  <2>1. CASE GoTo(c, "end") /\ UNCHANGED cash
    BY <1>0, <1>8, <1>11, <2>1, Going DEF DebitInvestor, Investing
  <2>2. CASE GoTo(c, "creditFund") /\ Change(By[c], -call[c].sum)
    <3> DEFINE a == IF i = By[c] THEN -call[c].sum ELSE 0
    <3>1. a \in Int /\ cash'[i] = cash[i] + a
      BY <1>0, <1>4, <2>2
    <3>2. Investing(c, i) = 0 /\ Investing(c, i)' = -a
      BY <1>0, <1>11, <2>2, Going DEF DebitInvestor, Investing
    <3>3. Held(i)' = Held(i) + 0
      BY <1>6, <1>11 DEF DebitInvestor
    <3> HIDE DEF a
    <3> QED
      BY <1>0, <1>1, <1>7, <2>2, <3>1, <3>2, <3>3, Going, CallWhole
  <2> QED
    BY <1>11, <2>1, <2>2 DEF DebitInvestor
<1>12. CASE CreditFund(c)
  <2>1. cash'[i] = cash[i] + 0 /\ Held(i)' = Held(i) + 0
    BY <1>0, <1>3, <1>5, <1>6, <1>12 DEF CreditFund
  <2>2. Investing(c, i)' = Investing(c, i) /\ \A d \in Calls \ {c} : call'[d] = call[d]
    BY <1>0, <1>12, Going DEF CreditFund, Investing
  <2>3. Investing(c, i) \in Int
    BY <1>0 DEF Investing
  <2> QED
    BY <1>0, <1>1, <1>7, <2>1, <2>2, <2>3, CallWhole
<1>13. CASE CommitInvestment(c)
  <2>1. cash'[i] = cash[i] + 0
    BY <1>5, <1>13 DEF CommitInvestment
  <2>2. CASE Move(Of[c], By[c], call[c].amount) /\ GoTo(c, "end")
    <3> DEFINE b == IF i = By[c] THEN call[c].amount ELSE 0
    <3>1. b \in Int /\ Held(i)' = Held(i) + b
      BY <1>0, <2>2, HeldChanges
    <3>2. Investing(c, i) = Rate[i] * b
      <4>1. call[c].pc \in Rated
        BY <1>13 DEF CommitInvestment, Rated
      <4> QED
        BY <1>0, <1>2, <1>7, <1>13, <4>1 DEF CommitInvestment, Investing
    <3>3. Investing(c, i)' = 0 /\ \A d \in Calls \ {c} : call'[d] = call[d]
      BY <1>0, <2>2, Going DEF Investing
    <3>4. Rate[i] * b \in Int
      BY <1>0, <3>1
    <3> HIDE DEF b
    <3>5. 0 + Rate[i] * b + (Investing(c, i)' - Investing(c, i)) = 0
      BY <3>2, <3>3, <3>4
    <3> QED
      BY <1>0, <1>1, <2>1, <3>1, <3>3, <3>5, CallWhole
  <2>3. CASE GoTo(c, "refund") /\ UNCHANGED position
    <3>1. Investing(c, i)' = Investing(c, i) /\ \A d \in Calls \ {c} : call'[d] = call[d]
      BY <1>0, <1>13, <2>3, Going DEF CommitInvestment, Investing
    <3>2. Investing(c, i) \in Int
      BY <1>0 DEF Investing
    <3> QED
      BY <1>0, <1>1, <1>6, <1>7, <2>1, <2>3, <3>1, <3>2, CallWhole
  <2> QED
    BY <1>13, <2>2, <2>3 DEF CommitInvestment
<1>14. CASE Refund(c)
  <2>1. Held(i)' = Held(i) + 0 /\ \A d \in Calls \ {c} : call'[d] = call[d]
    BY <1>0, <1>6, <1>14, Going DEF Refund
  <2>2. Investing(c, i)' = 0 /\ Investing(c, i) = IF By[c] = i THEN call[c].sum ELSE 0
    BY <1>0, <1>14, Going DEF Refund, Investing
  <2> DEFINE a == IF i = By[c] THEN call[c].sum ELSE 0
  <2>3. a \in Int /\ Investing(c, i) = a
    BY <1>0, <2>2
  <2>4. cash'[i] = cash[i] + a
    BY <1>0, <1>4, <1>5, <1>14 DEF Refund
  <2> HIDE DEF a
  <2> QED
    BY <1>0, <1>1, <1>7, <2>1, <2>2, <2>3, <2>4, CallWhole
<1> QED
  BY <1>9, <1>10, <1>11, <1>12, <1>13, <1>14 DEF Invest

LEMMA WithdrawWhole ==
  ASSUME Core, Core', Steady, NEW c \in Withdrawals, Withdraw(c),
         NEW i \in Investors, i \notin adrift', i \notin adrift, Whole(i)
  PROVE  Whole(i)'
<1>0. /\ Shape /\ Shape' /\ c \in Calls /\ c \notin Investments /\ i \in Holders
      /\ call[c].sum \in Nat /\ call[c].amount \in Nat /\ call[c] \in CallType
      /\ By[c] \in Investors /\ By[c] \in Holders /\ Of[c] \in Funds /\ Of[c] \in Holders
      /\ Of[c] # i /\ Rate[i] \in Nat /\ cash[i] \in Int /\ Held(i) \in Int
      /\ -call[c].sum \in Int /\ -call[c].amount \in Int /\ call \in [Calls -> CallType]
  BY Names, WholeNumbers DEF Core, Shape, Working, CallType
<1>1. UNCHANGED check
  BY DEF Withdraw, StartWithdrawal, CheckPosition, DebitFund, PayInvestor, CommitWithdrawal,
     TakeBack, RefundFund, SellShares, InsertPending
<1>2. By[c] = i /\ call[c].pc \in Rated => call[c].sum = call[c].amount * Rate[i]
  BY <1>0 DEF Steady, Converts
<1>3. \A x \in Int : Change(Of[c], x) => cash'[i] = cash[i] + 0
  BY <1>0, CashChanges
<1>4. \A x \in Int : Change(By[c], x) => cash'[i] = cash[i] + (IF i = By[c] THEN x ELSE 0)
  BY <1>0, CashChanges
<1>5. UNCHANGED cash => cash'[i] = cash[i] + 0
  BY <1>0
<1>6. UNCHANGED position => Held(i)' = Held(i) + 0
  BY <1>0, WholeParts
<1>7. Rate[i] * 0 = 0
  BY <1>0
<1> USE DEF Succeeds, Refused, Runs, Fails, LeftAdrift, Compensate, At, fundVars
<1>8. ASSUME cash'[i] = cash[i] + 0, UNCHANGED position, \A d \in Calls \ {c} : call'[d] = call[d],
             Withdrawing(c, i)' = Withdrawing(c, i)
      PROVE  Whole(i)'
  <2>1. Withdrawing(c, i) \in Int
    BY <1>0 DEF Withdrawing
  <2>2. Withdrawing(c, i)' - Withdrawing(c, i) = 0
    BY <1>8, <2>1
  <2> QED
    BY <1>0, <1>1, <1>6, <1>7, <1>8, <2>2, CallWhole
<1>9. ASSUME NEW amount \in Amounts, StartWithdrawal(c, amount) PROVE Whole(i)'
  <2>1. /\ \A d \in Calls \ {c} : call'[d] = call[d]
        /\ call[c].pc = "idle" /\ call'[c].pc \in {"position", "end"}
    BY <1>0, <1>9 DEF StartWithdrawal, CallType
  <2> QED
    BY <1>5, <1>8, <1>9, <2>1 DEF StartWithdrawal, Withdrawing
<1>10. CASE CheckPosition(c)
  <2>1. /\ \A d \in Calls \ {c} : call'[d] = call[d]
        /\ call[c].pc = "position" /\ call'[c].pc \in {"end", "liquidate", "debitFund"}
    BY <1>0, <1>10, ZenonT(60) DEF CheckPosition, GoTo, CallType
  <2> QED
    BY <1>5, <1>8, <1>10, <2>1 DEF CheckPosition, Withdrawing
<1>11. CASE DebitFund(c)
  <2>1. cash'[i] = cash[i] + 0
    BY <1>0, <1>3, <1>5, <1>11 DEF DebitFund
  <2>2. /\ call[c].pc = "debitFund" /\ call'[c].pc \in {"pay", "end"}
        /\ \A d \in Calls \ {c} : call'[d] = call[d]
    BY <1>0, <1>11, Going DEF DebitFund
  <2> QED
    BY <1>8, <1>11, <2>1, <2>2 DEF DebitFund, Withdrawing
<1>12. CASE PayInvestor(c)
  <2>1. CASE GoTo(c, "refundFund") /\ UNCHANGED cash
    BY <1>0, <1>5, <1>8, <1>12, <2>1, Going DEF PayInvestor, Withdrawing
  <2>2. CASE GoTo(c, "withdraw") /\ Change(By[c], call[c].sum)
    <3> DEFINE a == IF i = By[c] THEN call[c].sum ELSE 0
    <3>1. a \in Int /\ cash'[i] = cash[i] + a
      BY <1>0, <1>4, <2>2
    <3>2. Withdrawing(c, i) = 0 /\ Withdrawing(c, i)' = a
      BY <1>0, <1>12, <2>2, Going DEF PayInvestor, Withdrawing
    <3>3. Held(i)' = Held(i) + 0
      BY <1>6, <1>12 DEF PayInvestor
    <3> HIDE DEF a
    <3> QED
      BY <1>0, <1>1, <1>7, <2>2, <3>1, <3>2, <3>3, Going, CallWhole
  <2> QED
    BY <1>12, <2>1, <2>2 DEF PayInvestor
<1>13. CASE CommitWithdrawal(c)
  <2>1. cash'[i] = cash[i] + 0
    BY <1>5, <1>13 DEF CommitWithdrawal
  <2>2. CASE Move(Of[c], By[c], -call[c].amount) /\ GoTo(c, "end")
    <3> DEFINE b == IF i = By[c] THEN -call[c].amount ELSE 0
    <3>1. b \in Int /\ Held(i)' = Held(i) + b
      BY <1>0, <2>2, HeldChanges
    <3>2. Withdrawing(c, i) = -(Rate[i] * b)
      <4>1. call[c].pc \in Rated
        BY <1>13 DEF CommitWithdrawal, Rated
      <4>2. CASE i = By[c]
        <5>1. call[c].sum = call[c].amount * Rate[i] /\ b = -call[c].amount
          BY <1>2, <4>1, <4>2
        <5>2. Withdrawing(c, i) = call[c].sum
          BY <1>13, <4>2 DEF CommitWithdrawal, Withdrawing
        <5>3. \A m, r \in Nat : m * r = -(r * (-m))
          OBVIOUS
        <5> QED
          BY <1>0, <5>1, <5>2, <5>3
      <4>3. CASE i # By[c]
        BY <1>7, <4>3 DEF Withdrawing
      <4> QED
        BY <4>2, <4>3
    <3>3. Withdrawing(c, i)' = 0 /\ \A d \in Calls \ {c} : call'[d] = call[d]
      BY <1>0, <2>2, Going DEF Withdrawing
    <3>4. Rate[i] * b \in Int
      BY <1>0, <3>1
    <3> HIDE DEF b
    <3>5. 0 + Rate[i] * b - (Withdrawing(c, i)' - Withdrawing(c, i)) = 0
      BY <3>2, <3>3, <3>4
    <3> QED
      BY <1>0, <1>1, <2>1, <3>1, <3>3, <3>5, CallWhole
  <2>3. CASE (GoTo(c, "takeBack") \/ GoTo(c, "takeBackBoth")) /\ UNCHANGED position
    <3>1. Withdrawing(c, i)' = Withdrawing(c, i) /\ \A d \in Calls \ {c} : call'[d] = call[d]
      BY <1>0, <1>13, <2>3, Going DEF CommitWithdrawal, Withdrawing
    <3> QED
      BY <1>8, <2>1, <2>3, <3>1
  <2> QED
    BY <1>13, <2>2, <2>3 DEF CommitWithdrawal
<1>14. CASE TakeBack(c)
  <2>1. Held(i)' = Held(i) + 0 /\ \A d \in Calls \ {c} : call'[d] = call[d]
    BY <1>0, <1>6, <1>14, Going DEF TakeBack
  <2> DEFINE a == IF i = By[c] THEN -call[c].sum ELSE 0
  <2>2. Withdrawing(c, i)' = 0 /\ Withdrawing(c, i) = -a
    BY <1>0, <1>14, Going DEF TakeBack, Withdrawing
  <2>3. a \in Int
    BY <1>0
  <2>4. cash'[i] = cash[i] + a
    BY <1>0, <1>4, <1>5, <1>14 DEF TakeBack
  <2> HIDE DEF a
  <2> QED
    BY <1>0, <1>1, <1>7, <2>1, <2>2, <2>3, <2>4, CallWhole
<1>15. CASE RefundFund(c)
  <2>1. cash'[i] = cash[i] + 0
    BY <1>0, <1>3, <1>5, <1>15 DEF RefundFund
  <2>2. /\ call[c].pc = "refundFund" /\ call'[c].pc = "end"
        /\ \A d \in Calls \ {c} : call'[d] = call[d]
    BY <1>0, <1>15, Going DEF RefundFund
  <2> QED
    BY <1>8, <1>15, <2>1, <2>2 DEF RefundFund, Withdrawing
<1>16. CASE SellShares(c)
  BY <1>0, <1>5, <1>8, <1>16, Going DEF SellShares, Withdrawing
<1>17. CASE InsertPending(c)
  BY <1>0, <1>5, <1>8, <1>17, Going DEF InsertPending, Withdrawing
<1> QED
  BY <1>9, <1>10, <1>11, <1>12, <1>13, <1>14, <1>15, <1>16, <1>17 DEF Withdraw

LEMMA CheckWhole ==
  ASSUME Core, Core', Steady, NEW o \in Orders, CheckPendingWithdrawals(o),
         NEW i \in Investors, i \notin adrift', i \notin adrift, Whole(i)
  PROVE  Whole(i)'
<1>0. /\ Shape /\ Shape' /\ check[o] \in CheckType /\ check \in [Orders -> CheckType]
      /\ pending \in [Withdrawals -> RowType] /\ i \in Holders
      /\ Rate[i] \in Nat /\ cash[i] \in Int /\ Held(i) \in Int
      /\ Of[o] \in Funds /\ AllInvesting(i) \in Int /\ AllWithdrawing(i) \in Int
      /\ AllPaying(i) \in Int /\ liquid[Of[o]] \in Int
  BY Names, WholeNumbers DEF Core, Shape, Working, Rows, Tables
<1>1. UNCHANGED call
  BY DEF CheckPendingWithdrawals, ReadLiquid, FetchRows, CommitRow, UndoRow, EndCheck, PayRow
<1>2. /\ AllInvesting(i)' = AllInvesting(i) + 0 /\ AllWithdrawing(i)' = AllWithdrawing(i) + 0
      /\ (UNCHANGED position => Held(i)' = Held(i) + 0)
      /\ (UNCHANGED cash => cash'[i] = cash[i] + 0)
  BY <1>0, <1>1, WholeParts
<1>3. Rate[i] * 0 = 0
  BY <1>0
<1>4. PayingOut(o, i) \in Int /\ PayingOut(o, i)' \in Int
  BY <1>0 DEF PayingOut, Shape, Working, CheckType
<1>5. ASSUME NEW a \in Int, cash'[i] = cash[i] + a, NEW b \in Int, Held(i)' = Held(i) + b,
             \A p \in Orders \ {o} : check'[p] = check[p],
             a + Rate[i] * b - (PayingOut(o, i)' - PayingOut(o, i)) = 0
      PROVE  Whole(i)'
  <2> DEFINE z == PayingOut(o, i)' - PayingOut(o, i)
  <2>1. z \in Int /\ AllPaying(i)' = AllPaying(i) + z
    BY <1>0, <1>4, <1>5, PayingChanges
  <2>2. a + Rate[i] * b - z = 0 /\ Rate[i] * b \in Int
    BY <1>0, <1>5
  <2> HIDE DEF z
  <2>3. ASSUME NEW x \in Int, NEW y \in Int, x = 0, y = 0
        PROVE  /\ a + Rate[i] * b + x - y - z = 0
               /\ AllInvesting(i)' = AllInvesting(i) + x
               /\ AllWithdrawing(i)' = AllWithdrawing(i) + y
    BY <1>0, <1>2, <2>1, <2>2, <2>3
  <2>4. ASSUME NEW x \in Int, NEW y \in Int, x = 0, y = 0 PROVE Whole(i)'
    BY <1>0, <1>5, <2>1, <2>3, <2>4, WholeMoves, SMTT(30)
  <2> QED
    BY <2>4
<1>6. ASSUME \A p \in Orders \ {o} : check'[p] = check[p], UNCHANGED cash, UNCHANGED position,
             PayingOut(o, i)' = PayingOut(o, i)
      PROVE  Whole(i)'
  BY <1>2, <1>3, <1>4, <1>5, <1>6
<1> USE DEF rowVars, ghosts, fundVars, Succeeds, Refused, LeftAdrift, CheckAt
<1>7. CASE ReadLiquid(o)
  <2>1. /\ check'[o].pc = "rows" /\ check[o].pc = "idle"
        /\ \A p \in Orders \ {o} : check'[p] = check[p]
    BY <1>0, <1>7 DEF ReadLiquid, CheckType
  <2> QED
    BY <1>6, <1>7, <2>1 DEF ReadLiquid, PayingOut, InHand
<1>8. CASE FetchRows(o)
  <2>1. /\ check'[o].pc = "pay" /\ check[o].pc = "rows"
        /\ \A p \in Orders \ {o} : check'[p] = check[p]
    BY <1>0, <1>8 DEF FetchRows, CheckType
  <2> QED
    BY <1>6, <1>8, <2>1 DEF FetchRows, PayingOut, InHand
<1>9. CASE EndCheck(o)
  <2>1. /\ check'[o].pc = "end" /\ check[o].pc = "pay"
        /\ \A p \in Orders \ {o} : check'[p] = check[p]
    BY <1>0, <1>9 DEF EndCheck, CheckType
  <2> QED
    BY <1>6, <1>9, <2>1 DEF EndCheck, PayingOut, InHand
<1>10. ASSUME NEW w \in Withdrawals, PayRow(o, w) PROVE Whole(i)'
  <2>0. check[o].pc = "pay" /\ UNCHANGED position
    BY <1>10 DEF PayRow
  <2>1. CASE Skip(o, w) /\ UNCHANGED cash
    <3>1. check'[o].pc = "pay" /\ \A p \in Orders \ {o} : check'[p] = check[p]
      BY <1>0, <2>0, <2>1 DEF Skip, CheckType
    <3> QED
      BY <1>6, <2>0, <2>1, <3>1 DEF PayingOut, InHand
  <2>2. ASSUME NEW sum \in {pending[w].amount * Rate[By[w]], pending[w].amount},
               Change(By[w], sum),
               check' = [check EXCEPT ![o] = [@ EXCEPT
                  !.pc = "commit", !.rows = check[o].rows \ {w}, !.row = w, !.sum = sum]]
        PROVE  Whole(i)'
    <3>1. sum \in Int /\ By[w] \in Holders
      BY <1>0, Names, Products DEF RowType
    <3>2. /\ check'[o].pc = "commit" /\ check'[o].row = w /\ check'[o].sum = sum
          /\ \A p \in Orders \ {o} : check'[p] = check[p]
      BY <1>0, <2>2 DEF CheckType
    <3> DEFINE a == IF i = By[w] THEN sum ELSE 0
    <3>3. a \in Int /\ cash'[i] = cash[i] + a
      BY <1>0, <2>2, <3>1, CashChanges
    <3>4. PayingOut(o, i) = 0 /\ PayingOut(o, i)' = a
      BY <2>0, <3>2 DEF PayingOut, InHand, Row
    <3> HIDE DEF a
    <3> QED
      BY <1>2, <1>3, <1>5, <2>0, <3>2, <3>3, <3>4
  <2> QED
    BY <1>10, <2>1, <2>2 DEF PayRow
<1>11. CASE CommitRow(o)
  <2> DEFINE w == Row(o)
             m == pending[w].amount
  <2>0. check[o].pc = "commit" /\ InHand(o) /\ w \in Withdrawals /\ check[o].row = w
    BY <1>11 DEF CommitRow, InHand, Core, RowsRead, Row
  <2>1. /\ m \in Nat /\ -m \in Int /\ By[w] \in Investors
        /\ UNCHANGED cash
        /\ (By[w] \notin adrift => check[o].sum = m * Rate[By[w]])
    BY <1>0, <1>11, <2>0, Names DEF CommitRow, RowType, Steady, Converts
  <2>2. PayingOut(o, i) = IF By[w] = i THEN check[o].sum ELSE 0
    BY <2>0 DEF PayingOut
  <2>3. \/ /\ Move(Of[o], By[w], -m)
           /\ check' = [check EXCEPT ![o] = [@ EXCEPT !.pc = "pay", !.row = None, !.sum = 0,
                          !.liquid = check[o].liquid - m]]
        \/ /\ UNCHANGED position
           /\ check' = [check EXCEPT ![o] = [@ EXCEPT !.pc = "undo"]]
        \/ /\ UNCHANGED position
           /\ check' = [check EXCEPT ![o] = [@ EXCEPT !.pc = "undo", !.sum = m]]
           /\ adrift' = IF check[o].sum = m THEN adrift ELSE adrift \cup {By[w]}
    BY <1>11 DEF CommitRow
  <2> HIDE DEF w, m
  <2>4. CASE /\ Move(Of[o], By[w], -m)
             /\ check' = [check EXCEPT ![o] = [@ EXCEPT !.pc = "pay", !.row = None, !.sum = 0,
                            !.liquid = check[o].liquid - m]]
    <3> DEFINE b == IF i = By[w] THEN -m ELSE 0
    <3>1. b \in Int /\ Held(i)' = Held(i) + b
      BY <1>0, <2>1, <2>4, HeldChanges
    <3>2. check'[o].pc = "pay" /\ \A p \in Orders \ {o} : check'[p] = check[p]
      BY <1>0, <2>4 DEF CheckType
    <3>3. PayingOut(o, i)' = 0
      BY <3>2 DEF PayingOut, InHand
    <3>4. PayingOut(o, i) = -(Rate[i] * b)
      <4>1. CASE i = By[w]
        <5>1. check[o].sum = m * Rate[i] /\ b = -m
          BY <2>1, <4>1
        <5>2. \A k, r \in Nat : k * r = -(r * (-k))
          OBVIOUS
        <5> QED
          BY <1>0, <2>1, <2>2, <4>1, <5>1, <5>2
      <4>2. CASE i # By[w]
        BY <1>3, <2>2, <4>2
      <4> QED
        BY <4>1, <4>2
    <3>5. Rate[i] * b \in Int
      BY <1>0, <3>1
    <3> HIDE DEF b
    <3>6. 0 + Rate[i] * b - (PayingOut(o, i)' - PayingOut(o, i)) = 0
      BY <3>3, <3>4, <3>5
    <3> QED
      BY <1>2, <1>5, <2>1, <3>1, <3>2, <3>6
  <2>5. ASSUME UNCHANGED position, \A p \in Orders \ {o} : check'[p] = check[p],
               check'[o].pc = "undo", check'[o].row = w,
               By[w] = i => check'[o].sum = check[o].sum
        PROVE  Whole(i)'
    <3>1. PayingOut(o, i)' = PayingOut(o, i)
      BY <2>2, <2>5 DEF PayingOut, InHand, Row
    <3> QED
      BY <1>6, <2>1, <2>5, <3>1
  <2>6. CASE /\ UNCHANGED position
             /\ check' = [check EXCEPT ![o] = [@ EXCEPT !.pc = "undo"]]
    <3>1. /\ check'[o].pc = "undo" /\ check'[o].row = w /\ check'[o].sum = check[o].sum
          /\ \A p \in Orders \ {o} : check'[p] = check[p]
      BY <1>0, <2>0, <2>6 DEF CheckType
    <3> QED
      BY <2>5, <2>6, <3>1
  <2>7. CASE /\ UNCHANGED position
             /\ check' = [check EXCEPT ![o] = [@ EXCEPT !.pc = "undo", !.sum = m]]
             /\ adrift' = IF check[o].sum = m THEN adrift ELSE adrift \cup {By[w]}
    <3>1. /\ check'[o].pc = "undo" /\ check'[o].row = w /\ check'[o].sum = m
          /\ \A p \in Orders \ {o} : check'[p] = check[p]
      BY <1>0, <2>0, <2>7 DEF CheckType
    <3>2. By[w] = i => check[o].sum = m
      BY <2>7
    <3> QED
      BY <2>5, <2>7, <3>1, <3>2
  <2> QED
    BY <2>3, <2>4, <2>6, <2>7
<1>12. CASE UndoRow(o)
  <2> DEFINE w == Row(o)
  <2>0. /\ check[o].pc = "undo" /\ InHand(o) /\ w \in Withdrawals /\ UNCHANGED position
    BY <1>12 DEF UndoRow, InHand, Core, RowsRead, Row
  <2>1. By[w] \in Holders /\ check[o].sum \in Nat /\ -check[o].sum \in Int
    BY <1>0, <2>0, Names DEF CheckType
  <2>2. check'[o].pc = "pay" /\ \A p \in Orders \ {o} : check'[p] = check[p]
    BY <1>0, <1>12 DEF UndoRow, NextRow, CheckType
  <2> DEFINE a == IF i = By[w] THEN -check[o].sum ELSE 0
  <2>3. a \in Int /\ cash'[i] = cash[i] + a
    <3>1. Change(By[w], -check[o].sum) \/ (UNCHANGED cash /\ i # By[w])
      BY <1>12 DEF UndoRow
    <3> QED
      BY <1>0, <1>2, <2>1, <3>1, CashChanges
  <2>4. PayingOut(o, i) = -a /\ PayingOut(o, i)' = 0
    BY <2>0, <2>1, <2>2 DEF PayingOut, InHand
  <2> HIDE DEF a, w
  <2> QED
    BY <1>2, <1>3, <1>5, <2>0, <2>2, <2>3, <2>4
<1> QED
  BY <1>7, <1>8, <1>9, <1>10, <1>11, <1>12 DEF CheckPendingWithdrawals

LEMMA WholeKept ==
  ASSUME NEW i \in Investors, Whole(i), cash'[i] = cash[i], UNCHANGED position,
         \A c \in Calls : /\ Investing(c, i)' = Investing(c, i)
                          /\ Withdrawing(c, i)' = Withdrawing(c, i),
         \A o \in Orders : PayingOut(o, i)' = PayingOut(o, i)
  PROVE  Whole(i)'
<1>1. AllInvesting(i)' = AllInvesting(i)
  BY Names DEF AllInvesting
<1>2. AllWithdrawing(i)' = AllWithdrawing(i)
  BY Names DEF AllWithdrawing
<1>3. AllPaying(i)' = AllPaying(i)
  BY DEF AllPaying
<1>4. Held(i)' = Held(i)
  BY WholeParts
<1> QED
  BY <1>1, <1>2, <1>3, <1>4 DEF Whole, HeldFirst

LEMMA CrashWhole ==
  ASSUME Core, Crash, NEW i \in Investors, i \notin adrift', Whole(i)
  PROVE  Whole(i)'
<1>0. call \in [Calls -> CallType] /\ check \in [Orders -> CheckType] /\ i \in Holders
  BY Names DEF Core, Shape, Working
<1>1. UNCHANGED <<cash, position>>
  BY DEF Crash, fundVars
<1>2. ASSUME NEW c \in Calls
      PROVE  Investing(c, i)' = Investing(c, i) /\ Withdrawing(c, i)' = Withdrawing(c, i)
  <2>1. call'[c].pc \in {"idle", "end"}
    BY <1>0 DEF Crash, At, CallType
  <2>2. By[c] = i => call[c].pc \notin Written
    BY <1>0 DEF Crash
  <2>3. Investing(c, i) = 0 /\ Withdrawing(c, i) = 0
    BY <2>2 DEF Investing, Withdrawing, Written
  <2>4. Investing(c, i)' = 0 /\ Withdrawing(c, i)' = 0
    BY <2>1 DEF Investing, Withdrawing
  <2> QED
    BY <2>3, <2>4
<1>3. ASSUME NEW o \in Orders PROVE PayingOut(o, i)' = PayingOut(o, i)
  <2>1. check'[o].pc \in {"idle", "end"}
    <3>1. check'[o] = IF check[o].pc = "idle" THEN check[o] ELSE [check[o] EXCEPT !.pc = "end"]
      BY DEF Crash
    <3> QED
      BY <1>0, <3>1 DEF CheckType
  <2>2. ~(InHand(o) /\ By[Row(o)] = i)
    BY <1>0 DEF Crash
  <2>3. PayingOut(o, i) = 0
    BY <2>2 DEF PayingOut
  <2>4. PayingOut(o, i)' = 0
    BY <2>1 DEF PayingOut, InHand
  <2> QED
    BY <2>3, <2>4
<1> QED
  BY <1>1, <1>2, <1>3, WholeKept

LEMMA OtherWhole ==
  ASSUME Core, NEW i \in Investors, Whole(i),
         \/ \E c \in Calls : Disconnect(c)
         \/ \E f \in Funds : CountPositions(f) \/ DeactivateFund(f)
         \/ UNCHANGED vars
         \/ \E o \in Orders : Execute(o)
         \/ \E o \in Trades, direction \in {"BUY", "SELL"}, quantity \in Quantities :
              PlaceTrade(o, direction, quantity)
  PROVE  Whole(i)'
<1>0. Shape /\ i \in Holders
  BY Names DEF Core
<1>1. ASSUME cash'[i] = cash[i], UNCHANGED <<position, call, check>> PROVE Whole(i)'
  <2>1. /\ \A c \in Calls : /\ Investing(c, i)' = Investing(c, i)
                            /\ Withdrawing(c, i)' = Withdrawing(c, i)
        /\ \A o \in Orders : PayingOut(o, i)' = PayingOut(o, i)
    BY <1>1 DEF Investing, Withdrawing, PayingOut, InHand, Row
  <2> QED
    BY <1>1, <2>1, WholeKept
<1>2. ASSUME NEW c \in Calls, Disconnect(c) PROVE Whole(i)'
  <2>1. /\ \A d \in Calls \ {c} : call'[d] = call[d]
        /\ call'[c] = [call[c] EXCEPT !.here = FALSE] /\ call[c] \in CallType
        /\ UNCHANGED <<cash, position, check>>
    BY <1>0, <1>2 DEF Disconnect, Shape, Working, fundVars
  <2>2. call'[c].pc = call[c].pc /\ call'[c].sum = call[c].sum
    BY <2>1 DEF CallType
  <2>3. /\ \A d \in Calls : /\ Investing(d, i)' = Investing(d, i)
                            /\ Withdrawing(d, i)' = Withdrawing(d, i)
        /\ \A o \in Orders : PayingOut(o, i)' = PayingOut(o, i)
    BY <2>1, <2>2 DEF Investing, Withdrawing, PayingOut, InHand, Row
  <2> QED
    BY <2>1, <2>3, WholeKept
<1>3. ASSUME NEW o \in Orders, Execute(o) PROVE Whole(i)'
  <2>1. UNCHANGED <<position, call, check>>
    BY <1>3 DEF Execute, SettleFill, UpdateFundHolding, fundVars
  <2>2. cash'[i] = cash[i]
    <3>1. CASE UpdateFundHolding(o)
      BY <3>1 DEF UpdateFundHolding
    <3>2. ASSUME NEW qty \in 1..order[o].left, SettleFill(o, qty) PROVE cash'[i] = cash[i]
      <4>1. UNCHANGED cash \/ Change(Of[o], -Cost(o, qty))
        BY <3>2 DEF SettleFill
      <4>2. order[o].left \in Nat
        BY <1>0 DEF Shape, Working, OrderType
      <4>3. Of[o] \in Holders /\ Of[o] # i /\ -Cost(o, qty) \in Int
        BY <1>0, <4>2, OrderFacts, Names
      <4> QED
        BY <1>0, <4>1, <4>3 DEF Change, Shape, Accounts
    <3> QED
      BY <1>3, <3>1, <3>2 DEF Execute
  <2> QED
    BY <1>1, <2>1, <2>2
<1>4. ASSUME NEW o \in Trades, NEW direction, NEW quantity, PlaceTrade(o, direction, quantity)
      PROVE  Whole(i)'
  BY <1>1, <1>4 DEF PlaceTrade, fundVars
<1>5. ASSUME NEW f \in Funds, CountPositions(f) \/ DeactivateFund(f) PROVE Whole(i)'
  BY <1>1, <1>5 DEF CountPositions, DeactivateFund, fundVars
<1>6. CASE UNCHANGED vars
  BY <1>1, <1>6 DEF vars, fundVars
<1> QED
  BY <1>2, <1>3, <1>4, <1>5, <1>6

LEMMA NeverMended == [Next]_vars => adrift \subseteq adrift'
<1> USE DEF LeftAdrift, Converted, Compensate
<1>1. ASSUME NEW c \in Investments, Invest(c) PROVE adrift \subseteq adrift'
  BY <1>1 DEF Invest, StartInvestment, CheckBalance, DebitInvestor, CreditFund, CommitInvestment,
     Refund
<1>2. ASSUME NEW c \in Withdrawals, Withdraw(c) PROVE adrift \subseteq adrift'
  BY <1>2 DEF Withdraw, StartWithdrawal, CheckPosition, DebitFund, PayInvestor, CommitWithdrawal,
     TakeBack, RefundFund, SellShares, InsertPending
<1>3. ASSUME NEW o \in Orders, Execute(o) PROVE adrift \subseteq adrift'
  BY <1>3, ZenonT(60) DEF Execute, SettleFill, UpdateFundHolding
<1>4. ASSUME NEW o \in Orders, CheckPendingWithdrawals(o) PROVE adrift \subseteq adrift'
  BY <1>4 DEF CheckPendingWithdrawals, ReadLiquid, FetchRows, CommitRow, UndoRow, EndCheck, PayRow
<1>5. Crash => adrift \subseteq adrift'
  BY DEF Crash
<1>6. ASSUME NEW o, NEW direction, NEW quantity, PlaceTrade(o, direction, quantity)
      PROVE  adrift \subseteq adrift'
  BY <1>6 DEF PlaceTrade
<1>7. ASSUME NEW f, CountPositions(f) \/ DeactivateFund(f) PROVE adrift \subseteq adrift'
  BY <1>7 DEF CountPositions, DeactivateFund
<1>8. ASSUME NEW c, Disconnect(c) PROVE adrift \subseteq adrift'
  BY <1>8 DEF Disconnect
<1>9. UNCHANGED vars => adrift \subseteq adrift'
  BY DEF vars
<1> QED
  BY <1>1, <1>2, <1>3, <1>4, <1>5, <1>6, <1>7, <1>8, <1>9 DEF Next

(* Unless something was left undone on his account, what an investor has   *)
(* in it and in his positions together is what it was, for every rate of   *)
(* his currency: investments and withdrawals move it, their compensations  *)
(* move it back in full, and so do hang-ups, crashes and the payments of   *)
(* what waited for a sale, also when two checks of a fund overlap.         *)
THEOREM InvestorsStayWhole == Spec => []InvestorsWhole
<1>1. Init => InvestorsWhole
  <2> SUFFICES ASSUME Init, NEW i \in Investors PROVE Whole(i)
    BY WholeIs
  <2>1. Core
    BY InitCore
  <2>2. \A c \in Calls : Investing(c, i) = 0 /\ Withdrawing(c, i) = 0
    BY DEF Init, IdleCall, Investing, Withdrawing
  <2>3. \A o \in Orders : PayingOut(o, i) = 0
    BY DEF Init, NoCheck, PayingOut, InHand
  <2> DEFINE n == [c \in Investments |-> Investing(c, i)]
             w == [c \in Withdrawals |-> Withdrawing(c, i)]
             p == [o \in Orders |-> PayingOut(o, i)]
  <2>4. /\ \A c \in Investments : n[c] = 0
        /\ \A c \in Withdrawals : w[c] = 0
        /\ \A o \in Orders : p[o] = 0
    BY <2>2, <2>3, Names
  <2>5. /\ AllInvesting(i) = SumFunctionOnSet(n, Investments)
        /\ AllWithdrawing(i) = SumFunctionOnSet(w, Withdrawals)
        /\ AllPaying(i) = SumFunctionOnSet(p, Orders)
    BY DEF AllInvesting, AllWithdrawing, AllPaying
  <2> HIDE DEF n, w, p
  <2>6. AllInvesting(i) = 0 /\ AllWithdrawing(i) = 0 /\ AllPaying(i) = 0
    BY <2>4, <2>5, SumZero, FiniteAssumption, FiniteOrders
  <2>7. Held(i) = HeldFirst(i) /\ cash[i] = InitCash[i]
    BY DEF Init, Held, HeldFirst
  <2>8. cash[i] \in Int /\ Rate[i] * Held(i) \in Int
    <3>1. \A r \in Nat, h \in Int : r * h \in Int
      OBVIOUS
    <3> QED
      BY <2>1, <3>1, WholeNumbers DEF Core
  <2> QED
    BY <2>6, <2>7, <2>8 DEF Whole
<1>2. Core /\ Core' /\ Steady /\ InvestorsWhole /\ [Next]_vars => InvestorsWhole'
  <2> SUFFICES ASSUME Core, Core', Steady, InvestorsWhole, [Next]_vars,
                      NEW i \in Investors, i \notin adrift'
               PROVE  Whole(i)'
    BY DEF InvestorsWhole, Whole, OnTheWay, SumOver, Held, HeldFirst, AllInvesting,
           AllWithdrawing, AllPaying
  <2>1. i \notin adrift
    BY NeverMended
  <2>2. Whole(i)
    BY <2>1, WholeIs
  <2> QED
    BY <2>1, <2>2, InvestWhole, WithdrawWhole, CheckWhole, CrashWhole, OtherWhole DEF Next
<1> QED
  BY InitCore, CoreStep, InitSteady, SteadyStep, <1>1, <1>2, PTL DEF Spec
-----------------------------------------------------------------------------
(* The books of a fund.                                                    *)

AllContributed(f) == SumFunctionOnSet([c \in Investments |-> Contributed(c, f)], Investments)
AllTakenOut(f) == SumFunctionOnSet([c \in Withdrawals |-> TakenOut(c, f)], Withdrawals)
AllFilled(f) == SumFunctionOnSet([o \in Orders |-> Filled(o, f)], Orders)
AllFills(f) == SumFunctionOnSet([o \in Orders |-> Fills(o, f)], Orders)
AllPaidOut(f) == SumFunctionOnSet([w \in Withdrawals |-> PaidOut(w, f)], Withdrawals)
AllToBook(f) == SumFunctionOnSet([o \in Orders |-> ToBook(o, f)], Orders)

(* What the account has had and liquid_assets have not, commissions and    *)
(* pending payments aside.                                                 *)
Parted(f) ==
  AllContributed(f) - AllTakenOut(f) - AllFilled(f) + AllPaidOut(f) - AllToBook(f)
Booked(f) ==
  cash[f] - liquid[f] - (InitCash[f] - InitLiquid[f])
    = (AllContributed(f) - AllTakenOut(f) - AllFilled(f)) - Fee * AllFills(f)
      + AllPaidOut(f) - AllToBook(f)

LEMMA FundTerms ==
  ASSUME Core, NEW f \in Funds
  PROVE  /\ \A c \in Calls : Contributed(c, f) \in Int /\ TakenOut(c, f) \in Int
         /\ \A o \in Orders : Filled(o, f) \in Int /\ Fills(o, f) \in Int /\ ToBook(o, f) \in Int
         /\ \A w \in Withdrawals : PaidOut(w, f) \in Int
<1>1. Shape
  BY DEF Core
<1>2. \A c \in Calls : Contributed(c, f) \in Int /\ TakenOut(c, f) \in Int
  BY <1>1 DEF Shape, Working, CallType, Contributed, TakenOut
<1>3. ASSUME NEW o \in Orders PROVE Filled(o, f) \in Int /\ Fills(o, f) \in Int
  BY <1>1, OrderFacts DEF OrderType, Filled, Fills
<1>4. ASSUME NEW o \in Orders PROVE ToBook(o, f) \in Int
  <2>1. InHand(o) => Row(o) \in Withdrawals
    BY DEF Core, RowsRead, Row
  <2> QED
    BY <1>1, <2>1, NumbersOfRows DEF ToBook
<1>5. ASSUME NEW w \in Withdrawals PROVE PaidOut(w, f) \in Int
  BY <1>1, NumbersOfRows, Products DEF PaidOut
<1> QED
  BY <1>2, <1>3, <1>4, <1>5

LEMMA FundNumbers ==
  ASSUME Core, NEW f \in Funds
  PROVE  /\ cash[f] \in Int /\ liquid[f] \in Int /\ Fee \in Nat
         /\ InitCash[f] \in Int /\ InitLiquid[f] \in Int
         /\ AllContributed(f) \in Int /\ AllTakenOut(f) \in Int /\ AllFilled(f) \in Int
         /\ AllFills(f) \in Int /\ AllPaidOut(f) \in Int /\ AllToBook(f) \in Int
<1> DEFINE a == [c \in Investments |-> Contributed(c, f)]
           b == [c \in Withdrawals |-> TakenOut(c, f)]
           d == [o \in Orders |-> Filled(o, f)]
           e == [o \in Orders |-> Fills(o, f)]
           g == [w \in Withdrawals |-> PaidOut(w, f)]
           h == [o \in Orders |-> ToBook(o, f)]
<1>1. /\ \A c \in Investments : a[c] \in Int
      /\ \A c \in Withdrawals : b[c] \in Int /\ g[c] \in Int
      /\ \A o \in Orders : d[o] \in Int /\ e[o] \in Int /\ h[o] \in Int
  BY FundTerms, Names
<1>2. /\ AllContributed(f) = SumFunctionOnSet(a, Investments)
      /\ AllTakenOut(f) = SumFunctionOnSet(b, Withdrawals)
      /\ AllFilled(f) = SumFunctionOnSet(d, Orders)
      /\ AllFills(f) = SumFunctionOnSet(e, Orders)
      /\ AllPaidOut(f) = SumFunctionOnSet(g, Withdrawals)
      /\ AllToBook(f) = SumFunctionOnSet(h, Orders)
  BY DEF AllContributed, AllTakenOut, AllFilled, AllFills, AllPaidOut, AllToBook
<1> HIDE DEF a, b, d, e, g, h
<1>3. SumFunctionOnSet(a, Investments) \in Int
  BY <1>1, SumInt, FiniteAssumption
<1>4. SumFunctionOnSet(b, Withdrawals) \in Int /\ SumFunctionOnSet(g, Withdrawals) \in Int
  BY <1>1, SumInt, FiniteAssumption
<1>5. /\ SumFunctionOnSet(d, Orders) \in Int /\ SumFunctionOnSet(e, Orders) \in Int
      /\ SumFunctionOnSet(h, Orders) \in Int
  BY <1>1, SumInt, FiniteOrders
<1>6. cash[f] \in Int /\ liquid[f] \in Int /\ f \in Holders
  BY Names DEF Core, Shape, Tables, Accounts
<1>7. InitCash[f] \in Int /\ InitLiquid[f] \in Int /\ Fee \in Nat
  BY <1>6, AmountsAssumption
<1> QED
  BY <1>2, <1>3, <1>4, <1>5, <1>6, <1>7

LEMMA BookedIs == FundBooks <=> \A f \in Funds \ adrift : Booked(f)
  BY DEF FundBooks, Booked, NotBooked, SumOver, AllContributed, AllTakenOut, AllFilled,
         AllFills, AllPaidOut, AllToBook

(* The same, in short. *)
BookedShort(f) ==
  cash[f] - liquid[f] - (InitCash[f] - InitLiquid[f]) = Parted(f) - Fee * AllFills(f)

LEMMA BookedInShort == Core => \A f \in Funds : Booked(f) <=> BookedShort(f)
<1> SUFFICES ASSUME Core, NEW f \in Funds PROVE Booked(f) <=> BookedShort(f)
  OBVIOUS
<1> DEFINE v == Fee * AllFills(f)
<1>1. v \in Int
  <2>1. \A r \in Nat, h \in Int : r * h \in Int
    OBVIOUS
  <2> QED
    BY <2>1, FundNumbers
<1>2. Booked(f) <=>
        cash[f] - liquid[f] - (InitCash[f] - InitLiquid[f])
          = (AllContributed(f) - AllTakenOut(f) - AllFilled(f)) - v + AllPaidOut(f) - AllToBook(f)
  BY DEF Booked
<1> HIDE DEF v
<1>3. (AllContributed(f) - AllTakenOut(f) - AllFilled(f)) - v + AllPaidOut(f) - AllToBook(f)
        = Parted(f) - v
  BY <1>1, FundNumbers DEF Parted
<1> QED
  BY <1>2, <1>3 DEF v, BookedShort

LEMMA BookedAfter == Core' => \A f \in Funds : Booked(f)' <=> BookedShort(f)'
<1>1. (Core => \A f \in Funds : Booked(f) <=> BookedShort(f))'
  BY BookedInShort, PTL
<1> QED
  BY <1>1

(* The books of a fund hold on, if what its account, its liquid_assets and *)
(* what separates them change by agrees.                                   *)
LEMMA BookedMoves ==
  ASSUME Core, Core', NEW f \in Funds, Booked(f),
         NEW a \in Int, NEW l \in Int, NEW x \in Int, NEW n \in Int,
         cash'[f] = cash[f] + a, liquid'[f] = liquid[f] + l,
         Parted(f)' = Parted(f) + x, AllFills(f)' = AllFills(f) + n,
         a - l = x - Fee * n
  PROVE  Booked(f)'
<1> DEFINE k == InitCash[f] - InitLiquid[f]
           p == Parted(f)
           q == AllFills(f)
<1>1. /\ cash[f] \in Int /\ liquid[f] \in Int /\ Fee \in Nat /\ k \in Int /\ p \in Int /\ q \in Int
  BY FundNumbers DEF Parted
<1>2. cash[f] - liquid[f] - k = p - Fee * q
  BY BookedInShort DEF BookedShort
<1>3. Booked(f)' <=> (cash[f] + a) - (liquid[f] + l) - k = (p + x) - Fee * (q + n)
  BY BookedAfter DEF BookedShort
<1> HIDE DEF k, p, q
<1>4. Fee * (q + n) = Fee * q + Fee * n /\ Fee * q \in Int /\ Fee * n \in Int
  BY <1>1
<1> DEFINE u == Fee * q
           v == Fee * n
<1>5. /\ u \in Int /\ v \in Int /\ Fee * (q + n) = u + v /\ cash[f] - liquid[f] - k = p - u
      /\ a - l = x - v
  BY <1>2, <1>4
<1> HIDE DEF u, v
<1>6. (cash[f] + a) - (liquid[f] + l) - k = (p + x) - (u + v)
  <2>1. \A c, m \in Int : c - m - k = p - u => (c + a) - (m + l) - k = (p + x) - (u + v)
    BY <1>1, <1>5
  <2> QED
    BY <1>1, <1>5, <2>1
<1> QED
  BY <1>3, <1>5, <1>6

FundTermsTyped ==
  \A f \in Funds :
    /\ \A c \in Calls : Contributed(c, f) \in Int /\ TakenOut(c, f) \in Int
    /\ \A o \in Orders : Filled(o, f) \in Int /\ Fills(o, f) \in Int /\ ToBook(o, f) \in Int
    /\ \A w \in Withdrawals : PaidOut(w, f) \in Int

LEMMA FundTermsNow == Core => FundTermsTyped
  BY FundTerms DEF FundTermsTyped

LEMMA FundTermsAfter == Core' => FundTermsTyped'
<1>1. (Core => FundTermsTyped)'
  BY FundTermsNow, PTL
<1> QED
  BY <1>1

(* The sums that do not change. *)
LEMMA PartsKept ==
  ASSUME NEW f \in Funds
  PROVE  /\ (\A c \in Investments : Contributed(c, f)' = Contributed(c, f))
              => AllContributed(f)' = AllContributed(f)
         /\ (\A c \in Withdrawals : TakenOut(c, f)' = TakenOut(c, f))
              => AllTakenOut(f)' = AllTakenOut(f)
         /\ (\A o \in Orders : Filled(o, f)' = Filled(o, f)) => AllFilled(f)' = AllFilled(f)
         /\ (\A o \in Orders : Fills(o, f)' = Fills(o, f)) => AllFills(f)' = AllFills(f)
         /\ (\A w \in Withdrawals : PaidOut(w, f)' = PaidOut(w, f))
              => AllPaidOut(f)' = AllPaidOut(f)
         /\ (\A o \in Orders : ToBook(o, f)' = ToBook(o, f)) => AllToBook(f)' = AllToBook(f)
<1>1. (\A c \in Investments : Contributed(c, f)' = Contributed(c, f))
         => AllContributed(f)' = AllContributed(f)
  BY DEF AllContributed
<1>2. (\A c \in Withdrawals : TakenOut(c, f)' = TakenOut(c, f))
         => AllTakenOut(f)' = AllTakenOut(f)
  BY DEF AllTakenOut
<1>3. (\A o \in Orders : Filled(o, f)' = Filled(o, f)) => AllFilled(f)' = AllFilled(f)
  BY DEF AllFilled
<1>4. (\A o \in Orders : Fills(o, f)' = Fills(o, f)) => AllFills(f)' = AllFills(f)
  BY DEF AllFills
<1>5. (\A w \in Withdrawals : PaidOut(w, f)' = PaidOut(w, f)) => AllPaidOut(f)' = AllPaidOut(f)
  BY DEF AllPaidOut
<1>6. (\A o \in Orders : ToBook(o, f)' = ToBook(o, f)) => AllToBook(f)' = AllToBook(f)
  BY DEF AllToBook
<1> QED
  BY <1>1, <1>2, <1>3, <1>4, <1>5, <1>6

(* The sums of which one term changes. *)
LEMMA CallParts ==
  ASSUME Core, Core', NEW f \in Funds, NEW c \in Calls, \A d \in Calls \ {c} : call'[d] = call[d]
  PROVE  /\ c \in Investments =>
              /\ AllContributed(f)' = AllContributed(f) - Contributed(c, f) + Contributed(c, f)'
              /\ AllTakenOut(f)' = AllTakenOut(f)
         /\ c \in Withdrawals =>
              /\ AllTakenOut(f)' = AllTakenOut(f) - TakenOut(c, f) + TakenOut(c, f)'
              /\ AllContributed(f)' = AllContributed(f)
<1>0. FundTermsTyped /\ FundTermsTyped'
  BY FundTermsNow, FundTermsAfter
<1>1. \A d \in Calls \ {c} :
        Contributed(d, f)' = Contributed(d, f) /\ TakenOut(d, f)' = TakenOut(d, f)
  BY DEF Contributed, TakenOut
<1>2. ASSUME c \in Investments
      PROVE  AllContributed(f)' = AllContributed(f) - Contributed(c, f) + Contributed(c, f)'
  <2> DEFINE n == [d \in Investments |-> Contributed(d, f)]
             m == [d \in Investments |-> Contributed(d, f)']
  <2>1. /\ \A d \in Investments : n[d] \in Int /\ m[d] \in Int
        /\ \A d \in Investments \ {c} : m[d] = n[d]
        /\ n[c] = Contributed(c, f) /\ m[c] = Contributed(c, f)'
    BY <1>0, <1>1, <1>2, Names DEF FundTermsTyped
  <2>2. AllContributed(f) = SumFunctionOnSet(n, Investments)
    BY DEF AllContributed
  <2>3. AllContributed(f)' = SumFunctionOnSet(m, Investments)
    BY DEF AllContributed
  <2> HIDE DEF n, m
  <2> QED
    BY <1>2, <2>1, <2>2, <2>3, SumChange, FiniteAssumption
<1>3. ASSUME c \in Withdrawals
      PROVE  AllTakenOut(f)' = AllTakenOut(f) - TakenOut(c, f) + TakenOut(c, f)'
  <2> DEFINE n == [d \in Withdrawals |-> TakenOut(d, f)]
             m == [d \in Withdrawals |-> TakenOut(d, f)']
  <2>1. /\ \A d \in Withdrawals : n[d] \in Int /\ m[d] \in Int
        /\ \A d \in Withdrawals \ {c} : m[d] = n[d]
        /\ n[c] = TakenOut(c, f) /\ m[c] = TakenOut(c, f)'
    BY <1>0, <1>1, <1>3, Names DEF FundTermsTyped
  <2>2. AllTakenOut(f) = SumFunctionOnSet(n, Withdrawals)
    BY DEF AllTakenOut
  <2>3. AllTakenOut(f)' = SumFunctionOnSet(m, Withdrawals)
    BY DEF AllTakenOut
  <2> HIDE DEF n, m
  <2> QED
    BY <1>3, <2>1, <2>2, <2>3, SumChange, FiniteAssumption
<1>4. c \in Investments => AllTakenOut(f)' = AllTakenOut(f)
  BY <1>1, PartsKept, Names
<1>5. c \in Withdrawals => AllContributed(f)' = AllContributed(f)
  BY <1>1, PartsKept, Names
<1> QED
  BY <1>2, <1>3, <1>4, <1>5

LEMMA OrderParts ==
  ASSUME Core, Core', NEW f \in Funds, NEW o \in Orders,
         \A p \in Orders \ {o} : order'[p] = order[p]
  PROVE  /\ AllFilled(f)' = AllFilled(f) - Filled(o, f) + Filled(o, f)'
         /\ AllFills(f)' = AllFills(f) - Fills(o, f) + Fills(o, f)'
<1>0. FundTermsTyped /\ FundTermsTyped'
  BY FundTermsNow, FundTermsAfter
<1> DEFINE n == [p \in Orders |-> Filled(p, f)]
           m == [p \in Orders |-> Filled(p, f)']
           x == [p \in Orders |-> Fills(p, f)]
           y == [p \in Orders |-> Fills(p, f)']
<1>1. /\ \A p \in Orders : n[p] \in Int /\ m[p] \in Int /\ x[p] \in Int /\ y[p] \in Int
      /\ n[o] = Filled(o, f) /\ m[o] = Filled(o, f)' /\ x[o] = Fills(o, f) /\ y[o] = Fills(o, f)'
  BY <1>0 DEF FundTermsTyped
<1>2. \A p \in Orders \ {o} : Filled(p, f)' = Filled(p, f) /\ Fills(p, f)' = Fills(p, f)
  BY DEF Filled, Fills, Bought
<1>3. \A p \in Orders \ {o} : m[p] = n[p] /\ y[p] = x[p]
  BY <1>2
<1>4. AllFilled(f) = SumFunctionOnSet(n, Orders) /\ AllFills(f) = SumFunctionOnSet(x, Orders)
  BY DEF AllFilled, AllFills
<1>5. AllFilled(f)' = SumFunctionOnSet(m, Orders) /\ AllFills(f)' = SumFunctionOnSet(y, Orders)
  BY DEF AllFilled, AllFills
<1> HIDE DEF n, m, x, y
<1>6. SumFunctionOnSet(m, Orders) = SumFunctionOnSet(n, Orders) - n[o] + m[o]
  BY <1>1, <1>3, SumChange, FiniteOrders
<1>7. SumFunctionOnSet(y, Orders) = SumFunctionOnSet(x, Orders) - x[o] + y[o]
  BY <1>1, <1>3, SumChange, FiniteOrders
<1> QED
  BY <1>1, <1>4, <1>5, <1>6, <1>7

LEMMA RowParts ==
  ASSUME Core, Core', NEW f \in Funds, NEW o \in Orders, NEW w \in Withdrawals,
         \A p \in Orders \ {o} : check'[p] = check[p],
         \A v \in Withdrawals : pending'[v].amount = pending[v].amount,
         \A v \in Withdrawals \ {w} : payouts'[v] = payouts[v]
  PROVE  /\ AllPaidOut(f)' = AllPaidOut(f) - PaidOut(w, f) + PaidOut(w, f)'
         /\ AllToBook(f)' = AllToBook(f) - ToBook(o, f) + ToBook(o, f)'
<1>0. FundTermsTyped /\ FundTermsTyped'
  BY FundTermsNow, FundTermsAfter
<1> DEFINE n == [v \in Withdrawals |-> PaidOut(v, f)]
           m == [v \in Withdrawals |-> PaidOut(v, f)']
           x == [p \in Orders |-> ToBook(p, f)]
           y == [p \in Orders |-> ToBook(p, f)']
<1>1. /\ \A v \in Withdrawals : n[v] \in Int /\ m[v] \in Int
      /\ \A p \in Orders : x[p] \in Int /\ y[p] \in Int
      /\ n[w] = PaidOut(w, f) /\ m[w] = PaidOut(w, f)'
      /\ x[o] = ToBook(o, f) /\ y[o] = ToBook(o, f)'
  BY <1>0 DEF FundTermsTyped
<1>2. \A v \in Withdrawals \ {w} : PaidOut(v, f)' = PaidOut(v, f)
  BY DEF PaidOut
<1>3. \A p \in Orders \ {o} : ToBook(p, f)' = ToBook(p, f)
  <2> SUFFICES ASSUME NEW p \in Orders \ {o} PROVE ToBook(p, f)' = ToBook(p, f)
    OBVIOUS
  <2>1. (InHand(p)' <=> InHand(p)) /\ Row(p)' = Row(p)
    BY DEF InHand, Row
  <2>2. InHand(p) => Row(p) \in Withdrawals
    BY DEF Core, RowsRead, Row
  <2> QED
    BY <2>1, <2>2 DEF ToBook
<1>4. /\ \A v \in Withdrawals \ {w} : m[v] = n[v]
      /\ \A p \in Orders \ {o} : y[p] = x[p]
  BY <1>2, <1>3
<1>5. AllPaidOut(f) = SumFunctionOnSet(n, Withdrawals) /\ AllToBook(f) = SumFunctionOnSet(x, Orders)
  BY DEF AllPaidOut, AllToBook
<1>6. /\ AllPaidOut(f)' = SumFunctionOnSet(m, Withdrawals)
      /\ AllToBook(f)' = SumFunctionOnSet(y, Orders)
  BY DEF AllPaidOut, AllToBook
<1> HIDE DEF n, m, x, y
<1>7. SumFunctionOnSet(m, Withdrawals) = SumFunctionOnSet(n, Withdrawals) - n[w] + m[w]
  BY <1>1, <1>4, SumChange, FiniteAssumption
<1>8. SumFunctionOnSet(y, Orders) = SumFunctionOnSet(x, Orders) - x[o] + y[o]
  BY <1>1, <1>4, SumChange, FiniteOrders
<1> QED
  BY <1>1, <1>5, <1>6, <1>7, <1>8

LEMMA CallBooked ==
  ASSUME Core, Core', NEW f \in Funds, Booked(f), NEW c \in Calls,
         \A d \in Calls \ {c} : call'[d] = call[d],
         \A o \in Orders : /\ Filled(o, f)' = Filled(o, f) /\ Fills(o, f)' = Fills(o, f)
                           /\ ToBook(o, f)' = ToBook(o, f),
         \A w \in Withdrawals : PaidOut(w, f)' = PaidOut(w, f),
         NEW a \in Int, cash'[f] = cash[f] + a, NEW l \in Int, liquid'[f] = liquid[f] + l,
         c \in Investments => a - l = Contributed(c, f)' - Contributed(c, f),
         c \in Withdrawals => a - l = TakenOut(c, f) - TakenOut(c, f)'
  PROVE  Booked(f)'
<1>0. FundTermsTyped /\ FundTermsTyped'
  BY FundTermsNow, FundTermsAfter
<1> DEFINE x == a - l
<1>1. Parted(f)' = Parted(f) + x
  <2>1. /\ AllFilled(f)' = AllFilled(f) /\ AllPaidOut(f)' = AllPaidOut(f)
        /\ AllToBook(f)' = AllToBook(f)
    BY PartsKept
  <2>2. Parted(f) = AllContributed(f) - AllTakenOut(f) - AllFilled(f) + AllPaidOut(f) - AllToBook(f)
    BY DEF Parted
  <2>3. Parted(f)' = AllContributed(f)' - AllTakenOut(f)' - AllFilled(f) + AllPaidOut(f)
                       - AllToBook(f)
    BY <2>1 DEF Parted
  <2>4. CASE c \in Investments
    <3>1. Contributed(c, f) \in Int /\ Contributed(c, f)' \in Int
      BY <1>0 DEF FundTermsTyped
    <3>2. /\ AllContributed(f)' = AllContributed(f) - Contributed(c, f) + Contributed(c, f)'
          /\ AllTakenOut(f)' = AllTakenOut(f) /\ x = Contributed(c, f)' - Contributed(c, f)
      BY <2>4, CallParts
    <3> HIDE DEF x
    <3> QED
      BY <2>2, <2>3, <3>1, <3>2, FundNumbers
  <2>5. CASE c \in Withdrawals
    <3>1. TakenOut(c, f) \in Int /\ TakenOut(c, f)' \in Int
      BY <1>0 DEF FundTermsTyped
    <3>2. /\ AllTakenOut(f)' = AllTakenOut(f) - TakenOut(c, f) + TakenOut(c, f)'
          /\ AllContributed(f)' = AllContributed(f) /\ x = TakenOut(c, f) - TakenOut(c, f)'
      BY <2>5, CallParts
    <3> HIDE DEF x
    <3> QED
      BY <2>2, <2>3, <3>1, <3>2, FundNumbers
  <2> QED
    BY <2>4, <2>5 DEF Calls
<1>2. AllFills(f)' = AllFills(f)
  BY PartsKept
<1>3. x \in Int /\ a - l = x
  OBVIOUS
<1> HIDE DEF x
<1>4. ASSUME NEW n \in Int, n = 0
      PROVE  AllFills(f)' = AllFills(f) + n /\ a - l = x - Fee * n
  BY <1>2, <1>3, <1>4, FundNumbers
<1>5. ASSUME NEW n \in Int, n = 0 PROVE Booked(f)'
  BY <1>1, <1>3, <1>4, <1>5, BookedMoves
<1> QED
  BY <1>5

LEMMA FundTermsKept ==
  ASSUME NEW f \in Funds
  PROVE  /\ UNCHANGED order =>
              \A o \in Orders : Filled(o, f)' = Filled(o, f) /\ Fills(o, f)' = Fills(o, f)
         /\ UNCHANGED <<pending, check>> => \A o \in Orders : ToBook(o, f)' = ToBook(o, f)
         /\ UNCHANGED <<pending, payouts>> => \A w \in Withdrawals : PaidOut(w, f)' = PaidOut(w, f)
<1>1. UNCHANGED order =>
        \A o \in Orders : Filled(o, f)' = Filled(o, f) /\ Fills(o, f)' = Fills(o, f)
  BY DEF Filled, Fills, Bought
<1>2. UNCHANGED <<pending, check>> => \A o \in Orders : ToBook(o, f)' = ToBook(o, f)
  BY DEF ToBook, InHand, Row
<1>3. UNCHANGED <<pending, payouts>> => \A w \in Withdrawals : PaidOut(w, f)' = PaidOut(w, f)
  BY DEF PaidOut
<1> QED
  BY <1>1, <1>2, <1>3

LEMMA LiquidChanges ==
  ASSUME Shape, NEW g \in Funds, NEW j, NEW x \in Int, Move(g, j, x), NEW f \in Funds
  PROVE  liquid'[f] = liquid[f] + (IF f = g THEN x ELSE 0)
  BY DEF Shape, Tables, Move

LEMMA InvestBooked ==
  ASSUME Core, Core', NEW c \in Investments, Invest(c),
         NEW f \in Funds, f \notin adrift', f \notin adrift, Booked(f)
  PROVE  Booked(f)'
<1>0. /\ Shape /\ Shape' /\ c \in Calls /\ c \notin Withdrawals /\ f \in Holders
      /\ call[c].sum \in Nat /\ call[c].amount \in Nat /\ -call[c].sum \in Int
      /\ By[c] \in Investors /\ By[c] \in Holders /\ Of[c] \in Funds /\ Of[c] \in Holders
      /\ By[c] # f /\ cash[f] \in Int /\ liquid[f] \in Int
  BY Names, FundNumbers DEF Core, Shape, Working, CallType
<1>1. UNCHANGED <<order, check, pending, payouts>>
  BY DEF Invest, StartInvestment, CheckBalance, DebitInvestor, CreditFund, CommitInvestment, Refund,
     rowVars, ghosts
<1>2. /\ \A o \in Orders : /\ Filled(o, f)' = Filled(o, f) /\ Fills(o, f)' = Fills(o, f)
                           /\ ToBook(o, f)' = ToBook(o, f)
      /\ \A w \in Withdrawals : PaidOut(w, f)' = PaidOut(w, f)
  BY <1>1, FundTermsKept
<1>3. \A x \in Int : Change(By[c], x) => cash'[f] = cash[f] + 0
  BY <1>0, CashChanges
<1>4. \A x \in Int : Change(Of[c], x) => cash'[f] = cash[f] + (IF f = Of[c] THEN x ELSE 0)
  BY <1>0, CashChanges
<1>5. (UNCHANGED cash => cash'[f] = cash[f] + 0) /\ (UNCHANGED liquid => liquid'[f] = liquid[f] + 0)
  BY <1>0
<1>6. Contributed(c, f) \in Int
  BY <1>0 DEF Contributed
<1> USE DEF Succeeds, Refused, Runs, Fails, LeftAdrift, Compensate, At, fundVars
<1>7. ASSUME cash'[f] = cash[f] + 0, UNCHANGED liquid, \A d \in Calls \ {c} : call'[d] = call[d],
             Contributed(c, f)' = Contributed(c, f)
      PROVE  Booked(f)'
  <2>1. 0 - 0 = Contributed(c, f)' - Contributed(c, f)
    BY <1>6, <1>7
  <2> QED
    BY <1>0, <1>2, <1>5, <1>7, <2>1, CallBooked
<1>8. ASSUME NEW amount \in Amounts, StartInvestment(c, amount) PROVE Booked(f)'
  <2>1. /\ \A d \in Calls \ {c} : call'[d] = call[d]
        /\ call[c].pc = "idle" /\ call'[c].pc \in {"balance", "end"}
    BY <1>0, <1>8 DEF StartInvestment, Shape, Working, CallType
  <2> QED
    BY <1>5, <1>7, <1>8, <2>1 DEF StartInvestment, Contributed
<1>9. CASE CheckBalance(c)
  <2>1. /\ \A d \in Calls \ {c} : call'[d] = call[d]
        /\ call[c].pc = "balance" /\ call'[c].pc \in {"debit", "end"}
    BY <1>0, <1>9 DEF CheckBalance, Shape, Working, CallType
  <2> QED
    BY <1>5, <1>7, <1>9, <2>1 DEF CheckBalance, Contributed
<1>10. CASE DebitInvestor(c)
  <2>1. cash'[f] = cash[f] + 0
    BY <1>0, <1>3, <1>5, <1>10 DEF DebitInvestor
  <2>2. /\ call[c].pc = "debit" /\ call'[c].pc \in {"creditFund", "end"}
        /\ \A d \in Calls \ {c} : call'[d] = call[d]
    BY <1>0, <1>10, Going DEF DebitInvestor
  <2> QED
    BY <1>7, <1>10, <2>1, <2>2 DEF DebitInvestor, Contributed
<1>11. CASE CreditFund(c)
  <2>1. CASE GoTo(c, "refund") /\ UNCHANGED cash
    BY <1>0, <1>5, <1>7, <1>11, <2>1, Going DEF CreditFund, Contributed
  <2>2. CASE GoTo(c, "invest") /\ Change(Of[c], call[c].amount)
    <3> DEFINE a == IF f = Of[c] THEN call[c].amount ELSE 0
    <3>1. a \in Int /\ cash'[f] = cash[f] + a
      BY <1>0, <1>4, <2>2
    <3>2. Contributed(c, f) = 0 /\ Contributed(c, f)' = a
      BY <1>0, <1>11, <2>2, Going DEF CreditFund, Contributed
    <3>3. liquid'[f] = liquid[f] + 0
      BY <1>5, <1>11 DEF CreditFund
    <3> HIDE DEF a
    <3> QED
      BY <1>0, <1>2, <2>2, <3>1, <3>2, <3>3, Going, CallBooked
  <2> QED
    BY <1>11, <2>1, <2>2 DEF CreditFund
<1>12. CASE CommitInvestment(c)
  <2>1. cash'[f] = cash[f] + 0
    BY <1>5, <1>12 DEF CommitInvestment
  <2>2. CASE Move(Of[c], By[c], call[c].amount) /\ GoTo(c, "end")
    <3> DEFINE l == IF f = Of[c] THEN call[c].amount ELSE 0
    <3>1. l \in Int /\ liquid'[f] = liquid[f] + l
      BY <1>0, <2>2, LiquidChanges
    <3>2. Contributed(c, f) = l /\ Contributed(c, f)' = 0
      BY <1>0, <1>12, <2>2, Going DEF CommitInvestment, Contributed
    <3> HIDE DEF l
    <3> QED
      BY <1>0, <1>2, <2>1, <2>2, <3>1, <3>2, Going, CallBooked
  <2>3. CASE GoTo(c, "refund") /\ UNCHANGED liquid /\ LeftAdrift(Of[c])
    <3>1. Contributed(c, f)' = Contributed(c, f)
      BY <1>0, <1>12, <2>3, Going DEF CommitInvestment, Contributed
    <3> QED
      BY <1>0, <1>7, <2>1, <2>3, <3>1, Going
  <2> QED
    BY <1>12, <2>2, <2>3 DEF CommitInvestment
<1>13. CASE Refund(c)
  <2>1. cash'[f] = cash[f] + 0
    BY <1>0, <1>3, <1>5, <1>13 DEF Refund
  <2>2. /\ call[c].pc = "refund" /\ call'[c].pc = "end"
        /\ \A d \in Calls \ {c} : call'[d] = call[d]
    BY <1>0, <1>13, Going DEF Refund
  <2> QED
    BY <1>7, <1>13, <2>1, <2>2 DEF Refund, Contributed
<1> QED
  BY <1>8, <1>9, <1>10, <1>11, <1>12, <1>13 DEF Invest

(* An order that is placed has not been filled. *)
LEMMA PlacedBooked ==
  ASSUME Core, NEW f \in Funds, NEW o \in Orders, order[o].pc = "none",
         NEW direction, NEW quantity, NewOrder(o, direction, quantity)
  PROVE  \A p \in Orders : Filled(p, f)' = Filled(p, f) /\ Fills(p, f)' = Fills(p, f)
<1>1. order \in [Orders -> OrderType]
  BY DEF Core, Shape, Working
<1>2. /\ order'[o].pc = "fill" /\ order'[o].fills = 0
      /\ \A p \in Orders \ {o} : order'[p] = order[p]
  BY <1>1 DEF NewOrder
<1>3. order[o].fills = 0
  BY DEF Core, Fitting
<1>4. \A p \in Orders \ {o} : Filled(p, f)' = Filled(p, f) /\ Fills(p, f)' = Fills(p, f)
  BY <1>2 DEF Filled, Fills, Bought
<1>5. Filled(o, f)' = Filled(o, f) /\ Fills(o, f)' = Fills(o, f)
  BY <1>2, <1>3 DEF Filled, Fills
<1> QED
  BY <1>4, <1>5

LEMMA WithdrawBooked ==
  ASSUME Core, Core', NEW c \in Withdrawals, Withdraw(c),
         NEW f \in Funds, f \notin adrift', f \notin adrift, Booked(f)
  PROVE  Booked(f)'
<1>0. /\ Shape /\ Shape' /\ c \in Calls /\ c \notin Investments /\ f \in Holders /\ c \in Orders
      /\ call[c].sum \in Nat /\ call[c].amount \in Nat /\ -call[c].sum \in Int
      /\ -call[c].amount \in Int /\ call[c] \in CallType /\ call \in [Calls -> CallType]
      /\ By[c] \in Investors /\ By[c] \in Holders /\ Of[c] \in Funds /\ Of[c] \in Holders
      /\ By[c] # f /\ cash[f] \in Int /\ liquid[f] \in Int /\ pending \in [Withdrawals -> RowType]
  BY Names, FundNumbers DEF Core, Shape, Working, CallType, Rows
<1>1. /\ UNCHANGED <<check, payouts>>
      /\ ~SellShares(c) => UNCHANGED order
      /\ ~InsertPending(c) => UNCHANGED pending
  BY DEF Withdraw, StartWithdrawal, CheckPosition, DebitFund, PayInvestor, CommitWithdrawal,
     TakeBack, RefundFund, SellShares, InsertPending, rowVars, ghosts
<1>2. /\ \A o \in Orders : /\ Filled(o, f)' = Filled(o, f) /\ Fills(o, f)' = Fills(o, f)
                           /\ ToBook(o, f)' = ToBook(o, f)
      /\ \A w \in Withdrawals : PaidOut(w, f)' = PaidOut(w, f)
  <2>1. \A o \in Orders : Filled(o, f)' = Filled(o, f) /\ Fills(o, f)' = Fills(o, f)
    <3>1. CASE SellShares(c)
      <4>1. order[c].pc = "none"
        BY <3>1 DEF SellShares, At, Core, OncePending
      <4>2. NewOrder(c, "SELL", shares[Of[c]]) \/ UNCHANGED order
        BY <3>1 DEF SellShares
      <4> QED
        BY <1>0, <4>1, <4>2, PlacedBooked, FundTermsKept
    <3>2. CASE ~SellShares(c)
      BY <1>1, <3>2, FundTermsKept
    <3> QED
      BY <3>1, <3>2
  <2>2. /\ \A o \in Orders : ToBook(o, f)' = ToBook(o, f)
        /\ \A w \in Withdrawals : PaidOut(w, f)' = PaidOut(w, f)
    <3>1. CASE InsertPending(c)
      <4>1. pending[c].status = None
        BY <3>1 DEF InsertPending, At, Core, OncePending
      <4>2. \A w \in Withdrawals \ {c} : pending'[w] = pending[w]
        BY <1>0, <3>1 DEF InsertPending, rowVars
      <4>3. \A o \in Orders : InHand(o) => Row(o) \in Withdrawals \ {c}
        BY <4>1 DEF Core, RowsRead, Row
      <4>4. \A o \in Orders : ToBook(o, f)' = ToBook(o, f)
        BY <1>1, <4>2, <4>3 DEF ToBook, InHand, Row
      <4>5. \A w \in Withdrawals \ {c} : PaidOut(w, f)' = PaidOut(w, f)
        BY <1>1, <4>2 DEF PaidOut
      <4>6. PaidOut(c, f)' = PaidOut(c, f)
        <5>1. payouts[c] = 0 /\ payouts'[c] = 0
          BY <1>1, <4>1 DEF Core, OncePending
        <5>2. pending[c].amount \in Nat /\ pending'[c].amount \in Nat
          BY <1>0 DEF Shape, Rows, RowType
        <5> QED
          BY <5>1, <5>2 DEF PaidOut
      <4> QED
        BY <4>4, <4>5, <4>6
    <3>2. CASE ~InsertPending(c)
      BY <1>1, <3>2, FundTermsKept
    <3> QED
      BY <3>1, <3>2
  <2> QED
    BY <2>1, <2>2
<1>3. \A x \in Int : Change(By[c], x) => cash'[f] = cash[f] + 0
  BY <1>0, CashChanges
<1>4. \A x \in Int : Change(Of[c], x) => cash'[f] = cash[f] + (IF f = Of[c] THEN x ELSE 0)
  BY <1>0, CashChanges
<1>5. (UNCHANGED cash => cash'[f] = cash[f] + 0) /\ (UNCHANGED liquid => liquid'[f] = liquid[f] + 0)
  BY <1>0
<1>6. TakenOut(c, f) \in Int
  BY <1>0 DEF TakenOut
<1> USE DEF Succeeds, Refused, Runs, Fails, LeftAdrift, Compensate, At, fundVars
<1>7. ASSUME cash'[f] = cash[f] + 0, UNCHANGED liquid, \A d \in Calls \ {c} : call'[d] = call[d],
             TakenOut(c, f)' = TakenOut(c, f)
      PROVE  Booked(f)'
  <2>1. 0 - 0 = TakenOut(c, f) - TakenOut(c, f)'
    BY <1>6, <1>7
  <2> QED
    BY <1>0, <1>2, <1>5, <1>7, <2>1, CallBooked
<1>8. ASSUME NEW amount \in Amounts, StartWithdrawal(c, amount) PROVE Booked(f)'
  <2>1. /\ \A d \in Calls \ {c} : call'[d] = call[d]
        /\ call[c].pc = "idle" /\ call'[c].pc \in {"position", "end"}
    BY <1>0, <1>8 DEF StartWithdrawal, CallType
  <2> QED
    BY <1>5, <1>7, <1>8, <2>1 DEF StartWithdrawal, TakenOut
<1>9. CASE CheckPosition(c)
  <2>1. /\ \A d \in Calls \ {c} : call'[d] = call[d]
        /\ call[c].pc = "position" /\ call'[c].pc \in {"end", "liquidate", "debitFund"}
    <3>0. c \in Calls /\ call \in [Calls -> CallType] /\ call[c] \in CallType
      BY <1>0
    <3>1. /\ call[c].pc = "position"
          /\ \/ call' = [call EXCEPT ![c] = [@ EXCEPT !.pc = "end"]]
             \/ call' = [call EXCEPT ![c] = [@ EXCEPT
                  !.pc = IF By[c] \in Clients THEN "liquidate" ELSE "end",
                  !.amount = Asked(c)]]
             \/ \E sum : call' = [call EXCEPT ![c] = [@ EXCEPT
                  !.pc = "debitFund", !.amount = Asked(c), !.sum = sum]]
      BY <1>9 DEF CheckPosition, GoTo
    <3>2. \A d \in Calls \ {c} : call'[d] = call[d]
      BY <3>0, <3>1
    <3>3. \/ call'[c] = [call[c] EXCEPT !.pc = "end"]
          \/ call'[c] = [call[c] EXCEPT
               !.pc = IF By[c] \in Clients THEN "liquidate" ELSE "end", !.amount = Asked(c)]
          \/ \E sum : call'[c] = [call[c] EXCEPT
               !.pc = "debitFund", !.amount = Asked(c), !.sum = sum]
      BY <3>0, <3>1
    <3>4. call'[c].pc \in {"end", "liquidate", "debitFund"}
      BY <3>0, <3>3 DEF CallType
    <3> QED
      BY <3>1, <3>2, <3>4
  <2> QED
    BY <1>5, <1>7, <1>9, <2>1 DEF CheckPosition, TakenOut
<1>10. CASE DebitFund(c)
  <2>1. CASE GoTo(c, "end") /\ UNCHANGED cash
    BY <1>0, <1>5, <1>7, <1>10, <2>1, Going DEF DebitFund, TakenOut
  <2>2. CASE GoTo(c, "pay") /\ Change(Of[c], -call[c].amount)
    <3> DEFINE a == IF f = Of[c] THEN -call[c].amount ELSE 0
    <3>1. a \in Int /\ cash'[f] = cash[f] + a
      BY <1>0, <1>4, <2>2
    <3>2. TakenOut(c, f) = 0 /\ TakenOut(c, f)' = -a
      BY <1>0, <1>10, <2>2, Going DEF DebitFund, TakenOut
    <3>3. liquid'[f] = liquid[f] + 0
      BY <1>5, <1>10 DEF DebitFund
    <3> HIDE DEF a
    <3> QED
      BY <1>0, <1>2, <2>2, <3>1, <3>2, <3>3, Going, CallBooked
  <2> QED
    BY <1>10, <2>1, <2>2 DEF DebitFund
<1>11. CASE PayInvestor(c)
  <2>1. cash'[f] = cash[f] + 0
    BY <1>0, <1>3, <1>5, <1>11 DEF PayInvestor
  <2>2. /\ call[c].pc = "pay" /\ call'[c].pc \in {"withdraw", "refundFund"}
        /\ call'[c].amount = call[c].amount /\ \A d \in Calls \ {c} : call'[d] = call[d]
    BY <1>0, <1>11, Going DEF PayInvestor
  <2> QED
    BY <1>7, <1>11, <2>1, <2>2 DEF PayInvestor, TakenOut
<1>12. CASE CommitWithdrawal(c)
  <2>1. cash'[f] = cash[f] + 0
    BY <1>5, <1>12 DEF CommitWithdrawal
  <2>2. CASE Move(Of[c], By[c], -call[c].amount) /\ GoTo(c, "end")
    <3> DEFINE l == IF f = Of[c] THEN -call[c].amount ELSE 0
    <3>1. l \in Int /\ liquid'[f] = liquid[f] + l
      BY <1>0, <2>2, LiquidChanges
    <3>2. TakenOut(c, f) = -l /\ TakenOut(c, f)' = 0
      BY <1>0, <1>12, <2>2, Going DEF CommitWithdrawal, TakenOut
    <3> HIDE DEF l
    <3> QED
      BY <1>0, <1>2, <2>1, <2>2, <3>1, <3>2, Going, CallBooked
  <2>3. CASE GoTo(c, "takeBackBoth") /\ UNCHANGED liquid
    BY <1>0, <1>7, <1>12, <2>1, <2>3, Going DEF CommitWithdrawal, TakenOut
  <2>4. CASE GoTo(c, "takeBack") /\ UNCHANGED liquid /\ LeftAdrift(Of[c])
    <3>1. TakenOut(c, f)' = TakenOut(c, f)
      BY <1>0, <1>12, <2>4, Going DEF CommitWithdrawal, TakenOut
    <3> QED
      BY <1>0, <1>7, <2>1, <2>4, <3>1, Going
  <2> QED
    BY <1>12, <2>2, <2>3, <2>4 DEF CommitWithdrawal
<1>13. CASE TakeBack(c)
  <2>1. cash'[f] = cash[f] + 0
    BY <1>0, <1>3, <1>5, <1>13 DEF TakeBack
  <2>2. TakenOut(c, f)' = TakenOut(c, f) /\ \A d \in Calls \ {c} : call'[d] = call[d]
    BY <1>0, <1>13, Going DEF TakeBack, TakenOut
  <2> QED
    BY <1>7, <1>13, <2>1, <2>2 DEF TakeBack
<1>14. CASE RefundFund(c)
  <2> DEFINE a == IF f = Of[c] THEN call[c].amount ELSE 0
  <2>1. a \in Int
    BY <1>0
  <2>2. cash'[f] = cash[f] + a
    BY <1>0, <1>4, <1>5, <1>14 DEF RefundFund
  <2>3. /\ TakenOut(c, f) = a /\ TakenOut(c, f)' = 0
        /\ \A d \in Calls \ {c} : call'[d] = call[d]
    BY <1>0, <1>14, Going DEF RefundFund, TakenOut
  <2>4. liquid'[f] = liquid[f] + 0
    BY <1>5, <1>14 DEF RefundFund
  <2> HIDE DEF a
  <2> QED
    BY <1>0, <1>2, <2>1, <2>2, <2>3, <2>4, CallBooked
<1>15. CASE SellShares(c)
  BY <1>0, <1>5, <1>7, <1>15, Going DEF SellShares, TakenOut
<1>16. CASE InsertPending(c)
  BY <1>0, <1>5, <1>7, <1>16, Going DEF InsertPending, TakenOut
<1> QED
  BY <1>8, <1>9, <1>10, <1>11, <1>12, <1>13, <1>14, <1>15, <1>16 DEF Withdraw

LEMMA ExecuteBooked ==
  ASSUME Core, Core', NEW o \in Orders, Execute(o),
         NEW f \in Funds, f \notin adrift', f \notin adrift, Booked(f)
  PROVE  Booked(f)'
<1>0. /\ Shape /\ f \in Holders /\ order[o] \in OrderType /\ order \in [Orders -> OrderType]
      /\ Of[o] \in Funds /\ Of[o] \in Holders /\ Price \in Nat /\ Fee \in Nat
      /\ Bought(o) \in Int /\ Bought(o) * Price \in Int
      /\ \A qty \in Nat : -Cost(o, qty) \in Int
      /\ cash[f] \in Int /\ liquid[f] \in Int /\ AllFills(f) \in Int /\ Parted(f) \in Int
  BY Names, OrderFacts, FundNumbers DEF Core, Shape, Working, Parted
<1>1. UNCHANGED <<call, check, pending, payouts>>
  BY DEF Execute, SettleFill, UpdateFundHolding, rowVars, ghosts
<1>2. /\ \A p \in Orders : ToBook(p, f)' = ToBook(p, f)
      /\ \A w \in Withdrawals : PaidOut(w, f)' = PaidOut(w, f)
      /\ \A c \in Calls : Contributed(c, f)' = Contributed(c, f) /\ TakenOut(c, f)' = TakenOut(c, f)
  BY <1>1, FundTermsKept DEF Contributed, TakenOut
<1>3. FundTermsTyped /\ FundTermsTyped'
  BY FundTermsNow, FundTermsAfter
<1>4. ASSUME \A p \in Orders \ {o} : order'[p] = order[p],
             NEW a \in Int, cash'[f] = cash[f] + a, NEW l \in Int, liquid'[f] = liquid[f] + l,
             a - l = Filled(o, f) - Filled(o, f)' - Fee * (Fills(o, f)' - Fills(o, f))
      PROVE  Booked(f)'
  <2> DEFINE x == Filled(o, f) - Filled(o, f)'
             n == Fills(o, f)' - Fills(o, f)
  <2>1. /\ Filled(o, f) \in Int /\ Filled(o, f)' \in Int
        /\ Fills(o, f) \in Int /\ Fills(o, f)' \in Int
    BY <1>3 DEF FundTermsTyped
  <2>2. x \in Int /\ n \in Int
    BY <2>1
  <2>3. AllFilled(f)' = AllFilled(f) - x
    BY <1>4, <2>1, OrderParts, FundNumbers
  <2>4. AllFills(f)' = AllFills(f) + n
    BY <1>4, <2>1, OrderParts, FundNumbers
  <2>5. /\ AllContributed(f)' = AllContributed(f) /\ AllTakenOut(f)' = AllTakenOut(f)
        /\ AllPaidOut(f)' = AllPaidOut(f) /\ AllToBook(f)' = AllToBook(f)
    BY <1>2, PartsKept, Names
  <2>6. a - l = x - Fee * n
    BY <1>4
  <2> HIDE DEF x, n
  <2>7. Parted(f)' = Parted(f) + x
    BY <2>2, <2>3, <2>5, FundNumbers DEF Parted
  <2> QED
    BY <1>4, <2>2, <2>4, <2>6, <2>7, BookedMoves
<1> USE DEF Succeeds, Refused, LeftAdrift, fundVars
<1>5. ASSUME \A p \in Orders \ {o} : order'[p] = order[p], cash'[f] = cash[f],
             liquid'[f] = liquid[f], Filled(o, f)' = Filled(o, f), Fills(o, f)' = Fills(o, f)
      PROVE  Booked(f)'
  <2>1. 0 - 0 = Filled(o, f) - Filled(o, f)' - Fee * (Fills(o, f)' - Fills(o, f))
    BY <1>0, <1>3, <1>5 DEF FundTermsTyped
  <2>2. ASSUME NEW z \in Int, z = 0 PROVE Booked(f)'
    <3>1. /\ z - z = Filled(o, f) - Filled(o, f)' - Fee * (Fills(o, f)' - Fills(o, f))
          /\ cash'[f] = cash[f] + z /\ liquid'[f] = liquid[f] + z
      BY <1>0, <1>5, <2>1, <2>2
    <3> QED
      BY <1>4, <1>5, <2>2, <3>1
  <2> QED
    BY <2>2
<1>6. ASSUME NEW qty \in 1..order[o].left, SettleFill(o, qty) PROVE Booked(f)'
  <2>0. qty \in Nat /\ -Cost(o, qty) \in Int /\ order[o].pc = "fill" /\ UNCHANGED liquid
    BY <1>0, <1>6 DEF OrderType, SettleFill
  <2>1. CASE Decline(o) /\ (UNCHANGED cash \/ (Change(Of[o], -Cost(o, qty)) /\ LeftAdrift(Of[o])))
    <3>1. /\ order'[o].pc = "over" /\ order'[o].fills = order[o].fills
          /\ \A p \in Orders \ {o} : order'[p] = order[p]
      BY <1>0, <2>1 DEF Decline, OrderType
    <3>2. cash'[f] = cash[f]
      BY <1>0, <2>0, <2>1 DEF Change, Shape, Accounts
    <3> QED
      BY <1>5, <2>0, <3>1, <3>2 DEF Filled, Fills
  <2>2. CASE /\ Change(Of[o], -Cost(o, qty))
             /\ order' = [order EXCEPT ![o] = [@ EXCEPT
                  !.pc = "holding", !.qty = qty, !.fills = order[o].fills + 1]]
    <3>1. /\ order'[o] = [order[o] EXCEPT !.pc = "holding", !.qty = qty,
                                          !.fills = order[o].fills + 1]
          /\ \A p \in Orders \ {o} : order'[p] = order[p]
      BY <1>0, <2>2
    <3>2. /\ order'[o].pc = "holding" /\ order'[o].qty = qty
          /\ order'[o].fills = order[o].fills + 1 /\ order'[o].direction = order[o].direction
      BY <1>0, <3>1 DEF OrderType
    <3> DEFINE b == IF order[o].direction = "BUY" THEN qty ELSE -qty
    <3>3. Bought(o)' = b
      BY <3>2 DEF Bought
    <3>4. -Cost(o, qty) = -(b * Price) - Fee
      <4>1. \A q, p \in Nat : q * p \in Int /\ (-q) * p = -(q * p)
        OBVIOUS
      <4>2. qty * Price \in Int /\ (-qty) * Price = -(qty * Price)
        BY <1>0, <2>0, <4>1
      <4>3. CASE order[o].direction = "BUY"
        BY <1>0, <4>2, <4>3 DEF Cost
      <4>4. CASE order[o].direction # "BUY"
        BY <1>0, <4>2, <4>4 DEF Cost
      <4> QED
        BY <4>3, <4>4
    <3>5. b \in Int /\ b * Price \in Int
      <4>1. \A k \in Int, p \in Nat : k * p \in Int
        OBVIOUS
      <4>2. b \in Int
        BY <2>0
      <4> HIDE DEF b
      <4> QED
        BY <1>0, <4>1, <4>2
    <3> HIDE DEF b
    <3> DEFINE a == IF f = Of[o] THEN -Cost(o, qty) ELSE 0
               y == b * Price
    <3>6. a \in Int /\ cash'[f] = cash[f] + a
      BY <1>0, <2>0, <2>2, CashChanges
    <3>7. liquid'[f] = liquid[f] + 0
      BY <1>0, <2>0
    <3>8. CASE f = Of[o]
      <4>1. /\ Filled(o, f) = 0 /\ Filled(o, f)' = y
            /\ Fills(o, f) = order[o].fills /\ Fills(o, f)' = order[o].fills + 1
        BY <2>0, <3>2, <3>3, <3>8 DEF Filled, Fills
      <4>2. a = -y - Fee /\ y \in Int
        BY <3>4, <3>5, <3>8
      <4>3. order[o].fills \in Int
        BY <1>0 DEF OrderType
      <4>4. Fills(o, f)' - Fills(o, f) = 1
        BY <4>1, <4>3
      <4>5. Fee * (Fills(o, f)' - Fills(o, f)) = Fee
        BY <1>0, <4>4
      <4> HIDE DEF a, y
      <4>6. a - 0 = Filled(o, f) - Filled(o, f)' - Fee * (Fills(o, f)' - Fills(o, f))
        BY <1>0, <4>1, <4>2, <4>5
      <4> QED
        BY <1>4, <3>1, <3>6, <3>7, <4>6
    <3>9. CASE f # Of[o]
      <4>1. /\ Filled(o, f) = 0 /\ Filled(o, f)' = 0 /\ Fills(o, f) = 0 /\ Fills(o, f)' = 0
            /\ cash'[f] = cash[f]
        BY <1>0, <3>6, <3>9 DEF Filled, Fills
      <4> QED
        BY <1>5, <2>0, <3>1, <4>1
    <3> QED
      BY <3>8, <3>9
  <2> QED
    BY <1>6, <2>1, <2>2 DEF SettleFill
<1>7. CASE UpdateFundHolding(o)
  <2>1. /\ order'[o].pc \in {"fill", "check", "over"} /\ order'[o].fills = order[o].fills
        /\ \A p \in Orders \ {o} : order'[p] = order[p] /\ order[o].pc = "holding"
    BY <1>0, <1>7 DEF UpdateFundHolding, EndFill, OrderType
  <2>2. UNCHANGED cash /\ order[o].pc = "holding"
    BY <1>7 DEF UpdateFundHolding
  <2>3. Filled(o, f)' = 0 /\ Fills(o, f)' = Fills(o, f)
    BY <2>1 DEF Filled, Fills
  <2>4. CASE f # Of[o]
    <3>1. liquid'[f] = liquid[f] /\ Filled(o, f) = 0
      BY <1>0, <1>7, <2>4 DEF UpdateFundHolding, Shape, Tables, Filled
    <3> QED
      BY <1>5, <2>1, <2>2, <2>3, <3>1
  <2>5. CASE f = Of[o]
    <3> DEFINE y == Bought(o) * Price
    <3>1. y \in Int
      BY <1>0
    <3>2. liquid'[f] = liquid[f] - y
      BY <1>0, <1>7, <2>5 DEF UpdateFundHolding, Shape, Tables
    <3>3. Filled(o, f) = y
      BY <2>2, <2>5 DEF Filled
    <3>4. Fills(o, f) \in Int
      BY <1>3 DEF FundTermsTyped
    <3> HIDE DEF y
    <3>5. liquid'[f] = liquid[f] + (-y) /\ cash'[f] = cash[f] + 0 /\ -y \in Int
      BY <1>0, <2>2, <3>1, <3>2
    <3>6. Fee * (Fills(o, f)' - Fills(o, f)) = 0
      BY <1>0, <2>3, <3>4
    <3>7. 0 - (-y) = Filled(o, f) - Filled(o, f)' - Fee * (Fills(o, f)' - Fills(o, f))
      BY <2>3, <3>1, <3>3, <3>6
    <3> QED
      BY <1>4, <2>1, <3>5, <3>7
  <2> QED
    BY <2>4, <2>5
<1> QED
  BY <1>6, <1>7 DEF Execute

LEMMA CheckBooked ==
  ASSUME Core, Core', OwnRows, NEW o \in Orders, CheckPendingWithdrawals(o),
         NEW f \in Funds, f \notin adrift', f \notin adrift, Booked(f)
  PROVE  Booked(f)'
<1>0. /\ Shape /\ f \in Holders /\ check[o] \in CheckType /\ check \in [Orders -> CheckType]
      /\ order \in [Orders -> OrderType] /\ pending \in [Withdrawals -> RowType]
      /\ payouts \in [Withdrawals -> Nat] /\ Of[o] \in Funds
      /\ cash[f] \in Int /\ liquid[f] \in Int /\ AllFills(f) \in Int /\ Parted(f) \in Int
      /\ Fee \in Nat
  BY Names, OrderFacts, FundNumbers DEF Core, Shape, Working, Rows, Ghosts, Parted
<1>1. UNCHANGED call
  BY DEF CheckPendingWithdrawals, ReadLiquid, FetchRows, CommitRow, UndoRow, EndCheck, PayRow
<1>2. \A p \in Orders : Filled(p, f)' = Filled(p, f) /\ Fills(p, f)' = Fills(p, f)
  <2>1. CASE EndCheck(o)
    <3>1. /\ order[o].pc = "check" /\ order'[o].pc = "over" /\ order'[o].fills = order[o].fills
          /\ \A p \in Orders \ {o} : order'[p] = order[p]
      BY <1>0, <2>1 DEF EndCheck, CheckAt, Decline, OrderType
    <3>2. Filled(o, f)' = Filled(o, f) /\ Fills(o, f)' = Fills(o, f)
      BY <3>1 DEF Filled, Fills
    <3>3. \A p \in Orders \ {o} : Filled(p, f)' = Filled(p, f) /\ Fills(p, f)' = Fills(p, f)
      BY <3>1 DEF Filled, Fills, Bought
    <3> QED
      BY <3>2, <3>3
  <2>2. CASE ~EndCheck(o)
    <3>1. UNCHANGED order
      BY <2>2 DEF CheckPendingWithdrawals, ReadLiquid, FetchRows, CommitRow, UndoRow, PayRow
    <3> QED
      BY <3>1, FundTermsKept, SMTT(30)
  <2> QED
    BY <2>1, <2>2
<1>3. /\ AllFilled(f)' = AllFilled(f) /\ AllFills(f)' = AllFills(f)
      /\ AllContributed(f)' = AllContributed(f) /\ AllTakenOut(f)' = AllTakenOut(f)
  BY <1>1, <1>2, PartsKept DEF Contributed, TakenOut
<1>4. FundTermsTyped /\ FundTermsTyped'
  BY FundTermsNow, FundTermsAfter
<1>5. ASSUME NEW w \in Withdrawals, \A p \in Orders \ {o} : check'[p] = check[p],
             \A v \in Withdrawals : pending'[v].amount = pending[v].amount,
             \A v \in Withdrawals \ {w} : payouts'[v] = payouts[v],
             cash'[f] = cash[f], NEW l \in Int, liquid'[f] = liquid[f] + l,
             -l = (PaidOut(w, f)' - PaidOut(w, f)) - (ToBook(o, f)' - ToBook(o, f))
      PROVE  Booked(f)'
  <2> DEFINE x == (PaidOut(w, f)' - PaidOut(w, f)) - (ToBook(o, f)' - ToBook(o, f))
  <2>1. /\ PaidOut(w, f)' \in Int /\ PaidOut(w, f) \in Int
        /\ ToBook(o, f)' \in Int /\ ToBook(o, f) \in Int
    BY <1>4 DEF FundTermsTyped
  <2>2. /\ AllPaidOut(f)' = AllPaidOut(f) - PaidOut(w, f) + PaidOut(w, f)'
        /\ AllToBook(f)' = AllToBook(f) - ToBook(o, f) + ToBook(o, f)'
    BY <1>5, RowParts
  <2>3. Parted(f)' = Parted(f) + x
    BY <1>3, <2>1, <2>2, FundNumbers DEF Parted
  <2>4. x \in Int /\ -l = x
    BY <1>5, <2>1
  <2> HIDE DEF x
  <2>5. ASSUME NEW z \in Int, z = 0 PROVE Booked(f)'
    <3>1. /\ cash'[f] = cash[f] + z /\ AllFills(f)' = AllFills(f) + z
          /\ z - l = x - Fee * z
      BY <1>0, <1>3, <1>5, <2>4, <2>5
    <3> QED
      BY <1>5, <2>3, <2>4, <2>5, <3>1, BookedMoves
  <2> QED
    BY <2>5
<1>6. ASSUME \A p \in Orders : ToBook(p, f)' = ToBook(p, f),
             \A w \in Withdrawals : PaidOut(w, f)' = PaidOut(w, f),
             cash'[f] = cash[f], liquid'[f] = liquid[f]
      PROVE  Booked(f)'
  <2>1. Parted(f)' = Parted(f)
    BY <1>3, <1>6, PartsKept DEF Parted
  <2>2. ASSUME NEW z \in Int, z = 0 PROVE Booked(f)'
    <3>1. /\ cash'[f] = cash[f] + z /\ AllFills(f)' = AllFills(f) + z
          /\ z - z = z - Fee * z /\ liquid'[f] = liquid[f] + z /\ Parted(f)' = Parted(f) + z
      BY <1>0, <1>3, <1>6, <2>1, <2>2
    <3> QED
      BY <2>2, <3>1, BookedMoves
  <2> QED
    BY <2>2
<1> USE DEF rowVars, ghosts, fundVars, Succeeds, Refused, LeftAdrift, CheckAt
<1>7. ASSUME ~InHand(o), ~InHand(o)', \A p \in Orders \ {o} : check'[p] = check[p],
             UNCHANGED <<pending, payouts, cash, liquid>>
      PROVE  Booked(f)'
  <2>1. ToBook(o, f)' = ToBook(o, f)
    BY <1>7 DEF ToBook
  <2>2. \A p \in Orders \ {o} : ToBook(p, f)' = ToBook(p, f)
    BY <1>7 DEF ToBook, InHand, Row
  <2>3. \A w \in Withdrawals : PaidOut(w, f)' = PaidOut(w, f)
    BY <1>7 DEF PaidOut
  <2> QED
    BY <1>6, <1>7, <2>1, <2>2, <2>3
<1>8. CASE ReadLiquid(o)
  <2>1. /\ check'[o].pc = "rows" /\ check[o].pc = "idle"
        /\ \A p \in Orders \ {o} : check'[p] = check[p]
    BY <1>0, <1>8 DEF ReadLiquid, CheckType
  <2> QED
    BY <1>7, <1>8, <2>1 DEF ReadLiquid, InHand
<1>9. CASE FetchRows(o)
  <2>1. /\ check'[o].pc = "pay" /\ check[o].pc = "rows"
        /\ \A p \in Orders \ {o} : check'[p] = check[p]
    BY <1>0, <1>9 DEF FetchRows, CheckType
  <2> QED
    BY <1>7, <1>9, <2>1 DEF FetchRows, InHand
<1>10. CASE EndCheck(o)
  <2>1. /\ check'[o].pc = "end" /\ check[o].pc = "pay"
        /\ \A p \in Orders \ {o} : check'[p] = check[p]
    BY <1>0, <1>10 DEF EndCheck, CheckType
  <2> QED
    BY <1>7, <1>10, <2>1 DEF EndCheck, InHand
<1>11. ASSUME NEW w \in Withdrawals, PayRow(o, w) PROVE Booked(f)'
  <2>0. /\ check[o].pc = "pay" /\ UNCHANGED <<liquid, pending>> /\ Of[w] = Of[o]
        /\ w \in check[o].rows
    BY <1>11 DEF PayRow, IsNext, OwnRows
  <2>1. CASE Skip(o, w) /\ UNCHANGED <<cash, payouts>>
    <3>1. check'[o].pc = "pay" /\ \A p \in Orders \ {o} : check'[p] = check[p]
      BY <1>0, <2>0, <2>1 DEF Skip, CheckType
    <3> QED
      BY <1>7, <2>0, <2>1, <3>1 DEF InHand
  <2>2. ASSUME NEW sum, Change(By[w], sum), payouts' = [payouts EXCEPT ![w] = @ + 1],
               check' = [check EXCEPT ![o] = [@ EXCEPT
                  !.pc = "commit", !.rows = check[o].rows \ {w}, !.row = w, !.sum = sum]]
        PROVE  Booked(f)'
    <3>1. cash'[f] = cash[f]
      <4>1. By[w] # f
        BY Names
      <4> QED
        BY <1>0, <2>2, <4>1 DEF Change, Shape, Accounts
    <3>2. /\ check'[o].pc = "commit" /\ check'[o].row = w
          /\ \A p \in Orders \ {o} : check'[p] = check[p]
      BY <1>0, <2>2 DEF CheckType
    <3>3. /\ payouts'[w] = payouts[w] + 1 /\ payouts[w] \in Nat /\ pending[w].amount \in Nat
          /\ \A v \in Withdrawals \ {w} : payouts'[v] = payouts[v]
      BY <1>0, <2>2 DEF RowType
    <3> DEFINE m == IF Of[w] = f THEN pending[w].amount ELSE 0
    <3>4. ToBook(o, f) = 0 /\ ToBook(o, f)' = m /\ m \in Int
      BY <2>0, <3>2, <3>3 DEF ToBook, InHand, Row
    <3>5. PaidOut(w, f)' - PaidOut(w, f) = m
      <4>1. \A x, y \in Nat : x * (y + 1) = x * y + x /\ x * y \in Int
        OBVIOUS
      <4>2. pending[w].amount * payouts'[w] = pending[w].amount * payouts[w] + pending[w].amount
            /\ pending[w].amount * payouts[w] \in Int
        BY <3>3, <4>1
      <4>3. CASE Of[w] = f
        BY <2>0, <3>3, <4>2, <4>3 DEF PaidOut
      <4>4. CASE Of[w] # f
        BY <4>4 DEF PaidOut
      <4> QED
        BY <4>3, <4>4
    <3> HIDE DEF m
    <3>6. liquid'[f] = liquid[f] + 0
      BY <1>0, <2>0
    <3>7. -0 = (PaidOut(w, f)' - PaidOut(w, f)) - (ToBook(o, f)' - ToBook(o, f))
      BY <3>4, <3>5
    <3> QED
      BY <1>5, <2>0, <3>1, <3>2, <3>3, <3>6, <3>7
  <2> QED
    BY <1>11, <2>1, <2>2 DEF PayRow
<1>12. CASE CommitRow(o)
  <2>a. Row(o) \in Withdrawals
    BY <1>0, <1>12 DEF CommitRow, InHand, Core, RowsRead, Row, OwnRows, RowType
  <2>b. PICK w \in Withdrawals : w = Row(o)
    BY <2>a
  <2> DEFINE m == pending[w].amount
  <2>0. /\ check[o].pc = "commit" /\ InHand(o) /\ w \in Withdrawals /\ check[o].row = w
        /\ Of[w] = Of[o] /\ m \in Nat /\ -m \in Int
    BY <1>0, <1>12, <2>b DEF CommitRow, InHand, Core, RowsRead, Row, OwnRows, RowType
  <2>1. UNCHANGED <<cash, payouts>>
    BY <1>12 DEF CommitRow
  <2>2. \/ /\ Move(Of[o], By[w], -m)
           /\ pending' = [pending EXCEPT ![w] = [@ EXCEPT !.status = "COMPLETED"]]
           /\ check' = [check EXCEPT ![o] = [@ EXCEPT !.pc = "pay", !.row = None, !.sum = 0,
                          !.liquid = check[o].liquid - m]]
        \/ /\ UNCHANGED <<liquid, pending>>
           /\ \/ check' = [check EXCEPT ![o] = [@ EXCEPT !.pc = "undo"]]
              \/ check' = [check EXCEPT ![o] = [@ EXCEPT !.pc = "undo", !.sum = m]]
    BY <1>12, <2>b DEF CommitRow
  <2>3. CASE /\ Move(Of[o], By[w], -m)
             /\ pending' = [pending EXCEPT ![w] = [@ EXCEPT !.status = "COMPLETED"]]
             /\ check' = [check EXCEPT ![o] = [@ EXCEPT !.pc = "pay", !.row = None, !.sum = 0,
                            !.liquid = check[o].liquid - m]]
    <3>1. /\ check'[o].pc = "pay" /\ \A p \in Orders \ {o} : check'[p] = check[p]
          /\ \A v \in Withdrawals : pending'[v].amount = pending[v].amount
      BY <1>0, <2>0, <2>3 DEF CheckType, RowType
    <3> DEFINE l == IF f = Of[o] THEN -m ELSE 0
    <3>2. l \in Int /\ liquid'[f] = liquid[f] + l
      BY <1>0, <2>0, <2>3, LiquidChanges
    <3>3. ToBook(o, f)' = 0 /\ ToBook(o, f) = -l
      BY <2>0, <3>1 DEF ToBook, InHand, Row
    <3>4. /\ \A v \in Withdrawals \ {w} : payouts'[v] = payouts[v]
          /\ payouts'[w] = payouts[w] /\ cash'[f] = cash[f]
      BY <2>1
    <3>5. PaidOut(w, f)' = PaidOut(w, f)
      BY <2>0, <3>1, <3>4 DEF PaidOut
    <3>6. PaidOut(w, f) \in Int
      BY <1>4, <2>0 DEF FundTermsTyped
    <3> HIDE DEF l, m
    <3>7. -l = (PaidOut(w, f)' - PaidOut(w, f)) - (ToBook(o, f)' - ToBook(o, f))
      BY <3>2, <3>3, <3>5, <3>6
    <3> QED
      BY <1>5, <2>0, <3>1, <3>2, <3>4, <3>7
  <2>4. CASE /\ UNCHANGED <<liquid, pending>>
             /\ \/ check' = [check EXCEPT ![o] = [@ EXCEPT !.pc = "undo"]]
                \/ check' = [check EXCEPT ![o] = [@ EXCEPT !.pc = "undo", !.sum = m]]
    <3>1. /\ check'[o].pc = "undo" /\ check'[o].row = check[o].row
          /\ \A p \in Orders \ {o} : check'[p] = check[p]
      BY <1>0, <2>4, ZenonT(60) DEF CheckType
    <3>2. ToBook(o, f)' = ToBook(o, f)
      BY <2>0, <2>4, <3>1 DEF ToBook, InHand, Row
    <3>3. \A p \in Orders \ {o} : ToBook(p, f)' = ToBook(p, f)
      BY <2>4, <3>1 DEF ToBook, InHand, Row
    <3>4. \A v \in Withdrawals : PaidOut(v, f)' = PaidOut(v, f)
      BY <2>1, <2>4 DEF PaidOut
    <3> QED
      BY <1>6, <2>1, <2>4, <3>2, <3>3, <3>4
  <2> QED
    BY <2>2, <2>3, <2>4
<1>13. CASE UndoRow(o)
  <2>a. Row(o) \in Withdrawals
    BY <1>0, <1>13 DEF UndoRow, InHand, Core, RowsRead, Row, OwnRows, RowType
  <2>b. PICK w \in Withdrawals : w = Row(o)
    BY <2>a
  <2>c. PICK m \in Int : m = IF Of[o] = f THEN pending[w].amount ELSE 0
    BY <1>0 DEF RowType
  <2>0. /\ check[o].pc = "undo" /\ InHand(o) /\ w \in Withdrawals /\ UNCHANGED <<liquid, pending>>
        /\ Of[w] = Of[o] /\ pending[w].amount \in Nat
    BY <1>0, <1>13, <2>b DEF UndoRow, InHand, Core, RowsRead, Row, OwnRows, RowType
  <2>1. check'[o].pc = "pay" /\ \A p \in Orders \ {o} : check'[p] = check[p]
    BY <1>0, <1>13 DEF UndoRow, NextRow, CheckType
  <2>2. ToBook(o, f) = m /\ ToBook(o, f)' = 0
    BY <2>0, <2>1, <2>b, <2>c DEF ToBook, InHand
  <2>3. cash'[f] = cash[f]
    <3>1. By[w] # f
      BY <2>0, Names
    <3> QED
      BY <1>0, <1>13, <2>b, <3>1 DEF UndoRow, Change, Shape, Accounts
  <2>4. \/ payouts' = [payouts EXCEPT ![w] = @ - 1]
        \/ UNCHANGED payouts /\ Of[o] # f
    BY <1>13, <2>b DEF UndoRow
  <2>5. \A v \in Withdrawals \ {w} : payouts'[v] = payouts[v]
    BY <1>0, <2>4
  <2>6. PaidOut(w, f)' = PaidOut(w, f) - m
    <3>1. CASE Of[o] # f
      <4>1. PaidOut(w, f) = 0 /\ PaidOut(w, f)' = 0 /\ m = 0
        BY <2>0, <2>c, <3>1 DEF PaidOut
      <4> QED
        BY <4>1
    <3>2. CASE Of[o] = f
      <4>1. payouts'[w] = payouts[w] - 1 /\ payouts[w] \in Nat
        BY <1>0, <2>0, <2>4, <3>2
      <4>2. \A x, y \in Nat : x * (y - 1) = x * y - x
        OBVIOUS
      <4>3. pending[w].amount * (payouts[w] - 1) = pending[w].amount * payouts[w] - pending[w].amount
        BY <2>0, <4>1, <4>2
      <4> QED
        BY <2>0, <2>c, <3>2, <4>1, <4>3 DEF PaidOut
    <3> QED
      BY <3>1, <3>2
  <2>7. PaidOut(w, f) \in Int
    BY <1>4, <2>0 DEF FundTermsTyped
  <2>8. liquid'[f] = liquid[f] + 0
    BY <1>0, <2>0
  <2>9. -0 = (PaidOut(w, f)' - PaidOut(w, f)) - (ToBook(o, f)' - ToBook(o, f))
    BY <2>0, <2>2, <2>6, <2>7
  <2> QED
    BY <1>5, <2>0, <2>1, <2>3, <2>5, <2>8, <2>9
<1> QED
  BY <1>8, <1>9, <1>10, <1>11, <1>12, <1>13 DEF CheckPendingWithdrawals

(* Nothing that separates the books of f moves. *)
LEMMA BookedKept ==
  ASSUME Core, Core', NEW f \in Funds, Booked(f),
         cash'[f] = cash[f], liquid'[f] = liquid[f],
         \A c \in Calls : Contributed(c, f)' = Contributed(c, f) /\ TakenOut(c, f)' = TakenOut(c, f),
         \A o \in Orders : /\ Filled(o, f)' = Filled(o, f) /\ Fills(o, f)' = Fills(o, f)
                           /\ ToBook(o, f)' = ToBook(o, f),
         UNCHANGED <<pending, payouts>>
  PROVE  Booked(f)'
<1>0. Shape /\ f \in Holders /\ Fee \in Nat /\ AllFills(f) \in Int /\ Parted(f) \in Int
      /\ cash[f] \in Int /\ liquid[f] \in Int
  BY Names, FundNumbers, AmountsAssumption DEF Core, Parted
<1>1. \A w \in Withdrawals : PaidOut(w, f)' = PaidOut(w, f)
  BY FundTermsKept
<1>2. Investments \subseteq Calls /\ Withdrawals \subseteq Calls
  BY DEF Calls
<1>3. Parted(f)' = Parted(f) /\ AllFills(f)' = AllFills(f)
  BY <1>1, <1>2, PartsKept DEF Parted
<1>4. ASSUME NEW z \in Int, z = 0 PROVE Booked(f)'
  <2>1. /\ cash'[f] = cash[f] + z /\ AllFills(f)' = AllFills(f) + z
        /\ z - z = z - Fee * z /\ liquid'[f] = liquid[f] + z /\ Parted(f)' = Parted(f) + z
    BY <1>0, <1>3, <1>4
  <2> QED
    BY <1>4, <2>1, BookedMoves
<1> QED
  BY <1>4

LEMMA CrashBooked ==
  ASSUME Core, Core', Crash, NEW f \in Funds, f \notin adrift', Booked(f)
  PROVE  Booked(f)'
<1>0. /\ call \in [Calls -> CallType] /\ check \in [Orders -> CheckType]
      /\ order \in [Orders -> OrderType] /\ f \in Holders
  BY Names DEF Core, Shape, Working
<1>1. UNCHANGED <<cash, liquid, pending, payouts>>
  BY DEF Crash, fundVars, rowVars, ghosts
<1>2. ASSUME NEW c \in Calls
      PROVE  Contributed(c, f)' = Contributed(c, f) /\ TakenOut(c, f)' = TakenOut(c, f)
  <2>1. call'[c].pc \in {"idle", "end"}
    BY <1>0 DEF Crash, At, CallType
  <2>2. Of[c] = f => call[c].pc \notin Written
    BY <1>0 DEF Crash
  <2>3. Contributed(c, f) = 0 /\ TakenOut(c, f) = 0
    BY <2>2 DEF Contributed, TakenOut, Written
  <2>4. Contributed(c, f)' = 0 /\ TakenOut(c, f)' = 0
    BY <2>1 DEF Contributed, TakenOut
  <2> QED
    BY <2>3, <2>4
<1>3. ASSUME NEW o \in Orders
      PROVE  Filled(o, f)' = Filled(o, f) /\ Fills(o, f)' = Fills(o, f)
  <2>1. CASE order[o].pc = "check" /\ check[o].pc # "idle"
    <3>1. order'[o] = [order[o] EXCEPT !.pc = "over"]
      BY <2>1 DEF Crash
    <3>2. order'[o].pc = "over" /\ order'[o].fills = order[o].fills
      BY <1>0, <3>1 DEF OrderType
    <3> QED
      BY <2>1, <3>2 DEF Filled, Fills
  <2>2. CASE ~(order[o].pc = "check" /\ check[o].pc # "idle")
    <3>1. order'[o] = order[o]
      BY <2>2 DEF Crash
    <3> QED
      BY <3>1 DEF Filled, Fills, Bought
  <2> QED
    BY <2>1, <2>2
<1>4. ASSUME NEW o \in Orders PROVE ToBook(o, f)' = ToBook(o, f)
  <2>1. check'[o].pc \in {"idle", "end"}
    <3>1. check'[o] = IF check[o].pc = "idle" THEN check[o] ELSE [check[o] EXCEPT !.pc = "end"]
      BY DEF Crash
    <3> QED
      BY <1>0, <3>1 DEF CheckType
  <2>2. ToBook(o, f)' = 0
    BY <2>1 DEF ToBook, InHand
  <2>3. ToBook(o, f) = 0
    <3>1. ~(InHand(o) /\ f \in {By[Row(o)], Of[o]})
      BY <1>0 DEF Crash
    <3> QED
      BY <3>1 DEF ToBook
  <2> QED
    BY <2>2, <2>3
<1> QED
  BY <1>1, <1>2, <1>3, <1>4, BookedKept

LEMMA OtherBooked ==
  ASSUME Core, Core', NEW f \in Funds, Booked(f),
         \/ \E c \in Calls : Disconnect(c)
         \/ \E g \in Funds : CountPositions(g) \/ DeactivateFund(g)
         \/ UNCHANGED vars
         \/ \E o \in Trades, direction \in {"BUY", "SELL"}, quantity \in Quantities :
              PlaceTrade(o, direction, quantity)
  PROVE  Booked(f)'
<1>0. Shape
  BY DEF Core
<1>1. UNCHANGED <<cash, liquid, pending, payouts, check>>
  BY DEF Disconnect, CountPositions, DeactivateFund, PlaceTrade, vars, fundVars, rowVars, ghosts
<1>2. ASSUME NEW c \in Calls
      PROVE  Contributed(c, f)' = Contributed(c, f) /\ TakenOut(c, f)' = TakenOut(c, f)
  <2>1. CASE UNCHANGED call
    BY <2>1 DEF Contributed, TakenOut
  <2>2. ASSUME NEW d \in Calls, Disconnect(d)
        PROVE  Contributed(c, f)' = Contributed(c, f) /\ TakenOut(c, f)' = TakenOut(c, f)
    <3>1. /\ call'[d] = [call[d] EXCEPT !.here = FALSE] /\ call[d] \in CallType
          /\ \A e \in Calls \ {d} : call'[e] = call[e]
      BY <1>0, <2>2 DEF Disconnect, Shape, Working
    <3>2. call'[c].pc = call[c].pc /\ call'[c].amount = call[c].amount
      BY <3>1 DEF CallType
    <3> QED
      BY <3>2 DEF Contributed, TakenOut
  <2> QED
    BY <2>1, <2>2 DEF CountPositions, DeactivateFund, PlaceTrade, vars
<1>3. \A o \in Orders : Filled(o, f)' = Filled(o, f) /\ Fills(o, f)' = Fills(o, f)
  <2>1. CASE UNCHANGED order
    BY <2>1, FundTermsKept
  <2>2. ASSUME NEW o \in Trades, NEW direction, NEW quantity, PlaceTrade(o, direction, quantity)
        PROVE  \A p \in Orders : Filled(p, f)' = Filled(p, f) /\ Fills(p, f)' = Fills(p, f)
    BY <2>2, PlacedBooked DEF PlaceTrade, Orders
  <2> QED
    BY <2>1, <2>2 DEF CountPositions, DeactivateFund, Disconnect, vars
<1>4. \A o \in Orders : ToBook(o, f)' = ToBook(o, f)
  BY <1>1, FundTermsKept
<1> QED
  BY <1>1, <1>2, <1>3, <1>4, BookedKept

(* Unless something was left undone on its account, what is in the account *)
(* of a fund and its liquid_assets differ by the commissions of its fills, *)
(* by the withdrawals that were paid after a sale without being taken from *)
(* the account, and by what is under way: nothing else separates them, for *)
(* any number of investments, withdrawals, sales and overlapping checks.   *)
THEOREM FundBooksHold == Spec => []FundBooks
<1>1. Init => FundBooks
  <2> SUFFICES ASSUME Init, NEW f \in Funds PROVE Booked(f)
    BY BookedIs
  <2>1. Core
    BY InitCore
  <2>2. \A c \in Calls : Contributed(c, f) = 0 /\ TakenOut(c, f) = 0
    BY DEF Init, IdleCall, Contributed, TakenOut
  <2>3. \A o \in Orders : Filled(o, f) = 0 /\ Fills(o, f) = 0 /\ ToBook(o, f) = 0
    BY DEF Init, NoOrder, NoCheck, Filled, Fills, ToBook, InHand
  <2>4. \A w \in Withdrawals : PaidOut(w, f) = 0
    BY DEF Init, PaidOut
  <2> DEFINE a == [c \in Investments |-> Contributed(c, f)]
             b == [c \in Withdrawals |-> TakenOut(c, f)]
             d == [o \in Orders |-> Filled(o, f)]
             e == [o \in Orders |-> Fills(o, f)]
             g == [w \in Withdrawals |-> PaidOut(w, f)]
             h == [o \in Orders |-> ToBook(o, f)]
  <2>5. /\ \A c \in Investments : a[c] = 0
        /\ \A c \in Withdrawals : b[c] = 0 /\ g[c] = 0
        /\ \A o \in Orders : d[o] = 0 /\ e[o] = 0 /\ h[o] = 0
    BY <2>2, <2>3, <2>4, Names
  <2>6. /\ AllContributed(f) = SumFunctionOnSet(a, Investments)
        /\ AllTakenOut(f) = SumFunctionOnSet(b, Withdrawals)
        /\ AllFilled(f) = SumFunctionOnSet(d, Orders)
        /\ AllFills(f) = SumFunctionOnSet(e, Orders)
        /\ AllPaidOut(f) = SumFunctionOnSet(g, Withdrawals)
        /\ AllToBook(f) = SumFunctionOnSet(h, Orders)
    BY DEF AllContributed, AllTakenOut, AllFilled, AllFills, AllPaidOut, AllToBook
  <2> HIDE DEF a, b, d, e, g, h
  <2>7. AllContributed(f) = 0 /\ AllTakenOut(f) = 0 /\ AllPaidOut(f) = 0
    BY <2>5, <2>6, SumZero, FiniteAssumption
  <2>8. AllFilled(f) = 0 /\ AllFills(f) = 0 /\ AllToBook(f) = 0
    BY <2>5, <2>6, SumZero, FiniteOrders
  <2>9. cash[f] = InitCash[f] /\ liquid[f] = InitLiquid[f]
    BY DEF Init
  <2>10. cash[f] \in Int /\ liquid[f] \in Int /\ Fee * AllFills(f) = 0
    <3>1. \A x \in Nat : x * 0 = 0
      OBVIOUS
    <3> QED
      BY <2>1, <2>8, <3>1, FundNumbers
  <2> HIDE DEF Init
  <2> QED
    BY <2>7, <2>8, <2>9, <2>10 DEF Booked
<1>2. Core /\ Core' /\ Steady /\ FundBooks /\ [Next]_vars => FundBooks'
  <2> SUFFICES ASSUME Core, Core', Steady, FundBooks, [Next]_vars,
                      NEW f \in Funds, f \notin adrift'
               PROVE  Booked(f)'
    BY DEF FundBooks, Booked, NotBooked, SumOver, AllContributed, AllTakenOut, AllFilled,
           AllFills, AllPaidOut, AllToBook
  <2>1. f \notin adrift
    BY NeverMended
  <2>2. Booked(f) /\ OwnRows
    BY <2>1, BookedIs DEF Steady
  <2> QED
    BY <2>1, <2>2, InvestBooked, WithdrawBooked, ExecuteBooked, CheckBooked, CrashBooked, OtherBooked
       DEF Next
<1> QED
  BY InitCore, CoreStep, InitSteady, SteadyStep, <1>1, <1>2, PTL DEF Spec
=============================================================================
