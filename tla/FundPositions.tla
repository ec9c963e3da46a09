---------------------------- MODULE FundPositions ----------------------------
(***************************************************************************)
(* fund-service (handlers/grpc_server.go): investments, withdrawals, the   *)
(* liquidation that a large withdrawal starts, and the payment of pending  *)
(* withdrawals, which order-service calls when a sale of the fund is done  *)
(* (execution/scheduler.go).  fund_db and account_db are two databases:    *)
(* every statement on accounts commits on its own, liquid_assets and       *)
(* positions change together in one short transaction, and no row is       *)
(* locked between a check and what relies on it.                           *)
(***************************************************************************)
EXTENDS Integers, FiniteSets, Functions

CONSTANTS
  Funds,          \* rows of investment_funds, and their accounts
  Investors,      \* (client_id, client_type), and the account each one uses
  Clients,        \* those of type CLIENT; the others are the bank
  Investments,    \* calls of InvestFund
  Withdrawals,    \* calls of WithdrawFund, ids of the rows they leave
  Trades,         \* orders of the manager on behalf of a fund
  By,             \* [calls -> Investors]
  Of,             \* [calls and trades -> Funds]
  Amounts,        \* what is asked for; 0 withdraws all
  Quantities,     \* of the manager's orders
  Minimum,        \* minimum_contribution
  Rate,           \* [Investors -> Nat]: what a dinar is in the account's currency
  Price, Fee,     \* of one share; of a fill
  InitCash, InitPosition, InitLiquid, InitShares,
  Faults,         \* labels of the statements that may fail
  MaxFaults,      \* bound on how many do
  MaxStarted      \* bound on how many calls and trades are made

Calls == Investments \cup Withdrawals
Orders == Withdrawals \cup Trades
Holders == Investors \cup Funds

ASSUME NamesAssumption ==
  /\ Clients \subseteq Investors /\ Funds \cap Investors = {}
  /\ Investments \cap Withdrawals = {} /\ Trades \cap Calls = {}
  /\ By \in [Calls -> Investors] /\ Of \in [Calls \cup Trades -> Funds]
ASSUME FiniteAssumption ==
  /\ IsFiniteSet(Funds) /\ IsFiniteSet(Investments) /\ IsFiniteSet(Withdrawals)
  /\ IsFiniteSet(Trades)
ASSUME AmountsAssumption ==
  /\ Amounts \subseteq Nat /\ Quantities \subseteq Nat \ {0}
  /\ Minimum \in Nat /\ Price \in Nat /\ Fee \in Nat /\ MaxFaults \in Nat /\ MaxStarted \in Nat
  /\ Rate \in [Investors -> Nat \ {0}]
  /\ InitCash \in [Holders -> Nat] /\ InitPosition \in [Funds -> [Investors -> Nat]]
  /\ InitLiquid \in [Funds -> Nat] /\ InitShares \in [Funds -> Nat]

VARIABLES
  active,     \* investment_funds.active
  liquid,     \* investment_funds.liquid_assets
  position,   \* client_fund_positions.total_invested_amount
  shares,     \* fund_portfolio_positions.quantity, of one listing
  pending,    \* client_fund_transactions of withdrawals that had to wait
  arrived,    \* and their timestamps
  cash,       \* accounts.available_balance (balance moves with it)
  call,       \* InvestFund, WithdrawFund: label, amount, what it is in the
              \* account's currency, the liquid_assets it read, whether the
              \* caller still waits
  order,      \* orders of funds: label, direction, remaining, the fill that
              \* is being settled, how many there were
  check,      \* CheckPendingWithdrawals: label, liquid_assets, rows to come,
              \* the one that is paid, and what was paid
  deleting,   \* funds whose DeleteFund has counted no positions
  payouts,    \* how often a pending withdrawal was paid
  overlapped, \* two checks of a fund ran at the same time
  adrift,     \* holders whose account was left with an error: something was
              \* not undone, not in full, or not converted
  faults      \* how much has failed

fundVars == <<active, liquid, position, shares>>
rowVars == <<pending, arrived>>
ghosts == <<payouts, overlapped>>
vars == <<fundVars, rowVars, cash, call, order, check, deleting, ghosts, adrift, faults>>

None == "none"
CallLabels ==
  {"idle", "balance", "debit", "creditFund", "invest", "refund",
   "position", "debitFund", "pay", "withdraw", "takeBack", "takeBackBoth",
   "refundFund", "liquidate", "await", "end"}
OrderLabels == {"none", "fill", "holding", "check", "over"}
CheckLabels == {"idle", "liquid", "rows", "pay", "commit", "undo", "end"}

IdleCall == [pc |-> "idle", amount |-> 0, sum |-> 0, liquid |-> 0, here |-> TRUE]
NoOrder == [pc |-> "none", direction |-> "SELL", left |-> 0, qty |-> 0, fills |-> 0]
NoCheck == [pc |-> "idle", liquid |-> 0, rows |-> {}, row |-> None, sum |-> 0]

TypeOK ==
  /\ active \in [Funds -> BOOLEAN] /\ liquid \in [Funds -> Int]
  /\ position \in [Funds -> [Investors -> Int]] /\ shares \in [Funds -> Nat]
  /\ pending \in [Withdrawals -> [status : {None, "PENDING", "COMPLETED"}, amount : Nat]]
  /\ arrived \in [Withdrawals -> Nat]
  /\ cash \in [Holders -> Int]
  /\ call \in [Calls -> [pc : CallLabels, amount : Nat, sum : Nat, liquid : Int,
                         here : BOOLEAN]]
  /\ order \in [Orders -> [pc : OrderLabels, direction : {"BUY", "SELL"},
                           left : Nat, qty : Nat, fills : Nat]]
  /\ check \in [Orders -> [pc : CheckLabels, liquid : Int, rows : SUBSET Withdrawals,
                           row : Withdrawals \cup {None}, sum : Nat]]
  /\ deleting \subseteq Funds /\ payouts \in [Withdrawals -> Nat]
  /\ overlapped \in BOOLEAN
  /\ adrift \subseteq Holders /\ faults \in Nat

Init ==
  /\ active = [f \in Funds |-> TRUE] /\ liquid = InitLiquid
  /\ position = InitPosition /\ shares = InitShares
  /\ pending = [w \in Withdrawals |-> [status |-> None, amount |-> 0]]
  /\ arrived = [w \in Withdrawals |-> 0]
  /\ cash = InitCash
  /\ call = [c \in Calls |-> IdleCall]
  /\ order = [o \in Orders |-> NoOrder]
  /\ check = [o \in Orders |-> NoCheck]
  /\ deleting = {} /\ payouts = [w \in Withdrawals |-> 0]
  /\ overlapped = FALSE /\ adrift = {} /\ faults = 0

Started == {c \in Calls : call[c].pc # "idle"} \cup {o \in Trades : order[o].pc # "none"}
MayStart == Cardinality(Started) < MaxStarted

Succeeds == UNCHANGED faults
Refused(label) ==
  /\ label \in Faults /\ faults < MaxFaults
  /\ faults' = faults + 1

At(c, label) == call[c].pc = label
GoTo(c, label) == call' = [call EXCEPT ![c] = [@ EXCEPT !.pc = label]]
Change(holder, amount) == cash' = [cash EXCEPT ![holder] = @ + amount]

(* Every statement, and every compensation, is under the context of the    *)
(* request: none works once the caller is gone.                            *)
Runs(c) == call[c].here /\ Succeeds
Fails(c, label) ==
  \/ Refused(label)
  \/ ~call[c].here /\ Succeeds

LeftAdrift(holder) == adrift' = adrift \cup {holder}

(* convertViaExchange from dinars; without an answer of exchange-service   *)
(* the amount is taken as it is.                                           *)
Converted(i, amount, sum) ==
  \/ sum = amount * Rate[i] /\ Succeeds /\ UNCHANGED adrift
  \/ Rate[i] # 1 /\ sum = amount /\ Refused("exchange") /\ LeftAdrift(i)
-----------------------------------------------------------------------------
(* InvestFund *)

(* Reads the fund, and the balance of the account.  What comes before the  *)
(* first write has no effect when it fails.                                *)
StartInvestment(c, amount) ==
  /\ At(c, "idle") /\ MayStart
  /\ call' = [call EXCEPT ![c] = [@ EXCEPT
       !.pc = IF active[Of[c]] /\ amount >= Minimum THEN "balance" ELSE "end",
       !.amount = amount]]
  /\ UNCHANGED <<fundVars, rowVars, cash, order, check, deleting, ghosts, adrift, faults>>

CheckBalance(c) ==
  /\ At(c, "balance")
  /\ \E sum \in {call[c].amount * Rate[By[c]], call[c].amount} :
       /\ Converted(By[c], call[c].amount, sum)
       /\ call' = [call EXCEPT ![c] = [@ EXCEPT
            !.pc = IF cash[By[c]] < sum THEN "end" ELSE "debit", !.sum = sum]]
  /\ UNCHANGED <<fundVars, rowVars, cash, order, check, deleting, ghosts>>

(* The UPDATE does not test the balance again. *)
DebitInvestor(c) ==
  /\ At(c, "debit")
  /\ \/ Runs(c) /\ Change(By[c], -call[c].sum) /\ GoTo(c, "creditFund")
     \/ Fails(c, "debit") /\ GoTo(c, "end") /\ UNCHANGED cash
  /\ UNCHANGED <<fundVars, rowVars, order, check, deleting, ghosts, adrift>>

CreditFund(c) ==
  /\ At(c, "creditFund")
  /\ \/ Runs(c) /\ Change(Of[c], call[c].amount) /\ GoTo(c, "invest")
     \/ Fails(c, "creditFund") /\ GoTo(c, "refund") /\ UNCHANGED cash
  /\ UNCHANGED <<fundVars, rowVars, order, check, deleting, ghosts, adrift>>

Move(f, i, amount) ==
  /\ liquid' = [liquid EXCEPT ![f] = @ + amount]
  /\ position' = [position EXCEPT ![f] = [@ EXCEPT ![i] = position[f][i] + amount]]

(* liquid_assets, position and transaction row.  When they cannot be       *)
(* written the investor is refunded; the account of the fund keeps what it *)
(* was given.                                                              *)
CommitInvestment(c) ==
  /\ At(c, "invest")
  /\ \/ /\ Runs(c)
        /\ Move(Of[c], By[c], call[c].amount)
        /\ GoTo(c, "end") /\ UNCHANGED adrift
     \/ /\ Fails(c, "invest")
        /\ GoTo(c, "refund") /\ LeftAdrift(Of[c])
        /\ UNCHANGED <<liquid, position>>
  /\ UNCHANGED <<active, shares, rowVars, cash, order, check, deleting, ghosts>>

(* A compensation: one attempt, whose error is dropped. *)
Compensate(c, holder, amount) ==
  \/ Runs(c) /\ Change(holder, amount) /\ UNCHANGED adrift
  \/ Fails(c, "compensate") /\ LeftAdrift(holder) /\ UNCHANGED cash

RefundDinars(c) ==
  /\ At(c, "refund")
  /\ Compensate(c, By[c], call[c].amount)
  /\ GoTo(c, "end")
  /\ UNCHANGED <<fundVars, rowVars, order, check, deleting, ghosts>>

Refund(c) ==
  /\ At(c, "refund")
  /\ Compensate(c, By[c], call[c].sum)
  /\ GoTo(c, "end")
  /\ UNCHANGED <<fundVars, rowVars, order, check, deleting, ghosts>>
-----------------------------------------------------------------------------
(* WithdrawFund *)

StartWithdrawal(c, amount) ==
  /\ At(c, "idle") /\ MayStart
  /\ call' = [call EXCEPT ![c] = [@ EXCEPT
       !.pc = IF active[Of[c]] THEN "position" ELSE "end",
       !.amount = amount, !.liquid = liquid[Of[c]]]]
  /\ UNCHANGED <<fundVars, rowVars, cash, order, check, deleting, ghosts, adrift, faults>>

Asked(c) == IF call[c].amount = 0 THEN position[Of[c]][By[c]] ELSE call[c].amount

(* The position is compared with what is withdrawn, the liquid_assets read *)
(* before decide how it is paid; only clients may wait for a sale.         *)
CheckPosition(c) ==
  /\ At(c, "position")
  /\ \/ /\ Asked(c) <= 0 \/ Asked(c) > position[Of[c]][By[c]]
        /\ GoTo(c, "end") /\ Succeeds /\ UNCHANGED adrift
     \/ /\ 0 < Asked(c) /\ Asked(c) <= position[Of[c]][By[c]]
        /\ Asked(c) > call[c].liquid
        /\ call' = [call EXCEPT ![c] = [@ EXCEPT
             !.pc = IF By[c] \in Clients THEN "liquidate" ELSE "end",
             !.amount = Asked(c)]]
        /\ Succeeds /\ UNCHANGED adrift
     \/ /\ 0 < Asked(c) /\ Asked(c) <= position[Of[c]][By[c]]
        /\ Asked(c) <= call[c].liquid
        /\ \E sum \in {Asked(c) * Rate[By[c]], Asked(c)} :
             /\ Converted(By[c], Asked(c), sum)
             /\ call' = [call EXCEPT ![c] = [@ EXCEPT
                  !.pc = "debitFund", !.amount = Asked(c), !.sum = sum]]
  /\ UNCHANGED <<fundVars, rowVars, cash, order, check, deleting, ghosts>>

DebitFund(c) ==
  /\ At(c, "debitFund")
  /\ \/ Runs(c) /\ Change(Of[c], -call[c].amount) /\ GoTo(c, "pay")
     \/ Fails(c, "debitFund") /\ GoTo(c, "end") /\ UNCHANGED cash
  /\ UNCHANGED <<fundVars, rowVars, order, check, deleting, ghosts, adrift>>

PayInvestor(c) ==
  /\ At(c, "pay")
  /\ \/ Runs(c) /\ Change(By[c], call[c].sum) /\ GoTo(c, "withdraw")
     \/ Fails(c, "pay") /\ GoTo(c, "refundFund") /\ UNCHANGED cash
  /\ UNCHANGED <<fundVars, rowVars, order, check, deleting, ghosts, adrift>>

(* A transaction that cannot begin takes the payment back and refunds the  *)
(* fund; one that fails later only takes the payment back.                 *)
CommitWithdrawal(c) ==
  /\ At(c, "withdraw")
  /\ \/ /\ Runs(c)
        /\ Move(Of[c], By[c], -call[c].amount)
        /\ GoTo(c, "end") /\ UNCHANGED adrift
     \/ /\ Fails(c, "begin")
        /\ GoTo(c, "takeBackBoth") /\ UNCHANGED <<liquid, position, adrift>>
     \/ /\ Fails(c, "withdraw")
        /\ GoTo(c, "takeBack") /\ LeftAdrift(Of[c])
        /\ UNCHANGED <<liquid, position>>
  /\ UNCHANGED <<active, shares, rowVars, cash, order, check, deleting, ghosts>>

TakeBack(c) ==
  /\ Compensate(c, By[c], -call[c].sum)
  /\ \/ At(c, "takeBack") /\ GoTo(c, "end")
     \/ At(c, "takeBackBoth") /\ GoTo(c, "refundFund")
  /\ UNCHANGED <<fundVars, rowVars, order, check, deleting, ghosts>>

RefundFundConverted(c) ==
  /\ At(c, "refundFund")
  /\ Compensate(c, Of[c], call[c].sum)
  /\ GoTo(c, "end")
  /\ UNCHANGED <<fundVars, rowVars, order, check, deleting, ghosts>>

RefundFund(c) ==
  /\ At(c, "refundFund")
  /\ Compensate(c, Of[c], call[c].amount)
  /\ GoTo(c, "end")
  /\ UNCHANGED <<fundVars, rowVars, order, check, deleting, ghosts>>
-----------------------------------------------------------------------------
(* autoLiquidate, and the orders of the fund in order-service, which fills *)
(* them in portions from the account of the fund (OrderExecution has the   *)
(* details).                                                               *)

NewOrder(o, direction, quantity) ==
  order' = [order EXCEPT ![o] =
    [pc |-> "fill", direction |-> direction, left |-> quantity, qty |-> 0, fills |-> 0]]

(* The whole position is sold.  order-service may refuse: it compares the  *)
(* quantity with what the bank's employees hold; the error is dropped.     *)
SellShares(c) ==
  /\ At(c, "liquidate")
  /\ \/ shares[Of[c]] > 0 /\ call[c].here /\ NewOrder(c, "SELL", shares[Of[c]])
     \/ UNCHANGED order
  /\ GoTo(c, "await")
  /\ UNCHANGED <<fundVars, rowVars, cash, check, deleting, ghosts, adrift, faults>>

(* The row that waits for the sale is inserted after the order. *)
InsertPending(c) ==
  /\ At(c, "await")
  /\ \/ /\ Runs(c)
        /\ pending' = [pending EXCEPT ![c] =
             [status |-> "PENDING", amount |-> call[c].amount]]
        /\ arrived' = [arrived EXCEPT ![c] =
             Cardinality({w \in Withdrawals : pending[w].status # None}) + 1]
     \/ Fails(c, "pending") /\ UNCHANGED rowVars
  /\ GoTo(c, "end")
  /\ UNCHANGED <<fundVars, cash, order, check, deleting, ghosts, adrift>>

(* The manager trades for the fund.  The gateway compares liquid_assets    *)
(* with the limit value, which a market order does not have, and nothing   *)
(* with the shares of the fund.                                            *)
PlaceTrade(o, direction, quantity) ==
  /\ order[o].pc = "none" /\ MayStart /\ active[Of[o]]
  /\ NewOrder(o, direction, quantity)
  /\ UNCHANGED <<fundVars, rowVars, cash, call, check, deleting, ghosts, adrift, faults>>

(* settleAccountAndCommission: the account pays the commission, which the  *)
(* bank's account is credited with last.  The order is DECLINED when it    *)
(* fails, and nothing that was settled is taken back.                      *)
Cost(o, qty) == IF order[o].direction = "BUY" THEN qty * Price + Fee ELSE Fee - qty * Price
Covers(o, qty) == order[o].direction = "BUY" => cash[Of[o]] >= Cost(o, qty)
Decline(o) == order' = [order EXCEPT ![o] = [@ EXCEPT !.pc = "over"]]

SettleFill(o, qty) ==
  /\ order[o].pc = "fill"
  /\ \/ /\ Covers(o, qty) /\ Succeeds
        /\ Change(Of[o], -Cost(o, qty))
        /\ order' = [order EXCEPT ![o] = [@ EXCEPT
             !.pc = "holding", !.qty = qty, !.fills = order[o].fills + 1]]
        /\ UNCHANGED adrift
     \/ ~Covers(o, qty) /\ Succeeds /\ Decline(o) /\ UNCHANGED <<cash, adrift>>
     \/ Refused("settle") /\ Decline(o) /\ UNCHANGED <<cash, adrift>>
     \/ /\ Covers(o, qty) /\ Refused("commission")
        /\ Change(Of[o], -Cost(o, qty))
        /\ Decline(o) /\ LeftAdrift(Of[o])
  /\ UNCHANGED <<fundVars, rowVars, call, check, deleting, ghosts>>

(* What follows a fill; a sale that is done has the pending withdrawals    *)
(* checked.                                                                *)
EndFill(o) ==
  LET left == order[o].left - order[o].qty IN
  order' = [order EXCEPT ![o] = [@ EXCEPT
    !.pc = CASE left > 0 -> "fill"
             [] left = 0 /\ order[o].direction = "SELL" -> "check"
             [] OTHER -> "over",
    !.left = left, !.qty = 0]]

(* UpdateFundHolding: one transaction; a row that falls to 0 or below is   *)
(* deleted.  Its failure does not stop the order.                          *)
Bought(o) == IF order[o].direction = "BUY" THEN order[o].qty ELSE -order[o].qty

KeptBelowZero(n) == n
Kept(n) == IF n > 0 THEN n ELSE 0

UpdateFundHolding(o) ==
  /\ order[o].pc = "holding"
  /\ \/ /\ Succeeds
        /\ liquid' = [liquid EXCEPT ![Of[o]] = @ - Bought(o) * Price]
        /\ shares' = [shares EXCEPT ![Of[o]] = Kept(@ + Bought(o))]
        /\ UNCHANGED adrift
     \/ Refused("holding") /\ LeftAdrift(Of[o]) /\ UNCHANGED <<liquid, shares>>
  /\ EndFill(o)
  /\ UNCHANGED <<active, position, rowVars, cash, call, check, deleting, payouts, overlapped>>
-----------------------------------------------------------------------------
(* CheckPendingWithdrawals *)

CheckAt(o, label) == order[o].pc = "check" /\ check[o].pc = label

ReadLiquid(o) ==
  /\ CheckAt(o, "idle")
  /\ check' = [check EXCEPT ![o] = [@ EXCEPT !.pc = "rows", !.liquid = liquid[Of[o]]]]
  /\ UNCHANGED <<fundVars, rowVars, cash, call, order, deleting, ghosts, adrift, faults>>

Paying == {"pay", "commit", "undo"}

WasPending(o, w) == Of[w] = Of[o] /\ pending[w].status # None
IsPending(o, w) == Of[w] = Of[o] /\ pending[w].status = "PENDING"

FetchRows(o) ==
  /\ CheckAt(o, "rows")
  /\ check' = [check EXCEPT ![o] = [@ EXCEPT !.pc = "pay",
       !.rows = {w \in Withdrawals : IsPending(o, w)}]]
  /\ overlapped' = (overlapped \/ \E p \in Orders \ {o} :
                      Of[p] = Of[o] /\ check[p].pc \in Paying)
  /\ UNCHANGED <<fundVars, rowVars, cash, call, order, deleting, payouts,
                 adrift, faults>>

(* ORDER BY timestamp *)
IsNext(o, w) ==
  /\ w \in check[o].rows
  /\ \A v \in check[o].rows : arrived[w] <= arrived[v]

Row(o) == check[o].row
InHand(o) == check[o].pc \in {"commit", "undo"}
Skip(o, w) == check' = [check EXCEPT ![o] = [@ EXCEPT !.rows = check[o].rows \ {w}]]
NextRow(o) ==
  check' = [check EXCEPT ![o] = [@ EXCEPT !.pc = "pay", !.row = None, !.sum = 0]]

(* The client is paid; nothing is taken from the account of the fund. *)
PayRow(o, w) ==
  /\ CheckAt(o, "pay") /\ IsNext(o, w)
  /\ \/ /\ check[o].liquid < pending[w].amount
        /\ Skip(o, w) /\ Succeeds /\ UNCHANGED <<cash, payouts, adrift>>
     \/ /\ check[o].liquid >= pending[w].amount
        /\ \E sum \in {pending[w].amount * Rate[By[w]], pending[w].amount} :
             /\ Converted(By[w], pending[w].amount, sum)
             /\ Change(By[w], sum)
             /\ check' = [check EXCEPT ![o] = [@ EXCEPT
                  !.pc = "commit", !.rows = check[o].rows \ {w}, !.row = w, !.sum = sum]]
        /\ payouts' = [payouts EXCEPT ![w] = @ + 1]
     \/ /\ check[o].liquid >= pending[w].amount
        /\ Refused("payRow") /\ Skip(o, w) /\ UNCHANGED <<cash, payouts, adrift>>
  /\ UNCHANGED <<fundVars, rowVars, call, order, deleting, overlapped>>

(* The row, the position and liquid_assets; what is taken back when the    *)
(* COMMIT fails is the amount in dinars.                                   *)
CommitRow(o) ==
  /\ CheckAt(o, "commit")
  /\ \/ /\ Succeeds
        /\ Move(Of[o], By[Row(o)], -pending[Row(o)].amount)
        /\ pending' = [pending EXCEPT ![Row(o)] = [@ EXCEPT !.status = "COMPLETED"]]
        /\ check' = [check EXCEPT ![o] = [@ EXCEPT
             !.pc = "pay", !.row = None, !.sum = 0,
             !.liquid = check[o].liquid - pending[Row(o)].amount]]
        /\ UNCHANGED adrift
     \/ /\ Refused("beginRow")
        /\ check' = [check EXCEPT ![o] = [@ EXCEPT !.pc = "undo"]]
        /\ UNCHANGED <<liquid, position, pending, adrift>>
     \/ /\ Refused("commitRow")
        /\ check' = [check EXCEPT ![o] = [@ EXCEPT
             !.pc = "undo", !.sum = pending[Row(o)].amount]]
        /\ adrift' = IF check[o].sum = pending[Row(o)].amount THEN adrift
                     ELSE adrift \cup {By[Row(o)]}
        /\ UNCHANGED <<liquid, position, pending>>
  /\ UNCHANGED <<active, shares, arrived, cash, call, order, deleting, ghosts>>

UndoRow(o) ==
  /\ CheckAt(o, "undo")
  /\ \/ /\ Succeeds /\ Change(By[Row(o)], -check[o].sum)
        /\ payouts' = [payouts EXCEPT ![Row(o)] = @ - 1] /\ UNCHANGED adrift
     \/ /\ Refused("compensate")
        /\ adrift' = adrift \cup {By[Row(o)], Of[o]} /\ UNCHANGED <<cash, payouts>>
  /\ NextRow(o)
  /\ UNCHANGED <<fundVars, rowVars, call, order, deleting, overlapped>>

EndCheck(o) ==
  /\ CheckAt(o, "pay") /\ check[o].rows = {}
  /\ check' = [check EXCEPT ![o] = [@ EXCEPT !.pc = "end"]]
  /\ Decline(o)
  /\ UNCHANGED <<fundVars, rowVars, cash, call, deleting, ghosts, adrift, faults>>
-----------------------------------------------------------------------------
(* DeleteFund counts the positions and then deactivates the fund. *)

CountPositions(f) ==
  /\ active[f] /\ f \notin deleting
  /\ \A i \in Investors : position[f][i] <= 0
  /\ deleting' = deleting \cup {f}
  /\ UNCHANGED <<fundVars, rowVars, cash, call, order, check, ghosts, adrift, faults>>

DeactivateFund(f) ==
  /\ f \in deleting
  /\ active' = [active EXCEPT ![f] = FALSE]
  /\ deleting' = deleting \ {f}
  /\ UNCHANGED <<liquid, position, shares, rowVars, cash, call, order, check, ghosts,
                 adrift, faults>>

(* The gateway gives up after 15 seconds, or its caller hangs up. *)
Disconnect(c) ==
  /\ call[c].pc \notin {"idle", "end"} /\ call[c].here
  /\ Refused("disconnect")
  /\ call' = [call EXCEPT ![c] = [@ EXCEPT !.here = FALSE]]
  /\ UNCHANGED <<fundVars, rowVars, cash, order, check, deleting, ghosts, adrift>>

(* fund-service stops: its calls and checks are forgotten, and the error   *)
(* that order-service gets from a check is only logged.                    *)
Written == {"creditFund", "invest", "refund", "pay", "withdraw", "takeBack",
            "takeBackBoth", "refundFund"}

Crash ==
  /\ Refused("crash")
  /\ call' = [c \in Calls |-> IF At(c, "idle") THEN call[c]
                              ELSE [call[c] EXCEPT !.pc = "end"]]
  /\ check' = [o \in Orders |-> IF check[o].pc = "idle" THEN check[o]
                                ELSE [check[o] EXCEPT !.pc = "end"]]
  /\ order' = [o \in Orders |->
       IF order[o].pc = "check" /\ check[o].pc # "idle"
       THEN [order[o] EXCEPT !.pc = "over"] ELSE order[o]]
  /\ deleting' = {}
  /\ adrift' = adrift \cup {h \in Holders :
       \/ \E c \in Calls : call[c].pc \in Written /\ h \in {By[c], Of[c]}
       \/ \E o \in Orders : InHand(o) /\ h \in {By[Row(o)], Of[o]}}
  /\ UNCHANGED <<fundVars, rowVars, cash, ghosts>>

Invest(c) ==
  \/ \E amount \in Amounts : StartInvestment(c, amount)
  \/ CheckBalance(c) \/ DebitInvestor(c) \/ CreditFund(c) \/ CommitInvestment(c)
  \/ Refund(c)

Withdraw(c) ==
  \/ \E amount \in Amounts : StartWithdrawal(c, amount)
  \/ CheckPosition(c) \/ DebitFund(c) \/ PayInvestor(c) \/ CommitWithdrawal(c)
  \/ TakeBack(c) \/ RefundFund(c) \/ SellShares(c) \/ InsertPending(c)

Execute(o) ==
  \/ \E qty \in 1..order[o].left : SettleFill(o, qty)
  \/ UpdateFundHolding(o)

CheckPendingWithdrawals(o) ==
  \/ ReadLiquid(o) \/ FetchRows(o) \/ CommitRow(o) \/ UndoRow(o) \/ EndCheck(o)
  \/ \E w \in Withdrawals : PayRow(o, w)

Next ==
  \/ \E c \in Investments : Invest(c)
  \/ \E c \in Withdrawals : Withdraw(c)
  \/ \E c \in Calls : Disconnect(c)
  \/ \E o \in Trades, direction \in {"BUY", "SELL"}, quantity \in Quantities :
       PlaceTrade(o, direction, quantity)
  \/ \E o \in Orders : Execute(o) \/ CheckPendingWithdrawals(o)
  \/ \E f \in Funds : CountPositions(f) \/ DeactivateFund(f)
  \/ Crash

Spec == Init /\ [][Next]_vars
-----------------------------------------------------------------------------
(* Properties *)

SumOver(S, value(_)) == SumFunctionOnSet([x \in S |-> value(x)], S)

(* What an investor paid for an investment that is not in the position     *)
(* yet, less what he was paid for a withdrawal that still is.              *)
Investing(c, i) ==
  IF By[c] = i /\ call[c].pc \in {"creditFund", "invest", "refund"} THEN call[c].sum ELSE 0
Withdrawing(c, i) ==
  IF By[c] = i /\ call[c].pc \in {"withdraw", "takeBack", "takeBackBoth"}
  THEN call[c].sum ELSE 0
PayingOut(o, i) == IF InHand(o) /\ By[Row(o)] = i THEN check[o].sum ELSE 0

OnTheWay(i) ==
  SumOver(Investments, LAMBDA c : Investing(c, i))
  - SumOver(Withdrawals, LAMBDA c : Withdrawing(c, i))
  - SumOver(Orders, LAMBDA o : PayingOut(o, i))

(* Unless something was left undone on his account, an investor's money    *)
(* and positions together are what they were: he pays for what enters his  *)
(* positions and is paid for what leaves them, once, in his own currency.  *)
(* (InvestFund, WithdrawFund and CheckPendingWithdrawals with their        *)
(* compensations, under failures, hang-ups and crashes.)                   *)
InvestorsWhole ==
  \A i \in Investors \ adrift :
    cash[i] + Rate[i] * SumOver(Funds, LAMBDA f : position[f][i]) + OnTheWay(i)
      = InitCash[i] + Rate[i] * SumOver(Funds, LAMBDA f : InitPosition[f][i])

(* What the account of a fund has had of a call, an order or a check and   *)
(* liquid_assets have not.                                                 *)
Contributed(c, f) == IF Of[c] = f /\ call[c].pc = "invest" THEN call[c].amount ELSE 0
TakenOut(c, f) ==
  IF Of[c] = f /\ call[c].pc \in {"pay", "withdraw", "takeBackBoth", "refundFund"}
  THEN call[c].amount ELSE 0
Filled(o, f) == IF Of[o] = f /\ order[o].pc = "holding" THEN Bought(o) * Price ELSE 0

NotBooked(f) ==
  SumOver(Investments, LAMBDA c : Contributed(c, f))
  - SumOver(Withdrawals, LAMBDA c : TakenOut(c, f))
  - SumOver(Orders, LAMBDA o : Filled(o, f))

Fills(o, f) == IF Of[o] = f THEN order[o].fills ELSE 0
PaidOut(w, f) == IF Of[w] = f THEN pending[w].amount * payouts[w] ELSE 0
ToBook(o, f) == IF Of[o] = f /\ InHand(o) THEN pending[Row(o)].amount ELSE 0

(* How the account of a fund and its liquid_assets, which should be the    *)
(* same number, part: the account pays the commission of every fill, which *)
(* liquid_assets do not show, and it never pays a pending withdrawal,      *)
(* which they do show (settleAccountAndCommission, UpdateFundHolding and   *)
(* CheckPendingWithdrawals).  Nothing else separates them.                 *)
FundBooks ==
  \A f \in Funds \ adrift :
    cash[f] - liquid[f] - (InitCash[f] - InitLiquid[f])
      = NotBooked(f)
        - Fee * SumOver(Orders, LAMBDA o : Fills(o, f))
        + SumOver(Withdrawals, LAMBDA w : PaidOut(w, f))
        - SumOver(Orders, LAMBDA o : ToBook(o, f))

(* A withdrawal that waited is COMPLETED only once its client was paid,    *)
(* and unless two checks of the fund overlapped, it was paid once.         *)
(* (CheckPendingWithdrawals, which does not lock the rows it reads.)       *)
PendingPaidOnce ==
  \A w \in Withdrawals :
    /\ pending[w].status = "COMPLETED" => payouts[w] >= 1
    /\ ~overlapped /\ By[w] \notin adrift => payouts[w] <= 1
=============================================================================
