--------------------------- MODULE OrderExecution ---------------------------
(***************************************************************************)
(* order-service: the creation of an order (handlers/grpc_server.go), the  *)
(* decision of a supervisor or of the expiry loop (approval/service.go),   *)
(* its cancellation, and the scheduler that fills it in portions           *)
(* (execution/scheduler.go).  orders_db, account_db, portfolio_db and      *)
(* employee_db are four databases and no statement is under a transaction, *)
(* so every statement is an action of its own; the goroutine that executes *)
(* an order works on the copy of the row the poll has read.                *)
(***************************************************************************)
EXTENDS Integers

CONSTANTS
  Orders,         \* ids of rows of orders
  Owners,         \* portfolio_entry rows, of the one listing
  Accounts,       \* rows of account_db.accounts
  Agents,         \* employees with a row in actuary_info
  Supervisors,    \* who approve or decline
  Requests,       \* what the orders may ask for: a subset of [Orders -> Request]
  InitBalance, InitShares,   \* before the first order
  Limit,          \* [Agents -> Nat]: actuary_info.limit_amount
  NeedApproval,   \* agents with actuary_info.need_approval
  Cancellable,    \* orders whose owner may cancel them
  Faults,         \* labels of the statements that may fail
  MaxIncidents    \* how many of these, and of overlapping polls, may happen

None == "none"
Expiry == "expiry"
Deciders == Supervisors \cup {Expiry}
Statuses == {"PENDING", "APPROVED", "DECLINED"}
Labels == {"off", "start", "price", "settle", "bank", "commission", "portion",
           "holding", "sweep", "remaining", "done", "decline"}

(* A request; price and fee are what one unit and one fill cost, in dinars *)
(* (the exchange rate and the contract size included), total is what       *)
(* ApproximatePrice returns, in the currency of the listing.               *)
Request ==
  [owner : Owners, account : Accounts, agent : Agents \cup {None},
   client : BOOLEAN, direction : {"BUY", "SELL"}, quantity : Nat \ {0},
   price : Nat, fee : Nat, total : Nat, rate : Nat,
   aon : BOOLEAN, isMargin : BOOLEAN, margin : Nat, expires : BOOLEAN]

ASSUME RequestsAssumption ==
  /\ Requests \subseteq [Orders -> Request]
  /\ \A r \in Requests : \A o \in Orders : r[o].fee <= r[o].price
ASSUME NamesAssumption ==
  /\ None \notin Agents /\ Expiry \notin Supervisors
ASSUME AmountsAssumption ==
  /\ InitBalance \in [Accounts -> Nat] /\ InitShares \in [Owners -> Nat]
  /\ Limit \in [Agents -> Nat]
ASSUME BoundsAssumption == MaxIncidents \in Nat

VARIABLES
  asked,     \* what each order asks for, fixed
  order,     \* orders: status, is_done, remaining_portions, commission_paid
  fills,     \* order_portions: number of rows, sum of their quantities
  balance,   \* accounts.available_balance (balance moves with it)
  bank,      \* available_balance of the bank's account
  held,      \* owners with a portfolio_entry row
  shares,    \* portfolio_entry.amount, 0 when there is no row
  used,      \* actuary_info.used_limit
  create,    \* what CreateOrder does next for the order
  decision,  \* what the call of a decider on an order does next
  cancel,    \* what cancelOrderChecked does next
  batch,     \* remaining_portions of the rows processOrders has yet to start
  exec,      \* the goroutine executing the order: label, remaining, fillQty
  refusals, crashes, overlaps  \* what happened so far

rowVars == <<order, fills>>
moneyVars == <<balance, bank, held, shares, used>>
callVars == <<create, decision, cancel>>
envVars == <<refusals, crashes, overlaps>>
vars == <<asked, rowVars, moneyVars, callVars, batch, exec, envVars>>

NotFetched == -1

TypeOK ==
  /\ asked \in Requests
  /\ order \in [Orders -> [status : Statuses \cup {None}, done : BOOLEAN,
                           remaining : Nat, commission : Nat]]
  /\ fills \in [Orders -> [rows : Nat, qty : Nat]]
  /\ balance \in [Accounts -> Int] /\ bank \in Int
  /\ held \subseteq Owners
  /\ shares \in [Owners -> Int] /\ used \in [Agents -> Nat]
  /\ create \in [Orders -> {"idle", "checked", "APPROVED", "PENDING",
                           "asSupervisor", "deduct", "end"}]
  /\ decision \in [Deciders \X Orders -> {"idle", "approve", "decline", "deduct", "end"}]
  /\ cancel \in [Orders -> {"idle", "read", "cancelled"}]
  /\ batch \in [Orders -> Nat \cup {NotFetched}]
  /\ exec \in [Orders -> [pc : Labels, remaining : Nat, qty : Nat]]
  /\ refusals \in Nat /\ crashes \in Nat /\ overlaps \in Nat

Init ==
  /\ asked \in Requests
  /\ order = [o \in Orders |->
       [status |-> None, done |-> FALSE, remaining |-> 0, commission |-> 0]]
  /\ fills = [o \in Orders |-> [rows |-> 0, qty |-> 0]]
  /\ balance = InitBalance /\ bank = 0
  /\ held = {u \in Owners : InitShares[u] > 0}
  /\ shares = InitShares /\ used = [g \in Agents |-> 0]
  /\ create = [o \in Orders |-> "idle"]
  /\ decision = [d \in Deciders \X Orders |-> "idle"]
  /\ cancel = [o \in Orders |-> "idle"]
  /\ batch = [o \in Orders |-> NotFetched]
  /\ exec = [o \in Orders |-> [pc |-> "off", remaining |-> 0, qty |-> 0]]
  /\ refusals = 0 /\ crashes = 0 /\ overlaps = 0

(* A statement succeeds, or the database or the service behind it refuses  *)
(* it; each action says which errors the code reports and which it drops.  *)
MoreIncidents == refusals + crashes + overlaps < MaxIncidents
Succeeds == UNCHANGED refusals
Refused(label) ==
  /\ label \in Faults /\ MoreIncidents
  /\ refusals' = refusals + 1
-----------------------------------------------------------------------------
(* CreateOrder *)

IsAgents(o) == asked[o].agent # None
Buys(o) == asked[o].direction = "BUY"

(* Funds are checked for a client's BUY and holdings for a SELL; neither   *)
(* is reserved, and the bank's orders are not checked.                     *)
Affordable(o) ==
  /\ Buys(o) /\ asked[o].client => balance[asked[o].account] >= asked[o].total
  /\ ~Buys(o) => shares[asked[o].owner] >= asked[o].quantity

CheckOrder(o) ==
  /\ create[o] = "idle"
  /\ create' = [create EXCEPT ![o] = IF Affordable(o) THEN "checked" ELSE "end"]
  /\ UNCHANGED <<asked, rowVars, moneyVars, decision, cancel, batch, exec, envVars>>

(* What the order charges to the limit of its agent, in dinars. *)
Charge(o) == asked[o].total * asked[o].rate

NeedsApproval(o) ==
  \/ asked[o].agent \in NeedApproval
  \/ /\ Buys(o)
     /\ \/ used[asked[o].agent] >= Limit[asked[o].agent]
        \/ Charge(o) > Limit[asked[o].agent] - used[asked[o].agent]

(* Whoever has no row in actuary_info is a supervisor, and so is whoever's *)
(* row cannot be read.                                                     *)
DetermineInitialStatus(o) ==
  /\ create[o] = "checked"
  /\ \/ /\ Succeeds
        /\ create' = [create EXCEPT ![o] =
             IF IsAgents(o) /\ NeedsApproval(o) THEN "PENDING" ELSE "APPROVED"]
     \/ /\ IsAgents(o) /\ Refused("actuaryInfo")
        /\ create' = [create EXCEPT ![o] = "asSupervisor"]
  /\ UNCHANGED <<asked, rowVars, moneyVars, decision, cancel, batch, exec,
                 crashes, overlaps>>

(* The row is inserted with the status that was determined before. *)
InsertOrder(o) ==
  /\ create[o] \in {"APPROVED", "PENDING", "asSupervisor"}
  /\ \/ /\ Succeeds
        /\ order' = [order EXCEPT
             ![o] = [@ EXCEPT
               !.status = IF create[o] = "PENDING" THEN "PENDING" ELSE "APPROVED",
               !.remaining = asked[o].quantity]]
        /\ create' = [create EXCEPT ![o] =
             IF IsAgents(o) /\ Buys(o) /\ create[o] = "APPROVED"
             THEN "deduct" ELSE "end"]
     \/ /\ Refused("insert")
        /\ create' = [create EXCEPT ![o] = "end"]
        /\ UNCHANGED order
  /\ UNCHANGED <<asked, fills, moneyVars, decision, cancel, batch, exec,
                 crashes, overlaps>>

(* Mutant: the amount replaces what was used before. *)
SetUsedLimit(o, amount) ==
  used' = [used EXCEPT ![asked[o].agent] = amount]

AddUsedLimit(o, amount) ==
  used' = [used EXCEPT ![asked[o].agent] = @ + amount]

(* The limit of an auto-approved BUY; an error is logged only. *)
DeductActuaryUsedLimit(o) ==
  /\ create[o] = "deduct"
  /\ \/ Succeeds /\ AddUsedLimit(o, Charge(o))
     \/ Refused("deduct") /\ UNCHANGED used
  /\ create' = [create EXCEPT ![o] = "end"]
  /\ UNCHANGED <<asked, rowVars, balance, bank, held, shares, decision, cancel,
                 batch, exec, crashes, overlaps>>
-----------------------------------------------------------------------------
(* ApproveOrder, DeclineOrder, declineExpiredOrders *)

(* The call reads the row; the expiry loop declines expired orders only.   *)
(* A supervisor decides once, the loop comes back every minute.            *)
ReadPending(d, o, label) ==
  /\ decision[<<d, o>>] = "idle"
  /\ order[o].status = "PENDING"
  /\ d = Expiry => label = "decline" /\ asked[o].expires
  /\ decision' = [decision EXCEPT ![<<d, o>>] = label]
  /\ UNCHANGED <<asked, rowVars, moneyVars, create, cancel, batch, exec, envVars>>

Returned(d) == IF d = Expiry THEN "idle" ELSE "end"

(* UpdateOrderStatus, whatever the status has become since it was read. *)
ApproveOrder(d, o) ==
  /\ decision[<<d, o>>] = "approve"
  /\ \/ /\ Succeeds
        /\ order' = [order EXCEPT ![o].status = "APPROVED"]
        /\ decision' = [decision EXCEPT ![<<d, o>>] =
             IF IsAgents(o) /\ Buys(o) THEN "deduct" ELSE "end"]
     \/ /\ Refused("approve")
        /\ decision' = [decision EXCEPT ![<<d, o>>] = "end"]
        /\ UNCHANGED order
  /\ UNCHANGED <<asked, fills, moneyVars, create, cancel, batch, exec,
                 crashes, overlaps>>

(* The limit is charged in the currency of the listing; errors are dropped. *)
DeductApproved(d, o) ==
  /\ decision[<<d, o>>] = "deduct"
  /\ \/ Succeeds /\ AddUsedLimit(o, asked[o].total)
     \/ Refused("deduct") /\ UNCHANGED used
  /\ decision' = [decision EXCEPT ![<<d, o>>] = "end"]
  /\ UNCHANGED <<asked, rowVars, balance, bank, held, shares, create, cancel,
                 batch, exec, crashes, overlaps>>

DeclineOrder(d, o) ==
  /\ decision[<<d, o>>] = "decline"
  /\ \/ Succeeds /\ order' = [order EXCEPT ![o].status = "DECLINED"]
     \/ Refused("declineOrder") /\ UNCHANGED order
  /\ decision' = [decision EXCEPT ![<<d, o>>] = Returned(d)]
  /\ UNCHANGED <<asked, fills, moneyVars, create, cancel, batch, exec,
                 crashes, overlaps>>
-----------------------------------------------------------------------------
(* cancelOrderChecked *)

ReadCancellable(o) ==
  /\ o \in Cancellable /\ cancel[o] = "idle"
  /\ order[o].status # None
  /\ ~order[o].done /\ order[o].remaining # 0
  /\ cancel' = [cancel EXCEPT ![o] = "read"]
  /\ UNCHANGED <<asked, rowVars, moneyVars, create, decision, batch, exec, envVars>>

CancelOrder(o) ==
  /\ cancel[o] = "read"
  /\ \/ /\ Succeeds
        /\ order' = [order EXCEPT ![o] = [@ EXCEPT !.done = TRUE, !.remaining = 0]]
        /\ cancel' = [cancel EXCEPT ![o] = "cancelled"]
     \/ /\ Refused("cancel")
        /\ cancel' = [cancel EXCEPT ![o] = "idle"]
        /\ UNCHANGED order
  /\ UNCHANGED <<asked, fills, moneyVars, create, decision, batch, exec,
                 crashes, overlaps>>
-----------------------------------------------------------------------------
(* The scheduler *)

(* Mutant: the query leaves out declined orders only. *)
NotDeclined(o) == order[o].status \notin {None, "DECLINED"} /\ ~order[o].done

Active(o) == order[o].status = "APPROVED" /\ ~order[o].done
Executing(o) == exec[o].pc # "off"

(* GetApprovedActiveOrders.  A row that is being executed is skipped later *)
(* by LoadOrStore, unless its execution ends before the loop gets to it:   *)
(* only a poll that counts as an overlap fetches such rows.                *)
Poll ==
  /\ \A o \in Orders : batch[o] = NotFetched
  /\ \E overlapping \in BOOLEAN :
       LET fetched == {o \in Orders : Active(o) /\ (overlapping \/ ~Executing(o))}
       IN /\ fetched # {}
          /\ overlapping => MoreIncidents /\ \E o \in fetched : Executing(o)
          /\ overlaps' = IF overlapping THEN overlaps + 1 ELSE overlaps
          /\ batch' = [o \in Orders |->
               IF o \in fetched THEN order[o].remaining ELSE NotFetched]
  /\ UNCHANGED <<asked, rowVars, moneyVars, callVars, exec, refusals, crashes>>

(* LoadOrStore and the go statement: the goroutine gets the fetched row. *)
StartExecution(o) ==
  /\ batch[o] # NotFetched
  /\ batch' = [batch EXCEPT ![o] = NotFetched]
  /\ exec' = IF Executing(o) THEN exec
             ELSE [exec EXCEPT ![o] =
                     [pc |-> "start", remaining |-> batch[o], qty |-> 0]]
  /\ UNCHANGED <<asked, rowVars, moneyVars, callVars, envVars>>

At(o, label) == exec[o].pc = label
GoTo(o, label) == exec' = [exec EXCEPT ![o].pc = label]

(* The end of the loop: what the goroutine read and wrote is forgotten. *)
Return(o) == exec' = [exec EXCEPT ![o] = [pc |-> "off", remaining |-> 0, qty |-> 0]]

MarginMet(o) ==
  asked[o].isMargin => balance[asked[o].account] > asked[o].margin

(* The look-ups before the loop; their errors end the execution, but an    *)
(* account that cannot be read is taken for an empty one.                  *)
BeginExecution(o) ==
  /\ At(o, "start")
  /\ \/ Refused("start") /\ Return(o)
     \/ asked[o].isMargin /\ Refused("margin") /\ GoTo(o, "decline")
     \/ Succeeds /\ ~MarginMet(o) /\ GoTo(o, "decline")
     \/ Succeeds /\ MarginMet(o) /\ exec[o].remaining > 0 /\ GoTo(o, "price")
     \/ Succeeds /\ MarginMet(o) /\ exec[o].remaining = 0 /\ Return(o)
  /\ UNCHANGED <<asked, rowVars, moneyVars, callVars, batch, crashes, overlaps>>

(* Mutant: all-or-none orders get a random quantity too. *)
RandomQuantities(o) == 1..exec[o].remaining

(* DetermineAONFillQty and the random quantity. *)
FillQuantities(o) ==
  IF asked[o].aon
  THEN {q \in {exec[o].remaining} : q = asked[o].quantity}
  ELSE 1..exec[o].remaining

ChooseFill(o) ==
  /\ At(o, "price")
  /\ \E q \in FillQuantities(o) :
       exec' = [exec EXCEPT ![o] = [@ EXCEPT !.pc = "settle", !.qty = q]]
  /\ UNCHANGED <<asked, rowVars, moneyVars, callVars, batch, envVars>>

Value(o) == exec[o].qty * asked[o].price
Cost(o) == Value(o) + asked[o].fee
(* Mutant: the seller is not charged the commission. *)
ProceedsWithoutFee(o) == Value(o)

Proceeds(o) == Value(o) - asked[o].fee

Covered(o) == balance[asked[o].account] >= Cost(o)
(* Mutant: the bank is never credited. *)
SkipBank(o) == "portion"

AfterSettlement(o) == IF asked[o].fee > 0 THEN "bank" ELSE "portion"

(* settleAccountAndCommission, the order's account. *)
SettleAccount(o) ==
  /\ At(o, "settle")
  /\ LET a == asked[o].account
     IN \/ /\ Succeeds /\ Buys(o) /\ Covered(o)
           /\ balance' = [balance EXCEPT ![a] = @ - Cost(o)]
           /\ GoTo(o, AfterSettlement(o))
        \/ /\ Succeeds /\ Buys(o) /\ ~Covered(o)
           /\ GoTo(o, "decline") /\ UNCHANGED balance
        \/ /\ Succeeds /\ ~Buys(o)
           /\ balance' = [balance EXCEPT ![a] = @ + Proceeds(o)]
           /\ GoTo(o, AfterSettlement(o))
        \/ Refused("settle") /\ GoTo(o, "decline") /\ UNCHANGED balance
  /\ UNCHANGED <<asked, rowVars, bank, held, shares, used, callVars, batch,
                 crashes, overlaps>>

(* settleAccountAndCommission, the bank's account: an error declines the   *)
(* order although its account has been settled.                            *)
CreditBank(o) ==
  /\ At(o, "bank")
  /\ \/ Succeeds /\ bank' = bank + asked[o].fee /\ GoTo(o, "commission")
     \/ Refused("bank") /\ GoTo(o, "decline") /\ UNCHANGED bank
  /\ UNCHANGED <<asked, rowVars, balance, held, shares, used, callVars, batch,
                 crashes, overlaps>>

AddCommissionPaid(o) ==
  /\ At(o, "commission")
  /\ \/ Succeeds /\ order' = [order EXCEPT ![o].commission = @ + asked[o].fee]
     \/ Refused("commission") /\ UNCHANGED order
  /\ GoTo(o, "portion")
  /\ UNCHANGED <<asked, fills, moneyVars, callVars, batch, crashes, overlaps>>

(* Mutant: an error is logged and the loop goes on. *)
InsertPortionOrLog(o) ==
  /\ At(o, "portion")
  /\ \/ /\ Succeeds
        /\ fills' = [fills EXCEPT ![o] =
             [rows |-> @.rows + 1, qty |-> @.qty + exec[o].qty]]
     \/ Refused("portion") /\ UNCHANGED fills
  /\ GoTo(o, "holding")
  /\ UNCHANGED <<asked, order, moneyVars, callVars, batch, crashes, overlaps>>

(* An error makes the loop choose, and settle, another fill. *)
InsertPortion(o) ==
  /\ At(o, "portion")
  /\ \/ /\ Succeeds
        /\ fills' = [fills EXCEPT ![o] =
             [rows |-> @.rows + 1, qty |-> @.qty + exec[o].qty]]
        /\ GoTo(o, "holding")
     \/ Refused("portion") /\ GoTo(o, "price") /\ UNCHANGED fills
  /\ UNCHANGED <<asked, order, moneyVars, callVars, batch, crashes, overlaps>>

(* UpdateHolding of portfolio-service: upsert, or decrement and then       *)
(* delete the row that is used up.  Its errors are logged only.            *)
UpdateHolding(o) ==
  /\ At(o, "holding")
  /\ LET u == asked[o].owner
     IN \/ /\ Succeeds /\ Buys(o) /\ GoTo(o, "remaining")
           /\ held' = held \cup {u}
           /\ shares' = [shares EXCEPT ![u] = @ + exec[o].qty]
        \/ /\ Succeeds /\ ~Buys(o) /\ GoTo(o, "sweep")
           /\ shares' = [shares EXCEPT ![u] = IF u \in held THEN @ - exec[o].qty ELSE @]
           /\ UNCHANGED held
        \/ Refused("holding") /\ GoTo(o, "remaining") /\ UNCHANGED <<held, shares>>
  /\ UNCHANGED <<asked, rowVars, balance, bank, used, callVars, batch,
                 crashes, overlaps>>

(* Mutant: DELETE without amount <= 0. *)
SweepAnyHolding(o) ==
  /\ At(o, "sweep")
  /\ LET u == asked[o].owner
     IN \/ Succeeds /\ held' = held \ {u} /\ shares' = [shares EXCEPT ![u] = 0]
        \/ Refused("sweep") /\ UNCHANGED <<held, shares>>
  /\ GoTo(o, "remaining")
  /\ UNCHANGED <<asked, rowVars, balance, bank, used, callVars, batch,
                 crashes, overlaps>>

SweepHolding(o) ==
  /\ At(o, "sweep")
  /\ LET u == asked[o].owner
     IN \/ /\ Succeeds /\ shares[u] <= 0
           /\ held' = held \ {u} /\ shares' = [shares EXCEPT ![u] = 0]
        \/ Succeeds /\ shares[u] > 0 /\ UNCHANGED <<held, shares>>
        \/ Refused("sweep") /\ UNCHANGED <<held, shares>>
  /\ GoTo(o, "remaining")
  /\ UNCHANGED <<asked, rowVars, balance, bank, used, callVars, batch,
                 crashes, overlaps>>

(* Mutant: the loop is not counted down. *)
UpdateRemainingOnly(o) ==
  /\ At(o, "remaining")
  /\ LET left == exec[o].remaining - exec[o].qty
     IN /\ \/ Succeeds /\ order' = [order EXCEPT ![o].remaining = left]
           \/ Refused("remaining") /\ UNCHANGED order
        /\ GoTo(o, IF left = 0 THEN "done" ELSE "price")
  /\ UNCHANGED <<asked, fills, moneyVars, callVars, batch, crashes, overlaps>>

(* The row gets the goroutine's own count, whatever it holds by now. *)
UpdateRemainingPortions(o) ==
  /\ At(o, "remaining")
  /\ LET left == exec[o].remaining - exec[o].qty
     IN /\ \/ Succeeds /\ order' = [order EXCEPT ![o].remaining = left]
           \/ Refused("remaining") /\ UNCHANGED order
        /\ exec' = [exec EXCEPT ![o] =
             [pc |-> IF left = 0 THEN "done" ELSE "price",
              remaining |-> left, qty |-> 0]]
  /\ UNCHANGED <<asked, fills, moneyVars, callVars, batch, crashes, overlaps>>

SetOrderDone(o) ==
  /\ At(o, "done")
  /\ \/ Succeeds /\ order' = [order EXCEPT ![o].done = TRUE]
     \/ Refused("done") /\ UNCHANGED order
  /\ Return(o)
  /\ UNCHANGED <<asked, fills, moneyVars, callVars, batch, crashes, overlaps>>

(* Mutant: the execution ends and the row stays as it is. *)
GiveUp(o) ==
  /\ At(o, "decline") /\ Succeeds /\ Return(o)
  /\ UNCHANGED <<asked, rowVars, moneyVars, callVars, batch, crashes, overlaps>>

(* UpdateOrderStatus(DECLINED) after a failed settlement or margin check.  *)
DeclineUnsettled(o) ==
  /\ At(o, "decline")
  /\ \/ Succeeds /\ order' = [order EXCEPT ![o].status = "DECLINED"]
     \/ Refused("decline") /\ UNCHANGED order
  /\ Return(o)
  /\ UNCHANGED <<asked, fills, moneyVars, callVars, batch, crashes, overlaps>>

Execute(o) ==
  \/ BeginExecution(o) \/ ChooseFill(o) \/ SettleAccount(o) \/ CreditBank(o)
  \/ AddCommissionPaid(o) \/ InsertPortion(o) \/ UpdateHolding(o)
  \/ SweepHolding(o) \/ UpdateRemainingPortions(o) \/ SetOrderDone(o)
  \/ DeclineUnsettled(o)

(* The process is killed: calls, batch and goroutines are gone, inProgress *)
(* is empty when it comes back.                                            *)
Crash ==
  /\ MoreIncidents
  /\ crashes' = crashes + 1
  /\ create' = [o \in Orders |-> IF create[o] = "idle" THEN "idle" ELSE "end"]
  /\ decision' = [d \in Deciders \X Orders |->
       IF decision[d] = "idle" THEN "idle" ELSE Returned(d[1])]
  /\ cancel' = [o \in Orders |-> IF cancel[o] = "read" THEN "idle" ELSE cancel[o]]
  /\ batch' = [o \in Orders |-> NotFetched]
  /\ exec' = [o \in Orders |-> [pc |-> "off", remaining |-> 0, qty |-> 0]]
  /\ UNCHANGED <<asked, rowVars, moneyVars, refusals, overlaps>>

Create(o) ==
  \/ CheckOrder(o) \/ DetermineInitialStatus(o) \/ InsertOrder(o)
  \/ DeductActuaryUsedLimit(o)

Decide(d, o) ==
  \/ ReadPending(d, o, "approve") \/ ReadPending(d, o, "decline")
  \/ ApproveOrder(d, o) \/ DeductApproved(d, o) \/ DeclineOrder(d, o)

Next ==
  \/ \E o \in Orders :
       \/ Create(o)
       \/ \E d \in Deciders : Decide(d, o)
       \/ ReadCancellable(o) \/ CancelOrder(o)
       \/ StartExecution(o) \/ Execute(o)
  \/ Poll
  \/ Crash

(* The ticker polls, the loop over its rows goes on, goroutines run; the   *)
(* market is liquid: the price of a fill is acceptable in the end.         *)
Fairness ==
  /\ WF_vars(Poll)
  /\ \A o \in Orders : WF_vars(StartExecution(o)) /\ WF_vars(Execute(o))

Spec == Init /\ [][Next]_vars /\ Fairness
-----------------------------------------------------------------------------
(* Properties *)

Undisturbed == refusals = 0 /\ crashes = 0

(* However many orders are executed on one account at a time, and however  *)
(* stale the funds check of CreateOrder is by then, no settlement takes an *)
(* account below zero (scheduler.go:486-498).                              *)
NeverOverdrawn == \A a \in Accounts : balance[a] >= 0

(* An all-or-none order is filled by rows of its whole quantity, and never *)
(* waits for a rest nobody will fill (executor.go:142-155), whatever       *)
(* copy of the row an execution was started with.                          *)
AllOrNone ==
  \A o \in Orders : asked[o].aon =>
    /\ fills[o].qty = fills[o].rows * asked[o].quantity
    /\ At(o, "price") => exec[o].remaining = asked[o].quantity

(* An order that is done, and that nobody cancelled, has portions for all  *)
(* of its quantity: neither a crash nor a write that failed nor an         *)
(* execution on an old copy of the row makes the loop skip a unit          *)
(* (scheduler.go:282-295).                                                 *)
DoneMeansFilled ==
  \A o \in Orders : order[o].done /\ cancel[o] # "cancelled" =>
    fills[o].qty >= asked[o].quantity

(* Portions beyond the quantity of an order have a cause, and a bounded    *)
(* effect: a crash, a poll that overlapped an execution (scheduler.go:129- *)
(* 138) or a refused statement, each of which repeats at most one order.   *)
NoOverfill ==
  \A o \in Orders :
    fills[o].qty <= asked[o].quantity * (1 + crashes + overlaps + refusals)

(* An order that waits for a decision is not executed (order_repo.go:18),  *)
(* nor is one fetched that could have been declined meanwhile.             *)
PendingNotExecuted ==
  \A o \in Orders : order[o].status \in {None, "PENDING"} =>
    batch[o] = NotFetched /\ exec[o].pc = "off" /\ fills[o].rows = 0

(* An approved order is declined, cancelled or filled and done in the end  *)
(* (scheduler.go:120-144): the loop over portions makes progress, and a    *)
(* later poll makes up for a crash or an early return.  Only the write of  *)
(* is_done is never made up for: then the order is filled at least.        *)
ApprovedOrderEnds ==
  \A o \in Orders :
    Active(o) ~> \/ ~Active(o)
                 \/ ~Undisturbed /\ fills[o].qty >= asked[o].quantity

(* A cancelled order has no remaining portions (order_repo.go:287), so     *)
(* that nothing more is filled.                                            *)
CancelSticks ==
  \A o \in Orders : cancel[o] = "cancelled" => order[o].remaining = 0
=============================================================================
