# EXBanka-4 backend: TLA+ models, model checking and proofs

The backend is a bank built of Go services. Each service owns a Postgres
database, several services write each other's databases directly, calls between
services are gRPC, e-mail goes through RabbitMQ, and partner banks are reached
over HTTP. There is no distributed transaction anywhere: every operation that
touches two databases is a sequence of statements that commit one by one, and
what makes it correct is the order of the statements, row locks, compensations,
retries and recovery. That is what the models are about. Paths below are
relative to the repository's root.

## 1. Inventory

| Component (services/...) | State it keeps | Operations | What it calls or shares |
|---|---|---|---|
| otc-service, exercise SAGA (`handlers/grpc_server.go`, `saga_recovery.go`) | `otc_contracts`, `otc_saga`, `otc_saga_log` | ExerciseContract, RecoverInFlightSagas, ExpireContracts (hourly) | writes account_db and portfolio_db |
| otc-service, negotiations | `otc_negotiations`, contracts | Create, CounterOffer, Accept, Reject | account_db (premium), portfolio_db |
| otc-service, cross-bank (`interbank_outgoing.go`, `grpc_server.go`) | a negotiation and a contract at either bank, `otc_interbank_tx` | offers to and from the partner, accept and exercise as coordinator, Prepare/Commit/Rollback as participant | partner bank over HTTP, account_db, portfolio_db |
| payment-service, interbank (`handlers/interbank*.go`) | `interbank_transactions` | executeOutgoing2PC, Prepare/Commit/Rollback | partner bank through the gateway, account_db |
| payment-service, local | `payments`, `transfers`, recipients | CreatePayment, CreateTransfer, recipients | account_db, exchange_db, e-mail |
| order-service (`execution`, `approval`, `repository`, `handlers`) | `orders`, `order_portions`, the in-memory `inProgress` map | CreateOrder, Approve, Decline, Cancel, the execution loop, recurring orders, expiry of pending orders | account_db, portfolio, fund, exchange, loan |
| fund-service | funds, positions, holdings, pending withdrawals | Invest, Withdraw, CheckPendingWithdrawals, UpdateFundHolding | account_db, order-service |
| loan-service (`handlers/grpc_server.go`, `cron.go`) | loans, installments | Submit, Approve, Reject, collection of installments (daily and on request), variable rates | account_db |
| portfolio-service | holdings, `tax_record` | UpsertHolding, public mode, tax collection | account_db |
| exchange-service | daily rates | ConvertAmount | account_db |
| card-service | cards, requests | request, confirm, block | e-mail |
| auth-service | credentials, attempts, approvals, TOTP | Login with lockout, approvals, TOTP | mobile client |
| account-service | `accounts` | Create, UpdateLimits, Delete | its table is written by most services |
| email-service | queue | consumer with acknowledgement | RabbitMQ, SMTP |
| securities, employee, client services | single rows, market data | create, read, update | none that matters here |
| api-gateway | none | HTTP to gRPC; `/interbank` for partner banks | all services |

### What is hard here

* **Money and shares in two places.** The exercise of an option contract is five
  steps in three databases under one row lock of a fourth statement's table; the
  payment to a partner bank is two-phase commit over HTTP with retries. Every
  statement may fail, every caller may hang up (which rolls back the one open
  transaction while the handler goes on), and the process may die anywhere.
* **Compensation.** It must take back exactly what was done, from memory in a
  live call and from a log after a crash.
* **Retries and duplicates.** COMMIT_TX and NEW_TX are repeated after a timeout
  although the first attempt may still be running at the partner.
* **Concurrency on rows.** Payments, orders and exercises of one client share
  balance, limits and holdings.
* **Long-running loops on snapshots.** The order scheduler executes an order
  from a copy of its row while approvals, cancellations and the cron write it;
  the collection of installments and the check of pending withdrawals work on
  what a query returned while others charge and pay the same rows.

The hazards found are listed in `PROJECT.json`, each at the line where it bites.

### What makes each component correct

* Exercise SAGA: a contract is exercised at most once; money, shares and status
  move together or not at all; nothing is spent twice; after recovery the books
  are exact; every saga settles.
* Interbank payment: the receiver is credited at most once; the sender is debited
  only for what the receiver's bank committed; the limits and the balance hold
  under concurrency; both banks agree in the end.
* Negotiations: a premium is moved exactly once per accepted negotiation, and
  shares offered are not offered twice.
* Orders: fills add up to the order, a cancelled or declined order is not filled
  any more, an order is settled once per fill, and an approved order ends.
* Cross-bank OTC: the two banks hold the same contract; premium and strike move
  once, at both ends; the seller's shares back the contract until it is exercised.
* Funds: an investor's money and positions together are constant; the account of
  a fund and its `liquid_assets` agree; a withdrawal that waited is paid once.
* Loans: a loan is paid out before it counts; `remaining_debt` goes down by what
  was charged; each installment is charged once, when it is due, and all are.
* Tax: it is collected once per record.
* Auth and cards: lockout counts every failure, an approval is decided once.

## 2. Modules

| Module | What it is |
|---|---|
| `OtcExercise` | ExerciseContract statement by statement with its compensators, recoverSaga, ExpireContracts, the environment |
| `OptionExercise` | what an exercise promises: one atomic exchange |
| `OtcExerciseLedger` | the books of OtcExercise and its refinement of OptionExercise |
| `OtcExerciseProofs` | theorems about OtcExercise |
| `MCOtcExercise` | instances for TLC |
| `InterbankPayment` | coordinator and participant of the interbank payment, local payments and transfers, account deletion, crashes |
| `MoneyTransfer` | what a payment promises: one atomic transfer |
| `InterbankLedger` | the books of InterbankPayment and its refinement of MoneyTransfer |
| `InterbankProofs` | theorems about InterbankPayment |
| `MCInterbankPayment` | instances for TLC |
| `OrderExecution` | CreateOrder, approval, decline, expiry, cancellation, the poll and the execution of orders, with UpsertHolding of portfolio-service |
| `OrderLedger` | accounts, bank, portfolios and limits against orders and portions |
| `OrderProofs` | theorems about OrderExecution and OrderLedger |
| `MCOrderExecution` | instances for TLC |
| `OtcNegotiation` | negotiations inside the bank: creation, counter-offers, rejection, acceptance with its premium, expiry of contracts |
| `OtcNegotiationProofs` | theorems about OtcNegotiation |
| `MCOtcNegotiation` | instances for TLC |
| `OtcInterbank` | negotiations, acceptance and exercise between two banks: both ends of the protocol |
| `OtcInterbankProofs` | theorems about OtcInterbank |
| `MCOtcInterbank` | instances for TLC |
| `FundPositions` | investments, withdrawals, liquidation, fills of a fund's orders, pending withdrawals, closing of a fund |
| `FundProofs` | theorems about FundPositions |
| `MCFundPositions` | instance for TLC |
| `LoanRepayment` | applications, approval, collection of installments, variable rates |
| `LoanProofs` | theorems about LoanRepayment |
| `MCLoanRepayment` | instances for TLC |
| `SumTheorems` | theorems about sums over finite sets, which the books rest on |

### 2.1 OtcExercise

A call is a pair of a contract and a caller; a client that retries is another
caller. `pc[p]` is the statement the call executes next, so each label is one
SQL statement of `ExerciseContract` and each action one statement with all its
outcomes: success, a guard that finds nothing, an error, a cancelled context.

| State | Code |
|---|---|
| `contract`, `saga`, `logged`, `taxed` | `otc_contracts.status`, `otc_saga.status`, the SUCCESS rows of `otc_saga_log`, `tax_record` |
| `lock` | the call whose transaction holds `SELECT ... FOR UPDATE` |
| `tracked` | the calls whose `sagaID` is not 0 |
| `account`, `shares` | `accounts` (balance, available_balance), `portfolio_entry` (amount, reserved_amount, whether the row exists) |
| `pc`, `rpc`, `scanned` | goroutines of calls, goroutines of `recoverSaga`, whether the start-up scan ran |

What matters and is easy to miss in the code, all of it in the model:

* only the contract's row is under the transaction; the statements on account_db
  and portfolio_db commit at once, and the compensators use `db.Exec` without
  the request context;
* a cancelled context ends the transaction and frees the row while the handler
  still runs (`Disconnect`, `Holds`);
* `otc_saga.contract_id` is UNIQUE, so a second attempt runs untracked
  (`InsertSaga`); errors of `sagaLog` and `sagaStatus` are dropped;
* step 4 deletes an empty row, its own undo and recovery are UPDATEs, `comp4` is
  an UPSERT;
* `retryExec` gives up after three attempts and the caller goes on (`Retried`);
* recovery runs beside the server, re-reads account and amount, and reads
  SUCCESS rows only.

`OtcExerciseLedger` says label by label which effects of a call stand
(`FundsReserved`, `SharesTaken`, `BuyerDebited` and so on) and sums them up over
the calls under way (`InFlight`). What the tables show without them is the state of
`OptionExercise`. A call that a crash cut off stands where the recovery of its saga
stands (`Stage`): an effect is in flight until the compensator that takes it back has
run, whoever runs it.

### 2.2 InterbankPayment

Both ends of the protocol are this repository's code, so the model runs it at
every bank. A request `<<p, type, n>>` is the n-th HTTP attempt of one message;
`handler[r]` is the statement its handler executes next at the partner, also
after the sender has given the attempt up. `pc[p]` is what the coordinator waits
for or does next, `attempt[p]` the attempt it waits for.

| State | Code |
|---|---|
| `account`, `open` | `accounts`: balance, available_balance, daily/monthly spent; the rows that exist |
| `row`, `vote` | `interbank_transactions.status` and `cached_vote` |
| `recorded` | rows in `payments` and `transfers` |
| `debits`, `credits` | history: the debit of DB tx #2, the credit of CommitInterbankPayment |

`Reserve` is DB tx #1, `ApplyDebit` DB tx #2, `TakeVote`/`TakeCommitted`/
`TakeRolledBack` the reactions to an answer, `AttemptFails` and `RequestFails`
the retry loop of `sendInterbankRequest`. `LookupVote`/`Validate`/
`InsertInterbankTx`, `LookupCommit`/`Claim`/`CreditReceiver`/`CommitOtcToo` and
`LookupRollback`/`MarkRolledBack` are the three handlers. `CreatePayment` and
`CreateTransfer` inside the bank are one transaction under the row lock of the
sender and compete for the same account.

The daily and the monthly limit are one limit, the smaller: both counters are
incremented and decremented by the same statements, and no code resets them.

### 2.3 OrderExecution

An order goes through three kinds of actors that share nothing but its row: the
gRPC calls that create, decide and cancel it (`create`, `decision`, `cancel` hold
what a call does next), the expiry loop (the decider `Expiry`), and the scheduler,
which polls (`batch`: rows read and not yet started) and runs one goroutine per
order (`exec`: its statement, its own count of what remains, the size of its
fill).

| State | Code |
|---|---|
| `order`, `fills` | `orders` (status, is_done, remaining_portions, commission_paid), `order_portions` (number and sum) |
| `balance`, `bank` | available_balance of the order's accounts and of the bank's |
| `held`, `shares` | `portfolio_entry`: whether there is a row, its amount |
| `used` | `actuary_info.used_limit` |
| `batch`, `exec` | the slice of processOrders, `inProgress` and the goroutines |
| `refusals`, `crashes`, `overlaps` | history: what went wrong so far |

`Execute` is `executeOrder`, one action per statement: look-ups and margin
(`BeginExecution`), price and quantity (`ChooseFill`), the two halves of
`settleAccountAndCommission` (`SettleAccount`, `CreditBank`), then
`AddCommissionPaid`, `InsertPortion`, `UpdateHolding` with `SweepHolding`,
`UpdateRemainingPortions`, `SetOrderDone`; `DeclineUnsettled` is what a failed
settlement ends in. Each says which errors the code reports and which it only
logs. A poll leaves out the orders that are being executed, as LoadOrStore does,
except where it overlaps the end of an execution; since that is what makes the
code repeat an order, it is counted.

### 2.4 OtcNegotiation

A session is a goroutine's client; the same user may have several, so that a
retry can run beside the handler it retries. `call[c]` is the acceptance of a
negotiation by a session: its label, the terms it read, its transaction (`open`
or `aborted`: the row is locked; `closed`: it is not), whether the client still
waits. `making[n]` is the CreateNegotiation that may insert row n.

| State | Code |
|---|---|
| `neg`, `contract`, `taxed` | `otc_negotiations` (status, terms, modified_by), `otc_contracts` (`negotiation_id` is UNIQUE), `tax_record` |
| `balance` | what premiums make of `accounts.balance`; both columns change alike |
| `promised` | `activeContractsSum` of a CreateNegotiation between its two sums |
| `raced`, `adrift` | history: overlapping acceptances of a seller; a premium nobody answers for |

* CreateNegotiation reads its sums without a transaction and ignores their
  errors; AcceptNegotiation reads one within it, where an error aborts the
  transaction without stopping the handler, so the premium is moved and moved back.
* The premium moves in account_db before the transaction of otc_db commits. A
  hang-up closes that transaction (database/sql) and frees the row while the
  handler compensates with `retryExec`.
* Free shares are a constant here: exercises and orders change them in their own
  modules. Settlement dates are left out, so a contract may expire at any time.

### 2.5 OtcInterbank

Both ends are this repository's code, so the model runs it at `Buyer` and at
`Seller`, the banks of the two parties. A call `c` is a request of one of the
parties (an offer, a rejection, an acceptance, an exercise); `call[c]` holds its
label, the terms it read, whether its caller still waits and whether its context
is alive. `attempt[c][i]` is the handler of the i-th COMMIT_TX of a call, which
may run on after the sender has repeated it.

| State | Code |
|---|---|
| `row[bank][n]`, `linked` | `otc_negotiations` at either bank, `partner_negotiation_id` |
| `contract[bank][n]`, `due` | `otc_contracts` at either bank, settlement dates passed |
| `tx` | `otc_interbank_tx` at the bank that voted |
| `balance`, `available`; `cash` | the buyer's account; the seller's |
| `held`, `reserved`; `bought` | the seller's `portfolio_entry`; what the buyer's was given |
| `credited`, `debited`, `struck` | history: how often a premium was paid out, taken, a strike paid |
| `doubted`, `repeated`, `short`, `lost` | history: a caller stopped waiting; a COMMIT_TX was repeated; a premium met too little money; a row was not written |

* The gateway answers a COMMIT_TX with success when both services know nothing of
  it, and drops the result of most statements of the handler: a transaction row
  that was never written is committed without effect.
* CommitOtcInterbank reads the status of its row without a lock and writes
  COMMITTED last. A second attempt beside the first pays or delivers again; the
  debit of the premium has a condition whose row count nobody reads, so a buyer
  whose money is gone gets the contract all the same (`short`).
* acceptCrossBank waits thirty seconds and then reopens the offer. The seller's
  bank goes on: counter-offers that cross, and a second acceptance, find rows
  that the first still works on.
* exerciseCrossBank holds the contract's row only as long as its context lives,
  and gives the money back when it does not get an answer, delivered or not.
* The handlers of the partner's offers and cancellations test a status that they
  read before and update by id: a late PUT reopens a row that was rejected or
  accepted meanwhile.
* Nothing is recovered after a crash, and an expired contract does not give back
  the shares it reserved.
* Ids of the two banks are taken to be disjoint. `Spend`, `SellShare` and
  `SettlementPasses` are the world outside: payments of the buyer, sales of the
  seller, time.

### 2.6 FundPositions

A call is an InvestFund or a WithdrawFund, one label per statement, with its
compensations; `order[o]` is the goroutine that settles a fill of a fund's order
and tells fund-service of it, and `check[o]` the CheckPendingWithdrawals that it
calls after a sale is done.

| State | Code |
|---|---|
| `active`, `liquid` | `investment_funds.active`, `liquid_assets` |
| `position`, `shares` | `client_fund_positions`, `fund_portfolio_positions` |
| `pending`, `arrived` | `client_fund_transactions` of withdrawals that wait, in order of their timestamps |
| `cash` | the accounts of investors and funds |
| `deleting` | funds whose DeleteFund has counted no positions |
| `payouts`, `overlapped`, `adrift` | history: payments of a pending row; two checks at once; accounts left with an error |

* Accounts are in account_db, funds in another database: the transaction commits
  last, and its failure is compensated under the context of the request, which
  may be gone. Where the code undoes too little (a failed commit of an investment
  leaves the fund's account credited, a failed commit of a withdrawal refunds one
  side only, a settlement that fails in its second half declines the order and
  undoes nothing), the holder is `adrift` and the books say nothing of him.
* A withdrawal from a fund without enough liquid assets places SELL orders and a
  PENDING row. When it is paid, `liquid_assets` go down but the fund's account is
  not debited (grpc_server.go:619), and commissions are taken from the account
  but not from `liquid_assets`: `FundBooks` says by exactly how much the two part.
* Two checks at once both read a PENDING row and pay it twice. Two PENDING rows
  of one client, each within his position when it was asked for, drive the
  position below 0.
* The undo of a failed payment takes back dinars from an account in another
  currency (grpc_server.go:646-648).
* DeleteFund counts positions and deactivates in two statements; an investment in
  between is in a fund that is closed.

### 2.7 LoanRepayment

`call[a]` is an ApproveLoan, `job[r]` a run of the collection (the daily one, or
one per TriggerInstallments), `update` the monthly updateVariableRates; each
works on the rows its query returned. Days pass only when no request is under
way (they last ten seconds at most); `SlowRuns` says whether runs may last beyond
midnight (not in the runs below).

| State | Code |
|---|---|
| `loan`, `rows` | `loans`, `loan_installments` (dates are days) |
| `client`, `bank` | the account the loan is paid to and from, the bank's account |
| `day`, `midnight` | CURRENT_DATE; the daily goroutine is to wake up |
| `charged`, `charges`, `disbursed`, `lost` | history: what went over the accounts for a loan |
| `overlapped`, `forced`, `early` | history: two runs at once, a run told which loan to collect, a row charged before its date |

* processInstallment takes the loan, amount and debt of its query: a triggered
  run beside the daily one charges the same loan twice and writes the same
  `remaining_debt` twice. `DebtIsKept`, the theorem, is that this is never to the
  bank's loss: debt goes down by no more than was charged.
* Two approvals of one PENDING loan both pay it out and both insert a schedule,
  and may overwrite a rejection. A failure after the bank's debit undoes nothing.
* An installment counts in full against `remaining_debt`, interest included: a
  loan is PAID_OFF before its last rows, which stay UNPAID. What an installment
  is worth is a choice (`Margins`) that covers the debt.
* A loan in delay is retried after 72 hours by its `last_retry_at`; rows that
  were never tried have NULL there, so the gate is open.
* `next_installment_date` moves by one month from its old value, and the query
  asks for today: a loan that paid a month late, or whose date passed before it
  was approved, is not collected any more (run `loan_overdue`).
* The penalty rate and retry_count influence none of this and are left out. A
  count that fails reads 0 (`CountNone`). A failed statement has had no effect.
  `Spend` and `Earn` are the other movements of the client's account.

## 3. Runs

Bounds are constants of the cfg; nothing else limits a run.

| Run | Instance | Shows |
|---|---|---|
| `exercise` | two contracts, callers k1, k2 on the first and k3 on the second, every statement may be refused, disconnects | `ExerciseIsAtomic` (refinement of OptionExercise) |
| `exercise_crash` | one contract, two calls, all faults with the silent ones, one crash at any label, one give-up of retryExec, one share sold meanwhile, money and shares for two exercises | `LockProtects`, `ExercisedOnce`, `CompletedIsExercised`, `LoggedBeforeExercised` |
| `exercise_recovery` | one call, up to two crashes at step boundaries or at the start of a recovery | `BooksBalance` after recovery, `SagaSettles` |
| `interbank` | payments p1, p2 in opposite directions, local payment q; two attempts, one of which may fail | `PaymentIsAtomic` (refinement of MoneyTransfer), `EveryPaymentSettles` |
| `interbank_faults` | p1 and q; three attempts (the code's number), two failures, all faults, one crash, one deleted account | `CreditedOnce`, `DebitedIsCommitted`, `NeverOverdrawn`, `TwoPhase` |
| `orders` | two orders on one account: a client's buy of two units and sell of one; a buy of two all or none and one on margin; an agent's two buys against a limit for one of them. A supervisor, the expiry loop, a cancellation; one incident | `AllOrNone`, `DoneMeansFilled`, `NoOverfill`, `PendingNotExecuted`, `BooksBalance`, `FillsArePaid`, `HoldingsMatch`, `LimitCharged`, `ApprovedOrderEnds` |
| `negotiations` | two negotiations about two shares, offers of one and of two, a seller with two sessions, a buyer who can pay for two; one failing statement, lost answer, hang-up or crash | `PremiumsBalance`, `ContractsCovered`, `AgreementsHold`, `TypeOK` |
| `otc_interbank` | one negotiation, absent or waiting for the buyer; four requests; an offer of one share for a premium of 2 and one of three shares for 1; two attempts of a COMMIT_TX; one lost, late or failed request or statement, give-up, cancellation or crash; one other payment or sale | `ContractsAgree`, `PremiumOnce`, `SharesDelivered`, `ContractBacked`, `TypeOK` |
| `cross_bank_debit` (violation) | the same with three requests and no failure | `AvailableWithinBalance`: step 3 of an exercise across banks gives the reserved money back |
| `funds` | one fund; two of an investment, two withdrawals of a client, one of the bank and a trade of the manager; two failures, hang-ups or crashes at any statement | `InvestorsWhole`, `FundBooks`, `PendingPaidOnce`, `TypeOK` |
| `loans` | one loan of 5 in three rows, two approvals, the daily run and a triggered one, one update of the rate, one failure or crash, nine days of three to the month | `DebtIsKept`, `BankBooks`, `SerialCharges`, `ScheduleCoversDebt`, `TypeOK` |
| `loan_overdue` (violation) | the same loan, one approval, the daily run, no failure | `OverdueIsCollected`: a loan that paid a month late is never collected again |

The type invariants of `OtcExercise`, `InterbankPayment` and `OrderExecution`,
`NeverOverdrawn` of the orders and the action property `StatusIsFinal` of the
exercise are theorems (section 4) and are not evaluated in these runs again.

Why the bounds are enough. Two contracts that share seller, buyer and account are
the smallest instance in which reservations compete: the buyer has 3 dinars and
each contract costs 2. Two calls of one contract are the smallest that overlap;
callers of the same contract are interchangeable (`CallerSymmetry`, used only in
runs without liveness). One crash reaches every label; the second shows what a
recovery that is interrupted does. For payments, one account pays for two
payments with money for one, or for both once an incoming payment arrived; two
failed attempts let three COMMIT_TX handlers run at once.

For orders, a quantity of two is the smallest with a rest after a fill, and the
client's account (7 dinars) cannot pay for two orders and their fees in every
order of their fills. `MaxIncidents = 1` allows one crash, one refused statement
of any of the labels, or one overlapping poll. The invariants were also checked
with `MaxIncidents = 2` (some four million states, more than a run of the project
should take): they hold there too, and `OrderProofs` proves all of them without
a bound, two under a hypothesis.

For an acceptance across banks, four requests are what the worst case takes: an
acceptance that is given up, the two counter-offers that cross it, and a second
acceptance. Two offers differ in what they need: t1 the buyer's money, t2 all of
the seller's shares; the payment of 3 and the sale of one share take either away
between a vote and its commit. Two attempts of a COMMIT_TX are enough to overlap
(the code makes three).

For funds, the client's position (3) exceeds the liquid assets (2), so his
withdrawal waits for a sale, and the bank's own (1) does not until the client has
withdrawn. An account in a currency of rate 2 tells dinars from units. For loans,
nine days see every row due, the third one late by a retry, and a delay of a
month; two approvals and two runs are the smallest that overlap.

Fairness. `OtcExercise!Fairness`: handler goroutines and recovery goroutines run
(the Go scheduler), and the scan that `main` starts does run. Nothing is assumed
of callers, of the cron or of databases. `InterbankPayment!Fairness`: coordinator
and handlers run, and a request that is not lost arrives.
`OrderExecution!Fairness`: the ticker polls, the loop over the polled rows and
the goroutines go on (`Start` launches them for the life of the process); that an
execution leaves `"price"` assumes a liquid market, in which every limit or stop
price is acceptable in the end. Nothing is assumed of supervisors, owners or the
expiry loop. A crash is bounded by
the constant, not by fairness. Deadlock is not checked because every instance
ends: all calls are made, all payments have ended.

`interbank` assumes that of every request at least one attempt is answered
(`MaxFailures < Retries`) and that no handler is cut short (`Cancels = FALSE`,
no crash). Without the first assumption `executeOutgoing2PC` releases the
reservation though the partner may have credited; without the second
the instance `interbank_cancelled` below shows the difference. The safety properties of
`interbank_faults` need neither.

### Further instances that fail

The following are not among the runs above (one run for one question), but any
of them can be repeated by changing the cfg as shown; the definitions they need
are in the MC modules. `PROJECT.json` refers to some by name.

| Instance | Property | Start from | Change | What happens |
|---|---|---|---|---|
| crash_unlogged, crash_after_commit | `BooksBalance` | `exercise_recovery` | `CrashPoints <- Anywhere` | a crash between a statement and its SUCCESS row (grpc_server.go:1056-1073) leaves money reserved; a crash between Commit and the Completed mark (1345-1356) lets recovery undo an exercised contract |
| crash_in_recovery | `RecoveryIsIdempotent` | `exercise_recovery` with `Spec` | `CrashPoints <- RecoveryBoundaries`, `Disconnects = FALSE` | a crash after the compensators of a recovery: the next one runs them again |
| restart_race | `RecoversOnlyInterrupted` | the same | `Contracts <- TwoContracts`, `Callers = {k1, k2}`, `CrashPoints <- StepBoundaries`, `MaxCrashes = 1` | the scan, which runs beside the server, recovers a live saga |
| order_cancelled | `CancelSticks` | `orders` | `MaxIncidents = 0` | a cancelled order is filled on |
| oversold | `NeverOversold` | `negotiations` | `MaxRefusals = 0` | overlapping acceptances promise more shares than there are |
| interbank_cancelled | `DebitedIsCredited` | `interbank` with `Spec` | `Payments = {p1}`, `Retries = 3`, `Faults = {}`, `Cancels = TRUE` | a cancelled handler has claimed the payment and never credits it |
| | `PaymentIsAtomic` | `interbank` with `Spec` | one of `MaxFailures = 2`, `Faults = {"context"}`, `Faults = {"partner"}` | all attempts of COMMIT_TX fail, or one is answered with an error: the reservation is released though the partner claims the payment (interbank_outgoing.go:287) |
| | `PaymentIsAtomic` | `interbank` with `Spec` | one of `MaxCrashes = 1`, `MaxDeletes = 1`, `Faults = {"commitAnswer"}`, `Faults = {"garbled", "release"}` | a reservation stays behind and no payment explains it |
| | `BooksBalance` | `exercise_recovery` | `InitShares <- LastShares` | step 4 deletes the seller's row, recovery's UPDATE restores nothing |
| | `BooksBalance` | `exercise` | `InitShares <- LastShares`, one contract | the same in the undo of step 4 (1256) |
| | `BooksBalance` | `exercise_recovery` | `FoundAccount <- OtherAccount`, `Accounts = {sAcc, bAcc, bAcc2}`, `InitBalance <- TwoAccountsBalance` | recovery refunds another account of the buyer (saga_recovery.go:98) |
| | `BooksBalance` | `exercise` | `Faults` with `"commitAnswer"` | EXERCISED is committed, its answer lost, the transfers undone |
| | `InFlightIsRecoverable` | `exercise`, one contract | `Callers = {k1, k2}` | a retry runs without a saga row (1015) |
| | `OneExerciseAtATime` | `exercise`, one contract | `Callers = {k1, k2}` | a disconnect frees the row while compensators run |
| | `BooksBalance`, `ExerciseIsAtomic` | `exercise` | `Callers = {k1, k3}`, no symmetry, `Seller <- CrossSeller`, `Buyer <- CrossBuyer`, `Amount <- OneShareEach`, `InitBalance <- RichBalance` | the buyer of one contract sells in another the share that step 4 has given him; step 5 fails and comp4 takes back what is no longer there (1271) |
| | `ExerciseIsAtomic` | `exercise` | the same callers and balance, `SellerAccount <- CrossSellerAccount`, `PayingAccount <- CrossBuyerAccount` | an account pays for one contract with what another, later undone, has credited to it: no order of whole exercises explains it, though the books are right in the end |
| | `ReservationsCovered` | `exercise_crash` | `InitShares <- LastShares` | a SELL settles against reserved shares (portfolio_repo.go:46) |

Of the orders, these were found in the same way:

| Statement | Instance | What happens |
|---|---|---|
| an active order ends being active | `orders` | SetOrderDone is refused: the next polls find remaining 0 and return, the row stays active for ever (scheduler.go:178, 293). `ApprovedOrderEnds` therefore asks for the fills only |
| portions never exceed the quantity | `orders` | a crash or an overlapping poll repeats fills. `NoOverfill` is the bound that does hold |
| `BooksBalance` without `Undisturbed` | `orders` | the bank cannot be credited: the account has been debited, the order is declined (scheduler.go:226, 526) |
| `HoldingsMatch` | two SELL orders of the same units | both pass the check of CreateOrder (grpc_server.go:137), the second sells what is not there |
| `LimitCharged` | `rate` 2 for a PENDING order | ApproveOrder charges the price in the listing's currency (service.go:34), CreateOrder in dinars |
| approved orders of an agent stay within its limit | two agents' orders created at once | both are compared with the same used_limit (grpc_server.go:167) |
| a declined order stays declined | two supervisors | ApproveOrder reads before, and writes after, DeclineOrder (service.go:17-25) |
| a declined order gets no fill | the same | the goroutine does not read the status again |

Of the negotiations:

| Property | Start from | Change | What happens |
|---|---|---|---|
| `PremiumsBalance` | `negotiations` | `Rate <- DoubleRate` | the seller was credited in another currency; what is taken back is the premium as it is in the contract's (grpc_server.go:719-722) |
| `NeverOverdrawn` | `negotiations` | the property alone | two acceptances on one account both pass the test of the balance, and the UPDATE has no condition (grpc_server.go:661, 686) |
| `PremiumsBalance` without `~adrift` | `negotiations` | the premise | a crash after the deduction: the premium is gone, and nothing in the tables says so |

## 4. Proofs

`OtcExerciseProofs`, `InterbankProofs`, `OrderProofs`, `OtcNegotiationProofs`,
`OtcInterbankProofs`, `FundProofs`, `LoanProofs` and `SumTheorems` are checked by
tlapm from nothing; they hold for all values of the constants, the only
assumptions being those the modules state (functions have their types, `Retries`
is positive, and so on). Where books are added up, the sets added over are finite
(`FiniteAssumption`): there are finitely many payments, calls and orders at any
time. Some theorems have hypotheses of their own (`SameCurrency`, `QuotedInDinars`,
`EnoughHeld`, `NothingLeftBehind` and those of the books of an exercise, 4.3); each
excludes a case in which the code does break the property, listed in section 3
("Further instances that fail"), and is said below.

### 4.1 Sums

`SumFunctionOnSet` of the community modules is a fold with an arbitrary choice of
elements. `SumTheorems` proves what books need of it: the sum is an integer, it
changes by what one element changes (`SumChange`, `SumMoves`), it is monotone, it
adds pointwise (`SumPlus`), a part of the set may be taken out (`SumSplit`,
`SumPart`, `SumWhere`), all-zero and constant functions. Induction over the size of the set is
out of reach, its theorem taking an operator; every proof looks instead at a
smallest subset for which the claim would fail (`SmallestSubset`), which exists
because strict inclusion on the subsets of a finite set is well-founded.

### 4.2 Exercise and payments

* **TypeCorrect**, **InterbankTypeCorrect**: the type invariants are inductive.
  They are needed below for the ranges of labels and functions.
* **LockProtectsAlways** and, from it, **ExercisedAtMostOnce**,
  **CompletionIsTrue**, **LogIsComplete** and the action property
  **FinalStatus**. `ExercisedOnce` is not inductive: it needs that a call which
  is at a forward label *and still holds the row lock* sees an ACTIVE contract
  (`LockedIsActive`), that a call past the commit left an EXERCISED one
  (`CommittedIsExercised`), and, for the log, that a label implies the SUCCESS
  rows behind it (`LoggedInOrder`). A call that lost its lock by a disconnect may
  go on at forward labels, but no statement of it takes effect there, which is
  why the invariant speaks of `Holds` and not of labels only.
* **TwoPhaseAlways** and, from it, **NoDoubleCredit** and
  **NoDebitWithoutCommit**. `CreditedOnce` rests on `ClaimedOnce`: the UPDATE on
  `status = 'PENDING'` lets one handler through, and a row is never PENDING
  again. `DebitedIsCommitted` is subtle because MarkRolledBack overwrites
  unconditionally: it holds since a coordinator that debits has never sent a
  rollback (`DebtorNeverRollsBack`), and before a rollback is sent a COMMIT_TX
  handler past its claim has left the row COMMITTED (`NoRollbackYet`). It also
  needs `CommitsAreOfRows`: a COMMIT_TX is only sent after a YES, hence for a row
  that exists, for the gateway answers NotFound with success.
* **AccountsStaySolvent** (`NeverOverdrawn`). That a payment tests money and limits
  under the row lock is not enough: a reservation given back could bring the
  available money above the balance, or the spending below zero. `Solvent` adds
  what is reserved: for each account of a client, available money plus `Held(a)`,
  the sum over the payments waiting, releasing or debiting, is at most the balance,
  and `Held(a)` at most what counts as spent. A reservation that a crash, a failed
  release or a lost answer leaves behind falls out of `Held` and keeps both
  inequalities; so does a deleted account, whose UPDATEs have no effect.
* **PaymentRefines** (`PaymentIsAtomic`): InterbankPayment implements MoneyTransfer.
  The refinement mapping counts what is under way as if it were not there: the
  reservation of a payment that is not claimed yet (`Pending`), and after the claim
  the debit and the credit that are not booked yet. `Claim` maps to `Pay` for a payment
  to a partner, `Transfer` for one inside the bank; the reservation, its release, the
  debit and the credit move as much in the table as they move in the sums
  (`ReserveUnseen`, `ReleaseUnseen`, `DebitUnseen`, `CreditUnseen`), and no other step
  touches either (`PayerUnseen`, `HandlerUnseen`). The proof needs `NeverOverdrawn` for
  the test of `Pay` (money and limit are tested when the payment is reserved, but the
  transfer happens at the claim, when other payments may have run), `TwoPhase`, and
  the invariant `OneWay` (**CommitsSeenThrough**): of a payment whose COMMIT_TX was
  sent no ROLLBACK_TX was or will be, so that its call is still at `"commitTx"`, with
  the reservation standing, when the partner claims.

  Two hypotheses, both of which the code leaves open. `NothingLeftBehind`: no account
  is deleted under a payment, no commit is lost that took effect, no release fails.
  `SeesItThrough`, a constraint on steps: no sender is killed, and none rolls back
  what it has asked the partner to commit, which `executeOutgoing2PC` does when all
  attempts of COMMIT_TX failed (interbank_outgoing.go:287). Section 3 has an instance
  for each in which `PaymentIsAtomic` fails. **PaymentRefinesWhenAnswered** does
  without the second one, for it follows from the constants when nobody is killed,
  fewer attempts fail than are made, and a handler fails only after its attempt was
  given up (`Dependable`, by the invariant `Prompt`); this covers `interbank`, and
  `Cancels = TRUE` too.

  Atomic does not mean complete: a claim whose credit is never booked, since its
  handler was cancelled (interbank_cancelled), counts as under way for ever. That a
  payment ends in both books is `EveryPaymentSettles`, which TLC checks.

### 4.3 The books of an exercise

**BooksAreRight** states `BooksBalance` and **ExerciseRefines** states
`ExerciseIsAtomic`, for any number of contracts and calls, whatever statement fails,
disconnects and restarts included. Both rest on the inductive invariant `BooksInv`
(**BooksAlways**), a conjunction of three parts:

* `Books`: at *every* moment a balance, the available money, a holding and a
  reservation are the opening one, moved by the exercised contracts and by what is in
  flight at the labels of the calls. `BooksBalance` is the case in which nothing is.
* `Rows`: a row of `portfolio_entry` that was deleted held nothing, and sellers have
  what is reserved of theirs. Without it GREATEST(0, ...) might cut an amount off.
* `Control`: what a crash finds. The label of a live call, its saga and the SUCCESS
  rows agree (`LiveCall`, `LogAt`), a contract under recovery has no live call, and a
  lost call is being recovered, or waits for the scan, or has nothing to be undone
  (`LostCall`). This makes a crash move nothing in `Books`: the first compensator that
  recovery takes from the log undoes exactly what the lost call had done.

The proof has a lemma per statement on what it moves (`AccountsMove`, `SharesMove`)
and on which label sets the call enters or leaves; `InFlightChange` turns the latter
into sums. The refinement adds `Solvent` (no account's available money is negative,
which `Exercise` of the abstract specification asks for) and shows that CommitContract
maps to `Exercise`, ExpireContracts to `Expire`, and every other step, recovery and
crash included, to a stutter.

The hypotheses are met by the instance `exercise_recovery` and, but for
`AmpleShares`, by `exercise`; TLC has checked `BooksInv`, `ScanFirst` and `RowFound`
on both. Each one names something that the code leaves open:

| Hypothesis | Says | Without it |
|---|---|---|
| `Undoable` | no statement fails three times, nobody sells the shares on the exchange meanwhile, a commit that took effect is answered | instances with `"commitAnswer"` and a sale; a compensator that is given up leaves its money where it is |
| `OneSided` | nobody sells in one contract what he buys in another | the instance `CrossSeller` |
| `Recoverable` | no crashes; or one call per contract, killed between a SUCCESS row and the next statement (`Killed`), with all rows of the saga written and the buyer's account found | crash_unlogged, crash_after_commit, crash_in_recovery, `OtherAccount`, a retry without a saga row |
| `ScanFirst` | no call arrives before the scan has run | restart_race: main starts the scan and the server side by side (main.go:113) |
| `RowFound` | the row shares are put back to by UPDATE is there | the two instances with `LastShares` |
| `AccountRoles` (refinement only) | no account pays in one contract and is paid in another | the instance `CrossSellerAccount` |

`ScanFirst` and `RowFound` speak of states, so they appear as `[](ScanFirst /\
RowFound)` beside `Spec`. Two theorems do with less: if every seller owns more than
all contracts and calls together can take (`AmpleShares`), `RowFound` is proved
(**BooksAreRightAcrossRestarts**), and if besides nothing crashes the books need no
hypothesis on the behaviour at all (**BooksAreRightUninterrupted**).

### 4.4 Orders

* **TypeCorrect** of `OrderProofs`: the type invariant together with `FillFits`
  (a fill is at least one unit and at most what the goroutine has left), without
  which `remaining` need not stay a natural number.
* **NothingOverdrawn**: `SettlementIsCovered` is where the condition of the
  UPDATE counts, and `fee <= price` where a sale is concerned.
* **PendingIsNotExecuted** rests on `LifeInv`: whoever has fetched, started or
  filled an order did so after its status became APPROVED, and no status ever
  goes back to PENDING.
* **DoneIsFilled** rests on `FillInv`: for every copy of the count of an order
  (its row, the fetched batch, the goroutine) the units in portions plus that
  count are at least the quantity. Old copies are harmless because they count
  too much, never too little; only a cancellation sets a count to 0.
* **AllOrNothing** rests on `WholeInv`: every copy of the count of an
  all-or-none order is 0 or the whole quantity.
* **OverfillIsBounded** (`NoOverfill`). `Ahead(o)` is what the copies of the count
  can still add if nothing fails: an execution under way and a fetched batch entry
  are taken one after the other, the row only when nobody executes. The portions
  and `Ahead` together are at most the quantity, once more per incident
  (`Bounded`): a crash, an overlapping poll and a refused statement each revive at
  most one copy.
* **OrderBooksBalance** (`BooksBalance`) and **PortionsArePaid** (`FillsArePaid`).
  A step either leaves the money (`Rests`), moves a fill from one place of the
  books to another or settles it (`Pays`), or forgets what was in flight after an
  incident (`Loses`); the sums over all orders follow. While nothing failed the
  books are equations; `PaidFor` keeps, whatever fails, the inequality that
  recorded fills were paid, since an incident forgets a fill that was paid and
  never one that was not.
* **LimitsAreCharged** (`LimitCharged`) under `QuotedInDinars`: `ChargeInv` sums
  what the approved BUY orders of an agent owe, except where the call that
  approved has not charged yet (`Owed`). The hypothesis is needed because
  ApproveOrder charges the price in the currency of the listing.
* **HoldingsAreRight** (`HoldingsMatch`) under `EnoughHeld`: the SELL orders of an
  owner together ask for no more than is held. CreateOrder checks each order by
  itself and reserves nothing, so two of them may sell the same units, and
  UpsertHolding then drops the row. `HoldInv` uses the bound of `OverfillIsBounded`
  to see that a sale never empties a holding below what is left to sell.

### 4.5 Negotiations

* **AgreementsKept** (`OtcNegotiationProofs`) proves the action property
  `AgreementsHold`. Its invariant is about rows and transactions, not labels:
  while an acceptance holds the row (`HeldRows`), what it has read is what the
  row says and it is still that side's turn; no two acceptances hold one row
  (`OneHolder`); the status tells who made the last offer (`Turns`). A handler
  whose client is gone holds nothing, and cannot commit.
* **NegotiationTypes**; balances are integers there: the UPDATE of the premium has
  no condition.
* **SellersCovered** (`ContractsCovered`): an acceptance that has counted the
  seller's shares and not ended (`Counted`) still has room for its offer, and no
  other has counted the same seller's (`Room`). `Decided` (a contract is made of a
  negotiation that is final) keeps a contract from being counted twice. All of it
  ends with `raced`: the count locks the row of one negotiation, not the seller.
* **PremiumsStayBalanced** (`PremiumsBalance`) under `SameCurrency`: each balance is
  the initial one, less and plus what contracts and the acceptances under way have
  moved (`Books`), as sums over negotiations and over calls. With another rate a
  compensation takes back the unconverted premium, so the hypothesis is needed.

### 4.6 OTC between banks

`OtcInterbankProofs` proves its five theorems for any number of negotiations,
offers, requests and COMMIT_TX attempts, where the run has one negotiation and
four requests. The invariants build on each other:

* `RowInv`: a negotiation has one turn, at one bank or on its way with one request
  (`OneTurn`), is joined to its partner row once (`Joined`), and an acceptance by
  the buyer finds the same terms at both banks (`SameOffer`); the last two unless
  a caller stopped waiting (`doubted`).
* `TxInv`: a call's vote belongs to its negotiation (`VoteInv`), COMMIT_TX is sent
  only after the vote (`SentInv`), and unless the call was repeated or given up,
  one handler works for it, and only while the call waits (`HandlerInv`).
* `PayInv`, of which **TermsAgree** (`ContractsAgree`) and **PremiumsPaidOnce**
  (`PremiumOnce`) are parts: from the moment a bank has a contract, both rows are
  closed and say the same, and nothing is under way but the call that pays
  (`Sealed`); what a step leaves of that is `Kept`. A contract rests on a vote or
  on a call that got one (`Grounds`); a premium is credited only by the one call
  that is past its commit (`PaidOut`), debited only by its handler (`Taken`).
* `ExerciseInv`, of which **ExercisesMatch** (`SharesDelivered`) is a part: one
  call exercises a contract at a time (`OneExercise`), and an answer means the
  seller delivered or a row was lost (`Answers`).
* **RightsAreBacked** (`ContractBacked`): the shares reserved at the seller's bank
  are at least what contracts still owe (`AllOwed`) plus what acceptances have
  reserved and not yet written down (`AllInHand`). The attempt to prove it for
  several negotiations showed that the property needs its premise: with one
  negotiation no exercise can take another's shares, with two, an exercise that
  is cut off or repeated takes its shares twice, out of what is reserved for the
  other contract. It is therefore stated while no prepared exercise was disturbed.
* **InterbankTypes**; among others, `reserved` never exceeds `held`.

### 4.7 Funds

* **FundTypes** and **PaidOnce** (`PendingPaidOnce`) rest on `Core`: a row that a
  check has read was left by a withdrawal that is over, a withdrawal leaves one row
  and places one order, and a row was paid at least once for each check that has
  it in hand and once if it is COMPLETED (`Backed`). `Steady` adds, while no two
  checks of a fund overlap, that these are all the payments (`Counted`).
* **InvestorsStayWhole** (`InvestorsWhole`): account and positions of an investor
  together, in his currency, are what they were up to what is under way
  (`Whole`), as sums over funds, calls and checks; `Converts` says that a label
  that has moved money moved amount times rate. Overlapping checks do not break
  it: both pay and both take off the position.
* **FundBooksHold** (`FundBooks`): account and `liquid_assets` part by commissions
  and by withdrawals paid after a sale (`Booked`), each step moving one term of
  five sums.

### 4.8 Loans

* **DebtAlwaysKept** (`LoanProofs`) proves `DebtIsKept` for any loans, runs,
  approvals and failures, overlapping as they like. The property alone is not
  inductive: a run writes a `remaining_debt` computed from what its query
  returned. `Inv` therefore adds that what a run read is backed by charges
  (`JobBacked`), which stays true however much others collect meanwhile, because
  `charged` only grows (`Grows`); what an idle, continuing or returning run
  relies on follows from what it relied on before (`Follows`). `PaidOut` says that
  an approval that is about to commit has paid the loan out, so the status it
  writes is backed whatever the status was by then.
* **BooksAlwaysBalance** (`BankBooks`): what clients were charged and loans were
  paid out is in the bank's account, under way or lost. `Balances` has the sums of
  what runs have collected and not yet credited (`Taking`) and of what approvals
  have taken from the bank and not yet given (`Giving`); a failure moves a term to
  `lost`, a restart all of them.
* **LoanTypes**: also that no update of the rate divides by no rows.
* **ChargesAreSerial** (`SerialCharges`) and **SchedulesCoverDebt**
  (`ScheduleCoversDebt`) follow from one invariant, `Orderly`, which holds as long as
  `Serial` does (`Serial` is never regained: `SerialBefore`). `charges` is the number
  of rows paid or being paid; those come first, so the row a run finds is the next
  one (`NextRow`), and `next_installment_date` is its due date, which is why a run
  that nobody asked for is never early. Every copy a run made of a loan is still true of it
  when the run uses it (`SnapshotInOrder`, `HandInOrder`). For the rate, the
  property alone is not inductive, since the amount about to be written was
  computed from older values: `RateInOrder` says that any amount that covers what
  was read covers what is left now. A charge keeps that (`Instalment`: of two
  amounts that each cover a debt in n rows, one paid leaves the other enough for
  the rest in n - 1), and so does rounding up (`Rounding`). TLC checked
  `Serial => Orderly` on the instance of `loans` and with two loans first.

### 4.9 Conventions and limits

A convention that the proofs rely on: two fields of one function value are updated
by a nested `[f EXCEPT ![x] = [@ EXCEPT !.a = .., !.b = ..]]`. The SMT backend of
tlapm 1.4.5 mistranslates `[f EXCEPT ![x].a = .., ![x].b = ..]`: from an equation
with it FALSE can be derived, and every step that uses it is proved vacuously.

Model-checked only:

* Liveness (`SagaSettles`, `EveryPaymentSettles`, `ApprovedOrderEnds`), which is out
  of the prover's reach.

## 5. Modelling decisions

* A statement that a database refuses has no effect. Only the commit of the
  contract transaction, of the reservation and of a local payment may take effect
  and yet report an error (`"commitAnswer"`).
* A SUCCESS row and the status update that follows it are one action: nothing
  reads between them.
* `public_amount` of a holding plays no part in an exercise and is left out.
* `SagaSettles` is checked with `NoContractCurrency = {}`: a party without an
  account in the contract's currency stops `recoverSaga` for good.
* A partner that answers 202 is a failing attempt; a request whose context is
  done fails all its attempts at once.
* A crash of the participant is its handlers failing where they are.
* Conversion between currencies is abstracted to the final amount; that it goes
  through the bank's accounts in both currencies is modelled.
* UpdateAccountLimits is not modelled: lowering a limit below what was spent is
  legal and would make the limit part of `NeverOverdrawn` meaningless.
* An order's account, the bank's and the listing have one currency; prices and
  commissions of an order do not change while it is executed; every fill pays
  one commission. An exchange rate plays a part in the agent's limit only, and a
  failing look-up of it (which the code ignores) is left out.
* `balance` and `available_balance` move together in order-service and are one
  number. Orders of funds (`fund_id`) are in `FundPositions`, with one listing and
  one price, and a contract size of 1.
* Margin: an owner with the MARGIN permission or a sufficient loan is modelled
  by an order that is not on margin, since the balance is then not looked at.
* Amounts are integers; NUMERIC(20,2) in the tables, float64 in the code.

## 6. Plan

Modules in the order of writing; each gets an MC module, its abstract
specification where one is worth stating, and proofs.

1. `OtcExercise`: done, with its type and lock invariants proved.
2. `InterbankPayment`: done, with the two-phase invariant, solvency and the
   refinement of `MoneyTransfer` proved.
3. `OrderExecution`: done, and all its invariants proved. Left: pure functions (price, commission, interval) against reference
   definitions; orders of funds, with `FundPositions`.
4. `OtcNegotiation`: done and proved. `OtcInterbank`: proved, and done but
   for the buyer's side of an acceptance asked for by the seller's bank.
5. `FundPositions`: done and proved. `LoanRepayment`: done, and all its
   invariants but `OverdueIsCollected`, which the code breaks, proved.
6. Proofs: done for every invariant, action property and refinement that the runs
   find true.
7. Left to model: auth lockout and approvals, card requests, tax collection,
   recurring orders, the e-mail consumer, dividends of funds.

## 7. Not modelled

* otc-service: `executeInterbankAcceptBuyerSide` (interbank_outgoing.go:977-1135).
  Between two banks that run this code its request meets a row that is still
  PENDING_SELLER at the partner, which votes NO: nothing comes of it. Listing,
  history and e-mails of negotiations.
* fund-service: CreateFund, UpdateFund, TransferFundsByManager (single rows),
  ProcessFundDividend and the snapshots of the performance scheduler.
* order-service: recurring orders, a timer that calls CreateOrder.
* portfolio-service: public mode and the collection of taxes. account-service:
  CreateAccount and UpdateAccountLimits.
* exchange-service: ConvertAmount moves money between two accounts of a client
  through the bank's in one transaction of account_db, like CreateTransfer in
  `InterbankPayment`, but compares the balance before that transaction and without
  a lock, so that two conversions, or one beside a payment, can overdraw.
* auth-service (lockout, approvals, TOTP), card-service and email-service: most
  requests touch single rows of one database and move neither money nor shares in
  two places; they come last in the plan for that reason.
* securities, employee and client services and the HTTP layer of the gateway are
  reads and single-row writes. Generated gRPC code (half of the Go lines without tests), e-mail
  texts, Swagger docs and seeds have no behaviour of their own. See
  `PROJECT.json` for the status of each component.
