----------------------------- MODULE OtcExercise -----------------------------
(***************************************************************************)
(* The SAGA by which otc-service exercises an intra-bank option contract   *)
(* (handlers/grpc_server.go, ExerciseContract), the recovery of the sagas  *)
(* a crash interrupted (handlers/saga_recovery.go), and the hourly expiry  *)
(* of contracts.  otc_db, account_db and portfolio_db are three databases: *)
(* only the contract row is under a transaction, every other statement     *)
(* commits on its own, so every statement is an action of its own.         *)
(*                                                                         *)
(* A call is a pair <<c, k>>: the k-th call of ExerciseContract for c.  A  *)
(* client that retries is a further k.                                     *)
(***************************************************************************)
EXTENDS Integers, FiniteSets

CONSTANTS
  Contracts,      \* intra-bank contracts, all of the same ticker
  Callers,        \* whoever may call for a contract
  Calls,          \* the calls made, a subset of Contracts \X Callers
  Users,          \* owners of portfolio_entry rows
  Accounts,       \* rows of account_db.accounts
  Seller, Buyer,  \* [Contracts -> Users]
  SellerAccount,  \* [Contracts -> Accounts]: the account step 3 credits
  PayingAccount,  \* [Contracts -> Accounts]: BuyerAccountId of the request
  FoundAccount,   \* [Contracts -> Accounts]: findAccount's choice for the buyer
  NoContractCurrency, \* contracts a party of which has no account in its currency
  Amount,         \* [Contracts -> Nat]: shares
  Pay,            \* [Contracts -> Nat]: totalCostToPay
  Receive,        \* [Contracts -> Nat]: sellerTotalCostToReceive
  InitBalance, InitShares,  \* balances and holdings before the first call
  Faults,         \* labels of the statements a database may refuse
  Disconnects,    \* may the caller's context be cancelled?
  CrashPoints, MaxCrashes,  \* where and how often the process is killed
  MaxGiveUps,     \* how often retryExec runs out of its three attempts
  MaxSales        \* shares the sellers sell on the exchange meanwhile

None == "none"

(* Labels of a call.  Forward labels are the statements of steps 1 to 5,   *)
(* the others the compensators, in the order in which they are reached.    *)
Forward == {"insertSaga", "reserveFunds", "log1", "reserveShares", "log2",
            "debitBuyer", "creditSeller", "log3", "takeShares", "dropRow",
            "giveShares", "log4", "verify", "commit"}
Undoing == {"undoDebit", "undoTake", "c4seller", "c4buyer", "c4drop",
            "c3buyer", "c3seller", "c2", "c1", "end"}
Committed == {"log5", "tax"}
Replied == {"ok", "rejected", "failed", "lost"}
Labels == {"idle", "lock"} \cup Forward \cup Undoing \cup Committed \cup Replied
RecoveryLabels == {"off", "mark", "read", "r4seller", "r4buyer", "r3buyer",
                   "r3seller", "r2", "r1", "finish"}

ASSUME FunctionsAssumption ==
  /\ Seller \in [Contracts -> Users] /\ Buyer \in [Contracts -> Users]
  /\ SellerAccount \in [Contracts -> Accounts]
  /\ PayingAccount \in [Contracts -> Accounts]
  /\ FoundAccount \in [Contracts -> Accounts]
  /\ NoContractCurrency \subseteq Contracts
ASSUME CallersAssumption == None \notin Callers
ASSUME CallsAssumption == Calls \subseteq Contracts \X Callers
ASSUME AmountsAssumption ==
  /\ Amount \in [Contracts -> Nat] /\ Pay \in [Contracts -> Nat]
  /\ Receive \in [Contracts -> Nat]
  /\ InitBalance \in [Accounts -> Nat] /\ InitShares \in [Users -> Nat]
ASSUME BoundsAssumption ==
  /\ MaxCrashes \in Nat /\ MaxGiveUps \in Nat /\ MaxSales \in Nat
  /\ Disconnects \in BOOLEAN /\ CrashPoints \subseteq Labels \cup RecoveryLabels

VARIABLES
  contract,  \* otc_contracts.status
  due,       \* contracts whose settlement date is more than a day old
  lock,      \* the call whose transaction holds the contract's row lock
  saga,      \* otc_saga.status, None before the row exists
  logged,    \* steps with a SUCCESS row in otc_saga_log
  tracked,   \* calls whose sagaID is not 0
  account,   \* accounts: balance and available_balance
  shares,    \* portfolio_entry: amount, reserved_amount, does the row exist
  taxed,     \* contracts with an entry made by recordOtcTax
  pc,        \* what each call does next
  rpc,       \* what each contract's recovery goroutine does next
  scanned,   \* has RecoverInFlightSagas run since the process started?
  crashes, giveUps, sales   \* bounded counters of what the environment did

otcVars == <<contract, due, lock, saga, logged, tracked, taxed>>
bankVars == <<account, shares>>
envVars == <<scanned, crashes, giveUps, sales>>
vars == <<otcVars, bankVars, pc, rpc, envVars>>

TypeOK ==
  /\ contract \in [Contracts -> {"ACTIVE", "EXERCISED", "EXPIRED"}]
  /\ due \subseteq Contracts
  /\ lock \in [Contracts -> Callers \cup {None}]
  /\ saga \in [Contracts ->
       {None, "Running", "Compensating", "Completed", "Compensated"}]
  /\ logged \in [Contracts -> SUBSET (1..5)]
  /\ tracked \subseteq Calls
  /\ account \in [Accounts -> [balance : Int, available : Int]]
  /\ shares \in [Users -> [amount : Int, reserved : Int, row : BOOLEAN]]
  /\ taxed \subseteq Contracts
  /\ pc \in [Calls -> Labels]
  /\ rpc \in [Contracts -> RecoveryLabels]
  /\ scanned \in BOOLEAN
  /\ crashes \in Nat /\ giveUps \in Nat /\ sales \in Nat

(* The service is up, its start-up scan found nothing, no call was made.   *)
Init ==
  /\ contract = [c \in Contracts |-> "ACTIVE"]
  /\ due = {}
  /\ lock = [c \in Contracts |-> None]
  /\ saga = [c \in Contracts |-> None]
  /\ logged = [c \in Contracts |-> {}]
  /\ tracked = {}
  /\ account = [a \in Accounts |->
       [balance |-> InitBalance[a], available |-> InitBalance[a]]]
  /\ shares = [u \in Users |->
       [amount |-> InitShares[u], reserved |-> 0, row |-> InitShares[u] > 0]]
  /\ taxed = {}
  /\ pc = [p \in Calls |-> "idle"]
  /\ rpc = [c \in Contracts |-> "off"]
  /\ scanned = TRUE
  /\ crashes = 0 /\ giveUps = 0 /\ sales = 0

-----------------------------------------------------------------------------
(* The UPDATE statements, as functions of the tables.                      *)

Move(acc, a, b, v) ==
  [acc EXCEPT ![a] = [balance |-> @.balance + b, available |-> @.available + v]]

Positive(n) == IF n < 0 THEN 0 ELSE n   \* GREATEST(0, n)

(* UPDATE portfolio_entry SET amount, reserved_amount: no row, no effect.  *)
Update(sh, u, n, r) ==
  IF sh[u].row
  THEN [sh EXCEPT ![u] = [amount |-> @.amount + n,
                          reserved |-> Positive(@.reserved + r), row |-> TRUE]]
  ELSE sh

(* INSERT ... ON CONFLICT DO UPDATE. *)
Upsert(sh, u, n, r) ==
  IF sh[u].row THEN Update(sh, u, n, r)
  ELSE [sh EXCEPT ![u] = [amount |-> n, reserved |-> r, row |-> TRUE]]

(* DELETE FROM portfolio_entry ... AND amount <= 0. *)
DropEmpty(sh, u) ==
  IF sh[u].row /\ sh[u].amount <= 0
  THEN [sh EXCEPT ![u] = [amount |-> 0, reserved |-> 0, row |-> FALSE]]
  ELSE sh

CanReserveFunds(a, n) ==
  account[a].available >= n /\ account[a].balance >= n
CanReserveShares(u, n) ==
  shares[u].row /\ shares[u].amount - shares[u].reserved >= n

-----------------------------------------------------------------------------
(* Control of a call.                                                      *)

At(p, from, to) == pc[p] = from /\ pc' = [pc EXCEPT ![p] = to]

(* The transaction is open: the row lock is held and the request context   *)
(* is alive.  A cancelled context ends the transaction at once.            *)
Holds(p) == lock[p[1]] = p[2]

Statement(p, from, to) == At(p, from, to) /\ Holds(p)

Release(p) == lock' = IF Holds(p) THEN [lock EXCEPT ![p[1]] = None] ELSE lock

(* sagaStatus(s, _): a no-op when sagaID is 0, its error is dropped. *)
SagaStatus(p, s) ==
  \/ saga' = IF p \in tracked THEN [saga EXCEPT ![p[1]] = s] ELSE saga
  \/ "sagaStatus" \in Faults /\ UNCHANGED saga

(* sagaLog(n, "SUCCESS"), whose error is dropped too. *)
SagaLog(p, n) ==
  \/ logged' = [logged EXCEPT ![p[1]] = @ \cup {n}]
  \/ "sagaLog" \in Faults /\ UNCHANGED logged

(* sagaLog(n, "SUCCESS") then sagaStatus("Running", n). *)
LogSuccess(p, n, from, to) ==
  /\ At(p, from, to)
  /\ SagaLog(p, n)
  /\ SagaStatus(p, "Running")
  /\ UNCHANGED <<contract, due, lock, tracked, taxed, bankVars, rpc, envVars>>

(* A statement fails, or finds the context cancelled, and the call turns   *)
(* to its compensators: sagaStatus("Compensating").                        *)
Fails(p, from, to) ==
  /\ At(p, from, to)
  /\ from \in Faults \/ ~Holds(p)
  /\ SagaStatus(p, "Compensating")
  /\ UNCHANGED <<contract, due, lock, logged, tracked, taxed, bankVars, rpc,
                 envVars>>

(* retryExec: the statement takes effect, or three attempts fail and the   *)
(* caller goes on as if it had.                                            *)
Retried(acc, sh) ==
  /\ UNCHANGED <<scanned, crashes, sales>>
  /\ \/ account' = acc /\ shares' = sh /\ UNCHANGED giveUps
     \/ giveUps < MaxGiveUps /\ giveUps' = giveUps + 1 /\ UNCHANGED bankVars

-----------------------------------------------------------------------------
(* Entry: idempotency check, row lock, saga row.                           *)

CheckCompleted(p) ==
  /\ At(p, "idle", IF saga[p[1]] = "Completed" THEN "ok" ELSE "lock")
  /\ UNCHANGED <<otcVars, bankVars, rpc, envVars>>

(* Mutant: forgets the status check behind the lock. *)
LockContractUnchecked(p) ==
  /\ lock[p[1]] = None
  /\ At(p, "lock", "insertSaga")
  /\ lock' = [lock EXCEPT ![p[1]] = p[2]]
  /\ UNCHANGED <<contract, due, saga, logged, tracked, taxed, bankVars, rpc,
                 envVars>>

LockContract(p) ==
  /\ lock[p[1]] = None
  /\ \/ /\ contract[p[1]] = "ACTIVE" /\ p[1] \notin due
        /\ At(p, "lock", "insertSaga")
        /\ lock' = [lock EXCEPT ![p[1]] = p[2]]
     \/ /\ contract[p[1]] # "ACTIVE" \/ p[1] \in due
        /\ At(p, "lock", "rejected")
        /\ UNCHANGED lock
  /\ UNCHANGED <<contract, due, saga, logged, tracked, taxed, bankVars, rpc,
                 envVars>>

(* otc_saga.contract_id is UNIQUE: the INSERT of a further attempt fails,  *)
(* the error is dropped and sagaID stays 0.                                *)
InsertSaga(p) ==
  /\ At(p, "insertSaga", "reserveFunds")
  /\ \/ /\ saga[p[1]] = None /\ Holds(p)
        /\ saga' = [saga EXCEPT ![p[1]] = "Running"] /\ tracked' = tracked \cup {p}
     \/ /\ saga[p[1]] # None \/ "insertSaga" \in Faults \/ ~Holds(p)
        /\ UNCHANGED <<saga, tracked>>
  /\ UNCHANGED <<contract, due, lock, logged, taxed, bankVars, rpc, envVars>>

(* A query before the INSERT fails: the deferred Rollback frees the row.   *)
LookupFails(p) ==
  /\ At(p, "lock", "rejected") \/ At(p, "insertSaga", "rejected")
  /\ "lookup" \in Faults \/ (Disconnects /\ ~Holds(p))
  /\ Release(p)
  /\ UNCHANGED <<contract, due, saga, logged, tracked, taxed, bankVars, rpc,
                 envVars>>

-----------------------------------------------------------------------------
(* Steps 1 to 5.                                                           *)

ReserveFunds(p) == LET c == p[1] IN
  \/ /\ Statement(p, "reserveFunds", "log1")
     /\ CanReserveFunds(PayingAccount[c], Pay[c])
     /\ account' = Move(account, PayingAccount[c], 0, -Pay[c])
     /\ UNCHANGED <<otcVars, shares, rpc, envVars>>
  \/ /\ Statement(p, "reserveFunds", "end")
     /\ ~CanReserveFunds(PayingAccount[c], Pay[c])
     /\ SagaStatus(p, "Compensating")
     /\ UNCHANGED <<contract, due, lock, logged, tracked, taxed, bankVars, rpc,
                    envVars>>
  \/ Fails(p, "reserveFunds", "end")

ReserveShares(p) == LET c == p[1] IN
  \/ /\ Statement(p, "reserveShares", "log2")
     /\ CanReserveShares(Seller[c], Amount[c])
     /\ shares' = Update(shares, Seller[c], 0, Amount[c])
     /\ UNCHANGED <<otcVars, account, rpc, envVars>>
  \/ /\ Statement(p, "reserveShares", "c1")
     /\ ~CanReserveShares(Seller[c], Amount[c])
     /\ SagaStatus(p, "Compensating")
     /\ UNCHANGED <<contract, due, lock, logged, tracked, taxed, bankVars, rpc,
                    envVars>>
  \/ Fails(p, "reserveShares", "c1")

DebitBuyer(p) == LET c == p[1] IN
  \/ /\ Statement(p, "debitBuyer", "creditSeller")
     /\ account' = Move(account, PayingAccount[c], -Pay[c], 0)
     /\ UNCHANGED <<otcVars, shares, rpc, envVars>>
  \/ Fails(p, "debitBuyer", "c2")

CreditSeller(p) == LET c == p[1] IN
  \/ /\ Statement(p, "creditSeller", "log3")
     /\ account' = Move(account, SellerAccount[c], Receive[c], Receive[c])
     /\ UNCHANGED <<otcVars, shares, rpc, envVars>>
  \/ /\ At(p, "creditSeller", "undoDebit")
     /\ "creditSeller" \in Faults \/ ~Holds(p)
     /\ UNCHANGED <<otcVars, bankVars, rpc, envVars>>

(* Mutant: gives back the reservation as well, which comp1 does later. *)
UndoDebitTwice(p) == LET c == p[1] IN
  /\ At(p, "undoDebit", "c2")
  /\ Retried(Move(account, PayingAccount[c], Pay[c], Pay[c]), shares)
  /\ SagaStatus(p, "Compensating")
  /\ UNCHANGED <<contract, due, lock, logged, tracked, taxed, rpc>>

UndoDebit(p) == LET c == p[1] IN
  /\ At(p, "undoDebit", "c2")
  /\ Retried(Move(account, PayingAccount[c], Pay[c], 0), shares)
  /\ SagaStatus(p, "Compensating")
  /\ UNCHANGED <<contract, due, lock, logged, tracked, taxed, rpc>>

TakeShares(p) == LET c == p[1] IN
  \/ /\ Statement(p, "takeShares", "dropRow")
     /\ shares' = Update(shares, Seller[c], -Amount[c], -Amount[c])
     /\ UNCHANGED <<otcVars, account, rpc, envVars>>
  \/ Fails(p, "takeShares", "c3buyer")

(* The error of this DELETE is dropped. *)
DropRow(p) ==
  /\ At(p, "dropRow", "giveShares")
  /\ \/ Holds(p) /\ shares' = DropEmpty(shares, Seller[p[1]])
     \/ ("dropRow" \in Faults \/ ~Holds(p)) /\ UNCHANGED shares
  /\ UNCHANGED <<otcVars, account, rpc, envVars>>

GiveShares(p) == LET c == p[1] IN
  \/ /\ Statement(p, "giveShares", "log4")
     /\ shares' = Upsert(shares, Buyer[c], Amount[c], 0)
     /\ UNCHANGED <<otcVars, account, rpc, envVars>>
  \/ /\ At(p, "giveShares", "undoTake")
     /\ "giveShares" \in Faults \/ ~Holds(p)
     /\ UNCHANGED <<otcVars, bankVars, rpc, envVars>>

(* A plain UPDATE: it restores nothing once DropRow deleted the row. *)
UndoTake(p) == LET c == p[1] IN
  /\ At(p, "undoTake", "c3buyer")
  /\ Retried(account, Update(shares, Seller[c], Amount[c], Amount[c]))
  /\ SagaStatus(p, "Compensating")
  /\ UNCHANGED <<contract, due, lock, logged, tracked, taxed, rpc>>

VerifyHolding(p) == LET c == p[1] IN
  \/ /\ Statement(p, "verify", "commit")
     /\ shares[Buyer[c]].row /\ shares[Buyer[c]].amount >= Amount[c]
     /\ UNCHANGED <<otcVars, bankVars, rpc, envVars>>
  \/ /\ Statement(p, "verify", "c4seller")
     /\ ~(shares[Buyer[c]].row /\ shares[Buyer[c]].amount >= Amount[c])
     /\ SagaStatus(p, "Compensating")
     /\ UNCHANGED <<contract, due, lock, logged, tracked, taxed, bankVars, rpc,
                    envVars>>
  \/ Fails(p, "verify", "c4seller")

(* UPDATE otc_contracts inside the transaction, and its Commit.  Commit    *)
(* returns an error too when the connection breaks after otc_db committed. *)
CommitContract(p) ==
  \/ /\ Statement(p, "commit", "log5")
     /\ contract' = [contract EXCEPT ![p[1]] = "EXERCISED"]
     /\ Release(p)
     /\ UNCHANGED <<due, saga, logged, tracked, taxed, bankVars, rpc, envVars>>
  \/ /\ "commitAnswer" \in Faults /\ Statement(p, "commit", "c4seller")
     /\ contract' = [contract EXCEPT ![p[1]] = "EXERCISED"]
     /\ Release(p)
     /\ SagaStatus(p, "Compensating")
     /\ UNCHANGED <<due, logged, tracked, taxed, bankVars, rpc, envVars>>
  \/ Fails(p, "commit", "c4seller")

LogCompleted(p) ==
  /\ At(p, "log5", "tax")
  /\ SagaLog(p, 5)
  /\ SagaStatus(p, "Completed")
  /\ UNCHANGED <<contract, due, lock, tracked, taxed, bankVars, rpc, envVars>>

(* The profit depends on the market price, which the model does not keep. *)
RecordExerciseTax(p) ==
  /\ At(p, "tax", "ok")
  /\ taxed' \in {taxed, taxed \cup {p[1]}}
  /\ UNCHANGED <<contract, due, lock, saga, logged, tracked, bankVars, rpc,
                 envVars>>

(* Mutant: step 3 writes the row of step 2. *)
LogStepWrongRow(p) ==
  \/ LogSuccess(p, 1, "log1", "reserveShares")
  \/ LogSuccess(p, 2, "log2", "debitBuyer")
  \/ LogSuccess(p, 2, "log3", "takeShares")
  \/ LogSuccess(p, 4, "log4", "verify")

LogStep(p) ==
  \/ LogSuccess(p, 1, "log1", "reserveShares")
  \/ LogSuccess(p, 2, "log2", "debitBuyer")
  \/ LogSuccess(p, 3, "log3", "takeShares")
  \/ LogSuccess(p, 4, "log4", "verify")

-----------------------------------------------------------------------------
(* The compensators comp4, comp3, comp2, comp1, always run down to comp1.  *)

Compensate(p, from, to, acc, sh) ==
  /\ At(p, from, to)
  /\ Retried(acc, sh)
  /\ UNCHANGED <<otcVars, rpc>>

Comp4(p) == LET c == p[1] IN
  \/ Compensate(p, "c4seller", "c4buyer", account,
       Upsert(shares, Seller[c], Amount[c], Amount[c]))
  \/ Compensate(p, "c4buyer", "c4drop", account,
       Update(shares, Buyer[c], -Amount[c], 0))
  \/ /\ At(p, "c4drop", "c3buyer")
     /\ shares' = DropEmpty(shares, Buyer[c])
     /\ UNCHANGED <<otcVars, account, rpc, envVars>>

Comp3(p) == LET c == p[1] IN
  \/ Compensate(p, "c3buyer", "c3seller",
       Move(account, PayingAccount[c], Pay[c], 0), shares)
  \/ Compensate(p, "c3seller", "c2",
       Move(account, SellerAccount[c], -Receive[c], -Receive[c]), shares)

Comp2(p) == LET c == p[1] IN
  Compensate(p, "c2", "c1", account, Update(shares, Seller[c], 0, -Amount[c]))

Comp1(p) == LET c == p[1] IN
  Compensate(p, "c1", "end", Move(account, PayingAccount[c], 0, Pay[c]), shares)

(* sagaStatus("Compensated") and the deferred Rollback. *)
EndCompensated(p) ==
  /\ At(p, "end", "failed")
  /\ SagaStatus(p, "Compensated")
  /\ Release(p)
  /\ UNCHANGED <<contract, due, logged, tracked, taxed, bankVars, rpc, envVars>>

-----------------------------------------------------------------------------
(* Recovery: one goroutine per saga found Running or Compensating.         *)

(* Mutant: scans the Running sagas only. *)
RecoverRunningSagas ==
  /\ ~scanned /\ scanned' = TRUE
  /\ rpc' = [c \in Contracts |-> IF saga[c] = "Running" THEN "mark" ELSE rpc[c]]
  /\ UNCHANGED <<otcVars, bankVars, pc, crashes, giveUps, sales>>

(* A scan whose query fails recovers nothing until the next start. *)
RecoverInFlightSagas ==
  /\ ~scanned /\ scanned' = TRUE
  /\ \/ rpc' = [c \in Contracts |->
            IF saga[c] \in {"Running", "Compensating"} THEN "mark" ELSE rpc[c]]
     \/ "readLog" \in Faults /\ UNCHANGED rpc
  /\ UNCHANGED <<otcVars, bankVars, pc, crashes, giveUps, sales>>

RecoveryAt(c, from, to) == rpc[c] = from /\ rpc' = [rpc EXCEPT ![c] = to]

MarkCompensating(c) ==
  /\ RecoveryAt(c, "mark", "read")
  /\ \/ saga' = IF saga[c] = "Running" THEN [saga EXCEPT ![c] = "Compensating"]
                ELSE saga
     \/ "sagaStatus" \in Faults /\ UNCHANGED saga
  /\ UNCHANGED <<contract, due, lock, logged, tracked, taxed, bankVars, pc,
                 envVars>>

(* Mutant: enters the descending ifs one too low after step 4. *)
FirstCompensatorOffByOne(steps) ==
  IF steps = {} THEN "finish"
  ELSE IF steps \cap {3, 4, 5} # {} THEN "r3buyer"
  ELSE IF 2 \in steps THEN "r2" ELSE "r1"

(* highestStep decides where the descending ifs are entered. *)
FirstCompensator(steps) ==
  IF steps = {} THEN "finish"
  ELSE IF steps \cap {4, 5} # {} THEN "r4seller"
  ELSE IF 3 \in steps THEN "r3buyer"
  ELSE IF 2 \in steps THEN "r2" ELSE "r1"

(* A query that fails, or a party without an account in the contract's     *)
(* currency, stops the recovery of a saga that has steps to undo.          *)
ReadLog(c) ==
  /\ \/ /\ logged[c] = {} \/ c \notin NoContractCurrency
        /\ RecoveryAt(c, "read", FirstCompensator(logged[c]))
     \/ /\ "readLog" \in Faults \/ (logged[c] # {} /\ c \in NoContractCurrency)
        /\ RecoveryAt(c, "read", "off")
  /\ UNCHANGED <<otcVars, bankVars, pc, envVars>>

Recover(c, from, to, acc, sh) ==
  /\ RecoveryAt(c, from, to)
  /\ Retried(acc, sh)
  /\ UNCHANGED <<otcVars, pc>>

RecoverStep(c) ==
  \/ Recover(c, "r4seller", "r4buyer", account,
       Update(shares, Seller[c], Amount[c], Amount[c]))
  \/ Recover(c, "r4buyer", "r3buyer", account,
       Update(shares, Buyer[c], -Amount[c], 0))
  \/ Recover(c, "r3buyer", "r3seller",
       Move(account, FoundAccount[c], Pay[c], 0), shares)
  \/ Recover(c, "r3seller", "r2",
       Move(account, SellerAccount[c], -Receive[c], -Receive[c]), shares)
  \/ Recover(c, "r2", "r1", account,
       Update(shares, Seller[c], 0, -Amount[c]))
  \/ Recover(c, "r1", "finish", Move(account, FoundAccount[c], 0, Pay[c]), shares)

(* Mutant: a recovered saga is marked as if it had run to its end. *)
MarkCompletedInstead(c) ==
  /\ RecoveryAt(c, "finish", "off")
  /\ saga' = [saga EXCEPT ![c] = "Completed"]
  /\ UNCHANGED <<contract, due, lock, logged, tracked, taxed, bankVars, pc,
                 envVars>>

MarkCompensated(c) ==
  /\ RecoveryAt(c, "finish", "off")
  /\ \/ saga' = [saga EXCEPT ![c] = "Compensated"]
     \/ "sagaStatus" \in Faults /\ UNCHANGED saga
  /\ UNCHANGED <<contract, due, lock, logged, tracked, taxed, bankVars, pc,
                 envVars>>

-----------------------------------------------------------------------------
(* Time, expiry, and the environment.                                      *)

SettlementPasses(c) ==
  /\ c \notin due /\ due' = due \cup {c}
  /\ UNCHANGED <<contract, lock, saga, logged, tracked, taxed, bankVars, pc,
                 rpc, envVars>>

(* Mutant: does not wait for row locks. *)
ExpireLocked == LET stale == {c \in due : contract[c] = "ACTIVE"} IN
  /\ stale # {}
  /\ contract' = [c \in Contracts |-> IF c \in stale THEN "EXPIRED" ELSE contract[c]]
  /\ taxed' = taxed \cup stale
  /\ UNCHANGED <<due, lock, saga, logged, tracked, bankVars, pc, rpc, envVars>>

(* One UPDATE over all due contracts; it waits for every row lock. *)
ExpireContracts == LET stale == {c \in due : contract[c] = "ACTIVE"} IN
  /\ stale # {}
  /\ \A c \in stale : lock[c] = None
  /\ contract' = [c \in Contracts |-> IF c \in stale THEN "EXPIRED" ELSE contract[c]]
  /\ taxed' = taxed \cup stale
  /\ UNCHANGED <<due, lock, saga, logged, tracked, bankVars, pc, rpc, envVars>>

(* The caller's context is cancelled: database/sql rolls the transaction   *)
(* back and frees the row while the handler goroutine is still running.    *)
Disconnect(p) ==
  /\ Disconnects /\ Holds(p)
  /\ lock' = [lock EXCEPT ![p[1]] = None]
  /\ UNCHANGED <<contract, due, saga, logged, tracked, taxed, bankVars, pc, rpc,
                 envVars>>

(* order-service settles a SELL of one share: UpsertHolding reads neither  *)
(* reserved_amount nor the contracts (external to otc-service).            *)
SellOnExchange(u) ==
  /\ sales < MaxSales /\ sales' = sales + 1
  /\ shares[u].row /\ shares[u].amount > 0
  /\ shares' = DropEmpty(Update(shares, u, -1, 0), u)
  /\ UNCHANGED <<otcVars, account, pc, rpc, scanned, crashes, giveUps>>

Busy(p) == pc[p] \notin {"idle"} \cup Replied

(* The process is killed: goroutines vanish, open transactions roll back. *)
Crash ==
  /\ crashes < MaxCrashes /\ crashes' = crashes + 1
  /\ \A p \in Calls : Busy(p) => pc[p] \in CrashPoints
  /\ \A c \in Contracts : rpc[c] # "off" => rpc[c] \in CrashPoints
  /\ (\E p \in Calls : Busy(p)) \/ (\E c \in Contracts : rpc[c] # "off")
  /\ pc' = [p \in Calls |-> IF Busy(p) THEN "lost" ELSE pc[p]]
  /\ rpc' = [c \in Contracts |-> "off"]
  /\ lock' = [c \in Contracts |-> None]
  /\ scanned' = FALSE
  /\ UNCHANGED <<contract, due, saga, logged, tracked, taxed, bankVars, giveUps,
                 sales>>

CallStep(p) ==
  \/ CheckCompleted(p) \/ LockContract(p) \/ InsertSaga(p) \/ LookupFails(p)
  \/ ReserveFunds(p) \/ ReserveShares(p) \/ DebitBuyer(p) \/ CreditSeller(p)
  \/ UndoDebit(p) \/ TakeShares(p) \/ DropRow(p) \/ GiveShares(p) \/ UndoTake(p)
  \/ VerifyHolding(p) \/ CommitContract(p) \/ LogStep(p) \/ LogCompleted(p)
  \/ RecordExerciseTax(p)
  \/ Comp4(p) \/ Comp3(p) \/ Comp2(p) \/ Comp1(p) \/ EndCompensated(p)

RecoveryStep(c) ==
  MarkCompensating(c) \/ ReadLog(c) \/ RecoverStep(c) \/ MarkCompensated(c)

Next ==
  \/ \E p \in Calls : CallStep(p) \/ Disconnect(p)
  \/ \E c \in Contracts : RecoveryStep(c) \/ SettlementPasses(c)
  \/ RecoverInFlightSagas
  \/ ExpireContracts
  \/ \E u \in Users : SellOnExchange(u)
  \/ Crash

Spec == Init /\ [][Next]_vars

(* Handler goroutines and recovery goroutines are scheduled, and the scan  *)
(* main starts does run.  Nothing is assumed of callers, of the databases' *)
(* health, of the cron or of time.                                         *)
Fairness ==
  /\ WF_vars(RecoverInFlightSagas)
  /\ \A p \in Calls : WF_vars(CallStep(p) /\ pc[p] # "idle")
  /\ \A c \in Contracts : WF_vars(RecoveryStep(c))

FairSpec == Spec /\ Fairness

-----------------------------------------------------------------------------
(* Properties.                                                             *)

(* At most one call of ExerciseContract ever gets its contract row to      *)
(* EXERCISED, however calls, expiry, disconnects, crashes and recoveries   *)
(* interleave (the FOR UPDATE lock and the status check behind it).        *)
ExercisedOnce ==
  \A p, q \in Calls :
    p[1] = q[1] /\ pc[p] \in Committed /\ pc[q] \in Committed => p = q

(* A saga marked Completed, and a call answered with EXERCISED, belong to  *)
(* a contract that is EXERCISED: the idempotency shortcut never lies.      *)
CompletedIsExercised ==
  /\ \A c \in Contracts : saga[c] = "Completed" => contract[c] = "EXERCISED"
  /\ \A p \in Calls : pc[p] = "ok" => contract[p[1]] = "EXERCISED"

(* A contract is EXERCISED only with the SUCCESS rows of all four          *)
(* transfer steps in otc_saga_log, what recovery needs to undo it, unless  *)
(* otc_db refused one of those rows: sagaLog drops the error.              *)
LoggedBeforeExercised ==
  "sagaLog" \notin Faults =>
    \A c \in Contracts : contract[c] = "EXERCISED" => 1..4 \subseteq logged[c]

(* An EXERCISED or EXPIRED contract keeps its status for ever: recovery,   *)
(* expiry and late calls never revive or reclassify it.                    *)
StatusIsFinal ==
  [][\A c \in Contracts : contract[c] # "ACTIVE" => contract'[c] = contract[c]]_vars

(* Why the four properties above hold, as one inductive invariant: whoever *)
(* holds the row lock at a forward label sees an ACTIVE contract, whoever  *)
(* is past the commit left an EXERCISED one, and the steps behind a        *)
(* forward label have their SUCCESS rows.                                  *)
LockedIsActive ==
  \A p \in Calls : pc[p] \in Forward /\ Holds(p) => contract[p[1]] = "ACTIVE"

CommittedIsExercised ==
  \A p \in Calls : pc[p] \in Committed => contract[p[1]] = "EXERCISED"

Behind(n) ==
  CASE n = 1 -> Forward \ {"insertSaga", "reserveFunds", "log1"}
    [] n = 2 -> Forward \ {"insertSaga", "reserveFunds", "log1", "reserveShares",
                           "log2"}
    [] n = 3 -> {"takeShares", "dropRow", "giveShares", "log4", "verify", "commit"}
    [] n = 4 -> {"verify", "commit"}

LoggedInOrder ==
  "sagaLog" \notin Faults =>
    \A p \in Calls : \A n \in 1..4 : pc[p] \in Behind(n) => n \in logged[p[1]]

LockProtects ==
  /\ LockedIsActive /\ CommittedIsExercised /\ LoggedInOrder
  /\ ExercisedOnce /\ CompletedIsExercised /\ LoggedBeforeExercised

(* Every saga row reaches Completed or Compensated, through the call that  *)
(* inserted it or, after a crash, through recovery.                        *)
SagaSettles ==
  \A c \in Contracts :
    saga[c] \in {"Running", "Compensating"} ~> saga[c] \in {"Completed", "Compensated"}

(* main.go: "Recover any SAGA flows that were interrupted by a previous    *)
(* crash".  Read from the coordinator's side: while a call has moved money *)
(* or shares, a saga row exists that a restart would find.                 *)
InFlightIsRecoverable ==
  \A p \in Calls :
    pc[p] \in Forward \ {"insertSaga", "reserveFunds"} =>
      saga[p[1]] \in {"Running", "Compensating"}

(* The same comment read from recovery's side: a saga under recovery has   *)
(* no live call, for it was interrupted by a previous crash.               *)
RecoversOnlyInterrupted ==
  \A p \in Calls :
    rpc[p[1]] # "off" => ~(p \in tracked /\ Busy(p))

(* ExerciseContract: "Lock the contract row to prevent concurrent          *)
(* exercises of the same contract".                                        *)
OneExerciseAtATime ==
  \A p, q \in Calls :
    p[1] = q[1] /\ pc[p] \in Forward \cup Undoing /\ pc[q] \in Forward \cup Undoing
      => p = q
=============================================================================
