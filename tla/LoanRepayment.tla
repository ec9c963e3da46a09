---------------------------- MODULE LoanRepayment ----------------------------
(***************************************************************************)
(* loan-service: applications, approval and rejection                      *)
(* (handlers/grpc_server.go), the daily collection of installments and the *)
(* monthly update of variable rates (handlers/cron.go).  loan_db and       *)
(* account_db are two databases and, the schedule of an approval apart,    *)
(* every statement commits on its own: a run of the collection works on    *)
(* what its query returned, while others work on the same loans.           *)
(***************************************************************************)
EXTENDS Integers, Sequences, FiniteSets, Functions

CONSTANTS
  Loans,          \* rows of loans, all of one client and repaid from one account
  Variable,       \* those with interest_rate_type VARIABLE
  Amount,         \* loans.amount
  Period,         \* loans.repayment_period
  Triggers,       \* calls of TriggerInstallments under way at the same time
  Approvals,      \* calls of ApproveLoan
  Month,          \* '1 month', in days
  RetryGap,       \* '72 hours', in days
  Margins,        \* what interest adds to an installment
  InitClient, InitBank,
  MaxDay, MaxTriggers, MaxUpdates, MaxFaults, MaxSpent, MaxEarned, \* bounds
  LastApproval,   \* bound on the day an approval starts
  SlowRuns        \* runs and updates may last beyond midnight

Daily == "daily"                 \* the goroutine runDailyCron
Runs == Triggers \cup {Daily}

ASSUME LoansAssumption ==
  /\ Variable \subseteq Loans /\ Daily \notin Triggers
  /\ Amount \in Nat \ {0} /\ Period \in Nat \ {0} /\ Margins \subseteq Nat
  /\ Month \in Nat \ {0} /\ RetryGap \in Nat
  /\ InitClient \in Nat /\ InitBank \in Int
ASSUME FiniteAssumption == IsFiniteSet(Loans) /\ IsFiniteSet(Triggers) /\ IsFiniteSet(Approvals)
ASSUME BoundsAssumption ==
  /\ MaxDay \in Nat /\ MaxTriggers \in Nat /\ MaxUpdates \in Nat
  /\ MaxFaults \in Nat /\ MaxSpent \in Nat /\ MaxEarned \in Nat
  /\ LastApproval \in Nat /\ SlowRuns \in BOOLEAN

VARIABLES
  loan,       \* status, agreed_date, next_installment_date,
              \* next_installment_amount, remaining_debt
  rows,       \* loan_installments: expected_due_date, status, last_retry_at
  client,     \* the account's available_balance (balance moves with it)
  bank,       \* balance of the account of type BANK
  day,        \* CURRENT_DATE
  midnight,   \* runDailyCron is to wake up today
  job,        \* per run: label, loans still to come, the loan and row at hand
  call,       \* per ApproveLoan: label and loan
  update,     \* updateVariableRates: label, loans to come, the count it read
  charged, charges,  \* what the client was charged for a loan, and how often
  disbursed,  \* what the client was paid for a loan
  lost,       \* taken from one account and not put in the other
  overlapped, \* two runs of the collection were under way at the same time
  forced,     \* a run was told which loan to collect
  early,      \* a row was charged before its expected_due_date
  bounds      \* how many triggers, updates, faults; spent and earned

tables == <<loan, rows>>
money == <<client, bank, charged, charges, disbursed, lost>>
clock == <<day, midnight>>
ghosts == <<overlapped, forced, early>>
vars == <<tables, money, clock, job, call, update, ghosts, bounds>>

None == "none"
Never == -1                      \* a NULL last_retry_at
Statuses == {"NONE", "PENDING", "APPROVED", "REJECTED", "PAID_OFF", "IN_DELAY"}
Asleep == [at |-> "idle", todo |-> {}, loan |-> None, amount |-> 0, debt |-> 0, row |-> 0]
Resting == [at |-> "idle", todo |-> {}, loan |-> None, debt |-> 0, left |-> 0]

(* Labels at which the client's debit has not reached the bank; at which   *)
(* the bank's debit has not reached the client.                            *)
Collecting(r) == job[r].at = "credit"
Disbursing(a) == call[a].at = "credit"

Init ==
  /\ loan = [l \in Loans |-> [status |-> "NONE", agreed |-> 0, next |-> 0, amount |-> 0, debt |-> 0]]
  /\ rows = [l \in Loans |-> <<>>]
  /\ client = InitClient /\ bank = InitBank
  /\ day = 0 /\ midnight = FALSE
  /\ job = [r \in Runs |-> Asleep]
  /\ call = [a \in Approvals |-> [at |-> "idle", loan |-> None]]
  /\ update = Resting
  /\ charged = [l \in Loans |-> 0] /\ charges = [l \in Loans |-> 0]
  /\ disbursed = [l \in Loans |-> 0] /\ lost = 0
  /\ overlapped = FALSE /\ forced = FALSE /\ early = FALSE
  /\ bounds = [triggers |-> 0, updates |-> 0, faults |-> 0, spent |-> 0, earned |-> 0]

(* monthlyInstallment: what n installments of at least a n-th of the debt  *)
(* each can be; the interest is never less than what the rounding takes.   *)
Installments(debt, n) == {(debt + n - 1) \div n + i : i \in Margins}

Open(l) == {i \in DOMAIN rows[l] : rows[l][i].status # "PAID"}
PaidRows(l) == DOMAIN rows[l] \ Open(l)
Earliest(l) == {i \in Open(l) : \A k \in Open(l) : rows[l][i].due <= rows[l][k].due}

Count(field) == bounds' = [bounds EXCEPT ![field] = @ + 1]
Fault == bounds.faults < MaxFaults /\ Count("faults")

-----------------------------------------------------------------------------
(* Applications. *)

SubmitLoanApplication(l) ==
  /\ loan[l].status = "NONE"
  /\ \E amount \in Installments(Amount, Period) :
       loan' = [loan EXCEPT ![l] = [status |-> "PENDING", agreed |-> day, next |-> day + Month,
                                    amount |-> amount, debt |-> Amount]]
  /\ UNCHANGED <<rows, money, clock, job, call, update, ghosts, bounds>>

RejectLoan(l) ==
  /\ loan[l].status = "PENDING"
  /\ loan' = [loan EXCEPT ![l] = [@ EXCEPT !.status = "REJECTED"]]
  /\ UNCHANGED <<rows, money, clock, job, call, update, ghosts, bounds>>

(* ApproveLoan reads the status, moves the money in two statements, and    *)
(* then inserts the schedule in a transaction that looks at nothing.       *)
ReadApplication(a, l) ==
  /\ call[a].at = "idle" /\ day <= LastApproval
  /\ loan[l].status = "PENDING"
  /\ call' = [call EXCEPT ![a] = [at |-> "debit", loan |-> l]]
  /\ UNCHANGED <<tables, money, clock, job, update, ghosts, bounds>>

DebitBank(a) ==
  /\ call[a].at = "debit"
  /\ bank' = bank - Amount
  /\ call' = [call EXCEPT ![a] = [@ EXCEPT !.at = "credit"]]
  /\ UNCHANGED <<tables, client, charged, charges, disbursed, lost, clock, job, update, ghosts, bounds>>

CreditClient(a) ==
  /\ call[a].at = "credit"
  /\ client' = client + Amount
  /\ disbursed' = [disbursed EXCEPT ![call[a].loan] = @ + Amount]
  /\ call' = [call EXCEPT ![a] = [@ EXCEPT !.at = "commit"]]
  /\ UNCHANGED <<tables, bank, charged, charges, lost, clock, job, update, ghosts, bounds>>

Schedule(l) ==
  [i \in 1 .. Period |-> [due |-> loan[l].agreed + i * Month, status |-> "UNPAID", last |-> Never]]

CommitApproval(a) ==
  LET l == call[a].loan IN
  /\ call[a].at = "commit"
  /\ rows' = [rows EXCEPT ![l] = @ \o Schedule(l)]
  /\ \E amount \in Installments(Amount, Period) :
       loan' = [loan EXCEPT ![l] = [@ EXCEPT !.status = "APPROVED", !.next = loan[l].agreed + Month,
                                             !.amount = amount, !.debt = Amount]]
  /\ call' = [call EXCEPT ![a] = [@ EXCEPT !.at = "end"]]
  /\ UNCHANGED <<money, clock, job, update, ghosts, bounds>>

(* A statement fails, or the request is over: nothing is undone. *)
ApprovalFails(a) ==
  /\ call[a].at \in {"debit", "credit", "commit"}
  /\ Fault
  /\ lost' = IF Disbursing(a) THEN lost + Amount ELSE lost
  /\ call' = [call EXCEPT ![a] = [@ EXCEPT !.at = "end"]]
  /\ UNCHANGED <<tables, client, bank, charged, charges, disbursed, clock, job, update, ghosts>>

-----------------------------------------------------------------------------
(* collectInstallments.  The query returns what the run will work on:      *)
(* account, amount and remaining_debt are not read again.  A retry made at *)
(* midnight is 72 hours old at midnight, give or take what the runs took.  *)

RetryDue(l, slack) ==
  \E i \in Open(l) : \/ rows[l][i].last = Never
                     \/ rows[l][i].last + RetryGap + slack <= day

DueToday(l, slack) ==
  \/ loan[l].status = "APPROVED" /\ loan[l].next = day
  \/ loan[l].status = "IN_DELAY" /\ RetryDue(l, slack)

Snapshot(l) == [loan |-> l, amount |-> loan[l].amount, debt |-> loan[l].debt]

Fetch(r, set) ==
  /\ job[r].at = "idle"
  /\ job' = [job EXCEPT ![r] =
               IF set = {} THEN @ ELSE [@ EXCEPT !.at = "loop", !.todo = {Snapshot(l) : l \in set}]]
  /\ overlapped' = (overlapped \/ \E q \in Runs \ {r} : job[q].at # "idle")

RunDailyCron ==
  /\ midnight
  /\ \E slack \in {0, 1} : Fetch(Daily, {l \in Loans : DueToday(l, slack)})
  /\ midnight' = FALSE
  /\ UNCHANGED <<tables, money, day, call, update, forced, early, bounds>>

TriggerInstallments(r) ==
  /\ bounds.triggers < MaxTriggers /\ Count("triggers")
  /\ \/ /\ \E slack \in {0, 1} : Fetch(r, {l \in Loans : DueToday(l, slack)})
        /\ UNCHANGED forced
     \/ /\ \E l \in Loans :
             /\ loan[l].status \in {"APPROVED", "IN_DELAY"}
             /\ Fetch(r, {l})
        /\ forced' = TRUE
  /\ UNCHANGED <<tables, money, clock, call, update, early>>

(* processInstallment.  Next label of a run that is done with a loan. *)
Return(j) == IF j.todo = {} THEN Asleep ELSE [Asleep EXCEPT !.at = "loop", !.todo = j.todo]

FindRow(r) ==
  /\ job[r].at = "loop"
  /\ \E s \in job[r].todo :
       \/ /\ Open(s.loan) = {}
          /\ job' = [job EXCEPT ![r] = Return([job[r] EXCEPT !.todo = job[r].todo \ {s}])]
       \/ \E i \in Earliest(s.loan) :
            job' = [job EXCEPT ![r] = [at |-> "debit", todo |-> job[r].todo \ {s}, loan |-> s.loan,
                                       amount |-> s.amount, debt |-> s.debt, row |-> i]]
  /\ UNCHANGED <<tables, money, clock, call, update, ghosts, bounds>>

At(r, label) == job' = [job EXCEPT ![r] = [@ EXCEPT !.at = label]]
Leave(r) == job' = [job EXCEPT ![r] = Return(@)]

DebitClient(r) ==
  LET j == job[r] IN
  /\ j.at = "debit"
  /\ client >= j.amount
  /\ client' = client - j.amount
  /\ charged' = [charged EXCEPT ![j.loan] = @ + j.amount]
  /\ charges' = [charges EXCEPT ![j.loan] = @ + 1]
  /\ early' = (early \/ rows[j.loan][j.row].due > day)
  /\ At(r, "credit")
  /\ UNCHANGED <<tables, bank, disbursed, lost, clock, call, update, overlapped, forced, bounds>>

(* A mutant: RowsAffected is not looked at. *)
FundsAssumed(r) ==
  /\ job[r].at = "debit"
  /\ client < job[r].amount
  /\ At(r, "mark")
  /\ UNCHANGED <<tables, money, clock, call, update, ghosts, bounds>>

InsufficientFunds(r) ==
  /\ job[r].at = "debit"
  /\ client < job[r].amount
  /\ At(r, "late")
  /\ UNCHANGED <<tables, money, clock, call, update, ghosts, bounds>>

(* A mutant: the bank is credited with another parameter of the call. *)
CreditDebt(r) ==
  /\ job[r].at = "credit"
  /\ bank' = bank + job[r].debt
  /\ At(r, "mark")
  /\ UNCHANGED <<tables, client, charged, charges, disbursed, lost, clock, call, update, ghosts, bounds>>

CreditBank(r) ==
  /\ job[r].at = "credit"
  /\ bank' = bank + job[r].amount
  /\ At(r, "mark")
  /\ UNCHANGED <<tables, client, charged, charges, disbursed, lost, clock, call, update, ghosts, bounds>>

UpdateRow(l, i, status, last) ==
  rows' = [rows EXCEPT ![l] = [@ EXCEPT ![i] = [due |-> rows[l][i].due, status |-> status, last |-> last]]]

MarkPaid(r) ==
  /\ job[r].at = "mark"
  /\ UpdateRow(job[r].loan, job[r].row, "PAID", rows[job[r].loan][job[r].row].last)
  /\ At(r, "advance")
  /\ UNCHANGED <<loan, money, clock, call, update, ghosts, bounds>>

(* A mutant: the remainder is not cut off at zero. *)
NewDifference(j) == j.debt - j.amount

(* newRemaining, from the remaining_debt the run was started with. *)
NewRemaining(j) == IF j.debt > j.amount THEN j.debt - j.amount ELSE 0

(* A mutant: next_installment_date stays where it was. *)
KeepDate(r) ==
  LET j == job[r] IN
  /\ j.at = "advance"
  /\ loan' = [loan EXCEPT ![j.loan] =
       [@ EXCEPT !.debt = NewRemaining(j),
                 !.status = IF NewRemaining(j) = 0 THEN "PAID_OFF" ELSE "APPROVED"]]
  /\ Leave(r)
  /\ UNCHANGED <<rows, money, clock, call, update, ghosts, bounds>>

AdvanceSchedule(r) ==
  LET j == job[r] IN
  /\ j.at = "advance"
  /\ loan' = [loan EXCEPT ![j.loan] =
       [@ EXCEPT !.debt = NewRemaining(j), !.next = loan[j.loan].next + Month,
                 !.status = IF NewRemaining(j) = 0 THEN "PAID_OFF" ELSE "APPROVED"]]
  /\ Leave(r)
  /\ UNCHANGED <<rows, money, clock, call, update, ghosts, bounds>>

MarkLate(r) ==
  /\ job[r].at = "late"
  /\ UpdateRow(job[r].loan, job[r].row, "LATE", day)
  /\ At(r, "delay")
  /\ UNCHANGED <<loan, money, clock, call, update, ghosts, bounds>>

SetInDelay(r) ==
  /\ job[r].at = "delay"
  /\ loan' = [loan EXCEPT ![job[r].loan] = [@ EXCEPT !.status = "IN_DELAY"]]
  /\ Leave(r)
  /\ UNCHANGED <<rows, money, clock, call, update, ghosts, bounds>>

(* A statement fails: up to the debit the loan is left for another day,    *)
(* after it the error is logged and the run goes on.                       *)
StatementFails(r) ==
  /\ Fault
  /\ \/ job[r].at \in {"debit", "advance", "delay"} /\ Leave(r)
     \/ job[r].at = "credit" /\ At(r, "mark")
     \/ job[r].at = "mark" /\ At(r, "advance")
     \/ job[r].at = "late" /\ At(r, "delay")
  /\ lost' = IF Collecting(r) THEN lost + job[r].amount ELSE lost
  /\ UNCHANGED <<tables, client, bank, charged, charges, disbursed, clock, call, update, ghosts>>

-----------------------------------------------------------------------------
(* updateVariableRates, once a month: what it read of the loan, the count  *)
(* of PAID rows, the UPDATE.                                               *)

FetchVariable ==
  LET set == {l \in Variable : loan[l].status = "APPROVED"} IN
  /\ update.at = "idle" /\ set # {}
  /\ bounds.updates < MaxUpdates /\ Count("updates")
  /\ update' = [update EXCEPT !.at = "loop",
                              !.todo = {[loan |-> l, debt |-> loan[l].debt] : l \in set}]
  /\ UNCHANGED <<tables, money, clock, job, call, ghosts>>

Rested(u) == IF u.todo = {} THEN Resting ELSE [Resting EXCEPT !.at = "loop", !.todo = u.todo]

(* A mutant: the rows already PAID are not taken off the period. *)
CountNone ==
  /\ update.at = "loop"
  /\ \E s \in update.todo :
       update' = [at |-> "write", todo |-> update.todo \ {s}, loan |-> s.loan,
                  debt |-> s.debt, left |-> Period]
  /\ UNCHANGED <<tables, money, clock, job, call, ghosts, bounds>>

CountPaid ==
  /\ update.at = "loop"
  /\ \E s \in update.todo :
       LET left == Period - Cardinality(PaidRows(s.loan))
           rest == update.todo \ {s}
       IN update' = IF left <= 0
                    THEN Rested([update EXCEPT !.todo = rest])
                    ELSE [at |-> "write", todo |-> rest, loan |-> s.loan, debt |-> s.debt, left |-> left]
  /\ UNCHANGED <<tables, money, clock, job, call, ghosts, bounds>>

UpdateRate ==
  /\ update.at = "write"
  /\ \E amount \in Installments(update.debt, update.left) :
       loan' = [loan EXCEPT ![update.loan] = [@ EXCEPT !.amount = amount]]
  /\ update' = Rested(update)
  /\ UNCHANGED <<rows, money, clock, job, call, ghosts, bounds>>

(* The error of the count is dropped, and the count is 0; a failed UPDATE  *)
(* is logged, and the next loan comes.                                     *)
UpdateFails ==
  /\ Fault
  /\ \/ /\ update.at = "loop"
        /\ \E s \in update.todo :
             update' = [at |-> "write", todo |-> update.todo \ {s}, loan |-> s.loan,
                        debt |-> s.debt, left |-> Period]
     \/ update.at = "write" /\ update' = Rested(update)
  /\ UNCHANGED <<tables, money, clock, job, call, ghosts>>

-----------------------------------------------------------------------------
(* The client's other payments and income; the calendar; a restart. *)

Spend ==
  /\ client > 0 /\ bounds.spent < MaxSpent /\ Count("spent")
  /\ client' = client - 1
  /\ UNCHANGED <<tables, bank, charged, charges, disbursed, lost, clock, job, call, update, ghosts>>

Earn ==
  /\ bounds.earned < MaxEarned /\ Count("earned")
  /\ client' = client + 1
  /\ UNCHANGED <<tables, bank, charged, charges, disbursed, lost, clock, job, call, update, ghosts>>

(* runDailyCron sleeps until the next midnight only when its run is over:  *)
(* a run that lasts longer skips one.  A request lasts 10 seconds (the     *)
(* gateway's timeout) and is taken to be over by midnight.                 *)
Midnight ==
  /\ day < MaxDay /\ ~midnight
  /\ \/ SlowRuns
     \/ update.at = "idle" /\ \A r \in Runs : job[r].at = "idle"
  /\ \A a \in Approvals : call[a].at \in {"idle", "end"}
  /\ day' = day + 1
  /\ midnight' = (job[Daily].at = "idle")
  /\ UNCHANGED <<tables, money, job, call, update, ghosts, bounds>>

InTransit ==
  SumFunctionOnSet([r \in Runs |-> job[r].amount], {r \in Runs : Collecting(r)})
    + Amount * Cardinality({a \in Approvals : Disbursing(a)})

Crash ==
  /\ Fault
  /\ lost' = lost + InTransit
  /\ midnight' = FALSE
  /\ job' = [r \in Runs |-> Asleep]
  /\ call' = [a \in Approvals |-> IF call[a].at = "idle" THEN call[a] ELSE [call[a] EXCEPT !.at = "end"]]
  /\ update' = Resting
  /\ UNCHANGED <<tables, client, bank, charged, charges, disbursed, day, ghosts>>

Next ==
  \/ \E l \in Loans : SubmitLoanApplication(l) \/ RejectLoan(l)
  \/ \E a \in Approvals :
       \/ \E l \in Loans : ReadApplication(a, l)
       \/ DebitBank(a) \/ CreditClient(a) \/ CommitApproval(a) \/ ApprovalFails(a)
  \/ RunDailyCron
  \/ \E r \in Triggers : TriggerInstallments(r)
  \/ \E r \in Runs :
       \/ FindRow(r) \/ DebitClient(r) \/ InsufficientFunds(r) \/ CreditBank(r)
       \/ MarkPaid(r) \/ AdvanceSchedule(r) \/ MarkLate(r) \/ SetInDelay(r)
       \/ StatementFails(r)
  \/ FetchVariable \/ CountPaid \/ UpdateRate \/ UpdateFails
  \/ Spend \/ Earn \/ Midnight \/ Crash

Spec == Init /\ [][Next]_vars

-----------------------------------------------------------------------------
(* Properties. *)

JobType ==
  [at : {"idle", "loop", "debit", "credit", "mark", "advance", "late", "delay"},
   todo : SUBSET [loan : Loans, amount : Nat, debt : Nat],
   loan : Loans \cup {None}, amount : Nat, debt : Nat, row : Nat]

RowType == [due : Nat, status : {"UNPAID", "PAID", "LATE"}, last : Nat \cup {Never}]

TypeOK ==
  /\ loan \in [Loans -> [status : Statuses, agreed : Nat, next : Nat, amount : Nat, debt : Nat]]
  /\ rows \in [Loans -> Seq(RowType)]
  /\ client \in Nat /\ bank \in Int /\ day \in Nat /\ midnight \in BOOLEAN
  /\ job \in [Runs -> JobType]
  /\ \A r \in Runs : job[r].at \notin {"idle", "loop"} =>
        job[r].loan \in Loans /\ job[r].row \in DOMAIN rows[job[r].loan]
  /\ call \in [Approvals -> [at : {"idle", "debit", "credit", "commit", "end"}, loan : Loans \cup {None}]]
  /\ \A a \in Approvals : call[a].at # "idle" => call[a].loan \in Loans
  /\ update.at \in {"idle", "loop", "write"}
  /\ update.todo \subseteq [loan : Loans, debt : Nat]
  /\ update.at = "write" => update.loan \in Loans /\ update.left \in 1 .. Period /\ update.debt \in Nat
  /\ charged \in [Loans -> Nat] /\ charges \in [Loans -> Nat]
  /\ disbursed \in [Loans -> Nat] /\ lost \in Nat
  /\ overlapped \in BOOLEAN /\ forced \in BOOLEAN /\ early \in BOOLEAN
  /\ bounds \in [{"triggers", "updates", "faults", "spent", "earned"} -> Nat]

Granted(l) == loan[l].status \in {"APPROVED", "IN_DELAY", "PAID_OFF"}

(* The bank is never left short by the schedule: whatever calls, runs and  *)
(* failures there are, a loan that counts as granted was paid out, and     *)
(* remaining_debt has gone down by no more than the client was charged.    *)
DebtIsKept ==
  \A l \in Loans : Granted(l) =>
    disbursed[l] >= Amount /\ charged[l] >= Amount - loan[l].debt

(* The bank's account holds what it held, less the loans paid out, plus    *)
(* the installments charged, except for what is on its way and what a      *)
(* failure lost: the debit of an approval or of an installment is never    *)
(* given back, and never reaches the other account twice.                  *)
BankBooks ==
  bank + lost + InTransit
    = InitBank + SumFunction(charged) - SumFunction(disbursed)

(* Nothing happened to loan l but runs one after the other, one approval   *)
(* and updates of the rate, and no statement failed.                       *)
Serial == ~overlapped /\ bounds.faults = 0 /\ \A l \in Loans : Len(rows[l]) <= Period

Handled(l, labels) == \E r \in Runs : job[r].loan = l /\ job[r].at \in labels

(* When runs do not overlap, each row is charged once, remaining_debt is   *)
(* what is left after the charges, and, unless someone asked for it, no    *)
(* row is charged before it is due (processInstallment takes the earliest  *)
(* open row, of whatever date).                                            *)
SerialCharges ==
  Serial =>
    /\ \A l \in Loans :
         /\ charges[l] = Cardinality(PaidRows(l)) + (IF Handled(l, {"credit", "mark"}) THEN 1 ELSE 0)
         /\ Granted(l) /\ ~Handled(l, {"credit", "mark", "advance"}) =>
              loan[l].debt = IF charged[l] < Amount THEN Amount - charged[l] ELSE 0
    /\ early => forced

(* When runs do not overlap, the open rows are enough to repay what is     *)
(* left: no loan runs out of rows while it has debt, also when             *)
(* updateVariableRates writes an amount it computed from a remaining_debt  *)
(* that a run has reduced since.                                           *)
ScheduleCoversDebt ==
  Serial =>
    \A l \in Loans : Granted(l) /\ ~Handled(l, {"credit", "mark", "advance"}) =>
      loan[l].amount * Cardinality(Open(l)) >= loan[l].debt

(* What processInstallment says of the row it collects, "the UNPAID or     *)
(* LATE installment due today or earliest overdue": between runs, a loan   *)
(* that counts as paid on time and has an overdue row is still collected.  *)
OverdueIsCollected ==
  \A l \in Loans :
    /\ loan[l].status = "APPROVED" /\ \E i \in Open(l) : rows[l][i].due < day
    /\ ~midnight /\ \A r \in Runs : job[r].at = "idle"
    => loan[l].next >= day
=============================================================================
