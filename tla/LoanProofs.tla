----------------------------- MODULE LoanProofs -----------------------------
(* Proofs about LoanRepayment: for any loans, runs, approvals, amounts,    *)
(* days and failures, remaining_debt is backed by what the client paid,    *)
(* the bank's books balance, and every variable keeps its type; and while  *)
(* runs follow one another, each row is charged once and the open rows     *)
(* cover the debt.                                                         *)
EXTENDS LoanRepayment, SumTheorems

LoanType == [status : Statuses, agreed : Nat, next : Nat, amount : Nat, debt : Nat]
CallType == [at : {"idle", "debit", "credit", "commit", "end"}, loan : Loans \cup {None}]
Taken == [loan : Loans, debt : Nat]

Tables ==
  /\ loan \in [Loans -> LoanType] /\ rows \in [Loans -> Seq(RowType)] /\ day \in Nat
  /\ charged \in [Loans -> Nat] /\ disbursed \in [Loans -> Nat]
Jobs ==
  /\ job \in [Runs -> JobType]
  /\ \A r \in Runs : job[r].at \notin {"idle", "loop"} =>
        job[r].loan \in Loans /\ job[r].row \in DOMAIN rows[job[r].loan]
Calls ==
  /\ call \in [Approvals -> CallType]
  /\ \A a \in Approvals : call[a].at # "idle" => call[a].loan \in Loans
Updates ==
  /\ update.todo \subseteq Taken
  /\ update.at = "write" => update.loan \in Loans /\ update.left \in Nat \ {0} /\ update.debt \in Nat
Shape == Tables /\ Jobs /\ Calls /\ Updates

(* What a run relies on: the remaining_debt it read is backed by charges,  *)
(* and stays so, however much of it others collect meanwhile.              *)
Backed(l, debt) ==
  Granted(l) /\ disbursed[l] >= Amount /\ charged[l] >= Amount - debt
LoansBacked == \A l \in Loans : Granted(l) => Backed(l, loan[l].debt)
JobBacked(j) ==
  /\ \A s \in j.todo : Backed(s.loan, s.debt)
  /\ j.at \notin {"idle", "loop"} => Backed(j.loan, j.debt)
  /\ j.at \in {"credit", "mark", "advance"} => charged[j.loan] >= Amount - j.debt + j.amount
PaidOut == \A a \in Approvals : call[a].at = "commit" => disbursed[call[a].loan] >= Amount

Inv == Shape /\ LoansBacked /\ (\A r \in Runs : JobBacked(job[r])) /\ PaidOut

USE LoansAssumption DEF Statuses

LEMMA InitInv == Init => Inv
<1> SUFFICES ASSUME Init PROVE Inv
  OBVIOUS
<1>1. Tables
  BY DEF Init, Tables, LoanType
<1>2. Jobs
  BY DEF Init, Jobs, JobType, Asleep
<1>3. Calls /\ Updates /\ PaidOut
  BY DEF Init, Calls, CallType, Updates, Resting, PaidOut
<1>4. LoansBacked
  BY DEF Init, LoansBacked, Granted
<1>5. \A r \in Runs : JobBacked(job[r])
  BY DEF Init, JobBacked, Asleep
<1> QED
  BY <1>1, <1>2, <1>3, <1>4, <1>5 DEF Inv, Shape

LEMMA InstallmentsAreNat ==
  ASSUME NEW debt \in Nat, NEW n \in Nat \ {0}
  PROVE  Installments(debt, n) \subseteq Nat
<1>1. debt + n - 1 \in Nat
  OBVIOUS
<1>2. (debt + n - 1) \div n \in Nat
  BY <1>1
<1> QED
  BY <1>2 DEF Installments

(* A step that takes no grant back and returns no money keeps what runs    *)
(* and loans rely on.                                                      *)
Grows ==
  \A l \in Loans :
    /\ Granted(l) => Granted(l)'
    /\ disbursed'[l] >= disbursed[l] /\ charged'[l] >= charged[l]

LEMMA StaysBacked ==
  ASSUME Tables, Tables', Grows, NEW l \in Loans, NEW debt \in Nat, Backed(l, debt)
  PROVE  Backed(l, debt)'
  BY DEF Tables, Grows, Backed

LEMMA StaysJobBacked ==
  ASSUME Tables, Tables', Grows, NEW j \in JobType, JobBacked(j),
         j.at \notin {"idle", "loop"} => j.loan \in Loans
  PROVE  JobBacked(j)'
<1>1. j.debt \in Nat /\ j.amount \in Nat /\ \A s \in j.todo : s.loan \in Loans /\ s.debt \in Nat
  BY DEF JobType
<1>2. \A s \in j.todo : Backed(s.loan, s.debt)'
  BY <1>1, StaysBacked DEF JobBacked
<1>3. j.at \notin {"idle", "loop"} => Backed(j.loan, j.debt)'
  BY <1>1, StaysBacked DEF JobBacked
<1>4. ASSUME j.at \in {"credit", "mark", "advance"}
      PROVE  charged'[j.loan] >= Amount - j.debt + j.amount
  <2>1. j.loan \in Loans /\ charged[j.loan] >= Amount - j.debt + j.amount
    BY <1>4 DEF JobBacked
  <2>2. charged'[j.loan] >= charged[j.loan] /\ charged[j.loan] \in Nat /\ charged'[j.loan] \in Nat
    BY <2>1 DEF Grows, Tables
  <2> QED
    BY <1>1, <2>1, <2>2
<1> QED
  BY <1>2, <1>3, <1>4 DEF JobBacked

(* What a run becomes when it has read and charged nothing new. *)
Follows(k, j) ==
  /\ k.todo \subseteq j.todo
  /\ k.at \notin {"idle", "loop"} =>
       /\ j.at \notin {"idle", "loop"}
       /\ k.loan = j.loan /\ k.debt = j.debt /\ k.amount = j.amount
  /\ k.at \in {"credit", "mark", "advance"} => j.at \in {"credit", "mark", "advance"}

LEMMA FollowerBacked ==
  ASSUME NEW j \in JobType, NEW k \in JobType, JobBacked(j), Follows(k, j)
  PROVE  JobBacked(k)
  BY DEF JobBacked, Follows

SameJobs == \A r \in Runs : Follows(job'[r], job[r]) \/ JobBacked(job[r])'
SameLoans ==
  \A l \in Loans : Granted(l)' =>
    (Granted(l) /\ loan'[l].debt = loan[l].debt) \/ Backed(l, loan[l].debt)'
SamePaidOut ==
  \A a \in Approvals : call'[a].at = "commit" =>
    \/ call[a].at = "commit" /\ call'[a].loan = call[a].loan
    \/ disbursed'[call'[a].loan] >= Amount

LEMMA StaysInv ==
  ASSUME Inv, Shape', Grows, SameJobs, SameLoans, SamePaidOut
  PROVE  Inv'
<1>1. Tables /\ Tables' /\ Jobs /\ Calls /\ Calls'
  BY DEF Inv, Shape
<1>2. LoansBacked'
  <2> SUFFICES ASSUME NEW l \in Loans, Granted(l)' PROVE Backed(l, loan[l].debt)'
    BY DEF LoansBacked
  <2>1. CASE Granted(l) /\ loan'[l].debt = loan[l].debt
    <3>1. Backed(l, loan[l].debt) /\ loan[l].debt \in Nat
      BY <1>1, <2>1 DEF Inv, LoansBacked, Tables, LoanType
    <3>2. disbursed[l] >= Amount /\ charged[l] >= Amount - loan[l].debt
      BY <3>1 DEF Backed
    <3>3. disbursed'[l] >= Amount /\ charged'[l] >= Amount - loan'[l].debt
      BY <1>1, <2>1, <3>1, <3>2 DEF Grows, Tables
    <3> QED
      BY <3>3 DEF Backed
  <2> QED
    BY <2>1 DEF SameLoans
<1>3. ASSUME NEW r \in Runs PROVE JobBacked(job[r])'
  <2>1. CASE Follows(job'[r], job[r])
    <3>1. job[r] \in JobType /\ job'[r] \in JobType /\ JobBacked(job[r])
      BY DEF Inv, Shape, Jobs
    <3>2. JobBacked(job'[r])
      BY <2>1, <3>1, FollowerBacked
    <3>3. job'[r].at \notin {"idle", "loop"} => job'[r].loan \in Loans
      BY DEF Shape, Jobs
    <3>4. \A j \in JobType : JobBacked(j) /\ (j.at \notin {"idle", "loop"} => j.loan \in Loans)
            => JobBacked(j)'
      BY <1>1, StaysJobBacked
    <3> QED
      BY <3>1, <3>2, <3>3, <3>4 DEF JobBacked, Backed, Granted
  <2> QED
    BY <2>1 DEF SameJobs
<1>4. PaidOut'
  <2> SUFFICES ASSUME NEW a \in Approvals, call'[a].at = "commit"
               PROVE  disbursed'[call'[a].loan] >= Amount
    BY DEF PaidOut
  <2>1. CASE call[a].at = "commit" /\ call'[a].loan = call[a].loan
    <3>1. call[a].loan \in Loans /\ disbursed[call[a].loan] >= Amount
      BY <1>1, <2>1 DEF Calls, Inv, PaidOut
    <3> QED
      BY <1>1, <2>1, <3>1 DEF Grows, Tables
  <2> QED
    BY <2>1 DEF SamePaidOut
<1> QED
  BY <1>2, <1>3, <1>4 DEF Inv

-----------------------------------------------------------------------------
Good == Shape' /\ Grows /\ SameJobs /\ SameLoans /\ SamePaidOut

LEMMA SameMoney == Tables /\ UNCHANGED <<loan, charged, disbursed>> => Grows /\ SameLoans
  BY DEF Tables, Grows, SameLoans, Granted
LEMMA IdleRuns == UNCHANGED job => SameJobs
  BY DEF SameJobs, Follows
LEMMA IdleCalls == UNCHANGED call => SamePaidOut
  BY DEF SamePaidOut
LEMMA IdleShape ==
  /\ Tables /\ UNCHANGED <<loan, rows, day, charged, disbursed>> => Tables'
  /\ Jobs /\ UNCHANGED <<rows, job>> => Jobs'
  /\ Calls /\ UNCHANGED call => Calls'
  /\ Updates /\ UNCHANGED update => Updates'
  BY DEF Tables, Jobs, Calls, Updates

(* Actions of the client, the employees and the calendar. *)
LEMMA Applications ==
  ASSUME Inv, NEW l \in Loans, SubmitLoanApplication(l) \/ RejectLoan(l)
  PROVE  Good
<1> USE DEF Inv, Shape
<1>1. UNCHANGED <<rows, day, charged, disbursed, job, call, update>>
  BY DEF SubmitLoanApplication, RejectLoan, money, clock
<1>2. /\ loan' \in [Loans -> LoanType] /\ \A k \in Loans \ {l} : loan'[k] = loan[k]
      /\ loan[l].status \in {"NONE", "PENDING"} /\ loan'[l].status \in {"PENDING", "REJECTED"}
  <2>1. CASE SubmitLoanApplication(l)
    <3>1. PICK amount \in Nat :
            loan' = [loan EXCEPT ![l] = [status |-> "PENDING", agreed |-> day, next |-> day + Month,
                                         amount |-> amount, debt |-> Amount]]
      BY <2>1, InstallmentsAreNat DEF SubmitLoanApplication
    <3>2. [status |-> "PENDING", agreed |-> day, next |-> day + Month,
           amount |-> amount, debt |-> Amount] \in LoanType
      BY DEF LoanType, Tables
    <3> QED
      BY <2>1, <3>1, <3>2 DEF SubmitLoanApplication, Tables
  <2>2. CASE RejectLoan(l)
    BY <2>2, ZenonT(60) DEF RejectLoan, Tables, LoanType
  <2> QED
    BY <2>1, <2>2
<1>3. \A k \in Loans : Granted(k)' => Granted(k) /\ loan'[k] = loan[k]
  BY <1>2 DEF Granted
<1>4. \A k \in Loans : Granted(k) => Granted(k)'
  BY <1>2 DEF Granted
<1>5. Shape'
  BY <1>1, <1>2, IdleShape DEF Tables
<1>6. Grows /\ SameLoans
  BY <1>1, <1>3, <1>4 DEF Grows, SameLoans, Tables
<1> QED
  BY <1>1, <1>5, <1>6, IdleRuns, IdleCalls DEF Good

LEMMA Environment ==
  ASSUME Inv, Spend \/ Earn \/ Midnight
  PROVE  Good
<1> USE DEF Inv, Shape
<1>1. UNCHANGED <<loan, rows, charged, disbursed, job, call, update>> /\ day' \in Nat
  BY DEF Spend, Earn, Midnight, tables, money, clock, Tables
<1>2. Shape'
  BY <1>1, IdleShape DEF Tables
<1> QED
  BY <1>1, <1>2, SameMoney, IdleRuns, IdleCalls DEF Good

LEMMA Approval ==
  ASSUME Inv, NEW a \in Approvals,
         (\E l \in Loans : ReadApplication(a, l)) \/ DebitBank(a) \/ ApprovalFails(a)
  PROVE  Good
<1> USE DEF Inv, Shape
<1>1. UNCHANGED <<loan, rows, day, charged, disbursed, job, update>>
  BY DEF ReadApplication, DebitBank, ApprovalFails, tables, money, clock
<1>2. Calls'
  BY DEF ReadApplication, DebitBank, ApprovalFails, Calls, CallType
<1>3. SamePaidOut
  BY DEF ReadApplication, DebitBank, ApprovalFails, Calls, CallType, SamePaidOut
<1>4. Shape'
  BY <1>1, <1>2, IdleShape
<1> QED
  BY <1>1, <1>3, <1>4, SameMoney, IdleRuns DEF Good

LEMMA Payout ==
  ASSUME Inv, NEW a \in Approvals, CreditClient(a)
  PROVE  Good
<1> USE DEF Inv, Shape
<1>1. UNCHANGED <<loan, rows, day, charged, job, update>>
  BY DEF CreditClient, tables, clock
<1>2. call[a].loan \in Loans /\ disbursed' \in [Loans -> Nat]
  BY SMTT(30) DEF CreditClient, Calls, Tables
<1>3. \A l \in Loans : disbursed'[l] >= disbursed[l]
  BY <1>2, SMTT(30) DEF CreditClient, Tables
<1>4. disbursed'[call[a].loan] >= Amount
  BY <1>2, SMTT(30) DEF CreditClient, Tables
<1>5. Calls' /\ SamePaidOut
  BY <1>4 DEF CreditClient, Calls, CallType, SamePaidOut
<1>6. Shape'
  BY <1>1, <1>2, <1>5, IdleShape DEF Tables
<1>7. Grows
  BY <1>1, <1>3 DEF Grows, Granted, Tables
<1>8. SameLoans
  BY <1>1 DEF SameLoans, Granted
<1> QED
  BY <1>1, <1>5, <1>6, <1>7, <1>8, IdleRuns DEF Good

LEMMA ScheduleType ==
  ASSUME Tables, NEW l \in Loans
  PROVE  Schedule(l) \in Seq(RowType) /\ loan[l].agreed + Month \in Nat
<1>1. loan[l].agreed \in Nat /\ Period \in Nat
  BY DEF Tables, LoanType
<1>2. \A i \in 1 .. Period : loan[l].agreed + i * Month \in Nat
  BY <1>1
<1>3. \A i \in 1 .. Period :
        [due |-> loan[l].agreed + i * Month, status |-> "UNPAID", last |-> Never] \in RowType
  BY <1>2 DEF RowType
<1> QED
  BY <1>1, <1>3, SMTT(30) DEF Schedule

LEMMA Appended ==
  ASSUME NEW s \in Seq(RowType), NEW t \in Seq(RowType)
  PROVE  s \o t \in Seq(RowType) /\ DOMAIN s \subseteq DOMAIN (s \o t)
<1>1. s \o t \in Seq(RowType) /\ Len(s \o t) = Len(s) + Len(t)
  OBVIOUS
<1>2. DOMAIN s = 1 .. Len(s) /\ DOMAIN (s \o t) = 1 .. Len(s \o t) /\ Len(s) \in Nat /\ Len(t) \in Nat
  BY <1>1
<1> QED
  BY <1>1, <1>2

LEMMA Commit ==
  ASSUME Inv, NEW a \in Approvals, CommitApproval(a)
  PROVE  Good
<1> USE DEF Inv, Shape
<1>0. PICK l \in Loans : l = call[a].loan
  BY DEF CommitApproval, Calls
<1>1. UNCHANGED <<day, charged, disbursed, job, update>> /\ l \in Loans /\ call[a].at = "commit"
  BY DEF CommitApproval, money, clock
<1>2. PICK amount \in Nat :
        loan' = [loan EXCEPT ![l] = [@ EXCEPT !.status = "APPROVED", !.next = loan[l].agreed + Month,
                                              !.amount = amount, !.debt = Amount]]
  BY <1>0, InstallmentsAreNat DEF CommitApproval
<1>3. loan' \in [Loans -> LoanType]
  BY <1>1, <1>2, ScheduleType, ZenonT(60) DEF Tables, LoanType
<1>4. \A k \in Loans \ {l} : loan'[k] = loan[k]
  BY <1>1, <1>2 DEF Tables
<1>5. loan'[l].status = "APPROVED" /\ loan'[l].debt = Amount
  BY <1>1, <1>2 DEF Tables, LoanType
<1>6. rows[l] \in Seq(RowType) /\ Schedule(l) \in Seq(RowType)
  BY <1>1, ScheduleType DEF Tables
<1>7. /\ rows' = [rows EXCEPT ![l] = rows[l] \o Schedule(l)]
      /\ rows[l] \o Schedule(l) \in Seq(RowType)
      /\ DOMAIN rows[l] \subseteq DOMAIN (rows[l] \o Schedule(l))
  BY <1>0, <1>1, <1>6, Appended DEF CommitApproval, Tables
<1>8. rows' \in [Loans -> Seq(RowType)] /\ \A k \in Loans : DOMAIN rows[k] \subseteq DOMAIN rows'[k]
  BY <1>1, <1>7 DEF Tables
<1>9. Jobs'
  BY <1>1, <1>8 DEF Jobs
<1>10. Calls' /\ SamePaidOut
  BY <1>0, <1>1 DEF CommitApproval, Calls, CallType, SamePaidOut
<1>11. Shape'
  BY <1>1, <1>3, <1>8, <1>9, <1>10, IdleShape DEF Tables
<1>12. Grows
  <2>1. \A k \in Loans : Granted(k) => Granted(k)'
    BY <1>4, <1>5 DEF Granted
  <2> QED
    BY <1>1, <2>1 DEF Grows, Tables
<1>13. disbursed[l] >= Amount /\ charged[l] \in Nat
  BY <1>0, <1>1 DEF PaidOut, Tables
<1>14. Backed(l, loan[l].debt)'
  BY <1>1, <1>5, <1>13 DEF Backed, Granted
<1>15. SameLoans
  BY <1>4, <1>14 DEF SameLoans, Granted
<1> QED
  BY <1>1, <1>10, <1>11, <1>12, <1>15, IdleRuns DEF Good

-----------------------------------------------------------------------------
(* Steps of a run. *)

LEMMA ReturnFollows ==
  ASSUME NEW j \in JobType, NEW todo \in SUBSET j.todo
  PROVE  /\ Return([j EXCEPT !.todo = todo]) \in JobType
         /\ Follows(Return([j EXCEPT !.todo = todo]), j)
         /\ Return([j EXCEPT !.todo = todo]).at \in {"idle", "loop"}
         /\ Return(j) \in JobType /\ Follows(Return(j), j)
         /\ Return(j).at \in {"idle", "loop"}
  BY DEF Return, Follows, Asleep, JobType

(* A run that only goes on changes nothing that is relied upon. *)
LEMMA GoesOn ==
  ASSUME Inv, UNCHANGED <<loan, rows, day, charged, disbursed, call, update>>,
         NEW r \in Runs, NEW k \in JobType, job' = [job EXCEPT ![r] = k],
         k.at \notin {"idle", "loop"} =>
            k.loan \in Loans /\ k.row \in DOMAIN rows[k.loan],
         Follows(k, job[r]) \/ JobBacked(k)
  PROVE  Good
<1> USE DEF Inv, Shape
<1>1. Jobs'
  BY DEF Jobs
<1>2. Shape'
  BY <1>1, IdleShape
<1>3. JobBacked(k) => JobBacked(k)'
  BY DEF JobBacked, Backed, Granted
<1>4. SameJobs
  <2> SUFFICES ASSUME NEW q \in Runs PROVE Follows(job'[q], job[q]) \/ JobBacked(job[q])'
    BY DEF SameJobs
  <2>1. CASE q # r
    BY <2>1 DEF Follows, Jobs
  <2>2. CASE q = r
    BY <2>2, <1>3 DEF Jobs, JobBacked, Backed, Granted
  <2> QED
    BY <2>1, <2>2
<1> QED
  BY <1>2, <1>4, SameMoney, IdleCalls DEF Good

LEMMA Fetched ==
  ASSUME Inv, RunDailyCron \/ (\E r \in Triggers : TriggerInstallments(r))
  PROVE  Good
<1> USE DEF Inv, Shape
<1>1. UNCHANGED <<loan, rows, day, charged, disbursed, call, update>>
  BY DEF RunDailyCron, TriggerInstallments, tables, money, clock
<1>2. PICK r \in Runs, set \in SUBSET Loans :
        Fetch(r, set) /\ \A l \in set : loan[l].status \in {"APPROVED", "IN_DELAY"}
  <2>1. CASE RunDailyCron
    <3>1. PICK slack \in {0, 1} : Fetch(Daily, {l \in Loans : DueToday(l, slack)})
      BY <2>1 DEF RunDailyCron
    <3>2. \A l \in {k \in Loans : DueToday(k, slack)} : loan[l].status \in {"APPROVED", "IN_DELAY"}
      BY DEF DueToday
    <3> QED
      BY <3>1, <3>2 DEF Runs
  <2>2. ASSUME NEW r \in Triggers, TriggerInstallments(r)
        PROVE  \E set \in SUBSET Loans :
                 Fetch(r, set) /\ \A l \in set : loan[l].status \in {"APPROVED", "IN_DELAY"}
    <3>1. \A slack \in {0, 1} : \A l \in {k \in Loans : DueToday(k, slack)} :
            loan[l].status \in {"APPROVED", "IN_DELAY"}
      BY DEF DueToday
    <3>2. CASE \E slack \in {0, 1} : Fetch(r, {l \in Loans : DueToday(l, slack)})
      <4>1. PICK slack \in {0, 1} : Fetch(r, {l \in Loans : DueToday(l, slack)})
        BY <3>2
      <4>2. {l \in Loans : DueToday(l, slack)} \in SUBSET Loans
        OBVIOUS
      <4> QED
        BY <3>1, <4>1, <4>2
    <3>3. CASE \E l \in Loans : loan[l].status \in {"APPROVED", "IN_DELAY"} /\ Fetch(r, {l})
      BY <3>3
    <3> QED
      BY <2>2, <3>2, <3>3 DEF TriggerInstallments
  <2> QED
    BY <2>1, <2>2 DEF Runs
<1>3. job[r] \in JobType /\ job[r].at = "idle"
  BY <1>2 DEF Fetch, Jobs
<1>4. CASE set = {}
  BY <1>1, <1>2, <1>3, <1>4, GoesOn DEF Fetch, Follows
<1>5. CASE set # {}
  <2> DEFINE k == [job[r] EXCEPT !.at = "loop", !.todo = {Snapshot(l) : l \in set}]
  <2>1. job' = [job EXCEPT ![r] = k]
    BY <1>2, <1>5 DEF Fetch
  <2>2. \A l \in set : Snapshot(l) \in [loan : Loans, amount : Nat, debt : Nat]
    BY DEF Snapshot, Tables, LoanType
  <2>3. k \in JobType /\ k.at = "loop" /\ k.todo = {Snapshot(l) : l \in set}
    BY <1>3, <2>2, ZenonT(60) DEF JobType
  <2>4. \A l \in set : Backed(Snapshot(l).loan, Snapshot(l).debt)
    BY <1>2 DEF LoansBacked, Granted, Snapshot
  <2>5. JobBacked(k)
    BY <2>3, <2>4 DEF JobBacked
  <2> HIDE DEF k
  <2> QED
    BY <1>1, <2>1, <2>3, <2>5, GoesOn
<1> QED
  BY <1>4, <1>5

LEMMA Found ==
  ASSUME Inv, NEW r \in Runs, FindRow(r)
  PROVE  Good
<1> USE DEF Inv, Shape
<1>1. UNCHANGED <<loan, rows, day, charged, disbursed, call, update>> /\ job[r] \in JobType
  BY DEF FindRow, tables, money, clock, Jobs
<1>2. PICK s \in job[r].todo :
        \/ job' = [job EXCEPT ![r] = Return([job[r] EXCEPT !.todo = job[r].todo \ {s}])]
        \/ \E i \in Earliest(s.loan) :
             job' = [job EXCEPT ![r] = [at |-> "debit", todo |-> job[r].todo \ {s}, loan |-> s.loan,
                                        amount |-> s.amount, debt |-> s.debt, row |-> i]]
  BY DEF FindRow
<1>3. s.loan \in Loans /\ s.amount \in Nat /\ s.debt \in Nat /\ Backed(s.loan, s.debt)
  BY <1>1 DEF JobType, JobBacked
<1>4. CASE job' = [job EXCEPT ![r] = Return([job[r] EXCEPT !.todo = job[r].todo \ {s}])]
  <2> DEFINE k == Return([job[r] EXCEPT !.todo = job[r].todo \ {s}])
  <2>1. k \in JobType /\ Follows(k, job[r]) /\ k.at \in {"idle", "loop"}
    BY <1>1, ReturnFollows
  <2>2. job' = [job EXCEPT ![r] = k]
    BY <1>4
  <2> HIDE DEF k
  <2> QED
    BY <1>1, <2>1, <2>2, GoesOn
<1>5. ASSUME NEW i \in Earliest(s.loan),
             job' = [job EXCEPT ![r] = [at |-> "debit", todo |-> job[r].todo \ {s}, loan |-> s.loan,
                                        amount |-> s.amount, debt |-> s.debt, row |-> i]]
      PROVE  Good
  <2> DEFINE k == [at |-> "debit", todo |-> job[r].todo \ {s}, loan |-> s.loan,
                   amount |-> s.amount, debt |-> s.debt, row |-> i]
  <2>1. i \in DOMAIN rows[s.loan] /\ i \in Nat
    <3>1. rows[s.loan] \in Seq(RowType) /\ i \in DOMAIN rows[s.loan]
      BY <1>3 DEF Earliest, Open, Tables
    <3> QED
      BY <3>1
  <2>2. k \in JobType
    BY <1>1, <1>3, <2>1 DEF JobType
  <2>3. JobBacked(k)
    <3>1. JobBacked(job[r])
      OBVIOUS
    <3>2. k.todo \subseteq job[r].todo /\ k.at = "debit" /\ k.loan = s.loan /\ k.debt = s.debt
      OBVIOUS
    <3> QED
      BY <1>3, <3>1, <3>2 DEF JobBacked
  <2>4. k.loan \in Loans /\ k.row \in DOMAIN rows[k.loan]
    BY <1>3, <2>1
  <2>5. job' = [job EXCEPT ![r] = k]
    BY <1>5
  <2> HIDE DEF k
  <2> QED
    BY <1>1, <2>2, <2>3, <2>4, <2>5, GoesOn
<1> QED
  BY <1>2, <1>4, <1>5

(* The debit is what the rest of the run relies on. *)
LEMMA Debited ==
  ASSUME Inv, NEW r \in Runs, DebitClient(r)
  PROVE  Good
<1> USE DEF Inv, Shape
<1>0. PICK l \in Loans : l = job[r].loan
  BY DEF DebitClient, Jobs
<1>a. [job[r] EXCEPT !.at = "credit"] \in JobType
  BY DEF Jobs, JobType
<1>b. PICK k \in JobType : k = [job[r] EXCEPT !.at = "credit"]
  BY <1>a
<1>1. /\ UNCHANGED <<loan, rows, day, disbursed, call, update>>
      /\ charged' = [charged EXCEPT ![l] = @ + job[r].amount]
      /\ job' = [job EXCEPT ![r] = k] /\ job[r].at = "debit"
  BY <1>0, <1>b DEF DebitClient, At, tables, clock
<1>2. job[r] \in JobType /\ k \in JobType
  BY DEF Jobs, JobType
<1>3. job[r].amount \in Nat /\ job[r].debt \in Nat /\ charged[l] \in Nat
  BY <1>2 DEF JobType, Tables
<1>4. charged' \in [Loans -> Nat] /\ \A m \in Loans : charged'[m] >= charged[m]
  BY <1>1, <1>3 DEF Tables
<1>5. Jobs'
  BY <1>0, <1>1, <1>2, <1>b DEF Jobs, JobType
<1>6. Shape'
  BY <1>1, <1>4, <1>5, IdleShape DEF Tables
<1>7. Grows
  BY <1>1, <1>4 DEF Grows, Granted, Tables
<1>8. SameLoans
  BY <1>1 DEF SameLoans, Granted
<1>9. JobBacked(k)'
  <2>1. JobBacked(job[r]) /\ Tables /\ Tables'
    BY <1>6
  <2>2. /\ k.todo = job[r].todo /\ k.at = "credit" /\ k.loan = l
        /\ k.debt = job[r].debt /\ k.amount = job[r].amount
    BY <1>0, <1>2, <1>b DEF JobType
  <2>3. charged[l] >= Amount - job[r].debt
    BY <1>0, <1>1, <2>1 DEF JobBacked, Backed
  <2>4. charged'[l] >= Amount - k.debt + k.amount
    BY <1>1, <1>3, <2>2, <2>3 DEF Tables
  <2>5. \A s \in k.todo : s.loan \in Loans /\ s.debt \in Nat /\ Backed(s.loan, s.debt)
    BY <1>2, <2>1, <2>2 DEF JobBacked, JobType
  <2>6. \A s \in k.todo : Backed(s.loan, s.debt)'
    BY <1>7, <2>1, <2>5, StaysBacked
  <2>7. Backed(l, k.debt)'
    <3>1. Backed(l, k.debt) /\ k.debt \in Nat
      BY <1>0, <1>1, <1>3, <2>1, <2>2 DEF JobBacked
    <3> QED
      BY <3>1, <1>7, <2>1, StaysBacked
  <2> QED
    BY <2>2, <2>4, <2>6, <2>7 DEF JobBacked, Backed, Granted
<1>10. SameJobs
  BY <1>1, <1>9 DEF SameJobs, Follows, Jobs
<1> QED
  BY <1>1, <1>6, <1>7, <1>8, <1>10, IdleCalls DEF Good

(* The other steps take a label further, or leave the loan. *)
LEMMA NextLabel ==
  ASSUME Inv, Tables', Grows, SameLoans, UNCHANGED <<call, update>>,
         \A l \in Loans : DOMAIN rows'[l] = DOMAIN rows[l],
         NEW r \in Runs, NEW k \in JobType, job' = [job EXCEPT ![r] = k],
         Follows(k, job[r]), k.at \notin {"idle", "loop"} => k.row = job[r].row
  PROVE  Good
<1> USE DEF Inv, Shape
<1>1. Jobs'
  BY DEF Jobs, Follows
<1>2. Shape'
  BY <1>1, IdleShape
<1>3. SameJobs
  BY DEF SameJobs, Follows, Jobs
<1> QED
  BY <1>2, <1>3, IdleCalls DEF Good

LEMMA LabelFollows ==
  ASSUME NEW j \in JobType, j.at \notin {"idle", "loop"},
         NEW label \in {"mark", "advance", "late", "delay"},
         label \in {"mark", "advance"} => j.at \in {"credit", "mark"}
  PROVE  /\ [j EXCEPT !.at = label] \in JobType
         /\ Follows([j EXCEPT !.at = label], j)
         /\ [j EXCEPT !.at = label].row = j.row
  BY DEF JobType, Follows

LEMMA MoneySteps ==
  ASSUME Inv, NEW r \in Runs, InsufficientFunds(r) \/ CreditBank(r) \/ StatementFails(r)
  PROVE  Good
<1> USE DEF Inv, Shape
<1>1. UNCHANGED <<loan, rows, day, charged, disbursed, call, update>> /\ job[r] \in JobType
  BY DEF InsufficientFunds, CreditBank, StatementFails, tables, money, clock, Jobs
<1>2. Tables' /\ Grows /\ SameLoans /\ \A l \in Loans : DOMAIN rows'[l] = DOMAIN rows[l]
  BY <1>1, IdleShape, SameMoney
<1>3. PICK k \in JobType :
        /\ job' = [job EXCEPT ![r] = k] /\ Follows(k, job[r])
        /\ k.at \notin {"idle", "loop"} => k.row = job[r].row
  <2>1. CASE InsufficientFunds(r)
    BY <1>1, <2>1, LabelFollows DEF InsufficientFunds, At
  <2>2. CASE CreditBank(r)
    BY <1>1, <2>2, LabelFollows DEF CreditBank, At
  <2>3. CASE StatementFails(r)
    <3>1. CASE Leave(r)
      BY <1>1, <3>1, ReturnFollows DEF Leave
    <3>2. CASE job[r].at = "credit" /\ At(r, "mark")
      BY <1>1, <3>2, LabelFollows DEF At
    <3>3. CASE job[r].at = "mark" /\ At(r, "advance")
      BY <1>1, <3>3, LabelFollows DEF At
    <3>4. CASE job[r].at = "late" /\ At(r, "delay")
      BY <1>1, <3>4, LabelFollows DEF At
    <3> QED
      BY <2>3, <3>1, <3>2, <3>3, <3>4 DEF StatementFails
  <2> QED
    BY <2>1, <2>2, <2>3
<1> QED
  BY <1>1, <1>2, <1>3, NextLabel

LEMMA RowSteps ==
  ASSUME Inv, NEW r \in Runs, MarkPaid(r) \/ MarkLate(r)
  PROVE  Good
<1> USE DEF Inv, Shape
<1>1. UNCHANGED <<loan, day, charged, disbursed, call, update>> /\ job[r] \in JobType
  BY DEF MarkPaid, MarkLate, money, clock, Jobs
<1>2. PICK l \in Loans : l = job[r].loan
  BY DEF MarkPaid, MarkLate, Jobs
<1>3. PICK i \in DOMAIN rows[l] : i = job[r].row
  BY <1>2 DEF MarkPaid, MarkLate, Jobs
<1>4. rows[l] \in Seq(RowType) /\ rows[l][i] \in RowType /\ day \in Nat
  BY <1>3 DEF Tables
<1>5. PICK row \in RowType : rows' = [rows EXCEPT ![l] = [@ EXCEPT ![i] = row]]
  <2>1. \A status \in {"PAID", "LATE"}, last \in Nat \cup {Never} :
          [due |-> rows[l][i].due, status |-> status, last |-> last] \in RowType
    BY <1>4 DEF RowType
  <2>2. rows[l][i].last \in Nat \cup {Never}
    BY <1>4 DEF RowType
  <2> QED
    BY <1>2, <1>3, <1>4, <2>1, <2>2 DEF MarkPaid, MarkLate, UpdateRow
<1>6. [rows[l] EXCEPT ![i] = row] \in Seq(RowType)
      /\ DOMAIN [rows[l] EXCEPT ![i] = row] = DOMAIN rows[l]
  BY <1>4
<1>7. Tables' /\ \A m \in Loans : DOMAIN rows'[m] = DOMAIN rows[m]
  BY <1>1, <1>5, <1>6 DEF Tables
<1>8. PICK k \in JobType :
        job' = [job EXCEPT ![r] = k] /\ Follows(k, job[r]) /\ k.row = job[r].row
  BY <1>1, LabelFollows DEF MarkPaid, MarkLate, At
<1> QED
  BY <1>1, <1>7, <1>8, SameMoney, NextLabel

LEMMA LoanSteps ==
  ASSUME Inv, NEW r \in Runs, AdvanceSchedule(r) \/ SetInDelay(r)
  PROVE  Good
<1> USE DEF Inv, Shape
<1>1. /\ UNCHANGED <<rows, day, charged, disbursed, call, update>>
      /\ job[r] \in JobType /\ JobBacked(job[r]) /\ Leave(r)
  BY DEF AdvanceSchedule, SetInDelay, money, clock, Jobs
<1>2. PICK l \in Loans : l = job[r].loan
  BY DEF AdvanceSchedule, SetInDelay, Jobs
<1>a. loan \in [Loans -> LoanType] /\ loan[l] \in LoanType
  BY DEF Tables
<1>3. PICK rec \in LoanType :
        /\ loan' = [loan EXCEPT ![l] = rec]
        /\ rec.status \in {"PAID_OFF", "APPROVED", "IN_DELAY"}
        /\ \/ rec.debt = loan[l].debt
           \/ AdvanceSchedule(r) /\ rec.debt = NewRemaining(job[r])
  <2>1. CASE AdvanceSchedule(r)
    <3>1. NewRemaining(job[r]) \in Nat
      BY <1>1 DEF NewRemaining, JobType
    <3>2. loan[l].next + Month \in Nat
      BY <1>a DEF LoanType
    <3>3. PICK status \in {"PAID_OFF", "APPROVED"} :
            loan' = [loan EXCEPT ![l] =
              [loan[l] EXCEPT !.debt = NewRemaining(job[r]), !.next = loan[l].next + Month,
                              !.status = status]]
      BY <1>2, <2>1 DEF AdvanceSchedule
    <3>4. [loan[l] EXCEPT !.debt = NewRemaining(job[r]), !.next = loan[l].next + Month,
                          !.status = status] \in LoanType
      BY <1>a, <3>1, <3>2 DEF LoanType
    <3>5. /\ [loan[l] EXCEPT !.debt = NewRemaining(job[r]), !.next = loan[l].next + Month,
                             !.status = status].status = status
          /\ [loan[l] EXCEPT !.debt = NewRemaining(job[r]), !.next = loan[l].next + Month,
                             !.status = status].debt = NewRemaining(job[r])
      BY <1>a DEF LoanType
    <3> QED
      BY <2>1, <3>3, <3>4, <3>5
  <2>2. CASE SetInDelay(r)
    <3>1. loan' = [loan EXCEPT ![l] = [loan[l] EXCEPT !.status = "IN_DELAY"]]
      BY <1>2, <2>2 DEF SetInDelay
    <3>2. /\ [loan[l] EXCEPT !.status = "IN_DELAY"] \in LoanType
          /\ [loan[l] EXCEPT !.status = "IN_DELAY"].status = "IN_DELAY"
          /\ [loan[l] EXCEPT !.status = "IN_DELAY"].debt = loan[l].debt
      BY <1>a DEF LoanType
    <3> QED
      BY <3>1, <3>2
  <2> QED
    BY <2>1, <2>2
<1>b. loan' \in [Loans -> LoanType] /\ loan'[l] = rec /\ \A m \in Loans \ {l} : loan'[m] = loan[m]
  BY <1>a, <1>3
<1>4. Granted(l) /\ Granted(l)' /\ disbursed[l] >= Amount
  <2>1. Backed(l, job[r].debt)
    BY <1>1, <1>2 DEF AdvanceSchedule, SetInDelay, JobBacked
  <2> QED
    BY <2>1, <1>3, <1>b DEF Backed, Granted
<1>5. Grows
  <2>1. \A m \in Loans : Granted(m) => Granted(m)'
    BY <1>4, <1>b DEF Granted
  <2> QED
    BY <1>1, <2>1 DEF Grows, Tables
<1>6. SameLoans
  <2>1. CASE loan'[l].debt = loan[l].debt
    BY <2>1, <1>b, <1>4 DEF SameLoans, Granted
  <2>2. CASE AdvanceSchedule(r) /\ loan'[l].debt = NewRemaining(job[r])
    <3>1. charged[l] >= Amount - job[r].debt + job[r].amount /\ charged[l] \in Nat
          /\ job[r].amount \in Nat /\ job[r].debt \in Nat
      BY <1>1, <1>2, <2>2 DEF AdvanceSchedule, JobBacked, Tables, JobType
    <3>2. charged[l] >= Amount - NewRemaining(job[r])
      BY <3>1 DEF NewRemaining
    <3>3. Backed(l, loan[l].debt)'
      BY <1>1, <1>4, <2>2, <3>2 DEF Backed
    <3> QED
      BY <1>b, <3>3 DEF SameLoans, Granted
  <2> QED
    BY <1>3, <1>b, <2>1, <2>2
<1>7. PICK k \in JobType :
        job' = [job EXCEPT ![r] = k] /\ Follows(k, job[r]) /\ k.at \in {"idle", "loop"}
  BY <1>1, ReturnFollows DEF Leave
<1>8. Tables' /\ \A m \in Loans : DOMAIN rows'[m] = DOMAIN rows[m]
  BY <1>1, <1>b DEF Tables
<1> QED
  BY <1>1, <1>5, <1>6, <1>7, <1>8, NextLabel

-----------------------------------------------------------------------------
(* updateVariableRates and a restart. *)

LEMMA RowsLeft ==
  ASSUME Tables, NEW l \in Loans
  PROVE  Cardinality(PaidRows(l)) \in Nat
<1>1. DOMAIN rows[l] = 1 .. Len(rows[l]) /\ Len(rows[l]) \in Nat
  BY DEF Tables
<1>2. IsFiniteSet(DOMAIN rows[l])
  BY <1>1, FS_Interval
<1>3. IsFiniteSet(PaidRows(l))
  BY <1>2, FS_Subset DEF PaidRows
<1> QED
  BY <1>3, FS_CardinalityType

LEMMA Rates ==
  ASSUME Inv, FetchVariable \/ CountPaid \/ UpdateRate \/ UpdateFails
  PROVE  Good
<1> USE DEF Inv, Shape
<1>1. UNCHANGED <<rows, day, charged, disbursed, job, call>>
  BY DEF FetchVariable, CountPaid, UpdateRate, UpdateFails, tables, money, clock
<1>2. CASE FetchVariable
  <2>1. UNCHANGED loan
    BY <1>2 DEF FetchVariable, tables
  <2>2. {[loan |-> l, debt |-> loan[l].debt] : l \in {k \in Variable : loan[k].status = "APPROVED"}}
          \subseteq Taken
    BY DEF Taken, Tables, LoanType
  <2>3. update'.todo \subseteq Taken /\ update'.at # "write"
    BY <1>2, <2>2 DEF FetchVariable
  <2>4. Shape'
    BY <1>1, <2>1, <2>3, IdleShape DEF Updates
  <2> QED
    BY <1>1, <2>1, <2>4, SameMoney, IdleRuns, IdleCalls DEF Good
<1>3. CASE CountPaid
  <2>1. UNCHANGED loan
    BY <1>3 DEF CountPaid, tables
  <2>2. PICK s \in update.todo :
          LET left == Period - Cardinality(PaidRows(s.loan))
              rest == update.todo \ {s}
          IN update' = IF left <= 0
                       THEN Rested([update EXCEPT !.todo = rest])
                       ELSE [at |-> "write", todo |-> rest, loan |-> s.loan, debt |-> s.debt, left |-> left]
    BY <1>3 DEF CountPaid
  <2>3. s.loan \in Loans /\ s.debt \in Nat /\ Cardinality(PaidRows(s.loan)) \in Nat
    BY RowsLeft DEF Updates, Taken
  <2>4. Updates'
    BY <2>2, <2>3 DEF Updates, Rested, Resting
  <2>5. Shape'
    BY <1>1, <2>1, <2>4, IdleShape
  <2> QED
    BY <1>1, <2>1, <2>5, SameMoney, IdleRuns, IdleCalls DEF Good
<1>4. CASE UpdateRate
  <2>1. PICK l \in Loans : l = update.loan
    BY <1>4 DEF UpdateRate, Updates
  <2>2. PICK amount \in Nat : loan' = [loan EXCEPT ![l] = [@ EXCEPT !.amount = amount]]
    <3>1. Installments(update.debt, update.left) \subseteq Nat
      BY <1>4, InstallmentsAreNat DEF UpdateRate, Updates
    <3> QED
      BY <1>4, <2>1, <3>1 DEF UpdateRate
  <2>3. /\ loan' \in [Loans -> LoanType]
        /\ \A m \in Loans : loan'[m].status = loan[m].status /\ loan'[m].debt = loan[m].debt
    <3>1. loan[l] \in LoanType /\ loan \in [Loans -> LoanType]
      BY DEF Tables
    <3>2. /\ [loan[l] EXCEPT !.amount = amount] \in LoanType
          /\ [loan[l] EXCEPT !.amount = amount].status = loan[l].status
          /\ [loan[l] EXCEPT !.amount = amount].debt = loan[l].debt
      BY <3>1 DEF LoanType
    <3>3. loan' = [loan EXCEPT ![l] = [loan[l] EXCEPT !.amount = amount]]
      BY <2>2
    <3> QED
      BY <3>1, <3>2, <3>3
  <2>4. Updates'
    BY <1>4 DEF UpdateRate, Updates, Rested, Resting
  <2>5. Shape'
    BY <1>1, <2>3, <2>4, IdleShape DEF Tables
  <2>6. Grows /\ SameLoans
    BY <1>1, <2>3 DEF Grows, SameLoans, Granted, Tables
  <2> QED
    BY <1>1, <2>5, <2>6, IdleRuns, IdleCalls DEF Good
<1>5. CASE UpdateFails
  <2>1. UNCHANGED loan
    BY <1>5 DEF UpdateFails, tables
  <2>2. ASSUME \E s \in update.todo :
                 update' = [at |-> "write", todo |-> update.todo \ {s}, loan |-> s.loan,
                            debt |-> s.debt, left |-> Period]
        PROVE  Updates'
    <3>1. PICK s \in update.todo :
            update' = [at |-> "write", todo |-> update.todo \ {s}, loan |-> s.loan,
                       debt |-> s.debt, left |-> Period]
      BY <2>2
    <3>2. s.loan \in Loans /\ s.debt \in Nat
      BY DEF Updates, Taken
    <3> QED
      BY <3>1, <3>2 DEF Updates
  <2>3. ASSUME update' = Rested(update) PROVE Updates'
    BY <2>3 DEF Updates, Rested, Resting
  <2>4. Updates'
    BY <1>5, <2>2, <2>3 DEF UpdateFails
  <2>5. Shape'
    BY <1>1, <2>1, <2>4, IdleShape
  <2> QED
    BY <1>1, <2>1, <2>5, SameMoney, IdleRuns, IdleCalls DEF Good
<1> QED
  BY <1>2, <1>3, <1>4, <1>5

LEMMA Restart ==
  ASSUME Inv, Crash
  PROVE  Good
<1> USE DEF Inv, Shape
<1>1. UNCHANGED <<loan, rows, day, charged, disbursed>>
  BY DEF Crash, tables
<1>2. /\ \A r \in Runs : job'[r] = Asleep
      /\ job' = [r \in Runs |-> Asleep]
      /\ update' = Resting
  BY DEF Crash
<1>3. Jobs' /\ Updates'
  BY <1>1, <1>2 DEF Jobs, JobType, Asleep, Updates, Resting
<1>4. Calls'
  BY DEF Crash, Calls, CallType
<1>5. SamePaidOut
  BY DEF Crash, SamePaidOut, Calls, CallType
<1>6. SameJobs
  BY <1>2 DEF SameJobs, Follows, Asleep
<1>7. Shape'
  BY <1>1, <1>3, <1>4, IdleShape
<1> QED
  BY <1>1, <1>5, <1>6, <1>7, SameMoney DEF Good

LEMMA Stutter == Inv /\ UNCHANGED vars => Good
<1> SUFFICES ASSUME Inv, UNCHANGED vars PROVE Good
  OBVIOUS
<1>1. UNCHANGED <<loan, rows, day, charged, disbursed, job, call, update>>
  BY DEF vars, tables, money, clock
<1> QED
  BY <1>1, IdleShape, SameMoney, IdleRuns, IdleCalls DEF Good, Inv, Shape

LEMMA Step == Inv /\ [Next]_vars => Inv'
<1> SUFFICES ASSUME Inv, [Next]_vars PROVE Inv'
  OBVIOUS
<1>1. ASSUME NEW l \in Loans, SubmitLoanApplication(l) \/ RejectLoan(l) PROVE Good
  BY <1>1, Applications
<1>2. ASSUME NEW a \in Approvals,
             \/ \E l \in Loans : ReadApplication(a, l)
             \/ DebitBank(a) \/ CreditClient(a) \/ CommitApproval(a) \/ ApprovalFails(a)
      PROVE  Good
  BY <1>2, Approval, Payout, Commit
<1>3. ASSUME RunDailyCron \/ (\E r \in Triggers : TriggerInstallments(r)) PROVE Good
  BY <1>3, Fetched
<1>4. ASSUME NEW r \in Runs,
             \/ FindRow(r) \/ DebitClient(r) \/ InsufficientFunds(r) \/ CreditBank(r)
             \/ MarkPaid(r) \/ AdvanceSchedule(r) \/ MarkLate(r) \/ SetInDelay(r)
             \/ StatementFails(r)
      PROVE  Good
  BY <1>4, Found, Debited, MoneySteps, RowSteps, LoanSteps
<1>5. ASSUME FetchVariable \/ CountPaid \/ UpdateRate \/ UpdateFails PROVE Good
  BY <1>5, Rates
<1>6. ASSUME Spend \/ Earn \/ Midnight \/ Crash PROVE Good
  BY <1>6, Environment, Restart
<1>7. ASSUME UNCHANGED vars PROVE Good
  BY <1>7, Stutter
<1>8. Good
  BY <1>1, <1>2, <1>3, <1>4, <1>5, <1>6, <1>7 DEF Next
<1> QED
  BY <1>8, StaysInv DEF Good

(* Whatever approvals, runs, updates and failures there are, and however   *)
(* they interleave: a loan that counts as granted was paid out, and its    *)
(* remaining_debt has gone down by no more than the client was charged.    *)
THEOREM DebtAlwaysKept == Spec => []DebtIsKept
<1>1. Inv => DebtIsKept
  BY DEF Inv, LoansBacked, Backed, DebtIsKept
<1> QED
  BY InitInv, Step, <1>1, PTL DEF Spec

-----------------------------------------------------------------------------
(* The books.  Both sums of InTransit as sums over all runs and calls. *)

Taking(r) == IF Collecting(r) THEN job[r].amount ELSE 0
Giving(a) == IF Disbursing(a) THEN Amount ELSE 0
Collected == SumFunctionOnSet([r \in Runs |-> Taking(r)], Runs)
Withdrawn == SumFunctionOnSet([a \in Approvals |-> Giving(a)], Approvals)
Charged == SumFunctionOnSet(charged, Loans)
Disbursed == SumFunctionOnSet(disbursed, Loans)

Balances ==
  /\ client \in Nat /\ bank \in Int /\ lost \in Nat
  /\ bank + lost + Collected + Withdrawn = InitBank + Charged - Disbursed

USE FiniteAssumption

LEMMA FiniteRuns == IsFiniteSet(Runs)
<1>1. IsFiniteSet({Daily})
  BY FS_Singleton
<1> QED
  BY <1>1, FS_Union DEF Runs

LEMMA SumTypes ==
  ASSUME Shape
  PROVE  /\ \A r \in Runs : Taking(r) \in Nat
         /\ \A a \in Approvals : Giving(a) \in Nat
         /\ Collected \in Nat /\ Withdrawn \in Nat /\ Charged \in Nat /\ Disbursed \in Nat
<1>1. \A r \in Runs : Taking(r) \in Nat
  BY DEF Shape, Jobs, JobType, Taking
<1>2. \A a \in Approvals : Giving(a) \in Nat
  BY DEF Giving
<1>3. Collected \in Nat
  <2>1. \A r \in Runs : [q \in Runs |-> Taking(q)][r] \in Nat
    BY <1>1
  <2> QED
    BY <2>1, FiniteRuns, SumNat DEF Collected
<1>4. Withdrawn \in Nat
  <2>1. \A a \in Approvals : [b \in Approvals |-> Giving(b)][a] \in Nat
    BY <1>2
  <2> QED
    BY <2>1, SumNat DEF Withdrawn
<1>5. Charged \in Nat /\ Disbursed \in Nat
  <2>1. \A l \in Loans : charged[l] \in Nat /\ disbursed[l] \in Nat
    BY DEF Shape, Tables
  <2> QED
    BY <2>1, SumNat DEF Charged, Disbursed
<1> QED
  BY <1>1, <1>2, <1>3, <1>4, <1>5

LEMMA TransitIsSums == Shape => InTransit = Collected + Withdrawn
<1> SUFFICES ASSUME Shape PROVE InTransit = Collected + Withdrawn
  OBVIOUS
<1> DEFINE R == {r \in Runs : Collecting(r)}
           A == {a \in Approvals : Disbursing(a)}
<1>1. SumFunctionOnSet([r \in Runs |-> job[r].amount], R) = Collected
  <2>1. R \in SUBSET Runs
    OBVIOUS
  <2> DEFINE f == [r \in Runs |-> job[r].amount]
             g == [r \in Runs |-> Taking(r)]
  <2>2. /\ \A r \in R : f[r] \in Int
        /\ \A r \in R : g[r] = f[r]
        /\ \A r \in Runs \ R : g[r] = 0
    BY DEF Shape, Jobs, JobType, Taking
  <2> HIDE DEF R, f, g
  <2>3. SumFunctionOnSet(f, R) = SumFunctionOnSet(g, Runs)
    BY <2>1, <2>2, FiniteRuns, SumPart
  <2> QED
    BY <2>3 DEF Collected, f, g
<1>2. Amount * Cardinality(A) = Withdrawn
  <2> DEFINE f == [a \in Approvals |-> Amount]
  <2>1. A \in SUBSET Approvals
    OBVIOUS
  <2>2. /\ \A a \in A : f[a] \in Int /\ f[a] = Amount
        /\ \A a \in A : [b \in Approvals |-> Giving(b)][a] = f[a]
        /\ \A a \in Approvals \ A : [b \in Approvals |-> Giving(b)][a] = 0
    BY DEF Giving
  <2>3. IsFiniteSet(A)
    BY <2>1, FS_Subset
  <2> HIDE DEF A, f
  <2>4. SumFunctionOnSet(f, A) = Withdrawn
    BY <2>1, <2>2, SumPart DEF Withdrawn
  <2>5. SumFunctionOnSet(f, A) = Amount * Cardinality(A)
    BY <2>2, <2>3, SumConstant
  <2> QED
    BY <2>4, <2>5
<1> QED
  BY <1>1, <1>2 DEF InTransit

(* One entry of a sum changes. *)
LEMMA RunChanges ==
  ASSUME Shape, Shape', NEW r \in Runs, \A q \in Runs \ {r} : job'[q] = job[q]
  PROVE  Collected' = Collected - Taking(r) + Taking(r)'
<1> DEFINE f == [q \in Runs |-> Taking(q)]
           g == [q \in Runs |-> Taking(q)']
<1>1. \A q \in Runs : Taking(q) \in Nat /\ Taking(q)' \in Nat
  BY DEF Shape, Jobs, JobType, Taking
<1>a. /\ \A q \in Runs : f[q] \in Int /\ g[q] \in Int
      /\ \A q \in Runs \ {r} : g[q] = f[q]
      /\ f[r] = Taking(r) /\ g[r] = Taking(r)'
  BY <1>1 DEF Taking, Collecting
<1>2. Collected = SumFunctionOnSet(f, Runs) /\ Collected' = SumFunctionOnSet(g, Runs)
  BY DEF Collected
<1> HIDE DEF f, g
<1> QED
  BY <1>a, <1>2, FiniteRuns, SumChange

LEMMA CallChanges ==
  ASSUME Shape, Shape', NEW a \in Approvals, \A b \in Approvals \ {a} : call'[b] = call[b]
  PROVE  Withdrawn' = Withdrawn - Giving(a) + Giving(a)'
<1> DEFINE f == [b \in Approvals |-> Giving(b)]
           g == [b \in Approvals |-> Giving(b)']
<1>1. /\ \A b \in Approvals : f[b] \in Int /\ g[b] \in Int
      /\ \A b \in Approvals \ {a} : g[b] = f[b]
      /\ f[a] = Giving(a) /\ g[a] = Giving(a)'
  BY SumTypes DEF Giving, Disbursing
<1>2. Withdrawn = SumFunctionOnSet(f, Approvals) /\ Withdrawn' = SumFunctionOnSet(g, Approvals)
  BY DEF Withdrawn
<1> HIDE DEF f, g
<1> QED
  BY <1>1, <1>2, SumChange

LEMMA ChargeChanges ==
  ASSUME Shape, NEW l \in Loans, NEW n \in Nat, charged' = [charged EXCEPT ![l] = @ + n]
  PROVE  Charged' = Charged + n
<1> DEFINE f == charged
           g == charged'
<1>1. /\ \A k \in Loans : f[k] \in Int /\ g[k] \in Int
      /\ \A k \in Loans \ {l} : g[k] = f[k]
      /\ f[l] \in Nat /\ g[l] = f[l] + n
  BY DEF Shape, Tables
<1>2. Charged = SumFunctionOnSet(f, Loans) /\ Charged' = SumFunctionOnSet(g, Loans)
  BY DEF Charged
<1>3. Charged \in Nat
  BY SumTypes
<1> HIDE DEF f, g
<1>4. SumFunctionOnSet(g, Loans) = SumFunctionOnSet(f, Loans) - f[l] + g[l]
  BY <1>1, SumChange
<1> QED
  BY <1>1, <1>2, <1>3, <1>4

LEMMA PayoutChanges ==
  ASSUME Shape, NEW l \in Loans, NEW n \in Nat, disbursed' = [disbursed EXCEPT ![l] = @ + n]
  PROVE  Disbursed' = Disbursed + n
<1> DEFINE f == disbursed
           g == disbursed'
<1>1. /\ \A k \in Loans : f[k] \in Int /\ g[k] \in Int
      /\ \A k \in Loans \ {l} : g[k] = f[k]
      /\ f[l] \in Nat /\ g[l] = f[l] + n
  BY DEF Shape, Tables
<1>2. Disbursed = SumFunctionOnSet(f, Loans) /\ Disbursed' = SumFunctionOnSet(g, Loans)
  BY DEF Disbursed
<1>3. Disbursed \in Nat
  BY SumTypes
<1> HIDE DEF f, g
<1>4. SumFunctionOnSet(g, Loans) = SumFunctionOnSet(f, Loans) - f[l] + g[l]
  BY <1>1, SumChange
<1> QED
  BY <1>1, <1>2, <1>3, <1>4

LEMMA SumsKept ==
  /\ UNCHANGED job => UNCHANGED Collected
  /\ UNCHANGED call => UNCHANGED Withdrawn
  /\ UNCHANGED charged => UNCHANGED Charged
  /\ UNCHANGED disbursed => UNCHANGED Disbursed
<1>1. UNCHANGED job => \A r \in Runs : Taking(r)' = Taking(r)
  BY DEF Taking, Collecting
<1>2. UNCHANGED call => \A a \in Approvals : Giving(a)' = Giving(a)
  BY DEF Giving, Disbursing
<1>3. UNCHANGED job => UNCHANGED Collected
  BY <1>1 DEF Collected
<1>4. UNCHANGED call => UNCHANGED Withdrawn
  BY <1>2 DEF Withdrawn
<1> QED
  BY <1>3, <1>4 DEF Charged, Disbursed

(* A run or a call that goes on where no money is on its way. *)
LEMMA RunQuiet ==
  ASSUME Shape, Shape', NEW r \in Runs, \A q \in Runs \ {r} : job'[q] = job[q],
         job[r].at # "credit", job'[r].at # "credit"
  PROVE  Collected' = Collected
<1>1. Taking(r) = 0 /\ Taking(r)' = 0
  BY DEF Taking, Collecting
<1> QED
  BY <1>1, RunChanges, SumTypes

LEMMA CallQuiet ==
  ASSUME Shape, Shape', NEW a \in Approvals, \A b \in Approvals \ {a} : call'[b] = call[b],
         call[a].at # "credit", call'[a].at # "credit"
  PROVE  Withdrawn' = Withdrawn
<1>1. Giving(a) = 0 /\ Giving(a)' = 0
  BY DEF Giving, Disbursing
<1> QED
  BY <1>1, CallChanges, SumTypes

LEMMA RunMoves ==
  ASSUME Shape, NEW r \in Runs
  PROVE  /\ Leave(r) => job'[r].at \in {"idle", "loop"} /\ \A q \in Runs \ {r} : job'[q] = job[q]
         /\ \A label : At(r, label) =>
              job'[r].at = label /\ \A q \in Runs \ {r} : job'[q] = job[q]
<1>1. job \in [Runs -> JobType] /\ job[r] \in JobType
  BY DEF Shape, Jobs
<1>2. Return(job[r]).at \in {"idle", "loop"}
  BY <1>1, ReturnFollows
<1>3. ASSUME Leave(r)
      PROVE  job'[r].at \in {"idle", "loop"} /\ \A q \in Runs \ {r} : job'[q] = job[q]
  BY <1>1, <1>2, <1>3 DEF Leave
<1>4. ASSUME NEW label, At(r, label)
      PROVE  job'[r].at = label /\ \A q \in Runs \ {r} : job'[q] = job[q]
  BY <1>1, <1>4 DEF At, JobType
<1> QED
  BY <1>3, <1>4

(* Steps that move no money of the books. *)
LEMMA QuietSteps ==
  ASSUME Shape, Shape', Balances,
         \/ \E l \in Loans : SubmitLoanApplication(l) \/ RejectLoan(l)
         \/ \E a \in Approvals, l \in Loans : ReadApplication(a, l)
         \/ \E a \in Approvals : CommitApproval(a)
         \/ RunDailyCron \/ (\E r \in Triggers : TriggerInstallments(r))
         \/ \E r \in Runs : \/ FindRow(r) \/ InsufficientFunds(r) \/ MarkPaid(r)
                             \/ AdvanceSchedule(r) \/ MarkLate(r) \/ SetInDelay(r)
         \/ FetchVariable \/ CountPaid \/ UpdateRate \/ UpdateFails
         \/ Spend \/ Earn \/ Midnight \/ UNCHANGED vars
  PROVE  Balances'
<1>1. UNCHANGED <<bank, lost, charged, disbursed>>
  BY ZenonT(60) DEF SubmitLoanApplication, RejectLoan, ReadApplication, CommitApproval, RunDailyCron,
         TriggerInstallments, FindRow, InsufficientFunds, MarkPaid, AdvanceSchedule, MarkLate,
         SetInDelay, FetchVariable, CountPaid, UpdateRate, UpdateFails, Spend, Earn, Midnight,
         vars, money
<1>2. client' \in Nat
  <2>1. CASE Spend
    BY <2>1 DEF Spend, Balances
  <2>2. CASE Earn
    BY <2>2 DEF Earn, Balances
  <2>3. CASE UNCHANGED client
    BY <2>3 DEF Balances
  <2> QED
    BY <2>1, <2>2, <2>3, ZenonT(60)
    DEF SubmitLoanApplication, RejectLoan, ReadApplication, CommitApproval, RunDailyCron,
        TriggerInstallments, FindRow, InsufficientFunds, MarkPaid, AdvanceSchedule, MarkLate,
        SetInDelay, FetchVariable, CountPaid, UpdateRate, UpdateFails, Midnight, vars, money
<1>3. Collected' = Collected
  <2>1. CASE UNCHANGED job
    BY <2>1, SumsKept
  <2>2. ASSUME NEW r \in Runs, FindRow(r) \/ InsufficientFunds(r) \/ MarkPaid(r)
                               \/ AdvanceSchedule(r) \/ MarkLate(r) \/ SetInDelay(r)
        PROVE  Collected' = Collected
    <3>1. job[r].at # "credit"
      BY <2>2 DEF FindRow, InsufficientFunds, MarkPaid, AdvanceSchedule, MarkLate, SetInDelay
    <3>2. job'[r].at # "credit" /\ \A q \in Runs \ {r} : job'[q] = job[q]
      <4>1. CASE FindRow(r)
        <5>1. job \in [Runs -> JobType]
          BY DEF Shape, Jobs
        <5>2. \E k : job' = [job EXCEPT ![r] = k] /\ k.at # "credit"
          BY <4>1, <5>1, ReturnFollows, SMTT(30) DEF FindRow
        <5> QED
          BY <5>1, <5>2
      <4>2. CASE AdvanceSchedule(r) \/ SetInDelay(r)
        BY <4>2, RunMoves DEF AdvanceSchedule, SetInDelay
      <4>3. CASE InsufficientFunds(r) \/ MarkPaid(r) \/ MarkLate(r)
        BY <4>3, RunMoves DEF InsufficientFunds, MarkPaid, MarkLate
      <4> QED
        BY <2>2, <4>1, <4>2, <4>3
    <3> QED
      BY <3>1, <3>2, RunQuiet, SMTT(30)
  <2>3. ASSUME NEW r \in Runs, NEW set, Fetch(r, set)
        PROVE  Collected' = Collected
    <3>0. job \in [Runs -> JobType]
      BY DEF Shape, Jobs
    <3>1. job[r].at = "idle" /\ job'[r].at \in {"idle", "loop"} /\ \A q \in Runs \ {r} : job'[q] = job[q]
      <4>1. CASE set = {}
        BY <2>3, <3>0, <4>1 DEF Fetch
      <4>2. CASE set # {}
        BY <2>3, <3>0, <4>2 DEF Fetch, JobType
      <4> QED
        BY <4>1, <4>2
    <3> QED
      BY <3>1, RunQuiet
  <2>4. CASE RunDailyCron
    BY <2>3, <2>4 DEF RunDailyCron, Runs
  <2>5. ASSUME NEW r \in Triggers, TriggerInstallments(r)
        PROVE  Collected' = Collected
    BY <2>3, <2>5 DEF TriggerInstallments, Runs
  <2> QED
    BY <2>1, <2>2, <2>4, <2>5
    DEF SubmitLoanApplication, RejectLoan, ReadApplication, CommitApproval, FetchVariable,
        CountPaid, UpdateRate, UpdateFails, Spend, Earn, Midnight, vars
<1>4. Withdrawn' = Withdrawn
  <2>1. CASE UNCHANGED call
    BY <2>1, SumsKept
  <2>2. ASSUME NEW a \in Approvals, CommitApproval(a) \/ \E l \in Loans : ReadApplication(a, l)
        PROVE  Withdrawn' = Withdrawn
    <3>0. call \in [Approvals -> CallType]
      BY DEF Shape, Calls
    <3>1. /\ call[a].at # "credit" /\ call'[a].at # "credit"
          /\ \A b \in Approvals \ {a} : call'[b] = call[b]
      <4>1. CASE CommitApproval(a)
        BY <3>0, <4>1 DEF CommitApproval, CallType
      <4>2. CASE \E l \in Loans : ReadApplication(a, l)
        BY <3>0, <4>2 DEF ReadApplication
      <4> QED
        BY <2>2, <4>1, <4>2, SMTT(30)
    <3> QED
      BY <3>1, CallQuiet
  <2> QED
    BY <2>1, <2>2
    DEF SubmitLoanApplication, RejectLoan, RunDailyCron, TriggerInstallments, FindRow,
        InsufficientFunds, MarkPaid, AdvanceSchedule, MarkLate, SetInDelay, FetchVariable,
        CountPaid, UpdateRate, UpdateFails, Spend, Earn, Midnight, vars
<1> QED
  BY <1>1, <1>2, <1>3, <1>4, SumsKept DEF Balances

(* Steps of an approval that move money. *)
LEMMA ApprovalBooks ==
  ASSUME Shape, Shape', Balances, NEW a \in Approvals,
         DebitBank(a) \/ CreditClient(a) \/ ApprovalFails(a)
  PROVE  Balances'
<1> USE SumTypes, SumsKept
<1>1. Collected' = Collected /\ Charged' = Charged
  BY DEF DebitBank, CreditClient, ApprovalFails
<1>2. /\ \A b \in Approvals \ {a} : call'[b] = call[b]
      /\ call'[a].at = IF DebitBank(a) THEN "credit" ELSE IF CreditClient(a) THEN "commit" ELSE "end"
  BY DEF DebitBank, CreditClient, ApprovalFails, Shape, Calls, CallType
<1>3. Withdrawn' = Withdrawn - Giving(a) + Giving(a)'
  BY <1>2, CallChanges
<1>4. CASE DebitBank(a)
  <2>1. Giving(a) = 0 /\ Giving(a)' = Amount
    BY <1>2, <1>4 DEF DebitBank, Giving, Disbursing
  <2>2. bank' = bank - Amount /\ UNCHANGED <<client, lost, disbursed>>
    BY <1>4 DEF DebitBank
  <2> QED
    BY <1>1, <1>3, <2>1, <2>2 DEF Balances
<1>5. CASE CreditClient(a)
  <2>1. Giving(a) = Amount /\ Giving(a)' = 0
    BY <1>2, <1>5 DEF CreditClient, DebitBank, Giving, Disbursing
  <2>2. Disbursed' = Disbursed + Amount
    <3>1. PICK l \in Loans : l = call[a].loan
      BY <1>5 DEF CreditClient, Shape, Calls
    <3>2. disbursed' = [disbursed EXCEPT ![l] = @ + Amount]
      BY <1>5, <3>1 DEF CreditClient
    <3> QED
      BY <3>2, PayoutChanges
  <2>3. client' = client + Amount /\ UNCHANGED <<bank, lost>>
    BY <1>5 DEF CreditClient
  <2> QED
    BY <1>1, <1>3, <2>1, <2>2, <2>3 DEF Balances
<1>6. CASE ApprovalFails(a)
  <2>1. Giving(a)' = 0
    BY <1>2, <1>6 DEF ApprovalFails, CreditClient, DebitBank, Giving, Disbursing, Shape, Calls, CallType
  <2>2. lost' = lost + Giving(a) /\ UNCHANGED <<client, bank, disbursed>>
    BY <1>6 DEF ApprovalFails, Giving, Balances
  <2> QED
    BY <1>1, <1>3, <2>1, <2>2 DEF Balances
<1> QED
  BY <1>4, <1>5, <1>6

(* Steps of a run that move money. *)
LEMMA RunBooks ==
  ASSUME Shape, Shape', Balances, NEW r \in Runs,
         DebitClient(r) \/ CreditBank(r) \/ StatementFails(r)
  PROVE  Balances'
<1> USE SumTypes, SumsKept
<1>1. Withdrawn' = Withdrawn /\ Disbursed' = Disbursed
  BY DEF DebitClient, CreditBank, StatementFails
<1>2. \A q \in Runs \ {r} : job'[q] = job[q]
  BY DEF DebitClient, CreditBank, StatementFails, At, Leave, Shape, Jobs
<1>3. Collected' = Collected - Taking(r) + Taking(r)'
  BY <1>2, RunChanges
<1>4. job[r] \in JobType
  BY DEF Shape, Jobs
<1>5. CASE DebitClient(r)
  <2>1. Taking(r) = 0 /\ Taking(r)' = job[r].amount
    BY <1>4, <1>5 DEF DebitClient, At, Taking, Collecting, Shape, Jobs, JobType
  <2>2. Charged' = Charged + job[r].amount
    <3>1. PICK l \in Loans : l = job[r].loan
      BY <1>5 DEF DebitClient, Shape, Jobs
    <3>2. charged' = [charged EXCEPT ![l] = @ + job[r].amount] /\ job[r].amount \in Nat
      BY <1>4, <1>5, <3>1 DEF DebitClient, JobType
    <3> QED
      BY <3>2, ChargeChanges
  <2>3. client' = client - job[r].amount /\ client >= job[r].amount /\ UNCHANGED <<bank, lost>>
    BY <1>5 DEF DebitClient
  <2>4. job[r].amount \in Nat
    BY <1>4 DEF JobType
  <2> QED
    BY <1>1, <1>3, <2>1, <2>2, <2>3, <2>4 DEF Balances
<1>6. CASE CreditBank(r)
  <2>1. Taking(r) = job[r].amount /\ Taking(r)' = 0
    BY <1>4, <1>6 DEF CreditBank, At, Taking, Collecting, Shape, Jobs, JobType
  <2>2. bank' = bank + job[r].amount /\ UNCHANGED <<client, lost, charged>> /\ job[r].amount \in Nat
    BY <1>4, <1>6 DEF CreditBank, JobType
  <2> QED
    BY <1>1, <1>3, <2>1, <2>2 DEF Balances
<1>7. CASE StatementFails(r)
  <2>1. Taking(r)' = 0
    <3>1. job'[r].at # "credit"
      BY <1>7, RunMoves DEF StatementFails
    <3> QED
      BY <3>1 DEF Taking, Collecting
  <2>2. lost' = lost + Taking(r) /\ UNCHANGED <<client, bank, charged>>
    BY <1>7 DEF StatementFails, Taking, Balances
  <2> QED
    BY <1>1, <1>3, <2>1, <2>2 DEF Balances
<1> QED
  BY <1>5, <1>6, <1>7

LEMMA CrashBooks ==
  ASSUME Shape, Balances, Crash
  PROVE  Balances'
<1> USE SumTypes, SumsKept
<1>1. UNCHANGED <<client, bank, charged, disbursed>> /\ lost' = lost + (Collected + Withdrawn)
  BY TransitIsSums DEF Crash
<1>2. Collected' = 0
  <2>1. \A r \in Runs : Taking(r)' = 0
    BY DEF Crash, Taking, Collecting, Asleep
  <2> DEFINE g == [r \in Runs |-> Taking(r)']
  <2>2. \A r \in Runs : g[r] = 0
    BY <2>1
  <2>3. Collected' = SumFunctionOnSet(g, Runs)
    BY DEF Collected
  <2> HIDE DEF g
  <2> QED
    BY <2>2, <2>3, FiniteRuns, SumZero
<1>3. Withdrawn' = 0
  <2>1. \A a \in Approvals : Giving(a)' = 0
    BY DEF Crash, Giving, Disbursing, Shape, Calls, CallType
  <2> DEFINE g == [a \in Approvals |-> Giving(a)']
  <2>2. \A a \in Approvals : g[a] = 0
    BY <2>1
  <2>3. Withdrawn' = SumFunctionOnSet(g, Approvals)
    BY DEF Withdrawn
  <2> HIDE DEF g
  <2> QED
    BY <2>2, <2>3, SumZero
<1> QED
  BY <1>1, <1>2, <1>3 DEF Balances

LEMMA StepBooks == Inv /\ Inv' /\ Balances /\ [Next]_vars => Balances'
<1> SUFFICES ASSUME Shape, Shape', Balances, [Next]_vars PROVE Balances'
  BY DEF Inv
<1>1. ASSUME NEW a \in Approvals,
             \/ \E l \in Loans : ReadApplication(a, l)
             \/ DebitBank(a) \/ CreditClient(a) \/ CommitApproval(a) \/ ApprovalFails(a)
      PROVE  Balances'
  BY <1>1, QuietSteps, ApprovalBooks
<1>2. ASSUME NEW r \in Runs,
             \/ FindRow(r) \/ DebitClient(r) \/ InsufficientFunds(r) \/ CreditBank(r)
             \/ MarkPaid(r) \/ AdvanceSchedule(r) \/ MarkLate(r) \/ SetInDelay(r)
             \/ StatementFails(r)
      PROVE  Balances'
  BY <1>2, QuietSteps, RunBooks
<1>3. CASE Crash
  BY <1>3, CrashBooks
<1> QED
  BY <1>1, <1>2, <1>3, QuietSteps DEF Next

LEMMA InitBooks == Init => Balances
<1> SUFFICES ASSUME Init PROVE Balances
  OBVIOUS
<1>1. Shape
  BY InitInv DEF Inv
<1>2. Collected = 0
  <2> DEFINE g == [r \in Runs |-> Taking(r)]
  <2>1. \A r \in Runs : g[r] = 0
    BY DEF Init, Taking, Collecting, Asleep
  <2> HIDE DEF g
  <2>2. SumFunctionOnSet(g, Runs) = 0
    BY <2>1, FiniteRuns, SumZero
  <2> QED
    BY <2>2 DEF Collected, g
<1>3. Withdrawn = 0
  <2> DEFINE g == [a \in Approvals |-> Giving(a)]
  <2>1. \A a \in Approvals : g[a] = 0
    BY DEF Init, Giving, Disbursing
  <2> HIDE DEF g
  <2>2. SumFunctionOnSet(g, Approvals) = 0
    BY <2>1, SumZero
  <2> QED
    BY <2>2 DEF Withdrawn, g
<1>4. Charged = 0 /\ Disbursed = 0
  <2>1. \A l \in Loans : charged[l] = 0 /\ disbursed[l] = 0
    BY DEF Init
  <2> QED
    BY <2>1, SumZero DEF Charged, Disbursed
<1> QED
  BY <1>2, <1>3, <1>4 DEF Init, Balances

(* The bank's books balance in every reachable state: of any number of     *)
(* approvals and runs under way at the same time, each debit is credited   *)
(* once, still on its way, or lost to a failure, and a restart loses what  *)
(* is on its way and nothing else.                                         *)
THEOREM BooksAlwaysBalance == Spec => []BankBooks
<1>1. Inv /\ Balances => BankBooks
  <2> SUFFICES ASSUME Inv, Balances PROVE BankBooks
    OBVIOUS
  <2>1. SumFunction(charged) = Charged /\ SumFunction(disbursed) = Disbursed
    BY SumOfAll DEF Inv, Shape, Tables, Charged, Disbursed
  <2>2. InTransit = Collected + Withdrawn
    BY TransitIsSums DEF Inv
  <2> QED
    BY <2>1, <2>2, SumTypes DEF Inv, Balances, BankBooks
<1> QED
  BY InitInv, InitBooks, Step, StepBooks, <1>1, PTL DEF Spec

-----------------------------------------------------------------------------
(* Type correctness: what Inv and Balances leave open. *)
Flags ==
  /\ midnight \in BOOLEAN /\ charges \in [Loans -> Nat]
  /\ overlapped \in BOOLEAN /\ forced \in BOOLEAN /\ early \in BOOLEAN
  /\ update.at \in {"idle", "loop", "write"}
  /\ update.at = "write" => update.left \in 1 .. Period
  /\ bounds \in [{"triggers", "updates", "faults", "spent", "earned"} -> Nat]

LEMMA CountType ==
  ASSUME Flags, NEW field \in {"triggers", "updates", "faults", "spent", "earned"}, Count(field)
  PROVE  bounds' \in [{"triggers", "updates", "faults", "spent", "earned"} -> Nat]
  BY DEF Flags, Count

LEMMA BoundsStep ==
  ASSUME Flags, [Next]_vars
  PROVE  bounds' \in [{"triggers", "updates", "faults", "spent", "earned"} -> Nat]
<1>1. \/ UNCHANGED bounds
      \/ \E field \in {"triggers", "updates", "faults", "spent", "earned"} : Count(field)
  BY DEF Next, vars, SubmitLoanApplication, RejectLoan, ReadApplication, DebitBank, CreditClient,
         CommitApproval, ApprovalFails, RunDailyCron, TriggerInstallments, FindRow, DebitClient,
         InsufficientFunds, CreditBank, MarkPaid, AdvanceSchedule, MarkLate, SetInDelay,
         StatementFails, FetchVariable, CountPaid, UpdateRate, UpdateFails, Spend, Earn, Midnight,
         Crash, Fault
<1> QED
  BY <1>1, CountType, SMTT(30) DEF Flags

LEMMA StepFlags == Inv /\ Flags /\ [Next]_vars => Flags'
<1> SUFFICES ASSUME Inv, Flags, [Next]_vars PROVE Flags'
  BY SMTT(30)
<1>1. /\ \/ UNCHANGED midnight
         \/ midnight' \in BOOLEAN
      /\ UNCHANGED forced \/ forced' = TRUE
      /\ UNCHANGED overlapped \/ \E r \in Runs :
            overlapped' = (overlapped \/ \E q \in Runs \ {r} : job[q].at # "idle")
      /\ UNCHANGED early \/ \E r \in Runs :
            early' = (early \/ rows[job[r].loan][job[r].row].due > day)
  BY ZenonT(60) DEF Next, vars, SubmitLoanApplication, RejectLoan, ReadApplication, DebitBank, CreditClient,
         CommitApproval, ApprovalFails, RunDailyCron, TriggerInstallments, Fetch, FindRow, DebitClient,
         InsufficientFunds, CreditBank, MarkPaid, AdvanceSchedule, MarkLate, SetInDelay,
         StatementFails, FetchVariable, CountPaid, UpdateRate, UpdateFails, Spend, Earn, Midnight,
         Crash, Fault, clock, ghosts, Runs
<1>2. charges' \in [Loans -> Nat]
  <2>1. UNCHANGED charges \/ \E r \in Runs : charges' = [charges EXCEPT ![job[r].loan] = @ + 1]
    BY ZenonT(60) DEF Next, vars, SubmitLoanApplication, RejectLoan, ReadApplication, DebitBank, CreditClient,
           CommitApproval, ApprovalFails, RunDailyCron, TriggerInstallments, FindRow, DebitClient,
           InsufficientFunds, CreditBank, MarkPaid, AdvanceSchedule, MarkLate, SetInDelay,
           StatementFails, FetchVariable, CountPaid, UpdateRate, UpdateFails, Spend, Earn, Midnight,
           Crash, Fault, money
  <2> QED
    BY <2>1 DEF Flags
<1>3. update'.at \in {"idle", "loop", "write"} /\ (update'.at = "write" => update'.left \in 1 .. Period)
  <2>1. CASE UNCHANGED update
    BY <2>1 DEF Flags
  <2>2. \A u : Rested(u).at \in {"idle", "loop"}
    BY DEF Rested, Resting
  <2>3. CASE FetchVariable
    BY <2>3 DEF FetchVariable, Flags
  <2>4. CASE CountPaid
    <3>1. PICK s \in update.todo :
            LET left == Period - Cardinality(PaidRows(s.loan))
                rest == update.todo \ {s}
            IN update' = IF left <= 0
                         THEN Rested([update EXCEPT !.todo = rest])
                         ELSE [at |-> "write", todo |-> rest, loan |-> s.loan, debt |-> s.debt, left |-> left]
      BY <2>4 DEF CountPaid
    <3>2. s.loan \in Loans /\ Cardinality(PaidRows(s.loan)) \in Nat
      BY RowsLeft DEF Inv, Shape, Updates, Taken
    <3> QED
      BY <3>1, <3>2, <2>2
  <2>5. CASE UpdateRate
    BY <2>2, <2>5 DEF UpdateRate
  <2>6. CASE UpdateFails
    BY <2>2, <2>6 DEF UpdateFails
  <2>7. CASE Crash
    BY <2>7 DEF Crash, Resting
  <2> QED
    BY <2>1, <2>3, <2>4, <2>5, <2>6, <2>7
    DEF Next, vars, SubmitLoanApplication, RejectLoan, ReadApplication, DebitBank, CreditClient,
        CommitApproval, ApprovalFails, RunDailyCron, TriggerInstallments, FindRow, DebitClient,
        InsufficientFunds, CreditBank, MarkPaid, AdvanceSchedule, MarkLate, SetInDelay,
        StatementFails, Spend, Earn, Midnight
<1> QED
  BY <1>1, <1>2, <1>3, BoundsStep DEF Flags

LEMMA InitFlags == Init => Flags
<1>1. Init => bounds \in [{"triggers", "updates", "faults", "spent", "earned"} -> Nat]
  BY DEF Init
<1>2. Init => charges \in [Loans -> Nat] /\ update.at = "idle"
  BY DEF Init, Resting
<1> QED
  BY <1>1, <1>2 DEF Init, Flags

(* LoanRepayment is type correct; in particular no account of a client is  *)
(* overdrawn by an installment, no run works on a row that does not exist, *)
(* and no update divides a debt by no installments at all.                 *)
THEOREM LoanTypes == Spec => []TypeOK
<1>1. Inv /\ Balances /\ Flags => TypeOK
  BY DEF Inv, Shape, Tables, Jobs, Calls, Updates, LoanType, CallType, Taken, Balances, Flags, TypeOK
<1> QED
  BY InitInv, InitBooks, InitFlags, Step, StepBooks, StepFlags, <1>1, PTL DEF Spec

-----------------------------------------------------------------------------
(* Serial runs: one row, one charge, and a schedule that covers the debt.  *)
(* Orderly is what holds as long as Serial does: charges counts the rows   *)
(* paid or being paid, which come first in the schedule; the date of the   *)
(* loan is that of the next row; and what a run read of a loan, amount,    *)
(* debt and row, is still true of it when the run comes to use it.         *)
Less(d, a) == IF d > a THEN d - a ELSE 0
Owed(l) == Less(Amount, charged[l])
Left(l) == Period - charges[l]
Covers(x, l) == x * Left(l) >= Owed(l)
Timely(l) == forced \/ loan[l].next <= day
Paying(l) == Handled(l, {"credit", "mark"})
Busy(l) == Handled(l, {"credit", "mark", "advance"})

RowsInOrder(l) ==
  /\ Len(rows[l]) = (IF Granted(l) THEN Period ELSE 0)
  /\ charges[l] \in 0 .. Len(rows[l])
  /\ ~Granted(l) => charged[l] = 0
  /\ \A i \in DOMAIN rows[l] :
       /\ rows[l][i].due = loan[l].agreed + i * Month
       /\ rows[l][i].status = "PAID" <=> i <= charges[l] - (IF Paying(l) THEN 1 ELSE 0)
LoanInOrder(l) ==
  Granted(l) =>
    /\ ~Busy(l) => loan[l].debt = Owed(l)
    /\ loan[l].next = loan[l].agreed + (charges[l] + (IF Busy(l) THEN 0 ELSE 1)) * Month
    /\ loan[l].status = "IN_DELAY" => Timely(l)
    /\ Covers(loan[l].amount, l)

SnapshotInOrder(s) ==
  s.debt = loan[s.loan].debt /\ Covers(s.amount, s.loan) /\ Timely(s.loan)
TodoInOrder(r) ==
  /\ job[r].at = "idle" => job[r].todo = {}
  /\ \A s \in job[r].todo :
       /\ SnapshotInOrder(s)
       /\ job[r].at \notin {"idle", "loop"} => s.loan # job[r].loan
       /\ \A t \in job[r].todo : t.loan = s.loan => t = s
HandInOrder(r) ==
  LET j == job[r] IN
  /\ j.at \notin {"idle", "loop"} => j.debt = loan[j.loan].debt
  /\ j.at \in {"debit", "late"} => j.row = charges[j.loan] + 1
  /\ j.at \in {"debit", "late", "delay"} => Timely(j.loan)
  /\ j.at = "debit" => Covers(j.amount, j.loan)
  /\ j.at \in {"credit", "mark"} =>
       j.row = charges[j.loan] /\ j.amount * (Left(j.loan) + 1) >= j.debt
  /\ j.at \in {"credit", "mark", "advance"} =>
       charges[j.loan] > 0 /\ Owed(j.loan) = Less(j.debt, j.amount)
OneRun == \A q, r \in Runs : job[q].at # "idle" /\ job[r].at # "idle" => q = r

(* Whatever amount an update may yet write covers what is left. *)
RateInOrder ==
  /\ \A s \in update.todo : Granted(s.loan) /\ s.debt >= loan[s.loan].debt
  /\ update.at = "write" =>
       /\ Granted(update.loan)
       /\ \A x \in Nat : x * update.left >= update.debt => Covers(x, update.loan)

Orderly ==
  /\ OneRun /\ (early => forced)
  /\ \A l \in Loans : RowsInOrder(l) /\ LoanInOrder(l)
  /\ \A r \in Runs : TodoInOrder(r) /\ HandInOrder(r)
  /\ RateInOrder

(* Two amounts that each cover a debt in n rows: when one of them is paid, *)
(* the other covers the rest in the rows that are left.                    *)
LEMMA Instalment ==
  ASSUME NEW x \in Nat, NEW a \in Nat, NEW n \in Nat \ {0}, NEW d \in Nat,
         x * n >= d, a * n >= d
  PROVE  x * (n - 1) >= Less(d, a)
<1>1. x * (n - 1) = x * n - x /\ a * (n - 1) = a * n - a
  OBVIOUS
<1>2. x * n \in Nat /\ a * n \in Nat /\ x * (n - 1) \in Nat /\ a * (n - 1) \in Nat
  OBVIOUS
<1>3. CASE x <= a
  BY <1>1, <1>2, <1>3 DEF Less
<1>4. CASE x > a
  <2>1. x * (n - 1) = a * (n - 1) + (x - a) * (n - 1)
    OBVIOUS
  <2>2. (x - a) * (n - 1) \in Nat
    BY <1>4
  <2> QED
    BY <1>1, <1>2, <2>1, <2>2 DEF Less
<1> QED
  BY <1>3, <1>4

(* monthlyInstallment rounds up. *)
LEMMA Rounding ==
  ASSUME NEW debt \in Nat, NEW n \in Nat \ {0}, NEW x \in Installments(debt, n)
  PROVE  x \in Nat /\ x * n >= debt
<1> DEFINE p == debt + n - 1
           q == p \div n
<1>1. PICK i \in Nat : x = q + i
  BY DEF Installments
<1>2. p \in Nat
  OBVIOUS
<1> HIDE DEF p
<1>3. p = n * q + (p % n) /\ p % n \in 0 .. n - 1 /\ q \in Nat
  BY <1>2
<1> HIDE DEF q
<1>4. n * q >= debt
  BY <1>3 DEF p
<1>5. x * n = n * q + i * n /\ i * n \in Nat /\ n * q \in Nat
  BY <1>1, <1>3
<1> QED
  BY <1>1, <1>3, <1>4, <1>5

LEMMA Later ==
  ASSUME NEW i \in Nat, NEW k \in Nat
  PROVE  (i + 1) * Month = i * Month + Month /\ (i > k => i * Month > k * Month)
<1>1. (i + 1) * Month = i * Month + Month
  OBVIOUS
<1>2. ASSUME i > k PROVE i * Month > k * Month
  <2>1. i * Month = k * Month + (i - k) * Month
    OBVIOUS
  <2>2. (i - k) * Month >= Month
    <3>1. i - k - 1 \in Nat
      BY <1>2
    <3>2. (i - k) * Month = (i - k - 1) * Month + Month /\ (i - k - 1) * Month \in Nat
      BY <3>1
    <3> QED
      BY <3>2
  <2>3. k * Month \in Nat
    OBVIOUS
  <2> QED
    BY <2>1, <2>2, <2>3
<1> QED
  BY <1>1, <1>2

LEMMA NoFault == Flags /\ Fault => ~Serial'
  BY SMTT(30) DEF Flags, Fault, Count, Serial

LEMMA RowsGrow ==
  ASSUME Inv, [Next]_vars, NEW l \in Loans
  PROVE  Len(rows'[l]) >= Len(rows[l])
<1> USE DEF Inv, Shape
<1>1. Len(rows[l]) \in Nat /\ rows[l] \in Seq(RowType)
  BY DEF Tables
<1>2. CASE UNCHANGED rows
  BY <1>1, <1>2
<1>3. ASSUME NEW a \in Approvals, CommitApproval(a)
      PROVE  Len(rows'[l]) >= Len(rows[l])
  <2>1. PICK k \in Loans : rows' = [rows EXCEPT ![k] = @ \o Schedule(k)]
    BY <1>3 DEF CommitApproval, Calls
  <2>2. CASE k = l
    <3>1. rows'[l] = rows[l] \o Schedule(l) /\ Schedule(l) \in Seq(RowType)
      BY <2>1, <2>2, ScheduleType DEF Tables
    <3> QED
      BY <1>1, <3>1
  <2>3. CASE k # l
    BY <1>1, <2>1, <2>3 DEF Tables
  <2> QED
    BY <2>2, <2>3
<1>4. ASSUME NEW r \in Runs, MarkPaid(r) \/ MarkLate(r)
      PROVE  Len(rows'[l]) >= Len(rows[l])
  <2>1. PICK k \in Loans : \E i, row : rows' = [rows EXCEPT ![k] = [@ EXCEPT ![i] = row]]
    BY <1>4 DEF MarkPaid, MarkLate, UpdateRow, Jobs
  <2>2. Len(rows'[l]) = Len(rows[l])
    BY <1>1, <2>1 DEF Tables
  <2> QED
    BY <1>1, <2>2
<1> QED
  BY <1>2, <1>3, <1>4
  DEF Next, vars, SubmitLoanApplication, RejectLoan, ReadApplication, DebitBank, CreditClient,
      ApprovalFails, RunDailyCron, TriggerInstallments, FindRow, DebitClient,
      InsufficientFunds, CreditBank, AdvanceSchedule, SetInDelay,
      StatementFails, FetchVariable, CountPaid, UpdateRate, UpdateFails, Spend, Earn, Midnight,
      Crash, tables

LEMMA SerialBefore == Inv /\ Inv' /\ Flags /\ [Next]_vars /\ Serial' => Serial
<1> SUFFICES ASSUME Inv, Inv', Flags, [Next]_vars, Serial' PROVE Serial
  OBVIOUS
<1>1. ~overlapped
  <2>1. UNCHANGED overlapped \/ \E r \in Runs :
            overlapped' = (overlapped \/ \E q \in Runs \ {r} : job[q].at # "idle")
    BY ZenonT(60) DEF Next, vars, SubmitLoanApplication, RejectLoan, ReadApplication, DebitBank, CreditClient,
         CommitApproval, ApprovalFails, RunDailyCron, TriggerInstallments, Fetch, FindRow, DebitClient,
         InsufficientFunds, CreditBank, MarkPaid, AdvanceSchedule, MarkLate, SetInDelay,
         StatementFails, FetchVariable, CountPaid, UpdateRate, UpdateFails, Spend, Earn, Midnight,
         Crash, ghosts, Runs
  <2> QED
    BY <2>1 DEF Serial
<1>2. bounds.faults = 0
  <2>1. \/ UNCHANGED bounds
        \/ \E field \in {"triggers", "updates", "faults", "spent", "earned"} : Count(field)
    BY DEF Next, vars, SubmitLoanApplication, RejectLoan, ReadApplication, DebitBank, CreditClient,
         CommitApproval, ApprovalFails, RunDailyCron, TriggerInstallments, FindRow, DebitClient,
         InsufficientFunds, CreditBank, MarkPaid, AdvanceSchedule, MarkLate, SetInDelay,
         StatementFails, FetchVariable, CountPaid, UpdateRate, UpdateFails, Spend, Earn, Midnight,
         Crash, Fault
  <2> QED
    BY <2>1 DEF Serial, Count, Flags
<1>3. \A l \in Loans : Len(rows[l]) <= Period
  <2> SUFFICES ASSUME NEW l \in Loans PROVE Len(rows[l]) <= Period
    OBVIOUS
  <2>1. Len(rows'[l]) >= Len(rows[l]) /\ Len(rows'[l]) <= Period
    BY RowsGrow DEF Serial
  <2>2. Len(rows[l]) \in Nat /\ Len(rows'[l]) \in Nat
    BY DEF Inv, Shape, Tables
  <2> QED
    BY <2>1, <2>2
<1> QED
  BY <1>1, <1>2, <1>3 DEF Serial

(* What a step leaves alone. *)
Same(l) ==
  /\ loan'[l] = loan[l] /\ rows'[l] = rows[l]
  /\ charges'[l] = charges[l] /\ charged'[l] = charged[l]
TimePasses == day \in Nat /\ day' \in Nat /\ day' >= day /\ (forced => forced')

LEMMA LoanKept ==
  ASSUME Tables, TimePasses, NEW l \in Loans, Same(l),
         Paying(l)' <=> Paying(l), Busy(l)' <=> Busy(l), RowsInOrder(l), LoanInOrder(l)
  PROVE  RowsInOrder(l)' /\ LoanInOrder(l)'
<1>1. Granted(l)' <=> Granted(l)
  BY DEF Same, Granted
<1>2. RowsInOrder(l)'
  BY <1>1 DEF Same, RowsInOrder
<1>3. Timely(l) => Timely(l)'
  BY DEF Same, Timely, TimePasses, Tables, LoanType
<1>4. Owed(l)' = Owed(l) /\ Left(l)' = Left(l)
  BY DEF Same, Owed, Less, Left
<1>5. LoanInOrder(l)'
  BY <1>1, <1>3, <1>4 DEF Same, LoanInOrder, Covers
<1> QED
  BY <1>2, <1>5

LEMMA SnapshotKept ==
  ASSUME Tables, TimePasses, NEW s, s.loan \in Loans, Same(s.loan), SnapshotInOrder(s)
  PROVE  SnapshotInOrder(s)'
<1>1. Timely(s.loan) => Timely(s.loan)'
  BY DEF Same, Timely, TimePasses, Tables, LoanType
<1>2. Owed(s.loan)' = Owed(s.loan) /\ Left(s.loan)' = Left(s.loan)
  BY DEF Same, Owed, Less, Left
<1> QED
  BY <1>1, <1>2 DEF Same, SnapshotInOrder, Covers

LEMMA RateKept ==
  ASSUME Tables, Tables', Updates, UNCHANGED update, RateInOrder,
         \A l \in Loans : Granted(l) =>
            /\ Granted(l)' /\ loan'[l].debt <= loan[l].debt
            /\ \A x \in Nat : Covers(x, l) => Covers(x, l)'
  PROVE  RateInOrder'
<1>1. ASSUME NEW s \in update.todo
      PROVE  Granted(s.loan)' /\ s.debt >= loan'[s.loan].debt
  <2>1. s.loan \in Loans /\ s.debt \in Nat /\ Granted(s.loan) /\ s.debt >= loan[s.loan].debt
    BY DEF Updates, Taken, RateInOrder
  <2>2. loan[s.loan].debt \in Nat /\ loan'[s.loan].debt \in Nat
    BY <2>1 DEF Tables, LoanType
  <2> QED
    BY <2>1, <2>2
<1>2. ASSUME update.at = "write"
      PROVE  Granted(update.loan)' /\
             \A x \in Nat : x * update.left >= update.debt => Covers(x, update.loan)'
  <2>1. update.loan \in Loans /\ Granted(update.loan)
    BY <1>2 DEF Updates, RateInOrder
  <2> QED
    BY <1>2, <2>1 DEF RateInOrder
<1> QED
  BY <1>1, <1>2 DEF RateInOrder, Covers, Owed, Left, Less

LEMMA RateAlone ==
  ASSUME NEW l \in Loans, Same(l), Granted(l)
  PROVE  /\ Granted(l)' /\ loan'[l].debt = loan[l].debt
         /\ \A x \in Nat : Covers(x, l) => Covers(x, l)'
<1>1. Owed(l)' = Owed(l) /\ Left(l)' = Left(l)
  BY DEF Same, Owed, Less, Left
<1> QED
  BY <1>1 DEF Same, Covers, Granted

LEMMA SameRate ==
  ASSUME Tables, Tables', Updates, UNCHANGED update, RateInOrder,
         \A l \in Loans : Granted(l) => Same(l)
  PROVE  RateInOrder'
<1>1. \A l \in Loans : loan[l].debt \in Nat
  BY DEF Tables, LoanType
<1> QED
  BY <1>1, RateAlone, RateKept

(* One run at a time: who handles a loan, and what the others do. *)
Alone(r) == \A q \in Runs \ {r} : job[q].at = "idle" /\ job'[q] = job[q]
Works(r, l, labels) == job[r].loan = l /\ job[r].at \in labels

LEMMA OneHandles ==
  ASSUME NEW r \in Runs, Alone(r)
  PROVE  /\ OneRun'
         /\ \A l : Paying(l) <=> Works(r, l, {"credit", "mark"})
         /\ \A l : Busy(l) <=> Works(r, l, {"credit", "mark", "advance"})
         /\ \A l : Paying(l)' <=> Works(r, l, {"credit", "mark"})'
         /\ \A l : Busy(l)' <=> Works(r, l, {"credit", "mark", "advance"})'
  BY DEF Alone, Works, OneRun, Paying, Busy, Handled

LEMMA OthersRest ==
  ASSUME NEW r \in Runs, Alone(r), \A q \in Runs : TodoInOrder(q)
  PROVE  \A q \in Runs \ {r} : TodoInOrder(q)' /\ HandInOrder(q)'
<1> SUFFICES ASSUME NEW q \in Runs \ {r} PROVE TodoInOrder(q)' /\ HandInOrder(q)'
  OBVIOUS
<1>1. job'[q].at = "idle" /\ job'[q].todo = {}
  BY DEF Alone, TodoInOrder
<1> QED
  BY <1>1 DEF TodoInOrder, HandInOrder

LEMMA TodoKept ==
  ASSUME Tables, Jobs, TimePasses, NEW r \in Runs, TodoInOrder(r),
         job'[r].todo \subseteq job[r].todo,
         \A s \in job'[r].todo : Same(s.loan),
         job'[r].at = "idle" => job'[r].todo = {},
         job'[r].at \notin {"idle", "loop"} => \A s \in job'[r].todo : s.loan # job'[r].loan
  PROVE  TodoInOrder(r)'
<1>1. ASSUME NEW s \in job'[r].todo
      PROVE  SnapshotInOrder(s)' /\ \A t \in job'[r].todo : t.loan = s.loan => t = s
  <2>1. s \in job[r].todo /\ s.loan \in Loans
    BY DEF Jobs, JobType
  <2>2. SnapshotInOrder(s) /\ \A t \in job'[r].todo : t.loan = s.loan => t = s
    BY <2>1 DEF TodoInOrder
  <2> QED
    BY <2>1, <2>2, SnapshotKept
<1> QED
  BY <1>1 DEF TodoInOrder

(* A step that leaves the runs and the granted loans alone. *)
LEMMA RunsKept ==
  ASSUME Inv, Orderly, TimePasses, UNCHANGED job, \A l \in Loans : Granted(l) => Same(l)
  PROVE  OneRun' /\ \A r \in Runs : TodoInOrder(r)' /\ HandInOrder(r)'
<1> USE DEF Inv, Shape
<1>1. ASSUME NEW r \in Runs PROVE TodoInOrder(r)' /\ HandInOrder(r)'
  <2>1. TodoInOrder(r) /\ HandInOrder(r) /\ JobBacked(job[r])
    BY DEF Orderly
  <2>2. \A s \in job[r].todo : s.loan \in Loans /\ Same(s.loan)
    BY <2>1 DEF JobBacked, Backed, Jobs, JobType
  <2>3. TodoInOrder(r)'
    <3>1. /\ job'[r].at = "idle" => job'[r].todo = {}
          /\ job'[r].at \notin {"idle", "loop"} => \A s \in job'[r].todo : s.loan # job'[r].loan
      BY <2>1 DEF TodoInOrder
    <3> QED
      BY <2>1, <2>2, <3>1, TodoKept
  <2>4. HandInOrder(r)'
    <3>1. CASE job[r].at \in {"idle", "loop"}
      BY <3>1 DEF HandInOrder
    <3>2. CASE job[r].at \notin {"idle", "loop"}
      <4> DEFINE l == job[r].loan
      <4>1. l \in Loans /\ Same(l)
        BY <2>1, <3>2 DEF Jobs, JobBacked, Backed
      <4>2. Owed(l)' = Owed(l) /\ Left(l)' = Left(l) /\ (Timely(l) => Timely(l)')
        BY <4>1 DEF Same, Owed, Less, Left, Timely, TimePasses, Tables, LoanType
      <4> QED
        BY <2>1, <4>1, <4>2 DEF Same, HandInOrder, Covers
    <3> QED
      BY <3>1, <3>2
  <2> QED
    BY <2>3, <2>4
<1>2. OneRun'
  BY DEF OneRun, Orderly
<1> QED
  BY <1>1, <1>2

(* A step that leaves the loans and the runs alone. *)
LEMMA Elsewhere ==
  ASSUME Inv, Inv', Orderly, TimePasses, UNCHANGED <<loan, rows, charges, charged, job, update, early>>
  PROVE  Orderly'
<1> USE DEF Inv, Shape
<1>1. \A l \in Loans : Same(l) /\ (Paying(l)' <=> Paying(l)) /\ (Busy(l)' <=> Busy(l))
  BY DEF Same, Paying, Busy, Handled
<1>2. \A l \in Loans : RowsInOrder(l)' /\ LoanInOrder(l)'
  BY <1>1, LoanKept DEF Orderly
<1>3. OneRun' /\ \A r \in Runs : TodoInOrder(r)' /\ HandInOrder(r)'
  BY <1>1, RunsKept
<1>4. RateInOrder'
  BY <1>1, SameRate DEF Orderly
<1>5. early' => forced'
  BY DEF Orderly, TimePasses
<1> QED
  BY <1>2, <1>3, <1>4, <1>5 DEF Orderly

(* A step of run r alone, put together from its parts. *)
LEMMA RunOrderly ==
  ASSUME Orderly, NEW r \in Runs, Alone(r), early' => forced',
         \A l \in Loans : RowsInOrder(l)' /\ LoanInOrder(l)',
         TodoInOrder(r)', HandInOrder(r)', RateInOrder'
  PROVE  Orderly'
  BY OneHandles, OthersRest DEF Orderly

LEMMA RunAlone ==
  ASSUME Orderly, Jobs, NEW r \in Runs, job[r].at # "idle", NEW k, job' = [job EXCEPT ![r] = k]
  PROVE  Alone(r) /\ job'[r] = k
  BY DEF Orderly, OneRun, Alone, Jobs

LEMMA OrderlyApplications ==
  ASSUME Inv, Inv', Orderly, NEW l \in Loans, SubmitLoanApplication(l) \/ RejectLoan(l)
  PROVE  Orderly'
<1> USE DEF Inv, Shape
<1>1. UNCHANGED <<rows, charges, charged, day, job, update, forced, early>>
  BY DEF SubmitLoanApplication, RejectLoan, money, clock, ghosts
<1>2. /\ \A k \in Loans \ {l} : loan'[k] = loan[k]
      /\ loan[l].status \in {"NONE", "PENDING"} /\ loan'[l].status \in {"PENDING", "REJECTED"}
  BY SMTT(30) DEF SubmitLoanApplication, RejectLoan, Tables, LoanType
<1>3. ~Granted(l) /\ ~Granted(l)'
  BY <1>2 DEF Granted
<1>4. TimePasses /\ \A k \in Loans \ {l} : Same(k)
  BY <1>1, <1>2 DEF Same, TimePasses, Tables
<1>5. \A k : (Paying(k)' <=> Paying(k)) /\ (Busy(k)' <=> Busy(k))
  BY <1>1 DEF Paying, Busy, Handled
<1>6. ASSUME NEW k \in Loans PROVE RowsInOrder(k)' /\ LoanInOrder(k)'
  <2>1. CASE k # l
    BY <1>4, <1>5, <2>1, LoanKept DEF Orderly
  <2>2. CASE k = l
    <3>1. Len(rows[l]) = 0 /\ charges[l] \in 0 .. 0 /\ charged[l] = 0 /\ DOMAIN rows[l] = {}
      <4>1. RowsInOrder(l) /\ rows[l] \in Seq(RowType)
        BY DEF Orderly, Tables
      <4> QED
        BY <1>3, <4>1 DEF RowsInOrder
    <3> QED
      BY <1>1, <1>3, <2>2, <3>1 DEF RowsInOrder, LoanInOrder
  <2> QED
    BY <2>1, <2>2
<1>7. OneRun' /\ \A r \in Runs : TodoInOrder(r)' /\ HandInOrder(r)'
  BY <1>1, <1>3, <1>4, RunsKept
<1>8. RateInOrder'
  BY <1>1, <1>3, <1>4, SameRate DEF Orderly
<1>9. early' => forced'
  BY <1>1 DEF Orderly
<1> QED
  BY <1>6, <1>7, <1>8, <1>9 DEF Orderly

(* The only approval of a serial history: there were no rows. *)
LEMMA OrderlyCommit ==
  ASSUME Inv, Inv', Orderly, Serial', NEW a \in Approvals, CommitApproval(a)
  PROVE  Orderly'
<1> USE DEF Inv, Shape
<1>0. PICK l \in Loans : l = call[a].loan
  BY DEF CommitApproval, Calls
<1>1. UNCHANGED <<charges, charged, day, job, update, forced, early>>
  BY DEF CommitApproval, money, clock, ghosts
<1>2. PICK amount \in Installments(Amount, Period) :
        loan' = [loan EXCEPT ![l] = [@ EXCEPT !.status = "APPROVED", !.next = loan[l].agreed + Month,
                                              !.amount = amount, !.debt = Amount]]
  BY <1>0 DEF CommitApproval
<1>3. /\ \A k \in Loans \ {l} : loan'[k] = loan[k]
      /\ loan'[l].status = "APPROVED" /\ loan'[l].next = loan[l].agreed + Month
      /\ loan'[l].agreed = loan[l].agreed /\ loan'[l].amount = amount /\ loan'[l].debt = Amount
  BY <1>2 DEF Tables, LoanType
<1>4. rows[l] \in Seq(RowType) /\ Schedule(l) \in Seq(RowType) /\ Len(Schedule(l)) = Period
  <2>1. rows[l] \in Seq(RowType) /\ Schedule(l) \in Seq(RowType)
    BY ScheduleType, SMTT(30) DEF Tables
  <2>2. DOMAIN Schedule(l) = 1 .. Period /\ DOMAIN Schedule(l) = 1 .. Len(Schedule(l))
    BY <2>1 DEF Schedule
  <2>3. Len(Schedule(l)) \in Nat
    BY <2>1
  <2> QED
    BY <2>1, <2>2, <2>3
<1>5. rows'[l] = rows[l] \o Schedule(l) /\ \A k \in Loans \ {l} : rows'[k] = rows[k]
  BY <1>0 DEF CommitApproval, Tables
<1>6. ~Granted(l)
  <2>1. Len(rows'[l]) = Len(rows[l]) + Period /\ Len(rows'[l]) <= Period
    BY <1>4, <1>5 DEF Serial
  <2>2. Len(rows[l]) = 0
    BY <1>4, <2>1
  <2> QED
    BY <2>2 DEF Orderly, RowsInOrder
<1>7. rows[l] = <<>> /\ charges[l] = 0 /\ charged[l] = 0
  <2>1. Len(rows[l]) = 0 /\ charges[l] \in 0 .. 0 /\ charged[l] = 0
    BY <1>6 DEF Orderly, RowsInOrder
  <2> QED
    BY <1>4, <2>1
<1>8. rows'[l] = Schedule(l)
  BY <1>4, <1>5, <1>7
<1>9. Granted(l)'
  BY <1>3 DEF Granted
<1>10. TimePasses /\ \A k \in Loans \ {l} : Same(k)
  BY <1>1, <1>3, <1>5 DEF Same, TimePasses, Tables
<1>11. \A k : (Paying(k)' <=> Paying(k)) /\ (Busy(k)' <=> Busy(k))
  BY <1>1 DEF Paying, Busy, Handled
<1>12. \A r \in Runs : job[r].at \notin {"idle", "loop"} => job[r].loan # l
  BY <1>6 DEF JobBacked, Backed
<1>13. ~Paying(l) /\ ~Busy(l)
  BY <1>12 DEF Paying, Busy, Handled
<1>14. ASSUME NEW k \in Loans PROVE RowsInOrder(k)' /\ LoanInOrder(k)'
  <2>1. CASE k # l
    BY <1>10, <1>11, <2>1, LoanKept DEF Orderly
  <2>2. RowsInOrder(l)'
    <3>1. DOMAIN rows'[l] = 1 .. Period /\ Len(rows'[l]) = Period
      BY <1>4, <1>8
    <3>2. \A i \in DOMAIN rows'[l] :
            rows'[l][i].due = loan'[l].agreed + i * Month /\ rows'[l][i].status = "UNPAID"
      BY <1>3, <1>8, <3>1 DEF Schedule
    <3> QED
      BY <1>1, <1>7, <1>9, <1>11, <1>13, <3>1, <3>2 DEF RowsInOrder
  <2>3. LoanInOrder(l)'
    <3>1. amount \in Nat /\ amount * Period >= Amount
      BY Rounding
    <3>2. Owed(l)' = Amount /\ Left(l)' = Period
      BY <1>1, <1>7 DEF Owed, Less, Left
    <3>3. (0 + 1) * Month = Month
      OBVIOUS
    <3> QED
      BY <1>1, <1>3, <1>7, <1>11, <1>13, <3>1, <3>2, <3>3 DEF LoanInOrder, Covers
  <2> QED
    BY <2>1, <2>2, <2>3
<1>15. OneRun' /\ \A r \in Runs : TodoInOrder(r)' /\ HandInOrder(r)'
  BY <1>1, <1>6, <1>10, RunsKept
<1>16. RateInOrder'
  BY <1>1, <1>6, <1>10, SameRate DEF Orderly
<1>17. early' => forced'
  BY <1>1 DEF Orderly
<1> QED
  BY <1>14, <1>15, <1>16, <1>17 DEF Orderly

LEMMA OrderlyFetch ==
  ASSUME Inv, Inv', Orderly, NEW r \in Runs, NEW set \in SUBSET Loans, Fetch(r, set), ~overlapped',
         UNCHANGED <<tables, money, day, update, early>>, forced => forced',
         \A l \in set : Granted(l) /\ Timely(l)'
  PROVE  Orderly'
<1> USE DEF Inv, Shape
<1>1. UNCHANGED <<loan, rows, charges, charged, day>>
  BY DEF tables, money
<1>2. TimePasses /\ \A l \in Loans : Same(l)
  BY <1>1 DEF TimePasses, Same, Tables
<1>3. job[r].at = "idle" /\ \A q \in Runs \ {r} : job[q].at = "idle"
  BY DEF Fetch
<1>4. CASE set = {}
  <2>1. UNCHANGED job
    BY <1>4 DEF Fetch, Jobs
  <2> QED
    BY <1>1, <1>2, <2>1, Elsewhere
<1>5. CASE set # {}
  <2>1. /\ Alone(r) /\ job'[r].at = "loop"
        /\ job'[r].todo = {Snapshot(l) : l \in set}
    <3>1. job' = [job EXCEPT ![r] = [@ EXCEPT !.at = "loop", !.todo = {Snapshot(l) : l \in set}]]
      BY <1>5 DEF Fetch
    <3>2. job \in [Runs -> JobType]
      BY DEF Jobs
    <3> QED
      BY <1>3, <3>1, <3>2 DEF Alone, JobType
  <2>2. \A l : ~Paying(l) /\ ~Busy(l) /\ ~Paying(l)' /\ ~Busy(l)'
    BY <1>3, <2>1, OneHandles DEF Works
  <2>3. \A l \in Loans : RowsInOrder(l)' /\ LoanInOrder(l)'
    BY <1>2, <2>2, LoanKept DEF Orderly
  <2>4. TodoInOrder(r)'
    <3>2. ASSUME NEW s \in job'[r].todo
          PROVE  SnapshotInOrder(s)' /\ \A t \in job'[r].todo : t.loan = s.loan => t = s
      <4>1. PICK l \in set : s = Snapshot(l)
        BY <2>1
      <4>2. SnapshotInOrder(s)'
        <5>1. LoanInOrder(l)' /\ Granted(l)' /\ Timely(l)' /\ ~Busy(l)'
          BY <1>1, <2>2, <2>3 DEF Granted
        <5>2. s.loan = l /\ s.debt = loan'[l].debt /\ s.amount = loan'[l].amount
          BY <1>1, <4>1 DEF Snapshot
        <5>3. loan'[l].amount * Left(l)' >= Owed(l)'
          BY <5>1 DEF LoanInOrder, Covers
        <5> QED
          BY <5>1, <5>2, <5>3 DEF SnapshotInOrder, Covers, Timely, Owed, Left, Less
      <4>3. \A t \in job'[r].todo : t.loan = s.loan => t = s
        BY <2>1, <4>1 DEF Snapshot
      <4> QED
        BY <4>2, <4>3
    <3> QED
      BY <2>1, <3>2 DEF TodoInOrder
  <2>5. HandInOrder(r)'
    BY <2>1 DEF HandInOrder
  <2>6. RateInOrder'
    BY <1>2, SameRate DEF Orderly
  <2> QED
    BY <2>1, <2>3, <2>4, <2>5, <2>6, RunOrderly DEF Orderly
<1> QED
  BY <1>4, <1>5

LEMMA DueIsTimely ==
  ASSUME Inv, Orderly, NEW l \in Loans, NEW slack \in {0, 1}, DueToday(l, slack)
  PROVE  Granted(l) /\ Timely(l)
<1>1. Granted(l)
  BY DEF DueToday, Granted
<1>2. CASE loan[l].next = day
  BY <1>1, <1>2 DEF Timely, Inv, Shape, Tables
<1>3. CASE loan[l].status = "IN_DELAY"
  BY <1>1, <1>3 DEF Orderly, LoanInOrder
<1> QED
  BY <1>1, <1>2, <1>3 DEF DueToday

LEMMA OrderlyFetches ==
  ASSUME Inv, Inv', Orderly, Serial', RunDailyCron \/ (\E r \in Triggers : TriggerInstallments(r))
  PROVE  Orderly'
<1>1. UNCHANGED <<tables, money, day, update, early>> /\ ~overlapped'
  BY DEF RunDailyCron, TriggerInstallments, clock, Serial
<1>2. ASSUME NEW r \in Runs, NEW slack \in {0, 1}, Fetch(r, {l \in Loans : DueToday(l, slack)}), UNCHANGED forced
      PROVE  Orderly'
  <2> DEFINE set == {l \in Loans : DueToday(l, slack)}
  <2>1. ASSUME NEW l \in set PROVE Granted(l) /\ Timely(l)'
    BY <1>1, <1>2, <2>1, DueIsTimely DEF Timely, tables
  <2>2. set \in SUBSET Loans /\ Fetch(r, set)
    BY <1>2
  <2> HIDE DEF set
  <2> QED
    BY <1>1, <1>2, <2>1, <2>2, OrderlyFetch
<1>3. CASE RunDailyCron
  BY <1>2, <1>3 DEF RunDailyCron, Runs
<1>4. ASSUME NEW r \in Triggers, TriggerInstallments(r) PROVE Orderly'
  <2>1. CASE (\E slack \in {0, 1} : Fetch(r, {l \in Loans : DueToday(l, slack)})) /\ UNCHANGED forced
    BY <1>2, <2>1 DEF Runs
  <2>2. CASE (\E l \in Loans : loan[l].status \in {"APPROVED", "IN_DELAY"} /\ Fetch(r, {l})) /\ forced' = TRUE
    <3>1. PICK l \in Loans : loan[l].status \in {"APPROVED", "IN_DELAY"} /\ Fetch(r, {l})
      BY <2>2
    <3>2. \A k \in {l} : Granted(k) /\ Timely(k)'
      BY <2>2, <3>1 DEF Granted, Timely
    <3>3. {l} \in SUBSET Loans /\ r \in Runs
      BY DEF Runs
    <3> QED
      BY <1>1, <2>2, <3>1, <3>2, <3>3, OrderlyFetch
  <2> QED
    BY <1>4, <2>1, <2>2 DEF TriggerInstallments
<1> QED
  BY <1>3, <1>4

(* The earliest open row is the one after the rows charged. *)
LEMMA NextRow ==
  ASSUME Tables, NEW l \in Loans, RowsInOrder(l), ~Paying(l), NEW i \in Earliest(l), charges[l] \in Nat
  PROVE  i = charges[l] + 1
<1>1. rows[l] \in Seq(RowType) /\ DOMAIN rows[l] = 1 .. Len(rows[l]) /\ Len(rows[l]) \in Nat
      /\ loan[l].agreed \in Nat
  BY DEF Tables, LoanType
<1>2. i \in DOMAIN rows[l] /\ i > charges[l]
  BY <1>1 DEF Earliest, Open, RowsInOrder
<1>3. charges[l] + 1 \in DOMAIN rows[l] /\ rows[l][charges[l] + 1].status # "PAID"
  <2>1. charges[l] + 1 \in DOMAIN rows[l]
    BY <1>1, <1>2
  <2>2. rows[l][charges[l] + 1].status = "PAID" <=> charges[l] + 1 <= charges[l] - 0
    BY <2>1 DEF RowsInOrder
  <2> QED
    BY <2>1, <2>2
<1>4. rows[l][i].due <= rows[l][charges[l] + 1].due
  BY <1>3 DEF Earliest, Open
<1>5. /\ rows[l][i].due = loan[l].agreed + i * Month
      /\ rows[l][charges[l] + 1].due = loan[l].agreed + (charges[l] + 1) * Month
  BY <1>2, <1>3 DEF RowsInOrder
<1>6. i > charges[l] + 1 => i * Month > (charges[l] + 1) * Month
  <2>1. i \in Nat /\ charges[l] + 1 \in Nat
    BY <1>1, <1>2
  <2> QED
    BY <2>1, Later
<1>7. i * Month \in Nat /\ (charges[l] + 1) * Month \in Nat /\ i \in Nat
  BY <1>1, <1>2
<1> QED
  BY <1>1, <1>2, <1>4, <1>5, <1>6, <1>7, SMTT(30)

LEMMA ReturnShape ==
  ASSUME NEW j \in JobType
  PROVE  /\ Return(j).at \in {"idle", "loop"} /\ Return(j).todo = j.todo
         /\ Return(j).at = "idle" => Return(j).todo = {}
<1>1. CASE j.todo = {}
  BY <1>1 DEF Return, Asleep
<1>2. CASE j.todo # {}
  BY <1>2 DEF Return, Asleep
<1> QED
  BY <1>1, <1>2

LEMMA OrderlyFind ==
  ASSUME Inv, Inv', Orderly, NEW r \in Runs, FindRow(r)
  PROVE  Orderly'
<1> USE DEF Inv, Shape
<1>1. /\ UNCHANGED <<loan, rows, charges, charged, day, update, forced, early>>
      /\ job[r].at = "loop" /\ job[r] \in JobType
  BY DEF FindRow, tables, money, clock, ghosts, Jobs
<1>2. TimePasses /\ \A l \in Loans : Same(l)
  BY <1>1 DEF TimePasses, Same, Tables
<1>3. PICK s \in job[r].todo :
        \/ job' = [job EXCEPT ![r] = Return([job[r] EXCEPT !.todo = job[r].todo \ {s}])]
        \/ \E i \in Earliest(s.loan) :
             job' = [job EXCEPT ![r] = [at |-> "debit", todo |-> job[r].todo \ {s}, loan |-> s.loan,
                                        amount |-> s.amount, debt |-> s.debt, row |-> i]]
  BY DEF FindRow
<1>4. Alone(r) /\ s.loan \in Loans /\ s \in [loan : Loans, amount : Nat, debt : Nat]
  BY <1>1, <1>3, RunAlone DEF JobType
<1>5. \/ /\ job'[r].at \in {"idle", "loop"} /\ job'[r].todo = job[r].todo \ {s}
         /\ job'[r].at = "idle" => job'[r].todo = {}
      \/ /\ job'[r].at = "debit" /\ job'[r].todo = job[r].todo \ {s} /\ job'[r].loan = s.loan
         /\ job'[r].amount = s.amount /\ job'[r].debt = s.debt /\ job'[r].row \in Earliest(s.loan)
  <2>1. CASE job' = [job EXCEPT ![r] = Return([job[r] EXCEPT !.todo = job[r].todo \ {s}])]
    <3>1. [job[r] EXCEPT !.todo = job[r].todo \ {s}] \in JobType
      BY <1>1 DEF JobType
    <3>2. PICK j \in JobType : j = [job[r] EXCEPT !.todo = job[r].todo \ {s}]
      BY <3>1
    <3>3. job'[r] = Return(j) /\ j.todo = job[r].todo \ {s}
      BY <1>1, <2>1, <3>2 DEF Jobs, JobType
    <3> QED
      BY <3>3, ReturnShape
  <2>2. ASSUME NEW i \in Earliest(s.loan),
               job' = [job EXCEPT ![r] = [at |-> "debit", todo |-> job[r].todo \ {s}, loan |-> s.loan,
                                          amount |-> s.amount, debt |-> s.debt, row |-> i]]
        PROVE  /\ job'[r].at = "debit" /\ job'[r].todo = job[r].todo \ {s} /\ job'[r].loan = s.loan
               /\ job'[r].amount = s.amount /\ job'[r].debt = s.debt /\ job'[r].row \in Earliest(s.loan)
    BY <2>2 DEF Jobs
  <2> QED
    BY <1>3, <2>1, <2>2
<1>6. \A l : ~Paying(l) /\ ~Busy(l) /\ ~Paying(l)' /\ ~Busy(l)'
  BY <1>1, <1>4, <1>5, OneHandles DEF Works
<1>7. \A l \in Loans : RowsInOrder(l)' /\ LoanInOrder(l)'
  BY <1>2, <1>6, LoanKept DEF Orderly
<1>8. TodoInOrder(r) /\ SnapshotInOrder(s) /\ \A t \in job[r].todo : t.loan = s.loan => t = s
  BY <1>3 DEF Orderly, TodoInOrder
<1>9. TodoInOrder(r)'
  <2>1. job'[r].at \notin {"idle", "loop"} => \A t \in job'[r].todo : t.loan # job'[r].loan
    BY <1>5, <1>8
  <2>2. \A t \in job'[r].todo : Same(t.loan)
    BY <1>1, <1>2, <1>5 DEF JobType
  <2> QED
    BY <1>2, <1>5, <1>8, <2>1, <2>2, TodoKept
<1>10. HandInOrder(r)'
  <2>1. CASE job'[r].at # "debit"
    BY <1>5, <2>1 DEF HandInOrder
  <2>2. CASE job'[r].at = "debit"
    <3>1. charges[s.loan] \in Nat
      BY <1>4 DEF Orderly, RowsInOrder, Tables
    <3>2. job'[r].row = charges[s.loan] + 1
      BY <1>4, <1>5, <1>6, <2>2, <3>1, NextRow DEF Orderly
    <3>3. SnapshotInOrder(s)'
      BY <1>2, <1>4, <1>8, SnapshotKept
    <3>4. s.debt = loan'[s.loan].debt /\ Covers(s.amount, s.loan)' /\ Timely(s.loan)'
      BY <3>3 DEF SnapshotInOrder, Covers, Timely, Owed, Left, Less
    <3> QED
      BY <1>1, <1>5, <2>2, <3>2, <3>4 DEF HandInOrder, Covers, Timely, Owed, Left, Less
  <2> QED
    BY <2>1, <2>2
<1>11. RateInOrder'
  BY <1>1, <1>2, SameRate DEF Orderly
<1> QED
  BY <1>1, <1>4, <1>7, <1>9, <1>10, <1>11, RunOrderly DEF Orderly

(* A run goes on with its loan, or is done with it. *)
LEMMA GoesTo ==
  ASSUME Orderly, Jobs, NEW r \in Runs, job[r].at \notin {"idle", "loop"}, NEW label, At(r, label)
  PROVE  /\ Alone(r) /\ job'[r].at = label /\ job'[r].todo = job[r].todo /\ job'[r].loan = job[r].loan
         /\ job'[r].amount = job[r].amount /\ job'[r].debt = job[r].debt /\ job'[r].row = job[r].row
<1>1. job[r] \in JobType
  BY DEF Jobs
<1>2. Alone(r) /\ job'[r] = [job[r] EXCEPT !.at = label]
  BY RunAlone DEF At
<1> QED
  BY <1>1, <1>2 DEF JobType

LEMMA IsDone ==
  ASSUME Orderly, Jobs, NEW r \in Runs, job[r].at \notin {"idle", "loop"}, Leave(r)
  PROVE  /\ Alone(r) /\ job'[r].at \in {"idle", "loop"} /\ job'[r].todo = job[r].todo
         /\ job'[r].at = "idle" => job'[r].todo = {}
<1>1. job[r] \in JobType
  BY DEF Jobs
<1>2. Alone(r) /\ job'[r] = Return(job[r])
  BY RunAlone DEF Leave
<1> QED
  BY <1>1, <1>2, ReturnShape

LEMMA OtherLoans ==
  ASSUME Inv, Orderly, TimePasses, NEW r \in Runs, Alone(r), job[r].at \notin {"idle", "loop"},
         job'[r].todo = job[r].todo, job'[r].at = "idle" => job'[r].todo = {},
         job'[r].at \notin {"idle", "loop"} => job'[r].loan = job[r].loan,
         \A k \in Loans \ {job[r].loan} : Same(k)
  PROVE  /\ TodoInOrder(r)'
         /\ \A k \in Loans \ {job[r].loan} : RowsInOrder(k)' /\ LoanInOrder(k)'
<1> USE DEF Inv, Shape
<1>1. TodoInOrder(r)'
  <2>1. TodoInOrder(r)
    BY DEF Orderly
  <2>2. \A s \in job[r].todo : s.loan \in Loans /\ s.loan # job[r].loan
    BY <2>1 DEF TodoInOrder, Jobs, JobType
  <2> QED
    BY <2>1, <2>2, TodoKept
<1>2. ASSUME NEW k \in Loans \ {job[r].loan} PROVE RowsInOrder(k)' /\ LoanInOrder(k)'
  <2>1. ~Paying(k) /\ ~Busy(k) /\ ~Paying(k)' /\ ~Busy(k)'
    BY <1>2, OneHandles DEF Works
  <2> QED
    BY <1>2, <2>1, LoanKept DEF Orderly
<1> QED
  BY <1>1, <1>2

LEMMA OrderlyPass ==
  ASSUME Inv, Inv', Orderly, NEW r \in Runs, InsufficientFunds(r) \/ CreditBank(r)
  PROVE  Orderly'
<1> USE DEF Inv, Shape
<1>1. /\ UNCHANGED <<loan, rows, charges, charged, day, update, forced, early>>
      /\ \/ job[r].at = "debit" /\ At(r, "late")
         \/ job[r].at = "credit" /\ At(r, "mark")
  BY DEF InsufficientFunds, CreditBank, tables, clock, money, ghosts
<1>2. TimePasses /\ \A l \in Loans : Same(l)
  BY <1>1 DEF TimePasses, Same, Tables
<1>3. /\ Alone(r) /\ job'[r].todo = job[r].todo /\ job'[r].loan = job[r].loan
      /\ job'[r].amount = job[r].amount /\ job'[r].debt = job[r].debt /\ job'[r].row = job[r].row
      /\ \/ job[r].at = "debit" /\ job'[r].at = "late"
         \/ job[r].at = "credit" /\ job'[r].at = "mark"
  BY <1>1, GoesTo
<1>4. job[r].loan \in Loans
  BY <1>1 DEF Jobs
<1>5. TodoInOrder(r)'
  BY <1>2, <1>3, OtherLoans
<1>6. \A l \in Loans : RowsInOrder(l)' /\ LoanInOrder(l)'
  <2>1. \A l : (Paying(l)' <=> Paying(l)) /\ (Busy(l)' <=> Busy(l))
    BY <1>3, OneHandles DEF Works
  <2> QED
    BY <1>2, <2>1, LoanKept DEF Orderly
<1>7. HandInOrder(r)'
  <2>1. HandInOrder(r)
    BY DEF Orderly
  <2> QED
    BY <1>1, <1>3, <2>1 DEF HandInOrder, Owed, Less, Left, Covers, Timely
<1>8. RateInOrder'
  BY <1>1, <1>2, SameRate DEF Orderly
<1> QED
  BY <1>1, <1>3, <1>5, <1>6, <1>7, <1>8, RunOrderly DEF Orderly

(* The charge: one row fewer, and the amount less to pay. *)
LEMMA OrderlyDebit ==
  ASSUME Inv, Inv', Flags, Orderly, NEW r \in Runs, DebitClient(r)
  PROVE  Orderly'
<1> USE DEF Inv, Shape
<1>0. PICK l \in Loans : l = job[r].loan
  BY DEF DebitClient, Jobs
<1>1. /\ UNCHANGED <<loan, rows, day, update, forced>> /\ job[r].at = "debit" /\ At(r, "credit")
      /\ charged' = [charged EXCEPT ![l] = @ + job[r].amount]
      /\ charges' = [charges EXCEPT ![l] = @ + 1]
      /\ early' = (early \/ rows[l][job[r].row].due > day)
  BY <1>0 DEF DebitClient, tables, clock
<1>2. /\ Alone(r) /\ job'[r].at = "credit" /\ job'[r].todo = job[r].todo /\ job'[r].loan = l
      /\ job'[r].amount = job[r].amount /\ job'[r].debt = job[r].debt /\ job'[r].row = job[r].row
  BY <1>0, <1>1, GoesTo
<1>3. job[r].amount \in Nat /\ job[r].debt \in Nat /\ charged[l] \in Nat /\ charges[l] \in Nat
  BY DEF Jobs, JobType, Tables, Flags
<1>4. charged'[l] = charged[l] + job[r].amount /\ charges'[l] = charges[l] + 1
  BY <1>1 DEF Tables, Flags
<1>5. TimePasses /\ \A k \in Loans \ {l} : Same(k)
  BY <1>1 DEF TimePasses, Same, Tables, Flags
<1>6. Granted(l) /\ Granted(l)'
  BY <1>0, <1>1 DEF JobBacked, Backed, Granted
<1>7. /\ job[r].debt = loan[l].debt /\ job[r].row = charges[l] + 1
      /\ Timely(l) /\ Covers(job[r].amount, l)
  BY <1>0, <1>1 DEF Orderly, HandInOrder
<1>8. RowsInOrder(l) /\ LoanInOrder(l)
  BY DEF Orderly
<1>9. ~Paying(l) /\ ~Busy(l) /\ Paying(l)' /\ Busy(l)'
  BY <1>1, <1>2, OneHandles DEF Works
<1>10. Len(rows[l]) = Period /\ charges[l] + 1 \in 1 .. Period /\ charges[l] + 1 \in DOMAIN rows[l]
  <2>1. DOMAIN rows[l] = 1 .. Len(rows[l])
    BY DEF Tables
  <2>2. charges[l] + 1 \in DOMAIN rows[l]
    BY <1>0, <1>1, <1>7 DEF Jobs
  <2>3. Len(rows[l]) = Period
    BY <1>6, <1>8 DEF RowsInOrder
  <2> QED
    BY <2>1, <2>2, <2>3
<1>11. loan[l].debt = Owed(l) /\ Owed(l) \in Nat
  BY <1>3, <1>6, <1>8, <1>9 DEF LoanInOrder, Owed, Less
<1>12. Owed(l)' = Less(Owed(l), job[r].amount) /\ Left(l)' = Left(l) - 1 /\ Left(l) \in Nat \ {0}
  <2>1. Left(l)' = Left(l) - 1 /\ Left(l) \in Nat \ {0}
    BY <1>3, <1>4, <1>10, SMTT(30) DEF Left
  <2>2. Owed(l)' = Less(Amount, charged[l] + job[r].amount)
    BY <1>4 DEF Owed, Less
  <2>3. Less(Amount, charged[l] + job[r].amount) = Less(Less(Amount, charged[l]), job[r].amount)
    <3>1. \A c, a \in Nat : Less(Amount, c + a) = Less(Less(Amount, c), a)
      BY DEF Less
    <3> QED
      BY <1>3, <3>1
  <2> QED
    BY <2>1, <2>2, <2>3 DEF Owed
<1>13. ASSUME NEW x \in Nat, Covers(x, l) PROVE Covers(x, l)'
  <2>1. x * (Left(l) - 1) >= Less(Owed(l), job[r].amount)
    BY <1>3, <1>7, <1>11, <1>12, <1>13, Instalment DEF Covers
  <2> QED
    BY <1>12, <2>1 DEF Covers
<1>14. TodoInOrder(r)' /\ \A k \in Loans \ {l} : RowsInOrder(k)' /\ LoanInOrder(k)'
  BY <1>0, <1>1, <1>2, <1>5, OtherLoans
<1>15. RowsInOrder(l)'
  <2>1. \A i \in DOMAIN rows[l] :
          rows[l][i].due = loan[l].agreed + i * Month /\ (rows[l][i].status = "PAID" <=> i <= charges[l] - 0)
    BY <1>8, <1>9 DEF RowsInOrder
  <2>2. charges'[l] - 1 = charges[l] - 0
    BY <1>3, <1>4
  <2>3. charges'[l] \in 0 .. Len(rows'[l])
    BY <1>1, <1>3, <1>4, <1>10
  <2> QED
    BY <1>1, <1>6, <1>9, <1>10, <2>1, <2>2, <2>3 DEF RowsInOrder
<1>16. LoanInOrder(l)'
  <2>1. loan[l].next = loan[l].agreed + (charges[l] + 1) * Month
    BY <1>6, <1>8, <1>9 DEF LoanInOrder
  <2>2. charges'[l] + 0 = charges[l] + 1
    BY <1>3, <1>4
  <2>3. Timely(l)'
    BY <1>1, <1>7 DEF Timely
  <2>4. Covers(loan[l].amount, l)'
    <3>1. loan[l].amount \in Nat /\ Covers(loan[l].amount, l)
      BY <1>6, <1>8 DEF LoanInOrder, Tables, LoanType
    <3>2. PICK x \in Nat : x = loan[l].amount
      BY <3>1
    <3>3. Covers(x, l)'
      BY <1>13, <3>1, <3>2
    <3> QED
      BY <1>1, <3>2, <3>3 DEF Covers
  <2> QED
    BY <1>1, <1>9, <2>1, <2>2, <2>3, <2>4 DEF LoanInOrder
<1>17. HandInOrder(r)'
  <2>1. job[r].amount * (Left(l)' + 1) >= job[r].debt
    <3>1. Left(l)' + 1 = Left(l)
      BY <1>12
    <3> QED
      BY <1>7, <1>11, <3>1 DEF Covers
  <2>2. charges'[l] > 0 /\ job[r].row = charges'[l]
    BY <1>3, <1>4, <1>7
  <2>3. Owed(l)' = Less(job[r].debt, job[r].amount)
    BY <1>7, <1>11, <1>12
  <2> QED
    BY <1>1, <1>2, <1>7, <2>1, <2>2, <2>3 DEF HandInOrder, Owed, Left
<1>18. RateInOrder'
  <2>1. \A k \in Loans : loan[k].debt \in Nat
    BY DEF Tables, LoanType
  <2>2. ASSUME NEW k \in Loans, Granted(k)
        PROVE  /\ Granted(k)' /\ loan'[k].debt <= loan[k].debt
               /\ \A x \in Nat : Covers(x, k) => Covers(x, k)'
    <3>1. CASE k = l
      BY <1>1, <1>6, <1>13, <2>1, <3>1
    <3>2. CASE k # l
      BY <1>5, <2>1, <2>2, <3>2, RateAlone
    <3> QED
      BY <3>1, <3>2
  <2> QED
    BY <1>1, <2>2, RateKept DEF Orderly
<1>19. early' => forced'
  <2>1. rows[l][job[r].row].due = loan[l].agreed + (charges[l] + 1) * Month
    BY <1>7, <1>8, <1>10 DEF RowsInOrder
  <2>2. loan[l].next = loan[l].agreed + (charges[l] + 1) * Month
    BY <1>6, <1>8, <1>9 DEF LoanInOrder
  <2>3. loan[l].next \in Nat /\ day \in Nat
    BY DEF Tables, LoanType
  <2>4. forced \/ ~(rows[l][job[r].row].due > day)
    BY <1>7, <2>1, <2>2, <2>3 DEF Timely
  <2> QED
    BY <1>1, <2>4 DEF Orderly
<1> QED
  BY <1>2, <1>14, <1>15, <1>16, <1>17, <1>18, <1>19, RunOrderly

LEMMA RowUpdated ==
  ASSUME Tables, NEW l \in Loans, NEW i \in DOMAIN rows[l], NEW status, NEW last,
         UpdateRow(l, i, status, last)
  PROVE  /\ \A k \in Loans \ {l} : rows'[k] = rows[k]
         /\ DOMAIN rows'[l] = DOMAIN rows[l] /\ Len(rows'[l]) = Len(rows[l])
         /\ \A k \in DOMAIN rows[l] :
              /\ rows'[l][k].due = rows[l][k].due
              /\ rows'[l][k].status = (IF k = i THEN status ELSE rows[l][k].status)
<1>1. rows[l] \in Seq(RowType)
  BY DEF Tables
<1>2. rows'[l] = [rows[l] EXCEPT ![i] = [due |-> rows[l][i].due, status |-> status, last |-> last]]
      /\ \A k \in Loans \ {l} : rows'[k] = rows[k]
  BY DEF UpdateRow, Tables
<1>3. DOMAIN rows'[l] = DOMAIN rows[l] /\ Len(rows'[l]) = Len(rows[l])
  BY <1>1, <1>2
<1> QED
  BY <1>1, <1>2, <1>3

LEMMA OrderlyMark ==
  ASSUME Inv, Inv', Orderly, NEW r \in Runs, MarkPaid(r) \/ MarkLate(r)
  PROVE  Orderly'
<1> USE DEF Inv, Shape
<1>0. PICK l \in Loans : l = job[r].loan
  BY DEF MarkPaid, MarkLate, Jobs
<1> DEFINE i == job[r].row
<1>1. PICK status, last :
        /\ UNCHANGED <<loan, charges, charged, day, update, forced, early>>
        /\ UpdateRow(l, i, status, last)
        /\ \/ job[r].at = "mark" /\ At(r, "advance") /\ status = "PAID"
           \/ job[r].at = "late" /\ At(r, "delay") /\ status = "LATE"
  BY <1>0 DEF MarkPaid, MarkLate, money, clock, ghosts
<1>2. /\ Alone(r) /\ job'[r].todo = job[r].todo /\ job'[r].loan = l
      /\ job'[r].amount = job[r].amount /\ job'[r].debt = job[r].debt
      /\ \/ job[r].at = "mark" /\ job'[r].at = "advance"
         \/ job[r].at = "late" /\ job'[r].at = "delay"
  BY <1>0, <1>1, GoesTo
<1>3. i \in DOMAIN rows[l]
  BY <1>0, <1>1 DEF Jobs
<1>4. /\ \A k \in Loans \ {l} : rows'[k] = rows[k]
      /\ DOMAIN rows'[l] = DOMAIN rows[l] /\ Len(rows'[l]) = Len(rows[l])
      /\ \A k \in DOMAIN rows[l] :
           /\ rows'[l][k].due = rows[l][k].due
           /\ rows'[l][k].status = (IF k = i THEN status ELSE rows[l][k].status)
  BY <1>1, <1>3, RowUpdated
<1>5. TimePasses /\ \A k \in Loans \ {l} : Same(k)
  BY <1>1, <1>4 DEF TimePasses, Same, Tables
<1>6. RowsInOrder(l) /\ LoanInOrder(l) /\ HandInOrder(r)
  BY DEF Orderly
<1>7. (Granted(l)' <=> Granted(l)) /\ Owed(l)' = Owed(l) /\ Left(l)' = Left(l) /\ (Timely(l)' <=> Timely(l))
  BY <1>1 DEF Granted, Owed, Less, Left, Timely
<1>8. TodoInOrder(r)' /\ \A k \in Loans \ {l} : RowsInOrder(k)' /\ LoanInOrder(k)'
  BY <1>0, <1>2, <1>5, OtherLoans
<1>9. /\ Busy(l)' <=> Busy(l)
      /\ IF job[r].at = "mark" THEN Paying(l) /\ ~Paying(l)' ELSE ~Paying(l) /\ ~Paying(l)'
  BY <1>0, <1>2, OneHandles DEF Works
<1>10. charges[l] \in Nat /\ DOMAIN rows[l] \subseteq Nat
  BY <1>6 DEF RowsInOrder, Tables
<1>11. RowsInOrder(l)'
  <2>1. \A k \in DOMAIN rows[l] : rows'[l][k].status = "PAID" <=> k <= charges[l]
    <3> SUFFICES ASSUME NEW k \in DOMAIN rows[l]
                 PROVE  rows'[l][k].status = "PAID" <=> k <= charges[l]
      OBVIOUS
    <3>0. k \in Nat
      BY <1>10
    <3>1. CASE job[r].at = "mark"
      <4>1. i = charges[l] /\ status = "PAID" /\ (rows[l][k].status = "PAID" <=> k <= charges[l] - 1)
        BY <1>0, <1>1, <1>6, <1>9, <3>1 DEF HandInOrder, RowsInOrder
      <4> QED
        BY <1>4, <1>10, <3>0, <4>1, SMTT(30)
    <3>2. CASE job[r].at = "late"
      <4>1. i = charges[l] + 1 /\ status = "LATE" /\ (rows[l][k].status = "PAID" <=> k <= charges[l] - 0)
        BY <1>0, <1>1, <1>6, <1>9, <3>2 DEF HandInOrder, RowsInOrder
      <4> QED
        BY <1>4, <1>10, <3>0, <4>1
    <3> QED
      BY <1>1, <3>1, <3>2
  <2>2. ~Paying(l)' /\ charges[l] - 0 = charges[l]
    BY <1>9, <1>10
  <2>3. Len(rows'[l]) = (IF Granted(l)' THEN Period ELSE 0)
    BY <1>4, <1>6, <1>7 DEF RowsInOrder
  <2>4. /\ charges'[l] \in 0 .. Len(rows'[l]) /\ (~Granted(l)' => charged'[l] = 0)
        /\ \A k \in DOMAIN rows'[l] : rows'[l][k].due = loan'[l].agreed + k * Month
    BY <1>1, <1>4, <1>6, <1>7 DEF RowsInOrder
  <2> QED
    BY <1>1, <1>4, <2>1, <2>2, <2>3, <2>4 DEF RowsInOrder
<1>12. LoanInOrder(l)'
  BY <1>1, <1>6, <1>7, <1>9 DEF LoanInOrder, Covers
<1>13. HandInOrder(r)'
  BY <1>0, <1>1, <1>2, <1>6, <1>7 DEF HandInOrder
<1>14. RateInOrder'
  <2>1. \A k \in Loans : loan[k].debt \in Nat
    BY DEF Tables, LoanType
  <2>2. \A k \in Loans : Granted(k) => /\ Granted(k)' /\ loan'[k].debt <= loan[k].debt
                                       /\ \A x \in Nat : Covers(x, k) => Covers(x, k)'
    BY <1>1, <2>1 DEF Granted, Covers, Owed, Less, Left
  <2> QED
    BY <1>1, <2>2, RateKept DEF Orderly
<1>15. early' => forced'
  BY <1>1 DEF Orderly
<1> QED
  BY <1>2, <1>8, <1>11, <1>12, <1>13, <1>14, <1>15, RunOrderly

LEMMA OrderlyAdvance ==
  ASSUME Inv, Inv', Orderly, NEW r \in Runs, AdvanceSchedule(r)
  PROVE  Orderly'
<1> USE DEF Inv, Shape
<1>0. PICK l \in Loans : l = job[r].loan
  BY DEF AdvanceSchedule, Jobs
<1>1. /\ UNCHANGED <<rows, charges, charged, day, update, forced, early>>
      /\ job[r].at = "advance" /\ Leave(r)
      /\ loan' = [loan EXCEPT ![l] =
           [@ EXCEPT !.debt = NewRemaining(job[r]), !.next = loan[l].next + Month,
                     !.status = IF NewRemaining(job[r]) = 0 THEN "PAID_OFF" ELSE "APPROVED"]]
  BY <1>0 DEF AdvanceSchedule, money, clock, ghosts
<1>2. /\ loan'[l].debt = NewRemaining(job[r]) /\ loan'[l].next = loan[l].next + Month
      /\ loan'[l].status \in {"PAID_OFF", "APPROVED"}
      /\ loan'[l].agreed = loan[l].agreed /\ loan'[l].amount = loan[l].amount
      /\ \A k \in Loans \ {l} : loan'[k] = loan[k]
  BY <1>1 DEF Tables, LoanType
<1>3. /\ Alone(r) /\ job'[r].at \in {"idle", "loop"} /\ job'[r].todo = job[r].todo
      /\ job'[r].at = "idle" => job'[r].todo = {}
  BY <1>1, IsDone
<1>4. TimePasses /\ \A k \in Loans \ {l} : Same(k)
  BY <1>1, <1>2 DEF TimePasses, Same, Tables
<1>5. RowsInOrder(l) /\ LoanInOrder(l) /\ HandInOrder(r)
  BY DEF Orderly
<1>6. Granted(l) /\ Granted(l)' /\ Owed(l)' = Owed(l) /\ Left(l)' = Left(l)
  BY <1>0, <1>1, <1>2 DEF JobBacked, Backed, Granted, Owed, Less, Left
<1>7. ~Paying(l) /\ ~Paying(l)' /\ Busy(l) /\ ~Busy(l)'
  BY <1>0, <1>1, <1>3, OneHandles DEF Works
<1>8. TodoInOrder(r)' /\ \A k \in Loans \ {l} : RowsInOrder(k)' /\ LoanInOrder(k)'
  BY <1>0, <1>1, <1>3, <1>4, OtherLoans
<1>9. RowsInOrder(l)'
  BY <1>1, <1>2, <1>5, <1>6, <1>7 DEF RowsInOrder
<1>10. job[r].debt = loan[l].debt /\ Owed(l) = NewRemaining(job[r])
  BY <1>0, <1>1, <1>5 DEF HandInOrder, NewRemaining, Less
<1>11. LoanInOrder(l)'
  <2>1. charges[l] \in Nat /\ loan[l].agreed \in Nat
    BY <1>5 DEF RowsInOrder, Tables, LoanType
  <2>2. loan[l].next = loan[l].agreed + (charges[l] + 0) * Month
    BY <1>5, <1>6, <1>7 DEF LoanInOrder
  <2>3. (charges[l] + 1) * Month = charges[l] * Month + Month /\ charges[l] * Month \in Nat
        /\ charges[l] + 0 = charges[l]
    BY <2>1, Later
  <2>4. loan'[l].next = loan'[l].agreed + (charges'[l] + 1) * Month
    BY <1>1, <1>2, <2>1, <2>2, <2>3
  <2>5. Covers(loan[l].amount, l)'
    BY <1>2, <1>5, <1>6 DEF LoanInOrder, Covers
  <2> QED
    BY <1>2, <1>6, <1>7, <1>10, <2>4, <2>5 DEF LoanInOrder
<1>12. HandInOrder(r)'
  BY <1>3 DEF HandInOrder
<1>13. RateInOrder'
  <2>1. \A k \in Loans : loan[k].debt \in Nat
    BY DEF Tables, LoanType
  <2>2. ASSUME NEW k \in Loans, Granted(k)
        PROVE  /\ Granted(k)' /\ loan'[k].debt <= loan[k].debt
               /\ \A x \in Nat : Covers(x, k) => Covers(x, k)'
    <3>1. CASE k = l
      <4>1. loan'[l].debt <= loan[l].debt
        <5>1. job[r].debt \in Nat /\ job[r].amount \in Nat
          BY DEF Jobs, JobType
        <5> QED
          BY <1>2, <1>10, <5>1 DEF NewRemaining
      <4> QED
        BY <1>6, <3>1, <4>1 DEF Covers
    <3>2. CASE k # l
      BY <1>4, <2>1, <2>2, <3>2, RateAlone
    <3> QED
      BY <3>1, <3>2
  <2> QED
    BY <1>1, <2>2, RateKept DEF Orderly
<1>14. early' => forced'
  BY <1>1 DEF Orderly
<1> QED
  BY <1>3, <1>8, <1>9, <1>11, <1>12, <1>13, <1>14, RunOrderly

LEMMA OrderlyDelay ==
  ASSUME Inv, Inv', Orderly, NEW r \in Runs, SetInDelay(r)
  PROVE  Orderly'
<1> USE DEF Inv, Shape
<1>0. PICK l \in Loans : l = job[r].loan
  BY DEF SetInDelay, Jobs
<1>1. /\ UNCHANGED <<rows, charges, charged, day, update, forced, early>>
      /\ job[r].at = "delay" /\ Leave(r)
      /\ loan' = [loan EXCEPT ![l] = [@ EXCEPT !.status = "IN_DELAY"]]
  BY <1>0 DEF SetInDelay, money, clock, ghosts
<1>2. /\ loan'[l].debt = loan[l].debt /\ loan'[l].next = loan[l].next
      /\ loan'[l].status = "IN_DELAY"
      /\ loan'[l].agreed = loan[l].agreed /\ loan'[l].amount = loan[l].amount
      /\ \A k \in Loans \ {l} : loan'[k] = loan[k]
  BY <1>1 DEF Tables, LoanType
<1>3. /\ Alone(r) /\ job'[r].at \in {"idle", "loop"} /\ job'[r].todo = job[r].todo
      /\ job'[r].at = "idle" => job'[r].todo = {}
  BY <1>1, IsDone
<1>4. TimePasses /\ \A k \in Loans \ {l} : Same(k)
  BY <1>1, <1>2 DEF TimePasses, Same, Tables
<1>5. RowsInOrder(l) /\ LoanInOrder(l) /\ Timely(l)
  BY <1>0, <1>1 DEF Orderly, HandInOrder
<1>6. /\ Granted(l) /\ Granted(l)' /\ Owed(l)' = Owed(l) /\ Left(l)' = Left(l)
      /\ Timely(l)'
  BY <1>0, <1>1, <1>2, <1>5 DEF JobBacked, Backed, Granted, Owed, Less, Left, Timely
<1>7. ~Paying(l) /\ ~Paying(l)' /\ ~Busy(l) /\ ~Busy(l)'
  BY <1>0, <1>1, <1>3, OneHandles DEF Works
<1>8. TodoInOrder(r)' /\ \A k \in Loans \ {l} : RowsInOrder(k)' /\ LoanInOrder(k)'
  BY <1>0, <1>1, <1>3, <1>4, OtherLoans
<1>9. RowsInOrder(l)'
  BY <1>1, <1>2, <1>5, <1>6, <1>7 DEF RowsInOrder
<1>10. LoanInOrder(l)'
  BY <1>1, <1>2, <1>5, <1>6, <1>7 DEF LoanInOrder, Covers
<1>11. HandInOrder(r)'
  BY <1>3 DEF HandInOrder
<1>12. RateInOrder'
  <2>1. \A k \in Loans : loan[k].debt \in Nat
    BY DEF Tables, LoanType
  <2>2. ASSUME NEW k \in Loans, Granted(k)
        PROVE  /\ Granted(k)' /\ loan'[k].debt <= loan[k].debt
               /\ \A x \in Nat : Covers(x, k) => Covers(x, k)'
    <3>1. CASE k = l
      BY <1>2, <1>6, <2>1, <3>1 DEF Covers
    <3>2. CASE k # l
      BY <1>4, <2>1, <2>2, <3>2, RateAlone
    <3> QED
      BY <3>1, <3>2
  <2> QED
    BY <1>1, <2>2, RateKept DEF Orderly
<1>13. early' => forced'
  BY <1>1 DEF Orderly
<1> QED
  BY <1>3, <1>8, <1>9, <1>10, <1>11, <1>12, <1>13, RunOrderly

(* Monthly updates: what was counted is at least the rows that are left,   *)
(* and what was read of the debt at least what is left of it.              *)
LEMMA PaidCount ==
  ASSUME Tables, NEW l \in Loans, RowsInOrder(l), Granted(l), Busy(l) => charges[l] > 0
  PROVE  /\ Cardinality(PaidRows(l)) = charges[l] - (IF Paying(l) THEN 1 ELSE 0)
         /\ Cardinality(Open(l)) = Left(l) + (IF Paying(l) THEN 1 ELSE 0)
<1> DEFINE c == charges[l] - (IF Paying(l) THEN 1 ELSE 0)
<1>1. DOMAIN rows[l] = 1 .. Period /\ charges[l] \in 0 .. Period
  <2>1. DOMAIN rows[l] = 1 .. Len(rows[l])
    BY DEF Tables
  <2> QED
    BY <2>1 DEF RowsInOrder
<1>2. Paying(l) => Busy(l)
  BY DEF Paying, Busy, Handled
<1>3. c \in 0 .. Period
  BY <1>1, <1>2
<1>4. \A i \in 1 .. Period : rows[l][i].status = "PAID" <=> i <= c
  BY <1>1 DEF RowsInOrder
<1>5. Period - c = Left(l) + (IF Paying(l) THEN 1 ELSE 0)
  BY <1>1 DEF Left
<1> HIDE DEF c
<1>6. PaidRows(l) = 1 .. c /\ Open(l) = (c + 1) .. Period
  <2>1. Open(l) = (c + 1) .. Period
    BY <1>1, <1>3, <1>4 DEF Open
  <2> QED
    BY <1>1, <1>3, <2>1 DEF PaidRows
<1>7. Cardinality(1 .. c) = c
  <2>1. c \in Int /\ Cardinality(1 .. c) = IF 1 > c THEN 0 ELSE c - 1 + 1
    BY <1>3, FS_Interval
  <2> QED
    BY <1>3, <2>1
<1>8. Cardinality((c + 1) .. Period) = Period - c
  BY <1>3, FS_Interval
<1> QED
  BY <1>5, <1>6, <1>7, <1>8 DEF c

LEMMA RateCovers ==
  ASSUME Inv, Flags, Orderly, NEW l \in Loans, Granted(l), NEW debt \in Nat, debt >= loan[l].debt,
         NEW x \in Nat, x * (Period - Cardinality(PaidRows(l))) >= debt
  PROVE  Covers(x, l)
<1> USE DEF Inv, Shape
<1>1. RowsInOrder(l) /\ LoanInOrder(l) /\ charges[l] \in Nat /\ charged[l] \in Nat /\ loan[l].debt \in Nat
  BY DEF Orderly, Tables, Flags, LoanType
<1>2. CASE ~Busy(l)
  <2>1. ~Paying(l)
    BY <1>2 DEF Paying, Busy, Handled
  <2>2. Period - Cardinality(PaidRows(l)) = Left(l)
    BY <1>1, <1>2, <2>1, PaidCount DEF Left
  <2>3. loan[l].debt = Owed(l)
    BY <1>1, <1>2 DEF LoanInOrder
  <2>4. x * Left(l) \in Int
    BY <1>1 DEF Left
  <2> QED
    BY <1>1, <2>2, <2>3, <2>4 DEF Covers
<1>3. CASE Busy(l)
  <2>1. PICK r \in Runs : job[r].loan = l /\ job[r].at \in {"credit", "mark", "advance"}
    BY <1>3 DEF Busy, Handled
  <2>2. HandInOrder(r) /\ job[r].amount \in Nat
    BY DEF Orderly, Jobs, JobType
  <2>3. /\ job[r].debt = loan[l].debt /\ charges[l] > 0
        /\ Owed(l) = Less(job[r].debt, job[r].amount)
    BY <2>1, <2>2 DEF HandInOrder
  <2>4. CASE job[r].at = "advance"
    <3>1. ~Paying(l)
      <4>1. \A q \in Runs : job[q].at \in {"credit", "mark"} => q = r
        BY <2>1 DEF Orderly, OneRun
      <4> QED
        BY <2>4, <4>1 DEF Paying, Handled
    <3>2. Period - Cardinality(PaidRows(l)) = Left(l)
      BY <1>1, <2>3, <3>1, PaidCount DEF Left
    <3>3. Owed(l) <= loan[l].debt /\ Owed(l) \in Nat
      BY <1>1, <2>2, <2>3 DEF Less
    <3>4. x * Left(l) \in Int
      BY <1>1 DEF Left
    <3> QED
      BY <1>1, <3>2, <3>3, <3>4 DEF Covers
  <2>5. CASE job[r].at \in {"credit", "mark"}
    <3>1. Paying(l)
      BY <2>1, <2>5 DEF Paying, Handled
    <3>2. Period - Cardinality(PaidRows(l)) = Left(l) + 1
      BY <1>1, <2>3, <3>1, PaidCount DEF Left
    <3>3. job[r].amount * (Left(l) + 1) >= loan[l].debt
      BY <2>1, <2>2, <2>3, <2>5 DEF HandInOrder
    <3>4. Left(l) + 1 \in Nat \ {0} /\ (Left(l) + 1) - 1 = Left(l)
      BY <1>1 DEF RowsInOrder, Left
    <3>5. x * (Left(l) + 1) >= loan[l].debt
      <4>1. x * (Left(l) + 1) \in Int
        BY <3>4
      <4> QED
        BY <1>1, <3>2, <4>1
    <3>6. x * ((Left(l) + 1) - 1) >= Less(loan[l].debt, job[r].amount)
      BY <1>1, <2>2, <3>3, <3>4, <3>5, Instalment
    <3> QED
      BY <2>3, <3>4, <3>6 DEF Covers
  <2> QED
    BY <2>1, <2>4, <2>5
<1> QED
  BY <1>2, <1>3

LEMMA OrderlyRead ==
  ASSUME Inv, Inv', Flags, Orderly, FetchVariable \/ CountPaid
  PROVE  Orderly'
<1> USE DEF Inv, Shape
<1>1. UNCHANGED <<loan, rows, charges, charged, day, job, forced, early>>
  BY DEF FetchVariable, CountPaid, tables, money, clock, ghosts
<1>2. TimePasses /\ \A l \in Loans : Same(l) /\ (Paying(l)' <=> Paying(l)) /\ (Busy(l)' <=> Busy(l))
  BY <1>1 DEF TimePasses, Same, Tables, Paying, Busy, Handled
<1>3. \A l \in Loans : RowsInOrder(l)' /\ LoanInOrder(l)'
  BY <1>2, LoanKept DEF Orderly
<1>4. OneRun' /\ \A r \in Runs : TodoInOrder(r)' /\ HandInOrder(r)'
  BY <1>1, <1>2, RunsKept
<1>5. RateInOrder'
  <2>1. CASE FetchVariable
    <3>1. /\ update'.at = "loop"
          /\ update'.todo = {[loan |-> l, debt |-> loan[l].debt] : l \in {k \in Variable : loan[k].status = "APPROVED"}}
      BY <2>1 DEF FetchVariable, Resting
    <3>2. ASSUME NEW s \in update'.todo PROVE Granted(s.loan)' /\ s.debt >= loan'[s.loan].debt
      <4>1. PICK l \in Variable : loan[l].status = "APPROVED" /\ s = [loan |-> l, debt |-> loan[l].debt]
        BY <3>1
      <4>2. s.loan = l /\ s.debt = loan[l].debt /\ loan[l].debt \in Nat
        BY <4>1 DEF Tables, LoanType
      <4> QED
        BY <1>1, <4>1, <4>2 DEF Granted
    <3> QED
      BY <3>1, <3>2 DEF RateInOrder
  <2>2. CASE CountPaid
    <3>1. PICK s \in update.todo :
            LET left == Period - Cardinality(PaidRows(s.loan))
                rest == update.todo \ {s}
            IN update' = IF left <= 0
                         THEN Rested([update EXCEPT !.todo = rest])
                         ELSE [at |-> "write", todo |-> rest, loan |-> s.loan, debt |-> s.debt, left |-> left]
      BY <2>2 DEF CountPaid
    <3>2. s.loan \in Loans /\ s.debt \in Nat /\ Granted(s.loan) /\ s.debt >= loan[s.loan].debt
      BY DEF Updates, Taken, Orderly, RateInOrder
    <3>3. /\ update'.todo \subseteq update.todo
          /\ update'.at = "write" =>
               /\ update'.loan = s.loan /\ update'.debt = s.debt
               /\ update'.left = Period - Cardinality(PaidRows(s.loan))
      BY <3>1 DEF Rested, Resting
    <3>4. \A t \in update'.todo : Granted(t.loan)' /\ t.debt >= loan'[t.loan].debt
      BY <1>1, <3>3 DEF Orderly, RateInOrder, Granted
    <3>5. ASSUME update'.at = "write", NEW x \in Nat, x * update'.left >= update'.debt
          PROVE  Covers(x, s.loan)
      BY <3>2, <3>3, <3>5, RateCovers
    <3>6. ASSUME update'.at = "write"
          PROVE  /\ Granted(update.loan)'
                 /\ \A x \in Nat : x * update'.left >= update'.debt => Covers(x, update.loan)'
      BY <1>1, <3>2, <3>3, <3>5, <3>6 DEF Granted, Covers, Owed, Less, Left
    <3> QED
      BY <3>4, <3>6 DEF RateInOrder
  <2> QED
    BY <2>1, <2>2
<1>6. early' => forced'
  BY <1>1 DEF Orderly
<1> QED
  BY <1>3, <1>4, <1>5, <1>6 DEF Orderly

LEMMA OrderlyWrite ==
  ASSUME Inv, Inv', Orderly, UpdateRate
  PROVE  Orderly'
<1> USE DEF Inv, Shape
<1>0. PICK l \in Loans : l = update.loan
  BY DEF UpdateRate, Updates
<1>1. PICK amount \in Installments(update.debt, update.left) :
        /\ UNCHANGED <<rows, charges, charged, day, job, forced, early>>
        /\ loan' = [loan EXCEPT ![l] = [@ EXCEPT !.amount = amount]]
        /\ update.at = "write" /\ update' = Rested(update)
  BY <1>0 DEF UpdateRate, money, clock, ghosts
<1>2. /\ \A k \in Loans : /\ loan'[k].debt = loan[k].debt /\ loan'[k].next = loan[k].next
                          /\ loan'[k].status = loan[k].status /\ loan'[k].agreed = loan[k].agreed
      /\ loan'[l].amount = amount /\ \A k \in Loans \ {l} : loan'[k] = loan[k]
  <2>1. loan'[l] = [loan[l] EXCEPT !.amount = amount] /\ \A k \in Loans \ {l} : loan'[k] = loan[k]
    BY <1>1 DEF Tables
  <2>2. loan[l] \in LoanType
    BY DEF Tables
  <2>3. /\ loan'[l].debt = loan[l].debt /\ loan'[l].next = loan[l].next /\ loan'[l].status = loan[l].status
        /\ loan'[l].agreed = loan[l].agreed /\ loan'[l].amount = amount
    BY <2>1, <2>2 DEF LoanType
  <2> QED
    BY <2>1, <2>3
<1>3. amount \in Nat /\ Covers(amount, l)
  <2>1. update.debt \in Nat /\ update.left \in Nat \ {0}
    BY <1>1 DEF Updates
  <2>2. amount \in Nat /\ amount * update.left >= update.debt
    BY <2>1, Rounding
  <2> QED
    BY <1>0, <1>1, <2>2 DEF Orderly, RateInOrder
<1>4. \A k \in Loans : /\ Owed(k)' = Owed(k) /\ Left(k)' = Left(k) /\ (Timely(k)' <=> Timely(k))
                       /\ (Granted(k)' <=> Granted(k))
  BY <1>1, <1>2 DEF Owed, Less, Left, Timely, Granted
<1>5. \A k : (Paying(k)' <=> Paying(k)) /\ (Busy(k)' <=> Busy(k))
  BY <1>1 DEF Paying, Busy, Handled
<1>6. TimePasses /\ \A k \in Loans \ {l} : Same(k)
  BY <1>1, <1>2 DEF TimePasses, Same, Tables
<1>7. ASSUME NEW k \in Loans PROVE RowsInOrder(k)' /\ LoanInOrder(k)'
  <2>1. CASE k # l
    BY <1>5, <1>6, <2>1, LoanKept DEF Orderly
  <2>2. CASE k = l
    <3>1. RowsInOrder(l) /\ LoanInOrder(l)
      BY DEF Orderly
    <3>2. RowsInOrder(l)'
      BY <1>1, <1>2, <1>4, <1>5, <3>1 DEF RowsInOrder
    <3>3. LoanInOrder(l)'
      BY <1>1, <1>2, <1>3, <1>4, <1>5, <3>1 DEF LoanInOrder, Covers
    <3> QED
      BY <2>2, <3>2, <3>3
  <2> QED
    BY <2>1, <2>2
<1>8. ASSUME NEW r \in Runs PROVE TodoInOrder(r)' /\ HandInOrder(r)'
  <2>1. TodoInOrder(r) /\ HandInOrder(r)
    BY DEF Orderly
  <2>2. \A s \in job[r].todo : s.loan \in Loans
    BY DEF Jobs, JobType
  <2>3. TodoInOrder(r)'
    BY <1>1, <1>2, <1>4, <2>1, <2>2 DEF TodoInOrder, SnapshotInOrder, Covers, Timely, Owed, Left, Less
  <2>4. HandInOrder(r)'
    <3>1. CASE job[r].at \in {"idle", "loop"}
      BY <1>1, <3>1 DEF HandInOrder
    <3>2. CASE job[r].at \notin {"idle", "loop"}
      <4>1. job[r].loan \in Loans
        BY <3>2 DEF Jobs
      <4> QED
        BY <1>1, <1>2, <2>1, <4>1 DEF HandInOrder, Covers, Timely, Owed, Left, Less
    <3> QED
      BY <3>1, <3>2
  <2> QED
    BY <2>3, <2>4
<1>9. RateInOrder'
  <2>1. update'.at # "write" /\ update'.todo \subseteq update.todo
    BY <1>1 DEF Rested, Resting
  <2>2. \A s \in update.todo : s.loan \in Loans /\ Granted(s.loan) /\ s.debt >= loan[s.loan].debt
    BY DEF Updates, Taken, Orderly, RateInOrder
  <2>3. \A s \in update.todo : Granted(s.loan)' /\ s.debt >= loan'[s.loan].debt
    BY <1>2, <2>2 DEF Granted
  <2> QED
    BY <2>1, <2>3 DEF RateInOrder
<1>10. OneRun' /\ (early' => forced')
  BY <1>1 DEF OneRun, Orderly
<1> QED
  BY <1>7, <1>8, <1>9, <1>10 DEF Orderly

LEMMA InitOrderly == Init => Orderly
<1> SUFFICES ASSUME Init PROVE Orderly
  OBVIOUS
<1>1. \A l \in Loans : ~Granted(l) /\ rows[l] = <<>> /\ charges[l] = 0 /\ charged[l] = 0
  BY DEF Init, Granted
<1>2. \A r \in Runs : job[r].at = "idle" /\ job[r].todo = {}
  BY DEF Init, Asleep
<1>3. \A l \in Loans : RowsInOrder(l) /\ LoanInOrder(l)
  BY <1>1 DEF RowsInOrder, LoanInOrder
<1>4. RateInOrder
  BY DEF Init, Resting, RateInOrder
<1>5. OneRun /\ (early => forced)
  BY <1>2 DEF Init, OneRun
<1>6. \A r \in Runs : TodoInOrder(r) /\ HandInOrder(r)
  BY <1>2 DEF TodoInOrder, HandInOrder
<1> QED
  BY <1>3, <1>4, <1>5, <1>6 DEF Orderly

LEMMA StepOrderly == Inv /\ Inv' /\ Flags /\ (Serial => Orderly) /\ [Next]_vars => (Serial => Orderly)'
<1> SUFFICES ASSUME Inv, Inv', Flags, Serial => Orderly, [Next]_vars, Serial' PROVE Orderly'
  OBVIOUS
<1>1. Orderly /\ ~Fault
  BY SerialBefore, NoFault
<1>2. CASE Spend \/ Earn \/ Midnight \/ UNCHANGED vars
  <2>1. UNCHANGED <<loan, rows, charges, charged, job, update, early, forced>>
    BY <1>2 DEF Spend, Earn, Midnight, vars, tables, money, clock, ghosts
  <2>2. TimePasses
    BY <1>2, <2>1 DEF Spend, Earn, Midnight, vars, clock, TimePasses, Inv, Shape, Tables
  <2> QED
    BY <1>1, <2>1, <2>2, Elsewhere
<1>3. ASSUME NEW l \in Loans, SubmitLoanApplication(l) \/ RejectLoan(l) PROVE Orderly'
  BY <1>1, <1>3, OrderlyApplications
<1>4. ASSUME NEW a \in Approvals,
             \/ \E l \in Loans : ReadApplication(a, l)
             \/ DebitBank(a) \/ CreditClient(a) \/ CommitApproval(a) \/ ApprovalFails(a)
      PROVE  Orderly'
  <2>1. CASE CommitApproval(a)
    BY <1>1, <2>1, OrderlyCommit
  <2>2. CASE (\E l \in Loans : ReadApplication(a, l)) \/ DebitBank(a) \/ CreditClient(a)
    <3>1. UNCHANGED <<loan, rows, charges, charged, job, update, early, forced, day>>
      BY <2>2 DEF ReadApplication, DebitBank, CreditClient, tables, money, clock, ghosts
    <3>2. TimePasses
      BY <3>1 DEF TimePasses, Inv, Shape, Tables
    <3> QED
      BY <1>1, <3>1, <3>2, Elsewhere
  <2> QED
    BY <1>1, <1>4, <2>1, <2>2 DEF ApprovalFails
<1>5. CASE RunDailyCron \/ \E r \in Triggers : TriggerInstallments(r)
  BY <1>1, <1>5, OrderlyFetches
<1>6. ASSUME NEW r \in Runs,
             \/ FindRow(r) \/ DebitClient(r) \/ InsufficientFunds(r) \/ CreditBank(r)
             \/ MarkPaid(r) \/ AdvanceSchedule(r) \/ MarkLate(r) \/ SetInDelay(r)
             \/ StatementFails(r)
      PROVE  Orderly'
  BY <1>1, <1>6, OrderlyFind, OrderlyDebit, OrderlyPass, OrderlyMark, OrderlyAdvance, OrderlyDelay
  DEF StatementFails
<1>7. CASE FetchVariable \/ CountPaid \/ UpdateRate \/ UpdateFails
  BY <1>1, <1>7, OrderlyRead, OrderlyWrite DEF UpdateFails
<1>8. CASE Crash
  BY <1>1, <1>8 DEF Crash
<1> QED
  BY <1>2, <1>3, <1>4, <1>5, <1>6, <1>7, <1>8 DEF Next

(* As long as runs do not overlap, nothing fails and each loan is approved *)
(* once, every row is charged once, remaining_debt is what is left after   *)
(* the charges, and no row is charged before it is due unless someone      *)
(* asked for it: for any loans, periods, amounts and number of days, with  *)
(* approvals, updates of the rate and the client's payments in between.    *)
THEOREM ChargesAreSerial == Spec => []SerialCharges
<1>1. Inv /\ Flags /\ (Serial => Orderly) => SerialCharges
  <2> SUFFICES ASSUME Inv, Flags, Orderly, NEW l \in Loans
               PROVE  /\ charges[l] = Cardinality(PaidRows(l)) + (IF Handled(l, {"credit", "mark"}) THEN 1 ELSE 0)
                      /\ Granted(l) /\ ~Handled(l, {"credit", "mark", "advance"}) =>
                           loan[l].debt = IF charged[l] < Amount THEN Amount - charged[l] ELSE 0
    BY DEF SerialCharges, Orderly
  <2>1. RowsInOrder(l) /\ LoanInOrder(l) /\ charges[l] \in Nat /\ charged[l] \in Nat
    BY DEF Orderly, Inv, Shape, Tables, Flags
  <2>2. Granted(l) /\ ~Busy(l) => loan[l].debt = IF charged[l] < Amount THEN Amount - charged[l] ELSE 0
    <3>1. Granted(l) /\ ~Busy(l) => loan[l].debt = Owed(l)
      BY <2>1 DEF LoanInOrder
    <3> QED
      BY <2>1, <3>1 DEF Owed, Less, Busy
  <2>3. charges[l] = Cardinality(PaidRows(l)) + (IF Paying(l) THEN 1 ELSE 0)
    <3>1. CASE Granted(l)
      <4>1. Busy(l) => charges[l] > 0
        BY DEF Orderly, HandInOrder, Busy, Handled
      <4> QED
        BY <2>1, <3>1, <4>1, PaidCount DEF Inv, Shape
    <3>2. CASE ~Granted(l)
      <4>1. ~Paying(l)
        <5>1. \A r \in Runs : job[r].at \in {"credit", "mark"} => job[r].loan # l
          BY <3>2 DEF Inv, JobBacked, Backed
        <5> QED
          BY <5>1 DEF Paying, Handled
      <4>2. charges[l] = 0 /\ DOMAIN rows[l] = {}
        <5>1. DOMAIN rows[l] = 1 .. Len(rows[l]) /\ Len(rows[l]) = 0 /\ charges[l] \in 0 .. Len(rows[l])
          BY <2>1, <3>2 DEF RowsInOrder, Inv, Shape, Tables
        <5> QED
          BY <5>1
      <4>3. PaidRows(l) = {} /\ Cardinality({}) = 0
        BY <4>2, FS_EmptySet DEF PaidRows
      <4> QED
        BY <4>1, <4>2, <4>3
    <3> QED
      BY <3>1, <3>2
  <2> QED
    BY <2>2, <2>3 DEF Paying, Busy
<1> QED
  BY InitInv, InitFlags, InitOrderly, Step, StepFlags, StepOrderly, <1>1, PTL DEF Spec

(* And the open rows of a schedule, at the amount of an installment, cover *)
(* what is left of the debt: also when updateVariableRates computed that   *)
(* amount from a remaining_debt and a count of rows that a run of the      *)
(* collection has reduced since.                                           *)
THEOREM SchedulesCoverDebt == Spec => []ScheduleCoversDebt
<1>1. Inv /\ Flags /\ (Serial => Orderly) => ScheduleCoversDebt
  <2> SUFFICES ASSUME Inv, Flags, Orderly, NEW l \in Loans, Granted(l),
                      ~Handled(l, {"credit", "mark", "advance"})
               PROVE  loan[l].amount * Cardinality(Open(l)) >= loan[l].debt
    BY DEF ScheduleCoversDebt
  <2>1. RowsInOrder(l) /\ LoanInOrder(l) /\ ~Busy(l)
    BY DEF Orderly, Busy
  <2>2. ~Paying(l)
    BY <2>1 DEF Paying, Busy, Handled
  <2>3. charges[l] \in Nat
    BY DEF Flags
  <2>4. Cardinality(Open(l)) = Left(l)
    BY <2>1, <2>2, <2>3, PaidCount DEF Inv, Shape, Left
  <2>5. loan[l].debt = Owed(l) /\ Covers(loan[l].amount, l)
    BY <2>1 DEF LoanInOrder
  <2> QED
    BY <2>4, <2>5 DEF Covers
<1> QED
  BY InitInv, InitFlags, InitOrderly, Step, StepFlags, StepOrderly, <1>1, PTL DEF Spec
=============================================================================
