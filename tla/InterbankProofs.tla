--------------------------- MODULE InterbankProofs ---------------------------
(***************************************************************************)
(* Theorems about InterbankPayment, for any banks, payments, amounts,      *)
(* faults and numbers of retries: its types, and the inductive invariant   *)
(* TwoPhase, from which the receiver is credited at most once and the      *)
(* sender is debited only for a COMMITTED transaction; Solvent, from which *)
(* no account is overdrawn; and the refinement of MoneyTransfer.           *)
(***************************************************************************)
EXTENDS InterbankLedger, SumTheorems, TLAPS

USE PlacesAssumption, QuantitiesAssumption

AccountTable == [Accounts -> [balance : Int, available : Int, spent : Int]]
HandlerLabels == {"unsent"} \cup Running \cup Answers
Handlers == [Requests -> HandlerLabels]

LEMMA RequestParts ==
  ASSUME NEW r \in Requests
  PROVE  /\ r[1] \in Payments /\ r[2] \in Types /\ r[3] \in Attempts
         /\ r = <<r[1], r[2], r[3]>>
BY DEF Requests

LEMMA FirstAttempt == 1 \in Attempts
BY DEF Attempts

(* The helpers keep the type of what they assign.                          *)
LEMMA MoveType ==
  ASSUME NEW acc \in AccountTable, NEW a \in Accounts,
         NEW b \in Int, NEW v \in Int, NEW s \in Int
  PROVE  Move(acc, a, b, v, s) \in AccountTable
BY DEF AccountTable, Move

LEMMA GoesType ==
  ASSUME TypeOK, NEW p \in Payments, NEW from, NEW to \in PaymentLabels,
         Goes(p, from, to)
  PROVE  pc' \in [Payments -> PaymentLabels]
BY DEF TypeOK, Goes

LEMMA SendType ==
  ASSUME TypeOK, NEW p \in Payments, NEW type \in Types, NEW n \in Attempts,
         Send(p, type, n)
  PROVE  handler' \in Handlers /\ attempt' \in [Payments -> Attempts]
<1>1. <<p, type, n>> \in Requests BY DEF Requests
<1>2. handler' = [handler EXCEPT ![<<p, type, n>>] = "sent"] BY DEF Send
<1>3. handler \in Handlers BY DEF TypeOK, Handlers, HandlerLabels
<1>4. handler' \in Handlers BY <1>1, <1>2, <1>3 DEF Handlers, HandlerLabels, Running
<1>5. attempt' \in [Payments -> Attempts] BY DEF Send, TypeOK
<1> QED BY <1>4, <1>5

LEMMA HandlesType ==
  ASSUME TypeOK, NEW r \in Requests, NEW type, NEW from, NEW to \in HandlerLabels,
         Handles(r, type, from, to)
  PROVE  handler' \in Handlers
BY DEF TypeOK, Handles, Handlers, HandlerLabels

LEMMA Next2PCType ==
  ASSUME TypeOK, NEW p \in Payments, NEW from, NEW to \in PaymentLabels,
         Next2PC(p, from, to)
  PROVE  TypeOK'
<1>1. UNCHANGED <<tables, history, failures, crashes>> /\ Goes(p, from, to)
  BY DEF Next2PC
<1>2. pc' \in [Payments -> PaymentLabels] BY <1>1, GoesType
<1>3. handler' \in Handlers /\ attempt' \in [Payments -> Attempts]
  <2>1. CASE to = "commitTx"
    BY <2>1, SendType, FirstAttempt DEF Next2PC, Types
  <2>2. CASE to = "rollbackTx"
    BY <2>2, SendType, FirstAttempt DEF Next2PC, Types
  <2>3. CASE to \notin {"commitTx", "rollbackTx"}
    BY <2>3 DEF Next2PC, TypeOK, Handlers, HandlerLabels
  <2> QED BY <2>1, <2>2, <2>3
<1> QED BY <1>1, <1>2, <1>3 DEF TypeOK, tables, history, Handlers, HandlerLabels

-----------------------------------------------------------------------------
(* Type correctness.                                                       *)

LEMMA PaymentStepType ==
  ASSUME TypeOK, NEW p \in Payments, PaymentStep(p)
  PROVE  TypeOK'
<1> USE DEF PaymentLabels, Waiting, Ended
<1>0. /\ account \in AccountTable /\ From[p] \in Accounts /\ To[p] \in Accounts
      /\ ViaFrom[p] \in Accounts /\ ViaTo[p] \in Accounts
      /\ Amount[p] \in Int /\ -Amount[p] \in Int /\ Final[p] \in Int /\ -Final[p] \in Int
  BY DEF TypeOK, AccountTable
<1>1. CASE LookupRecipient(p)
  BY <1>1, GoesType DEF LookupRecipient, TypeOK, tables, history
<1>2. CASE Transfer(p)
  <2>1. Paid(p) \in AccountTable
    <3> DEFINE spent == IF Kind[p] = "payment" THEN Amount[p] ELSE 0
               debited == Move(account, From[p], -Amount[p], -Amount[p], spent)
               atBank == Move(debited, ViaFrom[p], Amount[p], Amount[p], 0)
               through == Move(atBank, ViaTo[p], -Final[p], -Final[p], 0)
               direct == Move(debited, To[p], Amount[p], Amount[p], 0)
               converted == Move(through, To[p], Final[p], Final[p], 0)
    <3>1. spent \in Int BY <1>0
    <3> HIDE DEF spent
    <3>2. debited \in AccountTable BY <1>0, <3>1, MoveType
    <3> HIDE DEF debited
    <3>3. atBank \in AccountTable /\ direct \in AccountTable BY <1>0, <3>2, MoveType
    <3> HIDE DEF atBank, direct
    <3>4. through \in AccountTable BY <1>0, <3>3, MoveType
    <3> HIDE DEF through
    <3>5. converted \in AccountTable BY <1>0, <3>4, MoveType
    <3> HIDE DEF converted
    <3>6. Paid(p) \in {atBank, direct, converted}
      BY DEF Paid, spent, debited, atBank, direct, through, converted
    <3> QED BY <3>3, <3>5, <3>6
  <2>2. account' \in AccountTable BY <1>2, <2>1 DEF Transfer
  <2>3. pc' = [pc EXCEPT ![p] = "record"] \/ pc' = [pc EXCEPT ![p] = "failed"]
    BY <1>2 DEF Transfer
  <2>4. pc' \in [Payments -> PaymentLabels] BY <2>3, SMTT(30) DEF TypeOK
  <2> QED BY <1>2, <2>2, <2>4 DEF Transfer, TypeOK, history, AccountTable
<1>3. CASE Refuse(p)
  BY <1>3 DEF Refuse, TypeOK, tables, history
<1>4. CASE Record(p)
  BY <1>4, GoesType DEF Record, TypeOK, history
<1>5. CASE Reserve(p)
  <2>1. account' \in AccountTable BY <1>0, <1>5, MoveType DEF Reserve
  <2>2. handler' \in Handlers /\ attempt' \in [Payments -> Attempts]
    <3>1. CASE Send(p, "NEW_TX", 1) BY <3>1, SendType, FirstAttempt DEF Types
    <3>2. CASE UNCHANGED <<attempt, handler>>
      BY <3>2 DEF TypeOK, Handlers, HandlerLabels
    <3> QED BY <1>5, <3>1, <3>2 DEF Reserve
  <2>3. pc' \in [Payments -> PaymentLabels] BY <1>5, GoesType DEF Reserve
  <2> QED BY <1>5, <2>1, <2>2, <2>3
      DEF Reserve, TypeOK, history, AccountTable, Handlers, HandlerLabels
<1>6. CASE TakeVote(p) BY <1>6, Next2PCType DEF TakeVote
<1>7. CASE TakeCommitted(p) BY <1>7, Next2PCType DEF TakeCommitted
<1>8. CASE TakeRolledBack(p) BY <1>8, Next2PCType DEF TakeRolledBack
<1>9. CASE ReleaseReservation(p)
  <2>1. account' \in AccountTable BY <1>0, <1>9, MoveType DEF ReleaseReservation
  <2> QED BY <1>9, <2>1, GoesType DEF ReleaseReservation, TypeOK, history, AccountTable
<1>10. CASE ApplyDebit(p)
  <2>1. account' \in AccountTable BY <1>0, <1>10, MoveType DEF ApplyDebit
  <2>2. debits' \subseteq Payments BY <1>10 DEF ApplyDebit, TypeOK
  <2> QED BY <1>10, <2>1, <2>2, GoesType DEF ApplyDebit, TypeOK, AccountTable
<1> QED BY <1>1, <1>2, <1>3, <1>4, <1>5, <1>6, <1>7, <1>8, <1>9, <1>10 DEF PaymentStep

LEMMA HandlerStepType ==
  ASSUME TypeOK, NEW r \in Requests, HandlerStep(r) \/ HandlerFails(r)
  PROVE  TypeOK'
<1> USE DEF OthersUnchanged
<1>0. r[1] \in Payments BY RequestParts
<1>1. handler' \in Handlers
  <2>1. vote[r[1]] \in HandlerLabels BY <1>0 DEF TypeOK, HandlerLabels, Answers
  <2>2. CASE LookupVote(r)
    BY <2>1, <2>2, HandlesType DEF LookupVote, HandlerLabels, Running
  <2>3. CASE Validate(r) BY <2>3, HandlesType DEF Validate, HandlerLabels, Running
  <2>4. CASE InsertInterbankTx(r)
    BY <2>4, HandlesType DEF InsertInterbankTx, HandlerLabels, Answers
  <2>5. CASE LookupCommit(r)
    BY <2>5, HandlesType DEF LookupCommit, HandlerLabels, Running, Answers
  <2>6. CASE Claim(r) BY <2>6, HandlesType DEF Claim, HandlerLabels, Running
  <2>7. CASE CreditReceiver(r)
    BY <2>7, HandlesType DEF CreditReceiver, HandlerLabels, Running
  <2>8. CASE CommitOtcToo(r) BY <2>8, HandlesType DEF CommitOtcToo, HandlerLabels, Answers
  <2>9. CASE LookupRollback(r)
    BY <2>9, HandlesType DEF LookupRollback, HandlerLabels, Running, Answers
  <2>10. CASE MarkRolledBack(r)
    BY <2>10, HandlesType DEF MarkRolledBack, HandlerLabels, Answers
  <2>11. CASE HandlerFails(r)
    BY <2>11 DEF HandlerFails, TypeOK, Handlers, HandlerLabels, Answers
  <2> QED BY <2>2, <2>3, <2>4, <2>5, <2>6, <2>7, <2>8, <2>9, <2>10, <2>11 DEF HandlerStep
<1>2. account' \in AccountTable
  <2>1. account \in AccountTable /\ To[r[1]] \in Accounts /\ Amount[r[1]] \in Int
    BY <1>0 DEF TypeOK, AccountTable
  <2>2. CASE CreditReceiver(r) BY <2>1, <2>2, MoveType DEF CreditReceiver
  <2>3. CASE UNCHANGED account BY <2>1, <2>3
  <2> QED BY <2>2, <2>3 DEF HandlerStep, LookupVote, Validate, InsertInterbankTx,
      LookupCommit, Claim, CommitOtcToo, LookupRollback, MarkRolledBack, HandlerFails
<1>3. credits' \in [Payments -> Nat]
  <2>1. CASE CreditReceiver(r) BY <1>0, <2>1 DEF CreditReceiver, TypeOK
  <2>2. CASE UNCHANGED credits BY <2>2 DEF TypeOK
  <2> QED BY <2>1, <2>2 DEF HandlerStep, LookupVote, Validate, InsertInterbankTx,
      LookupCommit, Claim, CommitOtcToo, LookupRollback, MarkRolledBack, HandlerFails
<1>4. /\ row' \in [Payments -> {"none", "PENDING", "COMMITTED", "ROLLED_BACK"}]
      /\ vote' \in [Payments -> {"yes", "no"}]
  <2>1. CASE InsertInterbankTx(r)
    <3> PICK v \in {"yes", "no"} :
          IF row[r[1]] = "none"
          THEN row' = [row EXCEPT ![r[1]] = "PENDING"] /\ vote' = [vote EXCEPT ![r[1]] = v]
          ELSE UNCHANGED <<row, vote>>
      BY <2>1 DEF InsertInterbankTx
    <3>1. CASE row[r[1]] = "none"
      <4>1. row' = [row EXCEPT ![r[1]] = "PENDING"] /\ vote' = [vote EXCEPT ![r[1]] = v]
        BY <3>1
      <4>2. row' \in [Payments -> {"none", "PENDING", "COMMITTED", "ROLLED_BACK"}]
        BY <4>1 DEF TypeOK
      <4>3. vote' \in [Payments -> {"yes", "no"}] BY <4>1 DEF TypeOK
      <4> QED BY <4>2, <4>3
    <3>2. CASE row[r[1]] # "none" BY <3>2 DEF TypeOK
    <3> QED BY <3>1, <3>2
  <2>2. CASE Claim(r) BY <1>0, <2>2 DEF Claim, TypeOK
  <2>3. CASE MarkRolledBack(r) BY <1>0, <2>3 DEF MarkRolledBack, TypeOK
  <2>4. CASE UNCHANGED <<row, vote>> BY <2>4 DEF TypeOK
  <2> QED BY <2>1, <2>2, <2>3, <2>4 DEF HandlerStep, LookupVote, Validate,
      LookupCommit, CreditReceiver, CommitOtcToo, LookupRollback, HandlerFails
<1>5. UNCHANGED <<open, recorded, debits, pc, attempt, failures, crashes>>
  BY DEF HandlerStep, LookupVote, Validate, InsertInterbankTx, LookupCommit, Claim,
     CreditReceiver, CommitOtcToo, LookupRollback, MarkRolledBack, HandlerFails
<1> QED BY <1>1, <1>2, <1>3, <1>4, <1>5
    DEF TypeOK, AccountTable, Handlers, HandlerLabels

LEMMA EnvironmentType ==
  ASSUME TypeOK,
         \/ \E p \in Payments : AttemptFails(p) \/ RequestFails(p)
         \/ \E a \in Accounts : DeleteAccount(a)
         \/ \E b \in Banks : Crash(b)
  PROVE  TypeOK'
<1>1. CASE \E p \in Payments : AttemptFails(p)
  <2> PICK p \in Payments : AttemptFails(p) BY <1>1
  <2>1. TypeOf(pc[p]) \in Types /\ attempt[p] + 1 \in Attempts
    BY DEF AttemptFails, Waiting, TypeOf, Types, TypeOK, Attempts
  <2>2. handler' \in Handlers /\ attempt' \in [Payments -> Attempts]
    BY <2>1, SendType DEF AttemptFails
  <2> QED BY <2>2 DEF AttemptFails, TypeOK, tables, history, Handlers, HandlerLabels
<1>2. CASE \E p \in Payments : RequestFails(p)
  <2> PICK p \in Payments : RequestFails(p) BY <1>2
  <2>1. handler' \in Handlers /\ attempt' \in [Payments -> Attempts]
    <3>1. CASE Send(p, "ROLLBACK_TX", 1) BY <3>1, SendType, FirstAttempt DEF Types
    <3>2. CASE UNCHANGED <<attempt, handler>>
      BY <3>2 DEF TypeOK, Handlers, HandlerLabels
    <3> QED BY <3>1, <3>2 DEF RequestFails
  <2>2. pc' \in [Payments -> PaymentLabels]
    BY DEF RequestFails, TypeOK, PaymentLabels, Waiting
  <2> QED BY <2>1, <2>2 DEF RequestFails, TypeOK, tables, history, Handlers, HandlerLabels
<1>3. CASE \E a \in Accounts : DeleteAccount(a)
  BY <1>3 DEF DeleteAccount, TypeOK, history
<1>4. CASE \E b \in Banks : Crash(b)
  <2> PICK b \in Banks : Crash(b) BY <1>4
  <2>1. pc' \in [Payments -> PaymentLabels]
    BY DEF Crash, TypeOK, PaymentLabels, Ended
  <2>2. handler' \in Handlers
    BY DEF Crash, TypeOK, Handlers, HandlerLabels, Answers
  <2> QED BY <2>1, <2>2 DEF Crash, TypeOK, tables, history, Handlers, HandlerLabels
<1> QED BY <1>1, <1>2, <1>3, <1>4

(* Every variable of InterbankPayment keeps its type, through any attempts, *)
(* failures, deletions and crashes.                                        *)
THEOREM InterbankTypeCorrect == Spec => []TypeOK
<1>1. Init => TypeOK
  BY FirstAttempt DEF Init, TypeOK, PaymentLabels, Requests
<1>2. TypeOK /\ [Next]_vars => TypeOK'
  <2> SUFFICES ASSUME TypeOK, [Next]_vars PROVE TypeOK' OBVIOUS
  <2>1. CASE Next
    BY <2>1, PaymentStepType, HandlerStepType, EnvironmentType DEF Next
  <2>2. CASE UNCHANGED vars BY <2>2 DEF TypeOK, vars, tables, history
  <2> QED BY <2>1, <2>2
<1> QED BY <1>1, <1>2, PTL DEF Spec

-----------------------------------------------------------------------------
(* The two-phase invariant.                                                *)

(* The part of it that only speaks of the receiver's bank.                 *)
ReceiverSide ==
  CreditedOnce /\ ClaimedOnce /\ LabelsOfTypes /\ CommitsAreOfRows /\ NoRollbackYet

LEMMA TwoSides == TwoPhase <=> ReceiverSide /\ DebtorNeverRollsBack
BY DEF TwoPhase, ReceiverSide

LEMMA TwoSidesNext == ReceiverSide' /\ DebtorNeverRollsBack' => TwoPhase'
BY DEF TwoPhase, ReceiverSide

(* Sending a message changes one handler, from whatever it was to "sent".  *)
LEMMA SendEffect ==
  ASSUME TypeOK, NEW p \in Payments, NEW type \in Types, NEW n \in Attempts,
         Send(p, type, n)
  PROVE  /\ \A s \in Requests :
              handler'[s] = IF s = <<p, type, n>> THEN "sent" ELSE handler[s]
         /\ \A q \in Payments : RollbackSent(q) => RollbackSent(q)'
         /\ \A q \in Payments :
              q # p \/ type # "ROLLBACK_TX" => (RollbackSent(q)' => RollbackSent(q))
         /\ type = "ROLLBACK_TX" => RollbackSent(p)'
<1>1. \A s \in Requests :
        handler'[s] = IF s = <<p, type, n>> THEN "sent" ELSE handler[s]
  BY DEF Send, TypeOK
<1>2. \A q \in Payments, m \in Attempts : <<q, "ROLLBACK_TX", m>> \in Requests
  BY DEF Requests, Types
<1>3. \A q \in Payments, m \in Attempts :
        <<q, "ROLLBACK_TX", m>> = <<p, type, n>> <=> q = p /\ type = "ROLLBACK_TX" /\ m = n
  OBVIOUS
<1> QED BY <1>1, <1>2, <1>3 DEF RollbackSent

LEMMA SendKeepsReceiver ==
  ASSUME TypeOK, ReceiverSide, NEW p \in Payments, NEW type \in Types,
         NEW n \in Attempts, Send(p, type, n), UNCHANGED <<row, credits>>,
         type = "COMMIT_TX" => row[p] # "none"
  PROVE  ReceiverSide'
<1>0. <<p, type, n>> \in Requests /\ \A s \in Requests : s[1] \in Payments
  BY RequestParts DEF Requests
<1>1. \A s \in Requests :
        handler'[s] = IF s = <<p, type, n>> THEN "sent" ELSE handler[s]
  BY SendEffect
<1>2. CreditedOnce' /\ ClaimedOnce'
  BY <1>0, <1>1 DEF ReceiverSide, CreditedOnce, ClaimedOnce
<1>3. LabelsOfTypes' BY <1>0, <1>1 DEF ReceiverSide, LabelsOfTypes
<1>4. CommitsAreOfRows'
  BY <1>0, <1>1 DEF ReceiverSide, CommitsAreOfRows
<1>5. NoRollbackYet'
  <2>1. \A q \in Payments, m \in Attempts : <<q, "COMMIT_TX", m>> \in Requests
    BY DEF Requests, Types
  <2>2. \A q \in Payments : RollbackSent(q) => RollbackSent(q)' BY SendEffect
  <2> QED BY <1>1, <2>1, <2>2 DEF ReceiverSide, NoRollbackYet
<1> QED BY <1>2, <1>3, <1>4, <1>5 DEF ReceiverSide

LEMMA QuietReceiver ==
  ASSUME ReceiverSide, UNCHANGED <<row, credits, handler>>
  PROVE  ReceiverSide' /\ \A q \in Payments : RollbackSent(q)' <=> RollbackSent(q)
BY DEF ReceiverSide, CreditedOnce, ClaimedOnce, LabelsOfTypes, CommitsAreOfRows,
   NoRollbackYet, RollbackSent

(* A payment's own step.                                                   *)
LEMMA Next2PCKeeps ==
  ASSUME TypeOK, TwoPhase, NEW p \in Payments,
         NEW from \in Waiting, NEW to \in {"commitTx", "rollbackTx", "release", "debit"},
         Next2PC(p, from, to),
         to = "commitTx" => from = "newTx" /\ row[p] # "none",
         to = "debit" => from = "commitTx" /\ row[p] = "COMMITTED"
  PROVE  TwoPhase'
<1> USE TwoSides
<1>1. /\ UNCHANGED <<row, credits, debits>>
      /\ \A q \in Payments : pc'[q] = IF q = p THEN to ELSE pc[q]
      /\ pc[p] = from
  BY DEF Next2PC, Goes, TypeOK, tables, history
<1>2. CASE to \in {"release", "debit"}
  <2>1. UNCHANGED handler BY <1>2 DEF Next2PC
  <2>2. ReceiverSide' /\ \A q \in Payments : RollbackSent(q)' <=> RollbackSent(q)
    BY <1>1, <2>1, QuietReceiver
  <2>3. DebtorNeverRollsBack'
    BY <1>1, <1>2, <2>2 DEF DebtorNeverRollsBack, Waiting
  <2> QED BY <2>2, <2>3, TwoSidesNext
<1>3. CASE to = "commitTx"
  <2>1. Send(p, "COMMIT_TX", 1) BY <1>3 DEF Next2PC
  <2>2. ReceiverSide'
    BY <1>1, <1>3, <2>1, SendKeepsReceiver, FirstAttempt DEF Types
  <2>3. \A q \in Payments : RollbackSent(q)' => RollbackSent(q)
    BY <2>1, SendEffect, FirstAttempt DEF Types
  <2>4. DebtorNeverRollsBack' BY <1>1, <1>3, <2>3 DEF DebtorNeverRollsBack
  <2> QED BY <2>2, <2>4, TwoSidesNext
<1>4. CASE to = "rollbackTx"
  <2>1. Send(p, "ROLLBACK_TX", 1) BY <1>4 DEF Next2PC
  <2>2. ReceiverSide' BY <1>1, <2>1, SendKeepsReceiver, FirstAttempt DEF Types
  <2>3. \A q \in Payments : q # p => (RollbackSent(q)' => RollbackSent(q))
    BY <2>1, SendEffect, FirstAttempt DEF Types
  <2>4. DebtorNeverRollsBack'
    BY <1>1, <1>4, <2>3 DEF DebtorNeverRollsBack, Waiting
  <2> QED BY <2>2, <2>4, TwoSidesNext
<1> QED BY <1>2, <1>3, <1>4

LEMMA PaymentStepKeeps ==
  ASSUME TypeOK, TwoPhase, NEW p \in Payments, PaymentStep(p)
  PROVE  TwoPhase'
<1> USE TwoSides
<1>0. /\ \A type \in Types : <<p, type, attempt[p]>> \in Requests
      /\ attempt[p] \in Attempts
  BY DEF Requests, TypeOK
<1>1. CASE TakeVote(p)
  <2>1. CASE Answered(p, "NEW_TX") = "yes" /\ Next2PC(p, "newTx", "commitTx")
    <3>1. row[p] # "none"
      BY <1>0, <2>1 DEF Answered, TwoPhase, CommitsAreOfRows, Types
    <3> QED BY <2>1, <3>1, Next2PCKeeps DEF Waiting
  <2>2. CASE Next2PC(p, "newTx", "release") BY <2>2, Next2PCKeeps DEF Waiting
  <2>3. CASE Next2PC(p, "newTx", "rollbackTx") BY <2>3, Next2PCKeeps DEF Waiting
  <2> QED BY <1>1, <2>1, <2>2, <2>3 DEF TakeVote
<1>2. CASE TakeCommitted(p)
  <2>1. CASE Answered(p, "COMMIT_TX") = "ok" /\ Next2PC(p, "commitTx", "debit")
    <3>1. pc[p] = "commitTx" BY <2>1 DEF Next2PC, Goes
    <3>2. ~RollbackSent(p) BY <3>1 DEF TwoPhase, DebtorNeverRollsBack
    <3>3. row[p] = "COMMITTED"
      BY <1>0, <2>1, <3>2 DEF Answered, TwoPhase, NoRollbackYet
    <3> QED BY <2>1, <3>3, Next2PCKeeps DEF Waiting
  <2>2. CASE Next2PC(p, "commitTx", "rollbackTx") BY <2>2, Next2PCKeeps DEF Waiting
  <2> QED BY <1>2, <2>1, <2>2 DEF TakeCommitted
<1>3. CASE TakeRolledBack(p)
  BY <1>3, Next2PCKeeps DEF TakeRolledBack, Waiting
<1>4. CASE Reserve(p) /\ Send(p, "NEW_TX", 1)
  <2>1. /\ UNCHANGED <<row, credits, debits>> /\ pc[p] = "idle"
        /\ \A q \in Payments : q # p => pc'[q] = pc[q]
        /\ pc'[p] \in {"newTx", "failed"}
    BY <1>4 DEF Reserve, Goes, TypeOK, history
  <2>2. ReceiverSide'
    BY <1>4, <2>1, SendKeepsReceiver, FirstAttempt DEF Types
  <2>3. \A q \in Payments : RollbackSent(q)' => RollbackSent(q)
    BY <1>4, SendEffect, FirstAttempt DEF Types
  <2>4. DebtorNeverRollsBack' BY <2>1, <2>3 DEF DebtorNeverRollsBack
  <2> QED BY <2>2, <2>4, TwoSidesNext
<1>5. CASE /\ UNCHANGED <<row, credits, debits, handler>>
           /\ \A q \in Payments : q # p => pc'[q] = pc[q]
           /\ \/ /\ pc[p] \in {"idle", "direct", "viaBank"}
                 /\ pc'[p] \in {"direct", "viaBank", "record", "failed", "refused"}
              \/ /\ pc[p] \in {"record", "release", "debit"}
                 /\ pc'[p] \in {"completed", "failed"}
  <2>1. ReceiverSide' /\ \A q \in Payments : RollbackSent(q)' <=> RollbackSent(q)
    BY <1>5, QuietReceiver
  <2>2. DebtorNeverRollsBack' BY <1>5, <2>1 DEF DebtorNeverRollsBack
  <2> QED BY <2>1, <2>2, TwoSidesNext
<1>6. CASE ApplyDebit(p) /\ debits' = debits \cup {p}
  <2>1. /\ UNCHANGED <<row, credits, handler>>
        /\ \A q \in Payments : q # p => pc'[q] = pc[q]
    BY <1>6 DEF ApplyDebit, Goes, TypeOK
  <2>2. pc[p] = "debit" /\ pc'[p] \in {"record", "failed"}
    BY <1>6 DEF ApplyDebit, Goes, TypeOK
  <2>3. ReceiverSide' /\ \A q \in Payments : RollbackSent(q)' <=> RollbackSent(q)
    BY <2>1, QuietReceiver
  <2>4. DebtorNeverRollsBack' BY <1>6, <2>1, <2>2, <2>3 DEF DebtorNeverRollsBack
  <2> QED BY <2>3, <2>4, TwoSidesNext
<1>7. CASE LookupRecipient(p) \/ Transfer(p) \/ Refuse(p)
  BY <1>5, <1>7 DEF LookupRecipient, Transfer, Refuse, Goes, TypeOK, tables, history
<1>8. CASE Record(p) \/ ReleaseReservation(p)
  BY <1>5, <1>8 DEF Record, ReleaseReservation, Goes, TypeOK, history
<1>9. CASE Reserve(p) /\ UNCHANGED <<attempt, handler>>
  BY <1>4, <1>5, <1>9 DEF Reserve, Goes, TypeOK, history
<1>10. CASE ApplyDebit(p) /\ UNCHANGED <<account, debits>>
  BY <1>5, <1>6, <1>10 DEF ApplyDebit, Goes, TypeOK
<1>11. CASE Reserve(p) BY <1>4, <1>9, <1>11 DEF Reserve
<1>12. CASE ApplyDebit(p) BY <1>6, <1>10, <1>12 DEF ApplyDebit
<1> QED BY <1>1, <1>2, <1>3, <1>7, <1>8, <1>11, <1>12 DEF PaymentStep

(* A handler's step.  No handler becomes or stops being "unsent".          *)
LEMMA HandlerEffect ==
  ASSUME TypeOK, NEW r \in Requests, HandlerStep(r) \/ HandlerFails(r)
  PROVE  /\ \A s \in Requests : s # r => handler'[s] = handler[s]
         /\ handler[r] # "unsent" /\ handler'[r] # "unsent"
         /\ \A q \in Payments : RollbackSent(q)' <=> RollbackSent(q)
         /\ UNCHANGED <<pc, debits>>
<1>1. /\ \A s \in Requests : s # r => handler'[s] = handler[s]
      /\ handler[r] # "unsent" /\ handler'[r] # "unsent"
  <2>1. vote[r[1]] # "unsent" BY RequestParts DEF TypeOK
  <2>2. CASE HandlerStep(r)
    BY <2>1, <2>2 DEF HandlerStep, LookupVote, Validate, InsertInterbankTx, LookupCommit,
       Claim, CreditReceiver, CommitOtcToo, LookupRollback, MarkRolledBack, Handles, TypeOK
  <2>3. CASE HandlerFails(r) BY <2>3 DEF HandlerFails, Running, TypeOK
  <2> QED BY <2>2, <2>3
<1>2. \A q \in Payments, m \in Attempts : <<q, "ROLLBACK_TX", m>> \in Requests
  BY DEF Requests, Types
<1>3. UNCHANGED <<pc, debits>>
  BY DEF HandlerStep, LookupVote, Validate, InsertInterbankTx, LookupCommit, Claim,
     CreditReceiver, CommitOtcToo, LookupRollback, MarkRolledBack, HandlerFails,
     OthersUnchanged
<1> QED BY <1>1, <1>2, <1>3 DEF RollbackSent

(* What a step of one handler must satisfy to keep the receiver's side.    *)
LEMMA QuietHandler ==
  ASSUME TypeOK, ReceiverSide, NEW r \in Requests, HandlerStep(r) \/ HandlerFails(r),
         UNCHANGED <<row, credits>>,
         handler'[r] \in {"validate", "insertYes", "insertNo", "no", "yes", "claim",
                          "otc", "ok", "mark", "error"},
         r[2] = "NEW_TX" => handler'[r] \notin {"claim", "otc", "ok", "mark"},
         r[2] = "COMMIT_TX" => handler'[r] \notin {"yes", "no", "mark"},
         handler'[r] = "yes" => r[2] = "NEW_TX" /\ row[r[1]] # "none",
         r[2] = "COMMIT_TX" /\ handler'[r] \in {"otc", "ok"} =>
           RollbackSent(r[1]) \/ row[r[1]] = "COMMITTED"
  PROVE  ReceiverSide'
<1>0. /\ \A s \in Requests : s # r => handler'[s] = handler[s]
      /\ handler[r] # "unsent"
      /\ \A q \in Payments : RollbackSent(q)' <=> RollbackSent(q)
  BY HandlerEffect
<1>1. CreditedOnce' /\ ClaimedOnce'
  BY <1>0 DEF ReceiverSide, CreditedOnce, ClaimedOnce
<1>2. LabelsOfTypes' BY <1>0 DEF ReceiverSide, LabelsOfTypes
<1>3. CommitsAreOfRows' BY <1>0 DEF ReceiverSide, CommitsAreOfRows
<1>4. NoRollbackYet'
  <2>1. \A q \in Payments, m \in Attempts :
          /\ <<q, "COMMIT_TX", m>> \in Requests
          /\ <<q, "COMMIT_TX", m>> = r => q = r[1] /\ r[2] = "COMMIT_TX"
    BY DEF Requests, Types
  <2> QED BY <1>0, <2>1 DEF ReceiverSide, NoRollbackYet
<1> QED BY <1>1, <1>2, <1>3, <1>4 DEF ReceiverSide

LEMMA HandlerStepKeeps ==
  ASSUME TypeOK, TwoPhase, NEW r \in Requests, HandlerStep(r) \/ HandlerFails(r)
  PROVE  TwoPhase'
<1> DEFINE p == r[1]
<1> USE TwoSides
<1>0. /\ p \in Payments /\ r[2] \in Types /\ r[3] \in Attempts
      /\ r = <<p, r[2], r[3]>>
  BY RequestParts
<1>1. /\ \A s \in Requests : s # r => handler'[s] = handler[s]
      /\ handler[r] # "unsent" /\ handler'[r] # "unsent"
      /\ \A q \in Payments : RollbackSent(q)' <=> RollbackSent(q)
      /\ UNCHANGED <<pc, debits>>
  BY HandlerEffect
<1>2. vote[p] \in {"yes", "no"} BY <1>0 DEF TypeOK
<1>3. ASSUME UNCHANGED row PROVE DebtorNeverRollsBack'
  BY <1>1, <1>3 DEF DebtorNeverRollsBack
<1>4. CASE LookupVote(r)
  <2>1. /\ UNCHANGED <<row, credits>> /\ r[2] = "NEW_TX"
        /\ handler'[r] \in {"validate", "yes", "no"}
        /\ handler'[r] # "validate" => row[p] # "none"
    BY <1>2, <1>4 DEF LookupVote, Handles, TypeOK
  <2>2. ReceiverSide' BY <2>1, QuietHandler
  <2> QED BY <1>3, <2>1, <2>2, TwoSidesNext
<1>5. CASE Validate(r)
  <2>1. /\ UNCHANGED <<row, credits>> /\ r[2] = "NEW_TX"
        /\ handler'[r] \in {"insertYes", "insertNo"}
    BY <1>5 DEF Validate, Handles, TypeOK
  <2>2. ReceiverSide' BY <2>1, QuietHandler
  <2> QED BY <1>3, <2>1, <2>2, TwoSidesNext
<1>6. CASE LookupCommit(r)
  <2>1. /\ UNCHANGED <<row, credits>> /\ r[2] = "COMMIT_TX"
        /\ handler'[r] \in {"otc", "error", "claim"}
        /\ handler'[r] = "otc" => row[p] = "none"
    BY <1>6 DEF LookupCommit, Handles, TypeOK
  <2>2. row[p] # "none"
    BY <1>1, <2>1 DEF TwoPhase, CommitsAreOfRows
  <2>3. ReceiverSide' BY <2>1, <2>2, QuietHandler
  <2> QED BY <1>3, <2>1, <2>3, TwoSidesNext
<1>7. CASE CommitOtcToo(r)
  <2>1. /\ UNCHANGED <<row, credits>> /\ r[2] = "COMMIT_TX"
        /\ handler[r] = "otc" /\ handler'[r] = "ok"
    BY <1>7 DEF CommitOtcToo, Handles, TypeOK
  <2>2. RollbackSent(p) \/ row[p] = "COMMITTED"
    BY <1>0, <2>1 DEF TwoPhase, NoRollbackYet
  <2>3. ReceiverSide' BY <2>1, <2>2, QuietHandler
  <2> QED BY <1>3, <2>1, <2>3, TwoSidesNext
<1>8. CASE LookupRollback(r)
  <2>1. /\ UNCHANGED <<row, credits>> /\ r[2] = "ROLLBACK_TX"
        /\ handler'[r] \in {"mark", "ok"}
    BY <1>8 DEF LookupRollback, Handles, TypeOK
  <2>2. ReceiverSide' BY <2>1, QuietHandler
  <2> QED BY <1>3, <2>1, <2>2, TwoSidesNext
<1>9. CASE HandlerFails(r)
  <2>1. UNCHANGED <<row, credits>> /\ handler'[r] = "error"
    BY <1>9 DEF HandlerFails, TypeOK
  <2>2. ReceiverSide' BY <2>1, QuietHandler
  <2> QED BY <1>3, <2>1, <2>2, TwoSidesNext
<1>10. CASE InsertInterbankTx(r)
  <2>1. /\ UNCHANGED credits /\ r[2] = "NEW_TX" /\ handler'[r] \in {"yes", "no"}
        /\ \A q \in Payments : q # p => row'[q] = row[q]
        /\ row[p] # "none" => row'[p] = row[p]
        /\ row[p] = "none" => row'[p] = "PENDING"
    BY <1>0, <1>10 DEF InsertInterbankTx, Handles, TypeOK
  <2>2. CreditedOnce' /\ ClaimedOnce'
    BY <1>0, <1>1, <2>1, RequestParts DEF TwoPhase, CreditedOnce, ClaimedOnce
  <2>3. LabelsOfTypes' /\ CommitsAreOfRows'
    BY <1>0, <1>1, <2>1, RequestParts DEF TwoPhase, LabelsOfTypes, CommitsAreOfRows
  <2>4. NoRollbackYet'
    <3>1. \A q \in Payments, m \in Attempts :
            <<q, "COMMIT_TX", m>> \in Requests /\ <<q, "COMMIT_TX", m>> # r
      BY <2>1 DEF Requests, Types
    <3>2. \A q \in Payments, m \in Attempts :
            handler[<<q, "COMMIT_TX", m>>] \in {"credit", "otc", "ok"} => row[q] # "none"
      BY <3>1 DEF TwoPhase, CommitsAreOfRows
    <3> QED BY <1>0, <1>1, <2>1, <3>1, <3>2 DEF TwoPhase, NoRollbackYet
  <2>5. DebtorNeverRollsBack' BY <1>0, <1>1, <2>1 DEF DebtorNeverRollsBack
  <2> QED BY <2>2, <2>3, <2>4, <2>5 DEF TwoPhase
<1>11. CASE Claim(r)
  <2>1. CASE row[p] = "PENDING"
    <3>1. /\ UNCHANGED credits /\ r[2] = "COMMIT_TX" /\ handler'[r] = "credit"
          /\ \A q \in Payments : row'[q] = IF q = p THEN "COMMITTED" ELSE row[q]
      BY <1>0, <1>11, <2>1 DEF Claim, Handles, TypeOK
    <3>2. CreditedOnce' /\ ClaimedOnce'
      BY <1>0, <1>1, <2>1, <3>1, RequestParts DEF TwoPhase, CreditedOnce, ClaimedOnce
    <3>3. LabelsOfTypes' /\ CommitsAreOfRows'
      BY <1>0, <1>1, <3>1, RequestParts DEF TwoPhase, LabelsOfTypes, CommitsAreOfRows
    <3>4. NoRollbackYet'
      <4>1. \A q \in Payments, m \in Attempts :
              /\ <<q, "COMMIT_TX", m>> \in Requests
              /\ <<q, "COMMIT_TX", m>> = r => q = p
        BY DEF Requests, Types
      <4> QED BY <1>0, <1>1, <3>1, <4>1 DEF TwoPhase, NoRollbackYet
    <3>5. DebtorNeverRollsBack' BY <1>1, <3>1 DEF DebtorNeverRollsBack
    <3> QED BY <3>2, <3>3, <3>4, <3>5 DEF TwoPhase
  <2>2. CASE row[p] # "PENDING"
    <3>1. /\ UNCHANGED <<row, credits>> /\ r[2] = "COMMIT_TX" /\ handler'[r] = "otc"
      BY <1>11, <2>2 DEF Claim, Handles, TypeOK
    <3>2. row[p] # "none" BY <1>1, <3>1 DEF TwoPhase, CommitsAreOfRows
    <3>3. RollbackSent(p) \/ row[p] = "COMMITTED"
      BY <1>0, <2>2, <3>2 DEF TwoPhase, NoRollbackYet, TypeOK
    <3>4. ReceiverSide' BY <3>1, <3>3, QuietHandler
    <3> QED BY <1>3, <3>1, <3>4, TwoSidesNext
  <2> QED BY <2>1, <2>2
<1>12. CASE CreditReceiver(r)
  <2>1. /\ UNCHANGED row /\ r[2] = "COMMIT_TX"
        /\ handler[r] = "credit" /\ handler'[r] = "otc"
        /\ \A q \in Payments : credits'[q] = IF q = p THEN credits[p] + 1 ELSE credits[q]
    BY <1>0, <1>12 DEF CreditReceiver, Handles, TypeOK
  <2>2. credits[p] = 0 /\ row[p] \notin {"none", "PENDING"}
    BY <2>1 DEF TwoPhase, ClaimedOnce
  <2>3. CreditedOnce'
    BY <2>1, <2>2 DEF TwoPhase, CreditedOnce
  <2>4. ClaimedOnce'
    BY <1>0, <1>1, <2>1, <2>2, RequestParts DEF TwoPhase, ClaimedOnce
  <2>5. LabelsOfTypes' /\ CommitsAreOfRows'
    BY <1>0, <1>1, <2>1 DEF TwoPhase, LabelsOfTypes, CommitsAreOfRows
  <2>6. NoRollbackYet'
    <3>1. \A q \in Payments, m \in Attempts :
            <<q, "COMMIT_TX", m>> \in Requests
      BY DEF Requests, Types
    <3> QED BY <1>0, <1>1, <2>1, <3>1 DEF TwoPhase, NoRollbackYet
  <2> QED BY <1>3, <2>1, <2>3, <2>4, <2>5, <2>6 DEF TwoPhase
<1>13. CASE MarkRolledBack(r)
  <2>1. /\ UNCHANGED credits /\ r[2] = "ROLLBACK_TX" /\ handler'[r] = "ok"
        /\ \A q \in Payments : row'[q] = IF q = p THEN "ROLLED_BACK" ELSE row[q]
    BY <1>0, <1>13 DEF MarkRolledBack, Handles, TypeOK
  <2>2. RollbackSent(p)
    <3>1. r = <<p, "ROLLBACK_TX", r[3]>> BY <1>0, <2>1
    <3>2. handler[<<p, "ROLLBACK_TX", r[3]>>] # "unsent" BY <1>1, <3>1
    <3> QED BY <1>0, <3>2 DEF RollbackSent
  <2>3. CreditedOnce' /\ ClaimedOnce'
    BY <1>0, <1>1, <2>1, RequestParts DEF TwoPhase, CreditedOnce, ClaimedOnce
  <2>4. LabelsOfTypes' /\ CommitsAreOfRows'
    BY <1>0, <1>1, <2>1, RequestParts DEF TwoPhase, LabelsOfTypes, CommitsAreOfRows
  <2>5. NoRollbackYet'
    <3>1. \A q \in Payments, m \in Attempts :
            <<q, "COMMIT_TX", m>> \in Requests /\ <<q, "COMMIT_TX", m>> # r
      BY <2>1 DEF Requests, Types
    <3> QED BY <1>0, <1>1, <2>1, <2>2, <3>1 DEF TwoPhase, NoRollbackYet
  <2>6. DebtorNeverRollsBack' BY <1>1, <2>1, <2>2 DEF DebtorNeverRollsBack
  <2> QED BY <2>3, <2>4, <2>5, <2>6 DEF TwoPhase
<1> QED BY <1>4, <1>5, <1>6, <1>7, <1>8, <1>9, <1>10, <1>11, <1>12, <1>13 DEF HandlerStep

LEMMA EnvironmentKeeps ==
  ASSUME TypeOK, TwoPhase,
         \/ \E p \in Payments : AttemptFails(p) \/ RequestFails(p)
         \/ \E a \in Accounts : DeleteAccount(a)
         \/ \E b \in Banks : Crash(b)
  PROVE  TwoPhase'
<1> USE TwoSides
<1>1. CASE \E p \in Payments : AttemptFails(p)
  <2> PICK p \in Payments : AttemptFails(p) BY <1>1
  <2>0. UNCHANGED <<row, credits, debits, pc>>
    BY DEF AttemptFails, tables, history
  <2>1. TypeOf(pc[p]) \in Types /\ attempt[p] + 1 \in Attempts
    BY DEF AttemptFails, Waiting, TypeOf, Types, TypeOK, Attempts
  <2>2. /\ TypeOf(pc[p]) = "COMMIT_TX" => row[p] # "none"
        /\ TypeOf(pc[p]) = "ROLLBACK_TX" => pc[p] = "rollbackTx"
    BY DEF AttemptFails, TypeOf, Waiting, DebtorNeverRollsBack
  <2>3. Send(p, TypeOf(pc[p]), attempt[p] + 1) BY DEF AttemptFails
  <2>4. ReceiverSide' BY <2>0, <2>1, <2>2, <2>3, SendKeepsReceiver
  <2>5. \A q \in Payments :
          RollbackSent(q)' => RollbackSent(q) \/ (q = p /\ pc[p] = "rollbackTx")
    BY <2>1, <2>2, <2>3, SendEffect
  <2>6. DebtorNeverRollsBack' BY <2>0, <2>5 DEF DebtorNeverRollsBack
  <2> QED BY <2>4, <2>6, TwoSidesNext
<1>2. CASE \E p \in Payments : RequestFails(p)
  <2> PICK p \in Payments : RequestFails(p) BY <1>2
  <2>0. /\ UNCHANGED <<row, credits, debits>>
        /\ \A q \in Payments : q # p => pc'[q] = pc[q]
    BY DEF RequestFails, tables, history, TypeOK
  <2>1. CASE pc[p] = "commitTx" /\ Send(p, "ROLLBACK_TX", 1)
    <3>1. pc'[p] = "rollbackTx" BY <2>1 DEF RequestFails, TypeOK
    <3>2. ReceiverSide' BY <2>0, <2>1, SendKeepsReceiver, FirstAttempt DEF Types
    <3>3. \A q \in Payments : q # p => (RollbackSent(q)' => RollbackSent(q))
      BY <2>1, SendEffect, FirstAttempt DEF Types
    <3>4. DebtorNeverRollsBack' BY <2>0, <2>1, <3>1, <3>3 DEF DebtorNeverRollsBack
    <3> QED BY <3>2, <3>4, TwoSidesNext
  <2>2. CASE pc[p] # "commitTx" /\ UNCHANGED handler
    <3>1. pc'[p] = "release" /\ pc[p] \in {"newTx", "rollbackTx"}
      BY <2>2 DEF RequestFails, TypeOK, Waiting
    <3>2. ReceiverSide' /\ \A q \in Payments : RollbackSent(q)' <=> RollbackSent(q)
      BY <2>0, <2>2, QuietReceiver
    <3>3. DebtorNeverRollsBack' BY <2>0, <3>1, <3>2 DEF DebtorNeverRollsBack
    <3> QED BY <3>2, <3>3, TwoSidesNext
  <2> QED BY <2>1, <2>2 DEF RequestFails
<1>3. CASE \E a \in Accounts : DeleteAccount(a)
  <2>1. UNCHANGED <<row, credits, handler, pc, debits>>
    BY <1>3 DEF DeleteAccount, history
  <2>2. ReceiverSide' /\ \A q \in Payments : RollbackSent(q)' <=> RollbackSent(q)
    BY <2>1, QuietReceiver
  <2>3. DebtorNeverRollsBack' BY <2>1, <2>2 DEF DebtorNeverRollsBack
  <2> QED BY <2>2, <2>3, TwoSidesNext
<1>4. CASE \E b \in Banks : Crash(b)
  <2> PICK b \in Banks : Crash(b) BY <1>4
  <2>0. UNCHANGED <<row, credits, debits>> BY DEF Crash, tables, history
  <2>1. \A r \in Requests :
          handler'[r] = handler[r] \/ (handler[r] # "unsent" /\ handler'[r] = "error")
    BY DEF Crash, Running
  <2>2. \A q \in Payments : pc'[q] = pc[q] \/ pc'[q] = "lost" BY DEF Crash
  <2>3. \A q \in Payments, m \in Attempts :
          <<q, "COMMIT_TX", m>> \in Requests /\ <<q, "ROLLBACK_TX", m>> \in Requests
    BY DEF Requests, Types
  <2>4. \A q \in Payments : RollbackSent(q)' <=> RollbackSent(q)
    BY <2>1, <2>3 DEF RollbackSent
  <2>5. CreditedOnce' /\ ClaimedOnce'
    BY <2>0, <2>1 DEF TwoPhase, CreditedOnce, ClaimedOnce
  <2>6. LabelsOfTypes' /\ CommitsAreOfRows'
    BY <2>0, <2>1 DEF TwoPhase, LabelsOfTypes, CommitsAreOfRows
  <2>7. NoRollbackYet' BY <2>0, <2>1, <2>3, <2>4 DEF TwoPhase, NoRollbackYet
  <2>8. DebtorNeverRollsBack' BY <2>0, <2>2, <2>4 DEF DebtorNeverRollsBack
  <2> QED BY <2>5, <2>6, <2>7, <2>8 DEF TwoPhase
<1> QED BY <1>1, <1>2, <1>3, <1>4

(* The invariant of the two-phase commit, for any number of payments and   *)
(* attempts, and whatever requests, handlers, connections and processes    *)
(* are lost on the way.                                                    *)
THEOREM TwoPhaseAlways == Spec => []TwoPhase
<1>1. Init => TwoPhase
  <2> SUFFICES ASSUME Init PROVE TwoPhase OBVIOUS
  <2>1. \A p \in Payments, n \in Attempts, t \in Types : <<p, t, n>> \in Requests
    BY DEF Requests
  <2>2. \A p \in Payments : ~RollbackSent(p)
    BY <2>1 DEF Init, RollbackSent, Types
  <2>3. CreditedOnce /\ ClaimedOnce BY DEF Init, CreditedOnce, ClaimedOnce
  <2>4. LabelsOfTypes /\ CommitsAreOfRows
    BY RequestParts DEF Init, LabelsOfTypes, CommitsAreOfRows
  <2>5. NoRollbackYet BY <2>1 DEF Init, NoRollbackYet, Types
  <2>6. DebtorNeverRollsBack BY <2>2 DEF Init, DebtorNeverRollsBack
  <2> QED BY <2>3, <2>4, <2>5, <2>6 DEF TwoPhase
<1>2. TypeOK /\ TwoPhase /\ [Next]_vars => TwoPhase'
  <2> SUFFICES ASSUME TypeOK, TwoPhase, [Next]_vars PROVE TwoPhase' OBVIOUS
  <2>1. CASE Next
    BY <2>1, PaymentStepKeeps, HandlerStepKeeps, EnvironmentKeeps DEF Next
  <2>2. CASE UNCHANGED vars
    <3>1. UNCHANGED <<row, credits, handler, pc, debits>>
      BY <2>2 DEF vars, tables, history
    <3>2. ReceiverSide' /\ \A q \in Payments : RollbackSent(q)' <=> RollbackSent(q)
      BY <3>1, TwoSides, QuietReceiver
    <3>3. DebtorNeverRollsBack' BY <3>1, <3>2, TwoSides DEF DebtorNeverRollsBack
    <3> QED BY <3>2, <3>3, TwoSidesNext
  <2> QED BY <2>1, <2>2
<1> QED BY <1>1, <1>2, InterbankTypeCorrect, PTL DEF Spec

(* However often COMMIT_TX arrives, the receiver is credited at most once. *)
THEOREM NoDoubleCredit == Spec => []CreditedOnce
<1>1. TwoPhase => CreditedOnce BY DEF TwoPhase
<1> QED BY <1>1, TwoPhaseAlways, PTL

(* The sender is debited only for a COMMITTED transaction. *)
THEOREM NoDebitWithoutCommit == Spec => []DebitedIsCommitted
<1>1. TwoPhase /\ TypeOK => DebitedIsCommitted
  BY DEF TwoPhase, DebtorNeverRollsBack, DebitedIsCommitted, TypeOK
<1> QED BY <1>1, TwoPhaseAlways, InterbankTypeCorrect, PTL

-----------------------------------------------------------------------------
(* No account is overdrawn.  The limits are kept step by step; what needs   *)
(* an invariant is that giving a reservation back cannot bring the          *)
(* available money above the balance nor the spending below zero: what is   *)
(* reserved of an account was taken off the one and added to the other.     *)

(* What payment p has reserved of account a, and all payments together.     *)
Out(p, a) == IF From[p] = a /\ pc[p] \in Reserved THEN Amount[p] ELSE 0
Held(a) == SumFunctionOnSet([p \in Payments |-> Out(p, a)], Payments)

SolventAt(a) ==
  /\ 0 <= account[a].available /\ account[a].available + Held(a) <= account[a].balance
  /\ Held(a) <= account[a].spent /\ account[a].spent <= Limit[a]
Solvent == \A a \in Accounts \ BankAccounts : SolventAt(a)

LEMMA OutIsNat ==
  ASSUME NEW p \in Payments, NEW a
  PROVE  Out(p, a) \in Nat /\ Out(p, a)' \in Nat
BY DEF Out

LEMMA HeldIsNat ==
  ASSUME NEW a
  PROVE  /\ Held(a) \in Nat /\ Held(a)' \in Nat
         /\ \A p \in Payments : Out(p, a) <= Held(a)
<1> DEFINE f == [p \in Payments |-> Out(p, a)]
           g == [p \in Payments |-> Out(p, a)']
<1>1. /\ \A p \in Payments : f[p] = Out(p, a) /\ f[p] \in Nat
      /\ \A p \in Payments : g[p] \in Nat
  BY OutIsNat
<1>2. Held(a) = SumFunctionOnSet(f, Payments) /\ Held(a)' = SumFunctionOnSet(g, Payments)
  BY DEF Held
<1> HIDE DEF f, g
<1>3. /\ SumFunctionOnSet(f, Payments) \in Nat /\ SumFunctionOnSet(g, Payments) \in Nat
      /\ \A p \in Payments : f[p] <= SumFunctionOnSet(f, Payments)
  BY <1>1, SumNat, FiniteAssumption
<1> QED BY <1>1, <1>2, <1>3

(* The reservation of one payment comes or goes.                           *)
LEMMA HeldChange ==
  ASSUME NEW a, NEW p \in Payments, \A q \in Payments : q # p => Out(q, a)' = Out(q, a)
  PROVE  Held(a)' = Held(a) - Out(p, a) + Out(p, a)'
<1> DEFINE f == [q \in Payments |-> Out(q, a)]
           g == [q \in Payments |-> Out(q, a)']
<1>1. /\ \A q \in Payments : f[q] \in Int /\ g[q] \in Int
      /\ \A q \in Payments \ {p} : g[q] = f[q]
      /\ f[p] = Out(p, a) /\ g[p] = Out(p, a)'
  BY OutIsNat
<1>2. Held(a) = SumFunctionOnSet(f, Payments) /\ Held(a)' = SumFunctionOnSet(g, Payments)
  BY DEF Held
<1> HIDE DEF f, g
<1>3. SumFunctionOnSet(g, Payments) = SumFunctionOnSet(f, Payments) - f[p] + g[p]
  BY <1>1, SumChange, FiniteAssumption, SMTT(30)
<1> QED BY <1>1, <1>2, <1>3

(* No reservation is made.                                                 *)
LEMMA HeldFalls ==
  ASSUME NEW a, \A q \in Payments : Out(q, a)' <= Out(q, a)
  PROVE  Held(a)' <= Held(a)
<1> DEFINE f == [q \in Payments |-> Out(q, a)]
           g == [q \in Payments |-> Out(q, a)']
<1>1. \A q \in Payments : f[q] \in Int /\ g[q] \in Int /\ g[q] <= f[q]
  BY OutIsNat
<1>2. Held(a) = SumFunctionOnSet(f, Payments) /\ Held(a)' = SumFunctionOnSet(g, Payments)
  BY DEF Held
<1> HIDE DEF f, g
<1> QED BY <1>1, <1>2, SumMonotone, FiniteAssumption

(* Steps that neither reserve nor touch the account.                       *)
LEMMA SolventStays ==
  ASSUME TypeOK, NEW a \in Accounts, SolventAt(a), account'[a] = account[a],
         \A q \in Payments : pc'[q] \in Reserved => pc[q] \in Reserved
  PROVE  SolventAt(a)'
<1>1. \A q \in Payments : Out(q, a)' <= Out(q, a)
  BY DEF Out
<1>2. Held(a)' <= Held(a) /\ Held(a) \in Nat /\ Held(a)' \in Nat
  BY <1>1, HeldFalls, HeldIsNat
<1>3. /\ account[a].available \in Int /\ account[a].balance \in Int
      /\ account[a].spent \in Int /\ Limit[a] \in Int
  BY DEF TypeOK
<1> QED BY <1>2, <1>3 DEF SolventAt

(* What Move does to each account.                                         *)
LEMMA MoveAt ==
  ASSUME NEW acc \in AccountTable, NEW a \in Accounts,
         NEW b \in Int, NEW v \in Int, NEW s \in Int, NEW c \in Accounts
  PROVE  /\ c # a \/ a \notin open => Move(acc, a, b, v, s)[c] = acc[c]
         /\ c = a /\ a \in open =>
              /\ Move(acc, a, b, v, s)[c].balance = acc[c].balance + b
              /\ Move(acc, a, b, v, s)[c].available = acc[c].available + v
              /\ Move(acc, a, b, v, s)[c].spent = acc[c].spent + s
BY DEF AccountTable, Move

LEMMA MoveHere ==
  ASSUME NEW acc \in AccountTable, NEW a \in Accounts, a \in open,
         NEW b \in Int, NEW v \in Int, NEW s \in Int
  PROVE  /\ Move(acc, a, b, v, s)[a].balance = acc[a].balance + b
         /\ Move(acc, a, b, v, s)[a].available = acc[a].available + v
         /\ Move(acc, a, b, v, s)[a].spent = acc[a].spent + s
BY MoveAt

(* The account gains some money, or none. *)
Gains(new, old) ==
  \E w \in Nat : /\ new.balance = old.balance + w
                 /\ new.available = old.available + w
                 /\ new.spent = old.spent

(* Money arrives at account b, if it exists.                               *)
LEMMA GainAt ==
  ASSUME NEW acc \in AccountTable, NEW b \in Accounts, NEW v \in Nat, NEW a \in Accounts
  PROVE  Gains(Move(acc, b, v, v, 0)[a], acc[a])
<1> USE DEF Gains
<1>1. /\ acc[a].balance \in Int /\ acc[a].available \in Int /\ acc[a].spent \in Int
      /\ v \in Int /\ 0 \in Int /\ 0 \in Nat
  BY DEF AccountTable
<1>2. CASE a # b \/ b \notin open
  <2>1. Move(acc, b, v, v, 0)[a] = acc[a]
    BY <1>1, <1>2, MoveAt
  <2>2. acc[a].balance + 0 = acc[a].balance /\ acc[a].available + 0 = acc[a].available
    BY <1>1
  <2> QED BY <1>1, <2>1, <2>2
<1>3. CASE a = b /\ b \in open
  <2>1. /\ Move(acc, a, v, v, 0)[a].balance = acc[a].balance + v
        /\ Move(acc, a, v, v, 0)[a].available = acc[a].available + v
        /\ Move(acc, a, v, v, 0)[a].spent = acc[a].spent + 0
    BY <1>1, <1>3, MoveHere
  <2>2. acc[a].spent + 0 = acc[a].spent
    BY <1>1
  <2> QED BY <1>3, <2>1, <2>2
<1> QED BY <1>2, <1>3

(* What a payment inside the bank does to an account of a client.          *)
LEMMA PaidAt ==
  ASSUME TypeOK, NEW p \in Payments, From[p] \in open, NEW a \in Accounts \ BankAccounts
  PROVE  /\ a = From[p] =>
              /\ Paid(p)[a].balance = account[a].balance - Amount[p]
              /\ Paid(p)[a].available = account[a].available - Amount[p]
              /\ Paid(p)[a].spent
                   = account[a].spent + IF Kind[p] = "payment" THEN Amount[p] ELSE 0
         /\ a # From[p] => Gains(Paid(p)[a], account[a])
<1>0. /\ account \in AccountTable /\ From[p] \in Accounts /\ To[p] \in Accounts
      /\ ViaFrom[p] \in Accounts /\ ViaTo[p] \in Accounts
      /\ ViaFrom[p] # a /\ ViaTo[p] # a /\ From[p] # To[p] /\ a \in Accounts
      /\ Amount[p] \in Nat /\ Amount[p] \in Int /\ -Amount[p] \in Int
      /\ Final[p] \in Nat /\ Final[p] \in Int /\ -Final[p] \in Int /\ 0 \in Int
  BY DEF TypeOK, AccountTable
<1>1. PICK spent : spent = IF Kind[p] = "payment" THEN Amount[p] ELSE 0
  OBVIOUS
<1>2. spent \in Int
  BY <1>0, <1>1
<1>3. PICK debited : debited = Move(account, From[p], -Amount[p], -Amount[p], spent)
  OBVIOUS
<1>4. PICK atBank : atBank = Move(debited, ViaFrom[p], Amount[p], Amount[p], 0)
  OBVIOUS
<1>5. PICK direct : direct = Move(debited, To[p], Amount[p], Amount[p], 0)
  OBVIOUS
<1>6. PICK through : through = Move(atBank, ViaTo[p], -Final[p], -Final[p], 0)
  OBVIOUS
<1>7. PICK converted : converted = Move(through, To[p], Final[p], Final[p], 0)
  OBVIOUS
<1>8. Paid(p) \in {atBank, direct, converted}
  BY <1>1, <1>3, <1>4, <1>5, <1>6, <1>7 DEF Paid
<1>9. debited \in AccountTable
  BY <1>0, <1>2, <1>3, MoveType
<1>10. atBank \in AccountTable /\ direct \in AccountTable
  BY <1>0, <1>4, <1>5, <1>9, MoveType
<1>11. through \in AccountTable
  BY <1>0, <1>6, <1>10, MoveType
<1>12. atBank[a] = debited[a] /\ through[a] = debited[a]
  BY <1>0, <1>4, <1>6, <1>9, <1>10, MoveAt
<1>13. /\ a # To[p] => direct[a] = debited[a] /\ converted[a] = debited[a]
       /\ a # From[p] => debited[a] = account[a]
  BY <1>0, <1>2, <1>3, <1>5, <1>7, <1>9, <1>11, <1>12, MoveAt
<1>14. CASE a = From[p]
  <2>1. Paid(p)[a] = debited[a]
    BY <1>0, <1>8, <1>12, <1>13, <1>14
  <2>2. /\ debited[a].balance = account[a].balance + -Amount[p]
        /\ debited[a].available = account[a].available + -Amount[p]
        /\ debited[a].spent = account[a].spent + spent
    <3>1. PICK d \in Int : d = -Amount[p]
      BY <1>0
    <3>2. debited = Move(account, From[p], d, d, spent)
      BY <1>3, <3>1
    <3>3. /\ debited[a].balance = account[a].balance + d
          /\ debited[a].available = account[a].available + d
          /\ debited[a].spent = account[a].spent + spent
      <4>1. account \in AccountTable /\ From[p] \in Accounts /\ From[p] \in open
        BY <1>0
      <4>2. LET f == From[p]
            IN  /\ Move(account, f, d, d, spent)[f].balance = account[f].balance + d
                /\ Move(account, f, d, d, spent)[f].available = account[f].available + d
                /\ Move(account, f, d, d, spent)[f].spent = account[f].spent + spent
        BY <1>2, <3>1, <4>1, MoveHere
      <4> QED BY <1>14, <3>2, <4>2
    <3> QED BY <3>1, <3>3
  <2>3. account[a].balance \in Int /\ account[a].available \in Int
    BY DEF TypeOK
  <2> QED BY <1>0, <1>1, <1>14, <2>1, <2>2, <2>3
<1>15. CASE a # From[p]
  <2>1. debited[a] = account[a] /\ account[a] \in [balance : Int, available : Int, spent : Int]
    BY <1>13, <1>15 DEF TypeOK
  <2>3. CASE Paid(p) = atBank
    <3>1. Paid(p)[a] = account[a] /\ 0 \in Nat
      BY <1>12, <2>1, <2>3
    <3>2. account[a].balance + 0 = account[a].balance
          /\ account[a].available + 0 = account[a].available
      BY <2>1
    <3> QED BY <1>15, <3>1, <3>2 DEF Gains
  <2>4. CASE Paid(p) = direct
    <3>1. PICK v \in Nat : v = Amount[p]
      BY <1>0
    <3>2. Gains(Move(debited, To[p], v, v, 0)[a], debited[a])
      BY <1>0, <1>9, <3>1, GainAt
    <3> QED BY <1>5, <1>15, <2>1, <2>4, <3>1, <3>2
  <2>5. CASE Paid(p) = converted
    <3>1. PICK v \in Nat : v = Final[p]
      BY <1>0
    <3>2. Gains(Move(through, To[p], v, v, 0)[a], through[a])
      BY <1>0, <1>11, <3>1, GainAt
    <3> QED BY <1>7, <1>12, <1>15, <2>1, <2>5, <3>1, <3>2
  <2> QED BY <1>8, <2>3, <2>4, <2>5
<1> QED BY <1>14, <1>15

LEMMA TransferSolvent ==
  ASSUME TypeOK, NEW p \in Payments, Transfer(p), NEW a \in Accounts \ BankAccounts,
         SolventAt(a)
  PROVE  SolventAt(a)'
<1>1. /\ Covered(p) /\ (Kind[p] = "payment" => WithinLimits(p))
      /\ account' = Paid(p) /\ From[p] \in open
  BY DEF Transfer, Covered
<1>2. \A q \in Payments : pc'[q] \in Reserved => pc[q] \in Reserved
  BY DEF Transfer, TypeOK, Reserved, Waiting
<1>3. \A q \in Payments : Out(q, a)' <= Out(q, a)
  BY <1>2 DEF Out
<1>4. Held(a)' <= Held(a) /\ Held(a) \in Nat /\ Held(a)' \in Nat
  BY <1>3, HeldFalls, HeldIsNat
<1>5. /\ account[a].available \in Int /\ account[a].balance \in Int
      /\ account[a].spent \in Int /\ Limit[a] \in Int /\ Amount[p] \in Nat
  BY DEF TypeOK
<1>6. CASE a = From[p]
  <2>1. /\ account'[a].balance = account[a].balance - Amount[p]
        /\ account'[a].available = account[a].available - Amount[p]
        /\ account'[a].spent
             = account[a].spent + IF Kind[p] = "payment" THEN Amount[p] ELSE 0
    BY <1>1, <1>6, PaidAt
  <2>2. account[a].available >= Amount[p]
    BY <1>1, <1>6 DEF Covered
  <2>3. /\ account[a].spent <= account'[a].spent /\ account'[a].spent \in Int
        /\ account'[a].spent <= Limit[a]
    <3>1. CASE Kind[p] = "payment"
      BY <1>1, <1>5, <1>6, <2>1, <3>1 DEF WithinLimits
    <3>2. CASE Kind[p] # "payment"
      BY <1>5, <2>1, <3>2 DEF SolventAt
    <3> QED BY <3>1, <3>2
  <2> QED BY <1>4, <1>5, <2>1, <2>2, <2>3 DEF SolventAt
<1>7. CASE a # From[p]
  <2>1. PICK v \in Nat :
           /\ account'[a].balance = account[a].balance + v
           /\ account'[a].available = account[a].available + v
           /\ account'[a].spent = account[a].spent
    BY <1>1, <1>7, PaidAt DEF Gains
  <2> QED BY <1>4, <1>5, <2>1 DEF SolventAt
<1> QED BY <1>6, <1>7

LEMMA ReserveSolvent ==
  ASSUME TypeOK, NEW p \in Payments, Reserve(p), NEW a \in Accounts \ BankAccounts,
         SolventAt(a)
  PROVE  SolventAt(a)'
<1>1. /\ Covered(p) /\ WithinLimits(p) /\ From[p] \in open /\ From[p] \in Accounts
      /\ account' = Move(account, From[p], 0, -Amount[p], Amount[p])
      /\ pc[p] = "idle" /\ \A q \in Payments : q # p => pc'[q] = pc[q]
  BY DEF Reserve, Covered, Goes, TypeOK
<1>2. /\ account[a].available \in Int /\ account[a].balance \in Int
      /\ account[a].spent \in Int /\ Limit[a] \in Int /\ Amount[p] \in Nat
      /\ account \in AccountTable /\ -Amount[p] \in Int /\ 0 \in Int /\ Amount[p] \in Int
  BY DEF TypeOK, AccountTable
<1>3. CASE a # From[p]
  <2>1. account'[a] = account[a]
    BY <1>1, <1>2, <1>3, MoveAt
  <2>2. \A q \in Payments : Out(q, a)' <= Out(q, a)
    BY <1>1, <1>3 DEF Out
  <2>3. Held(a)' <= Held(a) /\ Held(a) \in Nat /\ Held(a)' \in Nat
    BY <2>2, HeldFalls, HeldIsNat
  <2> QED BY <1>2, <2>1, <2>3 DEF SolventAt
<1>4. CASE a = From[p]
  <2>1. /\ account'[a].balance = account[a].balance + 0
        /\ account'[a].available = account[a].available + -Amount[p]
        /\ account'[a].spent = account[a].spent + Amount[p]
    BY <1>1, <1>2, <1>4, MoveAt
  <2>2. Out(p, a) = 0 /\ Out(p, a)' <= Amount[p] /\ Out(p, a)' \in Nat
    BY <1>1, <1>2 DEF Out, Reserved, Waiting
  <2>3. \A q \in Payments : q # p => Out(q, a)' = Out(q, a)
    BY <1>1 DEF Out
  <2>4. Held(a)' = Held(a) - Out(p, a) + Out(p, a)' /\ Held(a) \in Nat /\ Held(a)' \in Nat
    BY <2>3, HeldChange, HeldIsNat
  <2>5. account[a].available >= Amount[p] /\ account[a].spent + Amount[p] <= Limit[a]
    BY <1>1, <1>4 DEF Covered, WithinLimits
  <2> QED BY <1>2, <2>1, <2>2, <2>4, <2>5 DEF SolventAt
<1> QED BY <1>3, <1>4

(* A reservation given back, or spent.                                     *)
LEMMA SettleSolvent ==
  ASSUME TypeOK, NEW p \in Payments, ReleaseReservation(p) \/ ApplyDebit(p),
         NEW a \in Accounts \ BankAccounts, SolventAt(a)
  PROVE  SolventAt(a)'
<1>1. /\ pc[p] \in {"release", "debit"} /\ pc'[p] \in {"record", "failed"}
      /\ \A q \in Payments : q # p => pc'[q] = pc[q]
  BY DEF ReleaseReservation, ApplyDebit, Goes, TypeOK
<1>2. /\ account[a].available \in Int /\ account[a].balance \in Int
      /\ account[a].spent \in Int /\ Limit[a] \in Int /\ Amount[p] \in Nat
      /\ account \in AccountTable /\ -Amount[p] \in Int /\ 0 \in Int /\ Amount[p] \in Int
      /\ From[p] \in Accounts
  BY DEF TypeOK, AccountTable
<1>3. \A q \in Payments : pc'[q] \in Reserved => pc[q] \in Reserved
  BY <1>1 DEF Reserved, Waiting
<1>4. CASE account'[a] = account[a]
  BY <1>3, <1>4, SolventStays
<1>5. CASE account'[a] # account[a]
  <2>1. \/ account' = Move(account, From[p], 0, Amount[p], -Amount[p])
        \/ account' = Move(account, From[p], -Amount[p], 0, 0)
    BY <1>5 DEF ReleaseReservation, ApplyDebit
  <2>2. a = From[p] /\ a \in open
    BY <1>2, <1>5, <2>1, MoveAt
  <2>3. Out(p, a) = Amount[p] /\ Out(p, a)' = 0
    BY <1>1, <2>2 DEF Out, Reserved, Waiting
  <2>4. \A q \in Payments : q # p => Out(q, a)' = Out(q, a)
    BY <1>1 DEF Out
  <2>5. /\ Held(a)' = Held(a) - Out(p, a) + Out(p, a)' /\ Held(a) \in Nat
        /\ Held(a)' \in Nat
    BY <2>4, HeldChange, HeldIsNat
  <2>6. CASE account' = Move(account, From[p], 0, Amount[p], -Amount[p])
    <3>1. /\ account'[a].balance = account[a].balance + 0
          /\ account'[a].available = account[a].available + Amount[p]
          /\ account'[a].spent = account[a].spent + -Amount[p]
      BY <1>2, <2>2, <2>6, MoveAt
    <3> QED BY <1>2, <2>3, <2>5, <3>1 DEF SolventAt
  <2>7. CASE account' = Move(account, From[p], -Amount[p], 0, 0)
    <3>1. /\ account'[a].balance = account[a].balance + -Amount[p]
          /\ account'[a].available = account[a].available + 0
          /\ account'[a].spent = account[a].spent + 0
      BY <1>2, <2>2, <2>7, MoveAt
    <3> QED BY <1>2, <2>3, <2>5, <3>1 DEF SolventAt
  <2> QED BY <2>1, <2>6, <2>7
<1> QED BY <1>4, <1>5

LEMMA CreditSolvent ==
  ASSUME TypeOK, NEW r \in Requests, CreditReceiver(r), NEW a \in Accounts \ BankAccounts,
         SolventAt(a)
  PROVE  SolventAt(a)'
<1>1. /\ account' = Move(account, To[r[1]], Amount[r[1]], Amount[r[1]], 0)
      /\ \A q \in Payments : pc'[q] \in Reserved => pc[q] \in Reserved
  BY DEF CreditReceiver, OthersUnchanged
<1>2. /\ account[a].available \in Int /\ account[a].balance \in Int
      /\ account[a].spent \in Int /\ account \in AccountTable /\ Limit[a] \in Int
      /\ Amount[r[1]] \in Nat /\ Amount[r[1]] \in Int /\ To[r[1]] \in Accounts /\ 0 \in Int
  BY RequestParts DEF TypeOK, AccountTable
<1>3. CASE a # To[r[1]] \/ To[r[1]] \notin open
  <2>1. account'[a] = account[a]
    BY <1>1, <1>2, <1>3, MoveAt
  <2> QED BY <1>1, <2>1, SolventStays
<1>4. CASE a = To[r[1]] /\ To[r[1]] \in open
  <2>1. /\ account'[a].balance = account[a].balance + Amount[r[1]]
        /\ account'[a].available = account[a].available + Amount[r[1]]
        /\ account'[a].spent = account[a].spent + 0
    BY <1>1, <1>2, <1>4, MoveAt
  <2>2. \A q \in Payments : Out(q, a)' <= Out(q, a)
    BY <1>1 DEF Out
  <2>3. Held(a)' <= Held(a) /\ Held(a) \in Nat /\ Held(a)' \in Nat
    BY <2>2, HeldFalls, HeldIsNat
  <2> QED BY <1>2, <2>1, <2>3 DEF SolventAt
<1> QED BY <1>3, <1>4

(* Every other step leaves the accounts and reserves nothing.              *)
LEMMA OthersReserveNothing ==
  ASSUME TypeOK, [Next]_vars,
         ~ \E p \in Payments : Transfer(p) \/ Reserve(p) \/ ReleaseReservation(p)
                                 \/ ApplyDebit(p),
         ~ \E r \in Requests : CreditReceiver(r)
  PROVE  /\ UNCHANGED account
         /\ \A q \in Payments : pc'[q] \in Reserved => pc[q] \in Reserved
<1> USE DEF Reserved, Waiting
<1>1. CASE \E p \in Payments : PaymentStep(p)
  <2> PICK p \in Payments : PaymentStep(p) BY <1>1
  <2>1. CASE LookupRecipient(p)
    BY <2>1 DEF LookupRecipient, Goes, TypeOK, tables
  <2>2. CASE Refuse(p) BY <2>2 DEF Refuse, TypeOK, tables
  <2>3. CASE Record(p) BY <2>3 DEF Record, Goes, TypeOK
  <2>4. CASE TakeVote(p) BY <2>4 DEF TakeVote, Next2PC, Goes, TypeOK, tables
  <2>5. CASE TakeCommitted(p) BY <2>5 DEF TakeCommitted, Next2PC, Goes, TypeOK, tables
  <2>6. CASE TakeRolledBack(p) BY <2>6 DEF TakeRolledBack, Next2PC, Goes, TypeOK, tables
  <2> QED BY <2>1, <2>2, <2>3, <2>4, <2>5, <2>6 DEF PaymentStep
<1>2. CASE \E p \in Payments : AttemptFails(p) \/ RequestFails(p)
  BY <1>2 DEF AttemptFails, RequestFails, TypeOK, tables
<1>3. CASE \E r \in Requests : HandlerStep(r) \/ HandlerFails(r)
  BY <1>3 DEF HandlerStep, LookupVote, Validate, InsertInterbankTx, LookupCommit, Claim,
     CommitOtcToo, LookupRollback, MarkRolledBack, HandlerFails, OthersUnchanged
<1>4. CASE \E a \in Accounts : DeleteAccount(a)
  BY <1>4 DEF DeleteAccount
<1>5. CASE \E b \in Banks : Crash(b)
  BY <1>5 DEF Crash, TypeOK, tables
<1>6. CASE UNCHANGED vars
  BY <1>6 DEF vars, tables
<1> QED BY <1>1, <1>2, <1>3, <1>4, <1>5, <1>6 DEF Next

LEMMA SolventInit == Init => Solvent
<1> SUFFICES ASSUME Init, NEW a \in Accounts \ BankAccounts PROVE SolventAt(a)
  BY DEF Solvent
<1>1. \A p \in Payments : Out(p, a) = 0
  BY DEF Init, Out, Reserved, Waiting
<1>2. PICK f : f = [p \in Payments |-> Out(p, a)]
  OBVIOUS
<1>3. Held(a) = 0
  BY <1>1, <1>2, SumZero, FiniteAssumption DEF Held
<1> QED BY <1>3 DEF Init, SolventAt

(* A client's account is never overdrawn and its limits are never exceeded, *)
(* through any number of concurrent payments and transfers, lost answers,   *)
(* repeated messages, crashes and deleted accounts.                         *)
THEOREM AccountsStaySolvent == Spec => []NeverOverdrawn
<1>1. Init => Solvent
  BY SolventInit
<1>2. TypeOK /\ Solvent /\ [Next]_vars => Solvent'
  <2> SUFFICES ASSUME TypeOK, Solvent, [Next]_vars, NEW a \in Accounts \ BankAccounts
               PROVE  SolventAt(a)'
    BY DEF Solvent
  <2>1. SolventAt(a)
    BY DEF Solvent
  <2>2. CASE \E p \in Payments : Transfer(p) \/ Reserve(p) \/ ReleaseReservation(p)
                                   \/ ApplyDebit(p)
    BY <2>1, <2>2, TransferSolvent, ReserveSolvent, SettleSolvent
  <2>3. CASE \E r \in Requests : CreditReceiver(r)
    BY <2>1, <2>3, CreditSolvent
  <2>4. CASE ~ (\E p \in Payments : Transfer(p) \/ Reserve(p) \/ ReleaseReservation(p)
                                      \/ ApplyDebit(p))
             /\ ~ (\E r \in Requests : CreditReceiver(r))
    BY <2>1, <2>4, OthersReserveNothing, SolventStays
  <2> QED BY <2>2, <2>3, <2>4
<1>3. TypeOK /\ Solvent => NeverOverdrawn
  <2> SUFFICES ASSUME TypeOK, Solvent, NEW a \in Accounts \ BankAccounts
               PROVE  /\ 0 <= account[a].available
                      /\ account[a].available <= account[a].balance
                      /\ 0 <= account[a].spent /\ account[a].spent <= Limit[a]
    BY DEF NeverOverdrawn
  <2>1. /\ account[a].available \in Int /\ account[a].balance \in Int
        /\ account[a].spent \in Int /\ Held(a) \in Nat
    BY HeldIsNat DEF TypeOK
  <2> QED BY <2>1 DEF Solvent, SolventAt
<1> QED BY <1>1, <1>2, <1>3, InterbankTypeCorrect, PTL DEF Spec

-----------------------------------------------------------------------------
(* Payments to another bank are atomic.                                    *)

(* The faults that leave a reservation behind: a commit that took effect   *)
(* and is not answered, a release whose error is dropped, an account that  *)
(* is deleted under a payment.                                             *)
NothingLeftBehind == MaxDeletes = 0 /\ {"commitAnswer", "release"} \cap Faults = {}

(* No call of a sender is cut off, and none rolls back a transaction that  *)
(* it has asked the partner to commit.                                     *)
SeesItThrough ==
  \A p \in Payments : pc'[p] # "lost" /\ (pc[p] = "commitTx" => pc'[p] # "rollbackTx")

(* A transaction is committed or rolled back, never both: once COMMIT_TX   *)
(* was sent the call goes on to the debit, which waits for the claim.      *)
CommitSent(p) == \E n \in Attempts : handler[<<p, "COMMIT_TX", n>>] # "unsent"
OneWayAt(p) ==
  /\ pc[p] \in Reserved => p \in Outgoing
  /\ pc[p] = "direct" => p \in Local
  /\ pc[p] # "viaBank"
  /\ row[p] = "COMMITTED" => CommitSent(p)
  /\ CommitSent(p) =>
       /\ p \in Outgoing /\ ~RollbackSent(p)
       /\ \/ pc[p] \in {"commitTx", "debit"}
          \/ pc[p] \in {"record", "completed", "failed"} /\ row[p] = "COMMITTED"
OneWay == open = Accounts /\ \A p \in Payments : OneWayAt(p)

LEMMA SentBy ==
  ASSUME TypeOK, NEW p \in Payments, NEW type \in Types, NEW n \in Attempts,
         Send(p, type, n)
  PROVE  \A q \in Payments :
           /\ CommitSent(q)' <=> CommitSent(q) \/ (q = p /\ type = "COMMIT_TX")
           /\ RollbackSent(q)' <=> RollbackSent(q) \/ (q = p /\ type = "ROLLBACK_TX")
<1>1. \A s \in Requests :
        handler'[s] = IF s = <<p, type, n>> THEN "sent" ELSE handler[s]
  BY SendEffect
<1>2. \A q \in Payments, m \in Attempts :
        <<q, "COMMIT_TX", m>> \in Requests /\ <<q, "ROLLBACK_TX", m>> \in Requests
  BY DEF Requests, Types
<1>3. \A q \in Payments, m \in Attempts :
        /\ <<q, "COMMIT_TX", m>> = <<p, type, n>> <=> q = p /\ type = "COMMIT_TX" /\ m = n
        /\ <<q, "ROLLBACK_TX", m>> = <<p, type, n>> <=> q = p /\ type = "ROLLBACK_TX" /\ m = n
  OBVIOUS
<1>4. ASSUME NEW q \in Payments
      PROVE  CommitSent(q)' <=> CommitSent(q) \/ (q = p /\ type = "COMMIT_TX")
  BY <1>1, <1>2, <1>3 DEF CommitSent
<1>5. ASSUME NEW q \in Payments
      PROVE  RollbackSent(q)' <=> RollbackSent(q) \/ (q = p /\ type = "ROLLBACK_TX")
  BY <1>1, <1>2, <1>3 DEF RollbackSent
<1> QED BY <1>4, <1>5

(* What a message says is said by one label of the call.                   *)
LEMMA NothingSent ==
  ASSUME UNCHANGED handler
  PROVE  \A q \in Payments : /\ CommitSent(q)' <=> CommitSent(q)
                             /\ RollbackSent(q)' <=> RollbackSent(q)
BY DEF CommitSent, RollbackSent

LEMMA Next2PCSends ==
  ASSUME TypeOK, NEW p \in Payments, NEW from, NEW to, Next2PC(p, from, to)
  PROVE  \A q \in Payments :
           /\ CommitSent(q)' <=> CommitSent(q) \/ (q = p /\ to = "commitTx")
           /\ RollbackSent(q)' <=> RollbackSent(q) \/ (q = p /\ to = "rollbackTx")
<1>1. CASE to = "commitTx"
  BY <1>1, SentBy, FirstAttempt DEF Next2PC, Types
<1>2. CASE to = "rollbackTx"
  BY <1>2, SentBy, FirstAttempt DEF Next2PC, Types
<1>3. CASE to \notin {"commitTx", "rollbackTx"}
  BY <1>3, NothingSent DEF Next2PC
<1> QED BY <1>1, <1>2, <1>3

(* A step of one payer: where the others stand does not change.            *)
LEMMA OthersStand ==
  ASSUME OneWay, NEW p \in Payments, UNCHANGED <<row, open>>,
         \A q \in Payments : q # p => pc'[q] = pc[q],
         \A q \in Payments : q # p => /\ CommitSent(q)' <=> CommitSent(q)
                                      /\ RollbackSent(q)' <=> RollbackSent(q),
         OneWayAt(p)'
  PROVE  OneWay'
BY DEF OneWay, OneWayAt

LEMMA PayerKeepsOneWay ==
  ASSUME TypeOK, TwoPhase, OneWay, SeesItThrough, NEW p \in Payments, PaymentStep(p)
  PROVE  OneWay'
<1> USE DEF Waiting
<1>0. /\ UNCHANGED <<row, open>> /\ OneWayAt(p) /\ pc \in [Payments -> PaymentLabels]
      /\ \A q \in Payments : q # p => pc'[q] = pc[q]
  BY DEF PaymentStep, LookupRecipient, Transfer, Refuse, Record, Reserve, TakeVote,
     TakeCommitted, TakeRolledBack, ReleaseReservation, ApplyDebit, Next2PC, Goes, TypeOK,
     tables, OneWay
<1>1. ASSUME UNCHANGED handler, OneWayAt(p)' PROVE OneWay'
  BY <1>0, <1>1, NothingSent, OthersStand
<1>2. ASSUME NEW from, NEW to, Next2PC(p, from, to), OneWayAt(p)' PROVE OneWay'
  BY <1>0, <1>2, Next2PCSends, OthersStand
<1>3. CASE LookupRecipient(p)
  <2>1. /\ UNCHANGED handler /\ p \in Local /\ To[p] \in open
        /\ pc[p] = "idle" /\ pc'[p] = "direct"
    BY <1>0, <1>3 DEF LookupRecipient, Goes, OneWay, TypeOK
  <2>2. OneWayAt(p)' BY <1>0, <2>1, NothingSent DEF OneWayAt, Reserved
  <2> QED BY <1>1, <2>1, <2>2
<1>4. CASE Transfer(p)
  <2>1. /\ UNCHANGED handler /\ pc[p] \in {"direct", "viaBank"}
        /\ pc'[p] \in {"record", "failed"}
    BY <1>0, <1>4 DEF Transfer
  <2>2. OneWayAt(p)' BY <1>0, <2>1, NothingSent DEF OneWayAt, Reserved
  <2> QED BY <1>1, <2>1, <2>2
<1>5. CASE Refuse(p)
  <2>1. UNCHANGED handler /\ pc[p] \in {"idle", "direct", "viaBank"} /\ pc'[p] = "refused"
    BY <1>0, <1>5 DEF Refuse
  <2>2. OneWayAt(p)' BY <1>0, <2>1, NothingSent DEF OneWayAt, Reserved
  <2> QED BY <1>1, <2>1, <2>2
<1>6. CASE Record(p)
  <2>1. UNCHANGED handler /\ pc[p] = "record" /\ pc'[p] \in {"completed", "failed"}
    BY <1>0, <1>6 DEF Record, Goes
  <2>2. OneWayAt(p)' BY <1>0, <2>1, NothingSent DEF OneWayAt, Reserved
  <2> QED BY <1>1, <2>1, <2>2
<1>7. CASE Reserve(p)
  <2>1. p \in Outgoing /\ pc[p] = "idle" /\ pc'[p] \in {"newTx", "failed"}
    BY <1>0, <1>7 DEF Reserve, Goes
  <2>2. \A q \in Payments : /\ CommitSent(q)' <=> CommitSent(q)
                            /\ RollbackSent(q)' <=> RollbackSent(q)
    <3>1. CASE Send(p, "NEW_TX", 1) BY <3>1, SentBy, FirstAttempt DEF Types
    <3>2. CASE UNCHANGED handler BY <3>2, NothingSent
    <3> QED BY <1>7, <3>1, <3>2 DEF Reserve
  <2>3. OneWayAt(p)' BY <1>0, <2>1, <2>2 DEF OneWayAt, Reserved
  <2> QED BY <1>0, <2>2, <2>3, OthersStand
<1>8. CASE TakeVote(p)
  <2>1. PICK to \in {"commitTx", "release", "rollbackTx"} : Next2PC(p, "newTx", to)
    BY <1>8 DEF TakeVote
  <2>2. pc[p] = "newTx" /\ pc'[p] = to BY <1>0, <2>1 DEF Next2PC, Goes
  <2>3. ~RollbackSent(p) BY <2>2 DEF TwoPhase, DebtorNeverRollsBack
  <2>4. OneWayAt(p)' BY <1>0, <2>1, <2>2, <2>3, Next2PCSends DEF OneWayAt, Reserved
  <2> QED BY <1>2, <2>1, <2>4
<1>9. CASE TakeCommitted(p)
  <2>1. pc[p] = "commitTx" /\ pc'[p] # "rollbackTx"
    BY <1>9 DEF TakeCommitted, Next2PC, Goes, SeesItThrough
  <2>2. Next2PC(p, "commitTx", "debit") /\ pc'[p] = "debit"
    BY <1>0, <1>9, <2>1 DEF TakeCommitted, Next2PC, Goes
  <2>3. OneWayAt(p)' BY <1>0, <2>1, <2>2, Next2PCSends DEF OneWayAt, Reserved
  <2> QED BY <1>2, <2>2, <2>3
<1>10. CASE TakeRolledBack(p)
  <2>1. /\ Next2PC(p, "rollbackTx", "release")
        /\ pc[p] = "rollbackTx" /\ pc'[p] = "release"
    BY <1>0, <1>10 DEF TakeRolledBack, Next2PC, Goes
  <2>2. OneWayAt(p)' BY <1>0, <2>1, Next2PCSends DEF OneWayAt, Reserved
  <2> QED BY <1>2, <2>1, <2>2
<1>11. CASE ReleaseReservation(p)
  <2>1. UNCHANGED handler /\ pc[p] = "release" /\ pc'[p] = "failed"
    BY <1>0, <1>11 DEF ReleaseReservation, Goes
  <2>2. OneWayAt(p)' BY <1>0, <2>1, NothingSent DEF OneWayAt, Reserved
  <2> QED BY <1>1, <2>1, <2>2
<1>12. CASE ApplyDebit(p)
  <2>1. UNCHANGED handler /\ pc[p] = "debit" /\ pc'[p] \in {"record", "failed"}
    BY <1>0, <1>12 DEF ApplyDebit, Goes
  <2>2. row[p] = "COMMITTED" BY <2>1 DEF TwoPhase, DebtorNeverRollsBack
  <2>3. OneWayAt(p)' BY <1>0, <2>1, <2>2, NothingSent DEF OneWayAt, Reserved
  <2> QED BY <1>1, <2>1, <2>3
<1> QED BY <1>3, <1>4, <1>5, <1>6, <1>7, <1>8, <1>9, <1>10, <1>11, <1>12 DEF PaymentStep

(* Handlers send nothing; a COMMITTED row stays COMMITTED, for a rollback   *)
(* and a commit of one payment are never both under way.                   *)
LEMMA HandlerSends ==
  ASSUME TypeOK, NEW r \in Requests, HandlerStep(r) \/ HandlerFails(r)
  PROVE  \A q \in Payments : /\ CommitSent(q)' <=> CommitSent(q)
                             /\ RollbackSent(q)' <=> RollbackSent(q)
<1>1. /\ \A s \in Requests : s # r => handler'[s] = handler[s]
      /\ handler[r] # "unsent" /\ handler'[r] # "unsent"
      /\ \A q \in Payments : RollbackSent(q)' <=> RollbackSent(q)
  BY HandlerEffect
<1>2. \A q \in Payments, m \in Attempts : <<q, "COMMIT_TX", m>> \in Requests
  BY DEF Requests, Types
<1> QED BY <1>1, <1>2 DEF CommitSent

LEMMA SentIs ==
  ASSUME NEW r \in Requests, handler[r] # "unsent"
  PROVE  /\ r[2] = "COMMIT_TX" => CommitSent(r[1])
         /\ r[2] = "ROLLBACK_TX" => RollbackSent(r[1])
BY RequestParts DEF CommitSent, RollbackSent

LEMMA HandlerRow ==
  ASSUME TypeOK, NEW r \in Requests, HandlerStep(r) \/ HandlerFails(r)
  PROVE  \A q \in Payments :
           \/ row'[q] = row[q]
           \/ row[q] = "none" /\ row'[q] = "PENDING"
           \/ q = r[1] /\ CommitSent(q) /\ row[q] = "PENDING" /\ row'[q] = "COMMITTED"
           \/ q = r[1] /\ RollbackSent(q) /\ row'[q] = "ROLLED_BACK"
<1>0. row \in [Payments -> {"none", "PENDING", "COMMITTED", "ROLLED_BACK"}] BY DEF TypeOK
<1>1. CASE InsertInterbankTx(r) BY <1>0, <1>1 DEF InsertInterbankTx
<1>2. CASE Claim(r)
  <2>1. CASE row[r[1]] = "PENDING" /\ row' = [row EXCEPT ![r[1]] = "COMMITTED"]
    <3>1. CommitSent(r[1]) BY <1>2, SentIs DEF Claim, Handles
    <3> QED BY <1>0, <2>1, <3>1
  <2> QED BY <1>2, <2>1 DEF Claim
<1>3. CASE MarkRolledBack(r)
  <2>1. RollbackSent(r[1]) BY <1>3, SentIs DEF MarkRolledBack, Handles
  <2> QED BY <1>0, <1>3, <2>1 DEF MarkRolledBack
<1>4. CASE ~(InsertInterbankTx(r) \/ Claim(r) \/ MarkRolledBack(r))
  <2>1. UNCHANGED row
    BY <1>4 DEF HandlerStep, LookupVote, Validate, LookupCommit, CreditReceiver,
       CommitOtcToo, LookupRollback, HandlerFails
  <2> QED BY <2>1
<1> QED BY <1>1, <1>2, <1>3, <1>4

LEMMA HandlerKeepsOneWay ==
  ASSUME TypeOK, OneWay, NEW r \in Requests, HandlerStep(r) \/ HandlerFails(r)
  PROVE  OneWay'
<1>1. UNCHANGED <<pc, open>>
  BY DEF HandlerStep, LookupVote, Validate, InsertInterbankTx, LookupCommit, Claim,
     CreditReceiver, CommitOtcToo, LookupRollback, MarkRolledBack, HandlerFails,
     OthersUnchanged
<1>2. ASSUME NEW q \in Payments PROVE OneWayAt(q)'
  <2>1. OneWayAt(q) BY DEF OneWay
  <2>2. row[q] = "COMMITTED" => row'[q] = "COMMITTED"
    BY <2>1, HandlerRow DEF OneWayAt
  <2>3. row'[q] = "COMMITTED" => CommitSent(q)
    BY <2>1, HandlerRow DEF OneWayAt
  <2> QED BY <1>1, <2>1, <2>2, <2>3, HandlerSends DEF OneWayAt
<1> QED BY <1>1, <1>2 DEF OneWay

LEMMA EnvironmentKeepsOneWay ==
  ASSUME TypeOK, TwoPhase, OneWay, SeesItThrough, NothingLeftBehind,
         \/ \E p \in Payments : AttemptFails(p) \/ RequestFails(p)
         \/ \E a \in Accounts : DeleteAccount(a)
         \/ \E b \in Banks : Crash(b)
  PROVE  OneWay'
<1> USE DEF Waiting
<1>1. CASE \E p \in Payments : AttemptFails(p)
  <2> PICK p \in Payments : AttemptFails(p) BY <1>1
  <2>0. UNCHANGED <<row, open, pc>> /\ OneWayAt(p)
    BY DEF AttemptFails, tables, OneWay
  <2>1. TypeOf(pc[p]) \in Types /\ attempt[p] + 1 \in Attempts
    BY DEF AttemptFails, TypeOf, Types, TypeOK, Attempts
  <2>2. Send(p, TypeOf(pc[p]), attempt[p] + 1) BY DEF AttemptFails
  <2>3. \A q \in Payments :
          /\ CommitSent(q)' <=> CommitSent(q) \/ (q = p /\ TypeOf(pc[p]) = "COMMIT_TX")
          /\ RollbackSent(q)' <=> RollbackSent(q) \/ (q = p /\ TypeOf(pc[p]) = "ROLLBACK_TX")
    BY <2>1, <2>2, SentBy
  <2>4. /\ TypeOf(pc[p]) = "COMMIT_TX" <=> pc[p] = "commitTx"
        /\ TypeOf(pc[p]) = "ROLLBACK_TX" <=> pc[p] = "rollbackTx"
        /\ pc[p] \in {"newTx", "commitTx", "rollbackTx"}
    BY DEF AttemptFails, TypeOf
  <2>5. pc[p] = "commitTx" => ~RollbackSent(p) BY DEF TwoPhase, DebtorNeverRollsBack
  <2>6. OneWayAt(p)' BY <2>0, <2>3, <2>4, <2>5 DEF OneWayAt, Reserved
  <2> QED BY <2>0, <2>3, <2>6, OthersStand
<1>2. CASE \E p \in Payments : RequestFails(p)
  <2> PICK p \in Payments : RequestFails(p) BY <1>2
  <2>1. pc'[p] # "rollbackTx" \/ pc[p] # "commitTx" BY DEF SeesItThrough
  <2>2. /\ pc[p] \in {"newTx", "rollbackTx"} /\ pc'[p] = "release"
        /\ UNCHANGED <<row, open, handler>> /\ OneWayAt(p)
        /\ \A q \in Payments : q # p => pc'[q] = pc[q]
    BY <2>1 DEF RequestFails, TypeOK, tables, OneWay
  <2>3. OneWayAt(p)' BY <2>2, NothingSent DEF OneWayAt, Reserved
  <2> QED BY <2>2, <2>3, NothingSent, OthersStand
<1>3. CASE \E a \in Accounts : DeleteAccount(a)
  <2>1. Accounts \ open = {} BY DEF OneWay
  <2>2. Cardinality(Accounts \ open) = 0 BY <2>1, FS_EmptySet
  <2> QED BY <1>3, <2>2 DEF DeleteAccount, NothingLeftBehind
<1>4. CASE \E b \in Banks : Crash(b)
  <2> PICK b \in Banks : Crash(b) BY <1>4
  <2>1. /\ \A q \in Payments : pc'[q] = pc[q]
        /\ UNCHANGED <<row, open>>
    BY DEF Crash, tables, SeesItThrough
  <2>2. \A r \in Requests : handler[r] = "unsent" <=> handler'[r] = "unsent"
    BY DEF Crash, Running
  <2>3. \A q \in Payments, m \in Attempts :
          <<q, "COMMIT_TX", m>> \in Requests /\ <<q, "ROLLBACK_TX", m>> \in Requests
    BY DEF Requests, Types
  <2>4. \A q \in Payments : /\ CommitSent(q)' <=> CommitSent(q)
                            /\ RollbackSent(q)' <=> RollbackSent(q)
    BY <2>2, <2>3 DEF CommitSent, RollbackSent
  <2> QED BY <2>1, <2>4 DEF OneWay, OneWayAt
<1> QED BY <1>1, <1>2, <1>3, <1>4

LEMMA OneWayNext ==
  ASSUME TypeOK, TwoPhase, OneWay, NothingLeftBehind, [Next /\ SeesItThrough]_vars
  PROVE  OneWay'
<1>1. CASE Next /\ SeesItThrough
  BY <1>1, PayerKeepsOneWay, HandlerKeepsOneWay, EnvironmentKeepsOneWay DEF Next
<1>2. CASE UNCHANGED vars
  <2>1. UNCHANGED <<row, open, pc, handler>> BY <1>2 DEF vars, tables
  <2> QED BY <2>1, NothingSent DEF OneWay, OneWayAt
<1> QED BY <1>1, <1>2

LEMMA OneWayInit == Init => OneWay
<1> SUFFICES ASSUME Init PROVE OneWay OBVIOUS
<1>1. \A q \in Payments, m \in Attempts : <<q, "COMMIT_TX", m>> \in Requests
  BY DEF Requests, Types
<1>2. \A q \in Payments : ~CommitSent(q) BY <1>1 DEF Init, CommitSent
<1> QED BY <1>2 DEF Init, OneWay, OneWayAt, Reserved, Waiting

(* Once a commit was asked for, no rollback is, and no row changes its mind. *)
THEOREM CommitsSeenThrough ==
  ASSUME NothingLeftBehind
  PROVE  Spec /\ [][SeesItThrough]_vars => []OneWay
<1>1. TypeOK /\ TwoPhase /\ OneWay /\ [Next /\ SeesItThrough]_vars => OneWay'
  BY OneWayNext
<1>2. [Next]_vars /\ [SeesItThrough]_vars => [Next /\ SeesItThrough]_vars
  OBVIOUS
<1> QED BY <1>1, <1>2, OneWayInit, InterbankTypeCorrect, TwoPhaseAlways, PTL DEF Spec

(* Sums over payments.                                                     *)
LEMMA SumOverIs ==
  ASSUME NEW S \in SUBSET Payments, NEW where, NEW a
  PROVE  /\ SumOver(S, where, a)
              = SumFunctionOnSet([p \in Payments |->
                  IF p \in S /\ where[p] = a THEN Amount[p] ELSE 0], Payments)
         /\ SumOver(S, where, a) \in Nat
<1> DEFINE T == {p \in S : where[p] = a}
           f == [p \in Payments |-> IF p \in T THEN Amount[p] ELSE 0]
<1>1. T \in SUBSET Payments /\ \A p \in T : Amount[p] \in Int
  OBVIOUS
<1>2. \A p \in Payments : f[p] \in Nat
  OBVIOUS
<1>3. f = [p \in Payments |-> IF p \in S /\ where[p] = a THEN Amount[p] ELSE 0]
  OBVIOUS
<1> HIDE DEF T
<1>4. SumFunctionOnSet(Amount, T) = SumFunctionOnSet(f, Payments)
  BY <1>1, SumWhere, FiniteAssumption
<1> HIDE DEF f
<1>5. SumFunctionOnSet(f, Payments) \in Nat
  BY <1>2, SumNat, FiniteAssumption
<1> QED BY <1>3, <1>4, <1>5 DEF SumOver, T

(* T has one payment more than S.                                          *)
Share(p, where, a) == IF where[p] = a THEN Amount[p] ELSE 0

LEMMA ShareIs ==
  ASSUME NEW p \in Payments, NEW where, NEW a
  PROVE  Share(p, where, a) \in Nat
BY DEF Share

LEMMA SumOverIn ==
  ASSUME NEW S \in SUBSET Payments, NEW where, NEW a
  PROVE  SumOver(S, where, a) \in Nat
BY SumOverIs

LEMMA SumOverMore ==
  ASSUME NEW S \in SUBSET Payments, NEW p \in Payments \ S, NEW where, NEW a,
         NEW T, T = S \cup {p}
  PROVE  SumOver(T, where, a) = SumOver(S, where, a) + Share(p, where, a)
<1> DEFINE f == [q \in Payments |-> IF q \in S /\ where[q] = a THEN Amount[q] ELSE 0]
           g == [q \in Payments |-> IF q \in T /\ where[q] = a THEN Amount[q] ELSE 0]
<1>1. (\A q \in Payments : f[q] \in Int) /\ (\A q \in Payments : g[q] \in Int)
  OBVIOUS
<1>2. /\ \A q \in Payments \ {p} : g[q] = f[q]
      /\ f[p] = 0 /\ g[p] = Share(p, where, a) /\ g[p] \in Nat
  BY DEF Share
<1>3. /\ SumOver(S, where, a) = SumFunctionOnSet(f, Payments)
      /\ SumOver(S, where, a) \in Nat
      /\ SumOver(T, where, a) = SumFunctionOnSet(g, Payments)
  <2>1. T \in SUBSET Payments OBVIOUS
  <2> QED BY <2>1, SumOverIs
<1> HIDE DEF f, g
<1>4. SumFunctionOnSet(g, Payments) = SumFunctionOnSet(f, Payments) - f[p] + g[p]
  BY <1>1, <1>2, SumChange, FiniteAssumption, SMTT(30)
<1> QED BY <1>1, <1>2, <1>3, <1>4

(* What is under way, at one account.                                      *)
LEMMA UnderWay ==
  ASSUME NEW a \in Accounts
  PROVE  /\ Committed \in SUBSET Payments /\ Pending \in SUBSET Payments
         /\ Uncredited \in SUBSET Payments /\ Committed \ debits \in SUBSET Payments
         /\ SumOver(Uncredited, To, a) \in Nat
         /\ SumOver(Committed \ debits, From, a) \in Nat
         /\ SumOver(Pending, From, a) \in Nat
<1>1. /\ Committed \in SUBSET Payments /\ Pending \in SUBSET Payments
      /\ Uncredited \in SUBSET Payments /\ Committed \ debits \in SUBSET Payments
  BY DEF Committed, Pending, Uncredited, Outgoing
<1>2. \A S \in SUBSET Payments : SumOver(S, To, a) \in Nat /\ SumOver(S, From, a) \in Nat
  BY SumOverIs
<1> QED BY <1>1, <1>2

LEMMA Integral ==
  ASSUME TypeOK, NEW a \in Accounts
  PROVE  account[a].balance \in Int /\ account[a].available \in Int /\ account[a].spent \in Int
BY DEF TypeOK

(* Steps between the reservation and the claim, and after it, do not show. *)
LEMMA Unseen ==
  ASSUME UNCHANGED <<account, credits, debits>>,
         \A q \in Outgoing : row'[q] = "COMMITTED" <=> row[q] = "COMMITTED",
         \A q \in Outgoing :
           row[q] # "COMMITTED" => (pc'[q] \in Reserved <=> pc[q] \in Reserved),
         \A q \in Local : pc'[q] \in {"record", "completed", "failed"}
                            <=> pc[q] \in {"record", "completed", "failed"}
  PROVE  UNCHANGED Transfers!mvars
<1>1. /\ Committed' = Committed /\ Pending' = Pending /\ Uncredited' = Uncredited
      /\ (Committed \ debits)' = Committed \ debits /\ Done' = Done
  BY DEF Committed, Pending, Uncredited, Done
<1>2. EffectiveBalance' = EffectiveBalance BY <1>1 DEF EffectiveBalance
<1>3. EffectiveAvailable' = EffectiveAvailable BY <1>1 DEF EffectiveAvailable
<1>4. EffectiveSpent' = EffectiveSpent BY <1>1 DEF EffectiveSpent
<1> QED BY <1>1, <1>2, <1>3, <1>4 DEF Transfers!mvars

(* Money that is moved while what is under way changes by as much.         *)
LEMMA Balanced ==
  ASSUME Done' = Done,
         \A a \in Accounts :
           /\ EffectiveBalance'[a] = EffectiveBalance[a]
           /\ EffectiveAvailable'[a] = EffectiveAvailable[a]
           /\ EffectiveSpent'[a] = EffectiveSpent[a]
  PROVE  UNCHANGED Transfers!mvars
BY DEF EffectiveBalance, EffectiveAvailable, EffectiveSpent, Transfers!mvars

(* What an account shows, from what is under way there.                    *)
LEMMA EffectiveAt ==
  ASSUME NEW a \in Accounts
  PROVE  /\ EffectiveBalance[a] = account[a].balance + SumOver(Uncredited, To, a)
                                    - SumOver(Committed \ debits, From, a)
         /\ EffectiveAvailable[a] = account[a].available + SumOver(Uncredited, To, a)
                                      + SumOver(Pending, From, a)
         /\ EffectiveSpent[a] = account[a].spent - SumOver(Pending, From, a)
BY DEF EffectiveBalance, EffectiveAvailable, EffectiveSpent

LEMMA EffectiveNext ==
  ASSUME NEW a \in Accounts
  PROVE  /\ EffectiveBalance'[a] = account'[a].balance + SumOver(Uncredited', To, a)
                                    - SumOver(Committed' \ debits', From, a)
         /\ EffectiveAvailable'[a] = account'[a].available + SumOver(Uncredited', To, a)
                                      + SumOver(Pending', From, a)
         /\ EffectiveSpent'[a] = account'[a].spent - SumOver(Pending', From, a)
BY DEF EffectiveBalance, EffectiveAvailable, EffectiveSpent

(* The reservation of p is taken off and added to what is under way.       *)
LEMMA PendingMore ==
  ASSUME NEW p \in Payments \ Pending, Pending' = Pending \cup {p}, NEW a
  PROVE  SumOver(Pending', From, a) = SumOver(Pending, From, a) + Share(p, From, a)
<1>1. PICK S \in SUBSET Payments : S = Pending BY DEF Pending, Outgoing
<1>2. PICK T : T = Pending' OBVIOUS
<1>3. p \in Payments \ S /\ T = S \cup {p} BY <1>1, <1>2
<1>4. SumOver(T, From, a) = SumOver(S, From, a) + Share(p, From, a) BY <1>3, SumOverMore
<1> QED BY <1>1, <1>2, <1>4

LEMMA PendingLess ==
  ASSUME NEW p \in Payments \ Pending', Pending = Pending' \cup {p}, NEW a
  PROVE  SumOver(Pending, From, a) = SumOver(Pending', From, a) + Share(p, From, a)
<1>1. PICK S \in SUBSET Payments : S = Pending' BY DEF Pending, Outgoing
<1>2. PICK T : T = Pending OBVIOUS
<1>3. p \in Payments \ S /\ T = S \cup {p} BY <1>1, <1>2
<1>4. SumOver(T, From, a) = SumOver(S, From, a) + Share(p, From, a) BY <1>3, SumOverMore
<1> QED BY <1>1, <1>2, <1>4

LEMMA ReserveUnseen ==
  ASSUME TypeOK, OneWay, NothingLeftBehind, NEW p \in Payments, Reserve(p)
  PROVE  UNCHANGED Transfers!mvars
<1>1. /\ p \in Outgoing /\ pc[p] = "idle" /\ pc'[p] = "newTx"
      /\ account' = Move(account, From[p], 0, -Amount[p], Amount[p])
      /\ UNCHANGED <<row, credits, debits>>
      /\ \A q \in Payments : q # p => pc'[q] = pc[q]
  BY DEF Reserve, Goes, NothingLeftBehind, TypeOK, history
<1>2. row[p] # "COMMITTED" BY <1>1 DEF OneWay, OneWayAt
<1>3. /\ Committed' = Committed /\ Uncredited' = Uncredited /\ Done' = Done
      /\ Committed' \ debits' = Committed \ debits
  BY <1>1, <1>2 DEF Committed, Uncredited, Done, Outgoing, Local
<1>4. p \in Payments \ Pending /\ Pending' = Pending \cup {p}
  BY <1>1, <1>2, <1>3 DEF Pending, Committed, Reserved, Waiting, Outgoing
<1>5. ASSUME NEW a \in Accounts
      PROVE  /\ EffectiveBalance'[a] = EffectiveBalance[a]
             /\ EffectiveAvailable'[a] = EffectiveAvailable[a]
             /\ EffectiveSpent'[a] = EffectiveSpent[a]
  <2>1. /\ SumOver(Pending', From, a) = SumOver(Pending, From, a) + Share(p, From, a)
        /\ Share(p, From, a) \in Nat
    BY <1>4, PendingMore, ShareIs
  <2>2. /\ account'[a].balance = account[a].balance
        /\ account'[a].available = account[a].available - Share(p, From, a)
        /\ account'[a].spent = account[a].spent + Share(p, From, a)
    BY <1>1 DEF Move, OneWay, TypeOK, Share
  <2>3. /\ SumOver(Uncredited', To, a) = SumOver(Uncredited, To, a)
        /\ SumOver(Committed' \ debits', From, a) = SumOver(Committed \ debits, From, a)
    BY <1>3
  <2>4. /\ EffectiveBalance'[a] = account[a].balance + SumOver(Uncredited, To, a)
                                    - SumOver(Committed \ debits, From, a)
        /\ EffectiveAvailable'[a] = account'[a].available + SumOver(Uncredited, To, a)
                                      + SumOver(Pending', From, a)
        /\ EffectiveSpent'[a] = account'[a].spent - SumOver(Pending', From, a)
    BY <2>2, <2>3, EffectiveNext
  <2>5. /\ account[a].balance \in Int /\ account[a].available \in Int
        /\ account[a].spent \in Int
    BY Integral
  <2>6. /\ SumOver(Uncredited, To, a) \in Nat
        /\ SumOver(Committed \ debits, From, a) \in Nat
        /\ SumOver(Pending, From, a) \in Nat
    BY UnderWay
  <2>7. /\ EffectiveBalance[a] = account[a].balance + SumOver(Uncredited, To, a)
                                   - SumOver(Committed \ debits, From, a)
        /\ EffectiveAvailable[a] = account[a].available + SumOver(Uncredited, To, a)
                                      + SumOver(Pending, From, a)
        /\ EffectiveSpent[a] = account[a].spent - SumOver(Pending, From, a)
    BY EffectiveAt
  <2>8. EffectiveBalance'[a] = EffectiveBalance[a] BY <2>4, <2>7
  <2>9. EffectiveAvailable'[a] = EffectiveAvailable[a]
    BY <2>1, <2>2, <2>4, <2>5, <2>6, <2>7
  <2>10. EffectiveSpent'[a] = EffectiveSpent[a]
    BY <2>1, <2>2, <2>4, <2>5, <2>6, <2>7
  <2> QED BY <2>8, <2>9, <2>10
<1> QED BY <1>3, <1>5, Balanced

LEMMA ReleaseUnseen ==
  ASSUME TypeOK, OneWay, NothingLeftBehind, NEW p \in Payments, ReleaseReservation(p)
  PROVE  UNCHANGED Transfers!mvars
<1>1. /\ pc[p] = "release" /\ pc'[p] = "failed"
      /\ account' = Move(account, From[p], 0, Amount[p], -Amount[p])
      /\ UNCHANGED <<row, credits, debits>>
      /\ \A q \in Payments : q # p => pc'[q] = pc[q]
  BY DEF ReleaseReservation, Goes, NothingLeftBehind, TypeOK, history
<1>2. row[p] # "COMMITTED" /\ p \in Outgoing BY <1>1 DEF OneWay, OneWayAt, Reserved
<1>3. /\ Committed' = Committed /\ Uncredited' = Uncredited /\ Done' = Done
      /\ Committed' \ debits' = Committed \ debits
  BY <1>1, <1>2 DEF Committed, Uncredited, Done, Outgoing, Local
<1>4. p \in Payments \ Pending' /\ Pending = Pending' \cup {p}
  BY <1>1, <1>2, <1>3 DEF Pending, Committed, Reserved, Waiting, Outgoing
<1>5. ASSUME NEW a \in Accounts
      PROVE  /\ EffectiveBalance'[a] = EffectiveBalance[a]
             /\ EffectiveAvailable'[a] = EffectiveAvailable[a]
             /\ EffectiveSpent'[a] = EffectiveSpent[a]
  <2>1. /\ SumOver(Pending, From, a) = SumOver(Pending', From, a) + Share(p, From, a)
        /\ SumOver(Pending', From, a) \in Nat /\ Share(p, From, a) \in Nat
    <3>1. Pending' \in SUBSET Payments BY DEF Pending, Outgoing
    <3> QED BY <1>4, <3>1, PendingLess, ShareIs, SumOverIn
  <2>2. /\ account'[a].balance = account[a].balance
        /\ account'[a].available = account[a].available + Share(p, From, a)
        /\ account'[a].spent = account[a].spent - Share(p, From, a)
    BY <1>1 DEF Move, OneWay, TypeOK, Share
  <2>3. /\ SumOver(Uncredited', To, a) = SumOver(Uncredited, To, a)
        /\ SumOver(Committed' \ debits', From, a) = SumOver(Committed \ debits, From, a)
    BY <1>3
  <2>4. /\ EffectiveBalance'[a] = account[a].balance + SumOver(Uncredited, To, a)
                                    - SumOver(Committed \ debits, From, a)
        /\ EffectiveAvailable'[a] = account'[a].available + SumOver(Uncredited, To, a)
                                      + SumOver(Pending', From, a)
        /\ EffectiveSpent'[a] = account'[a].spent - SumOver(Pending', From, a)
    BY <2>2, <2>3, EffectiveNext
  <2>5. /\ account[a].balance \in Int /\ account[a].available \in Int
        /\ account[a].spent \in Int
    BY Integral
  <2>6. /\ SumOver(Uncredited, To, a) \in Nat
        /\ SumOver(Committed \ debits, From, a) \in Nat
        /\ SumOver(Pending, From, a) \in Nat
    BY UnderWay
  <2>7. /\ EffectiveBalance[a] = account[a].balance + SumOver(Uncredited, To, a)
                                   - SumOver(Committed \ debits, From, a)
        /\ EffectiveAvailable[a] = account[a].available + SumOver(Uncredited, To, a)
                                      + SumOver(Pending, From, a)
        /\ EffectiveSpent[a] = account[a].spent - SumOver(Pending, From, a)
    BY EffectiveAt
  <2>8. EffectiveBalance'[a] = EffectiveBalance[a] BY <2>4, <2>7
  <2>9. EffectiveAvailable'[a] = EffectiveAvailable[a]
    BY <2>1, <2>2, <2>4, <2>5, <2>6, <2>7
  <2>10. EffectiveSpent'[a] = EffectiveSpent[a]
    BY <2>1, <2>2, <2>4, <2>5, <2>6, <2>7
  <2> QED BY <2>8, <2>9, <2>10
<1> QED BY <1>3, <1>5, Balanced

(* The account at one end of a payment that is booked at its own time.     *)
LEMMA DebitUnseen ==
  ASSUME TypeOK, TwoPhase, OneWay, NEW p \in Payments, ApplyDebit(p)
  PROVE  UNCHANGED Transfers!mvars
<1>1. /\ pc[p] = "debit" /\ UNCHANGED <<row, credits, open>>
      /\ \A q \in Payments : q # p => pc'[q] = pc[q]
      /\ \/ /\ pc'[p] = "record" /\ account' = Move(account, From[p], -Amount[p], 0, 0)
            /\ debits' = debits \cup {p}
         \/ pc'[p] = "failed" /\ UNCHANGED <<account, debits>>
  BY DEF ApplyDebit, Goes, TypeOK
<1>2. row[p] = "COMMITTED" /\ p \notin debits
  BY <1>1 DEF TwoPhase, DebtorNeverRollsBack
<1>3. p \in Outgoing BY <1>1 DEF OneWay, OneWayAt, Reserved
<1>4. /\ Committed' = Committed /\ Uncredited' = Uncredited /\ Done' = Done
      /\ Pending' = Pending /\ p \in Committed
  BY <1>1, <1>2, <1>3 DEF Committed, Uncredited, Done, Pending, Outgoing, Local
<1>5. CASE pc'[p] = "failed" /\ UNCHANGED <<account, debits>>
  BY <1>4, <1>5 DEF EffectiveBalance, EffectiveAvailable, EffectiveSpent, Transfers!mvars
<1>6. CASE /\ account' = Move(account, From[p], -Amount[p], 0, 0)
           /\ debits' = debits \cup {p}
  <2>1. PICK S \in SUBSET Payments : S = Committed' \ debits'
    BY DEF Committed, Outgoing
  <2>2. PICK T : T = Committed \ debits
    OBVIOUS
  <2>3. p \in Payments \ S /\ T = S \cup {p}
    BY <1>2, <1>4, <1>6, <2>1, <2>2
  <2>4. ASSUME NEW a \in Accounts
        PROVE  /\ EffectiveBalance'[a] = EffectiveBalance[a]
               /\ EffectiveAvailable'[a] = EffectiveAvailable[a]
               /\ EffectiveSpent'[a] = EffectiveSpent[a]
    <3>1. /\ SumOver(T, From, a) = SumOver(S, From, a) + Share(p, From, a)
          /\ SumOver(S, From, a) \in Nat /\ Share(p, From, a) \in Nat
      BY <2>3, SumOverMore, ShareIs, SumOverIn
    <3>2. /\ account'[a].balance = account[a].balance - Share(p, From, a)
          /\ account'[a].available = account[a].available
          /\ account'[a].spent = account[a].spent
      BY <1>6 DEF Move, OneWay, TypeOK, Share
    <3>3. /\ EffectiveBalance'[a] = account'[a].balance + SumOver(Uncredited, To, a)
                                      - SumOver(S, From, a)
          /\ EffectiveAvailable'[a] = account[a].available + SumOver(Uncredited, To, a)
                                        + SumOver(Pending, From, a)
          /\ EffectiveSpent'[a] = account[a].spent - SumOver(Pending, From, a)
      BY <1>4, <2>1, <3>2, EffectiveNext
    <3>4. /\ EffectiveBalance[a] = account[a].balance + SumOver(Uncredited, To, a)
                                     - SumOver(T, From, a)
          /\ EffectiveAvailable[a] = account[a].available + SumOver(Uncredited, To, a)
                                       + SumOver(Pending, From, a)
          /\ EffectiveSpent[a] = account[a].spent - SumOver(Pending, From, a)
      BY <2>2, EffectiveAt
    <3>5. account[a].balance \in Int
      BY Integral
    <3>6. SumOver(Uncredited, To, a) \in Nat
      BY UnderWay
    <3>7. EffectiveBalance'[a] = EffectiveBalance[a]
      BY <3>1, <3>2, <3>3, <3>4, <3>5, <3>6
    <3> QED BY <3>3, <3>4, <3>7
  <2> QED BY <1>4, <2>4, Balanced
<1> QED BY <1>1, <1>5, <1>6

LEMMA CreditUnseen ==
  ASSUME TypeOK, TwoPhase, OneWay, NEW r \in Requests, CreditReceiver(r)
  PROVE  UNCHANGED Transfers!mvars
<1>1. PICK p \in Payments : p = r[1]
  BY RequestParts
<1>2. /\ handler[r] = "credit" /\ r[2] = "COMMIT_TX" /\ UNCHANGED <<row, debits, pc>>
      /\ account' = Move(account, To[p], Amount[p], Amount[p], 0)
      /\ credits' = [credits EXCEPT ![p] = @ + 1]
  BY <1>1 DEF CreditReceiver, Handles, OthersUnchanged
<1>3. credits[p] = 0
  BY <1>1, <1>2 DEF TwoPhase, ClaimedOnce
<1>4. CommitSent(p)
  BY <1>1, <1>2, SentIs
<1>5. p \in Outgoing /\ ~RollbackSent(p)
  BY <1>4 DEF OneWay, OneWayAt
<1>6. row[p] = "COMMITTED"
  <2>1. PICK n \in Attempts : r = <<p, "COMMIT_TX", n>>
    BY <1>1, <1>2, RequestParts
  <2>2. handler[<<p, "COMMIT_TX", n>>] = "credit"
    BY <1>2, <2>1
  <2> QED BY <1>5, <2>2 DEF TwoPhase, NoRollbackYet
<1>7. /\ Committed' = Committed /\ Pending' = Pending /\ Done' = Done
      /\ Committed' \ debits' = Committed \ debits
  BY <1>2 DEF Committed, Pending, Done
<1>8. \A q \in Payments : q # p => credits'[q] = credits[q]
  BY <1>2 DEF TypeOK
<1>9. credits'[p] # 0
  BY <1>2, <1>3 DEF TypeOK
<1>10. PICK S \in SUBSET Payments : S = Uncredited'
  BY DEF Uncredited, Committed, Outgoing
<1>11. PICK T : T = Uncredited
  OBVIOUS
<1>12. p \in Payments \ S /\ T = S \cup {p}
  BY <1>3, <1>5, <1>6, <1>7, <1>8, <1>9, <1>10, <1>11 DEF Uncredited, Committed, Outgoing
<1>13. ASSUME NEW a \in Accounts
       PROVE  /\ EffectiveBalance'[a] = EffectiveBalance[a]
              /\ EffectiveAvailable'[a] = EffectiveAvailable[a]
              /\ EffectiveSpent'[a] = EffectiveSpent[a]
  <2>1. /\ SumOver(T, To, a) = SumOver(S, To, a) + Share(p, To, a)
        /\ SumOver(S, To, a) \in Nat /\ Share(p, To, a) \in Nat
    BY <1>12, SumOverMore, ShareIs, SumOverIn
  <2>2. /\ account'[a].balance = account[a].balance + Share(p, To, a)
        /\ account'[a].available = account[a].available + Share(p, To, a)
        /\ account'[a].spent = account[a].spent
    BY <1>2 DEF Move, OneWay, TypeOK, Share
  <2>3. /\ EffectiveBalance'[a] = account'[a].balance + SumOver(S, To, a)
                                    - SumOver(Committed \ debits, From, a)
        /\ EffectiveAvailable'[a] = account'[a].available + SumOver(S, To, a)
                                      + SumOver(Pending, From, a)
        /\ EffectiveSpent'[a] = account[a].spent - SumOver(Pending, From, a)
    BY <1>7, <1>10, <2>2, EffectiveNext
  <2>4. /\ EffectiveBalance[a] = account[a].balance + SumOver(T, To, a)
                                   - SumOver(Committed \ debits, From, a)
        /\ EffectiveAvailable[a] = account[a].available + SumOver(T, To, a)
                                     + SumOver(Pending, From, a)
        /\ EffectiveSpent[a] = account[a].spent - SumOver(Pending, From, a)
    BY <1>11, EffectiveAt
  <2>5. account[a].balance \in Int /\ account[a].available \in Int
    BY Integral
  <2>6. SumOver(Committed \ debits, From, a) \in Nat /\ SumOver(Pending, From, a) \in Nat
    BY UnderWay
  <2>7. EffectiveBalance'[a] = EffectiveBalance[a]
    BY <2>1, <2>2, <2>3, <2>4, <2>5, <2>6
  <2>8. EffectiveAvailable'[a] = EffectiveAvailable[a]
    BY <2>1, <2>2, <2>3, <2>4, <2>5, <2>6
  <2> QED BY <2>3, <2>4, <2>7, <2>8
<1> QED BY <1>7, <1>13, Balanced

(* A payment seen account by account.                                      *)
LEMMA PaysAt ==
  ASSUME TypeOK, NEW p \in Payments, p \notin Done, Done' = Done \cup {p},
         EffectiveAvailable[From[p]] >= Amount[p],
         Kind[p] # "transfer" => EffectiveSpent[From[p]] + Amount[p] <= Limit[From[p]],
         \A a \in Accounts :
           /\ EffectiveBalance'[a] = EffectiveBalance[a] + Transfers!Gain(p, a)
           /\ EffectiveAvailable'[a] = EffectiveAvailable[a] + Transfers!Gain(p, a)
           /\ Kind[p] # "transfer" /\ a = From[p] =>
                EffectiveSpent'[a] = EffectiveSpent[a] + Amount[p]
           /\ Kind[p] = "transfer" \/ a # From[p] => EffectiveSpent'[a] = EffectiveSpent[a]
  PROVE  Transfers!Pay(p)
<1>1. EffectiveBalance' = [a \in Accounts |-> EffectiveBalance[a] + Transfers!Gain(p, a)]
  BY DEF EffectiveBalance
<1>2. EffectiveAvailable' = [a \in Accounts |-> EffectiveAvailable[a] + Transfers!Gain(p, a)]
  BY DEF EffectiveAvailable
<1>3. EffectiveSpent' = IF Kind[p] = "transfer" THEN EffectiveSpent
                        ELSE [EffectiveSpent EXCEPT ![From[p]] = @ + Amount[p]]
  <2>1. /\ EffectiveSpent = [a \in Accounts |-> EffectiveSpent[a]]
        /\ EffectiveSpent' = [a \in Accounts |-> EffectiveSpent'[a]]
    BY DEF EffectiveSpent
  <2>2. CASE Kind[p] = "transfer"
    BY <2>1, <2>2
  <2>3. CASE Kind[p] # "transfer"
    BY <2>1, <2>3
  <2> QED BY <2>2, <2>3
<1> QED BY <1>1, <1>2, <1>3 DEF Transfers!Pay

(* What Gain means for a payment to another bank.                          *)
LEMMA GainAbroad ==
  ASSUME NEW p \in Outgoing, NEW a \in Accounts
  PROVE  Transfers!Gain(p, a) = Share(p, To, a) - Share(p, From, a)
<1>1. p \in Payments /\ Kind[p] = "interbank" /\ From[p] # To[p] /\ Amount[p] \in Nat
  BY DEF Outgoing
<1>2. ~Transfers!Converted(p) BY <1>1 DEF Transfers!Converted
<1> QED BY <1>1, <1>2 DEF Transfers!Gain, Share

(* The claim of the row is the step in which the money changes hands.      *)
LEMMA ClaimPays ==
  ASSUME TypeOK, TwoPhase, OneWay, NeverOverdrawn, NEW r \in Requests, Claim(r)
  PROVE  [Transfers!MNext]_(Transfers!mvars)
<1>1. PICK p \in Payments : p = r[1]
  BY RequestParts
<1>2. /\ handler[r] = "claim" /\ r[2] = "COMMIT_TX"
      /\ UNCHANGED <<account, credits, debits, pc>>
  BY <1>1 DEF Claim, Handles, OthersUnchanged
<1>3. CASE UNCHANGED row
  BY <1>2, <1>3, Unseen
<1>4. CASE row[p] = "PENDING" /\ row' = [row EXCEPT ![p] = "COMMITTED"]
  <2>1. CommitSent(p)
    BY <1>1, <1>2, SentIs
  <2>2. p \in Outgoing /\ pc[p] = "commitTx"
    BY <1>4, <2>1 DEF OneWay, OneWayAt, TwoPhase, DebtorNeverRollsBack
  <2>3. p \notin debits /\ credits[p] = 0
    BY <1>4, <2>2 DEF TwoPhase, DebtorNeverRollsBack, ClaimedOnce
  <2>4. row'[p] = "COMMITTED" /\ \A q \in Payments : q # p => row'[q] = row[q]
    BY <1>4 DEF TypeOK
  <2>5. p \notin Committed /\ Committed' = Committed \cup {p}
    BY <1>4, <2>2, <2>4 DEF Committed, Outgoing
  <2>6. p \notin Done /\ Done' = Done \cup {p}
    BY <1>2, <2>2, <2>5 DEF Done, Local
  <2>7. p \in Payments \ Pending' /\ Pending = Pending' \cup {p}
    BY <1>2, <2>2, <2>5 DEF Pending, Reserved, Waiting, Outgoing
  <2>8. p \in Payments \ Uncredited /\ Uncredited' = Uncredited \cup {p}
    BY <1>2, <2>3, <2>5 DEF Uncredited
  <2>9. /\ p \in Payments \ (Committed \ debits)
        /\ Committed' \ debits' = (Committed \ debits) \cup {p}
    BY <1>2, <2>3, <2>5
  <2>10. PICK U \in SUBSET Payments : U = Uncredited
    BY DEF Uncredited, Committed, Outgoing
  <2>11. PICK V : V = Uncredited'
    OBVIOUS
  <2>12. PICK D \in SUBSET Payments : D = Committed \ debits
    BY DEF Committed, Outgoing
  <2>13. PICK E : E = Committed' \ debits'
    OBVIOUS
  <2>14. PICK P \in SUBSET Payments : P = Pending'
    BY DEF Pending, Outgoing
  <2>15. PICK Q : Q = Pending
    OBVIOUS
  <2>16. /\ p \in Payments \ U /\ V = U \cup {p}
         /\ p \in Payments \ D /\ E = D \cup {p}
         /\ p \in Payments \ P /\ Q = P \cup {p}
    BY <2>7, <2>8, <2>9, <2>10, <2>11, <2>12, <2>13, <2>14, <2>15
  <2>17. ASSUME NEW a \in Accounts
         PROVE  /\ EffectiveBalance'[a] = EffectiveBalance[a] + Transfers!Gain(p, a)
                /\ EffectiveAvailable'[a] = EffectiveAvailable[a] + Transfers!Gain(p, a)
                /\ EffectiveSpent'[a] = EffectiveSpent[a] + Share(p, From, a)
                /\ EffectiveAvailable[a] >= account[a].available + Share(p, From, a)
                /\ EffectiveSpent[a] + Share(p, From, a) <= account[a].spent
    <3>1. SumOver(V, To, a) = SumOver(U, To, a) + Share(p, To, a)
      BY <2>16, SumOverMore
    <3>2. SumOver(E, From, a) = SumOver(D, From, a) + Share(p, From, a)
      BY <2>16, SumOverMore
    <3>3. SumOver(Q, From, a) = SumOver(P, From, a) + Share(p, From, a)
      BY <2>16, SumOverMore
    <3>4. /\ SumOver(U, To, a) \in Nat /\ SumOver(D, From, a) \in Nat
          /\ SumOver(P, From, a) \in Nat
      BY SumOverIn
    <3>5. Share(p, To, a) \in Nat /\ Share(p, From, a) \in Nat
      BY ShareIs
    <3>6. /\ account[a].balance \in Int /\ account[a].available \in Int
          /\ account[a].spent \in Int
      BY Integral
    <3>7. /\ EffectiveBalance'[a] = account[a].balance + SumOver(V, To, a)
                                      - SumOver(E, From, a)
          /\ EffectiveAvailable'[a] = account[a].available + SumOver(V, To, a)
                                        + SumOver(P, From, a)
          /\ EffectiveSpent'[a] = account[a].spent - SumOver(P, From, a)
      BY <1>2, <2>11, <2>13, <2>14, EffectiveNext
    <3>8. /\ EffectiveBalance[a] = account[a].balance + SumOver(U, To, a)
                                     - SumOver(D, From, a)
          /\ EffectiveAvailable[a] = account[a].available + SumOver(U, To, a)
                                       + SumOver(Q, From, a)
          /\ EffectiveSpent[a] = account[a].spent - SumOver(Q, From, a)
      BY <2>10, <2>12, <2>15, EffectiveAt
    <3>9. Transfers!Gain(p, a) = Share(p, To, a) - Share(p, From, a)
      BY <2>2, GainAbroad
    <3>10. EffectiveBalance'[a] = EffectiveBalance[a] + Transfers!Gain(p, a)
      BY <3>1, <3>2, <3>4, <3>5, <3>6, <3>7, <3>8, <3>9
    <3>11. EffectiveAvailable'[a] = EffectiveAvailable[a] + Transfers!Gain(p, a)
      BY <3>1, <3>3, <3>4, <3>5, <3>6, <3>7, <3>8, <3>9
    <3>12. EffectiveSpent'[a] = EffectiveSpent[a] + Share(p, From, a)
      BY <3>3, <3>4, <3>5, <3>6, <3>7, <3>8
    <3>13. EffectiveAvailable[a] >= account[a].available + Share(p, From, a)
      BY <3>3, <3>4, <3>5, <3>6, <3>8
    <3>14. EffectiveSpent[a] + Share(p, From, a) <= account[a].spent
      BY <3>3, <3>4, <3>5, <3>6, <3>8
    <3> QED BY <3>10, <3>11, <3>12, <3>13, <3>14
  <2>18. PICK f \in Accounts \ BankAccounts : f = From[p]
    OBVIOUS
  <2>19. /\ Share(p, From, f) = Amount[p] /\ Amount[p] \in Nat
         /\ \A a \in Accounts : a # f => Share(p, From, a) = 0
    BY <2>18 DEF Share
  <2>20. /\ 0 <= account[f].available /\ account[f].spent <= Limit[f]
         /\ account[f].available \in Int /\ account[f].spent \in Int /\ Limit[f] \in Nat
    BY Integral DEF NeverOverdrawn
  <2>21. /\ EffectiveAvailable[f] \in Int /\ EffectiveSpent[f] \in Int
         /\ \A a \in Accounts : EffectiveSpent[a] \in Int
    <3>1. ASSUME NEW a \in Accounts
          PROVE  EffectiveAvailable[a] \in Int /\ EffectiveSpent[a] \in Int
      <4>1. SumOver(U, To, a) \in Nat BY SumOverIn
      <4>2. /\ SumOver(Q, From, a) = SumOver(P, From, a) + Share(p, From, a)
            /\ SumOver(P, From, a) \in Nat /\ Share(p, From, a) \in Nat
        BY <2>16, SumOverMore, SumOverIn, ShareIs
      <4>3. account[a].available \in Int /\ account[a].spent \in Int BY Integral
      <4>4. /\ EffectiveAvailable[a] = account[a].available + SumOver(U, To, a)
                                       + SumOver(Q, From, a)
            /\ EffectiveSpent[a] = account[a].spent - SumOver(Q, From, a)
        BY <2>10, <2>15, EffectiveAt
      <4> QED BY <4>1, <4>2, <4>3, <4>4
    <3> QED BY <3>1, <2>18
  <2>22. EffectiveAvailable[f] >= Amount[p]
    BY <2>17, <2>18, <2>19, <2>20, <2>21
  <2>23. EffectiveSpent[f] + Amount[p] <= Limit[f]
    BY <2>17, <2>18, <2>19, <2>20, <2>21
  <2>24. Kind[p] # "transfer"
    BY <2>2 DEF Outgoing
  <2>25. \A a \in Accounts :
           /\ a = f => EffectiveSpent'[a] = EffectiveSpent[a] + Amount[p]
           /\ a # f => EffectiveSpent'[a] = EffectiveSpent[a]
    BY <2>17, <2>19, <2>21
  <2>26. Transfers!Pay(p)
    BY <2>6, <2>17, <2>18, <2>22, <2>23, <2>24, <2>25, PaysAt
  <2> QED BY <2>26 DEF Transfers!MNext
<1> QED BY <1>1, <1>3, <1>4 DEF Claim

(* Move when every account exists.                                         *)
LEMMA MoveOpen ==
  ASSUME NEW acc \in AccountTable, NEW b \in Accounts, b \in open,
         NEW v \in Int, NEW s \in Int, NEW a \in Accounts
  PROVE  /\ Move(acc, b, v, v, s)[a].balance = acc[a].balance + IF a = b THEN v ELSE 0
         /\ Move(acc, b, v, v, s)[a].available = acc[a].available + IF a = b THEN v ELSE 0
         /\ Move(acc, b, v, v, s)[a].spent = acc[a].spent + IF a = b THEN s ELSE 0
<1>1. acc[a].balance \in Int /\ acc[a].available \in Int /\ acc[a].spent \in Int
  BY DEF AccountTable
<1>2. CASE a = b
  BY <1>1, <1>2 DEF Move, AccountTable
<1>3. CASE a # b
  <2>1. Move(acc, b, v, v, s)[a] = acc[a] BY <1>3 DEF Move, AccountTable
  <2> QED BY <1>1, <1>3, <2>1
<1> QED BY <1>2, <1>3

(* A payment inside the bank moves Gain, at every account.                 *)
LEMMA PaidIs ==
  ASSUME TypeOK, OneWay, NEW p \in Payments, pc[p] = "direct", NEW a \in Accounts
  PROVE  /\ Paid(p)[a].balance = account[a].balance + Transfers!Gain(p, a)
         /\ Paid(p)[a].available = account[a].available + Transfers!Gain(p, a)
         /\ Paid(p)[a].spent = account[a].spent
              + IF a = From[p] /\ Kind[p] = "payment" THEN Amount[p] ELSE 0
<1>0. /\ account \in AccountTable /\ From[p] \in Accounts /\ To[p] \in Accounts
      /\ ViaFrom[p] \in Accounts /\ ViaTo[p] \in Accounts /\ open = Accounts
      /\ 0 \in Int
  BY DEF TypeOK, AccountTable, OneWay
<1>1. PICK v \in Int : v = Amount[p]
  OBVIOUS
<1>2. PICK m \in Int : m = -Amount[p]
  OBVIOUS
<1>3. PICK w \in Int : w = Final[p]
  OBVIOUS
<1>4. PICK k \in Int : k = -Final[p]
  OBVIOUS
<1>5. PICK spent \in Int : spent = IF Kind[p] = "payment" THEN Amount[p] ELSE 0
  OBVIOUS
<1>6. PICK debited : debited = Move(account, From[p], m, m, spent)
  OBVIOUS
<1>7. PICK atBank : atBank = Move(debited, ViaFrom[p], v, v, 0)
  OBVIOUS
<1>8. PICK direct : direct = Move(debited, To[p], v, v, 0)
  OBVIOUS
<1>9. PICK through : through = Move(atBank, ViaTo[p], k, k, 0)
  OBVIOUS
<1>10. PICK converted : converted = Move(through, To[p], w, w, 0)
  OBVIOUS
<1>11. Paid(p) = IF p \in Acceptable THEN direct ELSE converted
  BY <1>1, <1>2, <1>3, <1>4, <1>5, <1>6, <1>7, <1>8, <1>9, <1>10 DEF Paid
<1>12. Kind[p] # "interbank"
  BY DEF OneWay, OneWayAt, Local, Outgoing
<1>13. Transfers!Converted(p) <=> p \notin Acceptable
  BY <1>12 DEF Transfers!Converted
<1>14. debited \in AccountTable
  BY <1>0, <1>2, <1>5, <1>6, MoveType
<1>15. atBank \in AccountTable
  BY <1>0, <1>1, <1>7, <1>14, MoveType
<1>16. through \in AccountTable
  BY <1>0, <1>4, <1>9, <1>15, MoveType
<1>17. /\ account[a].balance \in Int /\ account[a].available \in Int
       /\ account[a].spent \in Int
       /\ debited[a].balance \in Int /\ debited[a].available \in Int
       /\ debited[a].spent \in Int
       /\ atBank[a].balance \in Int /\ atBank[a].available \in Int
       /\ atBank[a].spent \in Int
       /\ through[a].balance \in Int /\ through[a].available \in Int
       /\ through[a].spent \in Int
  BY <1>0, <1>14, <1>15, <1>16 DEF AccountTable
<1>18. /\ debited[a].balance = account[a].balance + IF a = From[p] THEN m ELSE 0
       /\ debited[a].available = account[a].available + IF a = From[p] THEN m ELSE 0
       /\ debited[a].spent = account[a].spent + IF a = From[p] THEN spent ELSE 0
  BY <1>0, <1>6, MoveOpen
<1>19. CASE p \in Acceptable
  <2>1. /\ direct[a].balance = debited[a].balance + IF a = To[p] THEN v ELSE 0
        /\ direct[a].available = debited[a].available + IF a = To[p] THEN v ELSE 0
        /\ direct[a].spent = debited[a].spent + IF a = To[p] THEN 0 ELSE 0
    BY <1>0, <1>8, <1>14, MoveOpen
  <2>2. Transfers!Gain(p, a)
          = (IF a = From[p] THEN m ELSE 0) + (IF a = To[p] THEN v ELSE 0)
    BY <1>1, <1>2, <1>13, <1>19 DEF Transfers!Gain
  <2>3. Paid(p)[a] = direct[a] BY <1>11, <1>19
  <2>4. direct[a].balance = account[a].balance + Transfers!Gain(p, a)
    BY <1>17, <1>18, <2>1, <2>2
  <2>5. direct[a].available = account[a].available + Transfers!Gain(p, a)
    BY <1>17, <1>18, <2>1, <2>2
  <2>6. direct[a].spent = account[a].spent
          + IF a = From[p] /\ Kind[p] = "payment" THEN Amount[p] ELSE 0
    BY <1>5, <1>17, <1>18, <2>1
  <2> QED BY <2>3, <2>4, <2>5, <2>6
<1>20. CASE p \notin Acceptable
  <2>1. /\ atBank[a].balance = debited[a].balance + IF a = ViaFrom[p] THEN v ELSE 0
        /\ atBank[a].available = debited[a].available + IF a = ViaFrom[p] THEN v ELSE 0
        /\ atBank[a].spent = debited[a].spent + IF a = ViaFrom[p] THEN 0 ELSE 0
    BY <1>0, <1>7, <1>14, MoveOpen
  <2>2. /\ through[a].balance = atBank[a].balance + IF a = ViaTo[p] THEN k ELSE 0
        /\ through[a].available = atBank[a].available + IF a = ViaTo[p] THEN k ELSE 0
        /\ through[a].spent = atBank[a].spent + IF a = ViaTo[p] THEN 0 ELSE 0
    BY <1>0, <1>9, <1>15, MoveOpen
  <2>3. /\ converted[a].balance = through[a].balance + IF a = To[p] THEN w ELSE 0
        /\ converted[a].available = through[a].available + IF a = To[p] THEN w ELSE 0
        /\ converted[a].spent = through[a].spent + IF a = To[p] THEN 0 ELSE 0
    BY <1>0, <1>10, <1>16, MoveOpen
  <2>4. Transfers!Gain(p, a)
          = (IF a = From[p] THEN m ELSE 0)
            + ((IF a = ViaFrom[p] THEN v ELSE 0) + (IF a = ViaTo[p] THEN k ELSE 0)
               + (IF a = To[p] THEN w ELSE 0))
    BY <1>1, <1>2, <1>3, <1>4, <1>13, <1>20 DEF Transfers!Gain
  <2>5. Paid(p)[a] = converted[a] BY <1>11, <1>20
  <2>6. converted[a].balance = account[a].balance + Transfers!Gain(p, a)
    BY <1>17, <1>18, <2>1, <2>2, <2>3, <2>4
  <2>7. converted[a].available = account[a].available + Transfers!Gain(p, a)
    BY <1>17, <1>18, <2>1, <2>2, <2>3, <2>4
  <2>8. converted[a].spent = account[a].spent
          + IF a = From[p] /\ Kind[p] = "payment" THEN Amount[p] ELSE 0
    BY <1>5, <1>17, <1>18, <2>1, <2>2, <2>3
  <2> QED BY <2>5, <2>6, <2>7, <2>8
<1> QED BY <1>19, <1>20

LEMMA TransferPays ==
  ASSUME TypeOK, OneWay, NEW p \in Payments, Transfer(p)
  PROVE  Transfers!Pay(p)
<1>1. /\ pc[p] = "direct" /\ pc'[p] \in {"record", "failed"} /\ p \in Local
      /\ account' = Paid(p) /\ UNCHANGED <<row, credits, debits>>
      /\ \A q \in Payments : q # p => pc'[q] = pc[q]
  BY DEF Transfer, TypeOK, OneWay, OneWayAt, history
<1>2. /\ account[From[p]].available >= Amount[p]
      /\ Kind[p] # "transfer" => account[From[p]].spent + Amount[p] <= Limit[From[p]]
      /\ Kind[p] \in {"payment", "transfer"}
  BY <1>1 DEF Transfer, Covered, WithinLimits, Local, Outgoing
<1>3. /\ Committed' = Committed /\ Uncredited' = Uncredited /\ Pending' = Pending
      /\ Committed' \ debits' = Committed \ debits
  <2>1. Committed' = Committed BY <1>1 DEF Committed
  <2>2. Uncredited' = Uncredited BY <1>1, <2>1 DEF Uncredited
  <2>3. Pending' = Pending BY <1>1, <2>1 DEF Pending, Local, Outgoing
  <2> QED BY <1>1, <2>1, <2>2, <2>3
<1>4. p \notin Done /\ Done' = Done \cup {p}
  BY <1>1, <1>3 DEF Done, Committed, Local
<1>5. ASSUME NEW a \in Accounts
      PROVE  /\ EffectiveBalance'[a] = EffectiveBalance[a] + Transfers!Gain(p, a)
             /\ EffectiveAvailable'[a] = EffectiveAvailable[a] + Transfers!Gain(p, a)
             /\ EffectiveSpent'[a] = EffectiveSpent[a]
                  + IF a = From[p] /\ Kind[p] = "payment" THEN Amount[p] ELSE 0
             /\ EffectiveSpent[a] \in Int
             /\ EffectiveAvailable[a] >= account[a].available
             /\ EffectiveSpent[a] <= account[a].spent /\ EffectiveAvailable[a] \in Int
  <2>1. /\ account'[a].balance = account[a].balance + Transfers!Gain(p, a)
        /\ account'[a].available = account[a].available + Transfers!Gain(p, a)
        /\ account'[a].spent = account[a].spent
             + IF a = From[p] /\ Kind[p] = "payment" THEN Amount[p] ELSE 0
    BY <1>1, PaidIs
  <2>2. Transfers!Gain(p, a) \in Int
    BY DEF Transfers!Gain
  <2>3. account[a].balance \in Int /\ account[a].available \in Int /\ account[a].spent \in Int
    BY Integral
  <2>4. /\ SumOver(Uncredited, To, a) \in Nat /\ SumOver(Pending, From, a) \in Nat
        /\ SumOver(Committed \ debits, From, a) \in Nat
    BY UnderWay
  <2>5. /\ EffectiveBalance'[a] = account'[a].balance + SumOver(Uncredited, To, a)
                                    - SumOver(Committed \ debits, From, a)
        /\ EffectiveAvailable'[a] = account'[a].available + SumOver(Uncredited, To, a)
                                      + SumOver(Pending, From, a)
        /\ EffectiveSpent'[a] = account'[a].spent - SumOver(Pending, From, a)
    BY <1>3, EffectiveNext
  <2>6. /\ EffectiveBalance[a] = account[a].balance + SumOver(Uncredited, To, a)
                                   - SumOver(Committed \ debits, From, a)
        /\ EffectiveAvailable[a] = account[a].available + SumOver(Uncredited, To, a)
                                     + SumOver(Pending, From, a)
        /\ EffectiveSpent[a] = account[a].spent - SumOver(Pending, From, a)
    BY EffectiveAt
  <2>7. EffectiveBalance'[a] = EffectiveBalance[a] + Transfers!Gain(p, a)
    BY <2>1, <2>2, <2>3, <2>4, <2>5, <2>6
  <2>8. EffectiveAvailable'[a] = EffectiveAvailable[a] + Transfers!Gain(p, a)
    BY <2>1, <2>2, <2>3, <2>4, <2>5, <2>6
  <2>9. EffectiveSpent'[a] = EffectiveSpent[a]
          + IF a = From[p] /\ Kind[p] = "payment" THEN Amount[p] ELSE 0
    BY <2>1, <2>3, <2>4, <2>5, <2>6
  <2>10. /\ EffectiveSpent[a] \in Int /\ EffectiveAvailable[a] \in Int
         /\ EffectiveAvailable[a] >= account[a].available
         /\ EffectiveSpent[a] <= account[a].spent
    BY <2>3, <2>4, <2>6
  <2> QED BY <2>7, <2>8, <2>9, <2>10
<1>6. PICK f \in Accounts : f = From[p]
  OBVIOUS
<1>7. /\ account[f].available \in Int /\ account[f].spent \in Int
      /\ Amount[p] \in Nat /\ Limit[f] \in Nat
  BY Integral
<1>8. EffectiveAvailable[f] >= Amount[p]
  BY <1>2, <1>5, <1>6, <1>7
<1>9. Kind[p] # "transfer" => EffectiveSpent[f] + Amount[p] <= Limit[f]
  BY <1>2, <1>5, <1>6, <1>7
<1>10. \A a \in Accounts :
         /\ Kind[p] # "transfer" /\ a = f => EffectiveSpent'[a] = EffectiveSpent[a] + Amount[p]
         /\ Kind[p] = "transfer" \/ a # f => EffectiveSpent'[a] = EffectiveSpent[a]
  BY <1>2, <1>5, <1>6
<1> QED BY <1>4, <1>5, <1>6, <1>8, <1>9, <1>10, PaysAt

(* The other steps of the call, of the partner and of the environment.     *)
LEMMA PayerUnseen ==
  ASSUME TypeOK, OneWay, NEW p \in Payments,
         \/ LookupRecipient(p) \/ Refuse(p) \/ Record(p)
         \/ TakeVote(p) \/ TakeCommitted(p) \/ TakeRolledBack(p)
         \/ AttemptFails(p) \/ RequestFails(p)
  PROVE  UNCHANGED Transfers!mvars
<1> USE DEF Waiting, Reserved
<1>1. /\ UNCHANGED <<account, row, credits, debits>>
      /\ \A q \in Payments : q # p => pc'[q] = pc[q]
  BY DEF LookupRecipient, Refuse, Record, TakeVote, TakeCommitted, TakeRolledBack,
     Next2PC, Goes, AttemptFails, RequestFails, tables, history, TypeOK
<1>2. /\ p \in Outgoing => (pc'[p] \in Reserved <=> pc[p] \in Reserved)
      /\ p \in Local => (pc'[p] \in {"record", "completed", "failed"}
                           <=> pc[p] \in {"record", "completed", "failed"})
  <2>1. pc[p] \in Reserved => p \in Outgoing
    BY DEF OneWay, OneWayAt
  <2>2. CASE LookupRecipient(p)
    <3>1. p \in Local /\ pc[p] = "idle" /\ pc'[p] \in {"direct", "viaBank"}
      BY <2>2 DEF LookupRecipient, Goes, TypeOK
    <3> QED BY <3>1
  <2>3. CASE Refuse(p)
    <3>1. pc[p] \in {"idle", "direct", "viaBank"} /\ pc'[p] = "refused"
      BY <2>3 DEF Refuse, TypeOK
    <3> QED BY <3>1
  <2>4. CASE Record(p)
    <3>1. pc[p] = "record" /\ pc'[p] \in {"completed", "failed"}
      BY <2>4 DEF Record, Goes, TypeOK
    <3> QED BY <3>1
  <2>5. CASE TakeVote(p) \/ TakeCommitted(p) \/ TakeRolledBack(p)
    <3>1. /\ pc[p] \in {"newTx", "commitTx", "rollbackTx"}
          /\ pc'[p] \in {"commitTx", "release", "rollbackTx", "debit"}
      BY <2>5 DEF TakeVote, TakeCommitted, TakeRolledBack, Next2PC, Goes, TypeOK
    <3> QED BY <2>1, <3>1 DEF Local
  <2>6. CASE AttemptFails(p)
    <3>1. UNCHANGED pc BY <2>6 DEF AttemptFails
    <3> QED BY <3>1
  <2>7. CASE RequestFails(p)
    <3>1. pc[p] \in {"newTx", "commitTx", "rollbackTx"} /\ pc'[p] \in {"release", "rollbackTx"}
      BY <2>7 DEF RequestFails, TypeOK
    <3> QED BY <2>1, <3>1 DEF Local
  <2> QED BY <2>2, <2>3, <2>4, <2>5, <2>6, <2>7
<1>3. \A q \in Outgoing : row'[q] = "COMMITTED" <=> row[q] = "COMMITTED"
  BY <1>1
<1>4. \A q \in Outgoing :
        row[q] # "COMMITTED" => (pc'[q] \in Reserved <=> pc[q] \in Reserved)
  <2>1. Outgoing \subseteq Payments BY DEF Outgoing
  <2> QED BY <1>1, <1>2, <2>1
<1>5. \A q \in Local : pc'[q] \in {"record", "completed", "failed"}
                         <=> pc[q] \in {"record", "completed", "failed"}
  <2>1. Local \subseteq Payments BY DEF Local
  <2> QED BY <1>1, <1>2, <2>1
<1> QED BY <1>1, <1>3, <1>4, <1>5, Unseen

LEMMA HandlerUnseen ==
  ASSUME TypeOK, OneWay, NEW r \in Requests, HandlerStep(r) \/ HandlerFails(r),
         ~Claim(r), ~CreditReceiver(r)
  PROVE  UNCHANGED Transfers!mvars
<1>1. UNCHANGED <<account, credits, debits, pc>>
  BY DEF HandlerStep, LookupVote, Validate, InsertInterbankTx, LookupCommit,
     CommitOtcToo, LookupRollback, MarkRolledBack, HandlerFails, OthersUnchanged
<1>2. ASSUME NEW q \in Payments
      PROVE  row'[q] = "COMMITTED" <=> row[q] = "COMMITTED"
  <2>1. CASE UNCHANGED row BY <2>1
  <2>2. CASE InsertInterbankTx(r)
    <3>1. row'[q] = row[q] \/ (row[q] = "none" /\ row'[q] = "PENDING")
      BY <2>2 DEF InsertInterbankTx, TypeOK
    <3> QED BY <3>1
  <2>3. CASE MarkRolledBack(r)
    <3>1. RollbackSent(r[1]) /\ row' = [row EXCEPT ![r[1]] = "ROLLED_BACK"]
      BY <2>3, SentIs DEF MarkRolledBack, Handles
    <3>2. row[r[1]] # "COMMITTED"
      BY <3>1, RequestParts DEF OneWay, OneWayAt
    <3> QED BY <3>1, <3>2 DEF TypeOK
  <2> QED BY <2>1, <2>2, <2>3 DEF HandlerStep, LookupVote, Validate, LookupCommit,
      CommitOtcToo, LookupRollback, HandlerFails
<1> QED BY <1>1, <1>2, Unseen DEF Outgoing

LEMMA EnvironmentUnseen ==
  ASSUME \/ \E a \in Accounts : DeleteAccount(a)
         \/ SeesItThrough /\ \E b \in Banks : Crash(b)
         \/ UNCHANGED vars
  PROVE  UNCHANGED Transfers!mvars
<1>1. UNCHANGED <<account, row, credits, debits>> /\ \A q \in Payments : pc'[q] = pc[q]
  BY DEF DeleteAccount, Crash, SeesItThrough, tables, history, vars
<1> QED BY <1>1, Unseen DEF Outgoing, Local

LEMMA PaymentInit == Init => Transfers!MInit
<1> SUFFICES ASSUME Init PROVE Transfers!MInit OBVIOUS
<1>1. Committed = {} /\ Pending = {} /\ Uncredited = {} /\ Done = {}
  <2>1. Committed = {} BY DEF Init, Committed, Outgoing
  <2>2. Uncredited = {} BY <2>1 DEF Uncredited
  <2>3. Pending = {} BY DEF Init, Pending, Reserved, Waiting, Outgoing
  <2>4. \A p \in Local : pc[p] = "idle" BY DEF Init, Local
  <2>5. Done = {} BY <2>1, <2>4 DEF Done
  <2> QED BY <2>1, <2>2, <2>3, <2>5
<1>2. \A where, a : SumOver({}, where, a) = 0
  <2>1. \A where, a : {p \in {} : where[p] = a} = {} OBVIOUS
  <2> QED BY <2>1, SumEmpty DEF SumOver
<1>3. /\ Committed \ debits = {}
      /\ account = [a \in Accounts |->
           [balance |-> InitBalance[a], available |-> InitBalance[a], spent |-> 0]]
  BY <1>1 DEF Init
<1>4. \A a \in Accounts :
        /\ EffectiveBalance[a] = InitBalance[a]
        /\ EffectiveAvailable[a] = InitBalance[a]
        /\ EffectiveSpent[a] = 0
  <2> SUFFICES ASSUME NEW a \in Accounts
               PROVE  /\ EffectiveBalance[a] = InitBalance[a]
                      /\ EffectiveAvailable[a] = InitBalance[a]
                      /\ EffectiveSpent[a] = 0
    OBVIOUS
  <2>1. /\ SumOver(Uncredited, To, a) = 0 /\ SumOver(Committed \ debits, From, a) = 0
        /\ SumOver(Pending, From, a) = 0
    BY <1>1, <1>2, <1>3
  <2>2. /\ account[a].balance = InitBalance[a] /\ account[a].available = InitBalance[a]
        /\ account[a].spent = 0 /\ InitBalance[a] \in Int
    BY <1>3
  <2>3. /\ EffectiveBalance[a] = account[a].balance + 0 - 0
        /\ EffectiveAvailable[a] = account[a].available + 0 + 0
        /\ EffectiveSpent[a] = account[a].spent - 0
    BY <2>1, EffectiveAt
  <2> QED BY <2>2, <2>3
<1>5. EffectiveBalance = InitBalance
  BY <1>4 DEF EffectiveBalance
<1>6. EffectiveAvailable = InitBalance
  BY <1>4 DEF EffectiveAvailable
<1>7. EffectiveSpent = [a \in Accounts |-> 0]
  BY <1>4 DEF EffectiveSpent
<1> QED BY <1>1, <1>5, <1>6, <1>7 DEF Transfers!MInit

LEMMA PaymentRefinesNext ==
  ASSUME TypeOK, TwoPhase, OneWay, NeverOverdrawn, NothingLeftBehind,
         [Next /\ SeesItThrough]_vars
  PROVE  [Transfers!MNext]_(Transfers!mvars)
<1>1. CASE UNCHANGED vars BY <1>1, EnvironmentUnseen
<1>2. CASE Next /\ SeesItThrough
  <2>1. ASSUME NEW p \in Payments, PaymentStep(p) PROVE [Transfers!MNext]_(Transfers!mvars)
    <3>1. CASE Transfer(p)
      BY <3>1, TransferPays DEF Transfers!MNext
    <3>2. CASE Reserve(p) BY <3>2, ReserveUnseen
    <3>3. CASE ReleaseReservation(p) BY <3>3, ReleaseUnseen
    <3>4. CASE ApplyDebit(p) BY <3>4, DebitUnseen
    <3>5. CASE \/ LookupRecipient(p) \/ Refuse(p) \/ Record(p)
               \/ TakeVote(p) \/ TakeCommitted(p) \/ TakeRolledBack(p)
      BY <3>5, PayerUnseen
    <3> QED BY <2>1, <3>1, <3>2, <3>3, <3>4, <3>5 DEF PaymentStep
  <2>2. ASSUME NEW p \in Payments, AttemptFails(p) \/ RequestFails(p)
        PROVE  UNCHANGED Transfers!mvars
    BY <2>2, PayerUnseen
  <2>3. ASSUME NEW r \in Requests, HandlerStep(r) \/ HandlerFails(r)
        PROVE  [Transfers!MNext]_(Transfers!mvars)
    <3>1. CASE Claim(r) BY <3>1, ClaimPays
    <3>2. CASE CreditReceiver(r) BY <3>2, CreditUnseen
    <3>3. CASE ~Claim(r) /\ ~CreditReceiver(r) BY <2>3, <3>3, HandlerUnseen
    <3> QED BY <3>1, <3>2, <3>3
  <2>4. CASE \/ \E a \in Accounts : DeleteAccount(a)
             \/ \E b \in Banks : Crash(b)
    BY <1>2, <2>4, EnvironmentUnseen
  <2> QED BY <1>2, <2>1, <2>2, <2>3, <2>4 DEF Next
<1> QED BY <1>1, <1>2

(* A payment is one indivisible transfer, although two banks write its two *)
(* accounts at different times and any message may be lost or repeated:    *)
(* every step of the protocol is such a transfer or does not show, as long *)
(* as no reservation is left behind and no commit is rolled back.          *)
THEOREM PaymentRefines ==
  ASSUME NothingLeftBehind
  PROVE  Spec /\ [][SeesItThrough]_vars => PaymentIsAtomic
<1>1. TypeOK /\ TwoPhase /\ OneWay /\ NeverOverdrawn /\ [Next /\ SeesItThrough]_vars
        => [Transfers!MNext]_(Transfers!mvars)
  BY PaymentRefinesNext
<1>2. [Next]_vars /\ [SeesItThrough]_vars => [Next /\ SeesItThrough]_vars
  OBVIOUS
<1> QED BY <1>1, <1>2, PaymentInit, InterbankTypeCorrect, TwoPhaseAlways,
    AccountsStaySolvent, CommitsSeenThrough, PTL
    DEF Spec, PaymentIsAtomic, Transfers!MSpec

(* When every call is seen through: nobody is killed, fewer attempts fail  *)
(* than are made, and a handler fails only after its attempt was given up. *)
Dependable ==
  /\ MaxCrashes = 0 /\ MaxFailures < Retries
  /\ {"context", "partner"} \cap Faults = {}

(* Then no commit is answered with an error while the call waits for it.   *)
PromptAt(p) ==
  /\ attempt[p] <= failures + 1 /\ pc[p] # "lost"
  /\ pc[p] = "commitTx" => Answered(p, "COMMIT_TX") # "error"
Prompt == \A p \in Payments : PromptAt(p)

LEMMA OthersPrompt ==
  ASSUME TypeOK, Prompt, NEW p \in Payments, failures <= failures', failures' \in Nat,
         \A q \in Payments : q # p => /\ pc'[q] = pc[q] /\ attempt'[q] = attempt[q]
                                      /\ \A n \in Attempts : handler'[<<q, "COMMIT_TX", n>>]
                                           = handler[<<q, "COMMIT_TX", n>>],
         PromptAt(p)'
  PROVE  Prompt'
<1> SUFFICES ASSUME NEW q \in Payments, q # p PROVE PromptAt(q)'
  BY DEF Prompt
<1>1. PromptAt(q) /\ attempt[q] \in Attempts /\ failures \in Nat
  BY DEF Prompt, TypeOK
<1>2. attempt[q] \in Nat BY <1>1 DEF Attempts
<1> QED BY <1>1, <1>2 DEF PromptAt, Answered

LEMMA SentTo ==
  ASSUME TypeOK, NEW p \in Payments, NEW type \in Types, NEW n \in Attempts,
         Send(p, type, n)
  PROVE  /\ attempt'[p] = n /\ handler'[<<p, type, n>>] = "sent"
         /\ \A q \in Payments : q # p =>
              /\ attempt'[q] = attempt[q]
              /\ \A m \in Attempts : handler'[<<q, "COMMIT_TX", m>>]
                                       = handler[<<q, "COMMIT_TX", m>>]
<1>1. \A s \in Requests :
        handler'[s] = IF s = <<p, type, n>> THEN "sent" ELSE handler[s]
  BY SendEffect
<1>2. <<p, type, n>> \in Requests
  BY DEF Requests
<1>3. \A q \in Payments, m \in Attempts : <<q, "COMMIT_TX", m>> \in Requests
  BY DEF Requests, Types
<1>4. \A q \in Payments, m \in Attempts :
        q # p => <<q, "COMMIT_TX", m>> # <<p, type, n>>
  OBVIOUS
<1>5. attempt'[p] = n /\ \A q \in Payments : q # p => attempt'[q] = attempt[q]
  BY DEF Send, TypeOK
<1> QED BY <1>1, <1>2, <1>3, <1>4, <1>5

LEMMA PayerPrompt ==
  ASSUME TypeOK, Prompt, NEW p \in Payments, PaymentStep(p)
  PROVE  Prompt'
<1>1. /\ failures' = failures /\ failures \in Nat /\ 1 <= failures + 1
      /\ PromptAt(p) /\ pc \in [Payments -> PaymentLabels]
      /\ \A q \in Payments : q # p => pc'[q] = pc[q]
  BY DEF PaymentStep, LookupRecipient, Transfer, Refuse, Record, Reserve, TakeVote,
     TakeCommitted, TakeRolledBack, ReleaseReservation, ApplyDebit, Next2PC, Goes, TypeOK,
     Prompt
<1>2. ASSUME UNCHANGED <<attempt, handler>>, pc'[p] \notin {"commitTx", "lost"}
      PROVE  Prompt'
  <2>1. PromptAt(p)' BY <1>1, <1>2 DEF PromptAt
  <2> QED BY <1>1, <1>2, <2>1, OthersPrompt
<1>3. ASSUME NEW type \in Types, Send(p, type, 1), pc'[p] # "lost",
             pc'[p] = "commitTx" => type = "COMMIT_TX"
      PROVE  Prompt'
  <2>1. /\ attempt'[p] = 1 /\ handler'[<<p, type, 1>>] = "sent"
        /\ \A q \in Payments : q # p =>
             /\ attempt'[q] = attempt[q]
             /\ \A m \in Attempts : handler'[<<q, "COMMIT_TX", m>>]
                                      = handler[<<q, "COMMIT_TX", m>>]
    BY <1>3, SentTo, FirstAttempt
  <2>2. PromptAt(p)' BY <1>1, <1>3, <2>1 DEF PromptAt, Answered
  <2> QED BY <1>1, <2>1, <2>2, OthersPrompt
<1>4. ASSUME NEW from, NEW to \in {"commitTx", "rollbackTx", "release", "debit"},
             Next2PC(p, from, to)
      PROVE  Prompt'
  <2>1. pc'[p] = to BY <1>1, <1>4 DEF Next2PC, Goes
  <2>2. CASE to = "commitTx"
    BY <1>3, <1>4, <2>1, <2>2 DEF Next2PC, Types
  <2>3. CASE to = "rollbackTx"
    BY <1>3, <1>4, <2>1, <2>3 DEF Next2PC, Types
  <2>4. CASE to \in {"release", "debit"}
    BY <1>2, <1>4, <2>1, <2>4 DEF Next2PC
  <2> QED BY <1>4, <2>2, <2>3, <2>4
<1>5. CASE Reserve(p)
  <2>1. pc'[p] \in {"newTx", "failed"} BY <1>1, <1>5 DEF Reserve, Goes
  <2>2. CASE Send(p, "NEW_TX", 1) BY <1>3, <2>1, <2>2 DEF Types
  <2>3. CASE UNCHANGED <<attempt, handler>> BY <1>2, <2>1, <2>3
  <2> QED BY <1>5, <2>2, <2>3 DEF Reserve
<1>6. CASE TakeVote(p) \/ TakeCommitted(p) \/ TakeRolledBack(p)
  BY <1>4, <1>6 DEF TakeVote, TakeCommitted, TakeRolledBack
<1>7. CASE \/ LookupRecipient(p) \/ Transfer(p) \/ Refuse(p) \/ Record(p)
           \/ ReleaseReservation(p) \/ ApplyDebit(p)
  <2>1. UNCHANGED <<attempt, handler>>
    BY <1>7 DEF LookupRecipient, Transfer, Refuse, Record, ReleaseReservation, ApplyDebit
  <2>2. pc'[p] \in {"direct", "viaBank", "record", "failed", "refused", "completed"}
    BY <1>1, <1>7 DEF LookupRecipient, Transfer, Refuse, Record, ReleaseReservation,
       ApplyDebit, Goes
  <2> QED BY <1>2, <2>1, <2>2
<1> QED BY <1>5, <1>6, <1>7 DEF PaymentStep

(* A handler that is waited for fails at a rolled back row only.           *)
LEMMA HandlerPrompt ==
  ASSUME TypeOK, TwoPhase, Prompt, Dependable, NEW r \in Requests,
         HandlerStep(r) \/ HandlerFails(r)
  PROVE  Prompt'
<1>1. /\ UNCHANGED <<pc, attempt, failures>>
      /\ \A s \in Requests : s # r => handler'[s] = handler[s]
  BY HandlerEffect DEF HandlerStep, LookupVote, Validate, InsertInterbankTx, LookupCommit,
     Claim, CreditReceiver, CommitOtcToo, LookupRollback, MarkRolledBack, HandlerFails,
     OthersUnchanged
<1> SUFFICES ASSUME NEW p \in Payments, pc[p] = "commitTx",
                    r = <<p, "COMMIT_TX", attempt[p]>>, handler'[r] = "error"
             PROVE  FALSE
  <2>1. \A p \in Payments : <<p, "COMMIT_TX", attempt[p]>> \in Requests
    BY DEF Requests, Types, TypeOK
  <2> QED BY <1>1, <2>1 DEF Prompt, PromptAt, Answered
<1>2. r[1] = p /\ r[2] = "COMMIT_TX" /\ r[3] = attempt[p]
  OBVIOUS
<1>3. row[p] # "ROLLED_BACK"
  BY DEF TwoPhase, DebtorNeverRollsBack, NoRollbackYet
<1>4. handler \in Handlers
  BY DEF TypeOK, Handlers, HandlerLabels
<1>5. ~Abandoned(r)
  BY <1>2 DEF Abandoned, Waiting, TypeOf
<1>6. CASE HandlerFails(r)
  BY <1>5, <1>6 DEF HandlerFails, Dependable
<1>7. CASE LookupCommit(r)
  BY <1>2, <1>3, <1>4, <1>7 DEF LookupCommit, Handles, Handlers
<1>8. CASE Claim(r)
  BY <1>2, <1>4, <1>8 DEF Claim, Handles, Handlers
<1>9. CASE CreditReceiver(r) \/ CommitOtcToo(r)
  BY <1>2, <1>4, <1>9 DEF CreditReceiver, CommitOtcToo, Handles, Handlers
<1>10. CASE \/ LookupVote(r) \/ Validate(r) \/ InsertInterbankTx(r)
            \/ LookupRollback(r) \/ MarkRolledBack(r)
  BY <1>2, <1>10 DEF LookupVote, Validate, InsertInterbankTx, LookupRollback,
     MarkRolledBack, Handles
<1> QED BY <1>6, <1>7, <1>8, <1>9, <1>10 DEF HandlerStep

(* More attempts are made than fail.                                       *)
LEMMA NoRequestFails ==
  ASSUME TypeOK, Prompt, Dependable, NEW p \in Payments
  PROVE  ~RequestFails(p)
<1>1. /\ attempt[p] <= failures + 1 /\ failures \in Nat
      /\ MaxFailures \in Nat /\ Retries \in Nat /\ MaxFailures < Retries
  BY DEF Prompt, PromptAt, TypeOK, Dependable
<1>2. attempt[p] # Retries \/ ~(failures < MaxFailures)
  BY <1>1
<1> QED BY <1>2 DEF RequestFails, Dependable

LEMMA PromptNext ==
  ASSUME TypeOK, TwoPhase, Prompt, Dependable, [Next]_vars
  PROVE  Prompt'
<1>1. CASE \E p \in Payments : PaymentStep(p) BY <1>1, PayerPrompt
<1>2. CASE \E r \in Requests : HandlerStep(r) \/ HandlerFails(r)
  BY <1>2, HandlerPrompt
<1>3. CASE \E p \in Payments : RequestFails(p) BY <1>3, NoRequestFails
<1>4. CASE \E p \in Payments : AttemptFails(p)
  <2> PICK p \in Payments : AttemptFails(p) BY <1>4
  <2>1. TypeOf(pc[p]) \in Types /\ attempt[p] + 1 \in Attempts
    BY DEF AttemptFails, Waiting, TypeOf, Types, TypeOK, Attempts
  <2>2. PICK n \in Attempts : n = attempt[p] + 1
    BY <2>1
  <2>3. /\ attempt'[p] = n /\ handler'[<<p, TypeOf(pc[p]), n>>] = "sent"
        /\ \A q \in Payments : q # p =>
             /\ attempt'[q] = attempt[q]
             /\ \A m \in Attempts : handler'[<<q, "COMMIT_TX", m>>]
                                      = handler[<<q, "COMMIT_TX", m>>]
    BY <2>1, <2>2, SentTo DEF AttemptFails
  <2>4. /\ failures' = failures + 1 /\ failures \in Nat /\ UNCHANGED pc
        /\ attempt[p] \in Nat /\ PromptAt(p)
    BY DEF AttemptFails, TypeOK, Prompt, Attempts
  <2>5. pc[p] = "commitTx" => TypeOf(pc[p]) = "COMMIT_TX"
    BY DEF TypeOf
  <2>6. PromptAt(p)'
    <3>1. attempt'[p] <= failures' + 1 /\ pc'[p] # "lost"
      BY <2>2, <2>3, <2>4 DEF PromptAt
    <3>2. pc'[p] = "commitTx" => handler'[<<p, "COMMIT_TX", attempt'[p]>>] = "sent"
      BY <2>3, <2>4, <2>5
    <3> QED BY <3>1, <3>2 DEF PromptAt, Answered
  <2> QED BY <2>3, <2>4, <2>6, OthersPrompt
<1>5. CASE \E a \in Accounts : DeleteAccount(a)
  BY <1>5 DEF DeleteAccount, Prompt, PromptAt, Answered
<1>6. CASE \E b \in Banks : Crash(b)
  BY <1>6 DEF Crash, Dependable, TypeOK
<1>7. CASE UNCHANGED vars
  BY <1>7 DEF vars, Prompt, PromptAt, Answered
<1> QED BY <1>1, <1>2, <1>3, <1>4, <1>5, <1>6, <1>7 DEF Next

LEMMA PromptSeesItThrough ==
  ASSUME TypeOK, Prompt, Prompt', Dependable, Next
  PROVE  SeesItThrough
<1> SUFFICES ASSUME NEW p \in Payments, pc[p] = "commitTx", pc'[p] = "rollbackTx"
             PROVE  FALSE
  BY DEF SeesItThrough, Prompt, PromptAt
<1>1. CASE \E q \in Payments : PaymentStep(q)
  <2> PICK q \in Payments : PaymentStep(q) BY <1>1
  <2>1. q = p
    BY DEF PaymentStep, LookupRecipient, Transfer, Refuse, Record, Reserve, TakeVote,
       TakeCommitted, TakeRolledBack, ReleaseReservation, ApplyDebit, Next2PC, Goes, TypeOK
  <2>2. TakeCommitted(p)
    BY <2>1 DEF PaymentStep, LookupRecipient, Transfer, Refuse, Record, Reserve, TakeVote,
       TakeRolledBack, ReleaseReservation, ApplyDebit, Next2PC, Goes, TypeOK
  <2>3. Answered(p, "COMMIT_TX") # "error"
    BY DEF Prompt, PromptAt
  <2> QED BY <2>2, <2>3 DEF TakeCommitted, Next2PC, Goes, TypeOK
<1>2. CASE \E q \in Payments : AttemptFails(q) \/ RequestFails(q)
  BY <1>2, NoRequestFails DEF AttemptFails
<1>3. CASE \E r \in Requests : HandlerStep(r) \/ HandlerFails(r)
  BY <1>3 DEF HandlerStep, LookupVote, Validate, InsertInterbankTx, LookupCommit, Claim,
     CreditReceiver, CommitOtcToo, LookupRollback, MarkRolledBack, HandlerFails,
     OthersUnchanged
<1>4. CASE \/ \E a \in Accounts : DeleteAccount(a)
           \/ \E b \in Banks : Crash(b)
  BY <1>4 DEF DeleteAccount, Crash
<1> QED BY <1>1, <1>2, <1>3, <1>4 DEF Next

(* Payments to another bank are atomic as long as some attempt of every    *)
(* request is answered, whatever becomes of the attempts that were given up. *)
THEOREM PaymentRefinesWhenAnswered ==
  ASSUME NothingLeftBehind, Dependable
  PROVE  Spec => PaymentIsAtomic
<1>1. Init => Prompt
  BY DEF Init, Prompt, PromptAt
<1>2. TypeOK /\ TwoPhase /\ Prompt /\ [Next]_vars => Prompt'
  BY PromptNext
<1>3. TypeOK /\ Prompt /\ Prompt' /\ [Next]_vars => [SeesItThrough]_vars
  BY PromptSeesItThrough
<1>4. Spec /\ [][SeesItThrough]_vars => PaymentIsAtomic
  BY PaymentRefines
<1> QED BY <1>1, <1>2, <1>3, <1>4, InterbankTypeCorrect, TwoPhaseAlways, PTL DEF Spec
=============================================================================
