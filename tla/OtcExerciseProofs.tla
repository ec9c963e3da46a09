-------------------------- MODULE OtcExerciseProofs --------------------------
(***************************************************************************)
(* Theorems about OtcExercise for any contracts, callers, amounts, faults, *)
(* disconnects, crashes and recoveries: the types and the contract's lock, *)
(* then the books (BooksInv) and the refinement of OptionExercise.         *)
(***************************************************************************)
EXTENDS OtcExerciseLedger, SumTheorems

USE FunctionsAssumption, CallersAssumption, AmountsAssumption, BoundsAssumption

AccountTable == [Accounts -> [balance : Int, available : Int]]
ShareTable == [Users -> [amount : Int, reserved : Int, row : BOOLEAN]]

(* The UPDATE statements map tables to tables.                             *)
LEMMA MoveType ==
  ASSUME NEW acc \in AccountTable, NEW a \in Accounts, NEW m \in Int, NEW n \in Int
  PROVE  Move(acc, a, m, n) \in AccountTable
BY DEF Move, AccountTable

LEMMA UpdateType ==
  ASSUME NEW sh \in ShareTable, NEW u \in Users, NEW m \in Int, NEW n \in Int
  PROVE  Update(sh, u, m, n) \in ShareTable
BY DEF Update, ShareTable, Positive

LEMMA UpsertType ==
  ASSUME NEW sh \in ShareTable, NEW u \in Users, NEW m \in Int, NEW n \in Int
  PROVE  Upsert(sh, u, m, n) \in ShareTable
BY UpdateType DEF Upsert, ShareTable

LEMMA DropEmptyType ==
  ASSUME NEW sh \in ShareTable, NEW u \in Users
  PROVE  DropEmpty(sh, u) \in ShareTable
BY DEF DropEmpty, ShareTable

(* TypeOK by groups of variables, so that each step argues about the group *)
(* it touches.                                                             *)
OtcTypes ==
  /\ contract \in [Contracts -> {"ACTIVE", "EXERCISED", "EXPIRED"}]
  /\ due \subseteq Contracts
  /\ lock \in [Contracts -> Callers \cup {None}]
  /\ saga \in [Contracts ->
       {None, "Running", "Compensating", "Completed", "Compensated"}]
  /\ logged \in [Contracts -> SUBSET (1..5)]
  /\ tracked \subseteq Calls
  /\ taxed \subseteq Contracts
BankTypes == account \in AccountTable /\ shares \in ShareTable
ControlTypes ==
  pc \in [Calls -> Labels] /\ rpc \in [Contracts -> RecoveryLabels]
EnvTypes ==
  scanned \in BOOLEAN /\ crashes \in Nat /\ giveUps \in Nat /\ sales \in Nat

LEMMA TypeGroups == TypeOK <=> OtcTypes /\ BankTypes /\ ControlTypes /\ EnvTypes
BY DEF TypeOK, OtcTypes, BankTypes, ControlTypes, EnvTypes, AccountTable, ShareTable

LEMMA TypeGroupsNext == OtcTypes' /\ BankTypes' /\ ControlTypes' /\ EnvTypes' => TypeOK'
BY DEF TypeOK, OtcTypes, BankTypes, ControlTypes, EnvTypes, AccountTable, ShareTable

LEMMA CallIsPair ==
  ASSUME NEW p \in Calls PROVE p[1] \in Contracts /\ p[2] \in Callers
BY CallsAssumption

(* The helpers keep the type of what they assign.                          *)
LEMMA AtType ==
  ASSUME ControlTypes, NEW p \in Calls, NEW from, NEW to \in Labels,
         At(p, from, to), rpc' = rpc
  PROVE  ControlTypes'
BY DEF ControlTypes, At

LEMMA SagaStatusType ==
  ASSUME OtcTypes, NEW p \in Calls, SagaStatus(p, "Running") \/ SagaStatus(p, "Compensating")
           \/ SagaStatus(p, "Completed") \/ SagaStatus(p, "Compensated")
  PROVE  saga' \in [Contracts ->
           {None, "Running", "Compensating", "Completed", "Compensated"}]
BY CallIsPair DEF OtcTypes, SagaStatus

LEMMA RetriedType ==
  ASSUME BankTypes, EnvTypes, NEW acc \in AccountTable, NEW sh \in ShareTable,
         Retried(acc, sh)
  PROVE  BankTypes' /\ EnvTypes'
BY DEF BankTypes, EnvTypes, Retried, bankVars

LEMMA ReleaseType ==
  ASSUME OtcTypes, NEW p \in Calls, Release(p)
  PROVE  lock' \in [Contracts -> Callers \cup {None}]
BY CallIsPair DEF OtcTypes, Release

LEMMA SagaLogType ==
  ASSUME OtcTypes, NEW p \in Calls, NEW n \in 1..5, SagaLog(p, n)
  PROVE  logged' \in [Contracts -> SUBSET (1..5)]
BY CallIsPair DEF OtcTypes, SagaLog

LEMMA InitType == Init => TypeOK
BY DEF Init, TypeOK, Labels, RecoveryLabels

LEMMA FailsType ==
  ASSUME TypeOK, NEW p \in Calls, NEW from, NEW to \in Labels, Fails(p, from, to)
  PROVE  TypeOK'
<1>1. ControlTypes' BY TypeGroups, AtType DEF Fails
<1>2. OtcTypes' BY TypeGroups, SagaStatusType DEF Fails, OtcTypes
<1>3. BankTypes' /\ EnvTypes'
  BY TypeGroups DEF Fails, BankTypes, EnvTypes, bankVars, envVars
<1> QED BY <1>1, <1>2, <1>3, TypeGroupsNext

(***************************************************************************)
(* Type correctness, one step per action.                                  *)
(***************************************************************************)
LEMMA CallStepType ==
  ASSUME TypeOK, NEW p \in Calls, CallStep(p)
  PROVE  TypeOK'
<1> DEFINE c == p[1]
<1> USE TypeGroups
<1>0. c \in Contracts /\ p[2] \in Callers BY CallIsPair
<1>1. CASE CheckCompleted(p)
  BY <1>1, TypeGroupsNext DEF CheckCompleted, At, OtcTypes, BankTypes, ControlTypes,
     EnvTypes, otcVars, bankVars, envVars, Labels, Replied
<1>2. CASE LockContract(p)
  BY <1>0, <1>2, TypeGroupsNext DEF LockContract, At, OtcTypes, BankTypes, ControlTypes,
     EnvTypes, bankVars, envVars, Labels, Replied, Forward
<1>3. CASE InsertSaga(p)
  BY <1>0, <1>3, TypeGroupsNext DEF InsertSaga, Statement, At, OtcTypes, BankTypes,
     ControlTypes, EnvTypes, bankVars, envVars, Labels, Forward
<1>4. CASE LookupFails(p)
  BY <1>0, <1>4, TypeGroupsNext, ReleaseType DEF LookupFails, At, OtcTypes, BankTypes,
     ControlTypes, EnvTypes, bankVars, envVars, Labels, Replied

<1>5. CASE ReserveFunds(p)
  <2>1. Move(account, PayingAccount[c], 0, -Pay[c]) \in AccountTable
    BY <1>0, MoveType DEF BankTypes
  <2>2. CASE Fails(p, "reserveFunds", "end")
    BY <2>2, FailsType DEF Labels, Undoing
  <2>3. CASE ~Fails(p, "reserveFunds", "end")
    BY <1>0, <1>5, <2>1, <2>3, SagaStatusType, TypeGroupsNext DEF ReserveFunds,
       Statement, At, OtcTypes, BankTypes, ControlTypes, EnvTypes, otcVars, bankVars,
       envVars, Labels, Forward, Undoing
  <2> QED BY <2>2, <2>3
<1>6. CASE ReserveShares(p)
  <2>1. Update(shares, Seller[c], 0, Amount[c]) \in ShareTable
    BY <1>0, UpdateType DEF BankTypes
  <2>2. CASE Fails(p, "reserveShares", "c1")
    BY <2>2, FailsType DEF Labels, Undoing
  <2>3. CASE ~Fails(p, "reserveShares", "c1")
    BY <1>0, <1>6, <2>1, <2>3, SagaStatusType, TypeGroupsNext DEF ReserveShares,
       Statement, At, OtcTypes, BankTypes, ControlTypes, EnvTypes, otcVars, bankVars,
       envVars, Labels, Forward, Undoing
  <2> QED BY <2>2, <2>3
<1>7. CASE DebitBuyer(p)
  <2>1. Move(account, PayingAccount[c], -Pay[c], 0) \in AccountTable
    BY <1>0, MoveType DEF BankTypes
  <2>2. CASE Fails(p, "debitBuyer", "c2")
    BY <2>2, FailsType DEF Labels, Undoing
  <2>3. CASE ~Fails(p, "debitBuyer", "c2")
    BY <1>7, <2>1, <2>3, TypeGroupsNext DEF DebitBuyer, Statement, At, OtcTypes,
       BankTypes, ControlTypes, EnvTypes, otcVars, envVars, Labels, Forward
  <2> QED BY <2>2, <2>3
<1>8. CASE CreditSeller(p)
  <2>1. Move(account, SellerAccount[c], Receive[c], Receive[c]) \in AccountTable
    BY <1>0, MoveType DEF BankTypes
  <2> QED
    BY <1>8, <2>1, TypeGroupsNext DEF CreditSeller, Statement, At, OtcTypes,
       BankTypes, ControlTypes, EnvTypes, otcVars, bankVars, envVars, Labels,
       Forward, Undoing
<1>9. CASE UndoDebit(p)
  <2>1. Move(account, PayingAccount[c], Pay[c], 0) \in AccountTable
    BY <1>0, MoveType DEF BankTypes
  <2>2. BankTypes' /\ EnvTypes'
    BY <1>9, <2>1, RetriedType DEF UndoDebit, BankTypes
  <2> QED
    BY <1>9, <2>2, SagaStatusType, TypeGroupsNext DEF UndoDebit, At, OtcTypes,
       ControlTypes, Labels, Undoing
<1>10. CASE TakeShares(p)
  <2>1. Update(shares, Seller[c], -Amount[c], -Amount[c]) \in ShareTable
    BY <1>0, UpdateType DEF BankTypes
  <2>2. CASE Fails(p, "takeShares", "c3buyer")
    BY <2>2, FailsType DEF Labels, Undoing
  <2>3. CASE ~Fails(p, "takeShares", "c3buyer")
    BY <1>10, <2>1, <2>3, TypeGroupsNext DEF TakeShares, Statement, At, OtcTypes,
       BankTypes, ControlTypes, EnvTypes, otcVars, envVars, Labels, Forward
  <2> QED BY <2>2, <2>3
<1>11. CASE DropRow(p)
  <2>1. DropEmpty(shares, Seller[c]) \in ShareTable
    BY <1>0, DropEmptyType DEF BankTypes
  <2> QED
    BY <1>11, <2>1, TypeGroupsNext DEF DropRow, At, OtcTypes, BankTypes,
       ControlTypes, EnvTypes, otcVars, envVars, Labels, Forward
<1>12. CASE GiveShares(p)
  <2>1. Upsert(shares, Buyer[c], Amount[c], 0) \in ShareTable
    BY <1>0, UpsertType DEF BankTypes
  <2> QED
    BY <1>12, <2>1, TypeGroupsNext DEF GiveShares, Statement, At, OtcTypes,
       BankTypes, ControlTypes, EnvTypes, otcVars, bankVars, envVars, Labels,
       Forward, Undoing
<1>13. CASE UndoTake(p)
  <2>1. Update(shares, Seller[c], Amount[c], Amount[c]) \in ShareTable
    BY <1>0, UpdateType DEF BankTypes
  <2>2. BankTypes' /\ EnvTypes'
    BY <1>13, <2>1, RetriedType DEF UndoTake, BankTypes
  <2> QED
    BY <1>13, <2>2, SagaStatusType, TypeGroupsNext DEF UndoTake, At, OtcTypes,
       ControlTypes, Labels, Undoing
<1>14. CASE VerifyHolding(p)
  <2>1. CASE Fails(p, "verify", "c4seller")
    BY <2>1, FailsType DEF Labels, Undoing
  <2>2. CASE ~Fails(p, "verify", "c4seller")
    BY <1>14, <2>2, SagaStatusType, TypeGroupsNext DEF VerifyHolding, Statement, At,
       OtcTypes, BankTypes, ControlTypes, EnvTypes, otcVars, bankVars, envVars,
       Labels, Forward, Undoing
  <2> QED BY <2>1, <2>2
<1>15. CASE CommitContract(p)
  <2>1. CASE Fails(p, "commit", "c4seller")
    BY <2>1, FailsType DEF Labels, Undoing
  <2>2. CASE ~Fails(p, "commit", "c4seller")
    <3>1. /\ contract' = [contract EXCEPT ![c] = "EXERCISED"] /\ Release(p)
          /\ SagaStatus(p, "Compensating") \/ saga' = saga
          /\ UNCHANGED <<due, logged, tracked, taxed>>
          /\ UNCHANGED <<bankVars, envVars>>
      BY <1>15, <2>2 DEF CommitContract, bankVars, envVars
    <3>2. OtcTypes' BY <1>0, <3>1, ReleaseType, SagaStatusType DEF OtcTypes
    <3>3. BankTypes' /\ EnvTypes'
      BY <3>1 DEF BankTypes, EnvTypes, bankVars, envVars
    <3>4. ControlTypes'
      BY <1>15, <2>2, AtType DEF CommitContract, Statement, Labels, Committed, Undoing
    <3> QED BY <3>2, <3>3, <3>4, TypeGroupsNext
  <2> QED BY <2>1, <2>2
<1>16. CASE LogStep(p)
  BY <1>16, SagaLogType, SagaStatusType, TypeGroupsNext DEF LogStep, LogSuccess, At,
     OtcTypes, BankTypes, ControlTypes, EnvTypes, bankVars, envVars, Labels, Forward
<1>17. CASE LogCompleted(p)
  BY <1>17, SagaLogType, SagaStatusType, TypeGroupsNext DEF LogCompleted, At, OtcTypes,
     BankTypes, ControlTypes, EnvTypes, bankVars, envVars, Labels, Committed
<1>18. CASE RecordExerciseTax(p)
  BY <1>0, <1>18, TypeGroupsNext DEF RecordExerciseTax, At, OtcTypes, BankTypes,
     ControlTypes, EnvTypes, bankVars, envVars, Labels, Replied
<1>19. CASE Comp4(p)
  <2>1. /\ Upsert(shares, Seller[c], Amount[c], Amount[c]) \in ShareTable
        /\ Update(shares, Buyer[c], -Amount[c], 0) \in ShareTable
        /\ DropEmpty(shares, Buyer[c]) \in ShareTable
    BY <1>0, UpsertType, UpdateType, DropEmptyType DEF BankTypes
  <2>2. BankTypes' /\ EnvTypes'
    BY <1>19, <2>1, RetriedType DEF Comp4, Compensate, BankTypes, EnvTypes, envVars
  <2>3. OtcTypes' BY <1>19 DEF Comp4, Compensate, OtcTypes, otcVars
  <2>4. ControlTypes'
    BY <1>19 DEF Comp4, Compensate, At, ControlTypes, Labels, Undoing
  <2> QED BY <2>2, <2>3, <2>4, TypeGroupsNext
<1>20. CASE Comp3(p)
  <2>1. /\ Move(account, PayingAccount[c], Pay[c], 0) \in AccountTable
        /\ Move(account, SellerAccount[c], -Receive[c], -Receive[c]) \in AccountTable
    BY <1>0, MoveType DEF BankTypes
  <2>2. BankTypes' /\ EnvTypes'
    BY <1>20, <2>1, RetriedType DEF Comp3, Compensate, BankTypes
  <2>3. OtcTypes' BY <1>20 DEF Comp3, Compensate, OtcTypes, otcVars
  <2>4. ControlTypes'
    BY <1>20 DEF Comp3, Compensate, At, ControlTypes, Labels, Undoing
  <2> QED BY <2>2, <2>3, <2>4, TypeGroupsNext
<1>21. CASE Comp2(p)
  <2>1. Update(shares, Seller[c], 0, -Amount[c]) \in ShareTable
    BY <1>0, UpdateType DEF BankTypes
  <2>2. BankTypes' /\ EnvTypes'
    BY <1>21, <2>1, RetriedType DEF Comp2, Compensate, BankTypes
  <2>3. OtcTypes' BY <1>21 DEF Comp2, Compensate, OtcTypes, otcVars
  <2>4. ControlTypes'
    BY <1>21 DEF Comp2, Compensate, At, ControlTypes, Labels, Undoing
  <2> QED BY <2>2, <2>3, <2>4, TypeGroupsNext
<1>22. CASE Comp1(p)
  <2>1. Move(account, PayingAccount[c], 0, Pay[c]) \in AccountTable
    BY <1>0, MoveType DEF BankTypes
  <2>2. BankTypes' /\ EnvTypes'
    BY <1>22, <2>1, RetriedType DEF Comp1, Compensate, BankTypes
  <2>3. OtcTypes' BY <1>22 DEF Comp1, Compensate, OtcTypes, otcVars
  <2>4. ControlTypes'
    BY <1>22 DEF Comp1, Compensate, At, ControlTypes, Labels, Undoing
  <2> QED BY <2>2, <2>3, <2>4, TypeGroupsNext
<1>23. CASE EndCompensated(p)
  BY <1>23, SagaStatusType, ReleaseType, TypeGroupsNext DEF EndCompensated, At,
     OtcTypes, BankTypes, ControlTypes, EnvTypes, bankVars, envVars, Labels, Replied
<1> QED
  BY <1>1, <1>2, <1>3, <1>4, <1>5, <1>6, <1>7, <1>8, <1>9, <1>10, <1>11, <1>12,
     <1>13, <1>14, <1>15, <1>16, <1>17, <1>18, <1>19, <1>20, <1>21, <1>22, <1>23
     DEF CallStep

LEMMA RecoveryStepType ==
  ASSUME TypeOK, NEW c \in Contracts, RecoveryStep(c)
  PROVE  TypeOK'
<1> USE TypeGroups
<1>1. CASE MarkCompensating(c)
  BY <1>1, TypeGroupsNext DEF MarkCompensating, RecoveryAt, OtcTypes, BankTypes,
     ControlTypes, EnvTypes, bankVars, envVars, RecoveryLabels
<1>2. CASE ReadLog(c)
  <2>1. FirstCompensator(logged[c]) \in RecoveryLabels
    BY DEF FirstCompensator, RecoveryLabels
  <2> QED
    BY <1>2, <2>1, TypeGroupsNext DEF ReadLog, RecoveryAt, OtcTypes, BankTypes,
       ControlTypes, EnvTypes, otcVars, bankVars, envVars, RecoveryLabels
<1>3. CASE RecoverStep(c)
  <2>1. /\ Update(shares, Seller[c], Amount[c], Amount[c]) \in ShareTable
        /\ Update(shares, Buyer[c], -Amount[c], 0) \in ShareTable
        /\ Update(shares, Seller[c], 0, -Amount[c]) \in ShareTable
    BY UpdateType DEF BankTypes
  <2>2. /\ Move(account, FoundAccount[c], Pay[c], 0) \in AccountTable
        /\ Move(account, SellerAccount[c], -Receive[c], -Receive[c]) \in AccountTable
        /\ Move(account, FoundAccount[c], 0, Pay[c]) \in AccountTable
    BY MoveType DEF BankTypes
  <2>3. BankTypes' /\ EnvTypes'
    BY <1>3, <2>1, <2>2, RetriedType DEF RecoverStep, Recover, BankTypes
  <2>4. OtcTypes' BY <1>3 DEF RecoverStep, Recover, OtcTypes, otcVars
  <2>5. ControlTypes'
    BY <1>3 DEF RecoverStep, Recover, RecoveryAt, ControlTypes, RecoveryLabels
  <2> QED BY <2>3, <2>4, <2>5, TypeGroupsNext
<1>4. CASE MarkCompensated(c)
  BY <1>4, TypeGroupsNext DEF MarkCompensated, RecoveryAt, OtcTypes, BankTypes,
     ControlTypes, EnvTypes, bankVars, envVars, RecoveryLabels
<1> QED BY <1>1, <1>2, <1>3, <1>4 DEF RecoveryStep

LEMMA NextType == TypeOK /\ [Next]_vars => TypeOK'
<1> SUFFICES ASSUME TypeOK, [Next]_vars PROVE TypeOK'
  OBVIOUS
<1> USE TypeGroups
<1>1. ASSUME NEW p \in Calls, CallStep(p) PROVE TypeOK'
  BY <1>1, CallStepType
<1>2. ASSUME NEW p \in Calls, Disconnect(p) PROVE TypeOK'
  BY <1>2, CallIsPair, TypeGroupsNext DEF Disconnect, OtcTypes, BankTypes,
     ControlTypes, EnvTypes, bankVars, envVars
<1>3. ASSUME NEW c \in Contracts, RecoveryStep(c) PROVE TypeOK'
  BY <1>3, RecoveryStepType
<1>4. ASSUME NEW c \in Contracts, SettlementPasses(c) PROVE TypeOK'
  BY <1>4, TypeGroupsNext DEF SettlementPasses, OtcTypes, BankTypes, ControlTypes,
     EnvTypes, bankVars, envVars
<1>5. CASE RecoverInFlightSagas
  BY <1>5, TypeGroupsNext DEF RecoverInFlightSagas, OtcTypes, BankTypes,
     ControlTypes, EnvTypes, otcVars, bankVars, RecoveryLabels
<1>6. CASE ExpireContracts
  BY <1>6, TypeGroupsNext DEF ExpireContracts, OtcTypes, BankTypes, ControlTypes,
     EnvTypes, bankVars, envVars
<1>7. ASSUME NEW u \in Users, SellOnExchange(u) PROVE TypeOK'
  <2>1. DropEmpty(Update(shares, u, -1, 0), u) \in ShareTable
    BY UpdateType, DropEmptyType DEF BankTypes
  <2> QED
    BY <1>7, <2>1, TypeGroupsNext DEF SellOnExchange, OtcTypes, BankTypes,
       ControlTypes, EnvTypes, otcVars
<1>8. CASE Crash
  <2>1. OtcTypes' /\ BankTypes' BY <1>8 DEF Crash, OtcTypes, BankTypes, bankVars
  <2>2. ControlTypes'
    <3>1. pc' = [p \in Calls |-> IF Busy(p) THEN "lost" ELSE pc[p]]
      BY <1>8 DEF Crash
    <3>2. pc' \in [Calls -> Labels] BY <3>1 DEF ControlTypes, Labels, Replied
    <3>3. rpc' \in [Contracts -> RecoveryLabels] BY <1>8 DEF Crash, RecoveryLabels
    <3> QED BY <3>2, <3>3 DEF ControlTypes
  <2>3. EnvTypes'
    <3>1. /\ crashes' = crashes + 1 /\ scanned' = FALSE
          /\ giveUps' = giveUps /\ sales' = sales
      BY <1>8 DEF Crash
    <3>2. crashes' \in Nat BY <3>1 DEF TypeOK
    <3>3. giveUps' \in Nat /\ sales' \in Nat BY <3>1 DEF TypeOK
    <3>4. scanned' \in BOOLEAN BY <3>1
    <3> QED BY <3>2, <3>3, <3>4 DEF EnvTypes
  <2> QED BY <2>1, <2>2, <2>3, TypeGroupsNext
<1>9. CASE UNCHANGED vars
  BY <1>9 DEF vars, otcVars, bankVars, envVars, TypeOK
<1> QED
  BY <1>1, <1>2, <1>3, <1>4, <1>5, <1>6, <1>7, <1>8, <1>9 DEF Next

(* Every statement the handler, its compensators and the recovery issue    *)
(* leaves the tables and the control state well formed, for any instance.  *)
THEOREM TypeCorrect == Spec => []TypeOK
BY InitType, NextType, PTL DEF Spec

(***************************************************************************)
(* LockProtects is inductive.  A step of one call changes the label of     *)
(* that call only; what matters of it is collected here.                   *)
(***************************************************************************)

(* Past the commit, or answered "ok".                                      *)
Settled == Committed \cup {"ok"}

(* No SUCCESS row was refused.                                             *)
LogKept == "sagaLog" \notin Faults

(* A step that touches neither contract nor lock, adds at most to logged,  *)
(* does not complete a saga and moves call p between labels for which      *)
(* nothing new is claimed keeps the invariant.                             *)
LEMMA QuietStep ==
  ASSUME TypeOK, LockProtects, NEW p \in Calls, NEW to \in Labels,
         contract' = contract, lock' = lock,
         pc' = [pc EXCEPT ![p] = to],
         \A c \in Contracts : logged[c] \subseteq logged'[c],
         \A c \in Contracts : saga'[c] = "Completed" => saga[c] = "Completed",
         to \in Forward => pc[p] \in Forward,
         LogKept => \A n \in 1..4 : to \in Behind(n) => n \in logged'[p[1]],
         to \notin Settled
  PROVE  LockProtects'
<1> USE DEF TypeOK
<1>1. \A q \in Calls : q[1] \in Contracts BY CallIsPair
<1>2. \A q \in Calls : pc'[q] = IF q = p THEN to ELSE pc[q] OBVIOUS
<1>3. LockedIsActive'
  BY <1>2 DEF LockProtects, LockedIsActive, Holds
<1>4. CommittedIsExercised'
  BY <1>2 DEF LockProtects, CommittedIsExercised, Settled
<1>5. LoggedInOrder'
  <2> SUFFICES ASSUME LogKept, NEW q \in Calls, NEW n \in 1..4,
                      pc'[q] \in Behind(n)
               PROVE  n \in logged'[q[1]]
    BY DEF LoggedInOrder, Behind, LogKept
  <2>1. CASE q = p BY <1>2, <2>1
  <2>2. CASE q # p BY <1>1, <1>2, <2>2 DEF LockProtects, LoggedInOrder, LogKept
  <2> QED BY <2>1, <2>2
<1>6. ExercisedOnce'
  BY <1>2 DEF LockProtects, ExercisedOnce, Settled
<1>7. CompletedIsExercised'
  BY <1>2 DEF LockProtects, CompletedIsExercised, Settled
<1>8. LoggedBeforeExercised'
  BY DEF LockProtects, LoggedBeforeExercised
<1> QED BY <1>3, <1>4, <1>5, <1>6, <1>7, <1>8 DEF LockProtects

(* Moves between labels for which nothing new is claimed.                  *)
QuietMove(from, to) ==
  /\ to \in Labels \ Settled
  /\ to \in Forward => from \in Forward
  /\ \A n \in 1..4 : to \in Behind(n) => from \in Behind(n)

SagaQuiet == \A c \in Contracts : saga'[c] = "Completed" => saga[c] = "Completed"

LEMMA QuietLabels ==
  /\ \A from, to : to \in Undoing => QuietMove(from, to)
  /\ QuietMove("insertSaga", "reserveFunds") /\ QuietMove("reserveFunds", "log1")
  /\ QuietMove("reserveShares", "log2") /\ QuietMove("debitBuyer", "creditSeller")
  /\ QuietMove("creditSeller", "log3") /\ QuietMove("takeShares", "dropRow")
  /\ QuietMove("dropRow", "giveShares") /\ QuietMove("giveShares", "log4")
  /\ QuietMove("verify", "commit")
BY DEF QuietMove, Settled, Labels, Forward, Undoing, Committed, Behind

LEMMA QuietSaga ==
  ASSUME TypeOK, NEW p \in Calls,
         \/ UNCHANGED saga \/ SagaStatus(p, "Compensating")
         \/ SagaStatus(p, "Running") \/ SagaStatus(p, "Compensated")
  PROVE  SagaQuiet
BY CallIsPair DEF TypeOK, SagaQuiet, SagaStatus

LEMMA QuietMoveStep ==
  ASSUME TypeOK, LockProtects, NEW p \in Calls, NEW from, NEW to,
         At(p, from, to), QuietMove(from, to), SagaQuiet,
         contract' = contract, lock' = lock, logged' = logged
  PROVE  LockProtects'
<1>1. LogKept => \A n \in 1..4 : to \in Behind(n) => n \in logged'[p[1]]
  BY DEF LogKept, At, QuietMove, LockProtects, LoggedInOrder
<1> QED BY <1>1, QuietStep DEF At, QuietMove, SagaQuiet

(* Every step of a call but these seven is a quiet move.                   *)
LEMMA QuietCallStep ==
  ASSUME TypeOK, LockProtects, NEW p \in Calls, CallStep(p),
         ~CheckCompleted(p), ~LockContract(p), ~LookupFails(p), ~LogStep(p),
         ~CommitContract(p), ~LogCompleted(p), ~RecordExerciseTax(p),
         ~EndCompensated(p)
  PROVE  LockProtects'
<1> USE QuietLabels, QuietSaga, QuietMoveStep
<1>0. ASSUME NEW from, NEW to, Fails(p, from, to), to \in Undoing
      PROVE  LockProtects'
  BY <1>0 DEF Fails
<1>1. CASE InsertSaga(p)
  <2>1. SagaQuiet
    BY <1>1, CallIsPair DEF InsertSaga, SagaQuiet, TypeOK
  <2> QED BY <1>1, <2>1 DEF InsertSaga
<1>2. CASE ReserveFunds(p)
  BY <1>0, <1>2 DEF ReserveFunds, Statement, otcVars, Undoing
<1>3. CASE ReserveShares(p)
  BY <1>0, <1>3 DEF ReserveShares, Statement, otcVars, Undoing
<1>4. CASE DebitBuyer(p)
  BY <1>0, <1>4 DEF DebitBuyer, Statement, otcVars, Undoing
<1>5. CASE CreditSeller(p)
  BY <1>5 DEF CreditSeller, Statement, otcVars, Undoing
<1>6. CASE UndoDebit(p)
  BY <1>6 DEF UndoDebit, Undoing
<1>7. CASE TakeShares(p)
  BY <1>0, <1>7 DEF TakeShares, Statement, otcVars, Undoing
<1>8. CASE DropRow(p)
  BY <1>8 DEF DropRow, otcVars
<1>9. CASE GiveShares(p)
  BY <1>9 DEF GiveShares, Statement, otcVars, Undoing
<1>10. CASE UndoTake(p)
  BY <1>10 DEF UndoTake, Undoing
<1>11. CASE VerifyHolding(p)
  BY <1>0, <1>11 DEF VerifyHolding, Statement, otcVars, Undoing
<1>12. CASE Comp4(p)
  BY <1>12 DEF Comp4, Compensate, otcVars, Undoing
<1>13. CASE Comp3(p)
  BY <1>13 DEF Comp3, Compensate, otcVars, Undoing
<1>14. CASE Comp2(p)
  BY <1>14 DEF Comp2, Compensate, otcVars, Undoing
<1>15. CASE Comp1(p)
  BY <1>15 DEF Comp1, Compensate, otcVars, Undoing
<1> QED
  BY <1>1, <1>2, <1>3, <1>4, <1>5, <1>6, <1>7, <1>8, <1>9, <1>10, <1>11, <1>12,
     <1>13, <1>14, <1>15 DEF CallStep

LEMMA LogStepKeeps ==
  ASSUME TypeOK, LockProtects, NEW p \in Calls, LogStep(p)
  PROVE  LockProtects'
<1>1. PICK n \in 1..4, from \in Forward, to \in Forward :
        /\ LogSuccess(p, n, from, to)
        /\ to \notin Settled
        /\ \A m \in 1..4 : to \in Behind(m) => m = n \/ from \in Behind(m)
  BY DEF LogStep, Settled, Committed, Forward, Behind
<1>2. /\ pc[p] = from /\ contract' = contract /\ lock' = lock
      /\ pc' = [pc EXCEPT ![p] = to] /\ SagaQuiet /\ SagaLog(p, n)
  BY <1>1, QuietSaga DEF LogSuccess, At
<1>3. \A c \in Contracts : logged[c] \subseteq logged'[c]
  <2>1. CASE logged' = [logged EXCEPT ![p[1]] = @ \cup {n}]
    BY <2>1 DEF TypeOK
  <2> QED BY <1>2, <2>1 DEF SagaLog
<1>4. LogKept => n \in logged'[p[1]]
  BY <1>2, CallIsPair DEF TypeOK, SagaLog, LogKept
<1>5. LogKept => \A m \in 1..4 : to \in Behind(m) => m \in logged'[p[1]]
  BY <1>1, <1>2, <1>3, <1>4, CallIsPair DEF LockProtects, LoggedInOrder, LogKept
<1> QED BY <1>1, <1>2, <1>3, <1>5, QuietStep DEF SagaQuiet, Labels

(* The commit is the one step that may claim a contract EXERCISED: the     *)
(* lock is held, so the contract was ACTIVE and nobody had committed it.   *)
LEMMA CommitKeeps ==
  ASSUME TypeOK, LockProtects, NEW p \in Calls, CommitContract(p)
  PROVE  LockProtects'
<1> DEFINE c == p[1]
<1> USE DEF TypeOK
<1>0. c \in Contracts /\ p[2] \in Callers BY CallIsPair
<1>1. CASE Fails(p, "commit", "c4seller")
  BY <1>1, QuietLabels, QuietSaga, QuietMoveStep DEF Fails, Undoing
<1>2. CASE ~Fails(p, "commit", "c4seller")
  <2>1. PICK to \in {"log5", "c4seller"} :
        /\ pc[p] = "commit" /\ pc' = [pc EXCEPT ![p] = to] /\ Holds(p)
        /\ contract' = [contract EXCEPT ![c] = "EXERCISED"]
        /\ lock' = [lock EXCEPT ![c] = None]
        /\ SagaQuiet /\ logged' = logged
    BY <1>2, QuietSaga DEF CommitContract, Statement, At, Release
  <2>2. contract[c] = "ACTIVE" /\ (LogKept => 1..4 \subseteq logged[c])
    <3>1. contract[c] = "ACTIVE"
      BY <2>1 DEF LockProtects, LockedIsActive, Forward
    <3>2. \A n \in 1..4 : "commit" \in Behind(n) BY DEF Behind, Forward
    <3> QED BY <2>1, <3>1, <3>2 DEF LockProtects, LoggedInOrder, LogKept
  <2>3. \A q \in Calls : q[1] \in Contracts /\ q[2] \in Callers BY CallIsPair
  <2>4. \A q \in Calls : pc'[q] = IF q = p THEN to ELSE pc[q] BY <2>1
  <2>5. LockedIsActive'
    <3>0. to \notin Forward BY DEF Forward
    <3> SUFFICES ASSUME NEW q \in Calls, pc'[q] \in Forward, lock'[q[1]] = q[2]
                 PROVE  contract'[q[1]] = "ACTIVE"
      BY DEF LockedIsActive, Holds
    <3>1. q[1] # c BY <1>0, <2>1, <2>3, CallersAssumption
    <3>2. q # p BY <3>1
    <3> QED BY <2>1, <2>3, <2>4, <3>1, <3>2 DEF LockProtects, LockedIsActive, Holds
  <2>6. CommittedIsExercised'
    BY <1>0, <2>1, <2>3, <2>4 DEF LockProtects, CommittedIsExercised
  <2>7. LoggedInOrder'
    <3>1. \A n \in 1..4 : to \notin Behind(n) BY DEF Behind, Forward
    <3> SUFFICES ASSUME LogKept, NEW q \in Calls, NEW n \in 1..4,
                      pc'[q] \in Behind(n)
                 PROVE  n \in logged'[q[1]]
      BY DEF LoggedInOrder, Behind, LogKept
    <3> QED BY <2>1, <2>4, <3>1 DEF LockProtects, LoggedInOrder, LogKept
  <2>8. ExercisedOnce'
    BY <2>2, <2>4 DEF LockProtects, ExercisedOnce, CommittedIsExercised
  <2>9. CompletedIsExercised'
    BY <1>0, <2>1, <2>3, <2>4 DEF LockProtects, CompletedIsExercised, SagaQuiet
  <2>10. LoggedBeforeExercised'
    BY <1>0, <2>1, <2>2 DEF LockProtects, LoggedBeforeExercised, LogKept
  <2> QED BY <2>5, <2>6, <2>7, <2>8, <2>9, <2>10 DEF LockProtects
<1> QED BY <1>1, <1>2

(* The other steps of a call.                                              *)
LEMMA OtherCallSteps ==
  ASSUME TypeOK, LockProtects, NEW p \in Calls,
         \/ CheckCompleted(p) \/ LockContract(p) \/ LookupFails(p)
         \/ LogCompleted(p) \/ RecordExerciseTax(p) \/ EndCompensated(p)
  PROVE  LockProtects'
<1> DEFINE c == p[1]
<1> USE DEF TypeOK
<1>0. \A q \in Calls : q[1] \in Contracts /\ q[2] \in Callers BY CallIsPair
<1>1. \A q \in Calls : \A n \in 1..4 : pc'[q] \in Behind(n) => pc[q] = pc'[q]
  <2>1. /\ pc' = [pc EXCEPT ![p] = pc'[p]]
        /\ pc'[p] \in {"ok", "lock", "insertSaga", "rejected", "tax", "failed"}
    BY DEF CheckCompleted, LockContract, LookupFails, LogCompleted,
           RecordExerciseTax, EndCompensated, At
  <2>2. \A n \in 1..4 : pc'[p] \notin Behind(n) BY <2>1 DEF Behind, Forward
  <2>3. \A q \in Calls : q # p => pc'[q] = pc[q] BY <2>1
  <2> QED BY <2>2, <2>3
<1>2. \A d \in Contracts : logged[d] \subseteq logged'[d]
  BY <1>0, ZenonT(60) DEF CheckCompleted, LockContract, LookupFails, LogCompleted, SagaLog,
     RecordExerciseTax, EndCompensated, otcVars
<1>3. contract' = contract
  BY DEF CheckCompleted, LockContract, LookupFails, LogCompleted, RecordExerciseTax,
     EndCompensated, otcVars
<1>4. LoggedInOrder' /\ LoggedBeforeExercised'
  <2>1. LoggedInOrder'
    <3> SUFFICES ASSUME LogKept, NEW q \in Calls, NEW n \in 1..4,
                      pc'[q] \in Behind(n)
                 PROVE  n \in logged'[q[1]]
      BY DEF LoggedInOrder, Behind, LogKept
    <3> QED BY <1>0, <1>1, <1>2 DEF LockProtects, LoggedInOrder, LogKept
  <2> QED BY <1>2, <1>3, <2>1 DEF LockProtects, LoggedBeforeExercised
<1>5. CASE CheckCompleted(p)
  BY <1>0, <1>3, <1>4, <1>5 DEF CheckCompleted, At, LockProtects, LockedIsActive,
     CommittedIsExercised, ExercisedOnce, CompletedIsExercised, Holds, otcVars,
     Forward, Committed
<1>6. CASE LockContract(p)
  <2>1. LockedIsActive'
    BY <1>0, <1>3, <1>6, CallersAssumption, ZenonT(60) DEF LockContract, At, LockProtects,
       LockedIsActive, Holds, Forward
  <2>2. CommittedIsExercised' /\ ExercisedOnce' /\ CompletedIsExercised'
    <3>1. \A q \in Calls : pc'[q] \in Settled => pc'[q] = pc[q]
      BY <1>6 DEF LockContract, At, Settled, Committed
    <3>2. saga' = saga BY <1>6 DEF LockContract
    <3> QED
      BY <1>0, <1>3, <3>1, <3>2 DEF LockProtects, CommittedIsExercised,
         ExercisedOnce, CompletedIsExercised, Settled
  <2> QED BY <1>4, <2>1, <2>2 DEF LockProtects
<1>7. CASE LookupFails(p)
  <2>1. /\ pc' = [pc EXCEPT ![p] = "rejected"] /\ saga' = saga
        /\ \A d \in Contracts : lock'[d] \in {lock[d], None}
    BY <1>0, <1>7 DEF LookupFails, Release, At
  <2> QED
    BY <1>0, <1>3, <1>4, <2>1, CallersAssumption DEF LockProtects, LockedIsActive,
       CommittedIsExercised, ExercisedOnce, CompletedIsExercised, Holds, Forward,
       Committed
<1>8. CASE LogCompleted(p)
  <2>1. /\ pc[p] = "log5" /\ pc' = [pc EXCEPT ![p] = "tax"] /\ lock' = lock
        /\ \A d \in Contracts : d # c => saga'[d] = saga[d]
    BY <1>0, <1>8 DEF LogCompleted, SagaStatus, At
  <2>2. contract[c] = "EXERCISED"
    BY <2>1 DEF LockProtects, CommittedIsExercised, Committed
  <2> QED
    BY <1>0, <1>3, <1>4, <2>1, <2>2 DEF LockProtects, LockedIsActive,
       CommittedIsExercised, ExercisedOnce, CompletedIsExercised, Holds, Forward,
       Committed
<1>9. CASE RecordExerciseTax(p)
  BY <1>0, <1>3, <1>4, <1>9 DEF RecordExerciseTax, At, LockProtects, LockedIsActive,
     CommittedIsExercised, ExercisedOnce, CompletedIsExercised, Holds, Forward, Committed
<1>10. CASE EndCompensated(p)
  BY <1>0, <1>3, <1>4, <1>10, CallersAssumption DEF EndCompensated, SagaStatus, Release,
     At, LockProtects, LockedIsActive, CommittedIsExercised, ExercisedOnce,
     CompletedIsExercised, Holds, Forward, Committed
<1> QED BY <1>5, <1>6, <1>7, <1>8, <1>9, <1>10

LEMMA CallStepKeeps ==
  ASSUME TypeOK, LockProtects, NEW p \in Calls, CallStep(p)
  PROVE  LockProtects'
BY QuietCallStep, LogStepKeeps, CommitKeeps, OtherCallSteps

(* A step that leaves the calls alone keeps the invariant when it changes  *)
(* neither the contracts' status nor the logs, frees locks at most, and    *)
(* completes no saga.                                                      *)
LEMMA BystanderStep ==
  ASSUME TypeOK, LockProtects, SagaQuiet, contract' = contract, logged' = logged,
         pc' = pc, \A c \in Contracts : lock'[c] \in {lock[c], None}
  PROVE  LockProtects'
<1>1. \A q \in Calls : q[1] \in Contracts /\ q[2] \in Callers BY CallIsPair
<1>2. LockedIsActive'
  BY <1>1, CallersAssumption DEF LockProtects, LockedIsActive, Holds
<1>3. CompletedIsExercised'
  BY DEF LockProtects, CompletedIsExercised, SagaQuiet
<1>4. /\ CommittedIsExercised' /\ LoggedInOrder' /\ ExercisedOnce'
      /\ LoggedBeforeExercised'
  BY DEF LockProtects, CommittedIsExercised, LoggedInOrder, ExercisedOnce,
     LoggedBeforeExercised, Behind
<1> QED BY <1>2, <1>3, <1>4 DEF LockProtects

LEMMA RecoveryStepKeeps ==
  ASSUME TypeOK, LockProtects, NEW c \in Contracts, RecoveryStep(c)
  PROVE  LockProtects'
<1> USE DEF TypeOK
<1>1. SagaQuiet
  BY DEF RecoveryStep, MarkCompensating, ReadLog, RecoverStep, Recover,
     MarkCompensated, SagaQuiet, otcVars
<1>2. contract' = contract /\ logged' = logged /\ pc' = pc /\ lock' = lock
  BY DEF RecoveryStep, MarkCompensating, ReadLog, RecoverStep, Recover,
     MarkCompensated, otcVars
<1> QED BY <1>1, <1>2, BystanderStep

(* Expiry waits for every row lock, so no call that holds one can lose its *)
(* ACTIVE contract to it.                                                  *)
LEMMA ExpiryKeeps ==
  ASSUME TypeOK, LockProtects, ExpireContracts
  PROVE  LockProtects'
<1>1. \A q \in Calls : q[1] \in Contracts /\ q[2] \in Callers BY CallIsPair
<1>2. \A c \in Contracts :
        \/ contract'[c] = contract[c]
        \/ contract[c] = "ACTIVE" /\ lock[c] = None /\ contract'[c] = "EXPIRED"
  <2> DEFINE stale == {c \in due : contract[c] = "ACTIVE"}
  <2>1. /\ \A c \in stale : lock[c] = None
        /\ contract' = [c \in Contracts |-> IF c \in stale THEN "EXPIRED" ELSE contract[c]]
    BY DEF ExpireContracts
  <2>2. \A c \in Contracts :
          contract'[c] = IF c \in stale THEN "EXPIRED" ELSE contract[c]
    BY <2>1, Zenon
  <2>3. \A c \in stale : contract[c] = "ACTIVE" /\ lock[c] = None
    BY <2>1
  <2> HIDE DEF stale
  <2> QED BY <2>2, <2>3
<1>3. pc' = pc /\ lock' = lock /\ saga' = saga /\ logged' = logged
  BY DEF ExpireContracts
<1>4. LockedIsActive'
  BY <1>1, <1>2, <1>3, CallersAssumption DEF LockProtects, LockedIsActive, Holds
<1>5. CommittedIsExercised' /\ CompletedIsExercised' /\ LoggedBeforeExercised'
  BY <1>1, <1>2, <1>3 DEF LockProtects, CommittedIsExercised, CompletedIsExercised,
     LoggedBeforeExercised
<1>6. LoggedInOrder' /\ ExercisedOnce'
  BY <1>3 DEF LockProtects, LoggedInOrder, ExercisedOnce, Behind
<1> QED BY <1>4, <1>5, <1>6 DEF LockProtects

LEMMA CrashKeeps ==
  ASSUME TypeOK, LockProtects, Crash
  PROVE  LockProtects'
<1>1. \A q \in Calls : q[1] \in Contracts /\ q[2] \in Callers BY CallIsPair
<1>2. /\ \A q \in Calls : pc'[q] = "lost" \/ (~Busy(q) /\ pc'[q] = pc[q])
      /\ contract' = contract /\ saga' = saga /\ logged' = logged
  <2>1. pc' = [q \in Calls |-> IF Busy(q) THEN "lost" ELSE pc[q]] BY DEF Crash
  <2>2. contract' = contract /\ saga' = saga /\ logged' = logged BY DEF Crash
  <2>3. \A q \in Calls : pc'[q] = IF Busy(q) THEN "lost" ELSE pc[q]
    BY <2>1, Zenon
  <2> QED BY <2>2, <2>3 DEF Busy
<1>3. \A q \in Calls : pc'[q] \notin Forward \cup Committed
  BY <1>2 DEF Busy, Replied, Forward, Committed
<1>4. \A n \in 1..4 : Behind(n) \subseteq Forward BY DEF Behind, Forward
<1>5. LockedIsActive' /\ CommittedIsExercised' /\ ExercisedOnce'
  BY <1>3 DEF LockedIsActive, CommittedIsExercised, ExercisedOnce
<1>6. LoggedInOrder'
  <2> SUFFICES ASSUME LogKept, NEW q \in Calls, NEW n \in 1..4,
                      pc'[q] \in Behind(n)
               PROVE  FALSE
    BY DEF LoggedInOrder, Behind, LogKept
  <2> QED BY <1>3, <1>4
<1>7. CompletedIsExercised' /\ LoggedBeforeExercised'
  BY <1>2 DEF LockProtects, CompletedIsExercised, LoggedBeforeExercised
<1> QED BY <1>5, <1>6, <1>7 DEF LockProtects

LEMMA InitProtects == Init => LockProtects
BY CallIsPair DEF Init, LockProtects, LockedIsActive, CommittedIsExercised,
   LoggedInOrder, ExercisedOnce, CompletedIsExercised, LoggedBeforeExercised,
   Forward, Committed, Behind, None

LEMMA NextProtects == TypeOK /\ LockProtects /\ [Next]_vars => LockProtects'
<1> SUFFICES ASSUME TypeOK, LockProtects, [Next]_vars PROVE LockProtects'
  OBVIOUS
<1>1. ASSUME NEW p \in Calls, CallStep(p) PROVE LockProtects'
  BY <1>1, CallStepKeeps
<1>2. ASSUME NEW p \in Calls, Disconnect(p) PROVE LockProtects'
  BY <1>2, CallIsPair, BystanderStep DEF Disconnect, SagaQuiet, TypeOK
<1>3. ASSUME NEW c \in Contracts, RecoveryStep(c) PROVE LockProtects'
  BY <1>3, RecoveryStepKeeps
<1>4. ASSUME NEW c \in Contracts, SettlementPasses(c) PROVE LockProtects'
  BY <1>4, BystanderStep DEF SettlementPasses, SagaQuiet
<1>5. CASE RecoverInFlightSagas
  BY <1>5, BystanderStep DEF RecoverInFlightSagas, SagaQuiet, otcVars
<1>6. CASE ExpireContracts
  BY <1>6, ExpiryKeeps
<1>7. ASSUME NEW u \in Users, SellOnExchange(u) PROVE LockProtects'
  BY <1>7, BystanderStep DEF SellOnExchange, SagaQuiet, otcVars
<1>8. CASE Crash
  BY <1>8, CrashKeeps
<1>9. CASE UNCHANGED vars
  BY <1>9, BystanderStep DEF vars, otcVars, SagaQuiet
<1> QED
  BY <1>1, <1>2, <1>3, <1>4, <1>5, <1>6, <1>7, <1>8, <1>9 DEF Next

(* The inductive invariant, for any instance.                              *)
THEOREM LockProtectsAlways == Spec => []LockProtects
BY TypeCorrect, InitProtects, NextProtects, PTL DEF Spec

(* At most one call ever carries a contract past the commit of its row.    *)
THEOREM ExercisedAtMostOnce == Spec => []ExercisedOnce
<1>1. LockProtects => ExercisedOnce BY DEF LockProtects
<1> QED BY <1>1, LockProtectsAlways, PTL

(* The answer EXERCISED and the saga status Completed are never premature. *)
THEOREM CompletionIsTrue == Spec => []CompletedIsExercised
<1>1. LockProtects => CompletedIsExercised BY DEF LockProtects
<1> QED BY <1>1, LockProtectsAlways, PTL

(* Every exercised contract has the SUCCESS rows of its four transfers.    *)
THEOREM LogIsComplete == Spec => []LoggedBeforeExercised
<1>1. LockProtects => LoggedBeforeExercised BY DEF LockProtects
<1> QED BY <1>1, LockProtectsAlways, PTL

(* EXERCISED and EXPIRED are final.                                        *)
THEOREM FinalStatus == Spec => StatusIsFinal
<1> DEFINE Keeps == \A c \in Contracts : contract[c] # "ACTIVE" => contract'[c] = contract[c]
<1>1. TypeOK /\ LockProtects /\ [Next]_vars => [Keeps]_vars
  <2> SUFFICES ASSUME TypeOK, LockProtects, Next PROVE Keeps
    OBVIOUS
  <2>1. ASSUME NEW p \in Calls, CommitContract(p) PROVE Keeps
    <3>1. CASE Holds(p) /\ pc[p] = "commit"
      BY <2>1, <3>1, CallIsPair DEF CommitContract, Fails, Statement, LockProtects,
         LockedIsActive, Forward, TypeOK
    <3>2. CASE ~(Holds(p) /\ pc[p] = "commit")
      BY <2>1, <3>2 DEF CommitContract, Fails, Statement, At
    <3> QED BY <3>1, <3>2
  <2>2. ASSUME NEW p \in Calls, CallStep(p), ~CommitContract(p) PROVE contract' = contract
    BY <2>2 DEF CallStep, CheckCompleted, LockContract, InsertSaga, LookupFails,
       ReserveFunds, ReserveShares, DebitBuyer, CreditSeller, UndoDebit, TakeShares,
       DropRow, GiveShares, UndoTake, VerifyHolding, LogStep, LogSuccess, LogCompleted,
       RecordExerciseTax, Comp4, Comp3, Comp2, Comp1, Compensate, EndCompensated,
       Fails, otcVars
  <2>3. CASE ExpireContracts
    BY <2>3 DEF ExpireContracts, TypeOK
  <2>4. ASSUME NEW c \in Contracts, RecoveryStep(c) PROVE contract' = contract
    BY <2>4 DEF RecoveryStep, MarkCompensating, ReadLog, RecoverStep, Recover,
       MarkCompensated, otcVars
  <2>5. CASE \/ \E p \in Calls : Disconnect(p)
             \/ \E c \in Contracts : SettlementPasses(c)
             \/ RecoverInFlightSagas
             \/ \E u \in Users : SellOnExchange(u)
             \/ Crash
    BY <2>5 DEF Disconnect, SettlementPasses, RecoverInFlightSagas, SellOnExchange,
       Crash, otcVars
  <2> QED BY <2>1, <2>2, <2>3, <2>4, <2>5 DEF Next
<1> QED BY <1>1, TypeCorrect, LockProtectsAlways, PTL DEF Spec, StatusIsFinal

(***************************************************************************)
(* The books: what calls and recoveries have moved.                        *)
(***************************************************************************)

(* No statement is given up after three attempts, nobody sells on the      *)
(* exchange meanwhile, and a commit that took effect is answered.          *)
Undoable == MaxGiveUps = 0 /\ MaxSales = 0 /\ "commitAnswer" \notin Faults

(* Who sells does not buy: nobody sells shares that an exercise which may  *)
(* still be undone has given him.                                          *)
OneSided == \A c, d \in Contracts : Seller[c] # Buyer[d]

(* The process is never killed, or else where recovery can tell from the   *)
(* log what there is to undo: one call per contract (a further one has no  *)
(* saga row), killed between the SUCCESS row of a step and the next        *)
(* statement, the rows of the saga all written, the buyer's account found. *)
Killed ==
  /\ \A p, q \in Calls : p[1] = q[1] => p = q
  /\ CrashPoints \subseteq CleanBoundaries
  /\ Faults \cap {"insertSaga", "sagaLog", "sagaStatus", "readLog"} = {}
  /\ FoundAccount = PayingAccount /\ NoContractCurrency = {}
Recoverable == MaxCrashes = 0 \/ Killed

(* Two things the code leaves to luck.  No call arrives before the scan    *)
(* that main starts beside the server has run, and the row of a seller     *)
(* whose shares are put back by UPDATE is still there.                     *)
ScanFirst == ~scanned => \A p \in Calls : ~Busy(p)
RowFound ==
  \A p \in Calls : pc[p] = "undoTake" \/ rpc[p[1]] = "r4seller" => shares[Seller[p[1]]].row

(* What the tables show without the calls under way.                       *)
Books ==
  /\ \A a \in Accounts :
       /\ EffectiveBalance[a] = InitBalance[a]
            - Exercised(PayingAccount, a, Pay) + Exercised(SellerAccount, a, Receive)
       /\ EffectiveAvailable[a] = InitBalance[a]
            - Exercised(PayingAccount, a, Pay) + Exercised(SellerAccount, a, Receive)
  /\ \A u \in Users :
       /\ EffectiveHolding[u] = InitShares[u]
            - Exercised(Seller, u, Amount) + Exercised(Buyer, u, Amount)
       /\ EffectiveReserved[u] = 0

(* A row that is not there held nothing, and what sellers have reserved    *)
(* they have.                                                              *)
Rows ==
  /\ \A u \in Users : ~shares[u].row => shares[u].amount = 0 /\ shares[u].reserved = 0
  /\ \A c \in Contracts : shares[Seller[c]].reserved =< shares[Seller[c]].amount

Interrupted(c) == saga[c] \in {"Running", "Compensating"}
LogAt(l) ==
  CASE l \in {"idle", "lock", "insertSaga", "reserveFunds", "log1"} -> {}
    [] l \in {"reserveShares", "log2"} -> {1}
    [] l \in {"debitBuyer", "creditSeller", "log3"} -> {1, 2}
    [] l \in {"takeShares", "dropRow", "giveShares", "log4"} -> {1, 2, 3}
    [] l \in {"verify", "commit"} -> 1..4

(* What a crash finds: the saga and the log of a live call say where it    *)
(* is, its contract is not being recovered, and whoever is lost is either  *)
(* being recovered or waiting for the scan.                                *)
LiveCall(p) == LET c == p[1] IN
  /\ rpc[c] = "off"
  /\ p \notin tracked => saga[c] = None
  /\ p \in tracked =>
       \/ Interrupted(c) /\ Busy(p) /\ pc[p] # "tax"
       \/ saga[c] = "Completed" /\ pc[p] \in {"tax", "ok"}
       \/ saga[c] = "Compensated" /\ pc[p] = "failed"
  /\ pc[p] \in {"idle", "lock", "insertSaga"} => p \notin tracked
  /\ pc[p] \in Forward \ {"insertSaga", "reserveFunds"} => p \in tracked
  /\ pc[p] \in Forward => saga[c] \in {None, "Running"}
  /\ pc[p] = "reserveFunds" /\ Holds(p) => p \in tracked
  /\ pc[p] \in {"idle", "lock"} \cup Forward => logged[c] = LogAt(pc[p])
LostCall(p) == LET c == p[1] IN
  /\ rpc[c] \in {"mark", "read"} => Interrupted(c)
  /\ scanned /\ rpc[c] = "off" => ~Interrupted(c)
Control ==
  IF MaxCrashes = 0
  THEN /\ scanned /\ \A c \in Contracts : rpc[c] = "off"
       /\ \A p \in Calls : pc[p] # "lost"
  ELSE /\ \A p \in Calls : IF pc[p] = "lost" THEN LostCall(p) ELSE LiveCall(p)
       /\ \A c \in Contracts : saga[c] # None => \E p \in Calls : p[1] = c
       /\ \A c \in Contracts : rpc[c] # "off" => scanned /\ \E p \in Calls : p[1] = c

BooksInv == Books /\ Rows /\ Control

(***************************************************************************)
(* Sums over calls and contracts.                                          *)
(***************************************************************************)
Share(labels, l, n) == IF l \in labels THEN n ELSE 0

(* Every call but p stands where it stood.                                 *)
Only(p) == \A q \in Calls \ {p} : Stage(q)' = Stage(q)

LEMMA InFlightNat ==
  ASSUME NEW labels, NEW where, NEW x, NEW weight \in [Contracts -> Nat]
  PROVE  InFlight(labels, where, x, weight) \in Nat
<1> DEFINE f == [p \in Calls |-> weight[p[1]]]
           S == {p \in Calls : Stage(p) \in labels /\ where[p[1]] = x}
<1>1. \A p \in S : f[p] \in Nat BY CallIsPair
<1>2. S \subseteq Calls OBVIOUS
<1> HIDE DEF f, S
<1>3. IsFiniteSet(S) BY <1>2, FS_Subset, FiniteAssumption
<1>4. SumFunctionOnSet(f, S) \in Nat BY <1>1, <1>3, SumNat
<1> QED BY <1>4 DEF f, S, InFlight

(* A call at one of the labels has its share in the sum.                   *)
LEMMA OwnShare ==
  ASSUME NEW labels, NEW where, NEW weight \in [Contracts -> Nat],
         NEW p \in Calls, Stage(p) \in labels
  PROVE  weight[p[1]] =< InFlight(labels, where, where[p[1]], weight)
<1> DEFINE f == [q \in Calls |-> weight[q[1]]]
           S == {q \in Calls : Stage(q) \in labels /\ where[q[1]] = where[p[1]]}
<1>1. \A q \in S : f[q] \in Nat BY CallIsPair
<1>2. S \subseteq Calls /\ p \in S /\ f[p] = weight[p[1]] OBVIOUS
<1> HIDE DEF f, S
<1>3. IsFiniteSet(S) BY <1>2, FS_Subset, FiniteAssumption
<1>4. f[p] =< SumFunctionOnSet(f, S) BY <1>1, <1>2, <1>3, SumNat
<1> QED BY <1>2, <1>4 DEF f, S, InFlight

(* The sum over the calls at the labels is a sum over all calls.           *)
LEMMA SumOverCalls ==
  ASSUME NEW weight \in [Contracts -> Int], NEW S \in SUBSET Calls
  PROVE  SumFunctionOnSet([p \in Calls |-> weight[p[1]]], S)
           = SumFunctionOnSet([p \in Calls |-> IF p \in S THEN weight[p[1]] ELSE 0], Calls)
<1> DEFINE f == [p \in Calls |-> weight[p[1]]]
<1>1. \A p \in S : f[p] \in Int BY CallIsPair
<1>2. [p \in Calls |-> IF p \in S THEN weight[p[1]] ELSE 0]
        = [p \in Calls |-> IF p \in S THEN f[p] ELSE 0]
  OBVIOUS
<1>3. IsFiniteSet(Calls) /\ S \in SUBSET Calls BY FiniteAssumption
<1> HIDE DEF f
<1>4. SumFunctionOnSet(f, S)
        = SumFunctionOnSet([p \in Calls |-> IF p \in S THEN f[p] ELSE 0], Calls)
  BY <1>1, <1>3, SumWhere
<1> QED BY <1>2, <1>4 DEF f

LEMMA InFlightChange ==
  ASSUME NEW labels, NEW where, NEW x, NEW weight \in [Contracts -> Nat],
         NEW p \in Calls, Only(p)
  PROVE  InFlight(labels, where, x, weight)' = InFlight(labels, where, x, weight)
           + IF where[p[1]] = x
             THEN Share(labels, Stage(p)', weight[p[1]]) - Share(labels, Stage(p), weight[p[1]])
             ELSE 0
<1> DEFINE S == {q \in Calls : Stage(q) \in labels /\ where[q[1]] = x}
           T == {q \in Calls : Stage(q)' \in labels /\ where[q[1]] = x}
           f == [q \in Calls |-> IF q \in S THEN weight[q[1]] ELSE 0]
           g == [q \in Calls |-> IF q \in T THEN weight[q[1]] ELSE 0]
<1>1. \A q \in Calls : f[q] \in Int /\ g[q] \in Int BY CallIsPair
<1>2. \A q \in Calls \ {p} : g[q] = f[q] BY DEF Only
<1>3. /\ f[p] = IF where[p[1]] = x THEN Share(labels, Stage(p), weight[p[1]]) ELSE 0
      /\ g[p] = IF where[p[1]] = x THEN Share(labels, Stage(p)', weight[p[1]]) ELSE 0
  BY DEF Share
<1>4. /\ InFlight(labels, where, x, weight) = SumFunctionOnSet(f, Calls)
      /\ InFlight(labels, where, x, weight)' = SumFunctionOnSet(g, Calls)
  <2>1. /\ S \in SUBSET Calls /\ T \in SUBSET Calls
        /\ weight \in [Contracts -> Int]
        /\ InFlight(labels, where, x, weight)
             = SumFunctionOnSet([q \in Calls |-> weight[q[1]]], S)
        /\ InFlight(labels, where, x, weight)'
             = SumFunctionOnSet([q \in Calls |-> weight[q[1]]], T)
    BY DEF InFlight
  <2> HIDE DEF S, T
  <2> QED BY <2>1, SumOverCalls
<1> HIDE DEF f, g
<1>5. SumFunctionOnSet(g, Calls) = SumFunctionOnSet(f, Calls) - f[p] + g[p]
  BY <1>1, <1>2, SumChange, FiniteAssumption
<1>6. SumFunctionOnSet(f, Calls) \in Int BY <1>1, SumInt, FiniteAssumption
<1>7. weight[p[1]] \in Int BY CallIsPair
<1> QED BY <1>1, <1>3, <1>4, <1>5, <1>6, <1>7 DEF Share

LEMMA InFlightKept ==
  ASSUME NEW labels, NEW where, NEW x, NEW weight,
         \A q \in Calls : Stage(q) \in labels <=> Stage(q)' \in labels
  PROVE  InFlight(labels, where, x, weight)' = InFlight(labels, where, x, weight)
<1>1. {q \in Calls : Stage(q) \in labels /\ where[q[1]] = x}
        = {q \in Calls : Stage(q)' \in labels /\ where[q[1]] = x}
  OBVIOUS
<1> QED BY <1>1 DEF InFlight

(* A party without calls at the labels has nothing in flight.              *)
LEMMA NothingInFlight ==
  ASSUME NEW labels, NEW where, NEW x, NEW weight,
         \A p \in Calls : where[p[1]] = x => Stage(p) \notin labels
  PROVE  InFlight(labels, where, x, weight) = 0
<1>1. {p \in Calls : Stage(p) \in labels /\ where[p[1]] = x} = {} OBVIOUS
<1> QED BY <1>1, SumEmpty DEF InFlight

LEMMA ExercisedNat ==
  ASSUME NEW where, NEW x, NEW weight \in [Contracts -> Nat]
  PROVE  Exercised(where, x, weight) \in Nat
<1> DEFINE f == [c \in Contracts |-> IF contract[c] = "EXERCISED" /\ where[c] = x
                                     THEN weight[c] ELSE 0]
<1>1. \A c \in Contracts : f[c] \in Nat OBVIOUS
<1> HIDE DEF f
<1>2. SumFunctionOnSet(f, Contracts) \in Nat BY <1>1, SumNat, FiniteAssumption
<1> QED BY <1>2 DEF f, Exercised

LEMMA NothingExercised ==
  ASSUME NEW where, NEW x, NEW weight,
         \A c \in Contracts : where[c] = x => contract[c] # "EXERCISED"
  PROVE  Exercised(where, x, weight) = 0
<1> DEFINE f == [c \in Contracts |-> IF contract[c] = "EXERCISED" /\ where[c] = x
                                     THEN weight[c] ELSE 0]
<1>1. \A c \in Contracts : f[c] = 0 OBVIOUS
<1> HIDE DEF f
<1>2. SumFunctionOnSet(f, Contracts) = 0 BY <1>1, SumZero, FiniteAssumption
<1> QED BY <1>2 DEF f, Exercised

LEMMA ExercisedKept ==
  ASSUME NEW where, NEW x, NEW weight,
         \A c \in Contracts : contract[c] = "EXERCISED" <=> contract'[c] = "EXERCISED"
  PROVE  Exercised(where, x, weight)' = Exercised(where, x, weight)
<1> DEFINE f == [c \in Contracts |-> IF contract[c] = "EXERCISED" /\ where[c] = x
                                     THEN weight[c] ELSE 0]
           g == [c \in Contracts |-> IF contract'[c] = "EXERCISED" /\ where[c] = x
                                     THEN weight[c] ELSE 0]
<1>1. f = g OBVIOUS
<1> QED BY <1>1 DEF Exercised

LEMMA ExercisedGrows ==
  ASSUME NEW where, NEW x, NEW weight \in [Contracts -> Nat], NEW c \in Contracts,
         contract[c] # "EXERCISED", contract'[c] = "EXERCISED",
         \A d \in Contracts \ {c} : contract'[d] = contract[d]
  PROVE  Exercised(where, x, weight)'
           = Exercised(where, x, weight) + IF where[c] = x THEN weight[c] ELSE 0
<1> DEFINE f == [d \in Contracts |-> IF contract[d] = "EXERCISED" /\ where[d] = x
                                     THEN weight[d] ELSE 0]
           g == [d \in Contracts |-> IF contract'[d] = "EXERCISED" /\ where[d] = x
                                     THEN weight[d] ELSE 0]
<1>1. \A d \in Contracts : f[d] \in Int /\ g[d] \in Int OBVIOUS
<1>2. \A d \in Contracts \ {c} : g[d] = f[d] OBVIOUS
<1>3. f[c] = 0 /\ g[c] = IF where[c] = x THEN weight[c] ELSE 0 OBVIOUS
<1>4. /\ Exercised(where, x, weight) = SumFunctionOnSet(f, Contracts)
      /\ Exercised(where, x, weight)' = SumFunctionOnSet(g, Contracts)
  BY DEF Exercised
<1> HIDE DEF f, g
<1>5. SumFunctionOnSet(g, Contracts) = SumFunctionOnSet(f, Contracts) - f[c] + g[c]
  BY <1>1, <1>2, SumChange, FiniteAssumption
<1>6. SumFunctionOnSet(f, Contracts) \in Int BY <1>1, SumInt, FiniteAssumption
<1> QED BY <1>1, <1>3, <1>4, <1>5, <1>6

(***************************************************************************)
(* What a step of one call, or of the recovery of its saga, does to the    *)
(* tables: what its label after the step stands for and the label before   *)
(* did not, and back.                                                      *)
(***************************************************************************)
AccountsMove(p) ==
  LET c == p[1]
      in == Share(SellerCredited, Stage(p)', Receive[c]) - Share(SellerCredited, Stage(p), Receive[c])
      out == Share(BuyerDebited, Stage(p)', Pay[c]) - Share(BuyerDebited, Stage(p), Pay[c])
      held == Share(FundsReserved, Stage(p)', Pay[c]) - Share(FundsReserved, Stage(p), Pay[c])
  IN \A a \in Accounts :
       /\ account'[a].balance = account[a].balance
            - (IF PayingAccount[c] = a THEN out ELSE 0) + (IF SellerAccount[c] = a THEN in ELSE 0)
       /\ account'[a].available = account[a].available
            - (IF PayingAccount[c] = a THEN held ELSE 0) + (IF SellerAccount[c] = a THEN in ELSE 0)

SharesMove(p) ==
  LET c == p[1]
      out == Share(SharesTaken, Stage(p)', Amount[c]) - Share(SharesTaken, Stage(p), Amount[c])
      in == Share(SharesGiven, Stage(p)', Amount[c]) - Share(SharesGiven, Stage(p), Amount[c])
      held == Share(SharesReserved, Stage(p)', Amount[c]) - Share(SharesReserved, Stage(p), Amount[c])
  IN \A u \in Users :
       /\ shares'[u].amount = shares[u].amount
            - (IF Seller[c] = u THEN out ELSE 0) + (IF Buyer[c] = u THEN in ELSE 0)
       /\ shares'[u].reserved = shares[u].reserved + (IF Seller[c] = u THEN held ELSE 0)

SameContracts ==
  \A c \in Contracts : contract[c] = "EXERCISED" <=> contract'[c] = "EXERCISED"

(* Such a step changes nothing in what the tables show without the calls   *)
(* under way.                                                              *)
LEMMA AccountsMoveKeeps ==
  ASSUME BankTypes, NEW p \in Calls, Only(p), AccountsMove(p), NEW a \in Accounts
  PROVE  /\ EffectiveBalance'[a] = EffectiveBalance[a]
         /\ EffectiveAvailable'[a] = EffectiveAvailable[a]
<1> DEFINE c == p[1]
<1>0. c \in Contracts /\ Pay[c] \in Nat /\ Receive[c] \in Nat BY CallIsPair
<1>1. /\ InFlight(BuyerDebited, PayingAccount, a, Pay)'
           = InFlight(BuyerDebited, PayingAccount, a, Pay)
             + IF PayingAccount[c] = a
               THEN Share(BuyerDebited, Stage(p)', Pay[c]) - Share(BuyerDebited, Stage(p), Pay[c])
               ELSE 0
      /\ InFlight(FundsReserved, PayingAccount, a, Pay)'
           = InFlight(FundsReserved, PayingAccount, a, Pay)
             + IF PayingAccount[c] = a
               THEN Share(FundsReserved, Stage(p)', Pay[c]) - Share(FundsReserved, Stage(p), Pay[c])
               ELSE 0
      /\ InFlight(SellerCredited, SellerAccount, a, Receive)'
           = InFlight(SellerCredited, SellerAccount, a, Receive)
             + IF SellerAccount[c] = a
               THEN Share(SellerCredited, Stage(p)', Receive[c])
                    - Share(SellerCredited, Stage(p), Receive[c])
               ELSE 0
  BY InFlightChange
<1>2. /\ InFlight(BuyerDebited, PayingAccount, a, Pay) \in Nat
      /\ InFlight(FundsReserved, PayingAccount, a, Pay) \in Nat
      /\ InFlight(SellerCredited, SellerAccount, a, Receive) \in Nat
  BY InFlightNat
<1>3. account[a].balance \in Int /\ account[a].available \in Int
  BY DEF BankTypes, AccountTable
<1>4. /\ EffectiveBalance'[a] = account'[a].balance
           + InFlight(BuyerDebited, PayingAccount, a, Pay)'
           - InFlight(SellerCredited, SellerAccount, a, Receive)'
      /\ EffectiveBalance[a] = account[a].balance
           + InFlight(BuyerDebited, PayingAccount, a, Pay)
           - InFlight(SellerCredited, SellerAccount, a, Receive)
      /\ EffectiveAvailable'[a] = account'[a].available
           + InFlight(FundsReserved, PayingAccount, a, Pay)'
           - InFlight(SellerCredited, SellerAccount, a, Receive)'
      /\ EffectiveAvailable[a] = account[a].available
           + InFlight(FundsReserved, PayingAccount, a, Pay)
           - InFlight(SellerCredited, SellerAccount, a, Receive)
  BY DEF EffectiveBalance, EffectiveAvailable
<1> QED BY <1>0, <1>1, <1>2, <1>3, <1>4 DEF AccountsMove, Share

LEMMA SharesMoveKeeps ==
  ASSUME BankTypes, NEW p \in Calls, Only(p), SharesMove(p), NEW u \in Users
  PROVE  /\ EffectiveHolding'[u] = EffectiveHolding[u]
         /\ EffectiveReserved'[u] = EffectiveReserved[u]
<1> DEFINE c == p[1]
<1>0. c \in Contracts /\ Amount[c] \in Nat BY CallIsPair
<1>1. /\ InFlight(SharesTaken, Seller, u, Amount)'
           = InFlight(SharesTaken, Seller, u, Amount)
             + IF Seller[c] = u
               THEN Share(SharesTaken, Stage(p)', Amount[c]) - Share(SharesTaken, Stage(p), Amount[c])
               ELSE 0
      /\ InFlight(SharesGiven, Buyer, u, Amount)'
           = InFlight(SharesGiven, Buyer, u, Amount)
             + IF Buyer[c] = u
               THEN Share(SharesGiven, Stage(p)', Amount[c]) - Share(SharesGiven, Stage(p), Amount[c])
               ELSE 0
      /\ InFlight(SharesReserved, Seller, u, Amount)'
           = InFlight(SharesReserved, Seller, u, Amount)
             + IF Seller[c] = u
               THEN Share(SharesReserved, Stage(p)', Amount[c])
                    - Share(SharesReserved, Stage(p), Amount[c])
               ELSE 0
  BY InFlightChange
<1>2. /\ InFlight(SharesTaken, Seller, u, Amount) \in Nat
      /\ InFlight(SharesGiven, Buyer, u, Amount) \in Nat
      /\ InFlight(SharesReserved, Seller, u, Amount) \in Nat
  BY InFlightNat
<1>3. shares[u].amount \in Int /\ shares[u].reserved \in Int
  BY DEF BankTypes, ShareTable
<1>4. /\ EffectiveHolding'[u] = shares'[u].amount
           + InFlight(SharesTaken, Seller, u, Amount)' - InFlight(SharesGiven, Buyer, u, Amount)'
      /\ EffectiveHolding[u] = shares[u].amount
           + InFlight(SharesTaken, Seller, u, Amount) - InFlight(SharesGiven, Buyer, u, Amount)
      /\ EffectiveReserved'[u] = shares'[u].reserved - InFlight(SharesReserved, Seller, u, Amount)'
      /\ EffectiveReserved[u] = shares[u].reserved - InFlight(SharesReserved, Seller, u, Amount)
  BY DEF EffectiveHolding, EffectiveReserved
<1> QED BY <1>0, <1>1, <1>2, <1>3, <1>4 DEF SharesMove, Share

LEMMA MoveKeepsBooks ==
  ASSUME BankTypes, Books, SameContracts, NEW p \in Calls, Only(p), AccountsMove(p), SharesMove(p)
  PROVE  Books'
<1>1. \A where, x, weight : Exercised(where, x, weight)' = Exercised(where, x, weight)
  BY ExercisedKept DEF SameContracts
<1>2. ASSUME NEW a \in Accounts
      PROVE  /\ EffectiveBalance'[a] = InitBalance[a]
                  - Exercised(PayingAccount, a, Pay)' + Exercised(SellerAccount, a, Receive)'
             /\ EffectiveAvailable'[a] = InitBalance[a]
                  - Exercised(PayingAccount, a, Pay)' + Exercised(SellerAccount, a, Receive)'
  BY <1>1, AccountsMoveKeeps DEF Books
<1>3. ASSUME NEW u \in Users
      PROVE  /\ EffectiveHolding'[u] = InitShares[u]
                  - Exercised(Seller, u, Amount)' + Exercised(Buyer, u, Amount)'
             /\ EffectiveReserved'[u] = 0
  BY <1>1, SharesMoveKeeps DEF Books
<1> QED BY <1>2, <1>3 DEF Books

(* A step that leaves the tables alone and moves calls between labels that *)
(* stand for the same.                                                     *)
Alike(l, m) ==
  /\ l \in FundsReserved <=> m \in FundsReserved
  /\ l \in BuyerDebited <=> m \in BuyerDebited
  /\ l \in SellerCredited <=> m \in SellerCredited
  /\ l \in SharesReserved <=> m \in SharesReserved
  /\ l \in SharesTaken <=> m \in SharesTaken
  /\ l \in SharesGiven <=> m \in SharesGiven

LEMMA QuietKeepsBooks ==
  ASSUME Books, SameContracts, UNCHANGED bankVars, \A q \in Calls : Alike(Stage(q), Stage(q)')
  PROVE  Books'
<1>1. \A where, x, weight : Exercised(where, x, weight)' = Exercised(where, x, weight)
  BY ExercisedKept DEF SameContracts
<1>2. \A labels \in {FundsReserved, BuyerDebited, SellerCredited, SharesReserved, SharesTaken,
                     SharesGiven} :
        \A q \in Calls : Stage(q) \in labels <=> Stage(q)' \in labels
  BY DEF Alike
<1>3. \A labels \in {FundsReserved, BuyerDebited, SellerCredited, SharesReserved, SharesTaken,
                     SharesGiven} :
        \A where, x, weight :
          InFlight(labels, where, x, weight)' = InFlight(labels, where, x, weight)
  BY <1>2, InFlightKept
<1>4. account' = account /\ shares' = shares BY DEF bankVars
<1> QED BY <1>1, <1>3, <1>4 DEF Books, EffectiveBalance, EffectiveAvailable, EffectiveHolding,
                                EffectiveReserved

(***************************************************************************)
(* Who stands where.                                                       *)
(***************************************************************************)
LEMMA WhatLabelsStandFor ==
  /\ SharesTaken = {"dropRow", "giveShares", "undoTake", "log4", "verify", "commit",
                    "c4seller"}
  /\ SharesGiven = {"log4", "verify", "commit", "c4seller", "c4buyer"}
  /\ FundsReserved = {"log1", "reserveShares", "log2", "debitBuyer", "creditSeller", "log3",
                      "takeShares", "dropRow", "giveShares", "log4", "verify", "commit",
                      "undoDebit", "undoTake", "c4seller", "c4buyer", "c4drop", "c3buyer",
                      "c3seller", "c2", "c1"}
  /\ SharesReserved = {"log2", "debitBuyer", "creditSeller", "log3", "takeShares",
                       "undoDebit", "c4buyer", "c4drop", "c3buyer", "c3seller", "c2"}
  /\ SellerCredited = {"dropRow", "giveShares", "undoTake", "log4", "verify", "commit",
                       "c4seller", "log3", "takeShares", "c4buyer", "c4drop", "c3buyer",
                       "c3seller"}
  /\ BuyerDebited = {"dropRow", "giveShares", "undoTake", "log4", "verify", "commit",
                     "c4seller", "log3", "takeShares", "c4buyer", "c4drop", "c3buyer",
                     "creditSeller", "undoDebit"}
<1>1. /\ SharesTaken = {"dropRow", "giveShares", "undoTake", "log4", "verify", "commit",
                        "c4seller"}
      /\ SharesGiven = {"log4", "verify", "commit", "c4seller", "c4buyer"}
  BY DEF SharesTaken, SharesGiven
<1>2. FundsReserved = {"log1", "reserveShares", "log2", "debitBuyer", "creditSeller", "log3",
                       "takeShares", "dropRow", "giveShares", "log4", "verify", "commit",
                       "undoDebit", "undoTake", "c4seller", "c4buyer", "c4drop", "c3buyer",
                       "c3seller", "c2", "c1"}
  BY DEF FundsReserved, Forward, Undoing
<1>3. SharesReserved = {"log2", "debitBuyer", "creditSeller", "log3", "takeShares",
                        "undoDebit", "c4buyer", "c4drop", "c3buyer", "c3seller", "c2"}
  BY <1>1, <1>2 DEF SharesReserved
<1>4. SellerCredited = {"dropRow", "giveShares", "undoTake", "log4", "verify", "commit",
                        "c4seller", "log3", "takeShares", "c4buyer", "c4drop", "c3buyer",
                        "c3seller"}
  BY <1>1, <1>3 DEF SellerCredited
<1>5. BuyerDebited = {"dropRow", "giveShares", "undoTake", "log4", "verify", "commit",
                      "c4seller", "log3", "takeShares", "c4buyer", "c4drop", "c3buyer",
                      "creditSeller", "undoDebit"}
  BY <1>4 DEF BuyerDebited
<1> QED BY <1>1, <1>2, <1>3, <1>4, <1>5

(* A step of a call moves that call alone: calls that are lost are of      *)
(* other contracts, whose sagas and logs it does not touch.                *)
LEMMA CallMoves ==
  ASSUME ControlTypes, Control, Recoverable, NEW p \in Calls, NEW from, NEW to,
         from # "lost", to # "lost", At(p, from, to), rpc' = rpc,
         \A d \in Contracts \ {p[1]} : saga'[d] = saga[d] /\ logged'[d] = logged[d]
  PROVE  Only(p) /\ Stage(p) = from /\ Stage(p)' = to
<1>1. pc[p] = from /\ pc'[p] = to /\ \A q \in Calls \ {p} : pc'[q] = pc[q]
  BY DEF At, ControlTypes
<1>2. ASSUME NEW q \in Calls \ {p} PROVE Stage(q)' = Stage(q)
  <2>1. CASE pc[q] # "lost"
    BY <1>1, <1>2, <2>1 DEF Stage
  <2>2. CASE pc[q] = "lost"
    <3>1. Killed BY <2>2 DEF Control, Recoverable
    <3>2. q[1] \in Contracts \ {p[1]} BY <3>1, CallIsPair DEF Killed
    <3>3. saga'[q[1]] = saga[q[1]] /\ logged'[q[1]] = logged[q[1]] BY <3>2
    <3> QED BY <1>1, <1>2, <3>3 DEF Stage
  <2> QED BY <2>1, <2>2
<1> QED BY <1>1, <1>2 DEF Only, Stage

(* A step of a recovery moves the one lost call of its contract.           *)
LEMMA RecoveryMoves ==
  ASSUME ControlTypes, Control, Recoverable, NEW c \in Contracts, rpc[c] # "off",
         pc' = pc,
         \A d \in Contracts \ {c} : /\ saga'[d] = saga[d] /\ logged'[d] = logged[d]
                                    /\ rpc'[d] = rpc[d]
  PROVE  Killed /\ \E p \in Calls : p[1] = c /\ pc[p] = "lost" /\ Only(p)
<1>1. MaxCrashes # 0 BY DEF Control
<1>2. Killed BY <1>1 DEF Recoverable
<1>3. PICK p \in Calls : p[1] = c BY <1>1 DEF Control
<1>4. pc[p] = "lost" BY <1>1, <1>3 DEF Control, LiveCall
<1>5. ASSUME NEW q \in Calls \ {p} PROVE Stage(q)' = Stage(q)
  <2>1. q[1] \in Contracts \ {c} BY <1>2, <1>3, CallIsPair DEF Killed
  <2>2. saga'[q[1]] = saga[q[1]] /\ logged'[q[1]] = logged[q[1]] /\ rpc'[q[1]] = rpc[q[1]]
    BY <2>1
  <2> QED BY <2>2 DEF Stage
<1> QED BY <1>2, <1>3, <1>4, <1>5 DEF Only

(***************************************************************************)
(* What the UPDATE statements do to the books.                             *)
(***************************************************************************)

(* Owner u gets n shares and r reserved ones, and rows are as they should. *)
Added(u, n, r) ==
  \A w \in Users :
    /\ shares'[w].amount = shares[w].amount + (IF w = u THEN n ELSE 0)
    /\ shares'[w].reserved = shares[w].reserved + (IF w = u THEN r ELSE 0)
    /\ ~shares'[w].row => shares'[w].amount = 0 /\ shares'[w].reserved = 0

LEMMA UpdateAdds ==
  ASSUME BankTypes, Rows, NEW u \in Users, NEW n \in Int, NEW r \in Int,
         shares[u].row \/ (n = 0 /\ r = 0), 0 =< shares[u].reserved + r,
         shares' = Update(shares, u, n, r)
  PROVE  Added(u, n, r)
<1>0. shares \in ShareTable BY DEF BankTypes
<1>1. CASE shares[u].row
  <2>1. shares' = [shares EXCEPT ![u] = [amount |-> shares[u].amount + n,
                     reserved |-> Positive(shares[u].reserved + r), row |-> TRUE]]
    BY <1>1, Zenon DEF Update
  <2>2. shares[u].reserved + r \in Int BY <1>0 DEF ShareTable
  <2>3. Positive(shares[u].reserved + r) = shares[u].reserved + r
    BY <2>2 DEF Positive
  <2>4. /\ shares'[u] = [amount |-> shares[u].amount + n,
                         reserved |-> shares[u].reserved + r, row |-> TRUE]
        /\ \A w \in Users \ {u} : shares'[w] = shares[w]
    BY <1>0, <2>1, <2>3 DEF ShareTable
  <2>5. \A w \in Users : shares[w].amount \in Int /\ shares[w].reserved \in Int
    BY <1>0 DEF ShareTable
  <2> QED BY <2>4, <2>5 DEF Added, Rows
<1>2. CASE ~shares[u].row
  <2>1. shares' = shares BY <1>2, Zenon DEF Update
  <2>2. n = 0 /\ r = 0 BY <1>2
  <2>3. \A w \in Users : shares[w].amount \in Int /\ shares[w].reserved \in Int
    BY <1>0 DEF ShareTable
  <2> QED BY <2>1, <2>2, <2>3 DEF Added, Rows
<1> QED BY <1>1, <1>2

LEMMA UpsertAdds ==
  ASSUME BankTypes, Rows, NEW u \in Users, NEW n \in Int, NEW r \in Int,
         0 =< shares[u].reserved + r, shares' = Upsert(shares, u, n, r)
  PROVE  Added(u, n, r)
<1>0. shares \in ShareTable BY DEF BankTypes
<1>1. CASE shares[u].row
  BY <1>1, UpdateAdds DEF Upsert
<1>2. CASE ~shares[u].row
  <2>1. /\ shares'[u] = [amount |-> n, reserved |-> r, row |-> TRUE]
        /\ \A w \in Users \ {u} : shares'[w] = shares[w]
    BY <1>0, <1>2 DEF ShareTable, Upsert
  <2>2. shares[u].amount = 0 /\ shares[u].reserved = 0 BY <1>2 DEF Rows
  <2>3. \A w \in Users : shares[w].amount \in Int /\ shares[w].reserved \in Int
    BY <1>0 DEF ShareTable
  <2> QED BY <2>1, <2>2, <2>3 DEF Added, Rows
<1> QED BY <1>1, <1>2

(* A row is dropped that held nothing.                                     *)
LEMMA DropEmptyAdds ==
  ASSUME BankTypes, Rows, NEW u \in Users, 0 =< shares[u].reserved,
         shares[u].reserved =< shares[u].amount, shares' = DropEmpty(shares, u)
  PROVE  Added(u, 0, 0)
<1>0. shares \in ShareTable BY DEF BankTypes
<1>3. \A w \in Users : shares[w].amount \in Int /\ shares[w].reserved \in Int
  BY <1>0 DEF ShareTable
<1>1. CASE shares[u].row /\ shares[u].amount =< 0
  <2>0. shares' = [shares EXCEPT ![u] = [amount |-> 0, reserved |-> 0, row |-> FALSE]]
    BY <1>1, Zenon DEF DropEmpty
  <2>1. /\ shares'[u] = [amount |-> 0, reserved |-> 0, row |-> FALSE]
        /\ \A w \in Users \ {u} : shares'[w] = shares[w]
    BY <1>0, <2>0 DEF ShareTable
  <2>2. shares[u].amount = 0 /\ shares[u].reserved = 0
    <3>1. shares[u].amount =< 0 BY <1>1
    <3>2. shares[u].amount \in Int /\ shares[u].reserved \in Int BY <1>3
    <3> QED BY <3>1, <3>2
  <2> QED BY <1>3, <2>1, <2>2 DEF Added, Rows
<1>2. CASE ~(shares[u].row /\ shares[u].amount =< 0)
  <2>1. shares' = shares BY <1>2, Zenon DEF DropEmpty
  <2> QED BY <1>3, <2>1 DEF Added, Rows
<1> QED BY <1>1, <1>2

LEMMA SameAdds ==
  ASSUME BankTypes, Rows, shares' = shares, NEW u
  PROVE  Added(u, 0, 0)
<1>1. \A w \in Users : shares[w].amount \in Int /\ shares[w].reserved \in Int
  BY DEF ShareTable, BankTypes
<1> QED BY <1>1 DEF Added, Rows

LEMMA MoveDoes ==
  ASSUME BankTypes, NEW a \in Accounts, NEW m \in Int, NEW n \in Int,
         account' = Move(account, a, m, n), NEW d \in Accounts
  PROVE  /\ account'[d].balance = account[d].balance + (IF d = a THEN m ELSE 0)
         /\ account'[d].available = account[d].available + (IF d = a THEN n ELSE 0)
<1>1. account \in AccountTable BY DEF BankTypes
<1>2. account' = [account EXCEPT ![a] = [balance |-> account[a].balance + m,
                                         available |-> account[a].available + n]]
  BY Zenon DEF Move
<1>3. /\ account'[a] = [balance |-> account[a].balance + m,
                        available |-> account[a].available + n]
      /\ d # a => account'[d] = account[d]
  BY <1>1, <1>2 DEF AccountTable
<1>4. account[d].balance \in Int /\ account[d].available \in Int BY <1>1 DEF AccountTable
<1> QED BY <1>3, <1>4

(* What the invariant says of single rows: nothing in flight was reserved  *)
(* and is not, or given to somebody who no longer has it.                  *)
LEMMA SellerHas ==
  ASSUME BankTypes, Books, Rows, NEW p \in Calls
  PROVE  /\ Seller[p[1]] \in Users /\ Amount[p[1]] \in Nat
         /\ 0 =< shares[Seller[p[1]]].reserved
         /\ shares[Seller[p[1]]].reserved =< shares[Seller[p[1]]].amount
         /\ Stage(p) \in SharesReserved =>
              /\ Amount[p[1]] =< shares[Seller[p[1]]].reserved
              /\ shares[Seller[p[1]]].row \/ Amount[p[1]] = 0
<1> DEFINE u == Seller[p[1]]
<1>1. p[1] \in Contracts /\ u \in Users /\ Amount[p[1]] \in Nat BY CallIsPair
<1>2. shares[u].reserved \in Int BY <1>1 DEF BankTypes, ShareTable
<1>3. InFlight(SharesReserved, Seller, u, Amount) \in Nat BY InFlightNat
<1>4. shares[u].reserved - InFlight(SharesReserved, Seller, u, Amount) = 0
  BY <1>1 DEF Books, EffectiveReserved
<1>5. shares[u].reserved = InFlight(SharesReserved, Seller, u, Amount)
  BY <1>2, <1>3, <1>4
<1>6. ASSUME Stage(p) \in SharesReserved PROVE Amount[p[1]] =< shares[u].reserved
  <2>1. Amount[p[1]] =< InFlight(SharesReserved, Seller, Seller[p[1]], Amount)
    BY <1>6, OwnShare
  <2> QED BY <1>5, <2>1
<1>7. shares[u].reserved =< shares[u].amount BY <1>1 DEF Rows
<1>8. ~shares[u].row => shares[u].reserved = 0 BY <1>1 DEF Rows
<1>9. Stage(p) \in SharesReserved => shares[u].row \/ Amount[p[1]] = 0
  BY <1>1, <1>6, <1>8
<1> QED BY <1>1, <1>2, <1>3, <1>5, <1>6, <1>7, <1>9

LEMMA BuyerHas ==
  ASSUME BankTypes, Books, Rows, OneSided, NEW p \in Calls
  PROVE  /\ Buyer[p[1]] \in Users
         /\ shares[Buyer[p[1]]].reserved = 0
         /\ 0 =< shares[Buyer[p[1]]].amount
         /\ Stage(p) \in SharesGiven =>
              shares[Buyer[p[1]]].row \/ Amount[p[1]] = 0
<1> DEFINE u == Buyer[p[1]]
<1>1. p[1] \in Contracts /\ u \in Users /\ Amount[p[1]] \in Nat BY CallIsPair
<1>2. shares[u].reserved \in Int /\ shares[u].amount \in Int BY <1>1 DEF BankTypes, ShareTable
<1>3. \A c \in Contracts : Seller[c] # u BY <1>1 DEF OneSided
<1>4. /\ InFlight(SharesReserved, Seller, u, Amount) = 0
      /\ InFlight(SharesTaken, Seller, u, Amount) = 0
      /\ Exercised(Seller, u, Amount) = 0
  BY <1>3, NothingInFlight, NothingExercised, CallIsPair
<1>5. /\ InFlight(SharesGiven, Buyer, u, Amount) \in Nat
      /\ Exercised(Buyer, u, Amount) \in Nat
  BY InFlightNat, ExercisedNat
<1>6. /\ shares[u].reserved - 0 = 0
      /\ shares[u].amount + 0 - InFlight(SharesGiven, Buyer, u, Amount)
           = InitShares[u] - 0 + Exercised(Buyer, u, Amount)
  BY <1>1, <1>4 DEF Books, EffectiveReserved, EffectiveHolding
<1>7. /\ shares[u].reserved = 0
      /\ shares[u].amount = InitShares[u] + Exercised(Buyer, u, Amount)
                              + InFlight(SharesGiven, Buyer, u, Amount)
  BY <1>1, <1>2, <1>5, <1>6
<1>8. 0 =< shares[u].amount BY <1>1, <1>5, <1>7
<1>9. ASSUME Stage(p) \in SharesGiven PROVE shares[u].row \/ Amount[p[1]] = 0
  <2>1. Amount[p[1]] =< InFlight(SharesGiven, Buyer, u, Amount) BY <1>9, OwnShare
  <2>2. Amount[p[1]] =< shares[u].amount BY <1>1, <1>5, <1>7, <2>1
  <2>3. ~shares[u].row => shares[u].amount = 0 BY <1>1 DEF Rows
  <2> QED BY <1>1, <2>2, <2>3
<1> QED BY <1>1, <1>7, <1>8, <1>9

(***************************************************************************)
(* The kinds of steps that books allow.                                    *)
(***************************************************************************)
PaysAlike(l, m) ==
  /\ l \in FundsReserved <=> m \in FundsReserved
  /\ l \in BuyerDebited <=> m \in BuyerDebited
  /\ l \in SellerCredited <=> m \in SellerCredited
SellsAlike(l, m) ==
  (l \in SharesReserved <=> m \in SharesReserved) /\ (l \in SharesTaken <=> m \in SharesTaken)

(* Shares of the seller. *)
LEMMA SellerStep ==
  ASSUME BankTypes, Books, Rows, OneSided, SameContracts, UNCHANGED account,
         NEW p \in Calls, Only(p), NEW from, NEW to, Stage(p) = from, Stage(p)' = to,
         PaysAlike(from, to), from \in SharesGiven <=> to \in SharesGiven,
         NEW n \in Int, NEW r \in Int, Added(Seller[p[1]], n, r),
         Share(SharesTaken, to, Amount[p[1]]) = Share(SharesTaken, from, Amount[p[1]]) - n,
         Share(SharesReserved, to, Amount[p[1]])
           = Share(SharesReserved, from, Amount[p[1]]) + r,
         shares[Seller[p[1]]].reserved + r =< shares[Seller[p[1]]].amount + n
  PROVE  Books' /\ Rows'
<1> DEFINE c == p[1]
<1>0. c \in Contracts /\ Amount[c] \in Nat BY CallIsPair
<1>t. /\ \A a \in Accounts : account[a].balance \in Int /\ account[a].available \in Int
      /\ \A u \in Users : shares[u].amount \in Int /\ shares[u].reserved \in Int
  BY DEF BankTypes, AccountTable, ShareTable
<1>1. AccountsMove(p)
  <2>1. /\ Share(SellerCredited, to, Receive[c]) = Share(SellerCredited, from, Receive[c])
        /\ Share(BuyerDebited, to, Pay[c]) = Share(BuyerDebited, from, Pay[c])
        /\ Share(FundsReserved, to, Pay[c]) = Share(FundsReserved, from, Pay[c])
        /\ Share(SellerCredited, from, Receive[c]) \in Int
        /\ Share(BuyerDebited, from, Pay[c]) \in Int
        /\ Share(FundsReserved, from, Pay[c]) \in Int
    BY <1>0 DEF PaysAlike, Share
  <2> QED BY <2>1, <1>t DEF AccountsMove
<1>2. SharesMove(p)
  <2>1. /\ Share(SharesGiven, to, Amount[c]) = Share(SharesGiven, from, Amount[c])
        /\ Share(SharesGiven, from, Amount[c]) \in Int
        /\ Share(SharesTaken, from, Amount[c]) \in Int
        /\ Share(SharesReserved, from, Amount[c]) \in Int
    BY <1>0 DEF Share
  <2> QED BY <2>1, <1>t DEF SharesMove, Added
<1>3. Books' BY <1>1, <1>2, MoveKeepsBooks
<1>4. Rows'
  <2>1. \A u \in Users : ~shares'[u].row => shares'[u].amount = 0 /\ shares'[u].reserved = 0
    BY DEF Added
  <2>2. ASSUME NEW d \in Contracts PROVE shares'[Seller[d]].reserved =< shares'[Seller[d]].amount
    <3>1. Seller[d] \in Users /\ shares[Seller[d]].reserved =< shares[Seller[d]].amount
      BY DEF Rows
    <3> QED BY <1>t, <3>1 DEF Added
  <2> QED BY <2>1, <2>2 DEF Rows
<1> QED BY <1>3, <1>4

(* Shares of the buyer. *)
LEMMA BuyerStep ==
  ASSUME BankTypes, Books, Rows, OneSided, SameContracts, UNCHANGED account,
         NEW p \in Calls, Only(p), NEW from, NEW to, Stage(p) = from, Stage(p)' = to,
         PaysAlike(from, to), SellsAlike(from, to),
         NEW n \in Int, Added(Buyer[p[1]], n, 0),
         Share(SharesGiven, to, Amount[p[1]]) = Share(SharesGiven, from, Amount[p[1]]) + n
  PROVE  Books' /\ Rows'
<1> DEFINE c == p[1]
<1>0. c \in Contracts /\ Amount[c] \in Nat BY CallIsPair
<1>t. /\ \A a \in Accounts : account[a].balance \in Int /\ account[a].available \in Int
      /\ \A u \in Users : shares[u].amount \in Int /\ shares[u].reserved \in Int
  BY DEF BankTypes, AccountTable, ShareTable
<1>1. AccountsMove(p)
  <2>1. /\ Share(SellerCredited, to, Receive[c]) = Share(SellerCredited, from, Receive[c])
        /\ Share(BuyerDebited, to, Pay[c]) = Share(BuyerDebited, from, Pay[c])
        /\ Share(FundsReserved, to, Pay[c]) = Share(FundsReserved, from, Pay[c])
        /\ Share(SellerCredited, from, Receive[c]) \in Int
        /\ Share(BuyerDebited, from, Pay[c]) \in Int
        /\ Share(FundsReserved, from, Pay[c]) \in Int
    BY <1>0 DEF PaysAlike, Share
  <2> QED BY <2>1, <1>t DEF AccountsMove
<1>2. SharesMove(p)
  <2>1. /\ Share(SharesTaken, to, Amount[c]) = Share(SharesTaken, from, Amount[c])
        /\ Share(SharesReserved, to, Amount[c]) = Share(SharesReserved, from, Amount[c])
        /\ Share(SharesGiven, from, Amount[c]) \in Int
        /\ Share(SharesTaken, from, Amount[c]) \in Int
        /\ Share(SharesReserved, from, Amount[c]) \in Int
    BY <1>0 DEF Share, SellsAlike
  <2> QED BY <2>1, <1>t DEF SharesMove, Added
<1>3. Books' BY <1>1, <1>2, MoveKeepsBooks
<1>4. Rows'
  <2>1. \A u \in Users : ~shares'[u].row => shares'[u].amount = 0 /\ shares'[u].reserved = 0
    BY DEF Added
  <2>2. ASSUME NEW d \in Contracts PROVE shares'[Seller[d]].reserved =< shares'[Seller[d]].amount
    <3>1. /\ Seller[d] \in Users /\ Seller[d] # Buyer[c]
          /\ shares[Seller[d]].reserved =< shares[Seller[d]].amount
      BY <1>0 DEF Rows, OneSided
    <3> QED BY <1>t, <3>1 DEF Added
  <2> QED BY <2>1, <2>2 DEF Rows
<1> QED BY <1>3, <1>4

(* Money. *)
LEMMA AccountStep ==
  ASSUME BankTypes, Books, Rows, SameContracts, UNCHANGED shares,
         NEW p \in Calls, Only(p), NEW from, NEW to, Stage(p) = from, Stage(p)' = to,
         SellsAlike(from, to), from \in SharesGiven <=> to \in SharesGiven,
         AccountsMove(p)
  PROVE  Books' /\ Rows'
<1> DEFINE c == p[1]
<1>0. c \in Contracts /\ Amount[c] \in Nat BY CallIsPair
<1>1. SharesMove(p)
  <2>1. /\ Share(SharesTaken, to, Amount[c]) = Share(SharesTaken, from, Amount[c])
        /\ Share(SharesReserved, to, Amount[c]) = Share(SharesReserved, from, Amount[c])
        /\ Share(SharesGiven, to, Amount[c]) = Share(SharesGiven, from, Amount[c])
        /\ Share(SharesGiven, from, Amount[c]) \in Int
        /\ Share(SharesTaken, from, Amount[c]) \in Int
        /\ Share(SharesReserved, from, Amount[c]) \in Int
    BY <1>0 DEF Share, SellsAlike
  <2>2. \A u \in Users : shares[u].amount \in Int /\ shares[u].reserved \in Int
    BY DEF BankTypes, ShareTable
  <2> QED BY <2>1, <2>2 DEF SharesMove
<1>2. Books' BY <1>1, MoveKeepsBooks
<1>3. Rows' BY DEF Rows
<1> QED BY <1>2, <1>3

(* Money of the buyer: m to the balance, n to what is available.           *)
LEMMA PayingStep ==
  ASSUME BankTypes, Books, Rows, SameContracts, UNCHANGED shares,
         NEW p \in Calls, Only(p), NEW from, NEW to, Stage(p) = from, Stage(p)' = to,
         SellsAlike(from, to), from \in SharesGiven <=> to \in SharesGiven,
         from \in SellerCredited <=> to \in SellerCredited,
         NEW m \in Int, NEW n \in Int, account' = Move(account, PayingAccount[p[1]], m, n),
         Share(BuyerDebited, to, Pay[p[1]]) = Share(BuyerDebited, from, Pay[p[1]]) - m,
         Share(FundsReserved, to, Pay[p[1]]) = Share(FundsReserved, from, Pay[p[1]]) - n
  PROVE  Books' /\ Rows'
<1> DEFINE c == p[1]
<1>0. c \in Contracts /\ PayingAccount[c] \in Accounts /\ Pay[c] \in Nat /\ Receive[c] \in Nat
  BY CallIsPair
<1>1. \A a \in Accounts : account[a].balance \in Int /\ account[a].available \in Int
  BY DEF BankTypes, AccountTable
<1>2. /\ Share(SellerCredited, to, Receive[c]) = Share(SellerCredited, from, Receive[c])
      /\ Share(SellerCredited, from, Receive[c]) \in Int
      /\ Share(BuyerDebited, from, Pay[c]) \in Int
      /\ Share(FundsReserved, from, Pay[c]) \in Int
  BY <1>0 DEF Share
<1>3. \A d \in Accounts :
        /\ account'[d].balance = account[d].balance + (IF d = PayingAccount[c] THEN m ELSE 0)
        /\ account'[d].available = account[d].available + (IF d = PayingAccount[c] THEN n ELSE 0)
  BY <1>0, MoveDoes
<1>4. AccountsMove(p) BY <1>1, <1>2, <1>3 DEF AccountsMove
<1> QED BY <1>4, AccountStep

(* Money of the seller. *)
LEMMA CreditingStep ==
  ASSUME BankTypes, Books, Rows, SameContracts, UNCHANGED shares,
         NEW p \in Calls, Only(p), NEW from, NEW to, Stage(p) = from, Stage(p)' = to,
         SellsAlike(from, to), from \in SharesGiven <=> to \in SharesGiven,
         from \in BuyerDebited <=> to \in BuyerDebited,
         from \in FundsReserved <=> to \in FundsReserved,
         NEW n \in Int, account' = Move(account, SellerAccount[p[1]], n, n),
         Share(SellerCredited, to, Receive[p[1]]) = Share(SellerCredited, from, Receive[p[1]]) + n
  PROVE  Books' /\ Rows'
<1> DEFINE c == p[1]
<1>0. c \in Contracts /\ SellerAccount[c] \in Accounts /\ Pay[c] \in Nat /\ Receive[c] \in Nat
  BY CallIsPair
<1>1. \A a \in Accounts : account[a].balance \in Int /\ account[a].available \in Int
  BY DEF BankTypes, AccountTable
<1>2. /\ Share(BuyerDebited, to, Pay[c]) = Share(BuyerDebited, from, Pay[c])
      /\ Share(FundsReserved, to, Pay[c]) = Share(FundsReserved, from, Pay[c])
      /\ Share(SellerCredited, from, Receive[c]) \in Int
      /\ Share(BuyerDebited, from, Pay[c]) \in Int
      /\ Share(FundsReserved, from, Pay[c]) \in Int
  BY <1>0 DEF Share
<1>3. \A d \in Accounts :
        /\ account'[d].balance = account[d].balance + (IF d = SellerAccount[c] THEN n ELSE 0)
        /\ account'[d].available = account[d].available + (IF d = SellerAccount[c] THEN n ELSE 0)
  BY <1>0, MoveDoes
<1>4. AccountsMove(p) BY <1>1, <1>2, <1>3 DEF AccountsMove
<1> QED BY <1>4, AccountStep

(* A step that leaves the tables alone. *)
LEMMA NothingMoves ==
  ASSUME Books, Rows, SameContracts, UNCHANGED bankVars,
         NEW p \in Calls, Only(p), NEW from, NEW to, Stage(p) = from, Stage(p)' = to,
         Alike(from, to)
  PROVE  Books' /\ Rows'
<1>1. ASSUME NEW q \in Calls PROVE Alike(Stage(q), Stage(q)')
  <2>1. CASE q = p BY <2>1
  <2>2. CASE q # p
    <3>1. Stage(q)' = Stage(q) BY <2>2 DEF Only
    <3> QED BY <3>1 DEF Alike
  <2> QED BY <2>1, <2>2
<1>2. Books' BY <1>1, QuietKeepsBooks
<1>3. shares' = shares BY DEF bankVars
<1>4. Rows' BY <1>3 DEF Rows
<1> QED BY <1>2, <1>4

(* Pairs of labels that stand for the same.                                *)
LEMMA SameEffect ==
  /\ Alike("idle", "ok")
  /\ Alike("idle", "lock")
  /\ Alike("lock", "insertSaga")
  /\ Alike("lock", "rejected")
  /\ Alike("insertSaga", "rejected")
  /\ Alike("insertSaga", "reserveFunds")
  /\ Alike("reserveFunds", "end")
  /\ Alike("log1", "reserveShares")
  /\ Alike("reserveShares", "c1")
  /\ Alike("log2", "debitBuyer")
  /\ Alike("debitBuyer", "c2")
  /\ Alike("creditSeller", "undoDebit")
  /\ Alike("log3", "takeShares")
  /\ Alike("takeShares", "c3buyer")
  /\ Alike("dropRow", "giveShares")
  /\ Alike("giveShares", "undoTake")
  /\ Alike("log4", "verify")
  /\ Alike("verify", "commit")
  /\ Alike("verify", "c4seller")
  /\ Alike("commit", "c4seller")
  /\ Alike("log5", "tax")
  /\ Alike("tax", "ok")
  /\ Alike("end", "failed")
  /\ Alike("c4drop", "c3buyer")
<1>1. /\ Alike("idle", "ok")
      /\ Alike("idle", "lock")
      /\ Alike("lock", "insertSaga")
      /\ Alike("lock", "rejected")
  BY WhatLabelsStandFor DEF Alike
<1>2. /\ Alike("insertSaga", "rejected")
      /\ Alike("insertSaga", "reserveFunds")
      /\ Alike("reserveFunds", "end")
      /\ Alike("log1", "reserveShares")
  BY WhatLabelsStandFor DEF Alike
<1>3. /\ Alike("reserveShares", "c1")
      /\ Alike("log2", "debitBuyer")
      /\ Alike("debitBuyer", "c2")
      /\ Alike("creditSeller", "undoDebit")
  BY WhatLabelsStandFor DEF Alike
<1>4. /\ Alike("log3", "takeShares")
      /\ Alike("takeShares", "c3buyer")
      /\ Alike("dropRow", "giveShares")
      /\ Alike("giveShares", "undoTake")
  BY WhatLabelsStandFor DEF Alike
<1>5. /\ Alike("log4", "verify")
      /\ Alike("verify", "commit")
      /\ Alike("verify", "c4seller")
      /\ Alike("commit", "c4seller")
  BY WhatLabelsStandFor DEF Alike
<1>6. /\ Alike("log5", "tax")
      /\ Alike("tax", "ok")
      /\ Alike("end", "failed")
      /\ Alike("c4drop", "c3buyer")
  BY WhatLabelsStandFor DEF Alike
<1> QED BY <1>1, <1>2, <1>3, <1>4, <1>5, <1>6

(* The commit moves what the call had moved from what is under way to what *)
(* the exercised contracts account for.                                    *)
LEMMA CommitBooks ==
  ASSUME BankTypes, OtcTypes, Books, Rows, UNCHANGED bankVars,
         NEW p \in Calls, Only(p), Stage(p) = "commit", Stage(p)' = "log5",
         contract[p[1]] # "EXERCISED", contract' = [contract EXCEPT ![p[1]] = "EXERCISED"]
  PROVE  Books' /\ Rows'
<1> DEFINE c == p[1]
<1>0. /\ c \in Contracts /\ Pay[c] \in Nat /\ Receive[c] \in Nat /\ Amount[c] \in Nat
      /\ account' = account /\ shares' = shares
  BY CallIsPair DEF bankVars
<1>1. /\ contract'[c] = "EXERCISED"
      /\ \A d \in Contracts \ {c} : contract'[d] = contract[d]
  BY <1>0 DEF OtcTypes
<1>2. \A where, x : \A weight \in [Contracts -> Nat] :
        Exercised(where, x, weight)'
          = Exercised(where, x, weight) + IF where[c] = x THEN weight[c] ELSE 0
  BY <1>0, <1>1, ExercisedGrows
<1>3. \A labels, where, x : \A weight \in [Contracts -> Nat] :
        "commit" \in labels /\ "log5" \notin labels =>
          InFlight(labels, where, x, weight)'
            = InFlight(labels, where, x, weight) - IF where[c] = x THEN weight[c] ELSE 0
  <2> SUFFICES ASSUME NEW labels, NEW where, NEW x, NEW weight \in [Contracts -> Nat],
                      "commit" \in labels, "log5" \notin labels
               PROVE  InFlight(labels, where, x, weight)'
                        = InFlight(labels, where, x, weight)
                          - IF where[c] = x THEN weight[c] ELSE 0
    OBVIOUS
  <2>1. InFlight(labels, where, x, weight)' = InFlight(labels, where, x, weight)
           + IF where[c] = x
             THEN Share(labels, Stage(p)', weight[c]) - Share(labels, Stage(p), weight[c])
             ELSE 0
    BY InFlightChange
  <2>2. Share(labels, Stage(p)', weight[c]) = 0 /\ Share(labels, Stage(p), weight[c]) = weight[c]
    BY DEF Share
  <2>3. InFlight(labels, where, x, weight) \in Nat /\ weight[c] \in Nat BY <1>0, InFlightNat
  <2> QED BY <2>1, <2>2, <2>3
<1>4. \A u : InFlight(SharesReserved, Seller, u, Amount)'
               = InFlight(SharesReserved, Seller, u, Amount)
  <2>1. "commit" \notin SharesReserved /\ "log5" \notin SharesReserved BY WhatLabelsStandFor
  <2>2. \A q \in Calls : Stage(q) \in SharesReserved <=> Stage(q)' \in SharesReserved
    BY <2>1 DEF Only
  <2> QED BY <2>2, InFlightKept
<1>5. ASSUME NEW a \in Accounts
      PROVE  /\ EffectiveBalance'[a] = InitBalance[a]
                  - Exercised(PayingAccount, a, Pay)' + Exercised(SellerAccount, a, Receive)'
             /\ EffectiveAvailable'[a] = InitBalance[a]
                  - Exercised(PayingAccount, a, Pay)' + Exercised(SellerAccount, a, Receive)'
  <2> DEFINE out == IF PayingAccount[c] = a THEN Pay[c] ELSE 0
             in == IF SellerAccount[c] = a THEN Receive[c] ELSE 0
  <2>1. out \in Nat /\ in \in Nat BY <1>0
  <2>2. /\ Exercised(PayingAccount, a, Pay)' = Exercised(PayingAccount, a, Pay) + out
        /\ Exercised(SellerAccount, a, Receive)' = Exercised(SellerAccount, a, Receive) + in
    BY <1>2
  <2>3. /\ InFlight(BuyerDebited, PayingAccount, a, Pay)'
             = InFlight(BuyerDebited, PayingAccount, a, Pay) - out
        /\ InFlight(FundsReserved, PayingAccount, a, Pay)'
             = InFlight(FundsReserved, PayingAccount, a, Pay) - out
        /\ InFlight(SellerCredited, SellerAccount, a, Receive)'
             = InFlight(SellerCredited, SellerAccount, a, Receive) - in
    BY <1>3, WhatLabelsStandFor
  <2>4. /\ InFlight(BuyerDebited, PayingAccount, a, Pay) \in Nat
        /\ InFlight(FundsReserved, PayingAccount, a, Pay) \in Nat
        /\ InFlight(SellerCredited, SellerAccount, a, Receive) \in Nat
        /\ Exercised(PayingAccount, a, Pay) \in Nat
        /\ Exercised(SellerAccount, a, Receive) \in Nat
        /\ account[a].balance \in Int /\ account[a].available \in Int
        /\ InitBalance[a] \in Nat
    BY InFlightNat, ExercisedNat DEF BankTypes, AccountTable
  <2>5. /\ account[a].balance + InFlight(BuyerDebited, PayingAccount, a, Pay)
             - InFlight(SellerCredited, SellerAccount, a, Receive)
           = InitBalance[a] - Exercised(PayingAccount, a, Pay)
               + Exercised(SellerAccount, a, Receive)
        /\ account[a].available + InFlight(FundsReserved, PayingAccount, a, Pay)
             - InFlight(SellerCredited, SellerAccount, a, Receive)
           = InitBalance[a] - Exercised(PayingAccount, a, Pay)
               + Exercised(SellerAccount, a, Receive)
    BY DEF Books, EffectiveBalance, EffectiveAvailable
  <2>6. /\ EffectiveBalance'[a] = account[a].balance
             + InFlight(BuyerDebited, PayingAccount, a, Pay)'
             - InFlight(SellerCredited, SellerAccount, a, Receive)'
        /\ EffectiveAvailable'[a] = account[a].available
             + InFlight(FundsReserved, PayingAccount, a, Pay)'
             - InFlight(SellerCredited, SellerAccount, a, Receive)'
    BY <1>0 DEF EffectiveBalance, EffectiveAvailable
  <2> HIDE DEF out, in
  <2> QED BY <2>1, <2>2, <2>3, <2>4, <2>5, <2>6
<1>6. ASSUME NEW u \in Users
      PROVE  /\ EffectiveHolding'[u] = InitShares[u]
                  - Exercised(Seller, u, Amount)' + Exercised(Buyer, u, Amount)'
             /\ EffectiveReserved'[u] = 0
  <2> DEFINE out == IF Seller[c] = u THEN Amount[c] ELSE 0
             in == IF Buyer[c] = u THEN Amount[c] ELSE 0
  <2>1. out \in Nat /\ in \in Nat BY <1>0
  <2>2. /\ Exercised(Seller, u, Amount)' = Exercised(Seller, u, Amount) + out
        /\ Exercised(Buyer, u, Amount)' = Exercised(Buyer, u, Amount) + in
    BY <1>2
  <2>3. /\ InFlight(SharesTaken, Seller, u, Amount)'
             = InFlight(SharesTaken, Seller, u, Amount) - out
        /\ InFlight(SharesGiven, Buyer, u, Amount)'
             = InFlight(SharesGiven, Buyer, u, Amount) - in
    BY <1>3, WhatLabelsStandFor
  <2>4. /\ InFlight(SharesTaken, Seller, u, Amount) \in Nat
        /\ InFlight(SharesGiven, Buyer, u, Amount) \in Nat
        /\ Exercised(Seller, u, Amount) \in Nat
        /\ Exercised(Buyer, u, Amount) \in Nat
        /\ shares[u].amount \in Int /\ shares[u].reserved \in Int /\ InitShares[u] \in Nat
    BY InFlightNat, ExercisedNat DEF BankTypes, ShareTable
  <2>5. /\ shares[u].amount + InFlight(SharesTaken, Seller, u, Amount)
             - InFlight(SharesGiven, Buyer, u, Amount)
           = InitShares[u] - Exercised(Seller, u, Amount) + Exercised(Buyer, u, Amount)
        /\ shares[u].reserved - InFlight(SharesReserved, Seller, u, Amount) = 0
    BY DEF Books, EffectiveHolding, EffectiveReserved
  <2>6. /\ EffectiveHolding'[u] = shares[u].amount
             + InFlight(SharesTaken, Seller, u, Amount)'
             - InFlight(SharesGiven, Buyer, u, Amount)'
        /\ EffectiveReserved'[u] = shares[u].reserved
             - InFlight(SharesReserved, Seller, u, Amount)'
    BY <1>0 DEF EffectiveHolding, EffectiveReserved
  <2> HIDE DEF out, in
  <2> QED BY <1>4, <2>1, <2>2, <2>3, <2>4, <2>5, <2>6
<1>7. Books' BY <1>5, <1>6 DEF Books
<1>8. Rows' BY <1>0 DEF Rows
<1> QED BY <1>7, <1>8

(***************************************************************************)
(* The steps of a call.                                                    *)
(***************************************************************************)
LEMMA CallTouches ==
  ASSUME TypeOK, NEW p \in Calls, CallStep(p)
  PROVE  /\ rpc' = rpc
         /\ \A d \in Contracts \ {p[1]} : saga'[d] = saga[d] /\ logged'[d] = logged[d]
         /\ CommitContract(p) \/ contract' = contract
<1>1. rpc' = rpc
  BY DEF CallStep, CheckCompleted, LockContract, InsertSaga, LookupFails,
     ReserveFunds, ReserveShares, DebitBuyer, CreditSeller, UndoDebit, TakeShares,
     DropRow, GiveShares, UndoTake, VerifyHolding, CommitContract, LogStep, LogSuccess,
     LogCompleted, RecordExerciseTax, Comp4, Comp3, Comp2, Comp1, Compensate,
     EndCompensated, Fails, otcVars
<1>2. \A d \in Contracts \ {p[1]} : saga'[d] = saga[d]
  BY CallIsPair
     DEF CallStep, CheckCompleted, LockContract, InsertSaga, LookupFails,
     ReserveFunds, ReserveShares, DebitBuyer, CreditSeller, UndoDebit, TakeShares,
     DropRow, GiveShares, UndoTake, VerifyHolding, CommitContract, LogStep, LogSuccess,
     LogCompleted, RecordExerciseTax, Comp4, Comp3, Comp2, Comp1, Compensate,
     EndCompensated, Fails, SagaStatus, otcVars, TypeOK
<1>3. \A d \in Contracts \ {p[1]} : logged'[d] = logged[d]
  BY CallIsPair
     DEF CallStep, CheckCompleted, LockContract, InsertSaga, LookupFails,
     ReserveFunds, ReserveShares, DebitBuyer, CreditSeller, UndoDebit, TakeShares,
     DropRow, GiveShares, UndoTake, VerifyHolding, CommitContract, LogStep, LogSuccess,
     LogCompleted, RecordExerciseTax, Comp4, Comp3, Comp2, Comp1, Compensate,
     EndCompensated, Fails, SagaLog, otcVars, TypeOK
<1>4. CommitContract(p) \/ contract' = contract
  BY DEF CallStep, CheckCompleted, LockContract, InsertSaga, LookupFails,
     ReserveFunds, ReserveShares, DebitBuyer, CreditSeller, UndoDebit, TakeShares,
     DropRow, GiveShares, UndoTake, VerifyHolding, LogStep, LogSuccess,
     LogCompleted, RecordExerciseTax, Comp4, Comp3, Comp2, Comp1, Compensate,
     EndCompensated, Fails, otcVars
<1> QED BY <1>1, <1>2, <1>3, <1>4

(* Nothing is given up.                                                    *)
LEMMA NeverGivesUp ==
  ASSUME EnvTypes, Undoable, NEW acc, NEW sh, Retried(acc, sh)
  PROVE  account' = acc /\ shares' = sh
BY DEF EnvTypes, Undoable, Retried

LEMMA PositionsNow ==
  ASSUME TypeOK, Control, Recoverable, NEW p \in Calls, CallStep(p),
         NEW from, NEW to, from # "lost", to # "lost", At(p, from, to)
  PROVE  Only(p) /\ Stage(p) = from /\ Stage(p)' = to
BY CallTouches, CallMoves, TypeGroups

(* Steps that move nothing, whatever they write into saga and log.         *)
LEMMA QuietCallBooks ==
  ASSUME TypeOK, BooksInv, Recoverable, NEW p \in Calls, CallStep(p),
         contract' = contract, UNCHANGED bankVars,
         NEW from, NEW to, from # "lost", to # "lost", At(p, from, to), Alike(from, to)
  PROVE  Books' /\ Rows'
<1>1. Only(p) /\ Stage(p) = from /\ Stage(p)' = to BY PositionsNow DEF BooksInv
<1> QED BY <1>1, NothingMoves DEF SameContracts, BooksInv

LEMMA EntryBooks ==
  ASSUME TypeOK, BooksInv, Recoverable, NEW p \in Calls, CallStep(p),
         \/ CheckCompleted(p) \/ LockContract(p) \/ InsertSaga(p) \/ LookupFails(p)
         \/ LogStep(p) \/ LogCompleted(p) \/ RecordExerciseTax(p) \/ EndCompensated(p)
         \/ VerifyHolding(p)
  PROVE  Books' /\ Rows'
<1> USE SameEffect
<1>1. CASE CheckCompleted(p)
  BY <1>1, QuietCallBooks DEF CheckCompleted, otcVars
<1>2. CASE LockContract(p)
  BY <1>2, QuietCallBooks DEF LockContract
<1>3. CASE InsertSaga(p)
  BY <1>3, QuietCallBooks DEF InsertSaga
<1>4. CASE LookupFails(p)
  BY <1>4, QuietCallBooks DEF LookupFails
<1>5. CASE LogStep(p)
  BY <1>5, QuietCallBooks DEF LogStep, LogSuccess
<1>6. CASE LogCompleted(p)
  BY <1>6, QuietCallBooks DEF LogCompleted
<1>7. CASE RecordExerciseTax(p)
  BY <1>7, QuietCallBooks DEF RecordExerciseTax
<1>8. CASE EndCompensated(p)
  BY <1>8, QuietCallBooks DEF EndCompensated
<1>9. CASE VerifyHolding(p)
  BY <1>9, QuietCallBooks DEF VerifyHolding, Statement, Fails, otcVars
<1> QED BY <1>1, <1>2, <1>3, <1>4, <1>5, <1>6, <1>7, <1>8, <1>9

LEMMA ReserveFundsBooks ==
  ASSUME TypeOK, BooksInv, Recoverable, NEW p \in Calls, CallStep(p), ReserveFunds(p)
  PROVE  Books' /\ Rows'
<1> DEFINE c == p[1]
<1>0. c \in Contracts /\ Pay[c] \in Nat BY CallIsPair
<1>1. ASSUME At(p, "reserveFunds", "log1"), shares' = shares, contract' = contract,
             account' = Move(account, PayingAccount[c], 0, -Pay[c])
      PROVE  Books' /\ Rows'
  <2>1. Only(p) /\ Stage(p) = "reserveFunds" /\ Stage(p)' = "log1"
    BY <1>1, PositionsNow DEF BooksInv
  <2>2. /\ SellsAlike("reserveFunds", "log1")
        /\ "reserveFunds" \in SharesGiven <=> "log1" \in SharesGiven
        /\ "reserveFunds" \in SellerCredited <=> "log1" \in SellerCredited
        /\ Share(BuyerDebited, "log1", Pay[c]) = Share(BuyerDebited, "reserveFunds", Pay[c]) - 0
        /\ Share(FundsReserved, "log1", Pay[c])
             = Share(FundsReserved, "reserveFunds", Pay[c]) - (-Pay[c])
    BY <1>0, WhatLabelsStandFor DEF SellsAlike, Share
  <2> QED BY <1>0, <1>1, <2>1, <2>2, PayingStep, TypeGroups DEF SameContracts, BooksInv
<1>2. ASSUME At(p, "reserveFunds", "end"), UNCHANGED bankVars, contract' = contract
      PROVE  Books' /\ Rows'
  BY <1>2, QuietCallBooks, SameEffect
<1> QED BY <1>1, <1>2 DEF ReserveFunds, Statement, Fails, otcVars

LEMMA ReserveSharesBooks ==
  ASSUME TypeOK, BooksInv, Recoverable, OneSided, NEW p \in Calls, CallStep(p), ReserveShares(p)
  PROVE  Books' /\ Rows'
<1> DEFINE c == p[1]
<1>0. /\ c \in Contracts /\ Pay[c] \in Nat /\ Receive[c] \in Nat /\ Amount[c] \in Nat
      /\ Pay[c] \in Int /\ Receive[c] \in Int /\ Amount[c] \in Int
      /\ 0 \in Int /\ -Pay[c] \in Int /\ -Receive[c] \in Int /\ -Amount[c] \in Int
      /\ Seller[c] \in Users /\ Buyer[c] \in Users
  BY CallIsPair
<1>s. /\ 0 =< shares[Seller[c]].reserved
      /\ shares[Seller[c]].reserved =< shares[Seller[c]].amount
      /\ shares[Seller[c]].reserved \in Int /\ shares[Seller[c]].amount \in Int
      /\ Stage(p) \in SharesReserved =>
           /\ Amount[c] =< shares[Seller[c]].reserved
           /\ shares[Seller[c]].row \/ Amount[c] = 0
  BY <1>0, SellerHas, TypeGroups DEF BooksInv, BankTypes, ShareTable
<1>1. ASSUME At(p, "reserveShares", "log2"), account' = account, contract' = contract,
             shares' = Update(shares, Seller[c], 0, Amount[c]),
             CanReserveShares(Seller[c], Amount[c])
      PROVE  Books' /\ Rows'
  <2>0. BankTypes /\ Books /\ Rows /\ SameContracts
    BY <1>1, TypeGroups DEF SameContracts, BooksInv
  <2>1. Only(p) /\ Stage(p) = "reserveShares" /\ Stage(p)' = "log2"
    BY <1>1, PositionsNow DEF BooksInv
  <2>2. /\ PaysAlike("reserveShares", "log2")
        /\ "reserveShares" \in SharesGiven <=> "log2" \in SharesGiven
        /\ Share(SharesTaken, "log2", Amount[c])
             = Share(SharesTaken, "reserveShares", Amount[c]) - 0
        /\ Share(SharesReserved, "log2", Amount[c])
             = Share(SharesReserved, "reserveShares", Amount[c]) + Amount[c]
        /\ ~("reserveShares" \in SharesReserved)
    BY <1>0, WhatLabelsStandFor DEF PaysAlike, Share
  <2>3. /\ shares[Seller[c]].row \/ (0 = 0 /\ Amount[c] = 0)
        /\ 0 =< shares[Seller[c]].reserved + Amount[c]
        /\ shares[Seller[c]].reserved + Amount[c] =< shares[Seller[c]].amount + 0
    BY <1>0, <1>1, <1>s, <2>1, <2>2 DEF RowFound, CanReserveShares, At
  <2>4. Added(Seller[c], 0, Amount[c])
    BY <1>0, <1>1, <2>3, UpdateAdds, TypeGroups DEF BooksInv
  <2> QED BY <1>0, <1>1, <2>0, <2>1, <2>2, <2>3, <2>4, SellerStep, Zenon
<1>2. ASSUME At(p, "reserveShares", "c1"), UNCHANGED bankVars, contract' = contract
      PROVE  Books' /\ Rows'
  BY <1>2, QuietCallBooks, SameEffect
<1> QED BY <1>1, <1>2
    DEF ReserveShares, Statement, Fails, otcVars, bankVars

LEMMA DebitBuyerBooks ==
  ASSUME TypeOK, BooksInv, Recoverable, OneSided, NEW p \in Calls, CallStep(p), DebitBuyer(p)
  PROVE  Books' /\ Rows'
<1> DEFINE c == p[1]
<1>0. /\ c \in Contracts /\ Pay[c] \in Nat /\ Receive[c] \in Nat /\ Amount[c] \in Nat
      /\ Pay[c] \in Int /\ Receive[c] \in Int /\ Amount[c] \in Int
      /\ 0 \in Int /\ -Pay[c] \in Int /\ -Receive[c] \in Int /\ -Amount[c] \in Int
      /\ Seller[c] \in Users /\ Buyer[c] \in Users
  BY CallIsPair
<1>1. ASSUME At(p, "debitBuyer", "creditSeller"), shares' = shares, contract' = contract,
             account' = Move(account, PayingAccount[c], -Pay[c], 0)
      PROVE  Books' /\ Rows'
  <2>0. BankTypes /\ Books /\ Rows /\ SameContracts
    BY <1>1, TypeGroups DEF SameContracts, BooksInv
  <2>1. Only(p) /\ Stage(p) = "debitBuyer" /\ Stage(p)' = "creditSeller"
    BY <1>1, PositionsNow DEF BooksInv
  <2>2. /\ SellsAlike("debitBuyer", "creditSeller")
        /\ "debitBuyer" \in SharesGiven <=> "creditSeller" \in SharesGiven
        /\ "debitBuyer" \in SellerCredited <=> "creditSeller" \in SellerCredited
        /\ Share(BuyerDebited, "creditSeller", Pay[c])
             = Share(BuyerDebited, "debitBuyer", Pay[c]) - (-Pay[c])
        /\ Share(FundsReserved, "creditSeller", Pay[c])
             = Share(FundsReserved, "debitBuyer", Pay[c]) - 0
    BY <1>0, WhatLabelsStandFor DEF SellsAlike, Share
  <2> QED BY <1>0, <1>1, <2>0, <2>1, <2>2, PayingStep, Zenon
<1>2. ASSUME At(p, "debitBuyer", "c2"), UNCHANGED bankVars, contract' = contract
      PROVE  Books' /\ Rows'
  BY <1>2, QuietCallBooks, SameEffect
<1> QED BY <1>1, <1>2
    DEF DebitBuyer, Statement, Fails, otcVars, bankVars

LEMMA CreditSellerBooks ==
  ASSUME TypeOK, BooksInv, Recoverable, OneSided, NEW p \in Calls, CallStep(p), CreditSeller(p)
  PROVE  Books' /\ Rows'
<1> DEFINE c == p[1]
<1>0. /\ c \in Contracts /\ Pay[c] \in Nat /\ Receive[c] \in Nat /\ Amount[c] \in Nat
      /\ Pay[c] \in Int /\ Receive[c] \in Int /\ Amount[c] \in Int
      /\ 0 \in Int /\ -Pay[c] \in Int /\ -Receive[c] \in Int /\ -Amount[c] \in Int
      /\ Seller[c] \in Users /\ Buyer[c] \in Users
  BY CallIsPair
<1>1. ASSUME At(p, "creditSeller", "log3"), shares' = shares, contract' = contract,
             account' = Move(account, SellerAccount[c], Receive[c], Receive[c])
      PROVE  Books' /\ Rows'
  <2>0. BankTypes /\ Books /\ Rows /\ SameContracts
    BY <1>1, TypeGroups DEF SameContracts, BooksInv
  <2>1. Only(p) /\ Stage(p) = "creditSeller" /\ Stage(p)' = "log3"
    BY <1>1, PositionsNow DEF BooksInv
  <2>2. /\ SellsAlike("creditSeller", "log3")
        /\ "creditSeller" \in SharesGiven <=> "log3" \in SharesGiven
        /\ "creditSeller" \in BuyerDebited <=> "log3" \in BuyerDebited
        /\ "creditSeller" \in FundsReserved <=> "log3" \in FundsReserved
        /\ Share(SellerCredited, "log3", Receive[c])
             = Share(SellerCredited, "creditSeller", Receive[c]) + Receive[c]
    BY <1>0, WhatLabelsStandFor DEF SellsAlike, Share
  <2> QED BY <1>0, <1>1, <2>0, <2>1, <2>2, CreditingStep, Zenon
<1>2. ASSUME At(p, "creditSeller", "undoDebit"), UNCHANGED bankVars, contract' = contract
      PROVE  Books' /\ Rows'
  BY <1>2, QuietCallBooks, SameEffect
<1> QED BY <1>1, <1>2
    DEF CreditSeller, Statement, Fails, otcVars, bankVars

LEMMA UndoDebitBooks ==
  ASSUME TypeOK, BooksInv, Recoverable, OneSided, Undoable, NEW p \in Calls, CallStep(p), UndoDebit(p)
  PROVE  Books' /\ Rows'
<1> DEFINE c == p[1]
<1>0. /\ c \in Contracts /\ Pay[c] \in Nat /\ Receive[c] \in Nat /\ Amount[c] \in Nat
      /\ Pay[c] \in Int /\ Receive[c] \in Int /\ Amount[c] \in Int
      /\ 0 \in Int /\ -Pay[c] \in Int /\ -Receive[c] \in Int /\ -Amount[c] \in Int
      /\ Seller[c] \in Users /\ Buyer[c] \in Users
  BY CallIsPair
<1>1. ASSUME At(p, "undoDebit", "c2"), shares' = shares, contract' = contract,
             account' = Move(account, PayingAccount[c], Pay[c], 0)
      PROVE  Books' /\ Rows'
  <2>0. BankTypes /\ Books /\ Rows /\ SameContracts
    BY <1>1, TypeGroups DEF SameContracts, BooksInv
  <2>1. Only(p) /\ Stage(p) = "undoDebit" /\ Stage(p)' = "c2"
    BY <1>1, PositionsNow DEF BooksInv
  <2>2. /\ SellsAlike("undoDebit", "c2")
        /\ "undoDebit" \in SharesGiven <=> "c2" \in SharesGiven
        /\ "undoDebit" \in SellerCredited <=> "c2" \in SellerCredited
        /\ Share(BuyerDebited, "c2", Pay[c])
             = Share(BuyerDebited, "undoDebit", Pay[c]) - Pay[c]
        /\ Share(FundsReserved, "c2", Pay[c])
             = Share(FundsReserved, "undoDebit", Pay[c]) - 0
    BY <1>0, WhatLabelsStandFor DEF SellsAlike, Share
  <2> QED BY <1>0, <1>1, <2>0, <2>1, <2>2, PayingStep, Zenon
<1>r. contract' = contract BY DEF UndoDebit, otcVars
<1> QED BY <1>1, <1>r, NeverGivesUp, TypeGroups
    DEF UndoDebit, bankVars

LEMMA TakeSharesBooks ==
  ASSUME TypeOK, BooksInv, Recoverable, OneSided, NEW p \in Calls, CallStep(p), TakeShares(p)
  PROVE  Books' /\ Rows'
<1> DEFINE c == p[1]
<1>0. /\ c \in Contracts /\ Pay[c] \in Nat /\ Receive[c] \in Nat /\ Amount[c] \in Nat
      /\ Pay[c] \in Int /\ Receive[c] \in Int /\ Amount[c] \in Int
      /\ 0 \in Int /\ -Pay[c] \in Int /\ -Receive[c] \in Int /\ -Amount[c] \in Int
      /\ Seller[c] \in Users /\ Buyer[c] \in Users
  BY CallIsPair
<1>s. /\ 0 =< shares[Seller[c]].reserved
      /\ shares[Seller[c]].reserved =< shares[Seller[c]].amount
      /\ shares[Seller[c]].reserved \in Int /\ shares[Seller[c]].amount \in Int
      /\ Stage(p) \in SharesReserved =>
           /\ Amount[c] =< shares[Seller[c]].reserved
           /\ shares[Seller[c]].row \/ Amount[c] = 0
  BY <1>0, SellerHas, TypeGroups DEF BooksInv, BankTypes, ShareTable
<1>1. ASSUME At(p, "takeShares", "dropRow"), account' = account, contract' = contract,
             shares' = Update(shares, Seller[c], -Amount[c], -Amount[c])
      PROVE  Books' /\ Rows'
  <2>0. BankTypes /\ Books /\ Rows /\ SameContracts
    BY <1>1, TypeGroups DEF SameContracts, BooksInv
  <2>1. Only(p) /\ Stage(p) = "takeShares" /\ Stage(p)' = "dropRow"
    BY <1>1, PositionsNow DEF BooksInv
  <2>2. /\ PaysAlike("takeShares", "dropRow")
        /\ "takeShares" \in SharesGiven <=> "dropRow" \in SharesGiven
        /\ Share(SharesTaken, "dropRow", Amount[c])
             = Share(SharesTaken, "takeShares", Amount[c]) - (-Amount[c])
        /\ Share(SharesReserved, "dropRow", Amount[c])
             = Share(SharesReserved, "takeShares", Amount[c]) + (-Amount[c])
        /\ "takeShares" \in SharesReserved
    BY <1>0, WhatLabelsStandFor DEF PaysAlike, Share
  <2>3. /\ shares[Seller[c]].row \/ (-Amount[c] = 0 /\ -Amount[c] = 0)
        /\ 0 =< shares[Seller[c]].reserved + (-Amount[c])
        /\ shares[Seller[c]].reserved + (-Amount[c]) =< shares[Seller[c]].amount + (-Amount[c])
    BY <1>0, <1>1, <1>s, <2>1, <2>2 
  <2>4. Added(Seller[c], -Amount[c], -Amount[c])
    BY <1>0, <1>1, <2>3, UpdateAdds, TypeGroups DEF BooksInv
  <2> QED BY <1>0, <1>1, <2>0, <2>1, <2>2, <2>3, <2>4, SellerStep, Zenon
<1>2. ASSUME At(p, "takeShares", "c3buyer"), UNCHANGED bankVars, contract' = contract
      PROVE  Books' /\ Rows'
  BY <1>2, QuietCallBooks, SameEffect
<1> QED BY <1>1, <1>2
    DEF TakeShares, Statement, Fails, otcVars, bankVars

LEMMA DropRowBooks ==
  ASSUME TypeOK, BooksInv, Recoverable, OneSided, NEW p \in Calls, CallStep(p), DropRow(p)
  PROVE  Books' /\ Rows'
<1> DEFINE c == p[1]
<1>0. /\ c \in Contracts /\ Pay[c] \in Nat /\ Receive[c] \in Nat /\ Amount[c] \in Nat
      /\ Pay[c] \in Int /\ Receive[c] \in Int /\ Amount[c] \in Int
      /\ 0 \in Int /\ -Pay[c] \in Int /\ -Receive[c] \in Int /\ -Amount[c] \in Int
      /\ Seller[c] \in Users /\ Buyer[c] \in Users
  BY CallIsPair
<1>s. /\ 0 =< shares[Seller[c]].reserved
      /\ shares[Seller[c]].reserved =< shares[Seller[c]].amount
      /\ shares[Seller[c]].reserved \in Int /\ shares[Seller[c]].amount \in Int
      /\ Stage(p) \in SharesReserved =>
           /\ Amount[c] =< shares[Seller[c]].reserved
           /\ shares[Seller[c]].row \/ Amount[c] = 0
  BY <1>0, SellerHas, TypeGroups DEF BooksInv, BankTypes, ShareTable
<1>1. ASSUME At(p, "dropRow", "giveShares"), account' = account, contract' = contract,
             shares' = DropEmpty(shares, Seller[c])
      PROVE  Books' /\ Rows'
  <2>0. BankTypes /\ Books /\ Rows /\ SameContracts
    BY <1>1, TypeGroups DEF SameContracts, BooksInv
  <2>1. Only(p) /\ Stage(p) = "dropRow" /\ Stage(p)' = "giveShares"
    BY <1>1, PositionsNow DEF BooksInv
  <2>2. /\ PaysAlike("dropRow", "giveShares") /\ SellsAlike("dropRow", "giveShares")
        /\ "dropRow" \in SharesGiven <=> "giveShares" \in SharesGiven
        /\ Share(SharesTaken, "giveShares", Amount[c]) = Share(SharesTaken, "dropRow", Amount[c]) - 0
        /\ Share(SharesReserved, "giveShares", Amount[c]) = Share(SharesReserved, "dropRow", Amount[c]) + 0
    BY <1>0, WhatLabelsStandFor DEF PaysAlike, SellsAlike, Share
  <2>3. Added(Seller[c], 0, 0)
    BY <1>0, <1>1, <1>s, DropEmptyAdds, TypeGroups DEF BooksInv
  <2>4. shares[Seller[c]].reserved + 0 =< shares[Seller[c]].amount + 0 BY <1>s
  <2> QED BY <1>0, <1>1, <2>0, <2>1, <2>2, <2>3, <2>4, SellerStep, Zenon
<1>2. ASSUME At(p, "dropRow", "giveShares"), UNCHANGED bankVars, contract' = contract
      PROVE  Books' /\ Rows'
  BY <1>2, QuietCallBooks, SameEffect
<1> QED BY <1>1, <1>2
    DEF DropRow, Statement, Fails, otcVars, bankVars

LEMMA GiveSharesBooks ==
  ASSUME TypeOK, BooksInv, Recoverable, OneSided, NEW p \in Calls, CallStep(p), GiveShares(p)
  PROVE  Books' /\ Rows'
<1> DEFINE c == p[1]
<1>0. /\ c \in Contracts /\ Pay[c] \in Nat /\ Receive[c] \in Nat /\ Amount[c] \in Nat
      /\ Pay[c] \in Int /\ Receive[c] \in Int /\ Amount[c] \in Int
      /\ 0 \in Int /\ -Pay[c] \in Int /\ -Receive[c] \in Int /\ -Amount[c] \in Int
      /\ Seller[c] \in Users /\ Buyer[c] \in Users
  BY CallIsPair
<1>b. /\ shares[Buyer[c]].reserved = 0 /\ 0 =< shares[Buyer[c]].amount
      /\ Stage(p) \in SharesGiven => shares[Buyer[c]].row \/ Amount[c] = 0
  BY <1>0, BuyerHas, TypeGroups DEF BooksInv
<1>1. ASSUME At(p, "giveShares", "log4"), account' = account, contract' = contract,
             shares' = Upsert(shares, Buyer[c], Amount[c], 0)
      PROVE  Books' /\ Rows'
  <2>0. BankTypes /\ Books /\ Rows /\ SameContracts
    BY <1>1, TypeGroups DEF SameContracts, BooksInv
  <2>1. Only(p) /\ Stage(p) = "giveShares" /\ Stage(p)' = "log4"
    BY <1>1, PositionsNow DEF BooksInv
  <2>2. /\ PaysAlike("giveShares", "log4") /\ SellsAlike("giveShares", "log4")
        /\ Share(SharesGiven, "log4", Amount[c])
             = Share(SharesGiven, "giveShares", Amount[c]) + Amount[c]
        /\ ~("giveShares" \in SharesGiven)
    BY <1>0, WhatLabelsStandFor DEF PaysAlike, SellsAlike, Share
  <2>3. /\ 0 =< shares[Buyer[c]].reserved + 0
    BY <1>0, <1>b, <2>1, <2>2
  <2>4. Added(Buyer[c], Amount[c], 0)
    BY <1>0, <1>1, <2>3, UpsertAdds, TypeGroups DEF BooksInv
  <2> QED BY <1>0, <1>1, <2>0, <2>1, <2>2, <2>4, BuyerStep, Zenon
<1>2. ASSUME At(p, "giveShares", "undoTake"), UNCHANGED bankVars, contract' = contract
      PROVE  Books' /\ Rows'
  BY <1>2, QuietCallBooks, SameEffect
<1> QED BY <1>1, <1>2
    DEF GiveShares, Statement, Fails, otcVars, bankVars

LEMMA UndoTakeBooks ==
  ASSUME TypeOK, BooksInv, Recoverable, OneSided, Undoable, RowFound, NEW p \in Calls, CallStep(p), UndoTake(p)
  PROVE  Books' /\ Rows'
<1> DEFINE c == p[1]
<1>0. /\ c \in Contracts /\ Pay[c] \in Nat /\ Receive[c] \in Nat /\ Amount[c] \in Nat
      /\ Pay[c] \in Int /\ Receive[c] \in Int /\ Amount[c] \in Int
      /\ 0 \in Int /\ -Pay[c] \in Int /\ -Receive[c] \in Int /\ -Amount[c] \in Int
      /\ Seller[c] \in Users /\ Buyer[c] \in Users
  BY CallIsPair
<1>s. /\ 0 =< shares[Seller[c]].reserved
      /\ shares[Seller[c]].reserved =< shares[Seller[c]].amount
      /\ shares[Seller[c]].reserved \in Int /\ shares[Seller[c]].amount \in Int
      /\ Stage(p) \in SharesReserved =>
           /\ Amount[c] =< shares[Seller[c]].reserved
           /\ shares[Seller[c]].row \/ Amount[c] = 0
  BY <1>0, SellerHas, TypeGroups DEF BooksInv, BankTypes, ShareTable
<1>1. ASSUME At(p, "undoTake", "c3buyer"), account' = account, contract' = contract,
             shares' = Update(shares, Seller[c], Amount[c], Amount[c]),
             shares[Seller[c]].row
      PROVE  Books' /\ Rows'
  <2>0. BankTypes /\ Books /\ Rows /\ SameContracts
    BY <1>1, TypeGroups DEF SameContracts, BooksInv
  <2>1. Only(p) /\ Stage(p) = "undoTake" /\ Stage(p)' = "c3buyer"
    BY <1>1, PositionsNow DEF BooksInv
  <2>2. /\ PaysAlike("undoTake", "c3buyer")
        /\ "undoTake" \in SharesGiven <=> "c3buyer" \in SharesGiven
        /\ Share(SharesTaken, "c3buyer", Amount[c])
             = Share(SharesTaken, "undoTake", Amount[c]) - Amount[c]
        /\ Share(SharesReserved, "c3buyer", Amount[c])
             = Share(SharesReserved, "undoTake", Amount[c]) + Amount[c]
        /\ ~("undoTake" \in SharesReserved)
    BY <1>0, WhatLabelsStandFor DEF PaysAlike, Share
  <2>3. /\ shares[Seller[c]].row \/ (Amount[c] = 0 /\ Amount[c] = 0)
        /\ 0 =< shares[Seller[c]].reserved + Amount[c]
        /\ shares[Seller[c]].reserved + Amount[c] =< shares[Seller[c]].amount + Amount[c]
    BY <1>0, <1>1, <1>s, <2>1, <2>2 DEF RowFound, CanReserveShares, At
  <2>4. Added(Seller[c], Amount[c], Amount[c])
    BY <1>0, <1>1, <2>3, UpdateAdds, TypeGroups DEF BooksInv
  <2> QED BY <1>0, <1>1, <2>0, <2>1, <2>2, <2>3, <2>4, SellerStep, Zenon
<1>r. contract' = contract BY DEF UndoTake, otcVars
<1>w. shares[Seller[c]].row BY DEF RowFound, UndoTake, At
<1> QED BY <1>1, <1>r, <1>w, NeverGivesUp, TypeGroups
    DEF UndoTake, bankVars

LEMMA Comp4Books ==
  ASSUME TypeOK, BooksInv, Recoverable, OneSided, Undoable, NEW p \in Calls, CallStep(p), Comp4(p)
  PROVE  Books' /\ Rows'
<1> DEFINE c == p[1]
<1>0. /\ c \in Contracts /\ Pay[c] \in Nat /\ Receive[c] \in Nat /\ Amount[c] \in Nat
      /\ Pay[c] \in Int /\ Receive[c] \in Int /\ Amount[c] \in Int
      /\ 0 \in Int /\ -Pay[c] \in Int /\ -Receive[c] \in Int /\ -Amount[c] \in Int
      /\ Seller[c] \in Users /\ Buyer[c] \in Users
  BY CallIsPair
<1>s. /\ 0 =< shares[Seller[c]].reserved
      /\ shares[Seller[c]].reserved =< shares[Seller[c]].amount
      /\ shares[Seller[c]].reserved \in Int /\ shares[Seller[c]].amount \in Int
      /\ Stage(p) \in SharesReserved =>
           /\ Amount[c] =< shares[Seller[c]].reserved
           /\ shares[Seller[c]].row \/ Amount[c] = 0
  BY <1>0, SellerHas, TypeGroups DEF BooksInv, BankTypes, ShareTable
<1>b. /\ shares[Buyer[c]].reserved = 0 /\ 0 =< shares[Buyer[c]].amount
      /\ Stage(p) \in SharesGiven => shares[Buyer[c]].row \/ Amount[c] = 0
  BY <1>0, BuyerHas, TypeGroups DEF BooksInv
<1>1. ASSUME At(p, "c4seller", "c4buyer"), account' = account, contract' = contract,
             shares' = Upsert(shares, Seller[c], Amount[c], Amount[c])
      PROVE  Books' /\ Rows'
  <2>0. BankTypes /\ Books /\ Rows /\ SameContracts
    BY <1>1, TypeGroups DEF SameContracts, BooksInv
  <2>1. Only(p) /\ Stage(p) = "c4seller" /\ Stage(p)' = "c4buyer"
    BY <1>1, PositionsNow DEF BooksInv
  <2>2. /\ PaysAlike("c4seller", "c4buyer")
        /\ "c4seller" \in SharesGiven <=> "c4buyer" \in SharesGiven
        /\ Share(SharesTaken, "c4buyer", Amount[c])
             = Share(SharesTaken, "c4seller", Amount[c]) - Amount[c]
        /\ Share(SharesReserved, "c4buyer", Amount[c])
             = Share(SharesReserved, "c4seller", Amount[c]) + Amount[c]
        /\ ~("c4seller" \in SharesReserved)
    BY <1>0, WhatLabelsStandFor DEF PaysAlike, Share
  <2>3. /\ 0 =< shares[Seller[c]].reserved + Amount[c]
        /\ shares[Seller[c]].reserved + Amount[c] =< shares[Seller[c]].amount + Amount[c]
    BY <1>0, <1>1, <1>s, <2>1, <2>2 
  <2>4. Added(Seller[c], Amount[c], Amount[c])
    BY <1>0, <1>1, <2>3, UpsertAdds, TypeGroups DEF BooksInv
  <2> QED BY <1>0, <1>1, <2>0, <2>1, <2>2, <2>3, <2>4, SellerStep, Zenon
<1>2. ASSUME At(p, "c4buyer", "c4drop"), account' = account, contract' = contract,
             shares' = Update(shares, Buyer[c], -Amount[c], 0)
      PROVE  Books' /\ Rows'
  <2>0. BankTypes /\ Books /\ Rows /\ SameContracts
    BY <1>2, TypeGroups DEF SameContracts, BooksInv
  <2>1. Only(p) /\ Stage(p) = "c4buyer" /\ Stage(p)' = "c4drop"
    BY <1>2, PositionsNow DEF BooksInv
  <2>2. /\ PaysAlike("c4buyer", "c4drop") /\ SellsAlike("c4buyer", "c4drop")
        /\ Share(SharesGiven, "c4drop", Amount[c])
             = Share(SharesGiven, "c4buyer", Amount[c]) + (-Amount[c])
        /\ "c4buyer" \in SharesGiven
    BY <1>0, WhatLabelsStandFor DEF PaysAlike, SellsAlike, Share
  <2>3. /\ shares[Buyer[c]].row \/ -Amount[c] = 0
        /\ 0 =< shares[Buyer[c]].reserved + 0
    BY <1>0, <1>b, <2>1, <2>2
  <2>4. Added(Buyer[c], -Amount[c], 0)
    BY <1>0, <1>2, <2>3, UpdateAdds, TypeGroups DEF BooksInv
  <2> QED BY <1>0, <1>2, <2>0, <2>1, <2>2, <2>4, BuyerStep, Zenon
<1>3. ASSUME At(p, "c4drop", "c3buyer"), account' = account, contract' = contract,
             shares' = DropEmpty(shares, Buyer[c])
      PROVE  Books' /\ Rows'
  <2>0. BankTypes /\ Books /\ Rows /\ SameContracts
    BY <1>3, TypeGroups DEF SameContracts, BooksInv
  <2>1. Only(p) /\ Stage(p) = "c4drop" /\ Stage(p)' = "c3buyer"
    BY <1>3, PositionsNow DEF BooksInv
  <2>2. /\ PaysAlike("c4drop", "c3buyer") /\ SellsAlike("c4drop", "c3buyer")
        /\ "c4drop" \in SharesGiven <=> "c3buyer" \in SharesGiven
        /\ Share(SharesGiven, "c3buyer", Amount[c]) = Share(SharesGiven, "c4drop", Amount[c]) + 0
    BY <1>0, WhatLabelsStandFor DEF PaysAlike, SellsAlike, Share
  <2>3. Added(Buyer[c], 0, 0)
    BY <1>0, <1>3, <1>b, DropEmptyAdds, TypeGroups DEF BooksInv
  <2> QED BY <1>0, <1>3, <2>0, <2>1, <2>2, <2>3, BuyerStep, Zenon
<1>r. contract' = contract BY DEF Comp4, Compensate, otcVars
<1> QED BY <1>1, <1>2, <1>3, <1>r, NeverGivesUp, TypeGroups
    DEF Comp4, Compensate, bankVars

LEMMA Comp3Books ==
  ASSUME TypeOK, BooksInv, Recoverable, OneSided, Undoable, NEW p \in Calls, CallStep(p), Comp3(p)
  PROVE  Books' /\ Rows'
<1> DEFINE c == p[1]
<1>0. /\ c \in Contracts /\ Pay[c] \in Nat /\ Receive[c] \in Nat /\ Amount[c] \in Nat
      /\ Pay[c] \in Int /\ Receive[c] \in Int /\ Amount[c] \in Int
      /\ 0 \in Int /\ -Pay[c] \in Int /\ -Receive[c] \in Int /\ -Amount[c] \in Int
      /\ Seller[c] \in Users /\ Buyer[c] \in Users
  BY CallIsPair
<1>1. ASSUME At(p, "c3buyer", "c3seller"), shares' = shares, contract' = contract,
             account' = Move(account, PayingAccount[c], Pay[c], 0)
      PROVE  Books' /\ Rows'
  <2>0. BankTypes /\ Books /\ Rows /\ SameContracts
    BY <1>1, TypeGroups DEF SameContracts, BooksInv
  <2>1. Only(p) /\ Stage(p) = "c3buyer" /\ Stage(p)' = "c3seller"
    BY <1>1, PositionsNow DEF BooksInv
  <2>2. /\ SellsAlike("c3buyer", "c3seller")
        /\ "c3buyer" \in SharesGiven <=> "c3seller" \in SharesGiven
        /\ "c3buyer" \in SellerCredited <=> "c3seller" \in SellerCredited
        /\ Share(BuyerDebited, "c3seller", Pay[c])
             = Share(BuyerDebited, "c3buyer", Pay[c]) - Pay[c]
        /\ Share(FundsReserved, "c3seller", Pay[c])
             = Share(FundsReserved, "c3buyer", Pay[c]) - 0
    BY <1>0, WhatLabelsStandFor DEF SellsAlike, Share
  <2> QED BY <1>0, <1>1, <2>0, <2>1, <2>2, PayingStep, Zenon
<1>2. ASSUME At(p, "c3seller", "c2"), shares' = shares, contract' = contract,
             account' = Move(account, SellerAccount[c], -Receive[c], -Receive[c])
      PROVE  Books' /\ Rows'
  <2>0. BankTypes /\ Books /\ Rows /\ SameContracts
    BY <1>2, TypeGroups DEF SameContracts, BooksInv
  <2>1. Only(p) /\ Stage(p) = "c3seller" /\ Stage(p)' = "c2"
    BY <1>2, PositionsNow DEF BooksInv
  <2>2. /\ SellsAlike("c3seller", "c2")
        /\ "c3seller" \in SharesGiven <=> "c2" \in SharesGiven
        /\ "c3seller" \in BuyerDebited <=> "c2" \in BuyerDebited
        /\ "c3seller" \in FundsReserved <=> "c2" \in FundsReserved
        /\ Share(SellerCredited, "c2", Receive[c])
             = Share(SellerCredited, "c3seller", Receive[c]) + (-Receive[c])
    BY <1>0, WhatLabelsStandFor DEF SellsAlike, Share
  <2> QED BY <1>0, <1>2, <2>0, <2>1, <2>2, CreditingStep, Zenon
<1>r. contract' = contract BY DEF Comp3, Compensate, otcVars
<1> QED BY <1>1, <1>2, <1>r, NeverGivesUp, TypeGroups
    DEF Comp3, Compensate, bankVars

LEMMA Comp2Books ==
  ASSUME TypeOK, BooksInv, Recoverable, OneSided, Undoable, NEW p \in Calls, CallStep(p), Comp2(p)
  PROVE  Books' /\ Rows'
<1> DEFINE c == p[1]
<1>0. /\ c \in Contracts /\ Pay[c] \in Nat /\ Receive[c] \in Nat /\ Amount[c] \in Nat
      /\ Pay[c] \in Int /\ Receive[c] \in Int /\ Amount[c] \in Int
      /\ 0 \in Int /\ -Pay[c] \in Int /\ -Receive[c] \in Int /\ -Amount[c] \in Int
      /\ Seller[c] \in Users /\ Buyer[c] \in Users
  BY CallIsPair
<1>s. /\ 0 =< shares[Seller[c]].reserved
      /\ shares[Seller[c]].reserved =< shares[Seller[c]].amount
      /\ shares[Seller[c]].reserved \in Int /\ shares[Seller[c]].amount \in Int
      /\ Stage(p) \in SharesReserved =>
           /\ Amount[c] =< shares[Seller[c]].reserved
           /\ shares[Seller[c]].row \/ Amount[c] = 0
  BY <1>0, SellerHas, TypeGroups DEF BooksInv, BankTypes, ShareTable
<1>1. ASSUME At(p, "c2", "c1"), account' = account, contract' = contract,
             shares' = Update(shares, Seller[c], 0, -Amount[c])
      PROVE  Books' /\ Rows'
  <2>0. BankTypes /\ Books /\ Rows /\ SameContracts
    BY <1>1, TypeGroups DEF SameContracts, BooksInv
  <2>1. Only(p) /\ Stage(p) = "c2" /\ Stage(p)' = "c1"
    BY <1>1, PositionsNow DEF BooksInv
  <2>2. /\ PaysAlike("c2", "c1")
        /\ "c2" \in SharesGiven <=> "c1" \in SharesGiven
        /\ Share(SharesTaken, "c1", Amount[c])
             = Share(SharesTaken, "c2", Amount[c]) - 0
        /\ Share(SharesReserved, "c1", Amount[c])
             = Share(SharesReserved, "c2", Amount[c]) + (-Amount[c])
        /\ "c2" \in SharesReserved
    BY <1>0, WhatLabelsStandFor DEF PaysAlike, Share
  <2>3. /\ shares[Seller[c]].row \/ (0 = 0 /\ -Amount[c] = 0)
        /\ 0 =< shares[Seller[c]].reserved + (-Amount[c])
        /\ shares[Seller[c]].reserved + (-Amount[c]) =< shares[Seller[c]].amount + 0
    BY <1>0, <1>1, <1>s, <2>1, <2>2 
  <2>4. Added(Seller[c], 0, -Amount[c])
    BY <1>0, <1>1, <2>3, UpdateAdds, TypeGroups DEF BooksInv
  <2> QED BY <1>0, <1>1, <2>0, <2>1, <2>2, <2>3, <2>4, SellerStep, Zenon
<1>r. contract' = contract BY DEF Comp2, Compensate, otcVars
<1> QED BY <1>1, <1>r, NeverGivesUp, TypeGroups
    DEF Comp2, Compensate, bankVars

LEMMA Comp1Books ==
  ASSUME TypeOK, BooksInv, Recoverable, OneSided, Undoable, NEW p \in Calls, CallStep(p), Comp1(p)
  PROVE  Books' /\ Rows'
<1> DEFINE c == p[1]
<1>0. /\ c \in Contracts /\ Pay[c] \in Nat /\ Receive[c] \in Nat /\ Amount[c] \in Nat
      /\ Pay[c] \in Int /\ Receive[c] \in Int /\ Amount[c] \in Int
      /\ 0 \in Int /\ -Pay[c] \in Int /\ -Receive[c] \in Int /\ -Amount[c] \in Int
      /\ Seller[c] \in Users /\ Buyer[c] \in Users
  BY CallIsPair
<1>1. ASSUME At(p, "c1", "end"), shares' = shares, contract' = contract,
             account' = Move(account, PayingAccount[c], 0, Pay[c])
      PROVE  Books' /\ Rows'
  <2>0. BankTypes /\ Books /\ Rows /\ SameContracts
    BY <1>1, TypeGroups DEF SameContracts, BooksInv
  <2>1. Only(p) /\ Stage(p) = "c1" /\ Stage(p)' = "end"
    BY <1>1, PositionsNow DEF BooksInv
  <2>2. /\ SellsAlike("c1", "end")
        /\ "c1" \in SharesGiven <=> "end" \in SharesGiven
        /\ "c1" \in SellerCredited <=> "end" \in SellerCredited
        /\ Share(BuyerDebited, "end", Pay[c])
             = Share(BuyerDebited, "c1", Pay[c]) - 0
        /\ Share(FundsReserved, "end", Pay[c])
             = Share(FundsReserved, "c1", Pay[c]) - Pay[c]
    BY <1>0, WhatLabelsStandFor DEF SellsAlike, Share
  <2> QED BY <1>0, <1>1, <2>0, <2>1, <2>2, PayingStep, Zenon
<1>r. contract' = contract BY DEF Comp1, Compensate, otcVars
<1> QED BY <1>1, <1>r, NeverGivesUp, TypeGroups
    DEF Comp1, Compensate, bankVars

(* The commit, behind the lock that keeps the contract ACTIVE.             *)
LEMMA CommitContractBooks ==
  ASSUME TypeOK, LockProtects, BooksInv, Recoverable, Undoable, NEW p \in Calls, CallStep(p),
         CommitContract(p)
  PROVE  Books' /\ Rows'
<1>0. p[1] \in Contracts BY CallIsPair
<1>1. CASE Fails(p, "commit", "c4seller")
  BY <1>1, QuietCallBooks, SameEffect DEF Fails, bankVars
<1>2. CASE ~Fails(p, "commit", "c4seller")
  <2>1. /\ At(p, "commit", "log5") /\ Holds(p) /\ UNCHANGED bankVars
        /\ contract' = [contract EXCEPT ![p[1]] = "EXERCISED"]
    BY <1>2 DEF CommitContract, Statement, Undoable
  <2>2. Only(p) /\ Stage(p) = "commit" /\ Stage(p)' = "log5"
    BY <2>1, PositionsNow DEF BooksInv
  <2>3. pc[p] = "commit" BY <2>1 DEF At
  <2>4. contract[p[1]] = "ACTIVE"
    BY <2>1, <2>3 DEF LockProtects, LockedIsActive, Forward
  <2> QED BY <2>1, <2>2, <2>4, CommitBooks, TypeGroups DEF BooksInv
<1> QED BY <1>1, <1>2

LEMMA CallStepBooks ==
  ASSUME TypeOK, LockProtects, BooksInv, Recoverable, Undoable, OneSided, RowFound,
         NEW p \in Calls, CallStep(p)
  PROVE  Books' /\ Rows'
BY EntryBooks, ReserveFundsBooks, ReserveSharesBooks, DebitBuyerBooks, CreditSellerBooks,
   UndoDebitBooks, TakeSharesBooks, DropRowBooks, GiveSharesBooks, UndoTakeBooks,
   CommitContractBooks, Comp4Books, Comp3Books, Comp2Books, Comp1Books, ZenonT(60)
   DEF CallStep

(***************************************************************************)
(* The steps of a recovery.                                                *)
(***************************************************************************)
LEMMA CompensatorIs ==
  /\ DOMAIN Compensator = {"r4seller", "r4buyer", "r3buyer", "r3seller", "r2", "r1", "finish"}
  /\ Compensator["r4seller"] = "c4seller" /\ Compensator["r4buyer"] = "c4buyer"
  /\ Compensator["r3buyer"] = "c3buyer" /\ Compensator["r3seller"] = "c3seller"
  /\ Compensator["r2"] = "c2" /\ Compensator["r1"] = "c1" /\ Compensator["finish"] = "end"
BY DEF Compensator

LEMMA RecoverStepBooks ==
  ASSUME TypeOK, BooksInv, Recoverable, Undoable, OneSided, RowFound,
         NEW c \in Contracts, RecoverStep(c)
  PROVE  Books' /\ Rows'
<1>m. /\ rpc[c] # "off" /\ pc' = pc /\ contract' = contract
      /\ \A d \in Contracts \ {c} : /\ saga'[d] = saga[d] /\ logged'[d] = logged[d]
                                    /\ rpc'[d] = rpc[d]
  BY DEF RecoverStep, Recover, RecoveryAt, otcVars, TypeOK
<1>k. Killed /\ \E p \in Calls : p[1] = c /\ pc[p] = "lost" /\ Only(p)
  BY <1>m, RecoveryMoves, TypeGroups DEF BooksInv
<1>p. PICK p \in Calls : p[1] = c /\ pc[p] = "lost" /\ Only(p) /\ pc'[p] = "lost"
  BY <1>k, <1>m
<1>0. /\ p[1] = c /\ Pay[c] \in Nat /\ Receive[c] \in Nat /\ Amount[c] \in Nat
      /\ Pay[c] \in Int /\ Receive[c] \in Int /\ Amount[c] \in Int
      /\ 0 \in Int /\ -Pay[c] \in Int /\ -Receive[c] \in Int /\ -Amount[c] \in Int
      /\ Seller[c] \in Users /\ Buyer[c] \in Users
  BY <1>p
<1>s. /\ 0 =< shares[Seller[c]].reserved
      /\ shares[Seller[c]].reserved =< shares[Seller[c]].amount
      /\ shares[Seller[c]].reserved \in Int /\ shares[Seller[c]].amount \in Int
      /\ Stage(p) \in SharesReserved =>
           /\ Amount[c] =< shares[Seller[c]].reserved
           /\ shares[Seller[c]].row \/ Amount[c] = 0
  BY <1>0, SellerHas, TypeGroups DEF BooksInv, BankTypes, ShareTable
<1>b. /\ shares[Buyer[c]].reserved = 0 /\ 0 =< shares[Buyer[c]].amount
      /\ Stage(p) \in SharesGiven => shares[Buyer[c]].row \/ Amount[c] = 0
  BY <1>0, BuyerHas, TypeGroups DEF BooksInv
<1>1. ASSUME RecoveryAt(c, "r4seller", "r4buyer"), account' = account, contract' = contract,
             shares' = Update(shares, Seller[c], Amount[c], Amount[c]),
             shares[Seller[c]].row
      PROVE  Books' /\ Rows'
  <2>0. BankTypes /\ Books /\ Rows /\ SameContracts
    BY <1>1, TypeGroups DEF SameContracts, BooksInv
  <2>1. Only(p) /\ Stage(p) = "c4seller" /\ Stage(p)' = "c4buyer"
    BY <1>0, <1>1, <1>p, CompensatorIs, TypeGroups DEF Stage, RecoveryAt, ControlTypes
  <2>2. /\ PaysAlike("c4seller", "c4buyer")
        /\ "c4seller" \in SharesGiven <=> "c4buyer" \in SharesGiven
        /\ Share(SharesTaken, "c4buyer", Amount[c])
             = Share(SharesTaken, "c4seller", Amount[c]) - Amount[c]
        /\ Share(SharesReserved, "c4buyer", Amount[c])
             = Share(SharesReserved, "c4seller", Amount[c]) + Amount[c]
        /\ ~("c4seller" \in SharesReserved)
    BY <1>0, WhatLabelsStandFor DEF PaysAlike, Share
  <2>3. /\ shares[Seller[c]].row \/ (Amount[c] = 0 /\ Amount[c] = 0)
        /\ 0 =< shares[Seller[c]].reserved + Amount[c]
        /\ shares[Seller[c]].reserved + Amount[c] =< shares[Seller[c]].amount + Amount[c]
    BY <1>0, <1>1, <1>s, <2>1, <2>2 
  <2>4. Added(Seller[c], Amount[c], Amount[c])
    BY <1>0, <1>1, <2>3, UpdateAdds, TypeGroups DEF BooksInv
  <2> QED BY <1>0, <1>1, <2>0, <2>1, <2>2, <2>3, <2>4, SellerStep, Zenon
<1>2. ASSUME RecoveryAt(c, "r4buyer", "r3buyer"), account' = account, contract' = contract,
             shares' = Update(shares, Buyer[c], -Amount[c], 0)
      PROVE  Books' /\ Rows'
  <2>0. BankTypes /\ Books /\ Rows /\ SameContracts
    BY <1>2, TypeGroups DEF SameContracts, BooksInv
  <2>1. Only(p) /\ Stage(p) = "c4buyer" /\ Stage(p)' = "c3buyer"
    BY <1>0, <1>2, <1>p, CompensatorIs, TypeGroups DEF Stage, RecoveryAt, ControlTypes
  <2>2. /\ PaysAlike("c4buyer", "c3buyer") /\ SellsAlike("c4buyer", "c3buyer")
        /\ Share(SharesGiven, "c3buyer", Amount[c])
             = Share(SharesGiven, "c4buyer", Amount[c]) + (-Amount[c])
        /\ "c4buyer" \in SharesGiven
    BY <1>0, WhatLabelsStandFor DEF PaysAlike, SellsAlike, Share
  <2>3. /\ shares[Buyer[c]].row \/ -Amount[c] = 0
        /\ 0 =< shares[Buyer[c]].reserved + 0
    BY <1>0, <1>b, <2>1, <2>2
  <2>4. Added(Buyer[c], -Amount[c], 0)
    BY <1>0, <1>2, <2>3, UpdateAdds, TypeGroups DEF BooksInv
  <2> QED BY <1>0, <1>2, <2>0, <2>1, <2>2, <2>4, BuyerStep, Zenon
<1>3. ASSUME RecoveryAt(c, "r3buyer", "r3seller"), shares' = shares, contract' = contract,
             account' = Move(account, PayingAccount[c], Pay[c], 0)
      PROVE  Books' /\ Rows'
  <2>0. BankTypes /\ Books /\ Rows /\ SameContracts
    BY <1>3, TypeGroups DEF SameContracts, BooksInv
  <2>1. Only(p) /\ Stage(p) = "c3buyer" /\ Stage(p)' = "c3seller"
    BY <1>0, <1>3, <1>p, CompensatorIs, TypeGroups DEF Stage, RecoveryAt, ControlTypes
  <2>2. /\ SellsAlike("c3buyer", "c3seller")
        /\ "c3buyer" \in SharesGiven <=> "c3seller" \in SharesGiven
        /\ "c3buyer" \in SellerCredited <=> "c3seller" \in SellerCredited
        /\ Share(BuyerDebited, "c3seller", Pay[c])
             = Share(BuyerDebited, "c3buyer", Pay[c]) - Pay[c]
        /\ Share(FundsReserved, "c3seller", Pay[c])
             = Share(FundsReserved, "c3buyer", Pay[c]) - 0
    BY <1>0, WhatLabelsStandFor DEF SellsAlike, Share
  <2> QED BY <1>0, <1>3, <2>0, <2>1, <2>2, PayingStep, Zenon
<1>4. ASSUME RecoveryAt(c, "r3seller", "r2"), shares' = shares, contract' = contract,
             account' = Move(account, SellerAccount[c], -Receive[c], -Receive[c])
      PROVE  Books' /\ Rows'
  <2>0. BankTypes /\ Books /\ Rows /\ SameContracts
    BY <1>4, TypeGroups DEF SameContracts, BooksInv
  <2>1. Only(p) /\ Stage(p) = "c3seller" /\ Stage(p)' = "c2"
    BY <1>0, <1>4, <1>p, CompensatorIs, TypeGroups DEF Stage, RecoveryAt, ControlTypes
  <2>2. /\ SellsAlike("c3seller", "c2")
        /\ "c3seller" \in SharesGiven <=> "c2" \in SharesGiven
        /\ "c3seller" \in BuyerDebited <=> "c2" \in BuyerDebited
        /\ "c3seller" \in FundsReserved <=> "c2" \in FundsReserved
        /\ Share(SellerCredited, "c2", Receive[c])
             = Share(SellerCredited, "c3seller", Receive[c]) + (-Receive[c])
    BY <1>0, WhatLabelsStandFor DEF SellsAlike, Share
  <2> QED BY <1>0, <1>4, <2>0, <2>1, <2>2, CreditingStep, Zenon
<1>5. ASSUME RecoveryAt(c, "r2", "r1"), account' = account, contract' = contract,
             shares' = Update(shares, Seller[c], 0, -Amount[c])
      PROVE  Books' /\ Rows'
  <2>0. BankTypes /\ Books /\ Rows /\ SameContracts
    BY <1>5, TypeGroups DEF SameContracts, BooksInv
  <2>1. Only(p) /\ Stage(p) = "c2" /\ Stage(p)' = "c1"
    BY <1>0, <1>5, <1>p, CompensatorIs, TypeGroups DEF Stage, RecoveryAt, ControlTypes
  <2>2. /\ PaysAlike("c2", "c1")
        /\ "c2" \in SharesGiven <=> "c1" \in SharesGiven
        /\ Share(SharesTaken, "c1", Amount[c])
             = Share(SharesTaken, "c2", Amount[c]) - 0
        /\ Share(SharesReserved, "c1", Amount[c])
             = Share(SharesReserved, "c2", Amount[c]) + (-Amount[c])
        /\ "c2" \in SharesReserved
    BY <1>0, WhatLabelsStandFor DEF PaysAlike, Share
  <2>3. /\ shares[Seller[c]].row \/ (0 = 0 /\ -Amount[c] = 0)
        /\ 0 =< shares[Seller[c]].reserved + (-Amount[c])
        /\ shares[Seller[c]].reserved + (-Amount[c]) =< shares[Seller[c]].amount + 0
    BY <1>0, <1>5, <1>s, <2>1, <2>2 
  <2>4. Added(Seller[c], 0, -Amount[c])
    BY <1>0, <1>5, <2>3, UpdateAdds, TypeGroups DEF BooksInv
  <2> QED BY <1>0, <1>5, <2>0, <2>1, <2>2, <2>3, <2>4, SellerStep, Zenon
<1>6. ASSUME RecoveryAt(c, "r1", "finish"), shares' = shares, contract' = contract,
             account' = Move(account, PayingAccount[c], 0, Pay[c])
      PROVE  Books' /\ Rows'
  <2>0. BankTypes /\ Books /\ Rows /\ SameContracts
    BY <1>6, TypeGroups DEF SameContracts, BooksInv
  <2>1. Only(p) /\ Stage(p) = "c1" /\ Stage(p)' = "end"
    BY <1>0, <1>6, <1>p, CompensatorIs, TypeGroups DEF Stage, RecoveryAt, ControlTypes
  <2>2. /\ SellsAlike("c1", "end")
        /\ "c1" \in SharesGiven <=> "end" \in SharesGiven
        /\ "c1" \in SellerCredited <=> "end" \in SellerCredited
        /\ Share(BuyerDebited, "end", Pay[c])
             = Share(BuyerDebited, "c1", Pay[c]) - 0
        /\ Share(FundsReserved, "end", Pay[c])
             = Share(FundsReserved, "c1", Pay[c]) - Pay[c]
    BY <1>0, WhatLabelsStandFor DEF SellsAlike, Share
  <2> QED BY <1>0, <1>6, <2>0, <2>1, <2>2, PayingStep, Zenon
<1>7. CASE rpc[c] = "r4seller"
  <2>1. shares[Seller[c]].row BY <1>7, <1>p DEF RowFound
  <2> QED BY <1>1, <1>7, <1>m, <2>1, NeverGivesUp, TypeGroups DEF RecoverStep, Recover, RecoveryAt
<1> QED BY <1>2, <1>3, <1>4, <1>5, <1>6, <1>7, <1>k, <1>m, NeverGivesUp, TypeGroups
    DEF RecoverStep, Recover, RecoveryAt, Killed

(* The steps of a recovery that write the saga alone, the scan, and the    *)
(* kill leave everybody where the books have him.                          *)
LEMMA FirstIs ==
  ASSUME NEW steps \in SUBSET (1..5)
  PROVE  FirstCompensator(steps) \in {"finish", "r4seller", "r3buyer", "r2", "r1"}
BY DEF FirstCompensator

LEMMA RecoveryControlBooks ==
  ASSUME TypeOK, BooksInv, Recoverable, NEW c \in Contracts,
         MarkCompensating(c) \/ ReadLog(c) \/ MarkCompensated(c)
  PROVE  Books' /\ Rows'
<1>m. /\ rpc[c] # "off" /\ pc' = pc /\ contract' = contract /\ UNCHANGED bankVars
      /\ logged' = logged
      /\ \A d \in Contracts \ {c} : saga'[d] = saga[d] /\ rpc'[d] = rpc[d]
  BY DEF MarkCompensating, ReadLog, MarkCompensated, RecoveryAt, otcVars, TypeOK
<1>k. Killed /\ \E p \in Calls : p[1] = c /\ pc[p] = "lost" /\ Only(p)
  BY <1>m, RecoveryMoves, TypeGroups DEF BooksInv
<1>p. PICK p \in Calls : p[1] = c /\ pc[p] = "lost" /\ Only(p) /\ pc'[p] = "lost"
  BY <1>k, <1>m
<1>l. rpc[c] \in {"mark", "read"} => saga[c] \in {"Running", "Compensating"}
  BY <1>m, <1>p DEF BooksInv, Control, LostCall, Interrupted
<1>1. CASE MarkCompensating(c)
  <2>1. rpc[c] = "mark" /\ rpc'[c] = "read" BY <1>1 DEF MarkCompensating, RecoveryAt, TypeOK
  <2>2. saga'[c] \in {"Running", "Compensating"}
    BY <1>1, <1>l, <2>1 DEF MarkCompensating, TypeOK
  <2>3. Stage(p)' = Stage(p)
    BY <1>l, <1>m, <1>p, <2>1, <2>2, CompensatorIs DEF Stage
  <2> QED BY <1>m, <1>p, <2>3, NothingMoves DEF Alike, SameContracts, BooksInv
<1>2. CASE ReadLog(c)
  <2>1. rpc[c] = "read" /\ rpc'[c] = FirstCompensator(logged[c]) /\ saga' = saga
    BY <1>2, <1>k DEF ReadLog, RecoveryAt, TypeOK, Killed, otcVars
  <2>2. FirstCompensator(logged[c]) \in DOMAIN Compensator
    BY FirstIs, CompensatorIs DEF TypeOK
  <2>3. Stage(p)' = Stage(p)
    BY <1>l, <1>m, <1>p, <2>1, <2>2, CompensatorIs DEF Stage
  <2> QED BY <1>m, <1>p, <2>3, NothingMoves DEF Alike, SameContracts, BooksInv
<1>3. CASE MarkCompensated(c)
  <2>1. rpc[c] = "finish" /\ rpc'[c] = "off" /\ saga'[c] = "Compensated"
    BY <1>3, <1>k DEF MarkCompensated, RecoveryAt, TypeOK, Killed
  <2>2. Stage(p) = "end" /\ Stage(p)' = "failed"
    BY <1>p, <2>1, CompensatorIs DEF Stage
  <2> QED BY <1>m, <1>p, <2>2, NothingMoves, SameEffect DEF SameContracts, BooksInv
<1> QED BY <1>1, <1>2, <1>3

LEMMA ScanBooks ==
  ASSUME TypeOK, BooksInv, Recoverable, ScanFirst, RecoverInFlightSagas
  PROVE  Books' /\ Rows'
<1>1. /\ ~scanned /\ pc' = pc /\ saga' = saga /\ logged' = logged /\ contract' = contract
      /\ UNCHANGED bankVars
  BY DEF RecoverInFlightSagas, otcVars
<1>2. MaxCrashes # 0 /\ Killed BY <1>1 DEF BooksInv, Control, Recoverable
<1>3. \A c \in Contracts : rpc[c] = "off" BY <1>1, <1>2 DEF BooksInv, Control
<1>4. \A c \in Contracts :
        rpc'[c] = IF saga[c] \in {"Running", "Compensating"} THEN "mark" ELSE "off"
  BY <1>2, <1>3 DEF RecoverInFlightSagas, Killed
<1>5. ASSUME NEW q \in Calls PROVE Stage(q)' = Stage(q)
  <2>1. q[1] \in Contracts BY CallIsPair
  <2> QED BY <1>1, <1>3, <1>4, <2>1, CompensatorIs DEF Stage
<1>6. \A q \in Calls : Alike(Stage(q), Stage(q)')
  <2>1. \A q \in Calls : Alike(Stage(q), Stage(q)) BY DEF Alike
  <2> QED BY <1>5, <2>1
<1>7. Books' BY <1>1, <1>6, QuietKeepsBooks DEF SameContracts, BooksInv
<1>8. Rows' BY <1>1 DEF Rows, BooksInv, bankVars
<1> QED BY <1>7, <1>8

LEMMA CrashBooks ==
  ASSUME TypeOK, BooksInv, Recoverable, Crash
  PROVE  Books' /\ Rows'
<1>1. /\ saga' = saga /\ logged' = logged /\ contract' = contract /\ UNCHANGED bankVars
      /\ \A q \in Calls : pc'[q] = IF Busy(q) THEN "lost" ELSE pc[q]
      /\ \A c \in Contracts : rpc'[c] = "off"
  BY DEF Crash
<1>2. MaxCrashes # 0 /\ Killed BY DEF Crash, Recoverable, TypeOK
<1>3. \A q \in Calls : Busy(q) => pc[q] \in StepBoundaries
  <2>1. \A q \in Calls : Busy(q) => pc[q] \in CleanBoundaries /\ pc[q] \in Labels
    BY <1>2 DEF Crash, Killed, TypeOK
  <2> QED BY <2>1 DEF CleanBoundaries, Labels, Forward, Undoing, Committed, Replied
<1>4. \A c \in Contracts : rpc[c] \in {"off", "mark", "read"}
  BY <1>2 DEF Crash, Killed, CleanBoundaries, StepBoundaries, TypeOK, RecoveryLabels
<1>5. ASSUME NEW q \in Calls PROVE Alike(Stage(q), Stage(q)')
  <2> DEFINE c == q[1]
  <2>0. c \in Contracts BY CallIsPair
  <2>1. CASE pc[q] = "lost"
    <3>1. rpc[c] \in {"mark", "read"} => saga[c] \in {"Running", "Compensating"}
      BY <1>2, <2>0, <2>1 DEF BooksInv, Control, LostCall, Interrupted
    <3>2. ~Busy(q) BY <2>1 DEF Busy, Replied
    <3>3. Stage(q)' = Stage(q)
      BY <1>1, <1>4, <2>0, <2>1, <3>1, <3>2, CompensatorIs DEF Stage
    <3> QED BY <3>3 DEF Alike
  <2>2. CASE pc[q] # "lost" /\ ~Busy(q)
    <3>1. Stage(q)' = Stage(q) BY <1>1, <2>2 DEF Stage
    <3> QED BY <3>1 DEF Alike
  <2>3. CASE Busy(q)
    <3>1. LiveCall(q) BY <1>2, <2>3 DEF BooksInv, Control, Busy, Replied
    <3>2. pc[q] \in StepBoundaries BY <1>3, <2>3
    <3>3. /\ Stage(q) = pc[q]
          /\ Stage(q)' = IF saga[c] \in {"Running", "Compensating"}
                         THEN Compensator[FirstCompensator(logged[c])] ELSE "failed"
      BY <1>1, <2>0, <2>3, <3>2, CompensatorIs DEF Stage, StepBoundaries
    <3>4. CASE pc[q] \in {"lock", "insertSaga"}
      <4>1. saga[c] = None BY <3>1, <3>4 DEF LiveCall
      <4>2. Stage(q)' = "failed" BY <3>3, <4>1 DEF None
      <4> QED BY <3>3, <3>4, <4>2, WhatLabelsStandFor DEF Alike
    <3>5. CASE pc[q] = "reserveFunds"
      <4>1. logged[c] = {} BY <3>1, <3>5 DEF LiveCall, LogAt, Forward
      <4>2. Stage(q)' \in {"end", "failed"}
        BY <3>3, <4>1, CompensatorIs DEF FirstCompensator
      <4> QED BY <3>3, <3>5, <4>2, WhatLabelsStandFor DEF Alike
    <3>6. CASE pc[q] \in {"reserveShares", "debitBuyer", "takeShares", "verify"}
      <4>1. saga[c] \in {"Running", "Compensating"}
        BY <2>3, <3>1, <3>6 DEF LiveCall, Forward, Interrupted
      <4>2. logged[c] = LogAt(pc[q]) BY <3>1, <3>6 DEF LiveCall, Forward
      <4>3. Stage(q)' = Compensator[FirstCompensator(LogAt(pc[q]))] BY <3>3, <4>1, <4>2
      <4>4. CASE pc[q] = "reserveShares"
        <5>1. FirstCompensator(LogAt(pc[q])) = "r1" BY <4>4 DEF LogAt, FirstCompensator
        <5> QED BY <3>3, <4>3, <4>4, <5>1, CompensatorIs, WhatLabelsStandFor DEF Alike
      <4>5. CASE pc[q] = "debitBuyer"
        <5>1. FirstCompensator(LogAt(pc[q])) = "r2" BY <4>5 DEF LogAt, FirstCompensator
        <5> QED BY <3>3, <4>3, <4>5, <5>1, CompensatorIs, WhatLabelsStandFor DEF Alike
      <4>6. CASE pc[q] = "takeShares"
        <5>1. FirstCompensator(LogAt(pc[q])) = "r3buyer" BY <4>6 DEF LogAt, FirstCompensator
        <5> QED BY <3>3, <4>3, <4>6, <5>1, CompensatorIs, WhatLabelsStandFor DEF Alike
      <4>7. CASE pc[q] = "verify"
        <5>1. FirstCompensator(LogAt(pc[q])) = "r4seller" BY <4>7 DEF LogAt, FirstCompensator
        <5> QED BY <3>3, <4>3, <4>7, <5>1, CompensatorIs, WhatLabelsStandFor DEF Alike
      <4> QED BY <3>6, <4>4, <4>5, <4>6, <4>7
    <3> QED BY <3>2, <3>4, <3>5, <3>6 DEF StepBoundaries
  <2> QED BY <2>1, <2>2, <2>3
<1>6. Books' BY <1>1, <1>5, QuietKeepsBooks DEF SameContracts, BooksInv
<1>7. Rows' BY <1>1 DEF Rows, BooksInv, bankVars
<1> QED BY <1>6, <1>7

(* Steps that touch neither calls, recoveries, sagas nor tables.           *)
LEMMA AsideBooks ==
  ASSUME BooksInv, SameContracts, UNCHANGED <<pc, rpc, saga, logged, bankVars>>
  PROVE  Books' /\ Rows'
<1>1. \A q \in Calls : Stage(q)' = Stage(q) BY DEF Stage
<1>2. \A q \in Calls : Alike(Stage(q), Stage(q)')
  <2>1. \A q \in Calls : Alike(Stage(q), Stage(q)) BY DEF Alike
  <2> QED BY <1>1, <2>1
<1>3. Books' BY <1>2, QuietKeepsBooks DEF BooksInv
<1>4. Rows' BY DEF Rows, BooksInv, bankVars
<1> QED BY <1>3, <1>4

(***************************************************************************)
(* What a crash finds stays true of live and of lost calls.                *)
(***************************************************************************)

(* A live call that is tracked or not, and what its statements write.      *)
LEMMA EntryLive ==
  ASSUME TypeOK, Killed, NEW p \in Calls, LiveCall(p), rpc' = rpc,
         CheckCompleted(p) \/ LockContract(p) \/ InsertSaga(p) \/ LookupFails(p)
  PROVE  LiveCall(p)' /\ pc'[p] # "lost"
<1> DEFINE c == p[1]
<1>0. c \in Contracts BY CallIsPair
<1> USE DEF TypeOK, At, LiveCall, Interrupted, Busy, Replied, Forward, LogAt, Holds, None
<1>1. CASE CheckCompleted(p)
  <2>1. pc[p] = "idle" /\ saga[c] = None BY <1>1 DEF CheckCompleted
  <2>2. pc'[p] = "lock" /\ UNCHANGED <<saga, logged, tracked>>
    BY <1>1, <2>1 DEF CheckCompleted, otcVars
  <2> QED BY <1>0, <2>1, <2>2
<1>2. CASE LockContract(p)
  <2>1. pc[p] = "lock" /\ UNCHANGED <<saga, logged, tracked>>
    BY <1>2 DEF LockContract
  <2>2. pc'[p] \in {"insertSaga", "rejected"} BY <1>2 DEF LockContract
  <2> QED BY <1>0, <2>1, <2>2
<1>3. CASE InsertSaga(p)
  <2>1. /\ pc[p] = "insertSaga" /\ pc'[p] = "reserveFunds" /\ UNCHANGED <<logged, lock>>
        /\ saga[c] = None /\ p \notin tracked
    BY <1>3 DEF InsertSaga
  <2>2. CASE saga'[c] = "Running" /\ p \in tracked'
    BY <1>0, <2>1, <2>2
  <2>3. CASE saga' = saga /\ tracked' = tracked /\ ~Holds(p)
    BY <1>0, <2>1, <2>3
  <2>4. "insertSaga" \notin Faults BY DEF Killed
  <2> QED BY <1>0, <1>3, <2>1, <2>2, <2>3, <2>4 DEF InsertSaga
<1>4. CASE LookupFails(p)
  <2>1. pc[p] \in {"lock", "insertSaga"} /\ UNCHANGED <<saga, logged, tracked>>
    BY <1>4 DEF LookupFails
  <2>2. pc'[p] = "rejected" BY <1>4 DEF LookupFails
  <2> QED BY <1>0, <2>1, <2>2
<1> QED BY <1>1, <1>2, <1>3, <1>4

(* A statement that goes on to the next one.                               *)
LEMMA ForwardLive ==
  ASSUME TypeOK, NEW p \in Calls, LiveCall(p), rpc' = rpc,
         NEW from, NEW to, At(p, from, to), UNCHANGED <<saga, logged, tracked>>,
         from \in Forward \ {"insertSaga"}, from = "reserveFunds" => Holds(p),
         to \in Forward \ {"insertSaga", "reserveFunds"}, LogAt(to) = LogAt(from)
  PROVE  LiveCall(p)' /\ pc'[p] # "lost"
<1>0. p[1] \in Contracts BY CallIsPair
<1>1. pc[p] = from /\ pc'[p] = to BY DEF At, TypeOK
<1> QED BY <1>0, <1>1 DEF LiveCall, Interrupted, Busy, Replied, Forward, Holds

(* One that turns to the compensators, and the compensators.               *)
LEMMA UndoingLive ==
  ASSUME TypeOK, Killed, NEW p \in Calls, LiveCall(p), rpc' = rpc,
         NEW from, NEW to, At(p, from, to), UNCHANGED <<logged, tracked>>,
         saga' = saga \/ SagaStatus(p, "Compensating"),
         from \in Forward \cup Undoing, to \in Undoing
  PROVE  LiveCall(p)' /\ pc'[p] # "lost"
<1>0. p[1] \in Contracts BY CallIsPair
<1>1. pc[p] = from /\ pc'[p] = to BY DEF At, TypeOK
<1>2. saga'[p[1]] = saga[p[1]] \/ (p \in tracked /\ saga'[p[1]] = "Compensating")
  BY <1>0 DEF SagaStatus, TypeOK, Killed
<1> QED BY <1>0, <1>1, <1>2
        DEF LiveCall, Interrupted, Busy, Replied, Forward, Undoing, None

LEMMA LogLive ==
  ASSUME TypeOK, Killed, NEW p \in Calls, LiveCall(p), rpc' = rpc,
         NEW n \in 1..4, NEW from, NEW to, LogSuccess(p, n, from, to),
         from \in Forward \ {"insertSaga", "reserveFunds"},
         to \in Forward \ {"insertSaga", "reserveFunds"},
         LogAt(to) = LogAt(from) \cup {n}
  PROVE  LiveCall(p)' /\ pc'[p] # "lost"
<1>0. p[1] \in Contracts BY CallIsPair
<1>1. pc[p] = from /\ pc'[p] = to /\ tracked' = tracked BY DEF LogSuccess, At, TypeOK
<1>2. saga'[p[1]] = IF p \in tracked THEN "Running" ELSE saga[p[1]]
  BY <1>0 DEF LogSuccess, SagaStatus, TypeOK, Killed
<1>3. logged'[p[1]] = logged[p[1]] \cup {n}
  BY <1>0 DEF LogSuccess, SagaLog, TypeOK, Killed
<1>4. logged'[p[1]] = LogAt(to) BY <1>1, <1>3 DEF LiveCall, Forward
<1> QED BY <1>0, <1>1, <1>2, <1>4
        DEF LiveCall, Interrupted, Busy, Replied, Forward

LEMMA EndLive ==
  ASSUME TypeOK, Killed, NEW p \in Calls, LiveCall(p), rpc' = rpc,
         LogCompleted(p) \/ RecordExerciseTax(p) \/ EndCompensated(p)
  PROVE  LiveCall(p)' /\ pc'[p] # "lost"
<1>0. p[1] \in Contracts BY CallIsPair
<1> USE DEF TypeOK, At, LiveCall, Interrupted, Busy, Replied, Forward
<1>1. CASE LogCompleted(p)
  <2>1. pc[p] = "log5" /\ pc'[p] = "tax" /\ tracked' = tracked BY <1>1 DEF LogCompleted
  <2>2. saga'[p[1]] = IF p \in tracked THEN "Completed" ELSE saga[p[1]]
    BY <1>0, <1>1 DEF LogCompleted, SagaStatus, Killed
  <2> QED BY <1>0, <2>1, <2>2
<1>2. CASE RecordExerciseTax(p)
  <2>1. pc[p] = "tax" /\ pc'[p] = "ok" /\ tracked' = tracked /\ saga' = saga
    BY <1>2 DEF RecordExerciseTax
  <2>2. p \in tracked => saga[p[1]] = "Completed"
    BY <2>1
  <2> QED BY <1>0, <2>1, <2>2
<1>3. CASE EndCompensated(p)
  <2>1. pc[p] = "end" /\ pc'[p] = "failed" /\ tracked' = tracked BY <1>3 DEF EndCompensated
  <2>2. saga'[p[1]] = IF p \in tracked THEN "Compensated" ELSE saga[p[1]]
    BY <1>0, <1>3 DEF EndCompensated, SagaStatus, Killed
  <2> QED BY <1>0, <2>1, <2>2
<1> QED BY <1>1, <1>2, <1>3

LEMMA LiveStep ==
  ASSUME TypeOK, Killed, Undoable, NEW p \in Calls, LiveCall(p), CallStep(p)
  PROVE  LiveCall(p)' /\ pc'[p] # "lost"
<1>r. rpc' = rpc BY CallTouches
<1>u. ASSUME NEW from, NEW to, At(p, from, to), UNCHANGED <<logged, tracked>>,
             saga' = saga \/ SagaStatus(p, "Compensating"),
             from \in Forward \cup Undoing, to \in Undoing
      PROVE  LiveCall(p)' /\ pc'[p] # "lost"
  BY <1>r, <1>u, UndoingLive
<1>f. ASSUME NEW from, NEW to, At(p, from, to), UNCHANGED <<saga, logged, tracked>>,
             from \in Forward \ {"insertSaga"}, from = "reserveFunds" => Holds(p),
             to \in Forward \ {"insertSaga", "reserveFunds"}, LogAt(to) = LogAt(from)
      PROVE  LiveCall(p)' /\ pc'[p] # "lost"
  BY <1>r, <1>f, ForwardLive
<1>1. CASE CheckCompleted(p) \/ LockContract(p) \/ InsertSaga(p) \/ LookupFails(p)
  BY <1>1, <1>r, EntryLive
<1>2. CASE ReserveFunds(p)
  <2>1. ASSUME Statement(p, "reserveFunds", "log1"), UNCHANGED otcVars
        PROVE  LiveCall(p)' /\ pc'[p] # "lost"
    BY <2>1, <1>f DEF Statement, otcVars, Forward, LogAt
  <2>2. ASSUME At(p, "reserveFunds", "end"), UNCHANGED <<logged, tracked>>,
               SagaStatus(p, "Compensating")
        PROVE  LiveCall(p)' /\ pc'[p] # "lost"
    BY <2>2, <1>u DEF Forward, Undoing
  <2> QED BY <1>2, <2>1, <2>2 DEF ReserveFunds, Statement, Fails
<1>3. CASE ReserveShares(p)
  <2>1. ASSUME At(p, "reserveShares", "log2"), UNCHANGED otcVars
        PROVE  LiveCall(p)' /\ pc'[p] # "lost"
    BY <2>1, <1>f DEF otcVars, Forward, LogAt
  <2>2. ASSUME At(p, "reserveShares", "c1"), UNCHANGED <<logged, tracked>>,
               SagaStatus(p, "Compensating")
        PROVE  LiveCall(p)' /\ pc'[p] # "lost"
    BY <2>2, <1>u DEF Forward, Undoing
  <2> QED BY <1>3, <2>1, <2>2 DEF ReserveShares, Statement, Fails
<1>4. CASE DebitBuyer(p)
  <2>1. ASSUME At(p, "debitBuyer", "creditSeller"), UNCHANGED otcVars
        PROVE  LiveCall(p)' /\ pc'[p] # "lost"
    BY <2>1, <1>f DEF otcVars, Forward, LogAt
  <2>2. ASSUME At(p, "debitBuyer", "c2"), UNCHANGED <<logged, tracked>>,
               SagaStatus(p, "Compensating")
        PROVE  LiveCall(p)' /\ pc'[p] # "lost"
    BY <2>2, <1>u DEF Forward, Undoing
  <2> QED BY <1>4, <2>1, <2>2 DEF DebitBuyer, Statement, Fails
<1>5. CASE CreditSeller(p)
  <2>1. ASSUME At(p, "creditSeller", "log3"), UNCHANGED otcVars
        PROVE  LiveCall(p)' /\ pc'[p] # "lost"
    BY <2>1, <1>f DEF otcVars, Forward, LogAt
  <2>2. ASSUME At(p, "creditSeller", "undoDebit"), UNCHANGED otcVars
        PROVE  LiveCall(p)' /\ pc'[p] # "lost"
    BY <2>2, <1>u DEF otcVars, Forward, Undoing
  <2> QED BY <1>5, <2>1, <2>2 DEF CreditSeller, Statement
<1>6. CASE UndoDebit(p)
  BY <1>6, <1>u DEF UndoDebit, Undoing
<1>7. CASE TakeShares(p)
  <2>1. ASSUME At(p, "takeShares", "dropRow"), UNCHANGED otcVars
        PROVE  LiveCall(p)' /\ pc'[p] # "lost"
    BY <2>1, <1>f DEF otcVars, Forward, LogAt
  <2>2. ASSUME At(p, "takeShares", "c3buyer"), UNCHANGED <<logged, tracked>>,
               SagaStatus(p, "Compensating")
        PROVE  LiveCall(p)' /\ pc'[p] # "lost"
    BY <2>2, <1>u DEF Forward, Undoing
  <2> QED BY <1>7, <2>1, <2>2 DEF TakeShares, Statement, Fails
<1>8. CASE DropRow(p)
  BY <1>8, <1>f DEF DropRow, otcVars, Forward, LogAt
<1>9. CASE GiveShares(p)
  <2>1. ASSUME At(p, "giveShares", "log4"), UNCHANGED otcVars
        PROVE  LiveCall(p)' /\ pc'[p] # "lost"
    BY <2>1, <1>f DEF otcVars, Forward, LogAt
  <2>2. ASSUME At(p, "giveShares", "undoTake"), UNCHANGED otcVars
        PROVE  LiveCall(p)' /\ pc'[p] # "lost"
    BY <2>2, <1>u DEF otcVars, Forward, Undoing
  <2> QED BY <1>9, <2>1, <2>2 DEF GiveShares, Statement
<1>10. CASE UndoTake(p)
  BY <1>10, <1>u DEF UndoTake, Undoing
<1>11. CASE VerifyHolding(p)
  <2>1. ASSUME At(p, "verify", "commit"), UNCHANGED otcVars
        PROVE  LiveCall(p)' /\ pc'[p] # "lost"
    BY <2>1, <1>f DEF otcVars, Forward, LogAt
  <2>2. ASSUME At(p, "verify", "c4seller"), UNCHANGED <<logged, tracked>>,
               SagaStatus(p, "Compensating")
        PROVE  LiveCall(p)' /\ pc'[p] # "lost"
    BY <2>2, <1>u DEF Forward, Undoing
  <2> QED BY <1>11, <2>1, <2>2 DEF VerifyHolding, Statement, Fails
<1>12. CASE CommitContract(p)
  <2>1. ASSUME At(p, "commit", "log5"), UNCHANGED <<saga, logged, tracked>>
        PROVE  LiveCall(p)' /\ pc'[p] # "lost"
    <3>0. p[1] \in Contracts BY CallIsPair
    <3>1. pc[p] = "commit" /\ pc'[p] = "log5" BY <2>1 DEF At, TypeOK
    <3> QED BY <1>r, <2>1, <3>0, <3>1
            DEF LiveCall, Interrupted, Busy, Replied, Forward
  <2>2. ASSUME At(p, "commit", "c4seller"), UNCHANGED <<logged, tracked>>,
               SagaStatus(p, "Compensating")
        PROVE  LiveCall(p)' /\ pc'[p] # "lost"
    BY <2>2, <1>u DEF Forward, Undoing
  <2> QED BY <1>12, <2>1, <2>2 DEF CommitContract, Statement, Fails
<1>13. CASE LogStep(p)
  <2>1. /\ LogAt("reserveShares") = LogAt("log1") \cup {1}
        /\ LogAt("debitBuyer") = LogAt("log2") \cup {2}
        /\ LogAt("takeShares") = LogAt("log3") \cup {3}
        /\ LogAt("verify") = LogAt("log4") \cup {4}
    BY DEF LogAt
  <2> QED BY <1>13, <1>r, <2>1, LogLive DEF LogStep, Forward
<1>14. CASE LogCompleted(p) \/ RecordExerciseTax(p) \/ EndCompensated(p)
  BY <1>14, <1>r, EndLive
<1>15. CASE Comp4(p) \/ Comp3(p) \/ Comp2(p) \/ Comp1(p)
  BY <1>15, <1>u DEF Comp4, Comp3, Comp2, Comp1, Compensate, otcVars, Undoing
<1> QED BY <1>1, <1>2, <1>3, <1>4, <1>5, <1>6, <1>7, <1>8, <1>9, <1>10, <1>11, <1>12,
           <1>13, <1>14, <1>15 DEF CallStep

LEMMA CallControls ==
  ASSUME TypeOK, NEW p \in Calls, CallStep(p)
  PROVE  /\ scanned' = scanned /\ pc[p] # "lost" /\ pc'[p] # "lost"
         /\ \A q \in Calls \ {p} : pc'[q] = pc[q] /\ (q \in tracked' <=> q \in tracked)
         /\ \A d \in Contracts \ {p[1]} : lock'[d] = lock[d]
<1>0. p[1] \in Contracts BY CallIsPair
<1>1. scanned' = scanned
  BY DEF CallStep, CheckCompleted, LockContract, InsertSaga, LookupFails,
     ReserveFunds, ReserveShares, DebitBuyer, CreditSeller, UndoDebit, TakeShares,
     DropRow, GiveShares, UndoTake, VerifyHolding, CommitContract, LogStep, LogSuccess,
     LogCompleted, RecordExerciseTax, Comp4, Comp3, Comp2, Comp1, Compensate, Retried,
     EndCompensated, Fails, envVars
<1>2. \E from, to \in Labels \ {"lost"} : At(p, from, to)
  BY DEF CallStep, CheckCompleted, LockContract, InsertSaga, LookupFails,
     ReserveFunds, ReserveShares, DebitBuyer, CreditSeller, UndoDebit, TakeShares,
     DropRow, GiveShares, UndoTake, VerifyHolding, CommitContract, LogStep, LogSuccess,
     LogCompleted, RecordExerciseTax, Comp4, Comp3, Comp2, Comp1, Compensate,
     EndCompensated, Fails, Statement, Labels, Forward, Undoing, Committed, Replied
<1>3. pc[p] # "lost" /\ pc'[p] # "lost" /\ \A q \in Calls \ {p} : pc'[q] = pc[q]
  BY <1>2 DEF At, TypeOK
<1>4. tracked' = tracked \/ tracked' = tracked \cup {p}
  BY DEF CallStep, CheckCompleted, LockContract, InsertSaga, LookupFails,
     ReserveFunds, ReserveShares, DebitBuyer, CreditSeller, UndoDebit, TakeShares,
     DropRow, GiveShares, UndoTake, VerifyHolding, CommitContract, LogStep, LogSuccess,
     LogCompleted, RecordExerciseTax, Comp4, Comp3, Comp2, Comp1, Compensate,
     EndCompensated, Fails, otcVars
<1>5. \A d \in Contracts \ {p[1]} : lock'[d] = lock[d]
  BY <1>0 DEF CallStep, CheckCompleted, LockContract, InsertSaga, LookupFails, Release,
     ReserveFunds, ReserveShares, DebitBuyer, CreditSeller, UndoDebit, TakeShares,
     DropRow, GiveShares, UndoTake, VerifyHolding, CommitContract, LogStep, LogSuccess,
     LogCompleted, RecordExerciseTax, Comp4, Comp3, Comp2, Comp1, Compensate,
     EndCompensated, Fails, otcVars, TypeOK
<1> QED BY <1>1, <1>3, <1>4, <1>5

LEMMA CallStepControl ==
  ASSUME TypeOK, Control, Recoverable, Undoable, NEW p \in Calls, CallStep(p)
  PROVE  Control'
<1>1. /\ rpc' = rpc
      /\ \A d \in Contracts \ {p[1]} : saga'[d] = saga[d] /\ logged'[d] = logged[d]
  BY CallTouches
<1>2. /\ scanned' = scanned /\ pc[p] # "lost" /\ pc'[p] # "lost"
      /\ \A q \in Calls \ {p} : pc'[q] = pc[q] /\ (q \in tracked' <=> q \in tracked)
      /\ \A d \in Contracts \ {p[1]} : lock'[d] = lock[d]
  BY CallControls
<1>3. CASE MaxCrashes = 0
  BY <1>1, <1>2, <1>3 DEF Control
<1>4. CASE MaxCrashes # 0
  <2>1. Killed BY <1>4 DEF Recoverable
  <2>2. LiveCall(p) BY <1>2, <1>4 DEF Control
  <2>3. LiveCall(p)' BY <2>1, <2>2, LiveStep
  <2>4. ASSUME NEW q \in Calls \ {p}
        PROVE  IF pc'[q] = "lost" THEN LostCall(q)' ELSE LiveCall(q)'
    <3>1. q[1] \in Contracts \ {p[1]} BY <2>1, CallIsPair DEF Killed
    <3>2. /\ saga'[q[1]] = saga[q[1]] /\ logged'[q[1]] = logged[q[1]]
          /\ lock'[q[1]] = lock[q[1]] /\ pc'[q] = pc[q] /\ (q \in tracked' <=> q \in tracked)
      BY <1>1, <1>2, <3>1
    <3>3. IF pc[q] = "lost" THEN LostCall(q) ELSE LiveCall(q) BY <1>4 DEF Control
    <3>4. CASE pc[q] = "lost"
      BY <1>1, <1>2, <3>2, <3>3, <3>4 DEF LostCall, Interrupted
    <3>5. CASE pc[q] # "lost"
      BY <1>1, <1>2, <3>2, <3>3, <3>5 DEF LiveCall, Interrupted, Busy, Holds
    <3> QED BY <3>2, <3>4, <3>5
  <2>5. \A q \in Calls : IF pc'[q] = "lost" THEN LostCall(q)' ELSE LiveCall(q)'
    BY <1>2, <2>3, <2>4
  <2>6. \A c \in Contracts : saga'[c] # None => \E q \in Calls : q[1] = c
    <3>1. \A c \in Contracts : saga[c] # None => \E q \in Calls : q[1] = c
      BY <1>4 DEF Control
    <3> QED BY <1>1, <3>1
  <2>7. \A c \in Contracts : rpc'[c] # "off" => scanned' /\ \E q \in Calls : q[1] = c
    BY <1>1, <1>2, <1>4 DEF Control
  <2> QED BY <1>4, <2>5, <2>6, <2>7 DEF Control
<1> QED BY <1>3, <1>4

(* The steps of a recovery move the lost call of its contract, and leave   *)
(* everybody else alone.                                                   *)
LEMMA RecoveryControl ==
  ASSUME TypeOK, Control, Recoverable, NEW c \in Contracts, RecoveryStep(c)
  PROVE  Control'
<1>m. /\ rpc[c] # "off" /\ pc' = pc /\ logged' = logged /\ lock' = lock /\ tracked' = tracked
      /\ scanned' = scanned
      /\ \A d \in Contracts \ {c} : saga'[d] = saga[d] /\ rpc'[d] = rpc[d]
  BY DEF RecoveryStep, MarkCompensating, ReadLog, RecoverStep, Recover, MarkCompensated,
     RecoveryAt, Retried, otcVars, envVars, TypeOK
<1>1. MaxCrashes # 0 BY <1>m DEF Control
<1>k. Killed /\ \E p \in Calls : p[1] = c /\ pc[p] = "lost" /\ Only(p)
  BY <1>m, RecoveryMoves, TypeGroups
<1>p. PICK p \in Calls : p[1] = c /\ pc[p] = "lost" BY <1>k
<1>2. scanned BY <1>1, <1>m DEF Control
<1>3. LostCall(p)'
  <2>0. rpc[c] \in {"mark", "read"} => Interrupted(c)
    BY <1>1, <1>p DEF Control, LostCall
  <2>1. CASE MarkCompensating(c)
    <3>1. rpc'[c] = "read" /\ Interrupted(c)'
      BY <2>0, <2>1 DEF MarkCompensating, RecoveryAt, Interrupted, TypeOK
    <3> QED BY <1>p, <3>1 DEF LostCall
  <2>2. CASE ReadLog(c)
    <3>1. rpc'[c] \in {"finish", "r4seller", "r3buyer", "r2", "r1"}
      <4>1. logged[c] \in SUBSET (1..5) /\ rpc \in [Contracts -> RecoveryLabels]
        BY DEF TypeOK
      <4>2. FirstCompensator(logged[c]) \in {"finish", "r4seller", "r3buyer", "r2", "r1"}
        BY <4>1, FirstIs
      <4>3. "readLog" \notin Faults /\ c \notin NoContractCurrency BY <1>k DEF Killed
      <4> QED BY <2>2, <4>1, <4>2, <4>3 DEF ReadLog, RecoveryAt
    <3> QED BY <1>p, <3>1 DEF LostCall
  <2>3. CASE RecoverStep(c)
    <3>1. rpc'[c] \in {"r4buyer", "r3buyer", "r3seller", "r2", "r1", "finish"}
      BY <2>3 DEF RecoverStep, Recover, RecoveryAt, TypeOK
    <3> QED BY <1>p, <3>1 DEF LostCall
  <2>4. CASE MarkCompensated(c)
    <3>1. rpc'[c] = "off" /\ saga'[c] = "Compensated"
      BY <1>k, <2>4 DEF MarkCompensated, RecoveryAt, Killed, TypeOK
    <3> QED BY <1>p, <3>1 DEF LostCall, Interrupted
  <2> QED BY <2>1, <2>2, <2>3, <2>4 DEF RecoveryStep
<1>4. ASSUME NEW q \in Calls \ {p}
      PROVE  IF pc'[q] = "lost" THEN LostCall(q)' ELSE LiveCall(q)'
  <2>1. q[1] \in Contracts \ {c} BY <1>k, <1>p, CallIsPair DEF Killed
  <2>2. saga'[q[1]] = saga[q[1]] /\ rpc'[q[1]] = rpc[q[1]] BY <1>m, <2>1
  <2>3. IF pc[q] = "lost" THEN LostCall(q) ELSE LiveCall(q) BY <1>1 DEF Control
  <2>4. CASE pc[q] = "lost"
    BY <1>m, <2>2, <2>3, <2>4 DEF LostCall, Interrupted
  <2>5. CASE pc[q] # "lost"
    BY <1>m, <2>2, <2>3, <2>5 DEF LiveCall, Interrupted, Busy, Holds
  <2> QED BY <1>m, <2>4, <2>5
<1>5. \A q \in Calls : IF pc'[q] = "lost" THEN LostCall(q)' ELSE LiveCall(q)'
  BY <1>m, <1>p, <1>3, <1>4
<1>6. \A d \in Contracts : saga'[d] # None => \E q \in Calls : q[1] = d
  <2>1. \A d \in Contracts : saga[d] # None => \E q \in Calls : q[1] = d
    BY <1>1 DEF Control
  <2> QED BY <1>m, <1>p, <2>1
<1>7. \A d \in Contracts : rpc'[d] # "off" => scanned' /\ \E q \in Calls : q[1] = d
  <2>1. \A d \in Contracts : rpc[d] # "off" => scanned /\ \E q \in Calls : q[1] = d
    BY <1>1 DEF Control
  <2> QED BY <1>m, <1>2, <1>p, <2>1
<1> QED BY <1>1, <1>5, <1>6, <1>7 DEF Control

(* The scan finds no live call with an interrupted saga, for it runs first.*)
LEMMA ScanControl ==
  ASSUME TypeOK, Control, Recoverable, ScanFirst, RecoverInFlightSagas
  PROVE  Control'
<1>1. /\ ~scanned /\ scanned' /\ UNCHANGED <<pc, saga, logged, lock, tracked>>
  BY DEF RecoverInFlightSagas, otcVars
<1>2. MaxCrashes # 0 /\ Killed BY <1>1 DEF Control, Recoverable
<1>3. \A c \in Contracts : rpc[c] = "off" BY <1>1, <1>2 DEF Control
<1>4. \A c \in Contracts :
        rpc'[c] = IF saga[c] \in {"Running", "Compensating"} THEN "mark" ELSE "off"
  BY <1>2, <1>3 DEF RecoverInFlightSagas, Killed
<1>5. \A q \in Calls : ~Busy(q) BY <1>1 DEF ScanFirst
<1>6. ASSUME NEW q \in Calls
      PROVE  IF pc'[q] = "lost" THEN LostCall(q)' ELSE LiveCall(q)'
  <2>0. q[1] \in Contracts BY CallIsPair
  <2>1. IF pc[q] = "lost" THEN LostCall(q) ELSE LiveCall(q) BY <1>2 DEF Control
  <2>2. CASE pc[q] = "lost"
    BY <1>1, <1>4, <2>0, <2>2 DEF LostCall, Interrupted
  <2>3. CASE pc[q] # "lost"
    <3>1. LiveCall(q) BY <2>1, <2>3
    <3>2. saga[q[1]] \notin {"Running", "Compensating"}
      BY <1>5, <3>1 DEF LiveCall, Interrupted, None
    <3>3. rpc'[q[1]] = "off" BY <1>4, <2>0, <3>2
    <3> QED BY <1>1, <2>3, <3>1, <3>3 DEF LiveCall, Interrupted, Busy, Holds
  <2> QED BY <1>1, <2>2, <2>3
<1>7. \A c \in Contracts : saga'[c] # None => \E q \in Calls : q[1] = c
  BY <1>1, <1>2 DEF Control
<1>8. \A c \in Contracts : rpc'[c] # "off" => \E q \in Calls : q[1] = c
  <2>1. \A c \in Contracts : saga[c] # None => \E q \in Calls : q[1] = c
    BY <1>2 DEF Control
  <2> QED BY <1>4, <2>1 DEF None
<1> QED BY <1>1, <1>2, <1>6, <1>7, <1>8 DEF Control

LEMMA CrashControl ==
  ASSUME TypeOK, Control, Recoverable, Crash
  PROVE  Control'
<1>1. /\ ~scanned' /\ UNCHANGED <<saga, logged, tracked>>
      /\ \A q \in Calls : pc'[q] = IF Busy(q) THEN "lost" ELSE pc[q]
      /\ \A c \in Contracts : rpc'[c] = "off" /\ lock'[c] = None
  BY DEF Crash, TypeOK
<1>2. MaxCrashes # 0 BY DEF Crash, TypeOK
<1>3. ASSUME NEW q \in Calls
      PROVE  IF pc'[q] = "lost" THEN LostCall(q)' ELSE LiveCall(q)'
  <2>0. q[1] \in Contracts BY CallIsPair
  <2>1. CASE pc'[q] = "lost" BY <1>1, <2>0, <2>1 DEF LostCall
  <2>2. CASE pc'[q] # "lost"
    <3>1. pc'[q] = pc[q] /\ ~Busy(q) /\ pc[q] # "lost" BY <1>1, <2>2
    <3>2. LiveCall(q) BY <1>2, <3>1 DEF Control
    <3>3. pc[q] \notin Forward BY <3>1 DEF Busy, Forward, Replied
    <3> QED BY <1>1, <2>0, <3>1, <3>2, <3>3 DEF LiveCall, Interrupted, Busy, Forward
  <2> QED BY <2>1, <2>2
<1>4. \A c \in Contracts : saga'[c] # None => \E q \in Calls : q[1] = c
  BY <1>1, <1>2 DEF Control
<1>5. \A c \in Contracts : rpc'[c] = "off" BY <1>1
<1> QED BY <1>2, <1>3, <1>4, <1>5 DEF Control

LEMMA AsideControl ==
  ASSUME TypeOK, Control, UNCHANGED <<pc, rpc, saga, logged, tracked, scanned>>,
         \A c \in Contracts : lock'[c] \in {lock[c], None}
  PROVE  Control'
<1>1. CASE MaxCrashes = 0 BY <1>1 DEF Control
<1>2. CASE MaxCrashes # 0
  <2>1. ASSUME NEW q \in Calls
        PROVE  IF pc'[q] = "lost" THEN LostCall(q)' ELSE LiveCall(q)'
    <3>0. q[1] \in Contracts /\ q[2] # None BY CallIsPair
    <3>1. IF pc[q] = "lost" THEN LostCall(q) ELSE LiveCall(q) BY <1>2 DEF Control
    <3>2. CASE pc[q] = "lost" BY <3>1, <3>2 DEF LostCall, Interrupted
    <3>3. CASE pc[q] # "lost"
      <4>1. Holds(q)' => Holds(q) BY <3>0 DEF Holds
      <4> QED BY <3>1, <3>3, <4>1 DEF LiveCall, Interrupted, Busy
    <3> QED BY <3>2, <3>3
  <2> QED BY <1>2, <2>1 DEF Control
<1> QED BY <1>1, <1>2

(***************************************************************************)
(* The invariant of the books.                                             *)
(***************************************************************************)
LEMMA InitBooks == Init => BooksInv
<1> SUFFICES ASSUME Init PROVE BooksInv
  OBVIOUS
<1>1. \A p \in Calls : Stage(p) = "idle" BY DEF Init, Stage
<1>2. \A c \in Contracts : contract[c] # "EXERCISED" BY DEF Init
<1>3. \A where, x, weight : Exercised(where, x, weight) = 0 BY <1>2, NothingExercised
<1>4. \A labels, where, x, weight :
        "idle" \notin labels => InFlight(labels, where, x, weight) = 0
  BY <1>1, NothingInFlight
<1>5. /\ \A a \in Accounts : /\ account[a].balance = InitBalance[a]
                             /\ account[a].available = InitBalance[a]
                             /\ InitBalance[a] \in Int
      /\ \A u \in Users : /\ shares[u].amount = InitShares[u] /\ shares[u].reserved = 0
                          /\ InitShares[u] \in Nat
  BY DEF Init
<1>r. \A u \in Users : ~shares[u].row => InitShares[u] = 0
  <2> SUFFICES ASSUME NEW u \in Users, InitShares[u] # 0 PROVE shares[u].row
    OBVIOUS
  <2>1. InitShares[u] > 0 BY <1>5
  <2>2. shares[u].row = (InitShares[u] > 0) BY DEF Init
  <2> QED BY <2>1, <2>2, Zenon
<1>6. /\ \A a \in Accounts : /\ InFlight(BuyerDebited, PayingAccount, a, Pay) = 0
                             /\ InFlight(FundsReserved, PayingAccount, a, Pay) = 0
                             /\ InFlight(SellerCredited, SellerAccount, a, Receive) = 0
      /\ \A u \in Users : /\ InFlight(SharesTaken, Seller, u, Amount) = 0
                          /\ InFlight(SharesGiven, Buyer, u, Amount) = 0
                          /\ InFlight(SharesReserved, Seller, u, Amount) = 0
  BY <1>4, WhatLabelsStandFor
<1>7. Books
  <2>1. ASSUME NEW a \in Accounts
        PROVE  /\ EffectiveBalance[a] = InitBalance[a]
               /\ EffectiveAvailable[a] = InitBalance[a]
               /\ InitBalance[a] = InitBalance[a] - Exercised(PayingAccount, a, Pay)
                                    + Exercised(SellerAccount, a, Receive)
    BY <1>3, <1>5, <1>6 DEF EffectiveBalance, EffectiveAvailable
  <2>2. ASSUME NEW u \in Users
        PROVE  /\ EffectiveHolding[u] = InitShares[u] /\ EffectiveReserved[u] = 0
               /\ InitShares[u] = InitShares[u] - Exercised(Seller, u, Amount)
                                   + Exercised(Buyer, u, Amount)
    BY <1>3, <1>5, <1>6 DEF EffectiveHolding, EffectiveReserved
  <2> QED BY <2>1, <2>2 DEF Books
<1>8. Rows
  <2>1. \A u \in Users : ~shares[u].row => shares[u].amount = 0 /\ shares[u].reserved = 0
    BY <1>5, <1>r
  <2>2. \A c \in Contracts : shares[Seller[c]].reserved =< shares[Seller[c]].amount
    <3> SUFFICES ASSUME NEW c \in Contracts
                 PROVE  shares[Seller[c]].reserved =< shares[Seller[c]].amount
      OBVIOUS
    <3>1. Seller[c] \in Users OBVIOUS
    <3>2. /\ shares[Seller[c]].reserved = 0
          /\ shares[Seller[c]].amount = InitShares[Seller[c]]
          /\ InitShares[Seller[c]] \in Nat
      BY <1>5, <3>1
    <3> QED BY <3>2
  <2> QED BY <2>1, <2>2 DEF Rows
<1>9. Control
  <2>1. /\ scanned /\ \A c \in Contracts : rpc[c] = "off" /\ saga[c] = None
        /\ \A c \in Contracts : logged[c] = {}
        /\ tracked = {} /\ \A p \in Calls : pc[p] = "idle"
    BY DEF Init
  <2>2. ASSUME NEW p \in Calls PROVE LiveCall(p)
    BY <2>1, CallIsPair DEF LiveCall, LogAt, Forward
  <2> QED BY <2>1, <2>2 DEF Control
<1> QED BY <1>7, <1>8, <1>9 DEF BooksInv

LEMMA NextBooks ==
  ASSUME Undoable, OneSided, Recoverable, TypeOK, LockProtects, BooksInv, ScanFirst, RowFound,
         [Next]_vars
  PROVE  BooksInv'
<1>1. ASSUME NEW p \in Calls, CallStep(p) PROVE BooksInv'
  BY <1>1, CallStepBooks, CallStepControl DEF BooksInv
<1>2. ASSUME NEW p \in Calls, Disconnect(p) PROVE BooksInv'
  <2>1. /\ SameContracts /\ UNCHANGED <<pc, rpc, saga, logged, bankVars, tracked, scanned>>
        /\ \A c \in Contracts : lock'[c] \in {lock[c], None}
    BY <1>2, CallIsPair DEF Disconnect, SameContracts, envVars, TypeOK
  <2> QED BY <2>1, AsideBooks, AsideControl DEF BooksInv
<1>3. ASSUME NEW c \in Contracts, RecoveryStep(c) PROVE BooksInv'
  BY <1>3, RecoverStepBooks, RecoveryControlBooks, RecoveryControl DEF BooksInv, RecoveryStep
<1>4. ASSUME NEW c \in Contracts, SettlementPasses(c) PROVE BooksInv'
  BY <1>4, AsideBooks, AsideControl DEF SettlementPasses, SameContracts, envVars, BooksInv
<1>5. CASE RecoverInFlightSagas
  BY <1>5, ScanBooks, ScanControl DEF BooksInv
<1>6. CASE ExpireContracts
  <2>1. SameContracts
    <3> DEFINE stale == {c \in due : contract[c] = "ACTIVE"}
    <3>1. contract' = [c \in Contracts |-> IF c \in stale THEN "EXPIRED" ELSE contract[c]]
      BY <1>6 DEF ExpireContracts
    <3>2. \A c \in Contracts : contract'[c] = IF c \in stale THEN "EXPIRED" ELSE contract[c]
      BY <3>1, Zenon
    <3> QED BY <3>2 DEF SameContracts
  <2> QED BY <1>6, <2>1, AsideBooks, AsideControl DEF ExpireContracts, envVars, BooksInv
<1>7. ASSUME NEW u \in Users, SellOnExchange(u) PROVE BooksInv'
  BY <1>7 DEF SellOnExchange, Undoable, TypeOK
<1>8. CASE Crash
  BY <1>8, CrashBooks, CrashControl DEF BooksInv
<1>9. CASE UNCHANGED vars
  BY <1>9, AsideBooks, AsideControl DEF vars, otcVars, envVars, SameContracts, BooksInv
<1> QED
  BY <1>1, <1>2, <1>3, <1>4, <1>5, <1>6, <1>7, <1>8, <1>9 DEF Next

(* When nothing is in progress nothing is in flight, and the books show    *)
(* the exercised contracts.                                                *)
LEMMA QuiescentBalances ==
  ASSUME TypeOK, BooksInv
  PROVE  BooksBalance
<1> SUFFICES ASSUME Quiescent
             PROVE  /\ \A a \in Accounts :
                         /\ account[a].balance = InitBalance[a]
                              - Exercised(PayingAccount, a, Pay) + Exercised(SellerAccount, a, Receive)
                         /\ account[a].available = account[a].balance
                    /\ \A u \in Users :
                         /\ shares[u].amount = InitShares[u]
                              - Exercised(Seller, u, Amount) + Exercised(Buyer, u, Amount)
                         /\ shares[u].reserved = 0
  BY DEF BooksBalance
<1>1. \A p \in Calls : Stage(p) \in {"idle"} \cup Replied
  <2> SUFFICES ASSUME NEW p \in Calls PROVE Stage(p) \in {"idle"} \cup Replied
    OBVIOUS
  <2>0. p[1] \in Contracts BY CallIsPair
  <2>1. CASE pc[p] # "lost" BY <2>1 DEF Stage, Quiescent, Busy
  <2>2. CASE pc[p] = "lost"
    <3>1. MaxCrashes # 0 BY <2>2 DEF BooksInv, Control
    <3>2. LostCall(p) BY <2>2, <3>1 DEF BooksInv, Control
    <3>3. rpc[p[1]] = "off" /\ saga[p[1]] \notin {"Running", "Compensating"}
      BY <2>0, <3>2 DEF Quiescent, LostCall, Interrupted
    <3>4. Stage(p) = "failed" BY <2>2, <3>3, CompensatorIs DEF Stage
    <3> QED BY <3>4 DEF Replied
  <2> QED BY <2>1, <2>2
<1>2. \A labels \in {FundsReserved, BuyerDebited, SellerCredited, SharesReserved, SharesTaken,
                     SharesGiven} :
        \A p \in Calls : Stage(p) \notin labels
  <2>1. \A l \in {"idle"} \cup Replied :
          /\ l \notin FundsReserved /\ l \notin BuyerDebited /\ l \notin SellerCredited
          /\ l \notin SharesReserved /\ l \notin SharesTaken /\ l \notin SharesGiven
    BY WhatLabelsStandFor DEF Replied
  <2> QED BY <1>1, <2>1
<1>3. \A labels \in {FundsReserved, BuyerDebited, SellerCredited, SharesReserved, SharesTaken,
                     SharesGiven} :
        \A where, x, weight : InFlight(labels, where, x, weight) = 0
  BY <1>2, NothingInFlight
<1>4. /\ \A a \in Accounts : account[a].balance \in Int /\ account[a].available \in Int
      /\ \A u \in Users : shares[u].amount \in Int /\ shares[u].reserved \in Int
  BY DEF TypeOK
<1>5. ASSUME NEW a \in Accounts
      PROVE  /\ account[a].balance = InitBalance[a]
                  - Exercised(PayingAccount, a, Pay) + Exercised(SellerAccount, a, Receive)
             /\ account[a].available = account[a].balance
  <2>1. /\ EffectiveBalance[a] = account[a].balance + 0 - 0
        /\ EffectiveAvailable[a] = account[a].available + 0 - 0
    BY <1>3 DEF EffectiveBalance, EffectiveAvailable
  <2> QED BY <1>4, <2>1 DEF BooksInv, Books
<1>6. ASSUME NEW u \in Users
      PROVE  /\ shares[u].amount = InitShares[u]
                  - Exercised(Seller, u, Amount) + Exercised(Buyer, u, Amount)
             /\ shares[u].reserved = 0
  <2>1. /\ EffectiveHolding[u] = shares[u].amount + 0 - 0
        /\ EffectiveReserved[u] = shares[u].reserved - 0
    BY <1>3 DEF EffectiveHolding, EffectiveReserved
  <2> QED BY <1>4, <2>1 DEF BooksInv, Books
<1> QED BY <1>5, <1>6

(* What is under way and what was exercised make up all that ever moved,   *)
(* at every moment.                                                        *)
THEOREM BooksAlways ==
  ASSUME Undoable, OneSided, Recoverable
  PROVE  Spec /\ [](ScanFirst /\ RowFound) => []BooksInv
<1>1. TypeOK /\ LockProtects /\ BooksInv /\ ScanFirst /\ RowFound /\ [Next]_vars => BooksInv'
  BY NextBooks
<1> QED BY <1>1, InitBooks, TypeCorrect, LockProtectsAlways, PTL DEF Spec

(* I1, I2 and I3 of assertInvariants, for any accounts, owners, contracts  *)
(* and calls, whatever statement fails and wherever a crash that the log   *)
(* tells of cuts a call off.                                               *)
THEOREM BooksAreRight ==
  ASSUME Undoable, OneSided, Recoverable
  PROVE  Spec /\ [](ScanFirst /\ RowFound) => []BooksBalance
<1>1. TypeOK /\ BooksInv => BooksBalance BY QuiescentBalances
<1> QED BY <1>1, BooksAlways, TypeCorrect, PTL

(***************************************************************************)
(* Sellers with shares to spare.                                           *)
(***************************************************************************)

(* What the contracts of a seller and the calls for them can take from him *)
(* at most, the contracts for good and the calls for as long as they run.  *)
Promised(u) ==
  SumFunctionOnSet([c \in Contracts |-> IF Seller[c] = u THEN Amount[c] ELSE 0], Contracts)
  + SumFunctionOnSet([p \in Calls |-> IF Seller[p[1]] = u THEN Amount[p[1]] ELSE 0], Calls)
AmpleShares == \A c \in Contracts : InitShares[Seller[c]] > Promised(Seller[c])

LEMMA TakenIsPromised ==
  ASSUME NEW u
  PROVE  /\ Exercised(Seller, u, Amount) + InFlight(SharesTaken, Seller, u, Amount) =< Promised(u)
         /\ Promised(u) \in Int
<1> DEFINE f == [c \in Contracts |-> IF contract[c] = "EXERCISED" /\ Seller[c] = u
                                     THEN Amount[c] ELSE 0]
           g == [c \in Contracts |-> IF Seller[c] = u THEN Amount[c] ELSE 0]
           S == {p \in Calls : Stage(p) \in SharesTaken /\ Seller[p[1]] = u}
           k == [p \in Calls |-> IF p \in S THEN Amount[p[1]] ELSE 0]
           l == [p \in Calls |-> IF Seller[p[1]] = u THEN Amount[p[1]] ELSE 0]
<1>1. \A c \in Contracts : f[c] \in Int /\ g[c] \in Int /\ f[c] =< g[c] OBVIOUS
<1>2. \A p \in Calls : k[p] \in Int /\ l[p] \in Int /\ k[p] =< l[p] BY CallIsPair
<1>3. /\ Exercised(Seller, u, Amount) = SumFunctionOnSet(f, Contracts)
      /\ InFlight(SharesTaken, Seller, u, Amount) = SumFunctionOnSet(k, Calls)
      /\ Promised(u) = SumFunctionOnSet(g, Contracts) + SumFunctionOnSet(l, Calls)
  <2>1. SumFunctionOnSet([p \in Calls |-> Amount[p[1]]], S) = SumFunctionOnSet(k, Calls)
    <3>1. S \in SUBSET Calls /\ Amount \in [Contracts -> Int]
      BY AmountsAssumption, FunctionsAssumption
    <3> HIDE DEF S
    <3> QED BY <3>1, SumOverCalls
  <2> QED BY <2>1 DEF Exercised, InFlight, Promised
<1> HIDE DEF f, g, k, l
<1>4. SumFunctionOnSet(f, Contracts) =< SumFunctionOnSet(g, Contracts)
  BY <1>1, SumMonotone, FiniteAssumption
<1>5. SumFunctionOnSet(k, Calls) =< SumFunctionOnSet(l, Calls)
  BY <1>2, SumMonotone, FiniteAssumption
<1>6. /\ SumFunctionOnSet(f, Contracts) \in Int /\ SumFunctionOnSet(g, Contracts) \in Int
      /\ SumFunctionOnSet(k, Calls) \in Int /\ SumFunctionOnSet(l, Calls) \in Int
  BY <1>1, <1>2, SumInt, FiniteAssumption
<1> QED BY <1>3, <1>4, <1>5, <1>6

LEMMA AmpleRows ==
  ASSUME TypeOK, BooksInv, OneSided, AmpleShares
  PROVE  RowFound
<1> SUFFICES ASSUME NEW p \in Calls PROVE shares[Seller[p[1]]].row
  BY DEF RowFound
<1> DEFINE u == Seller[p[1]]
<1>1. p[1] \in Contracts /\ u \in Users BY CallIsPair
<1>2. \A c \in Contracts : Buyer[c] # u BY <1>1 DEF OneSided
<1>3. Exercised(Buyer, u, Amount) = 0 /\ InFlight(SharesGiven, Buyer, u, Amount) = 0
  BY <1>2, NothingExercised, NothingInFlight, CallIsPair
<1>4. shares[u].amount + InFlight(SharesTaken, Seller, u, Amount) - 0
        = InitShares[u] - Exercised(Seller, u, Amount) + 0
  BY <1>1, <1>3 DEF BooksInv, Books, EffectiveHolding
<1>5. /\ Exercised(Seller, u, Amount) \in Nat
      /\ InFlight(SharesTaken, Seller, u, Amount) \in Nat
      /\ shares[u].amount \in Int /\ InitShares[u] \in Int
  BY <1>1, ExercisedNat, InFlightNat DEF TypeOK
<1>6. InitShares[u] > Promised(u) BY <1>1 DEF AmpleShares
<1>7. shares[u].amount > 0 BY <1>4, <1>5, <1>6, TakenIsPromised
<1>8. ~shares[u].row => shares[u].amount = 0 BY <1>1 DEF BooksInv, Rows
<1> QED BY <1>5, <1>7, <1>8

(* With shares to spare, a service that restarts owes its books to the     *)
(* scan alone: that no call gets in before it.                             *)
THEOREM BooksAreRightAcrossRestarts ==
  ASSUME Undoable, OneSided, Recoverable, AmpleShares
  PROVE  Spec /\ []ScanFirst => []BooksBalance
<1>1. TypeOK /\ LockProtects /\ BooksInv /\ ScanFirst /\ [Next]_vars => BooksInv'
  BY NextBooks, AmpleRows
<1>2. TypeOK /\ BooksInv => BooksBalance BY QuiescentBalances
<1> QED BY <1>1, <1>2, InitBooks, TypeCorrect, LockProtectsAlways, PTL DEF Spec

(* ... and a service that is never killed owes them to nothing.            *)
THEOREM BooksAreRightUninterrupted ==
  ASSUME Undoable, OneSided, MaxCrashes = 0, AmpleShares
  PROVE  Spec => []BooksBalance
<1>1. ASSUME TypeOK, LockProtects, BooksInv, [Next]_vars PROVE BooksInv'
  <2>1. Recoverable BY DEF Recoverable
  <2>2. ScanFirst BY <1>1 DEF ScanFirst, BooksInv, Control
  <2> QED BY <1>1, <2>1, <2>2, NextBooks, AmpleRows
<1>2. TypeOK /\ BooksInv => BooksBalance BY QuiescentBalances
<1>3. TypeOK /\ LockProtects /\ BooksInv /\ [Next]_vars => BooksInv' BY <1>1
<1> QED BY <1>2, <1>3, InitBooks, TypeCorrect, LockProtectsAlways, PTL DEF Spec

(***************************************************************************)
(* Exercising is atomic.                                                   *)
(***************************************************************************)

(* Nobody pays from an account that sellers are credited to: an exercise   *)
(* could otherwise be paid with money that another one takes back.         *)
AccountRoles == \A c, d \in Contracts : PayingAccount[c] # SellerAccount[d]

(* What step 1 left on the paying accounts is never spent. *)
Solvent == \A c \in Contracts : account[PayingAccount[c]].available >= 0

LEMMA SolventKept ==
  ASSUME TypeOK, AccountRoles, Solvent, [Next]_vars
  PROVE  Solvent'
<1>1. \/ account' = account
      \/ \E c \in Contracts, m \in Int : \E n \in Nat :
           \E a \in {PayingAccount[c], FoundAccount[c]} : account' = Move(account, a, m, n)
      \/ \E c \in Contracts, m, n \in Int : account' = Move(account, SellerAccount[c], m, n)
      \/ \E c \in Contracts : /\ account[PayingAccount[c]].available >= Pay[c]
                              /\ account' = Move(account, PayingAccount[c], 0, -Pay[c])
  <2>1. ASSUME NEW p \in Calls, CallStep(p)
        PROVE  \/ account' = account
               \/ \E m \in Int : \E n \in Nat : account' = Move(account, PayingAccount[p[1]], m, n)
               \/ \E m, n \in Int : account' = Move(account, SellerAccount[p[1]], m, n)
               \/ /\ account[PayingAccount[p[1]]].available >= Pay[p[1]]
                  /\ account' = Move(account, PayingAccount[p[1]], 0, -Pay[p[1]])
    <3>0. /\ Pay[p[1]] \in Nat /\ Pay[p[1]] \in Int /\ -Pay[p[1]] \in Int
          /\ Receive[p[1]] \in Int /\ -Receive[p[1]] \in Int /\ 0 \in Nat /\ 0 \in Int
      BY CallIsPair
    <3>1. CASE ReserveFunds(p)
      BY <3>1, Zenon DEF ReserveFunds, CanReserveFunds, Fails, bankVars
    <3>2. CASE DebitBuyer(p) BY <3>0, <3>2, Zenon DEF DebitBuyer, Fails, bankVars
    <3>3. CASE CreditSeller(p) BY <3>0, <3>3, Zenon DEF CreditSeller, bankVars
    <3>4. CASE UndoDebit(p) BY <3>0, <3>4, Zenon DEF UndoDebit, Retried, bankVars
    <3>5. CASE Comp3(p) BY <3>0, <3>5, Zenon DEF Comp3, Compensate, Retried, bankVars
    <3>6. CASE Comp1(p) BY <3>0, <3>6, Zenon DEF Comp1, Compensate, Retried, bankVars
    <3>7. CASE ~(\/ ReserveFunds(p) \/ DebitBuyer(p) \/ CreditSeller(p) \/ UndoDebit(p)
                 \/ Comp3(p) \/ Comp1(p))
      BY <2>1, <3>7
         DEF CallStep, CheckCompleted, LockContract, InsertSaga, LookupFails,
         ReserveShares, TakeShares, DropRow, GiveShares, UndoTake, VerifyHolding,
         CommitContract, LogStep, LogSuccess, LogCompleted, RecordExerciseTax, Comp4, Comp2,
         Compensate, Retried, EndCompensated, Fails, bankVars
    <3> QED BY <3>1, <3>2, <3>3, <3>4, <3>5, <3>6, <3>7
  <2>2. ASSUME NEW c \in Contracts, RecoveryStep(c)
        PROVE  \/ account' = account
               \/ \E m \in Int : \E n \in Nat : account' = Move(account, FoundAccount[c], m, n)
               \/ \E m, n \in Int : account' = Move(account, SellerAccount[c], m, n)
    <3>0. /\ Pay[c] \in Nat /\ Pay[c] \in Int /\ -Receive[c] \in Int /\ 0 \in Nat /\ 0 \in Int
      OBVIOUS
    <3>1. CASE RecoverStep(c)
      BY <3>0, <3>1, ZenonT(60) DEF RecoverStep, Recover, Retried, bankVars
    <3>2. CASE ~RecoverStep(c)
      BY <2>2, <3>2 DEF RecoveryStep, MarkCompensating, ReadLog, MarkCompensated, bankVars
    <3> QED BY <3>1, <3>2
  <2>3. CASE \/ \E p \in Calls : Disconnect(p)
             \/ \E c \in Contracts : SettlementPasses(c)
             \/ RecoverInFlightSagas \/ ExpireContracts
             \/ \E u \in Users : SellOnExchange(u)
             \/ Crash \/ UNCHANGED vars
    BY <2>3 DEF Disconnect, SettlementPasses, RecoverInFlightSagas, ExpireContracts,
       SellOnExchange, Crash, bankVars, vars
  <2>4. ASSUME NEW p \in Calls, CallStep(p)
        PROVE  \/ account' = account
               \/ \E c \in Contracts, m \in Int : \E n \in Nat :
                    \E a \in {PayingAccount[c], FoundAccount[c]} :
                      account' = Move(account, a, m, n)
               \/ \E c \in Contracts, m, n \in Int :
                    account' = Move(account, SellerAccount[c], m, n)
               \/ \E c \in Contracts : /\ account[PayingAccount[c]].available >= Pay[c]
                                       /\ account' = Move(account, PayingAccount[c], 0, -Pay[c])
    BY <2>1, <2>4, CallIsPair, Zenon
  <2>5. ASSUME NEW c \in Contracts, RecoveryStep(c)
        PROVE  \/ account' = account
               \/ \E d \in Contracts, m \in Int : \E n \in Nat :
                    \E a \in {PayingAccount[d], FoundAccount[d]} :
                      account' = Move(account, a, m, n)
               \/ \E d \in Contracts, m, n \in Int :
                    account' = Move(account, SellerAccount[d], m, n)
    BY <2>2, <2>5, ZenonT(60)
  <2> QED BY <2>3, <2>4, <2>5, Zenon DEF Next
<1>t. BankTypes /\ \A a \in Accounts : account[a].available \in Int
  BY TypeGroups DEF TypeOK
<1>2. CASE account' = account BY <1>2 DEF Solvent
<1>3. ASSUME NEW c \in Contracts, NEW m \in Int, NEW n \in Nat,
             NEW a \in {PayingAccount[c], FoundAccount[c]}, account' = Move(account, a, m, n)
      PROVE  Solvent'
  <2> SUFFICES ASSUME NEW d \in Contracts PROVE account'[PayingAccount[d]].available >= 0
    BY DEF Solvent
  <2>1. a \in Accounts /\ PayingAccount[d] \in Accounts /\ n \in Int OBVIOUS
  <2>2. account'[PayingAccount[d]].available
          = account[PayingAccount[d]].available + (IF PayingAccount[d] = a THEN n ELSE 0)
    BY <1>3, <1>t, <2>1, MoveDoes
  <2>3. account[PayingAccount[d]].available >= 0 BY DEF Solvent
  <2> QED BY <1>t, <2>1, <2>2, <2>3
<1>4. ASSUME NEW c \in Contracts, NEW m \in Int, NEW n \in Int,
             account' = Move(account, SellerAccount[c], m, n)
      PROVE  Solvent'
  <2> SUFFICES ASSUME NEW d \in Contracts PROVE account'[PayingAccount[d]].available >= 0
    BY DEF Solvent
  <2>1. /\ SellerAccount[c] \in Accounts /\ PayingAccount[d] \in Accounts
        /\ PayingAccount[d] # SellerAccount[c]
    BY DEF AccountRoles
  <2>2. account'[PayingAccount[d]].available = account[PayingAccount[d]].available + 0
    BY <1>4, <1>t, <2>1, MoveDoes
  <2>3. account[PayingAccount[d]].available >= 0 BY DEF Solvent
  <2> QED BY <1>t, <2>1, <2>2, <2>3
<1>5. ASSUME NEW c \in Contracts, account[PayingAccount[c]].available >= Pay[c],
             account' = Move(account, PayingAccount[c], 0, -Pay[c])
      PROVE  Solvent'
  <2> SUFFICES ASSUME NEW d \in Contracts PROVE account'[PayingAccount[d]].available >= 0
    BY DEF Solvent
  <2>1. /\ PayingAccount[c] \in Accounts /\ PayingAccount[d] \in Accounts
        /\ -Pay[c] \in Int /\ Pay[c] \in Int /\ 0 \in Int
    OBVIOUS
  <2>2. account'[PayingAccount[d]].available
          = account[PayingAccount[d]].available
            + (IF PayingAccount[d] = PayingAccount[c] THEN -Pay[c] ELSE 0)
    BY <1>5, <1>t, <2>1, MoveDoes
  <2>3. account[PayingAccount[d]].available >= 0 BY DEF Solvent
  <2> QED BY <1>5, <1>t, <2>1, <2>2, <2>3
<1> QED BY <1>1, <1>2, <1>3, <1>4, <1>5

(* What the tables show without the calls under way is what the contracts  *)
(* exercised so far make of the first balances and holdings.               *)
SettledBalance == [a \in Accounts |->
  InitBalance[a] - Exercised(PayingAccount, a, Pay) + Exercised(SellerAccount, a, Receive)]
SettledHolding == [u \in Users |->
  InitShares[u] - Exercised(Seller, u, Amount) + Exercised(Buyer, u, Amount)]

Shown ==
  /\ EffectiveBalance = SettledBalance /\ EffectiveAvailable = SettledBalance
  /\ EffectiveHolding = SettledHolding /\ EffectiveReserved = [u \in Users |-> 0]

LEMMA BooksShow == Books => Shown
<1> SUFFICES ASSUME Books PROVE Shown
  OBVIOUS
<1>1. /\ \A a \in Accounts : /\ EffectiveBalance[a] = SettledBalance[a]
                             /\ EffectiveAvailable[a] = SettledBalance[a]
      /\ \A u \in Users : /\ EffectiveHolding[u] = SettledHolding[u]
                          /\ EffectiveReserved[u] = 0
  BY DEF Books, SettledBalance, SettledHolding
<1>2. /\ EffectiveBalance = [a \in Accounts |-> EffectiveBalance[a]]
      /\ EffectiveAvailable = [a \in Accounts |-> EffectiveAvailable[a]]
      /\ EffectiveHolding = [u \in Users |-> EffectiveHolding[u]]
      /\ EffectiveReserved = [u \in Users |-> EffectiveReserved[u]]
  BY DEF EffectiveBalance, EffectiveAvailable, EffectiveHolding, EffectiveReserved
<1>3. /\ SettledBalance = [a \in Accounts |-> SettledBalance[a]]
      /\ SettledHolding = [u \in Users |-> SettledHolding[u]]
  BY DEF SettledBalance, SettledHolding
<1>4. EffectiveBalance = SettledBalance BY <1>1, <1>2, <1>3
<1>5. EffectiveAvailable = SettledBalance BY <1>1, <1>2, <1>3
<1>6. EffectiveHolding = SettledHolding BY <1>1, <1>2, <1>3
<1>7. EffectiveReserved = [u \in Users |-> 0] BY <1>1, <1>2
<1> QED BY <1>4, <1>5, <1>6, <1>7 DEF Shown

LEMMA BooksShowNext == Books' => Shown'
<1>1. Books => Shown BY BooksShow
<1> QED BY <1>1, PTL

LEMMA SettledTypes ==
  /\ SettledBalance \in [Accounts -> Int] /\ SettledHolding \in [Users -> Int]
<1>1. /\ \A a \in Accounts : /\ Exercised(PayingAccount, a, Pay) \in Nat
                             /\ Exercised(SellerAccount, a, Receive) \in Nat
                             /\ InitBalance[a] \in Nat
      /\ \A u \in Users : /\ Exercised(Seller, u, Amount) \in Nat
                          /\ Exercised(Buyer, u, Amount) \in Nat
                          /\ InitShares[u] \in Nat
  BY ExercisedNat
<1> QED BY <1>1 DEF SettledBalance, SettledHolding

LEMMA SettledKept ==
  ASSUME Shown, Shown', SameContracts
  PROVE  UNCHANGED <<EffectiveBalance, EffectiveAvailable, EffectiveHolding, EffectiveReserved>>
<1>1. \A where, x, weight : Exercised(where, x, weight)' = Exercised(where, x, weight)
  BY ExercisedKept DEF SameContracts
<1>2. SettledBalance' = SettledBalance BY <1>1 DEF SettledBalance
<1>3. SettledHolding' = SettledHolding BY <1>1 DEF SettledHolding
<1> QED BY <1>2, <1>3 DEF Shown

(* The commit of one contract is the transfer its exercise promises.       *)
LEMMA SettledTransfers ==
  ASSUME OneSided, AccountRoles, NEW c \in Contracts,
         contract[c] # "EXERCISED", contract'[c] = "EXERCISED",
         \A d \in Contracts \ {c} : contract'[d] = contract[d]
  PROVE  /\ SettledBalance' = Abstract!Transfer(SettledBalance, PayingAccount[c], Pay[c],
                                                SellerAccount[c], Receive[c])
         /\ SettledHolding' = Abstract!Transfer(SettledHolding, Seller[c], Amount[c],
                                                Buyer[c], Amount[c])
<1>0. /\ PayingAccount[c] \in Accounts /\ SellerAccount[c] \in Accounts
      /\ PayingAccount[c] # SellerAccount[c]
      /\ Seller[c] \in Users /\ Buyer[c] \in Users /\ Seller[c] # Buyer[c]
      /\ Pay[c] \in Int /\ Receive[c] \in Int /\ Amount[c] \in Int
  BY DEF OneSided, AccountRoles
<1>1. \A where, x : \A weight \in [Contracts -> Nat] :
        Exercised(where, x, weight)'
          = Exercised(where, x, weight) + IF where[c] = x THEN weight[c] ELSE 0
  BY ExercisedGrows
<1>2. SettledBalance \in [Accounts -> Int] /\ SettledHolding \in [Users -> Int]
  BY SettledTypes
<1>3. ASSUME NEW a \in Accounts
      PROVE  SettledBalance'[a] = SettledBalance[a]
               - (IF a = PayingAccount[c] THEN Pay[c] ELSE 0)
               + (IF a = SellerAccount[c] THEN Receive[c] ELSE 0)
  <2>1. /\ Exercised(PayingAccount, a, Pay) \in Nat
        /\ Exercised(SellerAccount, a, Receive) \in Nat /\ InitBalance[a] \in Nat
    BY ExercisedNat
  <2>2. /\ Exercised(PayingAccount, a, Pay)' = Exercised(PayingAccount, a, Pay)
             + IF PayingAccount[c] = a THEN Pay[c] ELSE 0
        /\ Exercised(SellerAccount, a, Receive)' = Exercised(SellerAccount, a, Receive)
             + IF SellerAccount[c] = a THEN Receive[c] ELSE 0
    BY <1>1
  <2>3. /\ SettledBalance'[a] = InitBalance[a] - Exercised(PayingAccount, a, Pay)'
                                  + Exercised(SellerAccount, a, Receive)'
        /\ SettledBalance[a] = InitBalance[a] - Exercised(PayingAccount, a, Pay)
                                 + Exercised(SellerAccount, a, Receive)
    BY DEF SettledBalance
  <2> QED BY <1>0, <2>1, <2>2, <2>3
<1>4. ASSUME NEW u \in Users
      PROVE  SettledHolding'[u] = SettledHolding[u]
               - (IF u = Seller[c] THEN Amount[c] ELSE 0)
               + (IF u = Buyer[c] THEN Amount[c] ELSE 0)
  <2>1. /\ Exercised(Seller, u, Amount) \in Nat
        /\ Exercised(Buyer, u, Amount) \in Nat /\ InitShares[u] \in Nat
    BY ExercisedNat
  <2>2. /\ Exercised(Seller, u, Amount)' = Exercised(Seller, u, Amount)
             + IF Seller[c] = u THEN Amount[c] ELSE 0
        /\ Exercised(Buyer, u, Amount)' = Exercised(Buyer, u, Amount)
             + IF Buyer[c] = u THEN Amount[c] ELSE 0
    BY <1>1
  <2>3. /\ SettledHolding'[u] = InitShares[u] - Exercised(Seller, u, Amount)'
                                  + Exercised(Buyer, u, Amount)'
        /\ SettledHolding[u] = InitShares[u] - Exercised(Seller, u, Amount)
                                 + Exercised(Buyer, u, Amount)
    BY DEF SettledHolding
  <2> QED BY <1>0, <2>1, <2>2, <2>3
<1>5. SettledBalance' = Abstract!Transfer(SettledBalance, PayingAccount[c], Pay[c],
                                          SellerAccount[c], Receive[c])
  <2> DEFINE t == Abstract!Transfer(SettledBalance, PayingAccount[c], Pay[c],
                                    SellerAccount[c], Receive[c])
  <2>1. t \in [Accounts -> Int] BY <1>0, <1>2 DEF Abstract!Transfer
  <2>2. \A a \in Accounts : t[a] = SettledBalance[a]
               - (IF a = PayingAccount[c] THEN Pay[c] ELSE 0)
               + (IF a = SellerAccount[c] THEN Receive[c] ELSE 0)
    BY <1>0, <1>2 DEF Abstract!Transfer
  <2>3. SettledBalance' = [a \in Accounts |-> SettledBalance'[a]] BY DEF SettledBalance
  <2> HIDE DEF t
  <2>4. t = [a \in Accounts |-> t[a]] BY <2>1
  <2>5. \A a \in Accounts : SettledBalance'[a] = t[a] BY <1>3, <2>2
  <2>6. SettledBalance' = t BY <2>3, <2>4, <2>5
  <2> QED BY <2>6 DEF t
<1>6. SettledHolding' = Abstract!Transfer(SettledHolding, Seller[c], Amount[c],
                                          Buyer[c], Amount[c])
  <2> DEFINE t == Abstract!Transfer(SettledHolding, Seller[c], Amount[c], Buyer[c], Amount[c])
  <2>1. t \in [Users -> Int] BY <1>0, <1>2 DEF Abstract!Transfer
  <2>2. \A u \in Users : t[u] = SettledHolding[u]
               - (IF u = Seller[c] THEN Amount[c] ELSE 0)
               + (IF u = Buyer[c] THEN Amount[c] ELSE 0)
    BY <1>0, <1>2 DEF Abstract!Transfer
  <2>3. SettledHolding' = [u \in Users |-> SettledHolding'[u]] BY DEF SettledHolding
  <2> HIDE DEF t
  <2>4. t = [u \in Users |-> t[u]] BY <2>1
  <2>5. \A u \in Users : SettledHolding'[u] = t[u] BY <1>4, <2>2
  <2>6. SettledHolding' = t BY <2>3, <2>4, <2>5
  <2> QED BY <2>6 DEF t
<1> QED BY <1>5, <1>6

(* Only expiry and the commit of one contract change the contracts.        *)
LEMMA ContractsChange ==
  ASSUME TypeOK, LockProtects, Undoable, [Next]_vars
  PROVE  \/ contract' = contract
         \/ ExpireContracts
         \/ \E p \in Calls : /\ CallStep(p) /\ At(p, "commit", "log5")
                             /\ contract[p[1]] = "ACTIVE"
                             /\ contract' = [contract EXCEPT ![p[1]] = "EXERCISED"]
<1>1. ASSUME NEW p \in Calls, CallStep(p)
      PROVE  \/ contract' = contract
             \/ /\ At(p, "commit", "log5") /\ contract[p[1]] = "ACTIVE"
                /\ contract' = [contract EXCEPT ![p[1]] = "EXERCISED"]
  <2>1. CASE CommitContract(p)
    <3>1. CASE Fails(p, "commit", "c4seller") BY <3>1 DEF Fails
    <3>2. CASE ~Fails(p, "commit", "c4seller")
      <4>1. /\ At(p, "commit", "log5") /\ Holds(p)
            /\ contract' = [contract EXCEPT ![p[1]] = "EXERCISED"]
        BY <2>1, <3>2 DEF CommitContract, Statement, Undoable
      <4>2. pc[p] = "commit" BY <4>1 DEF At
      <4>3. contract[p[1]] = "ACTIVE"
        BY <4>1, <4>2 DEF LockProtects, LockedIsActive, Forward
      <4> QED BY <4>1, <4>3
    <3> QED BY <3>1, <3>2
  <2>2. CASE ~CommitContract(p) BY <1>1, <2>2, CallTouches
  <2> QED BY <2>1, <2>2
<1>2. ASSUME NEW c \in Contracts, RecoveryStep(c) PROVE contract' = contract
  BY <1>2 DEF RecoveryStep, MarkCompensating, ReadLog, RecoverStep, Recover, MarkCompensated,
     otcVars
<1>3. CASE \/ \E p \in Calls : Disconnect(p)
           \/ \E c \in Contracts : SettlementPasses(c)
           \/ RecoverInFlightSagas
           \/ \E u \in Users : SellOnExchange(u)
           \/ Crash \/ UNCHANGED vars
  BY <1>3 DEF Disconnect, SettlementPasses, RecoverInFlightSagas, SellOnExchange, Crash,
     otcVars, vars
<1> QED BY <1>1, <1>2, <1>3, Zenon DEF Next

(* When a call commits, what its exercise takes is there, whatever other   *)
(* exercises may yet take back.                                            *)
LEMMA CommitIsCovered ==
  ASSUME TypeOK, BooksInv, Solvent, OneSided, AccountRoles, NEW p \in Calls,
         Stage(p) = "commit"
  PROVE  /\ EffectiveAvailable[PayingAccount[p[1]]] >= Pay[p[1]]
         /\ EffectiveHolding[Seller[p[1]]] >= Amount[p[1]]
<1> DEFINE c == p[1]
           a == PayingAccount[c]
           u == Seller[c]
<1>0. /\ c \in Contracts /\ a \in Accounts /\ u \in Users
      /\ Pay[c] \in Nat /\ Amount[c] \in Nat
      /\ account[a].available \in Int /\ shares[u].amount \in Int /\ shares[u].reserved \in Int
  BY CallIsPair DEF TypeOK
<1>1. /\ InFlight(SellerCredited, SellerAccount, a, Receive) = 0
      /\ InFlight(SharesGiven, Buyer, u, Amount) = 0
  BY <1>0, NothingInFlight, CallIsPair DEF AccountRoles, OneSided
<1>2. /\ Pay[c] =< InFlight(FundsReserved, PayingAccount, PayingAccount[c], Pay)
      /\ Amount[c] =< InFlight(SharesTaken, Seller, Seller[c], Amount)
  <2>1. Stage(p) \in FundsReserved /\ Stage(p) \in SharesTaken BY WhatLabelsStandFor
  <2> QED BY <2>1, OwnShare
<1>3. /\ InFlight(FundsReserved, PayingAccount, a, Pay) \in Nat
      /\ InFlight(SharesTaken, Seller, u, Amount) \in Nat
  BY InFlightNat
<1>4. account[a].available >= 0 BY <1>0 DEF Solvent
<1>5. shares[u].amount >= 0 BY <1>0, SellerHas, TypeGroups DEF BooksInv
<1>6. /\ EffectiveAvailable[a] = account[a].available
           + InFlight(FundsReserved, PayingAccount, a, Pay) - 0
      /\ EffectiveHolding[u] = shares[u].amount + InFlight(SharesTaken, Seller, u, Amount) - 0
  BY <1>0, <1>1 DEF EffectiveAvailable, EffectiveHolding
<1>7. EffectiveAvailable[a] >= Pay[c] BY <1>0, <1>2, <1>3, <1>4, <1>6
<1>8. EffectiveHolding[u] >= Amount[c] BY <1>0, <1>2, <1>3, <1>5, <1>6
<1> QED BY <1>7, <1>8

LEMMA ExerciseStep ==
  ASSUME Undoable, OneSided, Recoverable, AccountRoles, TypeOK, LockProtects, BooksInv,
         BooksInv', Solvent, [Next]_vars
  PROVE  [Abstract!ANext]_(Abstract!avars)
<1>s. Shown /\ Shown' BY BooksShow, BooksShowNext DEF BooksInv
<1>1. CASE contract' = contract
  <2>1. SameContracts BY <1>1 DEF SameContracts
  <2>2. UNCHANGED <<EffectiveBalance, EffectiveAvailable, EffectiveHolding, EffectiveReserved>>
    BY <1>s, <2>1, SettledKept
  <2> QED BY <1>1, <2>2 DEF Abstract!avars
<1>2. CASE ExpireContracts
  <2> DEFINE stale == {c \in due : contract[c] = "ACTIVE"}
  <2>1. contract' = [c \in Contracts |-> IF c \in stale THEN "EXPIRED" ELSE contract[c]]
    BY <1>2 DEF ExpireContracts
  <2>2. \A c \in Contracts : contract'[c] = IF c \in stale THEN "EXPIRED" ELSE contract[c]
    BY <2>1, Zenon
  <2>3. SameContracts BY <2>2 DEF SameContracts
  <2>4. UNCHANGED <<EffectiveBalance, EffectiveAvailable, EffectiveHolding, EffectiveReserved>>
    BY <1>s, <2>3, SettledKept
  <2>5. stale \in SUBSET {c \in Contracts : contract[c] = "ACTIVE"} BY DEF TypeOK
  <2> HIDE DEF stale
  <2>6. Abstract!Expire BY <2>1, <2>4, <2>5, Zenon DEF Abstract!Expire
  <2> QED BY <2>6 DEF Abstract!ANext
<1>3. ASSUME NEW p \in Calls, CallStep(p), At(p, "commit", "log5"),
             contract[p[1]] = "ACTIVE", contract' = [contract EXCEPT ![p[1]] = "EXERCISED"]
      PROVE  Abstract!ANext
  <2> DEFINE c == p[1]
  <2>0. c \in Contracts BY CallIsPair
  <2>1. Stage(p) = "commit" BY <1>3, PositionsNow DEF BooksInv
  <2>2. /\ EffectiveAvailable[PayingAccount[c]] >= Pay[c]
        /\ EffectiveHolding[Seller[c]] >= Amount[c]
    BY <2>1, CommitIsCovered
  <2>3. /\ contract[c] # "EXERCISED" /\ contract'[c] = "EXERCISED"
        /\ \A d \in Contracts \ {c} : contract'[d] = contract[d]
    BY <1>3, <2>0 DEF TypeOK
  <2>4. /\ SettledBalance' = Abstract!Transfer(SettledBalance, PayingAccount[c], Pay[c],
                                               SellerAccount[c], Receive[c])
        /\ SettledHolding' = Abstract!Transfer(SettledHolding, Seller[c], Amount[c],
                                               Buyer[c], Amount[c])
    BY <2>0, <2>3, SettledTransfers
  <2>5. /\ EffectiveBalance' = Abstract!Transfer(EffectiveBalance, PayingAccount[c], Pay[c],
                                                 SellerAccount[c], Receive[c])
        /\ EffectiveAvailable' = Abstract!Transfer(EffectiveAvailable, PayingAccount[c], Pay[c],
                                                   SellerAccount[c], Receive[c])
        /\ EffectiveHolding' = Abstract!Transfer(EffectiveHolding, Seller[c], Amount[c],
                                                 Buyer[c], Amount[c])
        /\ EffectiveReserved' = EffectiveReserved
    BY <1>s, <2>4 DEF Shown
  <2>6. Abstract!Exercise(c) BY <1>3, <2>2, <2>5 DEF Abstract!Exercise
  <2> QED BY <2>0, <2>6 DEF Abstract!ANext
<1> QED BY <1>1, <1>2, <1>3, ContractsChange

LEMMA ExerciseInit == Init => Abstract!AInit
<1> SUFFICES ASSUME Init PROVE Abstract!AInit
  OBVIOUS
<1>1. Shown BY InitBooks, BooksShow DEF BooksInv
<1>2. \A c \in Contracts : contract[c] # "EXERCISED" BY DEF Init
<1>3. \A where, x, weight : Exercised(where, x, weight) = 0 BY <1>2, NothingExercised
<1>4. SettledBalance = InitBalance
  <2>1. \A a \in Accounts : SettledBalance[a] = InitBalance[a] BY <1>3 DEF SettledBalance
  <2>2. /\ SettledBalance = [a \in Accounts |-> SettledBalance[a]]
        /\ InitBalance = [a \in Accounts |-> InitBalance[a]]
    BY DEF SettledBalance
  <2> QED BY <2>1, <2>2
<1>5. SettledHolding = InitShares
  <2>1. \A u \in Users : SettledHolding[u] = InitShares[u] BY <1>3 DEF SettledHolding
  <2>2. /\ SettledHolding = [u \in Users |-> SettledHolding[u]]
        /\ InitShares = [u \in Users |-> InitShares[u]]
    BY DEF SettledHolding
  <2> QED BY <2>1, <2>2
<1>6. contract = [c \in Contracts |-> "ACTIVE"] BY DEF Init
<1> QED BY <1>1, <1>4, <1>5, <1>6 DEF Abstract!AInit, Shown

LEMMA InitSolvent == Init => Solvent
<1> SUFFICES ASSUME Init, NEW c \in Contracts PROVE account[PayingAccount[c]].available >= 0
  BY DEF Solvent
<1>1. PayingAccount[c] \in Accounts OBVIOUS
<1>2. account[PayingAccount[c]].available = InitBalance[PayingAccount[c]]
  BY <1>1 DEF Init
<1>3. InitBalance[PayingAccount[c]] \in Nat BY <1>1
<1> QED BY <1>2, <1>3

(* The SAGA, its compensators and its recovery implement the indivisible   *)
(* exchange of OptionExercise.                                             *)
THEOREM ExerciseRefines ==
  ASSUME Undoable, OneSided, Recoverable, AccountRoles
  PROVE  Spec /\ [](ScanFirst /\ RowFound) => ExerciseIsAtomic
<1>1. Spec => []Solvent
  <2>1. TypeOK /\ Solvent /\ [Next]_vars => Solvent' BY SolventKept
  <2> QED BY <2>1, InitSolvent, TypeCorrect, PTL DEF Spec
<1>2. TypeOK /\ LockProtects /\ BooksInv /\ BooksInv' /\ Solvent /\ [Next]_vars
        => [Abstract!ANext]_(Abstract!avars)
  BY ExerciseStep
<1> QED
  BY <1>1, <1>2, ExerciseInit, BooksAlways, TypeCorrect, LockProtectsAlways, PTL
     DEF Spec, ExerciseIsAtomic, Abstract!ASpec
=============================================================================
