----------------------------- MODULE OrderProofs -----------------------------
(***************************************************************************)
(* Proofs about OrderExecution and OrderLedger, for every set of orders,   *)
(* every request, every bound and every pattern of errors, crashes and     *)
(* overlapping polls.                                                      *)
(***************************************************************************)
EXTENDS OrderLedger, SumTheorems

(* The labels at which a fill has been chosen, and at which it is recorded *)
(* but not yet taken off the goroutine's count.                            *)
Filling == {"settle", "bank", "commission", "portion", "holding", "sweep", "remaining"}
Entered == {"holding", "sweep", "remaining"}

(* A fill is at least a unit and at most what the goroutine has left.      *)
FillFits ==
  \A o \in Orders :
    /\ exec[o].qty <= exec[o].remaining
    /\ exec[o].pc \in Filling => exec[o].qty > 0

TypeInv == TypeOK /\ FillFits

Row == [status : Statuses \cup {None}, done : BOOLEAN, remaining : Nat, commission : Nat]
DecisionType == [Deciders \X Orders -> {"idle", "approve", "decline", "deduct", "end"}]

(* What an order asks for is well-formed and never changes. *)
LEMMA AskedType ==
  ASSUME TypeOK, NEW o \in Orders
  PROVE  /\ asked[o] \in Request
         /\ asked[o].fee <= asked[o].price
         /\ asked[o].owner \in Owners /\ asked[o].account \in Accounts
         /\ asked[o].quantity \in Nat \ {0} /\ asked[o].price \in Nat
         /\ asked[o].fee \in Nat /\ asked[o].total \in Nat
         /\ asked[o].rate \in Nat /\ asked[o].aon \in BOOLEAN
  BY RequestsAssumption DEF TypeOK, Request

(* The initial state has the types and no fill. *)
LEMMA InitTypeInv == Init => TypeInv
  BY AmountsAssumption DEF Init, TypeInv, TypeOK, FillFits, NotFetched,
     Statuses, Labels, Filling

LEMMA CreateTypeInv ==
  ASSUME TypeInv, NEW o \in Orders, Create(o)
  PROVE  TypeInv'
<1>0. /\ Charge(o) \in Nat /\ asked[o].quantity \in Nat
  BY AskedType DEF Charge, TypeInv
<1>1. CASE CheckOrder(o)
  BY <1>1 DEF CheckOrder, TypeInv, TypeOK, FillFits, rowVars, moneyVars, envVars
<1>2. CASE DetermineInitialStatus(o)
  <2>1. create' \in [Orders -> {"idle", "checked", "APPROVED", "PENDING",
                               "asSupervisor", "deduct", "end"}]
    BY <1>2, SMTT(30) DEF DetermineInitialStatus, TypeInv, TypeOK
  <2>2. refusals' \in Nat
    BY <1>2 DEF DetermineInitialStatus, Succeeds, Refused, TypeInv, TypeOK
  <2> QED BY <1>2, <2>1, <2>2 DEF DetermineInitialStatus, TypeInv, TypeOK,
          FillFits, rowVars, moneyVars
<1>3. CASE InsertOrder(o)
  <2>1. order' \in [Orders -> Row]
    <3>1. order \in [Orders -> Row]
      BY DEF TypeInv, TypeOK, Row
    <3>2. CASE order' = order
      BY <3>1, <3>2
    <3>3. CASE order' = [order EXCEPT
             ![o] = [@ EXCEPT
               !.status = IF create[o] = "PENDING" THEN "PENDING" ELSE "APPROVED",
               !.remaining = asked[o].quantity]]
      BY <1>0, <3>1, <3>3, ZenonT(60) DEF Row, Statuses
    <3> QED BY <1>3, <3>2, <3>3 DEF InsertOrder
  <2>2. refusals' \in Nat
    BY <1>3 DEF InsertOrder, Succeeds, Refused, TypeInv, TypeOK
  <2>3. create' \in [Orders -> {"idle", "checked", "APPROVED", "PENDING",
                               "asSupervisor", "deduct", "end"}]
    BY <1>3, SMTT(30) DEF InsertOrder, TypeInv, TypeOK
  <2> QED BY <1>3, <2>1, <2>2, <2>3 DEF InsertOrder, TypeInv, TypeOK, FillFits,
          moneyVars, Row
<1>4. CASE DeductActuaryUsedLimit(o)
  <2>1. create' \in [Orders -> {"idle", "checked", "APPROVED", "PENDING",
                               "asSupervisor", "deduct", "end"}]
    BY <1>4 DEF DeductActuaryUsedLimit, TypeInv, TypeOK
  <2>2. used' \in [Agents -> Nat]
    BY <1>0, <1>4 DEF DeductActuaryUsedLimit, AddUsedLimit, TypeInv, TypeOK
  <2>3. refusals' \in Nat
    BY <1>4 DEF DeductActuaryUsedLimit, Succeeds, Refused, TypeInv, TypeOK
  <2> QED BY <1>4, <2>1, <2>2, <2>3 DEF DeductActuaryUsedLimit, TypeInv, TypeOK,
          FillFits, rowVars
<1> QED BY <1>1, <1>2, <1>3, <1>4 DEF Create

LEMMA DecideTypeInv ==
  ASSUME TypeInv, NEW d \in Deciders, NEW o \in Orders, Decide(d, o)
  PROVE  TypeInv'
<1>0. asked[o].total \in Nat
  BY AskedType DEF TypeInv
<1>1. CASE ReadPending(d, o, "approve") \/ ReadPending(d, o, "decline")
  BY <1>1 DEF ReadPending, TypeInv, TypeOK, FillFits, rowVars, moneyVars, envVars
<1>2. CASE ApproveOrder(d, o)
  <2>1. order' \in [Orders -> Row]
    <3>1. order \in [Orders -> Row]
      BY DEF TypeInv, TypeOK, Row
    <3>2. CASE order' = order
      BY <3>1, <3>2
    <3>3. CASE order' = [order EXCEPT ![o].status = "APPROVED"]
      BY <3>1, <3>3 DEF Row, Statuses
    <3> QED BY <1>2, <3>2, <3>3 DEF ApproveOrder
  <2>2. refusals' \in Nat
    BY <1>2 DEF ApproveOrder, Succeeds, Refused, TypeInv, TypeOK
  <2>3. decision' \in DecisionType
    BY <1>2, ZenonT(60) DEF ApproveOrder, TypeInv, TypeOK, DecisionType
  <2> QED BY <1>2, <2>1, <2>2, <2>3 DEF ApproveOrder, TypeInv, TypeOK, FillFits,
          moneyVars, Row, DecisionType
<1>3. CASE DeductApproved(d, o)
  <2>1. used' \in [Agents -> Nat]
    BY <1>0, <1>3 DEF DeductApproved, AddUsedLimit, TypeInv, TypeOK
  <2>2. refusals' \in Nat
    BY <1>3 DEF DeductApproved, Succeeds, Refused, TypeInv, TypeOK
  <2>3. decision' \in DecisionType
    BY <1>3 DEF DeductApproved, TypeInv, TypeOK, DecisionType
  <2> QED BY <1>3, <2>1, <2>2, <2>3 DEF DeductApproved, TypeInv, TypeOK, FillFits,
          rowVars, DecisionType
<1>4. CASE DeclineOrder(d, o)
  <2>1. order' \in [Orders -> Row]
    <3>1. order \in [Orders -> Row]
      BY DEF TypeInv, TypeOK, Row
    <3>2. CASE order' = order
      BY <3>1, <3>2
    <3>3. CASE order' = [order EXCEPT ![o].status = "DECLINED"]
      BY <3>1, <3>3 DEF Row, Statuses
    <3> QED BY <1>4, <3>2, <3>3 DEF DeclineOrder
  <2>2. refusals' \in Nat
    BY <1>4 DEF DeclineOrder, Succeeds, Refused, TypeInv, TypeOK
  <2>3. decision' \in DecisionType
    BY <1>4 DEF DeclineOrder, Returned, TypeInv, TypeOK, DecisionType
  <2> QED BY <1>4, <2>1, <2>2, <2>3 DEF DeclineOrder, TypeInv, TypeOK, FillFits,
          moneyVars, Row, DecisionType
<1> QED BY <1>1, <1>2, <1>3, <1>4 DEF Decide

LEMMA CancelTypeInv ==
  ASSUME TypeInv, NEW o \in Orders, ReadCancellable(o) \/ CancelOrder(o)
  PROVE  TypeInv'
<1>1. CASE ReadCancellable(o)
  BY <1>1 DEF ReadCancellable, TypeInv, TypeOK, FillFits, rowVars, moneyVars, envVars
<1>2. CASE CancelOrder(o)
  <2>1. order' \in [Orders -> Row]
    <3>1. order \in [Orders -> Row]
      BY DEF TypeInv, TypeOK, Row
    <3>2. CASE order' = order
      BY <3>1, <3>2
    <3>3. CASE order' = [order EXCEPT ![o] = [@ EXCEPT !.done = TRUE, !.remaining = 0]]
      BY <3>1, <3>3 DEF Row, Statuses
    <3> QED BY <1>2, <3>2, <3>3 DEF CancelOrder
  <2>2. refusals' \in Nat
    BY <1>2 DEF CancelOrder, Succeeds, Refused, TypeInv, TypeOK
  <2>3. cancel' \in [Orders -> {"idle", "read", "cancelled"}]
    BY <1>2 DEF CancelOrder, TypeInv, TypeOK
  <2> QED BY <1>2, <2>1, <2>2, <2>3 DEF CancelOrder, TypeInv, TypeOK, FillFits,
          moneyVars, Row
<1> QED BY <1>1, <1>2

LEMMA ScheduleTypeInv ==
  ASSUME TypeInv, Poll \/ Crash \/ \E o \in Orders : StartExecution(o)
  PROVE  TypeInv'
<1>1. CASE Poll
  <2>1. batch' \in [Orders -> Nat \cup {NotFetched}] /\ overlaps' \in Nat
    BY <1>1 DEF Poll, TypeInv, TypeOK
  <2> QED BY <1>1, <2>1 DEF Poll, TypeInv, TypeOK, FillFits, rowVars, moneyVars, callVars
<1>2. CASE Crash
  <2>1. decision' \in [Deciders \X Orders -> {"idle", "approve", "decline", "deduct", "end"}]
    BY <1>2 DEF Crash, Returned
  <2> QED BY <1>2, <2>1 DEF Crash, TypeInv, TypeOK, FillFits, rowVars, moneyVars,
          Labels, Filling
<1>3. ASSUME NEW o \in Orders, StartExecution(o) PROVE TypeInv'
  BY <1>3 DEF StartExecution, TypeInv, TypeOK, FillFits, rowVars, moneyVars,
     callVars, envVars, Labels, Filling, NotFetched
<1> QED BY <1>1, <1>2, <1>3

Goroutine == [pc : Labels, remaining : Nat, qty : Nat]

(* The goroutine of one order moves on; the others, and what they have     *)
(* left, stay as they are.                                                 *)
LEMMA GoroutineMoves ==
  ASSUME TypeInv, NEW o \in Orders, NEW e \in Goroutine,
         exec' = [exec EXCEPT ![o] = e],
         e.qty <= e.remaining, e.pc \in Filling => e.qty > 0
  PROVE  exec' \in [Orders -> Goroutine] /\ FillFits'
  BY DEF TypeInv, TypeOK, FillFits, Goroutine

LEMMA GoroutineGoes ==
  ASSUME TypeInv, NEW o \in Orders, NEW l \in Labels, GoTo(o, l),
         l \in Filling => exec[o].qty > 0
  PROVE  exec' \in [Orders -> Goroutine] /\ FillFits'
<1>1. exec[o] \in Goroutine /\ exec[o].qty <= exec[o].remaining
  BY DEF TypeInv, TypeOK, FillFits, Goroutine
<1>2. [exec[o] EXCEPT !.pc = l] \in Goroutine
  BY <1>1 DEF Goroutine
<1>3. exec' = [exec EXCEPT ![o] = [exec[o] EXCEPT !.pc = l]]
  BY DEF GoTo
<1>4. /\ [exec[o] EXCEPT !.pc = l].qty = exec[o].qty
      /\ [exec[o] EXCEPT !.pc = l].remaining = exec[o].remaining
      /\ [exec[o] EXCEPT !.pc = l].pc = l
  BY <1>1 DEF Goroutine
<1> QED BY <1>1, <1>2, <1>3, <1>4, GoroutineMoves

LEMMA GoroutineReturns ==
  ASSUME TypeInv, NEW o \in Orders, Return(o)
  PROVE  exec' \in [Orders -> Goroutine] /\ FillFits'
<1> DEFINE e == [pc |-> "off", remaining |-> 0, qty |-> 0]
<1>1. e \in Goroutine /\ e.qty <= e.remaining /\ e.pc \notin Filling
  BY DEF Goroutine, Labels, Filling
<1>2. exec' = [exec EXCEPT ![o] = e]
  BY DEF Return
<1> QED BY <1>1, <1>2, GoroutineMoves

LEMMA RowWrites ==
  ASSUME TypeOK, NEW o \in Orders, NEW r \in Row,
         order' = [order EXCEPT ![o] = r]
  PROVE  order' \in [Orders -> Row]
  BY DEF TypeOK, Row

LEMMA ExecuteTypeInv ==
  ASSUME TypeInv, NEW o \in Orders, Execute(o)
  PROVE  TypeInv'
<1>0. /\ exec[o] \in Goroutine /\ exec[o].qty <= exec[o].remaining
      /\ exec[o].pc \in Filling => exec[o].qty > 0
      /\ order[o] \in Row /\ order \in [Orders -> Row]
      /\ exec \in [Orders -> Goroutine]
      /\ TypeOK /\ FillFits
  BY DEF TypeInv, TypeOK, FillFits, Goroutine, Row
<1>a. /\ asked[o].owner \in Owners /\ asked[o].account \in Accounts
      /\ asked[o].quantity \in Nat \ {0} /\ asked[o].price \in Nat
      /\ asked[o].fee \in Nat
  BY <1>0, AskedType
<1>b. exec[o].qty \in Nat /\ exec[o].remaining \in Nat
  BY <1>0 DEF Goroutine
<1>c. Value(o) \in Nat
  BY <1>a, <1>b DEF Value
<1>d. Cost(o) \in Nat /\ Proceeds(o) \in Int
  BY <1>a, <1>c DEF Cost, Proceeds
<1>1. CASE BeginExecution(o)
  <2>1. exec' \in [Orders -> Goroutine] /\ FillFits'
    BY <1>1, GoroutineGoes, GoroutineReturns DEF BeginExecution, Labels, Filling
  <2>2. refusals' \in Nat
    BY <1>0, <1>1 DEF BeginExecution, Succeeds, Refused, TypeOK
  <2> QED BY <1>0, <1>1, <2>1, <2>2 DEF BeginExecution, TypeInv, TypeOK, rowVars,
          moneyVars, callVars, Goroutine
<1>2. CASE ChooseFill(o)
  <2>1. PICK q \in FillQuantities(o) :
          exec' = [exec EXCEPT ![o] = [@ EXCEPT !.pc = "settle", !.qty = q]]
    BY <1>2 DEF ChooseFill
  <2>2. q \in Nat /\ 0 < q /\ q <= exec[o].remaining
    BY <2>1, <1>a, <1>b DEF FillQuantities
  <2>3. exec' \in [Orders -> Goroutine] /\ FillFits'
    BY <1>0, <1>b, <2>1, <2>2 DEF FillFits, Goroutine, Labels
  <2> QED BY <1>0, <1>2, <2>3 DEF ChooseFill, TypeInv, TypeOK, rowVars,
          moneyVars, callVars, envVars, Goroutine
<1>3. CASE SettleAccount(o)
  <2>1. exec' \in [Orders -> Goroutine] /\ FillFits'
    BY <1>0, <1>3, GoroutineGoes
       DEF SettleAccount, AfterSettlement, At, Labels, Filling
  <2>2. balance' \in [Accounts -> Int]
    <3>1. balance \in [Accounts -> Int]
      BY <1>0 DEF TypeOK
    <3> QED BY <1>3, <1>a, <1>d, <3>1 DEF SettleAccount
  <2>3. refusals' \in Nat
    BY <1>0, <1>3 DEF SettleAccount, Succeeds, Refused, TypeOK
  <2> QED BY <1>0, <1>3, <2>1, <2>2, <2>3 DEF SettleAccount, TypeInv, TypeOK,
          rowVars, callVars, Goroutine
<1>4. CASE CreditBank(o)
  <2>1. exec' \in [Orders -> Goroutine] /\ FillFits'
    BY <1>0, <1>4, GoroutineGoes DEF CreditBank, At, Labels, Filling
  <2>2. bank' \in Int /\ refusals' \in Nat
    BY <1>0, <1>a, <1>4 DEF CreditBank, Succeeds, Refused, TypeOK
  <2> QED BY <1>0, <1>4, <2>1, <2>2 DEF CreditBank, TypeInv, TypeOK, rowVars,
          callVars, Goroutine
<1>5. CASE AddCommissionPaid(o)
  <2>1. exec' \in [Orders -> Goroutine] /\ FillFits'
    BY <1>0, <1>5, GoroutineGoes DEF AddCommissionPaid, At, Labels, Filling
  <2>2. refusals' \in Nat
    BY <1>0, <1>5 DEF AddCommissionPaid, Succeeds, Refused, TypeOK
  <2>3. [order[o] EXCEPT !.commission = @ + asked[o].fee] \in Row
    BY <1>0, <1>a DEF Row
  <2>4. order' \in [Orders -> Row]
    BY <1>0, <1>5, <2>3, RowWrites DEF AddCommissionPaid
  <2> QED BY <1>0, <1>5, <2>1, <2>2, <2>4 DEF AddCommissionPaid, TypeInv, TypeOK,
          moneyVars, callVars, Goroutine, Row
<1>6. CASE InsertPortion(o)
  <2>1. exec' \in [Orders -> Goroutine] /\ FillFits'
    BY <1>0, <1>6, GoroutineGoes DEF InsertPortion, At, Labels, Filling
  <2>2. fills' \in [Orders -> [rows : Nat, qty : Nat]]
    BY <1>0, <1>b, <1>6, SMTT(30) DEF InsertPortion, TypeOK
  <2>3. refusals' \in Nat
    BY <1>0, <1>6 DEF InsertPortion, Succeeds, Refused, TypeOK
  <2> QED BY <1>0, <1>6, <2>1, <2>2, <2>3 DEF InsertPortion, TypeInv, TypeOK,
          moneyVars, callVars, Goroutine
<1>7. CASE UpdateHolding(o)
  <2>1. exec' \in [Orders -> Goroutine] /\ FillFits'
    BY <1>0, <1>7, GoroutineGoes DEF UpdateHolding, At, Labels, Filling
  <2>2. shares' \in [Owners -> Int] /\ held' \subseteq Owners
    <3> DEFINE u == asked[o].owner
               q == exec[o].qty
    <3>1. shares \in [Owners -> Int] /\ held \subseteq Owners
      BY <1>0 DEF TypeOK
    <3>2. u \in Owners /\ q \in Nat
      BY <1>a, <1>b
    <3>3. held' \in {held, held \cup {u}}
      BY <1>7 DEF UpdateHolding
    <3>4. \/ shares' = shares
          \/ shares' = [shares EXCEPT ![u] = shares[u] + q]
          \/ shares' = [shares EXCEPT ![u] = IF u \in held THEN shares[u] - q ELSE shares[u]]
      BY <1>7 DEF UpdateHolding
    <3> HIDE DEF u, q
    <3>5. shares[u] \in Int
      BY <3>1, <3>2
    <3> QED BY <3>1, <3>2, <3>3, <3>4, <3>5
  <2>3. refusals' \in Nat
    BY <1>0, <1>7 DEF UpdateHolding, Succeeds, Refused, TypeOK
  <2> QED BY <1>0, <1>7, <2>1, <2>2, <2>3 DEF UpdateHolding, TypeInv, TypeOK,
          rowVars, callVars, Goroutine
<1>8. CASE SweepHolding(o)
  <2>1. exec' \in [Orders -> Goroutine] /\ FillFits'
    BY <1>0, <1>8, GoroutineGoes DEF SweepHolding, At, Labels, Filling
  <2>2. shares' \in [Owners -> Int] /\ held' \subseteq Owners
    BY <1>0, <1>a, <1>8 DEF SweepHolding, TypeOK
  <2>3. refusals' \in Nat
    BY <1>0, <1>8 DEF SweepHolding, Succeeds, Refused, TypeOK
  <2> QED BY <1>0, <1>8, <2>1, <2>2, <2>3 DEF SweepHolding, TypeInv, TypeOK, rowVars,
          callVars, Goroutine
<1>9. CASE UpdateRemainingPortions(o)
  <2> DEFINE left == exec[o].remaining - exec[o].qty
             next == [pc |-> IF left = 0 THEN "done" ELSE "price",
                      remaining |-> left, qty |-> 0]
  <2>1. left \in Nat
    BY <1>0, <1>b
  <2>2. next \in Goroutine /\ next.qty <= next.remaining /\ next.pc \notin Filling
    BY <2>1 DEF Goroutine, Labels, Filling
  <2>3. exec' = [exec EXCEPT ![o] = next]
    BY <1>9 DEF UpdateRemainingPortions
  <2>4. exec' \in [Orders -> Goroutine] /\ FillFits'
    BY <2>2, <2>3, GoroutineMoves
  <2>5. [order[o] EXCEPT !.remaining = left] \in Row
    BY <1>0, <2>1 DEF Row
  <2>6. order' \in [Orders -> Row]
    BY <1>0, <1>9, <2>5, RowWrites DEF UpdateRemainingPortions
  <2>7. refusals' \in Nat
    BY <1>0, <1>9 DEF UpdateRemainingPortions, Succeeds, Refused, TypeOK
  <2> QED BY <1>0, <1>9, <2>4, <2>6, <2>7 DEF UpdateRemainingPortions, TypeInv,
          TypeOK, moneyVars, callVars, Goroutine, Row
<1>10. CASE SetOrderDone(o)
  <2>1. exec' \in [Orders -> Goroutine] /\ FillFits'
    BY <1>10, GoroutineReturns DEF SetOrderDone
  <2>2. [order[o] EXCEPT !.done = TRUE] \in Row
    BY <1>0 DEF Row
  <2>3. order' \in [Orders -> Row]
    BY <1>0, <1>10, <2>2, RowWrites DEF SetOrderDone
  <2>4. refusals' \in Nat
    BY <1>0, <1>10 DEF SetOrderDone, Succeeds, Refused, TypeOK
  <2> QED BY <1>0, <1>10, <2>1, <2>3, <2>4 DEF SetOrderDone, TypeInv, TypeOK,
          moneyVars, callVars, Goroutine, Row
<1>11. CASE DeclineUnsettled(o)
  <2>1. exec' \in [Orders -> Goroutine] /\ FillFits'
    BY <1>11, GoroutineReturns DEF DeclineUnsettled
  <2>2. [order[o] EXCEPT !.status = "DECLINED"] \in Row
    BY <1>0 DEF Row, Statuses
  <2>3. order' \in [Orders -> Row]
    BY <1>0, <1>11, <2>2, RowWrites DEF DeclineUnsettled
  <2>4. refusals' \in Nat
    BY <1>0, <1>11 DEF DeclineUnsettled, Succeeds, Refused, TypeOK
  <2> QED BY <1>0, <1>11, <2>1, <2>3, <2>4 DEF DeclineUnsettled, TypeInv, TypeOK,
          moneyVars, callVars, Goroutine, Row
<1> QED BY <1>1, <1>2, <1>3, <1>4, <1>5, <1>6, <1>7, <1>8, <1>9, <1>10, <1>11
        DEF Execute

LEMMA NextTypeInv == TypeInv /\ [Next]_vars => TypeInv'
<1> SUFFICES ASSUME TypeInv, [Next]_vars PROVE TypeInv'
  OBVIOUS
<1>1. ASSUME NEW o \in Orders, Create(o) PROVE TypeInv'
  BY <1>1, CreateTypeInv
<1>2. ASSUME NEW o \in Orders, NEW d \in Deciders, Decide(d, o) PROVE TypeInv'
  BY <1>2, DecideTypeInv
<1>3. ASSUME NEW o \in Orders, ReadCancellable(o) \/ CancelOrder(o) PROVE TypeInv'
  BY <1>3, CancelTypeInv
<1>4. ASSUME NEW o \in Orders, Execute(o) PROVE TypeInv'
  BY <1>4, ExecuteTypeInv
<1>5. CASE Poll \/ Crash \/ \E o \in Orders : StartExecution(o)
  BY <1>5, ScheduleTypeInv
<1>6. CASE UNCHANGED vars
  BY <1>6 DEF vars, rowVars, moneyVars, callVars, envVars, TypeInv, TypeOK, FillFits
<1> QED BY <1>1, <1>2, <1>3, <1>4, <1>5, <1>6 DEF Next

(* Type correctness: no copy of a count, in the row, in the batch or in a  *)
(* goroutine, ever goes below zero.                                        *)
THEOREM TypeCorrect == Spec => []TypeOK
<1>1. Init /\ [][Next]_vars => []TypeInv
  BY InitTypeInv, NextTypeInv, PTL
<1>2. TypeInv => TypeOK
  BY DEF TypeInv
<1> QED BY <1>1, <1>2, PTL DEF Spec
-----------------------------------------------------------------------------
(* What the portions of an order add up to: no unit of an order that is    *)
(* done was skipped, all-or-none orders are filled in one piece, no        *)
(* account is overdrawn.                                                   *)

(* What the statements write that set two columns of a row at once.       *)
LEMMA InsertWrites ==
  ASSUME order \in [Orders -> Row], NEW o \in Orders, InsertOrder(o), NEW p \in Orders
  PROVE  \/ order' = order
         \/ p # o /\ order'[p] = order[p]
         \/ /\ p = o /\ order'[p].status \in {"PENDING", "APPROVED"}
            /\ order'[p].remaining = asked[p].quantity
            /\ order'[p].done = order[p].done
<1> DEFINE status == IF create[o] = "PENDING" THEN "PENDING" ELSE "APPROVED"
           row == [order[o] EXCEPT !.status = status, !.remaining = asked[o].quantity]
<1>1. order' = order \/ order' = [order EXCEPT ![o] = row]
  BY DEF InsertOrder
<1>2. order[o] \in Row
  OBVIOUS
<1>3. /\ row.status = status /\ row.remaining = asked[o].quantity
      /\ row.done = order[o].done
  BY <1>2 DEF Row
<1>4. status \in {"PENDING", "APPROVED"}
  OBVIOUS
<1> HIDE DEF row, status
<1> QED BY <1>1, <1>3, <1>4

LEMMA CancelWrites ==
  ASSUME TypeOK, NEW o \in Orders, CancelOrder(o), NEW p \in Orders
  PROVE  \/ /\ order'[p] = order[p]
            /\ cancel'[p] = "cancelled" <=> cancel[p] = "cancelled"
         \/ /\ cancel'[p] = "cancelled"
            /\ order'[p].done /\ order'[p].remaining = 0
            /\ order'[p].status = order[p].status
<1> DEFINE row == [order[o] EXCEPT !.done = TRUE, !.remaining = 0]
<1>1. /\ cancel[o] = "read" /\ (p # o => cancel'[p] = cancel[p])
      /\ \/ order' = [order EXCEPT ![o] = row] /\ cancel'[o] = "cancelled"
         \/ order' = order /\ cancel'[o] = "idle"
  BY DEF CancelOrder, TypeOK
<1>2. order \in [Orders -> Row]
  BY DEF TypeOK, Row
<1>3. row.status = order[o].status /\ row.done /\ row.remaining = 0
  BY <1>2 DEF Row
<1> HIDE DEF row
<1>4. CASE p = o /\ order' = [order EXCEPT ![o] = row] /\ cancel'[o] = "cancelled"
  BY <1>2, <1>3, <1>4
<1>5. CASE p # o \/ (order' = order /\ cancel'[o] = "idle")
  BY <1>1, <1>2, <1>5
<1> QED BY <1>1, <1>4, <1>5

LEMMA ChooseWrites ==
  ASSUME exec \in [Orders -> Goroutine], NEW o \in Orders, ChooseFill(o), NEW p \in Orders
  PROVE  /\ exec[o].pc = "price" /\ exec'[o].pc = "settle"
         /\ exec'[o].qty \in FillQuantities(o)
         /\ exec'[o].remaining = exec[o].remaining
         /\ p # o => exec'[p] = exec[p]
         /\ UNCHANGED <<asked, order, fills, batch, cancel>>
<1> PICK q \in FillQuantities(o) :
      exec' = [exec EXCEPT ![o] = [@ EXCEPT !.pc = "settle", !.qty = q]]
  BY DEF ChooseFill
<1> DEFINE next == [exec[o] EXCEPT !.pc = "settle", !.qty = q]
<1>1. exec' = [exec EXCEPT ![o] = next]
  OBVIOUS
<1>2. next.pc = "settle" /\ next.qty = q /\ next.remaining = exec[o].remaining
  BY DEF Goroutine
<1> HIDE DEF next
<1>3. exec'[o] = next /\ (p # o => exec'[p] = exec[p])
  BY <1>1
<1> QED BY <1>2, <1>3 DEF ChooseFill, At, rowVars, callVars

(* Until its row is inserted nobody decides on an order, and until it is   *)
(* approved nobody executes it.                                            *)
BeforeApproval(o) ==
  /\ create[o] \in {"idle", "checked", "APPROVED", "PENDING", "asSupervisor"}
       => order[o].status = None
  /\ order[o].status = None =>
       \A d \in Deciders : decision[<<d, o>>] \in {"idle", "end"}
  /\ order[o].status \in {None, "PENDING"} =>
       batch[o] = NotFetched /\ exec[o].pc = "off" /\ fills[o].rows = 0

LifeInv == TypeInv /\ \A o \in Orders : BeforeApproval(o)

LEMMA InitLifeInv == Init => LifeInv
<1> SUFFICES ASSUME Init, NEW o \in Orders PROVE BeforeApproval(o)
  BY InitTypeInv DEF LifeInv
<1>1. /\ order[o].status = None /\ fills[o].rows = 0
      /\ batch[o] = NotFetched /\ exec[o].pc = "off"
  BY DEF Init
<1>2. \A d \in Deciders : decision[<<d, o>>] = "idle"
  BY DEF Init
<1> QED BY <1>1, <1>2 DEF BeforeApproval

LEMMA CallsLifeInv ==
  ASSUME LifeInv, NEW o \in Orders,
         \/ Create(o)
         \/ \E d \in Deciders : Decide(d, o)
         \/ ReadCancellable(o) \/ CancelOrder(o),
         NEW p \in Orders
  PROVE  BeforeApproval(p)'
<1>0. /\ BeforeApproval(p) /\ BeforeApproval(o) /\ TypeOK
      /\ order \in [Orders -> Row] /\ None \notin Statuses
      /\ decision \in DecisionType
  BY DEF LifeInv, TypeInv, TypeOK, Row, None, Statuses, DecisionType
<1>1. CASE CheckOrder(o) \/ DetermineInitialStatus(o) \/ DeductActuaryUsedLimit(o)
  BY <1>0, <1>1 DEF CheckOrder, DetermineInitialStatus, DeductActuaryUsedLimit,
     BeforeApproval, rowVars, TypeOK
<1>2. CASE InsertOrder(o)
  <2>1. CASE p # o
    BY <1>0, <1>2, <2>1 DEF InsertOrder, BeforeApproval, TypeOK
  <2>2. CASE p = o /\ order' = order
    BY <1>0, <1>2, <2>2 DEF InsertOrder, BeforeApproval, TypeOK
  <2>3. CASE p = o /\ order' # order
    <3>1. /\ order[o].status = None /\ create'[o] \in {"deduct", "end"}
          /\ order'[o].status # None
          /\ UNCHANGED <<fills, batch, exec>>
      BY <1>0, <1>2, <2>3, InsertWrites, ZenonT(60) DEF InsertOrder, BeforeApproval, TypeOK, None
    <3> QED BY <1>0, <2>3, <3>1 DEF BeforeApproval
  <2> QED BY <2>1, <2>2, <2>3
<1>3. ASSUME NEW d \in Deciders, Decide(d, o) PROVE BeforeApproval(p)'
  <2>1. /\ order[o].status # None
        /\ UNCHANGED <<fills, batch, exec, create>>
    BY <1>0, <1>3 DEF Decide, ReadPending, ApproveOrder, DeductApproved, DeclineOrder,
       BeforeApproval, rowVars, None
  <2>2. /\ p # o => order'[p] = order[p]
        /\ p = o => order'[p].status \in {order[p].status, "APPROVED", "DECLINED"}
    BY <1>0, <1>3 DEF Decide, ReadPending, ApproveOrder, DeductApproved, DeclineOrder,
       Row, rowVars
  <2>3. p # o => \A e \in Deciders : decision'[<<e, p>>] = decision[<<e, p>>]
    BY <1>0, <1>3 DEF Decide, ReadPending, ApproveOrder, DeductApproved, DeclineOrder,
       DecisionType
  <2> QED BY <1>0, <2>1, <2>2, <2>3 DEF BeforeApproval, None
<1>4. CASE ReadCancellable(o) \/ CancelOrder(o)
  <2>1. order'[p].status = order[p].status /\ UNCHANGED <<fills, batch, exec, create, decision>>
    BY <1>0, <1>4, CancelWrites DEF ReadCancellable, CancelOrder, rowVars
  <2> QED BY <1>0, <2>1 DEF BeforeApproval
<1> QED BY <1>1, <1>2, <1>3, <1>4 DEF Create

LEMMA ScheduleLifeInv ==
  ASSUME LifeInv, Poll \/ Crash \/ \E o \in Orders : StartExecution(o),
         NEW p \in Orders
  PROVE  BeforeApproval(p)'
<1>0. BeforeApproval(p) /\ TypeOK
  BY DEF LifeInv, TypeInv
<1>1. CASE Poll
  <2>1. /\ batch'[p] = NotFetched \/ Active(p)
        /\ UNCHANGED <<order, fills, create, decision, exec>>
    BY <1>1 DEF Poll, rowVars, callVars
  <2> QED BY <1>0, <2>1 DEF Active, BeforeApproval, None
<1>2. CASE Crash
  <2>1. /\ \A d \in Deciders : decision'[<<d, p>>] \in {"idle", "end"}
        /\ batch'[p] = NotFetched /\ exec'[p].pc = "off"
        /\ create'[p] \in {create[p], "end"} /\ UNCHANGED <<order, fills>>
    BY <1>2 DEF Crash, Returned, rowVars
  <2> QED BY <1>0, <2>1 DEF BeforeApproval
<1>3. ASSUME NEW o \in Orders, StartExecution(o) PROVE BeforeApproval(p)'
  BY <1>0, <1>3 DEF StartExecution, BeforeApproval, rowVars, callVars, TypeOK
<1> QED BY <1>1, <1>2, <1>3

LEMMA ExecuteLifeInv ==
  ASSUME LifeInv, NEW o \in Orders, Execute(o), NEW p \in Orders
  PROVE  BeforeApproval(p)'
<1>0. /\ BeforeApproval(p) /\ BeforeApproval(o) /\ TypeOK
      /\ order \in [Orders -> Row] /\ exec \in [Orders -> Goroutine]
      /\ fills \in [Orders -> [rows : Nat, qty : Nat]]
  BY DEF LifeInv, TypeInv, TypeOK, Row, Goroutine
<1>1. /\ exec[o].pc # "off" /\ UNCHANGED <<create, decision, batch>>
      /\ p # o => exec'[p] = exec[p] /\ fills'[p] = fills[p] /\ order'[p] = order[p]
      /\ order'[o].status \in {order[o].status, "DECLINED"}
  <2>1. CASE BeginExecution(o) \/ ChooseFill(o) \/ SettleAccount(o) \/ CreditBank(o)
    BY <1>0, <2>1 DEF BeginExecution, ChooseFill, SettleAccount, CreditBank, At, GoTo,
       Return, rowVars, callVars
  <2>2. CASE InsertPortion(o) \/ UpdateHolding(o) \/ SweepHolding(o)
    BY <1>0, <2>2 DEF InsertPortion, UpdateHolding, SweepHolding, At, GoTo, rowVars, callVars
  <2>3. CASE AddCommissionPaid(o) \/ UpdateRemainingPortions(o)
    BY <1>0, <2>3 DEF AddCommissionPaid, UpdateRemainingPortions, At, GoTo, callVars, Row
  <2>4. CASE SetOrderDone(o) \/ DeclineUnsettled(o)
    BY <1>0, <2>4 DEF SetOrderDone, DeclineUnsettled, At, Return, callVars, Row
  <2> QED BY <2>1, <2>2, <2>3, <2>4 DEF Execute
<1>2. order[o].status \notin {None, "PENDING"}
  BY <1>0, <1>1 DEF BeforeApproval
<1>3. order'[o].status \notin {None, "PENDING"}
  BY <1>1, <1>2 DEF None
<1> QED BY <1>0, <1>1, <1>2, <1>3 DEF BeforeApproval

LEMMA NextLifeInv == LifeInv /\ [Next]_vars => LifeInv'
<1> SUFFICES ASSUME LifeInv, [Next]_vars PROVE LifeInv'
  OBVIOUS
<1>1. TypeInv'
  BY NextTypeInv DEF LifeInv
<1>2. ASSUME NEW p \in Orders PROVE BeforeApproval(p)'
  <2>1. CASE UNCHANGED vars
    BY <2>1 DEF vars, rowVars, callVars, LifeInv, BeforeApproval
  <2>2. CASE Next
    BY <2>2, CallsLifeInv, ScheduleLifeInv, ExecuteLifeInv DEF Next
  <2> QED BY <2>1, <2>2
<1> QED BY <1>1, <1>2 DEF LifeInv

(* An order that nobody approved yet is neither fetched nor executed, and  *)
(* has no portions.                                                        *)
THEOREM PendingIsNotExecuted == Spec => []PendingNotExecuted
<1>1. LifeInv => PendingNotExecuted
  BY DEF LifeInv, BeforeApproval, PendingNotExecuted
<1>2. Init /\ [][Next]_vars => []LifeInv
  BY InitLifeInv, NextLifeInv, PTL
<1> QED BY <1>1, <1>2, PTL DEF Spec
-----------------------------------------------------------------------------
Taken(o) == IF exec[o].pc \in Entered THEN exec[o].qty ELSE 0

(* Every copy of the count of what is left - the row's, unless the order   *)
(* was cancelled, the one in a batch, the goroutine's - covers at least    *)
(* what the portions do not.                                               *)
NothingSkipped(o) ==
  /\ cancel[o] = "cancelled" => order[o].done
  /\ order[o].status # None /\ cancel[o] # "cancelled" =>
       fills[o].qty + order[o].remaining >= asked[o].quantity
  /\ batch[o] # NotFetched => fills[o].qty + batch[o] >= asked[o].quantity
  /\ exec[o].pc \notin {"off", "decline"} =>
       fills[o].qty + exec[o].remaining - Taken(o) >= asked[o].quantity
  /\ exec[o].pc = "done" => exec[o].remaining = 0
  /\ order[o].done /\ cancel[o] # "cancelled" => fills[o].qty >= asked[o].quantity

FillInv == \A o \in Orders : NothingSkipped(o)

LEMMA InitFillInv == Init => FillInv
<1> SUFFICES ASSUME Init, NEW o \in Orders PROVE NothingSkipped(o)
  BY DEF FillInv
<1>1. /\ cancel[o] = "idle" /\ order[o].status = None /\ ~order[o].done
      /\ batch[o] = NotFetched /\ exec[o].pc = "off"
  BY DEF Init
<1> QED BY <1>1 DEF NothingSkipped

LEMMA CallsFillInv ==
  ASSUME LifeInv, FillInv, NEW o \in Orders,
         \/ Create(o)
         \/ \E d \in Deciders : Decide(d, o)
         \/ ReadCancellable(o) \/ CancelOrder(o)
  PROVE  FillInv'
<1> SUFFICES ASSUME NEW p \in Orders PROVE NothingSkipped(p)'
  BY DEF FillInv
<1>0. /\ NothingSkipped(p) /\ asked[p].quantity \in Nat \ {0}
      /\ order \in [Orders -> Row] /\ order[p] \in Row
      /\ fills[p] \in [rows : Nat, qty : Nat] /\ BeforeApproval(o) /\ TypeInv
  BY AskedType DEF FillInv, LifeInv, TypeInv, TypeOK, Row
<1>1. CASE CheckOrder(o) \/ DetermineInitialStatus(o) \/ DeductActuaryUsedLimit(o)
  BY <1>0, <1>1 DEF CheckOrder, DetermineInitialStatus, DeductActuaryUsedLimit,
     NothingSkipped, Taken, rowVars
<1>2. CASE InsertOrder(o)
  <2>1. fills'[p].qty + order'[p].remaining >= asked[p].quantity
        \/ order'[p] = order[p]
    <3>1. order'[p].remaining = asked[p].quantity \/ order'[p] = order[p]
      BY <1>0, <1>2, InsertWrites DEF TypeInv, TypeOK, Row
    <3>2. fills' = fills
      BY <1>2 DEF InsertOrder
    <3> QED BY <1>0, <3>1, <3>2
  <2>2. order'[p].done = order[p].done
    BY <1>0, <1>2, InsertWrites DEF TypeInv, TypeOK, Row
  <2> QED BY <1>0, <1>2, <2>1, <2>2 DEF InsertOrder, NothingSkipped, Taken, rowVars
<1>3. ASSUME NEW d \in Deciders, Decide(d, o) PROVE NothingSkipped(p)'
  <2>1. /\ order'[p].remaining = order[p].remaining /\ order'[p].done = order[p].done
        /\ order[p].status = None => order'[p].status = None
    BY <1>0, <1>3 DEF Decide, ReadPending, ApproveOrder, DeductApproved, DeclineOrder,
       BeforeApproval, Row, rowVars, None
  <2> QED BY <1>0, <1>3, <2>1 DEF Decide, ReadPending, ApproveOrder, DeductApproved,
          DeclineOrder, NothingSkipped, Taken, rowVars
<1>4. CASE ReadCancellable(o) \/ CancelOrder(o)
  <2>1. \/ /\ order'[p] = order[p]
           /\ cancel'[p] = "cancelled" <=> cancel[p] = "cancelled"
        \/ cancel'[p] = "cancelled" /\ order'[p].done
    BY <1>0, <1>4, CancelWrites DEF ReadCancellable, CancelOrder, rowVars, TypeInv, TypeOK
  <2>2. UNCHANGED <<asked, fills, batch, exec>>
    BY <1>4 DEF ReadCancellable, CancelOrder, rowVars
  <2> QED BY <1>0, <2>1, <2>2 DEF NothingSkipped, Taken
<1> QED BY <1>1, <1>2, <1>3, <1>4 DEF Create

LEMMA ScheduleFillInv ==
  ASSUME LifeInv, FillInv, Poll \/ Crash \/ \E o \in Orders : StartExecution(o)
  PROVE  FillInv'
<1> SUFFICES ASSUME NEW p \in Orders PROVE NothingSkipped(p)'
  BY DEF FillInv
<1>0. /\ NothingSkipped(p) /\ asked[p].quantity \in Nat \ {0}
      /\ order[p] \in Row /\ fills[p] \in [rows : Nat, qty : Nat]
      /\ exec \in [Orders -> Goroutine] /\ TypeInv
  BY AskedType DEF FillInv, LifeInv, TypeInv, TypeOK, Row, Goroutine
<1>1. CASE Poll
  <2>1. /\ batch'[p] = NotFetched \/ (Active(p) /\ batch'[p] = order[p].remaining)
        /\ order' = order /\ fills' = fills /\ cancel' = cancel /\ exec' = exec
        /\ asked' = asked
    BY <1>1 DEF Poll, rowVars, callVars
  <2>2. Active(p) => fills[p].qty + order[p].remaining >= asked[p].quantity
    BY <1>0 DEF Active, NothingSkipped, None
  <2> QED BY <1>0, <2>1, <2>2 DEF NothingSkipped, Taken
<1>2. CASE Crash
  BY <1>0, <1>2 DEF Crash, NothingSkipped, Taken, Entered, rowVars, TypeInv, TypeOK
<1>3. ASSUME NEW o \in Orders, StartExecution(o) PROVE NothingSkipped(p)'
  BY <1>0, <1>3 DEF StartExecution, NothingSkipped, Taken, Entered, rowVars,
     callVars, Goroutine, TypeInv, TypeOK
<1> QED BY <1>1, <1>2, <1>3

LEMMA ExecuteFillInv ==
  ASSUME LifeInv, FillInv, NEW o \in Orders, Execute(o)
  PROVE  FillInv'
<1> SUFFICES ASSUME NEW p \in Orders PROVE NothingSkipped(p)'
  BY DEF FillInv
<1>0. /\ NothingSkipped(p) /\ asked[p].quantity \in Nat \ {0}
      /\ order \in [Orders -> Row] /\ exec \in [Orders -> Goroutine]
      /\ fills \in [Orders -> [rows : Nat, qty : Nat]]
      /\ exec[p].qty \in Nat /\ exec[p].remaining \in Nat
      /\ exec[p].qty <= exec[p].remaining
      /\ BeforeApproval(p) /\ TypeOK
  BY AskedType DEF FillInv, LifeInv, TypeInv, TypeOK, FillFits, Row, Goroutine
<1>1. CASE BeginExecution(o) \/ ChooseFill(o)
  <2>1. /\ UNCHANGED <<asked, order, fills, batch, cancel>>
        /\ exec[o].pc \in {"start", "price"}
        /\ exec'[o].pc \in {"off", "decline", "price", "settle"}
        /\ p # o => exec'[p] = exec[p]
        /\ exec'[o].pc # "off" => exec'[o].remaining = exec[o].remaining
    BY <1>0, <1>1, ChooseWrites DEF BeginExecution, At, GoTo, Return, rowVars, callVars,
       Goroutine
  <2>2. CASE p # o
    BY <1>0, <2>1, <2>2 DEF NothingSkipped, Taken
  <2>3. CASE p = o
    <3>1. Taken(o) = 0 /\ Taken(o)' = 0
      BY <2>1 DEF Taken, Entered
    <3> QED BY <1>0, <2>1, <2>3, <3>1 DEF NothingSkipped
  <2> QED BY <2>2, <2>3
<1>2. CASE SettleAccount(o) \/ CreditBank(o)
  BY <1>0, <1>2 DEF SettleAccount, CreditBank, AfterSettlement, NothingSkipped,
     Taken, Entered, At, GoTo, rowVars, callVars, Goroutine
<1>3. CASE AddCommissionPaid(o)
  BY <1>0, <1>3 DEF AddCommissionPaid, NothingSkipped, Taken, Entered, At, GoTo,
     callVars, Goroutine, Row
<1>4. CASE InsertPortion(o)
  <2>1. /\ UNCHANGED <<asked, order, batch, cancel>>
        /\ exec[o].pc = "portion"
        /\ p # o => exec'[p] = exec[p] /\ fills'[p] = fills[p]
        /\ exec'[o].remaining = exec[o].remaining /\ exec'[o].qty = exec[o].qty
        /\ \/ exec'[o].pc = "price" /\ fills'[o].qty = fills[o].qty
           \/ exec'[o].pc = "holding" /\ fills'[o].qty = fills[o].qty + exec[o].qty
    BY <1>0, <1>4 DEF InsertPortion, At, GoTo, callVars, Goroutine
  <2>2. CASE p # o
    BY <1>0, <2>1, <2>2 DEF NothingSkipped, Taken
  <2>3. CASE p = o
    <3>1. Taken(o) = 0 /\ Taken(o)' = fills'[o].qty - fills[o].qty
      BY <1>0, <2>1, <2>3 DEF Taken, Entered
    <3>2. fills'[o].qty >= fills[o].qty
      BY <1>0, <2>1, <2>3
    <3>3. fills[o].qty + exec[o].remaining >= asked[o].quantity
      BY <1>0, <2>1, <2>3, <3>1 DEF NothingSkipped
    <3>4. fills'[o].qty + exec'[o].remaining - Taken(o)' >= asked[o].quantity
      BY <1>0, <2>1, <2>3, <3>1, <3>3
    <3>5. \A n \in Nat : fills[o].qty + n >= asked[o].quantity
                          => fills'[o].qty + n >= asked[o].quantity
      BY <1>0, <2>1, <2>3, <3>2
    <3>6. /\ order[o].remaining \in Nat /\ batch[o] \in Nat \cup {NotFetched}
          /\ exec'[o].pc \notin {"off", "decline", "done"}
      BY <1>0, <2>1 DEF TypeOK
    <3>7. fills[o].qty >= asked[o].quantity => fills'[o].qty >= asked[o].quantity
      BY <1>0, <2>1, <2>3, <3>2
    <3> QED BY <1>0, <2>1, <2>3, <3>4, <3>5, <3>6, <3>7 DEF NothingSkipped
  <2> QED BY <2>2, <2>3
<1>5. CASE UpdateHolding(o) \/ SweepHolding(o)
  <2>1. /\ UNCHANGED <<asked, order, fills, batch, cancel>>
        /\ p # o => exec'[p] = exec[p]
        /\ exec'[o].remaining = exec[o].remaining /\ exec'[o].qty = exec[o].qty
        /\ exec[o].pc \in {"holding", "sweep"} /\ exec'[o].pc \in {"sweep", "remaining"}
    BY <1>0, <1>5 DEF UpdateHolding, SweepHolding, At, GoTo, rowVars, callVars, Goroutine
  <2>2. Taken(p)' = Taken(p)
    BY <1>0, <2>1 DEF Taken, Entered
  <2> QED BY <1>0, <2>1, <2>2 DEF NothingSkipped
<1>6. CASE UpdateRemainingPortions(o)
  <2>1. CASE p # o
    BY <1>0, <1>6, <2>1 DEF UpdateRemainingPortions, NothingSkipped, Taken, callVars
  <2>2. CASE p = o
    <3> DEFINE left == exec[o].remaining - exec[o].qty
    <3>1. fills[o].qty + left >= asked[o].quantity
      BY <1>0, <1>6, <2>2 DEF UpdateRemainingPortions, NothingSkipped, Taken, Entered, At
    <3>2. /\ exec'[o].remaining = left /\ exec'[o].pc \in {"done", "price"}
          /\ exec'[o].pc = "done" => left = 0
      BY <1>0, <1>6 DEF UpdateRemainingPortions
    <3>3. /\ order'[o].remaining \in {order[o].remaining, left}
          /\ order'[o].status = order[o].status /\ order'[o].done = order[o].done
          /\ UNCHANGED <<asked, fills, batch, cancel>>
      BY <1>0, <1>6 DEF UpdateRemainingPortions, callVars, Row
    <3>4. Taken(o)' = 0
      BY <3>2 DEF Taken, Entered
    <3> QED BY <1>0, <2>2, <3>1, <3>2, <3>3, <3>4 DEF NothingSkipped
  <2> QED BY <2>1, <2>2
<1>7. CASE SetOrderDone(o)
  <2>1. CASE p # o
    BY <1>0, <1>7, <2>1 DEF SetOrderDone, Return, NothingSkipped, Taken, callVars
  <2>2. CASE p = o
    <3>1. fills[o].qty >= asked[o].quantity
      BY <1>0, <1>7, <2>2 DEF SetOrderDone, NothingSkipped, Taken, Entered, At
    <3>2. /\ exec'[o].pc = "off" /\ UNCHANGED <<asked, fills, batch, cancel>>
          /\ order'[o].remaining = order[o].remaining
          /\ order'[o].status = order[o].status
          /\ order'[o].done = order[o].done \/ order'[o].done
      BY <1>0, <1>7 DEF SetOrderDone, Return, callVars, Row
    <3> QED BY <1>0, <2>2, <3>1, <3>2 DEF NothingSkipped
  <2> QED BY <2>1, <2>2
<1>8. CASE DeclineUnsettled(o)
  <2>1. CASE p # o
    BY <1>0, <1>8, <2>1 DEF DeclineUnsettled, Return, NothingSkipped, Taken, callVars
  <2>2. CASE p = o
    <3>1. order[o].status # None
      BY <1>0, <1>8, <2>2 DEF BeforeApproval, DeclineUnsettled, At
    <3>2. /\ exec'[o].pc = "off" /\ UNCHANGED <<asked, fills, batch, cancel>>
          /\ order'[o].remaining = order[o].remaining
          /\ order'[o].done = order[o].done
      BY <1>0, <1>8 DEF DeclineUnsettled, Return, callVars, Row
    <3> QED BY <1>0, <2>2, <3>1, <3>2 DEF NothingSkipped
  <2> QED BY <2>1, <2>2
<1> QED BY <1>1, <1>2, <1>3, <1>4, <1>5, <1>6, <1>7, <1>8 DEF Execute

LEMMA NextFillInv == LifeInv /\ FillInv /\ [Next]_vars => FillInv'
<1> SUFFICES ASSUME LifeInv, FillInv, [Next]_vars PROVE FillInv'
  OBVIOUS
<1>1. CASE UNCHANGED vars
  BY <1>1 DEF vars, rowVars, callVars, FillInv, NothingSkipped, Taken
<1>2. CASE Next
  BY <1>2, CallsFillInv, ScheduleFillInv, ExecuteFillInv DEF Next
<1> QED BY <1>1, <1>2

(* No unit of an order that is done, and was not cancelled, was skipped:   *)
(* its portions add up to its quantity at least.                           *)
THEOREM DoneIsFilled == Spec => []DoneMeansFilled
<1>1. FillInv => DoneMeansFilled
  BY DEF FillInv, NothingSkipped, DoneMeansFilled
<1>2. Init => LifeInv /\ FillInv
  BY InitLifeInv, InitFillInv
<1>3. LifeInv /\ FillInv /\ [Next]_vars => (LifeInv /\ FillInv)'
  BY NextLifeInv, NextFillInv
<1>4. Init /\ [][Next]_vars => [](LifeInv /\ FillInv)
  BY <1>2, <1>3, PTL
<1> QED BY <1>1, <1>4, PTL DEF Spec
-----------------------------------------------------------------------------
(* Only a settlement moves a balance, and only as far as it goes. *)
LEMMA SettlementIsCovered ==
  ASSUME TypeInv, NeverOverdrawn, NEW o \in Orders, SettleAccount(o)
  PROVE  NeverOverdrawn'
<1> SUFFICES ASSUME NEW a \in Accounts PROVE balance'[a] >= 0
  BY DEF NeverOverdrawn
<1>1. /\ balance \in [Accounts -> Int] /\ balance[a] >= 0
      /\ asked[o].account \in Accounts /\ exec[o].qty \in Nat
      /\ exec[o].qty > 0
      /\ asked[o].price \in Nat /\ asked[o].fee \in Nat /\ asked[o].fee <= asked[o].price
  BY AskedType DEF TypeInv, TypeOK, FillFits, NeverOverdrawn, SettleAccount, At, Filling
<1>2. Value(o) \in Nat /\ Value(o) >= asked[o].price
  <2>1. exec[o].qty * asked[o].price \in Nat
    BY <1>1
  <2>2. ASSUME NEW q \in Nat, NEW r \in Nat, q > 0 PROVE q * r >= r
    BY <2>2
  <2> QED BY <1>1, <2>1, <2>2 DEF Value
<1>3. Cost(o) \in Int /\ Proceeds(o) \in Nat
  BY <1>1, <1>2 DEF Cost, Proceeds
<1>4. CASE balance' = balance
  BY <1>1, <1>4
<1>5. CASE Covered(o) /\ balance' = [balance EXCEPT ![asked[o].account] = @ - Cost(o)]
  BY <1>1, <1>3, <1>5 DEF Covered
<1>6. CASE balance' = [balance EXCEPT ![asked[o].account] = @ + Proceeds(o)]
  BY <1>1, <1>3, <1>6
<1> QED BY <1>4, <1>5, <1>6 DEF SettleAccount

(* No settlement overdraws an account, however many orders are executed on *)
(* it at a time.                                                           *)
THEOREM NothingOverdrawn == Spec => []NeverOverdrawn
<1>1. Init => TypeInv /\ NeverOverdrawn
  BY InitTypeInv, AmountsAssumption DEF Init, NeverOverdrawn
<1>2. TypeInv /\ NeverOverdrawn /\ [Next]_vars => (TypeInv /\ NeverOverdrawn)'
  <2> SUFFICES ASSUME TypeInv, NeverOverdrawn, [Next]_vars PROVE NeverOverdrawn'
    BY NextTypeInv
  <2>1. ASSUME NEW o \in Orders, SettleAccount(o) PROVE NeverOverdrawn'
    BY <2>1, SettlementIsCovered
  <2>2. CASE balance' = balance
    BY <2>2, SMTT(30) DEF NeverOverdrawn
  <2>3. ASSUME NEW o \in Orders, Execute(o), ~SettleAccount(o) PROVE balance' = balance
    BY <2>3 DEF Execute, BeginExecution, ChooseFill, CreditBank, AddCommissionPaid,
       InsertPortion, UpdateHolding, SweepHolding, UpdateRemainingPortions,
       SetOrderDone, DeclineUnsettled, moneyVars
  <2>4. ASSUME NEW o \in Orders, Create(o) PROVE balance' = balance
    BY <2>4 DEF Create, CheckOrder, DetermineInitialStatus, InsertOrder,
       DeductActuaryUsedLimit, moneyVars
  <2>5. ASSUME NEW o \in Orders, NEW d \in Deciders, Decide(d, o) PROVE balance' = balance
    BY <2>5 DEF Decide, ReadPending, ApproveOrder, DeductApproved, DeclineOrder, moneyVars
  <2>6. ASSUME NEW o \in Orders, ReadCancellable(o) \/ CancelOrder(o) \/ StartExecution(o)
        PROVE balance' = balance
    BY <2>6 DEF ReadCancellable, CancelOrder, StartExecution, moneyVars
  <2>7. Poll \/ Crash \/ UNCHANGED vars => balance' = balance
    BY DEF Poll, Crash, vars, moneyVars
  <2> QED BY <2>1, <2>2, <2>3, <2>4, <2>5, <2>6, <2>7 DEF Next
<1>3. Init /\ [][Next]_vars => [](TypeInv /\ NeverOverdrawn)
  BY <1>1, <1>2, PTL
<1> QED BY <1>3, PTL DEF Spec
-----------------------------------------------------------------------------
(* Of an all-or-none order every copy of the count is nothing or all, and  *)
(* every fill is all.                                                      *)
Whole(o) ==
  LET all == asked[o].quantity
  IN asked[o].aon =>
       /\ fills[o].qty = fills[o].rows * all
       /\ order[o].remaining \in {0, all}
       /\ batch[o] \in {NotFetched, 0, all}
       /\ exec[o].remaining \in {0, all}
       /\ exec[o].pc \in Filling => exec[o].qty = all /\ exec[o].remaining = all
       /\ exec[o].pc = "price" => exec[o].remaining = all

WholeInv == TypeInv /\ \A o \in Orders : Whole(o)

LEMMA InitWholeInv == Init => WholeInv
<1> SUFFICES ASSUME Init, NEW o \in Orders PROVE Whole(o)
  BY InitTypeInv DEF WholeInv
<1>1. /\ fills[o].qty = 0 /\ fills[o].rows = 0 /\ order[o].remaining = 0
      /\ batch[o] = NotFetched /\ exec[o].remaining = 0 /\ exec[o].pc = "off"
  BY DEF Init
<1>2. asked[o].quantity \in Nat
  BY InitTypeInv, AskedType DEF TypeInv
<1>3. 0 = 0 * asked[o].quantity
  BY <1>2
<1> QED BY <1>1, <1>3 DEF Whole, Filling

LEMMA CallsWhole ==
  ASSUME WholeInv, NEW p \in Orders, NEW o \in Orders,
         \/ Create(o)
         \/ \E d \in Deciders : Decide(d, o)
         \/ ReadCancellable(o) \/ CancelOrder(o)
  PROVE  Whole(p)'
<1>0. Whole(p) /\ order \in [Orders -> Row]
  BY DEF WholeInv, TypeInv, TypeOK, Row
<1>1. UNCHANGED <<asked, fills, batch, exec>>
  BY DEF Create, CheckOrder, DetermineInitialStatus, InsertOrder, DeductActuaryUsedLimit,
     Decide, ReadPending, ApproveOrder, DeductApproved, DeclineOrder,
     ReadCancellable, CancelOrder, rowVars
<1>2. order'[p].remaining \in {order[p].remaining, 0, asked[p].quantity}
  <2>1. CASE Create(o)
    BY <1>0, <2>1, InsertWrites DEF Create, CheckOrder, DetermineInitialStatus,
       DeductActuaryUsedLimit, rowVars
  <2>2. ASSUME NEW d \in Deciders, Decide(d, o)
        PROVE  order'[p].remaining = order[p].remaining
    BY <1>0, <2>2 DEF Decide, ReadPending, ApproveOrder, DeductApproved, DeclineOrder,
       rowVars, Row
  <2>3. CASE ReadCancellable(o) \/ CancelOrder(o)
    BY <1>0, <2>3, CancelWrites DEF ReadCancellable, rowVars, WholeInv, TypeInv
  <2> QED BY <2>1, <2>2, <2>3
<1> QED BY <1>0, <1>1, <1>2 DEF Whole

LEMMA ScheduleWhole ==
  ASSUME WholeInv, NEW p \in Orders, Poll \/ Crash \/ \E o \in Orders : StartExecution(o)
  PROVE  Whole(p)'
<1>0. Whole(p) /\ exec \in [Orders -> Goroutine] /\ TypeOK
  BY DEF WholeInv, TypeInv, TypeOK, Goroutine
<1>1. CASE Poll
  <2>1. batch'[p] \in {NotFetched, order[p].remaining}
        /\ UNCHANGED <<asked, fills, order, exec>>
    BY <1>1 DEF Poll, rowVars
  <2> QED BY <1>0, <2>1 DEF Whole
<1>2. CASE Crash
  <2>1. /\ batch'[p] = NotFetched /\ exec'[p].pc = "off" /\ exec'[p].remaining = 0
        /\ UNCHANGED <<asked, fills, order>>
    BY <1>2 DEF Crash, rowVars
  <2> QED BY <1>0, <2>1 DEF Whole, Filling
<1>3. ASSUME NEW o \in Orders, StartExecution(o) PROVE Whole(p)'
  <2>1. /\ UNCHANGED <<asked, fills, order>>
        /\ batch'[p] \in {batch[p], NotFetched}
        /\ \/ exec'[p] = exec[p]
           \/ /\ exec'[p].pc = "start"
              /\ exec'[p].remaining = batch[p] /\ batch[p] # NotFetched
    BY <1>0, <1>3 DEF StartExecution, rowVars, TypeOK
  <2>2. "start" \notin Filling
    BY DEF Filling
  <2> QED BY <1>0, <2>1, <2>2 DEF Whole
<1> QED BY <1>1, <1>2, <1>3

LEMMA ExecuteWhole ==
  ASSUME WholeInv, NEW p \in Orders, NEW o \in Orders, Execute(o)
  PROVE  Whole(p)'
<1>0. /\ Whole(p) /\ Whole(o) /\ TypeOK
      /\ order \in [Orders -> Row] /\ exec \in [Orders -> Goroutine]
      /\ fills \in [Orders -> [rows : Nat, qty : Nat]]
      /\ asked[o].quantity \in Nat \ {0}
  BY AskedType DEF WholeInv, TypeInv, TypeOK, Row, Goroutine
<1>1. CASE BeginExecution(o)
  <2>1. /\ UNCHANGED <<asked, order, fills, batch>>
        /\ p # o => exec'[p] = exec[p]
        /\ \/ exec'[o].pc = "off" /\ exec'[o].remaining = 0
           \/ exec'[o].pc = "decline" /\ exec'[o].remaining = exec[o].remaining
           \/ exec'[o].pc = "price" /\ exec'[o].remaining = exec[o].remaining
              /\ exec[o].remaining > 0
    BY <1>0, <1>1 DEF BeginExecution, GoTo, Return, rowVars, Goroutine
  <2>2. CASE p # o
    BY <1>0, <2>1, <2>2 DEF Whole
  <2>3. CASE p = o
    <3>1. exec'[o].pc \notin Filling
      BY <2>1 DEF Filling
    <3>2. asked[o].aon => exec'[o].remaining \in {0, asked[o].quantity}
      BY <1>0, <2>1 DEF Whole
    <3>3. asked[o].aon /\ exec'[o].pc = "price" => exec'[o].remaining = asked[o].quantity
      BY <1>0, <2>1 DEF Whole
    <3> QED BY <1>0, <2>1, <2>3, <3>1, <3>2, <3>3 DEF Whole
  <2> QED BY <2>2, <2>3
<1>2. CASE ChooseFill(o)
  <2>1. PICK q \in FillQuantities(o) : q = exec'[o].qty
    BY <1>0, <1>2, ChooseWrites
  <2>2. asked[o].aon => q = asked[o].quantity /\ exec[o].remaining = asked[o].quantity
    BY <2>1 DEF FillQuantities
  <2>3. /\ UNCHANGED <<asked, order, fills, batch>>
        /\ p # o => exec'[p] = exec[p]
        /\ exec'[o].pc = "settle" /\ exec'[o].qty = q
        /\ exec'[o].remaining = exec[o].remaining
    BY <1>0, <1>2, <2>1, ChooseWrites
  <2> QED BY <1>0, <2>2, <2>3 DEF Whole, Filling
<1>3. CASE InsertPortion(o)
  <2>1. /\ UNCHANGED <<asked, order, batch>> /\ exec[o].pc = "portion"
        /\ p # o => exec'[p] = exec[p] /\ fills'[p] = fills[p]
        /\ exec'[o].qty = exec[o].qty /\ exec'[o].remaining = exec[o].remaining
        /\ exec'[o].pc \in {"price", "holding"}
        /\ \/ fills'[o] = fills[o]
           \/ /\ fills'[o].rows = fills[o].rows + 1
              /\ fills'[o].qty = fills[o].qty + exec[o].qty
    BY <1>0, <1>3 DEF InsertPortion, At, GoTo, Goroutine
  <2>2. asked[o].aon => exec[o].qty = asked[o].quantity /\ exec[o].remaining = asked[o].quantity
    BY <1>0, <2>1 DEF Whole, Filling
  <2>3. ASSUME NEW n \in Nat, NEW m \in Nat PROVE n * m + m = (n + 1) * m
    BY <2>3
  <2>4. asked[o].aon => fills'[o].qty = fills'[o].rows * asked[o].quantity
    <3> DEFINE n == fills[o].rows
               all == asked[o].quantity
    <3> SUFFICES ASSUME asked[o].aon PROVE fills'[o].qty = fills'[o].rows * all
      OBVIOUS
    <3>1. fills[o].qty = n * all
      BY <1>0 DEF Whole
    <3>2. CASE fills'[o] = fills[o]
      BY <3>1, <3>2
    <3>3. CASE fills'[o].rows = n + 1 /\ fills'[o].qty = fills[o].qty + all
      <4>1. n \in Nat /\ all \in Nat
        BY <1>0
      <4>2. n * all + all = (n + 1) * all
        BY <2>3, <4>1
      <4> QED BY <3>1, <3>3, <4>2
    <3> QED BY <2>1, <2>2, <3>2, <3>3
  <2> QED BY <1>0, <2>1, <2>2, <2>4 DEF Whole, Filling
<1>4. CASE \/ SettleAccount(o) \/ CreditBank(o) \/ AddCommissionPaid(o)
           \/ UpdateHolding(o) \/ SweepHolding(o)
  <2>1. /\ UNCHANGED <<asked, fills, batch>> /\ exec[o].pc \in Filling
        /\ order'[p].remaining = order[p].remaining
        /\ p # o => exec'[p] = exec[p]
        /\ exec'[o].qty = exec[o].qty /\ exec'[o].remaining = exec[o].remaining
        /\ exec'[o].pc # "price"
    BY <1>0, <1>4 DEF SettleAccount, AfterSettlement, CreditBank, AddCommissionPaid,
       UpdateHolding, SweepHolding, At, GoTo, Goroutine, Row, rowVars, Filling
  <2> QED BY <1>0, <2>1 DEF Whole
<1>5. CASE UpdateRemainingPortions(o)
  <2> DEFINE left == exec[o].remaining - exec[o].qty
  <2>1. /\ UNCHANGED <<asked, fills, batch>> /\ exec[o].pc = "remaining"
        /\ order'[o].remaining \in {order[o].remaining, left}
        /\ p # o => order'[p] = order[p] /\ exec'[p] = exec[p]
        /\ exec'[o].remaining = left
        /\ exec'[o].pc = IF left = 0 THEN "done" ELSE "price"
    BY <1>0, <1>5 DEF UpdateRemainingPortions, At, Row
  <2>2. asked[o].aon => left = 0
    BY <1>0, <2>1 DEF Whole, Filling
  <2>3. CASE p # o
    BY <1>0, <2>1, <2>3 DEF Whole
  <2>4. CASE p = o /\ asked[o].aon
    <3>1. exec'[o].remaining = 0 /\ exec'[o].pc = "done"
      BY <2>1, <2>2, <2>4
    <3>2. order'[o].remaining \in {0, asked[o].quantity}
      BY <1>0, <2>1, <2>2, <2>4 DEF Whole
    <3>3. "done" \notin Filling /\ "done" # "price"
      BY DEF Filling
    <3> HIDE DEF left
    <3> QED BY <1>0, <2>1, <2>4, <3>1, <3>2, <3>3 DEF Whole
  <2>5. CASE p = o /\ ~asked[o].aon
    BY <2>1, <2>5 DEF Whole
  <2> QED BY <2>3, <2>4, <2>5
<1>6. CASE SetOrderDone(o) \/ DeclineUnsettled(o)
  <2>1. /\ UNCHANGED <<asked, fills, batch>>
        /\ order'[p].remaining = order[p].remaining
        /\ p # o => exec'[p] = exec[p]
        /\ exec'[o].pc = "off" /\ exec'[o].remaining = 0
    BY <1>0, <1>6 DEF SetOrderDone, DeclineUnsettled, Return, Row
  <2> QED BY <1>0, <2>1 DEF Whole, Filling
<1> QED BY <1>1, <1>2, <1>3, <1>4, <1>5, <1>6 DEF Execute

(* An all-or-none order is filled in one piece, whatever is repeated. *)
THEOREM AllOrNothing == Spec => []AllOrNone
<1>1. WholeInv => AllOrNone
  BY DEF WholeInv, Whole, AllOrNone, At
<1>2. WholeInv /\ [Next]_vars => WholeInv'
  <2> SUFFICES ASSUME WholeInv, [Next]_vars, NEW p \in Orders PROVE Whole(p)'
    BY NextTypeInv DEF WholeInv
  <2>1. CASE UNCHANGED vars
    BY <2>1 DEF vars, rowVars, WholeInv, Whole
  <2>2. CASE Next
    BY <2>2, CallsWhole, ScheduleWhole, ExecuteWhole DEF Next
  <2> QED BY <2>1, <2>2
<1>3. Init /\ [][Next]_vars => []WholeInv
  BY <1>2, InitWholeInv, PTL
<1> QED BY <1>1, <1>3, PTL DEF Spec
-----------------------------------------------------------------------------
(* How many units an order can still get without an incident: what the     *)
(* copies of its count, which one execution after the other takes, have.   *)
Larger(x, y) == IF x >= y THEN x ELSE y
Fetched(o) == IF batch[o] = NotFetched THEN 0 ELSE batch[o]
Ahead(o) ==
  IF exec[o].pc = "off" THEN Larger(order[o].remaining, Fetched(o))
  ELSE Fetched(o) + IF exec[o].pc \in Entered THEN exec[o].remaining - exec[o].qty
                    ELSE Larger(order[o].remaining, exec[o].remaining)
Total(o) == fills[o].qty + Ahead(o)
Incidents == crashes + overlaps + refusals

(* No copy exceeds the quantity, and an incident adds one copy at most.    *)
Bounded(o) ==
  LET all == asked[o].quantity
  IN /\ fills[o].rows = 0 => fills[o].qty = 0
     /\ order[o].remaining <= all /\ Fetched(o) <= all /\ exec[o].remaining <= all
     /\ Total(o) <= all * (1 + Incidents)

BoundInv == LifeInv /\ \A o \in Orders : Bounded(o)

LEMMA AheadNumbers ==
  ASSUME TypeInv, NEW o \in Orders
  PROVE  /\ Fetched(o) \in Nat /\ Ahead(o) \in Nat /\ Incidents \in Nat
         /\ order[o].remaining \in Nat /\ exec[o].remaining \in Nat
         /\ exec[o].qty \in Nat /\ exec[o].qty <= exec[o].remaining
         /\ fills[o].qty \in Nat /\ fills[o].rows \in Nat /\ Total(o) \in Nat
         /\ asked[o].quantity \in Nat /\ asked[o].quantity > 0
<1>1. /\ order[o].remaining \in Nat /\ exec[o].remaining \in Nat
      /\ exec[o].qty \in Nat /\ exec[o].qty <= exec[o].remaining
      /\ fills[o].qty \in Nat /\ fills[o].rows \in Nat /\ Incidents \in Nat
      /\ Fetched(o) \in Nat
  BY DEF TypeInv, TypeOK, FillFits, Fetched, Incidents
<1>2. Ahead(o) \in Nat
  BY <1>1 DEF Ahead, Larger
<1> QED
  BY <1>1, <1>2, AskedType DEF Total, TypeInv

LEMMA TotalIsNat == TypeInv => \A o \in Orders : Total(o) \in Nat
  BY AheadNumbers

LEMMA TotalAfter == TypeInv' => \A o \in Orders : Total(o)' \in Nat
<1>1. (TypeInv => \A o \in Orders : Total(o) \in Nat)'
  BY TotalIsNat, PTL
<1> QED BY <1>1

LEMMA BoundKept ==
  ASSUME TypeInv, TypeInv', NEW o \in Orders, Bounded(o), asked' = asked,
         fills'[o].rows = 0 => fills'[o].qty = 0,
         order'[o].remaining <= asked[o].quantity, Fetched(o)' <= asked[o].quantity,
         exec'[o].remaining <= asked[o].quantity,
         Incidents' \in {Incidents, Incidents + 1},
         \/ Total(o)' <= Total(o)
         \/ Total(o)' <= asked[o].quantity
         \/ Total(o)' <= Total(o) + asked[o].quantity /\ Incidents' = Incidents + 1
  PROVE  Bounded(o)'
<1> DEFINE q == asked[o].quantity
           i == Incidents
<1>1. q \in Nat /\ i \in Nat /\ Total(o) \in Nat /\ Total(o)' \in Nat
  BY TotalAfter, AheadNumbers
<1>2. Total(o) <= q * (1 + i)
  BY DEF Bounded
<1> HIDE DEF q, i
<1>3. /\ q * (1 + i) \in Nat /\ q <= q * (1 + i)
      /\ q * (1 + (i + 1)) = q * (1 + i) + q
  <2>1. q * i \in Nat /\ q * (1 + i) = q + q * i /\ q * (1 + (i + 1)) = q + q * i + q
    BY <1>1
  <2> QED BY <1>1, <2>1
<1>4. Total(o)' <= q * (1 + Incidents')
  BY <1>1, <1>2, <1>3 DEF q, i
<1> QED
  BY <1>4 DEF Bounded, q

(* The orders that an execution does not work on keep all they have. *)
LEMMA ExecuteOthers ==
  ASSUME TypeInv, NEW o \in Orders, Execute(o)
  PROVE  /\ \A p \in Orders \ {o} :
              exec'[p] = exec[p] /\ fills'[p] = fills[p] /\ order'[p] = order[p]
         /\ UNCHANGED <<asked, used, create, decision, cancel, batch, crashes, overlaps>>
         /\ refusals' \in {refusals, refusals + 1}
<1>0. /\ order \in [Orders -> Row] /\ exec \in [Orders -> Goroutine]
      /\ fills \in [Orders -> [rows : Nat, qty : Nat]]
  BY DEF TypeInv, TypeOK, Row, Goroutine
<1>1. CASE BeginExecution(o) \/ ChooseFill(o) \/ SettleAccount(o) \/ CreditBank(o)
  BY <1>0, <1>1 DEF BeginExecution, ChooseFill, SettleAccount, CreditBank, GoTo,
     Return, rowVars, moneyVars, callVars, envVars, Succeeds, Refused
<1>2. CASE InsertPortion(o) \/ UpdateHolding(o) \/ SweepHolding(o)
  BY <1>0, <1>2 DEF InsertPortion, UpdateHolding, SweepHolding, GoTo, rowVars,
     moneyVars, callVars, Succeeds, Refused
<1>3. CASE AddCommissionPaid(o) \/ UpdateRemainingPortions(o)
  BY <1>0, <1>3 DEF AddCommissionPaid, UpdateRemainingPortions, GoTo, moneyVars,
     callVars, Succeeds, Refused
<1>4. CASE SetOrderDone(o) \/ DeclineUnsettled(o)
  BY <1>0, <1>4 DEF SetOrderDone, DeclineUnsettled, Return, moneyVars, callVars,
     Succeeds, Refused
<1> QED BY <1>1, <1>2, <1>3, <1>4 DEF Execute

LEMMA BoundOfUntouched ==
  ASSUME TypeInv, TypeInv', NEW p \in Orders, Bounded(p), asked' = asked,
         exec'[p] = exec[p], fills'[p] = fills[p], order'[p].remaining = order[p].remaining,
         batch'[p] = batch[p], Incidents' \in {Incidents, Incidents + 1}
  PROVE  Bounded(p)'
<1>1. Total(p)' = Total(p) /\ Fetched(p)' = Fetched(p)
  BY DEF Total, Ahead, Fetched
<1>2. Total(p) \in Nat
  BY AheadNumbers
<1> QED BY <1>1, <1>2, BoundKept DEF Bounded

LEMMA CallsBound ==
  ASSUME BoundInv, TypeInv', NEW p \in Orders, NEW o \in Orders,
         \/ Create(o)
         \/ \E d \in Deciders : Decide(d, o)
         \/ ReadCancellable(o) \/ CancelOrder(o)
  PROVE  Bounded(p)'
<1>0. /\ Bounded(p) /\ TypeInv /\ BeforeApproval(o)
      /\ order \in [Orders -> Row] /\ refusals \in Nat /\ crashes \in Nat /\ overlaps \in Nat
  BY DEF BoundInv, LifeInv, TypeInv, TypeOK, Row
<1>1. UNCHANGED <<asked, fills, batch, exec>>
  BY DEF Create, CheckOrder, DetermineInitialStatus, InsertOrder, DeductActuaryUsedLimit,
     Decide, ReadPending, ApproveOrder, DeductApproved, DeclineOrder,
     ReadCancellable, CancelOrder, rowVars
<1>2. Incidents' \in {Incidents, Incidents + 1}
  <2>1. crashes' = crashes /\ overlaps' = overlaps /\ refusals' \in {refusals, refusals + 1}
    BY DEF Create, CheckOrder, DetermineInitialStatus, InsertOrder, DeductActuaryUsedLimit,
       Decide, ReadPending, ApproveOrder, DeductApproved, DeclineOrder,
       ReadCancellable, CancelOrder, Succeeds, Refused, envVars
  <2>2. CASE refusals' = refusals
    BY <2>1, <2>2 DEF Incidents
  <2>3. CASE refusals' = refusals + 1
    BY <1>0, <2>1, <2>3 DEF Incidents
  <2> QED BY <2>1, <2>2, <2>3
<1>3. \/ order'[p].remaining = order[p].remaining
      \/ order'[p].remaining = 0
      \/ p = o /\ InsertOrder(o) /\ order'[p].remaining = asked[p].quantity
  <2>1. CASE Create(o)
    BY <1>0, <2>1, InsertWrites DEF Create, CheckOrder, DetermineInitialStatus,
       DeductActuaryUsedLimit, rowVars
  <2>2. ASSUME NEW d \in Deciders, Decide(d, o)
        PROVE  order'[p].remaining = order[p].remaining
    BY <1>0, <2>2 DEF Decide, ReadPending, ApproveOrder, DeductApproved, DeclineOrder,
       rowVars, Row
  <2>3. CASE ReadCancellable(o) \/ CancelOrder(o)
    BY <1>0, <2>3, CancelWrites DEF ReadCancellable, rowVars, TypeInv
  <2> QED BY <2>1, <2>2, <2>3
<1>4. CASE order'[p].remaining = order[p].remaining
  BY <1>0, <1>1, <1>2, <1>4, BoundOfUntouched
<1>5. CASE order'[p].remaining = 0
  <2>1. Fetched(p)' = Fetched(p) /\ fills'[p] = fills[p] /\ exec'[p] = exec[p]
    BY <1>1 DEF Fetched
  <2>2. Total(p)' <= Total(p)
    BY <1>0, <1>1, <1>5, <2>1, AheadNumbers DEF Total, Ahead, Larger
  <2> QED BY <1>0, <1>1, <1>2, <1>5, <2>1, <2>2, BoundKept, AheadNumbers DEF Bounded
<1>6. CASE p = o /\ InsertOrder(o) /\ order'[p].remaining = asked[p].quantity
  <2>1. batch[p] = NotFetched /\ exec[p].pc = "off" /\ fills[p].rows = 0
    BY <1>0, <1>6 DEF InsertOrder, BeforeApproval
  <2>2. Fetched(p) = 0 /\ Fetched(p)' = 0 /\ fills'[p].qty = 0 /\ exec'[p] = exec[p]
    BY <1>0, <1>1, <2>1 DEF Fetched, Bounded
  <2>3. Total(p)' = asked[p].quantity
    BY <1>0, <1>1, <1>6, <2>1, <2>2, AheadNumbers DEF Total, Ahead, Larger
  <2> QED BY <1>0, <1>1, <1>2, <1>6, <2>1, <2>2, <2>3, BoundKept, AheadNumbers DEF Bounded
<1> QED BY <1>3, <1>4, <1>5, <1>6

LEMMA ScheduleBound ==
  ASSUME BoundInv, TypeInv', NEW p \in Orders,
         Poll \/ Crash \/ \E o \in Orders : StartExecution(o)
  PROVE  Bounded(p)'
<1>0. /\ Bounded(p) /\ TypeInv /\ exec \in [Orders -> Goroutine] /\ exec[p] \in Goroutine
      /\ refusals \in Nat /\ crashes \in Nat /\ overlaps \in Nat
      /\ batch \in [Orders -> Nat \cup {NotFetched}] /\ NotFetched \notin Nat
  BY DEF BoundInv, LifeInv, TypeInv, TypeOK, Goroutine, NotFetched
<1>1. CASE Poll
  <2>1. /\ batch[p] = NotFetched
        /\ UNCHANGED <<asked, order, fills, exec>>
        /\ \/ batch'[p] = NotFetched
           \/ batch'[p] = order[p].remaining
        /\ \/ overlaps' = overlaps /\ (batch'[p] = NotFetched \/ exec[p].pc = "off")
           \/ overlaps' = overlaps + 1
        /\ refusals' = refusals /\ crashes' = crashes
    BY <1>1 DEF Poll, Executing, rowVars
  <2>2. Fetched(p) = 0 /\ Fetched(p)' \in {0, order[p].remaining}
    BY <2>1 DEF Fetched
  <2>3. Incidents' \in {Incidents, Incidents + 1}
    BY <1>0, <2>1 DEF Incidents
  <2>4. CASE Fetched(p)' = 0 \/ exec[p].pc = "off"
    <3>1. Total(p)' = Total(p)
      BY <1>0, <2>1, <2>2, <2>4, AheadNumbers DEF Total, Ahead, Larger
    <3> QED BY <1>0, <2>1, <2>2, <2>3, <3>1, BoundKept, AheadNumbers DEF Bounded
  <2>5. CASE Fetched(p)' # 0 /\ exec[p].pc # "off"
    <3>1. Incidents' = Incidents + 1
      BY <1>0, <2>1, <2>5 DEF Incidents, Fetched
    <3>2. Total(p)' = Total(p) + order[p].remaining
      BY <1>0, <2>1, <2>2, <2>5, AheadNumbers DEF Total, Ahead, Larger
    <3> QED BY <1>0, <2>1, <2>2, <3>1, <3>2, BoundKept, AheadNumbers DEF Bounded
  <2> QED BY <2>4, <2>5
<1>2. CASE Crash
  <2>1. /\ batch'[p] = NotFetched /\ exec'[p].pc = "off" /\ exec'[p].remaining = 0
        /\ UNCHANGED <<asked, fills, order>>
        /\ Incidents' = Incidents + 1
    BY <1>0, <1>2 DEF Crash, rowVars, Incidents
  <2>2. Fetched(p)' = 0
    BY <2>1 DEF Fetched
  <2>3. Total(p)' = fills[p].qty + order[p].remaining /\ Total(p) >= fills[p].qty
    BY <1>0, <2>1, <2>2, AheadNumbers DEF Total, Ahead, Larger
  <2> QED BY <1>0, <2>1, <2>2, <2>3, BoundKept, AheadNumbers DEF Bounded
<1>3. ASSUME NEW o \in Orders, StartExecution(o) PROVE Bounded(p)'
  <2>0. UNCHANGED <<asked, fills, order>> /\ Incidents' = Incidents
    BY <1>3 DEF StartExecution, rowVars, envVars, Incidents
  <2>1. CASE p # o
    <3>1. batch'[p] = batch[p] /\ exec'[p] = exec[p]
      BY <1>0, <1>3, <2>1 DEF StartExecution
    <3> QED BY <1>0, <2>0, <3>1, BoundOfUntouched
  <2>2. CASE p = o /\ exec[p].pc # "off"
    <3>1. Fetched(p)' = 0 /\ exec'[p] = exec[p]
      BY <1>0, <1>3, <2>2 DEF StartExecution, Executing, Fetched
    <3>2. Total(p)' <= Total(p)
      BY <1>0, <2>0, <2>2, <3>1, AheadNumbers DEF Total, Ahead, Larger
    <3> QED BY <1>0, <2>0, <3>1, <3>2, BoundKept, AheadNumbers DEF Bounded
  <2>3. CASE p = o /\ exec[p].pc = "off"
    <3>1. /\ Fetched(p)' = 0 /\ exec'[p].pc = "start"
          /\ exec'[p].remaining = Fetched(p)
      BY <1>0, <1>3, <2>3 DEF StartExecution, Executing, Fetched
    <3>2. Total(p)' = Total(p)
      BY <1>0, <2>0, <2>3, <3>1, AheadNumbers DEF Total, Ahead, Larger, Entered
    <3> QED BY <1>0, <2>0, <3>1, <3>2, BoundKept, AheadNumbers DEF Bounded
  <2> QED BY <2>1, <2>2, <2>3
<1> QED BY <1>1, <1>2, <1>3

LEMMA ExecuteBound ==
  ASSUME BoundInv, TypeInv', NEW p \in Orders, NEW o \in Orders, Execute(o)
  PROVE  Bounded(p)'
<1>0. /\ Bounded(p) /\ Bounded(o) /\ TypeInv
      /\ order \in [Orders -> Row] /\ exec \in [Orders -> Goroutine]
      /\ fills \in [Orders -> [rows : Nat, qty : Nat]]
      /\ refusals \in Nat /\ crashes \in Nat /\ overlaps \in Nat
      /\ exec[o].pc \in Filling => exec[o].qty > 0
  BY DEF BoundInv, LifeInv, TypeInv, TypeOK, FillFits, Row, Goroutine
<1>a. /\ Incidents' \in {Incidents, Incidents + 1}
      /\ refusals' = refusals + 1 => Incidents' = Incidents + 1
      /\ UNCHANGED <<asked, batch>> /\ Fetched(o)' = Fetched(o)
  <2>1. /\ UNCHANGED <<asked, batch, crashes, overlaps>>
        /\ refusals' = refusals \/ refusals' = refusals + 1
    BY <1>0, ExecuteOthers
  <2>2. CASE refusals' = refusals
    BY <1>0, <2>1, <2>2 DEF Incidents, Fetched
  <2>3. CASE refusals' = refusals + 1
    BY <1>0, <2>1, <2>3 DEF Incidents, Fetched
  <2> QED BY <2>1, <2>2, <2>3
<1>b. CASE p # o
  <2>1. exec'[p] = exec[p] /\ fills'[p] = fills[p] /\ order'[p] = order[p]
    BY <1>0, <1>b, ExecuteOthers
  <2> QED BY <1>0, <1>a, <1>b, <2>1, BoundOfUntouched
<1>c. /\ Fetched(o) \in Nat /\ order[o].remaining \in Nat /\ exec[o].remaining \in Nat
      /\ exec[o].qty \in Nat /\ exec[o].qty <= exec[o].remaining
      /\ fills[o].qty \in Nat /\ fills[o].rows \in Nat
      /\ asked[o].quantity \in Nat /\ Total(o) \in Nat
  BY <1>0, AheadNumbers
<1> SUFFICES ASSUME p = o PROVE Bounded(o)'
  BY <1>b
<1>1. CASE \/ BeginExecution(o) \/ ChooseFill(o) \/ SettleAccount(o) \/ CreditBank(o)
           \/ AddCommissionPaid(o) \/ SetOrderDone(o) \/ DeclineUnsettled(o)
  <2>1. /\ fills'[o] = fills[o] /\ order'[o].remaining = order[o].remaining
        /\ exec[o].pc # "off" /\ exec[o].pc \notin Entered /\ exec'[o].pc \notin Entered
        /\ \/ exec'[o].remaining = exec[o].remaining
           \/ exec'[o].pc = "off" /\ exec'[o].remaining = 0
    <3>1. CASE BeginExecution(o) \/ ChooseFill(o)
      BY <1>0, <3>1, ChooseWrites DEF BeginExecution, At, GoTo, Return, rowVars,
         Goroutine, Entered
    <3>2. CASE SettleAccount(o) \/ CreditBank(o) \/ AddCommissionPaid(o)
      BY <1>0, <3>2 DEF SettleAccount, AfterSettlement, CreditBank, AddCommissionPaid, At,
         GoTo, rowVars, Goroutine, Entered, Row
    <3>3. CASE SetOrderDone(o) \/ DeclineUnsettled(o)
      BY <1>0, <3>3 DEF SetOrderDone, DeclineUnsettled, At, Return, Goroutine, Entered, Row
    <3> QED BY <1>1, <3>1, <3>2, <3>3
  <2>2. Total(o)' <= Total(o)
    BY <1>a, <1>c, <2>1 DEF Total, Ahead, Larger
  <2> QED BY <1>0, <1>a, <1>c, <2>1, <2>2, BoundKept DEF Bounded
<1>2. CASE InsertPortion(o)
  <2>1. /\ order' = order /\ exec[o].pc = "portion" /\ exec[o].qty > 0
        /\ exec'[o].remaining = exec[o].remaining /\ exec'[o].qty = exec[o].qty
        /\ \/ exec'[o].pc = "price" /\ fills'[o] = fills[o]
           \/ /\ exec'[o].pc = "holding" /\ fills'[o].qty = fills[o].qty + exec[o].qty
              /\ fills'[o].rows = fills[o].rows + 1
    BY <1>0, <1>2 DEF InsertPortion, At, GoTo, Goroutine, Filling
  <2>2. Total(o)' <= Total(o)
    BY <1>a, <1>c, <2>1 DEF Total, Ahead, Larger, Entered
  <2>3. fills'[o].rows = 0 => fills'[o].qty = 0
    BY <1>0, <1>c, <2>1 DEF Bounded
  <2> QED BY <1>0, <1>a, <1>c, <2>1, <2>2, <2>3, BoundKept DEF Bounded
<1>3. CASE UpdateHolding(o) \/ SweepHolding(o)
  <2>1. /\ UNCHANGED <<order, fills>>
        /\ exec'[o].remaining = exec[o].remaining /\ exec'[o].qty = exec[o].qty
        /\ exec[o].pc \in {"holding", "sweep"} /\ exec'[o].pc \in {"sweep", "remaining"}
    BY <1>0, <1>3 DEF UpdateHolding, SweepHolding, At, GoTo, rowVars, Goroutine
  <2>2. Total(o)' = Total(o)
    BY <1>a, <1>c, <2>1 DEF Total, Ahead, Entered
  <2> QED BY <1>0, <1>a, <1>c, <2>1, <2>2, BoundKept DEF Bounded
<1>4. CASE UpdateRemainingPortions(o)
  <2> DEFINE left == exec[o].remaining - exec[o].qty
  <2>1. /\ fills' = fills /\ exec[o].pc = "remaining"
        /\ \/ order'[o].remaining = left
           \/ order' = order /\ refusals' = refusals + 1
        /\ exec'[o].remaining = left /\ exec'[o].pc \in {"done", "price"}
    BY <1>0, <1>4 DEF UpdateRemainingPortions, At, Row, Refused
  <2>2. left \in Nat /\ left <= exec[o].remaining
    BY <1>c
  <2> HIDE DEF left
  <2>3. Total(o) = fills[o].qty + Fetched(o) + left
    BY <1>c, <2>1, <2>2 DEF Total, Ahead, Entered, left
  <2>4. CASE order'[o].remaining = left
    <3>1. Total(o)' = Total(o)
      BY <1>a, <1>c, <2>1, <2>2, <2>3, <2>4 DEF Total, Ahead, Larger, Entered
    <3> QED BY <1>0, <1>a, <1>c, <2>1, <2>2, <2>4, <3>1, BoundKept DEF Bounded
  <2>5. CASE order' = order /\ refusals' = refusals + 1
    <3>1. Total(o)' <= Total(o) + order[o].remaining
      BY <1>a, <1>c, <2>1, <2>2, <2>3, <2>5 DEF Total, Ahead, Larger, Entered
    <3>2. Total(o)' <= Total(o) + asked[o].quantity
      BY <1>0, <1>c, <3>1, TotalAfter DEF Bounded
    <3> QED BY <1>0, <1>a, <1>c, <2>1, <2>2, <2>5, <3>2, BoundKept DEF Bounded
  <2> QED BY <2>1, <2>4, <2>5
<1> QED BY <1>1, <1>2, <1>3, <1>4 DEF Execute

LEMMA InitBoundInv == Init => BoundInv
<1> SUFFICES ASSUME Init, NEW o \in Orders PROVE Bounded(o)
  BY InitLifeInv DEF BoundInv
<1>1. /\ fills[o].qty = 0 /\ order[o].remaining = 0 /\ batch[o] = NotFetched
      /\ exec[o].remaining = 0 /\ exec[o].pc = "off" /\ Incidents = 0
  BY DEF Init, Incidents
<1>2. asked[o].quantity \in Nat /\ asked[o].quantity > 0
  BY InitTypeInv, AheadNumbers
<1>3. Fetched(o) = 0 /\ Total(o) = 0
  BY <1>1 DEF Fetched, Total, Ahead, Larger
<1>4. asked[o].quantity * (1 + 0) = asked[o].quantity
  BY <1>2
<1> QED BY <1>1, <1>2, <1>3, <1>4 DEF Bounded

LEMMA NextBoundInv == BoundInv /\ [Next]_vars => BoundInv'
<1> SUFFICES ASSUME BoundInv, [Next]_vars PROVE BoundInv'
  OBVIOUS
<1>1. LifeInv' /\ TypeInv'
  BY NextLifeInv, NextTypeInv DEF BoundInv, LifeInv
<1>2. ASSUME NEW p \in Orders PROVE Bounded(p)'
  <2>1. CASE UNCHANGED vars
    BY <2>1 DEF vars, rowVars, envVars, BoundInv, Bounded, Total, Ahead, Fetched, Incidents
  <2>2. CASE Next
    BY <1>1, <2>2, CallsBound, ScheduleBound, ExecuteBound DEF Next
  <2> QED BY <2>1, <2>2
<1> QED BY <1>1, <1>2 DEF BoundInv

(* Portions beyond the quantity of an order are at most its quantity once  *)
(* more for each crash, overlapping poll and refused statement.            *)
THEOREM OverfillIsBounded == Spec => []NoOverfill
<1>1. BoundInv => NoOverfill
  <2> SUFFICES ASSUME BoundInv, NEW o \in Orders
               PROVE  fills[o].qty <= asked[o].quantity * (1 + crashes + overlaps + refusals)
    BY DEF NoOverfill
  <2>1. /\ Total(o) <= asked[o].quantity * (1 + Incidents)
        /\ crashes \in Nat /\ overlaps \in Nat /\ refusals \in Nat /\ TypeInv
    BY DEF BoundInv, Bounded, LifeInv, TypeInv, TypeOK
  <2>2. fills[o].qty <= Total(o)
    BY <2>1, AheadNumbers DEF Total
  <2>3. 1 + Incidents = 1 + crashes + overlaps + refusals
    BY <2>1 DEF Incidents
  <2>4. asked[o].quantity * (1 + Incidents) \in Nat
    BY <2>1, AheadNumbers
  <2> QED BY <2>1, <2>2, <2>3, <2>4, AheadNumbers
<1>2. Init /\ [][Next]_vars => []BoundInv
  BY InitBoundInv, NextBoundInv, PTL
<1> QED BY <1>1, <1>2, PTL DEF Spec
-----------------------------------------------------------------------------
(* What the accounts, the bank and the portions say together.              *)

(* Paying for fills one by one or together is the same. *)
LEMMA PaidAdds ==
  ASSUME TypeOK, NEW o \in Orders, NEW n \in Nat, NEW m \in Nat, NEW q \in Nat, NEW r \in Nat
  PROVE  /\ Paid(o, n, q) \in Int /\ (Buys(o) => Paid(o, n, q) <= 0)
         /\ Paid(o, n + m, q + r) = Paid(o, n, q) + Paid(o, m, r)
         /\ Paid(o, 0, 0) = 0
<1> DEFINE p == asked[o].price
           f == asked[o].fee
<1>1. p \in Nat /\ f \in Nat
  BY AskedType
<1> HIDE DEF p, f
<1>2. /\ p * q \in Nat /\ p * r \in Nat /\ f * n \in Nat /\ f * m \in Nat
      /\ p * (q + r) = p * q + p * r /\ f * (n + m) = f * n + f * m
      /\ p * 0 = 0 /\ f * 0 = 0
  BY <1>1
<1>3. \A k, l \in Nat : Paid(o, k, l) = IF Buys(o) THEN 0 - (p * l + f * k) ELSE p * l - f * k
  BY DEF Paid, p, f
<1>4. /\ Paid(o, n, q) = IF Buys(o) THEN 0 - (p * q + f * n) ELSE p * q - f * n
      /\ Paid(o, m, r) = IF Buys(o) THEN 0 - (p * r + f * m) ELSE p * r - f * m
      /\ Paid(o, 0, 0) = IF Buys(o) THEN 0 - (p * 0 + f * 0) ELSE p * 0 - f * 0
      /\ Paid(o, n + m, q + r) = IF Buys(o) THEN 0 - (p * (q + r) + f * (n + m))
                                 ELSE p * (q + r) - f * (n + m)
  BY <1>3
<1> QED BY <1>2, <1>4

(* The terms of the books by the label of the goroutine. *)
MoneyForms ==
  \A o \in Orders :
    /\ Recorded(o) \in Int /\ Settled(o) \in Int /\ Fees(o) \in Int
    /\ Paid(o, 1, exec[o].qty) \in Int /\ (Buys(o) => Paid(o, 1, exec[o].qty) <= 0)
    /\ Settled(o) = Recorded(o) + IF exec[o].pc \in {"bank", "commission", "portion"}
                                  THEN Paid(o, 1, exec[o].qty) ELSE 0
    /\ Fees(o) = asked[o].fee * fills[o].rows
                   + IF exec[o].pc \in {"commission", "portion"} THEN asked[o].fee ELSE 0

LEMMA MoneyFormsNow == TypeInv => MoneyForms
<1> SUFFICES ASSUME TypeInv, NEW o \in Orders
             PROVE  /\ Recorded(o) \in Int /\ Settled(o) \in Int /\ Fees(o) \in Int
                    /\ Paid(o, 1, exec[o].qty) \in Int
                    /\ Buys(o) => Paid(o, 1, exec[o].qty) <= 0
                    /\ Settled(o) = Recorded(o)
                         + IF exec[o].pc \in {"bank", "commission", "portion"}
                           THEN Paid(o, 1, exec[o].qty) ELSE 0
                    /\ Fees(o) = asked[o].fee * fills[o].rows
                         + IF exec[o].pc \in {"commission", "portion"} THEN asked[o].fee ELSE 0
  BY DEF MoneyForms
<1>1. /\ TypeOK /\ fills[o].rows \in Nat /\ fills[o].qty \in Nat /\ exec[o].qty \in Nat
      /\ asked[o].fee \in Nat
  BY AheadNumbers, AskedType DEF TypeInv
<1>2. Recorded(o) \in Int /\ Paid(o, 1, exec[o].qty) \in Int /\ Paid(o, 0, 0) = 0
      /\ (Buys(o) => Paid(o, 1, exec[o].qty) <= 0)
  BY <1>1, PaidAdds DEF Recorded
<1>3. InFlight(o) = IF exec[o].pc \in {"bank", "commission", "portion"}
                    THEN Paid(o, 1, exec[o].qty) ELSE 0
  <2>1. 1 * exec[o].qty = exec[o].qty /\ 0 * exec[o].qty = 0
    BY <1>1
  <2> QED BY <1>2, <2>1 DEF InFlight, Unrecorded
<1>4. /\ asked[o].fee * fills[o].rows \in Int
      /\ asked[o].fee * (fills[o].rows + 1) = asked[o].fee * fills[o].rows + asked[o].fee
      /\ asked[o].fee * (fills[o].rows + 0) = asked[o].fee * fills[o].rows
  BY <1>1
<1> QED BY <1>1, <1>2, <1>3, <1>4 DEF Settled, Fees

LEMMA MoneyFormsAfter == TypeInv' => MoneyForms'
<1>1. (TypeInv => MoneyForms)'
  BY MoneyFormsNow, PTL
<1> QED BY <1>1

(* What a step does to the books: nothing; it settles a fill, passes on a  *)
(* fee or records a portion of one order; or it forgets what is in flight, *)
(* after an incident.                                                      *)
Same(p) == Settled(p)' = Settled(p) /\ Fees(p)' = Fees(p)
Rests ==
  /\ UNCHANGED <<asked, balance, bank>>
  /\ \A p \in Orders : Same(p)
Pays(o, d, e) ==
  /\ asked' = asked /\ \A p \in Orders \ {o} : Same(p)
  /\ Settled(o)' = Settled(o) + d /\ Fees(o)' = Fees(o) + e
  /\ balance' = [balance EXCEPT ![asked[o].account] = @ + d] /\ bank' = bank + e
Loses ==
  /\ UNCHANGED <<asked, balance, bank>> /\ ~Undisturbed'
  /\ \A p \in Orders :
       (Buys(p) => Settled(p)' >= Settled(p)) /\ Fees(p)' <= Fees(p)

LEMMA MoneyStays ==
  ASSUME TypeInv, TypeInv', asked' = asked, NEW p \in Orders, fills'[p] = fills[p],
         \/ exec'[p].pc = exec[p].pc /\ exec'[p].qty = exec[p].qty
         \/ /\ exec[p].pc \notin {"bank", "commission", "portion"}
            /\ exec'[p].pc \notin {"bank", "commission", "portion"}
  PROVE  Same(p)
<1>1. MoneyForms /\ MoneyForms'
  BY MoneyFormsNow, MoneyFormsAfter
<1>2. Recorded(p)' = Recorded(p)
  BY DEF Recorded, Paid, Buys
<1>3. exec'[p].qty = exec[p].qty => Paid(p, 1, exec[p].qty)' = Paid(p, 1, exec[p].qty)
  BY DEF Paid, Buys
<1> QED BY <1>1, <1>2, <1>3 DEF MoneyForms, Same

LEMMA SettleMoney ==
  ASSUME TypeInv, TypeInv', NEW o \in Orders, SettleAccount(o)
  PROVE  Rests \/ \E d \in Int, e \in Int : Pays(o, d, e)
<1>0. /\ exec \in [Orders -> Goroutine] /\ asked' = asked /\ fills' = fills /\ bank' = bank
      /\ exec[o].pc = "settle" /\ balance \in [Accounts -> Int] /\ bank \in Int
      /\ asked[o].account \in Accounts /\ asked[o].fee \in Nat
  BY AskedType DEF TypeInv, TypeOK, Goroutine, SettleAccount, At, rowVars
<1>1. \A p \in Orders \ {o} : Same(p)
  <2> TAKE p \in Orders \ {o}
  <2>1. exec'[p] = exec[p]
    BY ExecuteOthers DEF Execute
  <2> QED BY <1>0, <2>1, MoneyStays
<1>2. CASE balance' = balance /\ GoTo(o, "decline")
  <2>1. exec'[o].pc = "decline"
    BY <1>0, <1>2 DEF GoTo, Goroutine
  <2>2. Same(o)
    BY <1>0, <2>1, MoneyStays
  <2> QED BY <1>0, <1>1, <1>2, <2>2 DEF Rests
<1>3. CASE /\ GoTo(o, AfterSettlement(o))
           /\ balance' = [balance EXCEPT ![asked[o].account] = @ + Paid(o, 1, exec[o].qty)]
  <2>1. /\ exec'[o].pc = AfterSettlement(o) /\ exec'[o].qty = exec[o].qty
        /\ AfterSettlement(o) \in {"bank", "portion"}
        /\ AfterSettlement(o) = "portion" => asked[o].fee = 0
    BY <1>0, <1>3 DEF GoTo, Goroutine, AfterSettlement
  <2>2. MoneyForms /\ MoneyForms'
    BY MoneyFormsNow, MoneyFormsAfter
  <2>3. Recorded(o)' = Recorded(o) /\ Paid(o, 1, exec[o].qty)' = Paid(o, 1, exec[o].qty)
    BY <1>0, <2>1 DEF Recorded, Paid, Buys
  <2>4. Settled(o)' = Settled(o) + Paid(o, 1, exec[o].qty)
    BY <1>0, <2>1, <2>2, <2>3 DEF MoneyForms
  <2>5. Fees(o)' = Fees(o) + 0
    BY <1>0, <2>1, <2>2 DEF MoneyForms
  <2>6. Paid(o, 1, exec[o].qty) \in Int /\ bank' = bank + 0
    BY <1>0, <2>2 DEF MoneyForms
  <2>7. Pays(o, Paid(o, 1, exec[o].qty), 0)
    BY <1>0, <1>1, <1>3, <2>4, <2>5, <2>6 DEF Pays
  <2> QED BY <2>6, <2>7
<1>4. Paid(o, 1, exec[o].qty) = IF Buys(o) THEN 0 - Cost(o) ELSE Proceeds(o)
  <2>1. asked[o].price * exec[o].qty = exec[o].qty * asked[o].price
        /\ asked[o].fee * 1 = asked[o].fee /\ exec[o].qty * asked[o].price \in Nat
    BY AheadNumbers, AskedType DEF TypeInv
  <2> QED BY <1>0, <2>1 DEF Paid, Cost, Proceeds, Value
<1>5. Buys(o) => \A b \in Int : b - Cost(o) = b + Paid(o, 1, exec[o].qty)
  <2>1. Cost(o) \in Int
    BY AheadNumbers, AskedType DEF TypeInv, Cost, Value
  <2> QED BY <1>4, <2>1
<1>6. CASE /\ GoTo(o, AfterSettlement(o)) /\ Buys(o)
           /\ balance' = [balance EXCEPT ![asked[o].account] = @ - Cost(o)]
  <2>1. balance' = [balance EXCEPT ![asked[o].account] = @ + Paid(o, 1, exec[o].qty)]
    BY <1>0, <1>5, <1>6
  <2> QED BY <1>3, <1>6, <2>1
<1>7. CASE /\ GoTo(o, AfterSettlement(o)) /\ ~Buys(o)
           /\ balance' = [balance EXCEPT ![asked[o].account] = @ + Proceeds(o)]
  BY <1>3, <1>4, <1>7
<1> QED BY <1>2, <1>6, <1>7 DEF SettleAccount

LEMMA CreditMoney ==
  ASSUME TypeInv, TypeInv', NEW o \in Orders, CreditBank(o)
  PROVE  Loses \/ \E d \in Int, e \in Int : Pays(o, d, e)
<1>0. /\ exec \in [Orders -> Goroutine] /\ asked' = asked /\ fills' = fills
      /\ balance' = balance /\ exec[o].pc = "bank" /\ balance \in [Accounts -> Int]
      /\ bank \in Int /\ refusals \in Nat /\ crashes \in Nat
      /\ asked[o].account \in Accounts /\ asked[o].fee \in Nat
  BY AskedType DEF TypeInv, TypeOK, Goroutine, CreditBank, At, rowVars
<1>1. \A p \in Orders \ {o} : Same(p)
  <2> TAKE p \in Orders \ {o}
  <2>1. exec'[p] = exec[p]
    BY ExecuteOthers DEF Execute
  <2> QED BY <1>0, <2>1, MoneyStays
<1>2. MoneyForms /\ MoneyForms'
  BY MoneyFormsNow, MoneyFormsAfter
<1>3. Recorded(o)' = Recorded(o)
  BY <1>0 DEF Recorded, Paid, Buys
<1>4. CASE bank' = bank + asked[o].fee /\ GoTo(o, "commission")
  <2>1. exec'[o].pc = "commission" /\ exec'[o].qty = exec[o].qty
    BY <1>0, <1>4 DEF GoTo, Goroutine
  <2>2. Paid(o, 1, exec[o].qty)' = Paid(o, 1, exec[o].qty)
    BY <1>0, <2>1 DEF Paid, Buys
  <2>3. Settled(o)' = Settled(o) + 0 /\ Fees(o)' = Fees(o) + asked[o].fee
    <3>1. asked[o].fee * fills[o].rows \in Nat
      BY <1>0, AheadNumbers
    <3>2. Settled(o)' = Settled(o) + 0
      BY <1>0, <1>2, <1>3, <2>1, <2>2 DEF MoneyForms
    <3>3. Fees(o)' = Fees(o) + asked[o].fee
      BY <1>0, <1>2, <2>1, <3>1 DEF MoneyForms
    <3> QED BY <3>2, <3>3
  <2>4. balance' = [balance EXCEPT ![asked[o].account] = @ + 0]
    BY <1>0
  <2>5. Pays(o, 0, asked[o].fee)
    BY <1>0, <1>1, <1>4, <2>3, <2>4 DEF Pays
  <2> QED BY <1>0, <2>5
<1>5. CASE Refused("bank") /\ GoTo(o, "decline") /\ UNCHANGED bank
  <2>1. exec'[o].pc = "decline" /\ refusals' # 0
    BY <1>0, <1>5 DEF GoTo, Goroutine, Refused
  <2>2. (Buys(o) => Settled(o)' >= Settled(o)) /\ Fees(o)' <= Fees(o)
    BY <1>0, <1>2, <1>3, <2>1 DEF MoneyForms
  <2>3. \A p \in Orders \ {o} : Settled(p)' >= Settled(p) /\ Fees(p)' <= Fees(p)
    BY <1>1, <1>2 DEF Same, MoneyForms
  <2> QED BY <1>0, <1>5, <2>1, <2>2, <2>3 DEF Loses, Undisturbed
<1> QED BY <1>4, <1>5 DEF CreditBank

LEMMA PortionMoney ==
  ASSUME TypeInv, TypeInv', NEW o \in Orders, InsertPortion(o)
  PROVE  Loses \/ \E d \in Int, e \in Int : Pays(o, d, e)
<1>0. /\ exec \in [Orders -> Goroutine] /\ asked' = asked
      /\ balance' = balance /\ bank' = bank
      /\ exec[o].pc = "portion" /\ balance \in [Accounts -> Int]
      /\ bank \in Int /\ refusals \in Nat /\ crashes \in Nat
      /\ fills \in [Orders -> [rows : Nat, qty : Nat]]
      /\ asked[o].account \in Accounts /\ asked[o].fee \in Nat
      /\ fills[o].rows \in Nat /\ fills[o].qty \in Nat /\ exec[o].qty \in Nat
  BY AskedType DEF TypeInv, TypeOK, Goroutine, InsertPortion, At, moneyVars
<1>1. \A p \in Orders \ {o} : Same(p)
  <2> TAKE p \in Orders \ {o}
  <2>1. exec'[p] = exec[p] /\ fills'[p] = fills[p]
    BY ExecuteOthers DEF Execute
  <2> QED BY <1>0, <2>1, MoneyStays
<1>2. MoneyForms /\ MoneyForms'
  BY MoneyFormsNow, MoneyFormsAfter
<1>4. CASE /\ GoTo(o, "holding")
           /\ fills' = [fills EXCEPT ![o] =
                [rows |-> @.rows + 1, qty |-> @.qty + exec[o].qty]]
  <2>1. /\ exec'[o].pc = "holding" /\ fills'[o].rows = fills[o].rows + 1
        /\ fills'[o].qty = fills[o].qty + exec[o].qty
    BY <1>0, <1>4 DEF GoTo, Goroutine
  <2>2. Recorded(o)' = Paid(o, fills[o].rows + 1, fills[o].qty + exec[o].qty)
    BY <1>0, <2>1 DEF Recorded, Paid, Buys
  <2>3. Recorded(o)' = Recorded(o) + Paid(o, 1, exec[o].qty)
    <3>1. \A n, m, q, r \in Nat : Paid(o, n + m, q + r) = Paid(o, n, q) + Paid(o, m, r)
      BY PaidAdds DEF TypeInv
    <3>2. Paid(o, fills[o].rows + 1, fills[o].qty + exec[o].qty)
            = Paid(o, fills[o].rows, fills[o].qty) + Paid(o, 1, exec[o].qty)
      <4>1. PICK n \in Nat, q \in Nat, r \in Nat, m \in Nat :
              n = fills[o].rows /\ q = fills[o].qty /\ r = exec[o].qty /\ m = 1
        BY <1>0
      <4>2. Paid(o, n + m, q + r) = Paid(o, n, q) + Paid(o, m, r)
        BY <3>1
      <4> QED BY <4>1, <4>2
    <3>3. Recorded(o) = Paid(o, fills[o].rows, fills[o].qty)
      BY DEF Recorded
    <3> QED BY <2>2, <3>2, <3>3
  <2>4. asked[o].fee * (fills[o].rows + 1) = asked[o].fee * fills[o].rows + asked[o].fee
        /\ asked[o].fee * fills[o].rows \in Nat
    BY <1>0
  <2>5. Settled(o)' = Settled(o) + 0
    BY <1>0, <1>2, <2>1, <2>3 DEF MoneyForms
  <2>6. Fees(o)' = Fees(o) + 0
    BY <1>0, <1>2, <2>1, <2>4 DEF MoneyForms
  <2>7. balance' = [balance EXCEPT ![asked[o].account] = @ + 0] /\ bank' = bank + 0
    BY <1>0
  <2>8. Pays(o, 0, 0)
    BY <1>0, <1>1, <2>5, <2>6, <2>7 DEF Pays
  <2> QED BY <2>8
<1>5. CASE Refused("portion") /\ GoTo(o, "price") /\ UNCHANGED fills
  <2>1. exec'[o].pc = "price" /\ refusals' # 0
    BY <1>0, <1>5 DEF GoTo, Goroutine, Refused
  <2>2. Recorded(o)' = Recorded(o)
    BY <1>0, <1>5 DEF Recorded, Paid, Buys
  <2>3. asked[o].fee * fills[o].rows \in Nat
    BY <1>0
  <2>4. (Buys(o) => Settled(o)' >= Settled(o)) /\ Fees(o)' <= Fees(o)
    BY <1>0, <1>2, <1>5, <2>1, <2>2, <2>3 DEF MoneyForms
  <2>5. \A p \in Orders \ {o} : Settled(p)' >= Settled(p) /\ Fees(p)' <= Fees(p)
    BY <1>1, <1>2 DEF Same, MoneyForms
  <2> QED BY <1>0, <1>5, <2>1, <2>4, <2>5 DEF Loses, Undisturbed
<1> QED BY <1>4, <1>5 DEF InsertPortion

LEMMA CrashMoney ==
  ASSUME TypeInv, TypeInv', Crash
  PROVE  Loses
<1>0. /\ UNCHANGED <<asked, fills, balance, bank>> /\ crashes' # 0
      /\ \A p \in Orders : exec'[p].pc = "off" /\ asked[p].fee \in Nat
  BY AskedType DEF Crash, rowVars, moneyVars, TypeInv, TypeOK
<1>1. MoneyForms /\ MoneyForms'
  BY MoneyFormsNow, MoneyFormsAfter
<1>2. ASSUME NEW p \in Orders
      PROVE  (Buys(p) => Settled(p)' >= Settled(p)) /\ Fees(p)' <= Fees(p)
  <2>1. Recorded(p)' = Recorded(p)
    BY <1>0 DEF Recorded, Paid, Buys
  <2>2. asked[p].fee * fills[p].rows \in Nat
    BY <1>0, AheadNumbers
  <2>3. Buys(p) => Settled(p)' >= Settled(p)
    BY <1>0, <1>1, <2>1 DEF MoneyForms
  <2>4. Fees(p)' <= Fees(p)
    BY <1>0, <1>1, <2>2 DEF MoneyForms
  <2> QED BY <2>3, <2>4
<1> QED BY <1>0, <1>2 DEF Loses, Undisturbed

LEMMA MoneySteps ==
  ASSUME TypeInv, TypeInv', [Next]_vars
  PROVE  \/ Rests \/ Loses
         \/ \E o \in Orders : \E d \in Int, e \in Int : Pays(o, d, e)
<1>0. exec \in [Orders -> Goroutine] /\ batch \in [Orders -> Nat \cup {NotFetched}]
  BY DEF TypeInv, TypeOK, Goroutine
<1>1. UNCHANGED <<asked, fills, exec, balance, bank>> => Rests
  BY MoneyStays DEF Rests
<1>2. ASSUME NEW o \in Orders, Create(o) PROVE Rests
  BY <1>1, <1>2 DEF Create, CheckOrder, DetermineInitialStatus, InsertOrder,
     DeductActuaryUsedLimit, moneyVars, rowVars
<1>3. ASSUME NEW o \in Orders, NEW d \in Deciders, Decide(d, o) PROVE Rests
  BY <1>1, <1>3 DEF Decide, ReadPending, ApproveOrder, DeductApproved, DeclineOrder,
     moneyVars, rowVars
<1>4. ASSUME NEW o \in Orders, ReadCancellable(o) \/ CancelOrder(o) PROVE Rests
  BY <1>1, <1>4 DEF ReadCancellable, CancelOrder, moneyVars, rowVars
<1>5. ASSUME NEW o \in Orders, StartExecution(o) PROVE Rests
  <2>1. UNCHANGED <<asked, fills, balance, bank>>
    BY <1>5 DEF StartExecution, moneyVars, rowVars
  <2>2. ASSUME NEW p \in Orders PROVE Same(p)
    <3>1. exec'[p] = exec[p] \/ (exec[p].pc = "off" /\ exec'[p].pc = "start")
      BY <1>0, <1>5 DEF StartExecution, Executing
    <3> QED BY <2>1, <3>1, MoneyStays
  <2> QED BY <2>1, <2>2 DEF Rests
<1>6. ASSUME NEW o \in Orders, Execute(o),
             ~SettleAccount(o), ~CreditBank(o), ~InsertPortion(o)
      PROVE  Rests
  <2>1. UNCHANGED <<asked, fills, balance, bank>>
    BY <1>6 DEF Execute, BeginExecution, ChooseFill, AddCommissionPaid, UpdateHolding,
       SweepHolding, UpdateRemainingPortions, SetOrderDone, DeclineUnsettled,
       moneyVars, rowVars
  <2>2. Same(o)
    <3>1. CASE AddCommissionPaid(o)
      <4>1. /\ exec[o].pc = "commission" /\ exec'[o].pc = "portion"
            /\ exec'[o].qty = exec[o].qty
        BY <1>0, <3>1 DEF AddCommissionPaid, At, GoTo, Goroutine
      <4>2. MoneyForms /\ MoneyForms'
        BY MoneyFormsNow, MoneyFormsAfter
      <4>3. Recorded(o)' = Recorded(o) /\ Paid(o, 1, exec[o].qty)' = Paid(o, 1, exec[o].qty)
        BY <2>1, <4>1 DEF Recorded, Paid, Buys
      <4>4. Settled(o)' = Settled(o)
        BY <4>1, <4>2, <4>3 DEF MoneyForms
      <4>5. Fees(o)' = Fees(o)
        BY <2>1, <4>1, <4>2 DEF MoneyForms
      <4> QED BY <4>4, <4>5 DEF Same
    <3>2. CASE ~AddCommissionPaid(o)
      <4>1. /\ exec[o].pc \notin {"bank", "commission", "portion"}
            /\ exec'[o].pc \notin {"bank", "commission", "portion"}
        <5>1. CASE BeginExecution(o) \/ ChooseFill(o)
          BY <1>0, <5>1, ChooseWrites DEF BeginExecution, At, GoTo, Return, Goroutine
        <5>2. CASE UpdateHolding(o) \/ SweepHolding(o) \/ UpdateRemainingPortions(o)
          BY <1>0, <5>2 DEF UpdateHolding, SweepHolding, UpdateRemainingPortions, At,
             GoTo, Goroutine
        <5>3. CASE SetOrderDone(o) \/ DeclineUnsettled(o)
          BY <1>0, <5>3 DEF SetOrderDone, DeclineUnsettled, At, Return
        <5> QED BY <1>6, <3>2, <5>1, <5>2, <5>3 DEF Execute
      <4> QED BY <2>1, <4>1, MoneyStays
    <3> QED BY <3>1, <3>2
  <2>3. \A p \in Orders \ {o} : Same(p)
    <3> TAKE p \in Orders \ {o}
    <3>1. exec'[p] = exec[p]
      BY <1>6, ExecuteOthers
    <3> QED BY <2>1, <3>1, MoneyStays
  <2> QED BY <2>1, <2>2, <2>3, SMTT(30) DEF Rests
<1>7. Poll => Rests
  BY <1>1 DEF Poll, moneyVars, rowVars
<1>8. UNCHANGED vars => Rests
  BY <1>1 DEF vars, moneyVars, rowVars
<1>9. ASSUME NEW o \in Orders, SettleAccount(o) \/ CreditBank(o) \/ InsertPortion(o)
      PROVE  Rests \/ Loses \/ \E d \in Int, e \in Int : Pays(o, d, e)
  BY <1>9, SettleMoney, CreditMoney, PortionMoney
<1> QED
  BY <1>2, <1>3, <1>4, <1>5, <1>6, <1>7, <1>8, <1>9, CrashMoney DEF Next

(* Incidents are not forgotten. *)
LEMMA IncidentsStay ==
  ASSUME TypeInv, [Next]_vars
  PROVE  /\ Undisturbed' => Undisturbed
         /\ overlaps' \in Nat /\ overlaps' >= overlaps
<1>0. refusals \in Nat /\ crashes \in Nat /\ overlaps \in Nat
  BY DEF TypeInv, TypeOK
<1>1. ASSUME NEW o \in Orders, Create(o)
      PROVE  refusals' \in {refusals, refusals + 1} /\ UNCHANGED <<crashes, overlaps>>
  BY <1>1 DEF Create, CheckOrder, DetermineInitialStatus, InsertOrder,
     DeductActuaryUsedLimit, Succeeds, Refused, envVars
<1>2. ASSUME NEW o \in Orders, NEW d \in Deciders, Decide(d, o)
      PROVE  refusals' \in {refusals, refusals + 1} /\ UNCHANGED <<crashes, overlaps>>
  BY <1>2 DEF Decide, ReadPending, ApproveOrder, DeductApproved, DeclineOrder,
     Succeeds, Refused, envVars
<1>3. ASSUME NEW o \in Orders, ReadCancellable(o) \/ CancelOrder(o) \/ StartExecution(o)
      PROVE  refusals' \in {refusals, refusals + 1} /\ UNCHANGED <<crashes, overlaps>>
  BY <1>3 DEF ReadCancellable, CancelOrder, StartExecution, Succeeds, Refused, envVars
<1>4. ASSUME NEW o \in Orders, Execute(o)
      PROVE  refusals' \in {refusals, refusals + 1} /\ UNCHANGED <<crashes, overlaps>>
  BY <1>4, ExecuteOthers
<1>5. Poll \/ Crash \/ UNCHANGED vars =>
        /\ refusals' = refusals /\ crashes' \in {crashes, crashes + 1}
        /\ overlaps' \in {overlaps, overlaps + 1}
  BY <1>0 DEF Poll, Crash, vars, envVars
<1>6. /\ refusals' \in {refusals, refusals + 1} /\ crashes' \in {crashes, crashes + 1}
      /\ overlaps' \in {overlaps, overlaps + 1}
  BY <1>1, <1>2, <1>3, <1>4, <1>5 DEF Next
<1> QED BY <1>0, <1>6 DEF Undisturbed

SettledOn(a) == SumOver(On(a), Settled)
AllFees == SumOver(Orders, Fees)

LEMMA OnIsFinite == \A a : IsFiniteSet(On(a)) /\ On(a) \subseteq Orders
  BY FiniteAssumption, FS_Subset DEF On

LEMMA SumsAreIntegers ==
  ASSUME TypeInv
  PROVE  AllFees \in Int /\ \A a \in Accounts : SettledOn(a) \in Int
<1>1. MoneyForms
  BY MoneyFormsNow
<1>2. ASSUME NEW a \in Accounts PROVE SettledOn(a) \in Int
  <2> DEFINE f == [x \in On(a) |-> Settled(x)]
  <2>1. \A x \in On(a) : f[x] \in Int
    BY <1>1, OnIsFinite DEF MoneyForms
  <2>2. SettledOn(a) = SumFunctionOnSet(f, On(a))
    BY DEF SettledOn, SumOver
  <2> HIDE DEF f
  <2> QED BY <2>1, <2>2, SumInt, OnIsFinite
<1>3. AllFees \in Int
  <2> DEFINE f == [x \in Orders |-> Fees(x)]
  <2>1. \A x \in Orders : f[x] \in Int
    BY <1>1 DEF MoneyForms
  <2>2. AllFees = SumFunctionOnSet(f, Orders)
    BY DEF AllFees, SumOver
  <2> HIDE DEF f
  <2> QED BY <2>1, <2>2, SumInt, FiniteAssumption
<1> QED BY <1>2, <1>3

LEMMA PaysMovesSums ==
  ASSUME TypeInv, NEW o \in Orders, NEW d \in Int, NEW e \in Int, Pays(o, d, e)
  PROVE  /\ AllFees' = AllFees + e
         /\ \A a \in Accounts :
              SettledOn(a)' = SettledOn(a) + IF a = asked[o].account THEN d ELSE 0
<1>1. MoneyForms
  BY MoneyFormsNow
<1>2. ASSUME NEW a \in Accounts
      PROVE  SettledOn(a)' = SettledOn(a) + IF a = asked[o].account THEN d ELSE 0
  <2> DEFINE f == [x \in On(a) |-> Settled(x)]
             g == [x \in On(a) |-> Settled(x)']
  <2>1. On(a)' = On(a) /\ (o \in On(a) <=> a = asked[o].account)
    BY DEF Pays, On
  <2>2. \A x \in On(a) : f[x] \in Int
    BY <1>1, OnIsFinite DEF MoneyForms
  <2>3. \A y \in On(a) \ {o} : g[y] = f[y]
    BY OnIsFinite DEF Pays, Same
  <2>4. o \in On(a) => g[o] = f[o] + d
    BY DEF Pays
  <2>5. SettledOn(a) = SumFunctionOnSet(f, On(a)) /\ SettledOn(a)' = SumFunctionOnSet(g, On(a))
    BY <2>1 DEF SettledOn, SumOver
  <2> HIDE DEF f, g
  <2>6. SumFunctionOnSet(g, On(a)) = SumFunctionOnSet(f, On(a)) + IF o \in On(a) THEN d ELSE 0
    BY <2>2, <2>3, <2>4, SumMoves, OnIsFinite
  <2> QED BY <2>1, <2>5, <2>6
<1>3. AllFees' = AllFees + e
  <2> DEFINE f == [x \in Orders |-> Fees(x)]
             g == [x \in Orders |-> Fees(x)']
  <2>1. \A x \in Orders : f[x] \in Int
    BY <1>1 DEF MoneyForms
  <2>2. \A y \in Orders \ {o} : g[y] = f[y]
    BY DEF Pays, Same
  <2>3. o \in Orders => g[o] = f[o] + e
    BY DEF Pays
  <2>4. AllFees = SumFunctionOnSet(f, Orders) /\ AllFees' = SumFunctionOnSet(g, Orders)
    BY DEF AllFees, SumOver
  <2> HIDE DEF f, g
  <2>5. SumFunctionOnSet(g, Orders) = SumFunctionOnSet(f, Orders) + IF o \in Orders THEN e ELSE 0
    BY <2>1, <2>2, <2>3, SumMoves, FiniteAssumption
  <2> QED BY <2>4, <2>5
<1> QED BY <1>2, <1>3

LEMMA RestsKeepsSums ==
  ASSUME Rests
  PROVE  AllFees' = AllFees /\ \A a \in Accounts : SettledOn(a)' = SettledOn(a)
<1>1. ASSUME NEW a \in Accounts PROVE SettledOn(a)' = SettledOn(a)
  <2>1. On(a)' = On(a) /\ \A x \in On(a) : Settled(x)' = Settled(x)
    BY DEF Rests, On, Same
  <2>2. [x \in On(a) |-> Settled(x)'] = [x \in On(a) |-> Settled(x)]
    BY <2>1
  <2> QED BY <2>1, <2>2 DEF SettledOn, SumOver
<1>2. [x \in Orders |-> Fees(x)'] = [x \in Orders |-> Fees(x)]
  BY DEF Rests, Same
<1> QED BY <1>1, <1>2 DEF AllFees, SumOver

BooksInv == TypeInv /\ BooksBalance

LEMMA BooksAreSums ==
  BooksBalance <=> (Undisturbed => /\ \A a \in Accounts : balance[a] = InitBalance[a] + SettledOn(a)
                                   /\ bank = AllFees)
  BY DEF BooksBalance, SettledOn, AllFees

LEMMA BooksAreSumsAfter ==
  BooksBalance' <=> (Undisturbed' => /\ \A a \in Accounts : balance'[a] = InitBalance[a] + SettledOn(a)'
                                     /\ bank' = AllFees')
  BY DEF BooksBalance, SettledOn, AllFees

LEMMA NextBooksInv == BooksInv /\ [Next]_vars => BooksInv'
<1> SUFFICES ASSUME BooksInv, [Next]_vars PROVE BooksInv'
  OBVIOUS
<1>0. /\ TypeInv /\ TypeInv' /\ (Undisturbed' => Undisturbed)
      /\ balance \in [Accounts -> Int] /\ bank \in Int
  BY NextTypeInv, IncidentsStay DEF BooksInv, TypeInv, TypeOK
<1>a. \A a \in Accounts : InitBalance[a] \in Int
  BY AmountsAssumption
<1> SUFFICES ASSUME Undisturbed'
             PROVE  /\ \A a \in Accounts : balance'[a] = InitBalance[a] + SettledOn(a)'
                    /\ bank' = AllFees'
  BY <1>0, BooksAreSumsAfter DEF BooksInv
<1>1. /\ \A a \in Accounts : balance[a] = InitBalance[a] + SettledOn(a)
      /\ bank = AllFees
  BY <1>0, BooksAreSums DEF BooksInv
<1>2. AllFees \in Int /\ \A a \in Accounts : SettledOn(a) \in Int
  BY <1>0, SumsAreIntegers
<1>3. CASE Rests
  BY <1>1, <1>3, RestsKeepsSums DEF Rests
<1>4. ASSUME NEW o \in Orders, NEW d \in Int, NEW e \in Int, Pays(o, d, e)
      PROVE  /\ \A a \in Accounts : balance'[a] = InitBalance[a] + SettledOn(a)'
             /\ bank' = AllFees'
  <2>1. /\ AllFees' = AllFees + e /\ bank' = bank + e
        /\ balance' = [balance EXCEPT ![asked[o].account] = @ + d]
    BY <1>0, <1>4, PaysMovesSums DEF Pays
  <2>2. ASSUME NEW a \in Accounts PROVE balance'[a] = InitBalance[a] + SettledOn(a)'
    <3>1. SettledOn(a)' = SettledOn(a) + IF a = asked[o].account THEN d ELSE 0
      BY <1>0, <1>4, PaysMovesSums
    <3>2. balance'[a] = balance[a] + IF a = asked[o].account THEN d ELSE 0
      BY <1>0, <2>1
    <3> QED BY <1>a, <1>1, <1>2, <3>1, <3>2
  <2> QED BY <1>1, <2>1, <2>2
<1>5. CASE Loses
  BY <1>5 DEF Loses
<1> QED BY <1>0, <1>3, <1>4, <1>5, MoneySteps

LEMMA InitSums ==
  Init => AllFees = 0 /\ \A a \in Accounts : SettledOn(a) = 0
<1> SUFFICES ASSUME Init PROVE AllFees = 0 /\ \A a \in Accounts : SettledOn(a) = 0
  OBVIOUS
<1>1. ASSUME NEW o \in Orders PROVE Settled(o) = 0 /\ Fees(o) = 0
  <2>1. MoneyForms /\ TypeInv
    BY InitTypeInv, MoneyFormsNow
  <2>2. fills[o].rows = 0 /\ fills[o].qty = 0 /\ exec[o].pc = "off"
    BY DEF Init
  <2>3. Paid(o, 0, 0) = 0 /\ asked[o].fee * 0 = 0
    BY <2>1, PaidAdds, AskedType DEF TypeInv
  <2>4. Recorded(o) = 0
    BY <2>2, <2>3 DEF Recorded
  <2> HIDE DEF Init
  <2> QED BY <2>1, <2>2, <2>3, <2>4 DEF MoneyForms
<1>2. AllFees = 0
  BY <1>1, SumZero, FiniteAssumption DEF AllFees, SumOver
<1>3. ASSUME NEW a \in Accounts PROVE SettledOn(a) = 0
  <2> DEFINE f == [x \in On(a) |-> Settled(x)]
  <2>1. \A x \in On(a) : f[x] = 0
    BY <1>1, OnIsFinite
  <2>2. SettledOn(a) = SumFunctionOnSet(f, On(a))
    BY DEF SettledOn, SumOver
  <2> HIDE DEF f
  <2> QED BY <2>1, <2>2, SumZero, OnIsFinite
<1> QED BY <1>2, <1>3

(* While nothing fails every dinar on an account is accounted for by the   *)
(* portions and the fills under way, and the bank has the fee of each.     *)
THEOREM OrderBooksBalance == Spec => []BooksBalance
<1>1. Init => BooksInv
  <2> SUFFICES ASSUME Init PROVE BooksBalance
    BY InitTypeInv DEF BooksInv
  <2>1. balance = InitBalance /\ bank = 0 /\ \A a \in Accounts : InitBalance[a] \in Int
    BY AmountsAssumption DEF Init
  <2>2. AllFees = 0 /\ \A a \in Accounts : SettledOn(a) = 0
    BY InitSums
  <2> HIDE DEF Init
  <2> QED BY <2>1, <2>2, BooksAreSums
<1>2. Init /\ [][Next]_vars => []BooksInv
  BY <1>1, NextBooksInv, PTL
<1>3. BooksInv => BooksBalance
  BY DEF BooksInv
<1> QED BY <1>2, <1>3, PTL DEF Spec

(* With the fills under way counted in, what is paid for stays paid for:   *)
(* an incident forgets a fill that was paid, never one that was not.       *)
PaidFor ==
  /\ \A a \in Accounts : On(a) \subseteq Buying => balance[a] <= InitBalance[a] + SettledOn(a)
  /\ bank >= AllFees

PaidInv == TypeInv /\ PaidFor

LEMMA LosesMovesSums ==
  ASSUME TypeInv, TypeInv', Loses
  PROVE  /\ AllFees' <= AllFees
         /\ \A a \in Accounts : On(a) \subseteq Buying => SettledOn(a)' >= SettledOn(a)
<1>1. MoneyForms /\ MoneyForms'
  BY MoneyFormsNow, MoneyFormsAfter
<1>2. ASSUME NEW a \in Accounts, On(a) \subseteq Buying
      PROVE  SettledOn(a)' >= SettledOn(a)
  <2> DEFINE f == [x \in On(a) |-> Settled(x)]
             g == [x \in On(a) |-> Settled(x)']
  <2>1. On(a)' = On(a)
    BY DEF Loses, On
  <2>2. \A x \in On(a) : f[x] \in Int /\ g[x] \in Int /\ f[x] <= g[x]
    BY <1>1, <1>2, OnIsFinite DEF MoneyForms, Loses, Buying
  <2>3. SettledOn(a) = SumFunctionOnSet(f, On(a)) /\ SettledOn(a)' = SumFunctionOnSet(g, On(a))
    BY <2>1 DEF SettledOn, SumOver
  <2> HIDE DEF f, g
  <2>4. SumFunctionOnSet(f, On(a)) <= SumFunctionOnSet(g, On(a))
    BY <2>2, SumMonotone, OnIsFinite
  <2>5. SumFunctionOnSet(f, On(a)) \in Int /\ SumFunctionOnSet(g, On(a)) \in Int
    BY <2>2, SumInt, OnIsFinite
  <2> QED BY <2>3, <2>4, <2>5
<1>3. AllFees' <= AllFees
  <2> DEFINE f == [x \in Orders |-> Fees(x)]
             g == [x \in Orders |-> Fees(x)']
  <2>1. \A x \in Orders : f[x] \in Int /\ g[x] \in Int /\ g[x] <= f[x]
    BY <1>1 DEF MoneyForms, Loses
  <2>2. AllFees = SumFunctionOnSet(f, Orders) /\ AllFees' = SumFunctionOnSet(g, Orders)
    BY DEF AllFees, SumOver
  <2> HIDE DEF f, g
  <2>3. SumFunctionOnSet(g, Orders) <= SumFunctionOnSet(f, Orders)
    BY <2>1, SumMonotone, FiniteAssumption
  <2> QED BY <2>2, <2>3
<1> QED BY <1>2, <1>3

LEMMA IntegersAfter == TypeInv' => AllFees' \in Int /\ \A a \in Accounts : SettledOn(a)' \in Int
<1>1. (TypeInv => AllFees \in Int /\ \A a \in Accounts : SettledOn(a) \in Int)'
  <2>1. TypeInv => AllFees \in Int /\ \A a \in Accounts : SettledOn(a) \in Int
    BY SumsAreIntegers
  <2> QED BY <2>1, PTL
<1> QED BY <1>1

LEMMA NextPaidInv == PaidInv /\ [Next]_vars => PaidInv'
<1> SUFFICES ASSUME PaidInv, [Next]_vars PROVE PaidInv'
  OBVIOUS
<1>0. /\ TypeInv /\ TypeInv' /\ balance \in [Accounts -> Int] /\ bank \in Int
      /\ \A a \in Accounts : InitBalance[a] \in Int
  BY NextTypeInv, AmountsAssumption DEF PaidInv, TypeInv, TypeOK
<1>1. /\ AllFees \in Int /\ AllFees' \in Int
      /\ \A a \in Accounts : SettledOn(a) \in Int /\ SettledOn(a)' \in Int
  BY <1>0, SumsAreIntegers, IntegersAfter
<1>2. /\ \A a \in Accounts : On(a) \subseteq Buying => balance[a] <= InitBalance[a] + SettledOn(a)
      /\ bank >= AllFees
  BY DEF PaidInv, PaidFor
<1>3. asked' = asked => \A a \in Accounts : On(a)' = On(a) /\ Buying' = Buying
  BY DEF On, Buying, Buys
<1>4. CASE Rests
  <2>1. /\ AllFees' = AllFees /\ \A a \in Accounts : SettledOn(a)' = SettledOn(a)
        /\ asked' = asked /\ balance' = balance /\ bank' = bank
    BY <1>4, RestsKeepsSums DEF Rests
  <2> QED BY <1>0, <1>2, <1>3, <2>1 DEF PaidInv, PaidFor
<1>5. CASE Loses
  <2>1. /\ AllFees' <= AllFees
        /\ \A a \in Accounts : On(a) \subseteq Buying => SettledOn(a)' >= SettledOn(a)
        /\ asked' = asked /\ balance' = balance /\ bank' = bank
    BY <1>0, <1>5, LosesMovesSums DEF Loses
  <2>2. ASSUME NEW a \in Accounts, On(a) \subseteq Buying
        PROVE  balance[a] <= InitBalance[a] + SettledOn(a)'
    BY <1>0, <1>1, <1>2, <2>1, <2>2
  <2> QED BY <1>0, <1>1, <1>2, <1>3, <2>1, <2>2 DEF PaidInv, PaidFor
<1>6. ASSUME NEW o \in Orders, NEW d \in Int, NEW e \in Int, Pays(o, d, e) PROVE PaidInv'
  <2>1. /\ AllFees' = AllFees + e /\ bank' = bank + e /\ asked' = asked
        /\ balance' = [balance EXCEPT ![asked[o].account] = @ + d]
    BY <1>0, <1>6, PaysMovesSums DEF Pays
  <2>2. ASSUME NEW a \in Accounts, On(a) \subseteq Buying
        PROVE  balance'[a] <= InitBalance[a] + SettledOn(a)'
    <3>1. SettledOn(a)' = SettledOn(a) + IF a = asked[o].account THEN d ELSE 0
      BY <1>0, <1>6, PaysMovesSums
    <3>2. balance'[a] = balance[a] + IF a = asked[o].account THEN d ELSE 0
      BY <1>0, <2>1
    <3>3. balance[a] <= InitBalance[a] + SettledOn(a)
      BY <1>2, <2>2
    <3> QED BY <1>0, <1>1, <3>1, <3>2, <3>3
  <2> QED BY <1>0, <1>1, <1>2, <1>3, <2>1, <2>2 DEF PaidInv, PaidFor
<1> QED BY <1>0, <1>4, <1>5, <1>6, MoneySteps

LEMMA PaidForFills == PaidInv => FillsArePaid
<1> SUFFICES ASSUME PaidInv PROVE FillsArePaid
  OBVIOUS
<1>0. /\ TypeInv /\ MoneyForms /\ balance \in [Accounts -> Int] /\ bank \in Int
      /\ \A a \in Accounts : InitBalance[a] \in Int
      /\ AllFees \in Int /\ \A a \in Accounts : SettledOn(a) \in Int
  BY MoneyFormsNow, AmountsAssumption, SumsAreIntegers DEF PaidInv, TypeInv, TypeOK
<1>1. ASSUME NEW a \in Accounts, On(a) \subseteq Buying
      PROVE  balance[a] <= InitBalance[a] + SumOver(On(a), Recorded)
  <2> DEFINE f == [x \in On(a) |-> Settled(x)]
             g == [x \in On(a) |-> Recorded(x)]
  <2>1. \A x \in On(a) : f[x] \in Int /\ g[x] \in Int /\ f[x] <= g[x]
    BY <1>0, <1>1, OnIsFinite DEF MoneyForms, Buying
  <2>2. SettledOn(a) = SumFunctionOnSet(f, On(a))
        /\ SumOver(On(a), Recorded) = SumFunctionOnSet(g, On(a))
    BY DEF SettledOn, SumOver
  <2> HIDE DEF f, g
  <2>3. /\ SumFunctionOnSet(f, On(a)) <= SumFunctionOnSet(g, On(a))
        /\ SumFunctionOnSet(g, On(a)) \in Int
    BY <2>1, SumMonotone, SumInt, OnIsFinite
  <2>4. balance[a] <= InitBalance[a] + SettledOn(a)
    BY <1>1 DEF PaidInv, PaidFor
  <2>5. /\ SettledOn(a) <= SumOver(On(a), Recorded) /\ SumOver(On(a), Recorded) \in Int
    BY <2>2, <2>3
  <2>6. SettledOn(a) \in Int /\ balance[a] \in Int /\ InitBalance[a] \in Int
    BY <1>0
  <2> QED BY <2>4, <2>5, <2>6
<1>2. bank >= SumFunctionOnSet([x \in Orders |-> asked[x].fee * fills[x].rows], Orders)
  <2> DEFINE f == [x \in Orders |-> asked[x].fee * fills[x].rows]
             g == [x \in Orders |-> Fees(x)]
  <2>1. \A x \in Orders : f[x] \in Int /\ g[x] \in Int /\ f[x] <= g[x]
    <3> TAKE x \in Orders
    <3>1. asked[x].fee \in Nat /\ asked[x].fee * fills[x].rows \in Nat
      BY <1>0, AheadNumbers, AskedType DEF TypeInv
    <3> QED BY <1>0, <3>1 DEF MoneyForms
  <2>2. AllFees = SumFunctionOnSet(g, Orders)
    BY DEF AllFees, SumOver
  <2> SUFFICES bank >= SumFunctionOnSet(f, Orders)
    OBVIOUS
  <2> HIDE DEF f, g
  <2>3. /\ SumFunctionOnSet(f, Orders) <= SumFunctionOnSet(g, Orders)
        /\ SumFunctionOnSet(f, Orders) \in Int
    BY <2>1, SumMonotone, SumInt, FiniteAssumption
  <2>4. bank >= AllFees
    BY DEF PaidInv, PaidFor
  <2> QED BY <1>0, <2>2, <2>3, <2>4
<1>3. bank >= SumOver(Orders, LAMBDA o : asked[o].fee * fills[o].rows)
  BY <1>2 DEF SumOver
<1> QED BY <1>1, <1>3 DEF FillsArePaid

(* However often statements fail and the process dies, no portion is       *)
(* recorded that the account of its order did not pay for, and no fee of   *)
(* one that the bank did not get.                                          *)
THEOREM PortionsArePaid == Spec => []FillsArePaid
<1>1. Init => PaidInv
  <2> SUFFICES ASSUME Init PROVE PaidFor
    BY InitTypeInv DEF PaidInv
  <2>1. balance = InitBalance /\ bank = 0 /\ \A a \in Accounts : InitBalance[a] \in Int
    BY AmountsAssumption DEF Init
  <2>2. AllFees = 0 /\ \A a \in Accounts : SettledOn(a) = 0
    BY InitSums
  <2> HIDE DEF Init
  <2> QED BY <2>1, <2>2 DEF PaidFor
<1>2. Init /\ [][Next]_vars => []PaidInv
  BY <1>1, NextPaidInv, PTL
<1> QED BY <1>2, PaidForFills, PTL DEF Spec
-----------------------------------------------------------------------------
(* The limits of the agents.                                               *)

(* The listings that agents trade are quoted in dinars: a supervisor's     *)
(* approval charges the limit in the currency of the listing.              *)
QuotedInDinars ==
  \A r \in Requests : \A o \in Orders : r[o].agent # None => r[o].rate = 1

(* What the limit must have been charged for an order by now. *)
Owed(o) == IF order[o].status = "APPROVED" /\ ~AboutToCharge(o) THEN Charge(o) ELSE 0
OwedBy(g) == SumFunctionOnSet([x \in BoughtBy(g) |-> Owed(x)], BoughtBy(g))

ChargeInv ==
  /\ LifeInv
  /\ Undisturbed => /\ \A o \in Orders : create[o] # "asSupervisor"
                    /\ \A g \in Agents : used[g] >= OwedBy(g)

(* What a step does to the limits: nothing is charged and no more is owed, *)
(* or a call charges what it was about to.                                 *)
AgentBuys(p) == Buys(p) /\ asked[p].agent \in Agents
NoMoreOwed == used' = used /\ \A p \in Orders : AgentBuys(p) => Owed(p)' <= Owed(p)
Charges(o) ==
  /\ \A g \in Agents :
       used'[g] >= used[g] + IF AgentBuys(o) /\ g = asked[o].agent THEN Charge(o) ELSE 0
  /\ Owed(o) = 0
  /\ order' = order /\ Owed(o)' <= Charge(o)
  /\ \A p \in Orders \ {o} : Owed(p)' = Owed(p)

LEMMA OwedNumbers ==
  TypeInv => \A o \in Orders : Charge(o) \in Nat /\ Owed(o) \in Nat
<1> SUFFICES ASSUME TypeInv, NEW o \in Orders PROVE Charge(o) \in Nat /\ Owed(o) \in Nat
  OBVIOUS
<1>1. asked[o].total \in Nat /\ asked[o].rate \in Nat
  BY AskedType DEF TypeInv
<1>2. Charge(o) \in Nat
  BY <1>1 DEF Charge
<1> QED BY <1>2 DEF Owed

LEMMA OwedNumbersAfter ==
  TypeInv' => \A o \in Orders : Charge(o)' \in Nat /\ Owed(o)' \in Nat
<1>1. (TypeInv => \A o \in Orders : Charge(o) \in Nat /\ Owed(o) \in Nat)'
  BY OwedNumbers, PTL
<1> QED BY <1>1

(* Nothing more is owed for an order whose row and calls stay as they are, *)
(* or that is not approved afterwards, or about to be charged.             *)
LEMMA OwedStays ==
  ASSUME TypeInv, TypeInv', asked' = asked, NEW p \in Orders,
         \/ order'[p].status = order[p].status /\ (AboutToCharge(p) => AboutToCharge(p)')
         \/ order'[p].status # "APPROVED"
         \/ AboutToCharge(p)'
  PROVE  Owed(p)' <= Owed(p)
<1>1. Charge(p)' = Charge(p) /\ Charge(p) \in Nat /\ Owed(p) \in Nat
  BY OwedNumbers DEF Charge
<1> QED BY <1>1 DEF Owed

LEMMA LimitGrows ==
  ASSUME TypeInv, NEW o \in Orders, NEW amount \in Nat, AddUsedLimit(o, amount),
         AgentBuys(o) => amount = Charge(o)
  PROVE  \A g \in Agents :
           used'[g] >= used[g] + IF AgentBuys(o) /\ g = asked[o].agent THEN Charge(o) ELSE 0
<1> TAKE g \in Agents
<1>1. used \in [Agents -> Nat] /\ used[g] \in Nat
  BY DEF TypeInv, TypeOK
<1>2. used'[g] = IF g = asked[o].agent THEN used[g] + amount ELSE used[g]
  BY <1>1 DEF AddUsedLimit
<1> QED BY <1>1, <1>2

LEMMA CreateCharges ==
  ASSUME LifeInv, TypeInv', NEW o \in Orders, Create(o), refusals' = refusals,
         create[o] # "asSupervisor"
  PROVE  /\ NoMoreOwed \/ Charges(o)
         /\ create'[o] # "asSupervisor" /\ \A p \in Orders \ {o} : create'[p] = create[p]
<1>0. /\ TypeInv /\ BeforeApproval(o) /\ refusals \in Nat /\ order \in [Orders -> Row]
      /\ create \in [Orders -> {"idle", "checked", "APPROVED", "PENDING",
                               "asSupervisor", "deduct", "end"}]
      /\ asked' = asked /\ decision' = decision /\ None \notin Agents
  BY NamesAssumption DEF LifeInv, TypeInv, TypeOK, Row, Create, CheckOrder,
     DetermineInitialStatus, InsertOrder, DeductActuaryUsedLimit
<1>1. \A p \in Orders \ {o} : AboutToCharge(p)' <=> AboutToCharge(p)
  BY <1>0 DEF Create, CheckOrder, DetermineInitialStatus, InsertOrder,
     DeductActuaryUsedLimit, AboutToCharge
<1>2. \A l : ~Refused(l)
  BY <1>0 DEF Refused
<1>3. CASE CheckOrder(o) \/ DetermineInitialStatus(o)
  <2>1. /\ order' = order /\ used' = used /\ create[o] # "deduct"
        /\ create'[o] # "asSupervisor" /\ \A p \in Orders \ {o} : create'[p] = create[p]
    BY <1>0, <1>2, <1>3 DEF CheckOrder, DetermineInitialStatus, rowVars, moneyVars
  <2>2. AboutToCharge(o) => AboutToCharge(o)'
    BY <1>0, <2>1 DEF AboutToCharge
  <2>3. ASSUME NEW p \in Orders PROVE Owed(p)' <= Owed(p)
    BY <1>0, <1>1, <2>1, <2>2, OwedStays
  <2> QED BY <2>1, <2>3 DEF NoMoreOwed
<1>4. CASE InsertOrder(o)
  <2>1. /\ used' = used /\ create'[o] = IF IsAgents(o) /\ Buys(o) /\ create[o] = "APPROVED"
                                        THEN "deduct" ELSE "end"
        /\ \A p \in Orders \ {o} : create'[p] = create[p] /\ order'[p] = order[p]
        /\ order'[o].status = "PENDING" \/ create[o] = "APPROVED"
    <3>1. /\ used' = used /\ create' = [create EXCEPT ![o] =
                IF IsAgents(o) /\ Buys(o) /\ create[o] = "APPROVED" THEN "deduct" ELSE "end"]
          /\ order' = [order EXCEPT ![o] = [order[o] EXCEPT
               !.status = IF create[o] = "PENDING" THEN "PENDING" ELSE "APPROVED",
               !.remaining = asked[o].quantity]]
          /\ create[o] \in {"APPROVED", "PENDING"}
      BY <1>0, <1>2, <1>4 DEF InsertOrder, moneyVars
    <3>2. create[o] = "PENDING" => order'[o].status = "PENDING"
      BY <1>0, <3>1 DEF Row
    <3> QED BY <1>0, <3>1, <3>2
  <2>2. AgentBuys(o) => order'[o].status = "PENDING" \/ AboutToCharge(o)'
    BY <1>0, <2>1 DEF AgentBuys, IsAgents, AboutToCharge
  <2>3. ASSUME NEW p \in Orders, AgentBuys(p) PROVE Owed(p)' <= Owed(p)
    BY <1>0, <1>1, <2>1, <2>2, <2>3, OwedStays
  <2> QED BY <1>0, <2>1, <2>3 DEF NoMoreOwed
<1>5. CASE DeductActuaryUsedLimit(o)
  <2>1. /\ AddUsedLimit(o, Charge(o)) /\ order' = order /\ create[o] = "deduct"
        /\ create'[o] = "end" /\ \A p \in Orders \ {o} : create'[p] = create[p]
    BY <1>0, <1>2, <1>5 DEF DeductActuaryUsedLimit, rowVars
  <2>2. Owed(o) = 0 /\ Owed(o)' <= Charge(o)
    <3>1. Charge(o)' = Charge(o) /\ Charge(o) \in Nat
      BY <1>0, OwedNumbers DEF Charge
    <3> QED BY <2>1, <3>1 DEF Owed, AboutToCharge
  <2>3. ASSUME NEW p \in Orders \ {o} PROVE Owed(p)' = Owed(p)
    BY <1>0, <1>1, <2>1 DEF Owed, Charge
  <2>4. Charge(o) \in Nat
    BY <1>0, OwedNumbers
  <2> QED BY <1>0, <2>1, <2>2, <2>3, <2>4, LimitGrows DEF Charges
<1> QED BY <1>3, <1>4, <1>5 DEF Create

LEMMA DecideCharges ==
  ASSUME QuotedInDinars, LifeInv, TypeInv', NEW o \in Orders, NEW d \in Deciders,
         Decide(d, o), refusals' = refusals
  PROVE  (NoMoreOwed \/ Charges(o)) /\ create' = create
<1>0. /\ TypeInv /\ refusals \in Nat /\ order \in [Orders -> Row]
      /\ decision \in DecisionType
      /\ asked' = asked /\ create' = create /\ None \notin Agents
  BY NamesAssumption DEF LifeInv, TypeInv, TypeOK, Row, DecisionType, Decide, ReadPending,
     ApproveOrder, DeductApproved, DeclineOrder
<1>1. /\ \A p \in Orders \ {o} : order'[p] = order[p] /\ (AboutToCharge(p)' <=> AboutToCharge(p))
      /\ \A l : ~Refused(l)
  <2>1. \A e \in Deciders, p \in Orders \ {o} : decision'[<<e, p>>] = decision[<<e, p>>]
    BY <1>0 DEF Decide, ReadPending, ApproveOrder, DeductApproved, DeclineOrder, DecisionType
  <2>2. \A p \in Orders \ {o} : order'[p] = order[p]
    BY <1>0 DEF Decide, ReadPending, ApproveOrder, DeductApproved, DeclineOrder, rowVars
  <2> QED BY <1>0, <2>1, <2>2, SMTT(30) DEF AboutToCharge, Refused
<1>2. CASE ReadPending(d, o, "approve") \/ ReadPending(d, o, "decline")
  <2>1. /\ order' = order /\ used' = used
        /\ decision[<<d, o>>] = "idle"
        /\ \A e \in Deciders : e # d => decision'[<<e, o>>] = decision[<<e, o>>]
    BY <1>0, <1>2 DEF ReadPending, rowVars, moneyVars, DecisionType
  <2>2. AboutToCharge(o) => AboutToCharge(o)'
    BY <1>0, <2>1 DEF AboutToCharge
  <2>3. ASSUME NEW p \in Orders PROVE Owed(p)' <= Owed(p)
    BY <1>0, <1>1, <2>1, <2>2, OwedStays
  <2> QED BY <1>0, <2>1, <2>3 DEF NoMoreOwed
<1>3. CASE ApproveOrder(d, o)
  <2>1. used' = used /\ (AgentBuys(o) => decision'[<<d, o>>] = "deduct")
    BY <1>0, <1>1, <1>3 DEF ApproveOrder, moneyVars, AgentBuys, IsAgents, DecisionType
  <2>2. AgentBuys(o) => AboutToCharge(o)'
    BY <2>1 DEF AboutToCharge
  <2>3. ASSUME NEW p \in Orders, AgentBuys(p) PROVE Owed(p)' <= Owed(p)
    BY <1>0, <1>1, <2>2, <2>3, OwedStays
  <2> QED BY <1>0, <2>1, <2>3 DEF NoMoreOwed
<1>4. CASE DeductApproved(d, o)
  <2>1. /\ AddUsedLimit(o, asked[o].total) /\ order' = order /\ decision[<<d, o>>] = "deduct"
    BY <1>0, <1>1, <1>4 DEF DeductApproved, rowVars
  <2>2. Charge(o) \in Nat /\ Charge(o)' = Charge(o)
    BY <1>0, OwedNumbers DEF Charge
  <2>3. Owed(o) = 0 /\ Owed(o)' <= Charge(o)
    BY <2>1, <2>2 DEF Owed, AboutToCharge
  <2>4. ASSUME NEW p \in Orders \ {o} PROVE Owed(p)' = Owed(p)
    BY <1>0, <1>1, <2>1 DEF Owed, Charge
  <2>5. asked[o].total \in Nat
    BY <1>0, AskedType DEF TypeInv
  <2>6. AgentBuys(o) => asked[o].total = Charge(o)
    <3>1. AgentBuys(o) => asked[o].rate = 1
      BY <1>0 DEF AgentBuys, QuotedInDinars, TypeInv, TypeOK
    <3> QED BY <2>5, <3>1 DEF Charge
  <2> QED BY <1>0, <2>1, <2>3, <2>4, <2>5, <2>6, LimitGrows DEF Charges
<1>5. CASE DeclineOrder(d, o)
  <2>1. used' = used /\ order'[o].status = "DECLINED"
    BY <1>0, <1>1, <1>5 DEF DeclineOrder, moneyVars, Row
  <2>2. ASSUME NEW p \in Orders PROVE Owed(p)' <= Owed(p)
    BY <1>0, <1>1, <2>1, OwedStays
  <2> QED BY <1>0, <2>1, <2>2 DEF NoMoreOwed
<1> QED BY <1>2, <1>3, <1>4, <1>5 DEF Decide

LEMMA ScheduleCharges ==
  ASSUME LifeInv, TypeInv',
         \/ \E o \in Orders : \/ ReadCancellable(o) \/ CancelOrder(o)
                              \/ StartExecution(o) \/ Execute(o)
         \/ Poll \/ UNCHANGED vars
  PROVE  NoMoreOwed /\ create' = create
<1>0. TypeInv /\ order \in [Orders -> Row]
  BY DEF LifeInv, TypeInv, TypeOK, Row
<1>1. ASSUME UNCHANGED <<asked, used, create, decision>>,
             \A p \in Orders : order'[p].status \in {order[p].status, "DECLINED"}
      PROVE  NoMoreOwed /\ create' = create
  <2>1. \A p \in Orders : AboutToCharge(p)' <=> AboutToCharge(p)
    BY <1>1 DEF AboutToCharge
  <2>2. ASSUME NEW p \in Orders PROVE Owed(p)' <= Owed(p)
    BY <1>0, <1>1, <2>1, OwedStays
  <2> QED BY <1>1, <2>2 DEF NoMoreOwed
<1>2. ASSUME NEW o \in Orders, Execute(o) PROVE NoMoreOwed /\ create' = create
  <2>1. UNCHANGED <<asked, used, create, decision>>
        /\ \A p \in Orders \ {o} : order'[p] = order[p]
    BY <1>0, <1>2, ExecuteOthers, SMTT(30)
  <2>2. order'[o].status \in {order[o].status, "DECLINED"}
    BY <1>0, <1>2, ZenonT(60) DEF Execute, BeginExecution, ChooseFill, SettleAccount, CreditBank,
       AddCommissionPaid, InsertPortion, UpdateHolding, SweepHolding,
       UpdateRemainingPortions, SetOrderDone, DeclineUnsettled, rowVars, Row
  <2>3. \A p \in Orders : order'[p].status \in {order[p].status, "DECLINED"}
    BY <2>1, <2>2
  <2> QED BY <1>1, <2>1, <2>3
<1>3. ASSUME NEW o \in Orders, ReadCancellable(o) \/ CancelOrder(o)
      PROVE  NoMoreOwed /\ create' = create
  <2>1. UNCHANGED <<asked, used, create, decision>>
    BY <1>3 DEF ReadCancellable, CancelOrder, moneyVars
  <2>2. \A p \in Orders : order'[p].status = order[p].status
    BY <1>0, <1>3, CancelWrites DEF ReadCancellable, rowVars, TypeInv
  <2> QED BY <1>1, <2>1, <2>2
<1>4. ASSUME NEW o \in Orders, StartExecution(o) PROVE NoMoreOwed /\ create' = create
  BY <1>1, <1>4 DEF StartExecution, moneyVars, callVars, rowVars
<1>5. Poll \/ UNCHANGED vars => NoMoreOwed /\ create' = create
  BY <1>1 DEF Poll, vars, moneyVars, callVars, rowVars
<1> QED BY <1>2, <1>3, <1>4, <1>5

LEMMA BoughtIsFinite == \A g : IsFiniteSet(BoughtBy(g)) /\ BoughtBy(g) \subseteq Orders
  BY FiniteAssumption, FS_Subset DEF BoughtBy, Buying

LEMMA OwedSumMoves ==
  ASSUME TypeInv, TypeInv', asked' = asked, NoMoreOwed \/ \E o \in Orders : Charges(o),
         NEW g \in Agents, used[g] >= OwedBy(g), used[g] \in Int, used'[g] \in Int
  PROVE  used'[g] >= OwedBy(g)'
<1> DEFINE B == BoughtBy(g)
           f == [x \in B |-> Owed(x)]
           h == [x \in B |-> Owed(x)']
<1>1. BoughtBy(g)' = B /\ IsFiniteSet(B) /\ B \subseteq Orders
      /\ \A x \in B : AgentBuys(x) /\ asked[x].agent = g
  BY BoughtIsFinite DEF BoughtBy, Buying, Buys, AgentBuys
<1>2. \A x \in B : f[x] \in Int /\ h[x] \in Int /\ Charge(x) \in Nat
  BY <1>1, OwedNumbers, OwedNumbersAfter
<1>3. OwedBy(g) = SumFunctionOnSet(f, B) /\ OwedBy(g)' = SumFunctionOnSet(h, B)
  BY <1>1 DEF OwedBy
<1>4. SumFunctionOnSet(f, B) \in Int /\ SumFunctionOnSet(h, B) \in Int
  <2> HIDE DEF B, f, h
  <2> QED BY <1>1, <1>2, SumInt
<1>5. CASE NoMoreOwed
  <2>1. used'[g] = used[g] /\ \A x \in B : h[x] <= f[x]
    BY <1>1, <1>5 DEF NoMoreOwed
  <2> HIDE DEF B, f, h
  <2>2. SumFunctionOnSet(h, B) <= SumFunctionOnSet(f, B)
    BY <1>1, <1>2, <2>1, SumMonotone
  <2> QED BY <1>3, <1>4, <2>1, <2>2
<1>6. ASSUME NEW o \in Orders, Charges(o) PROVE used'[g] >= OwedBy(g)'
  <2>1. CASE o \in B
    <3>1. used'[g] >= used[g] + Charge(o)
      BY <1>1, <1>6, <2>1 DEF Charges
    <3>2. f[o] = 0 /\ h[o] <= Charge(o) /\ \A y \in B \ {o} : h[y] = f[y]
      BY <1>1, <1>6, <2>1 DEF Charges
    <3> HIDE DEF B, f, h
    <3>3. SumFunctionOnSet(h, B) = SumFunctionOnSet(f, B) - f[o] + h[o]
      BY <1>1, <1>2, <2>1, <3>2, SumChange
    <3>4. f[o] \in Int /\ h[o] \in Int /\ Charge(o) \in Nat
      BY <1>2, <2>1
    <3> QED BY <1>3, <1>4, <3>1, <3>2, <3>3, <3>4
  <2>2. CASE o \notin B
    <3>1. ~(AgentBuys(o) /\ g = asked[o].agent)
      BY <2>2 DEF BoughtBy, Buying, AgentBuys
    <3>2. used'[g] >= used[g] + 0
      BY <1>6, <3>1 DEF Charges
    <3>3. \A y \in B : h[y] = f[y]
      BY <1>1, <1>6, <2>2 DEF Charges
    <3> HIDE DEF B, f, h
    <3>4. SumFunctionOnSet(h, B) = SumFunctionOnSet(f, B)
      BY <1>1, <3>3, SumAgree
    <3> QED BY <1>3, <1>4, <3>2, <3>4
  <2> QED BY <2>1, <2>2
<1> QED BY <1>5, <1>6

LEMMA NextChargeInv ==
  ASSUME QuotedInDinars, ChargeInv, [Next]_vars
  PROVE  ChargeInv'
<1>0. LifeInv /\ LifeInv' /\ TypeInv /\ TypeInv'
  BY NextLifeInv, NextTypeInv DEF ChargeInv, LifeInv
<1> SUFFICES ASSUME Undisturbed'
             PROVE  /\ \A o \in Orders : create'[o] # "asSupervisor"
                    /\ \A g \in Agents : used'[g] >= OwedBy(g)'
  BY <1>0 DEF ChargeInv
<1>1. /\ Undisturbed /\ refusals' = refusals
      /\ \A o \in Orders : create[o] # "asSupervisor"
      /\ \A g \in Agents : used[g] >= OwedBy(g)
  BY <1>0, IncidentsStay DEF ChargeInv, Undisturbed
<1>2. ~Crash
  BY <1>0 DEF Crash, Undisturbed, TypeInv, TypeOK
<1>3. (NoMoreOwed \/ \E o \in Orders : Charges(o))
      /\ \A p \in Orders : create'[p] # "asSupervisor"
  <2>1. ASSUME NEW o \in Orders, Create(o)
        PROVE  (NoMoreOwed \/ Charges(o)) /\ \A p \in Orders : create'[p] # "asSupervisor"
    BY <1>0, <1>1, <2>1, CreateCharges
  <2>2. ASSUME NEW o \in Orders, NEW d \in Deciders, Decide(d, o)
        PROVE  (NoMoreOwed \/ Charges(o)) /\ create' = create
    BY <1>0, <1>1, <2>2, DecideCharges
  <2>3. ASSUME \/ \E o \in Orders : \/ ReadCancellable(o) \/ CancelOrder(o)
                                    \/ StartExecution(o) \/ Execute(o)
               \/ Poll \/ UNCHANGED vars
        PROVE  NoMoreOwed /\ create' = create
    BY <1>0, <2>3, ScheduleCharges
  <2>4. \/ \E o \in Orders : Create(o) \/ \E d \in Deciders : Decide(d, o)
        \/ \E o \in Orders : \/ ReadCancellable(o) \/ CancelOrder(o)
                             \/ StartExecution(o) \/ Execute(o)
        \/ Poll \/ UNCHANGED vars
    BY <1>2 DEF Next
  <2> QED BY <1>1, <2>1, <2>2, <2>3, <2>4
<1>4. asked' = asked
  <2>1. ASSUME NEW o \in Orders, Create(o) \/ (\E d \in Deciders : Decide(d, o))
                                 \/ ReadCancellable(o) \/ CancelOrder(o)
        PROVE  asked' = asked
    BY <2>1 DEF Create, CheckOrder, DetermineInitialStatus, InsertOrder,
       DeductActuaryUsedLimit, Decide, ReadPending, ApproveOrder, DeductApproved,
       DeclineOrder, ReadCancellable, CancelOrder
  <2>2. ASSUME NEW o \in Orders, StartExecution(o) \/ Execute(o) PROVE asked' = asked
    BY <1>0, <2>2, ExecuteOthers DEF StartExecution
  <2>3. Poll \/ Crash \/ UNCHANGED vars => asked' = asked
    BY DEF Poll, Crash, vars
  <2> QED BY <2>1, <2>2, <2>3 DEF Next
<1>5. \A g \in Agents : used[g] \in Int /\ used'[g] \in Int
  BY <1>0 DEF TypeInv, TypeOK
<1> QED BY <1>0, <1>1, <1>3, <1>4, <1>5, OwedSumMoves

LEMMA LimitIsCharged == ChargeInv => LimitCharged
<1> SUFFICES ASSUME ChargeInv, Undisturbed, NEW g \in Agents,
                    \A o \in BoughtBy(g) : ~AboutToCharge(o)
             PROVE  used[g] >= SumOver(BoughtBy(g), ChargedFor)
  BY DEF LimitCharged
<1>1. [x \in BoughtBy(g) |-> ChargedFor(x)] = [x \in BoughtBy(g) |-> Owed(x)]
  BY DEF ChargedFor, Owed
<1>2. used[g] >= OwedBy(g)
  BY DEF ChargeInv
<1> QED BY <1>1, <1>2 DEF OwedBy, SumOver

(* While nothing fails, the limit of an agent has been charged for every   *)
(* BUY that CreateOrder or a supervisor approved, whichever of them was    *)
(* first and whatever was decided afterwards.                              *)
THEOREM LimitsAreCharged == QuotedInDinars => (Spec => []LimitCharged)
<1> SUFFICES ASSUME QuotedInDinars PROVE Spec => []LimitCharged
  OBVIOUS
<1>1. Init => ChargeInv
  <2> SUFFICES ASSUME Init, NEW g \in Agents PROVE used[g] >= OwedBy(g)
    BY InitLifeInv DEF ChargeInv, Init
  <2> DEFINE f == [x \in BoughtBy(g) |-> Owed(x)]
  <2>1. \A x \in BoughtBy(g) : f[x] = 0
    BY BoughtIsFinite DEF Init, Owed, None
  <2>2. OwedBy(g) = SumFunctionOnSet(f, BoughtBy(g)) /\ used[g] = 0
    BY DEF OwedBy, Init
  <2> HIDE DEF f, Init
  <2> QED BY <2>1, <2>2, SumZero, BoughtIsFinite
<1>2. ChargeInv /\ [Next]_vars => ChargeInv'
  BY NextChargeInv
<1>3. Init /\ [][Next]_vars => []ChargeInv
  BY <1>1, <1>2, PTL
<1> QED BY <1>3, LimitIsCharged, PTL DEF Spec
-----------------------------------------------------------------------------
(* The portfolios.                                                         *)

(* Nobody asks to sell more than is held: CreateOrder checks each SELL     *)
(* against the holding and reserves nothing, so that two of them may ask   *)
(* for the same units.                                                     *)
SellsOf(r, u) == {o \in Orders : r[o].direction = "SELL" /\ r[o].owner = u}
EnoughHeld ==
  \A r \in Requests : \A u \in Owners :
    SumFunctionOnSet([o \in SellsOf(r, u) |-> r[o].quantity], SellsOf(r, u)) <= InitShares[u]

Calm == Undisturbed /\ overlaps = 0
Bought(u) == SumFunctionOnSet([x \in BuyingFor(u) |-> EnteredFills(x)], BuyingFor(u))
Sold(u) == SumFunctionOnSet([x \in SellingFor(u) |-> EnteredFills(x)], SellingFor(u))

(* The holding matches the fills that were entered, and an owner without a *)
(* row has nothing.                                                        *)
Held(u) ==
  /\ shares[u] = InitShares[u] + Bought(u) - Sold(u)
  /\ u \notin held => shares[u] = 0

HoldInv ==
  /\ BoundInv
  /\ \A o \in Orders : At(o, "holding") => exec[o].qty <= fills[o].qty
  /\ Calm => \A u \in Owners : Held(u)

LEMMA OwnersOrders ==
  \A u : /\ IsFiniteSet(BuyingFor(u)) /\ BuyingFor(u) \subseteq Orders
         /\ IsFiniteSet(SellingFor(u)) /\ SellingFor(u) \subseteq Orders
  BY FiniteAssumption, FS_Subset DEF BuyingFor, SellingFor, Buying, Selling

LEMMA EnteredNumbers ==
  ASSUME HoldInv, NEW o \in Orders
  PROVE  /\ EnteredFills(o) \in Nat /\ exec[o].qty \in Nat /\ asked[o].quantity \in Nat
         /\ EnteredFills(o) = IF At(o, "holding") THEN fills[o].qty - exec[o].qty
                              ELSE fills[o].qty
         /\ Calm => fills[o].qty <= asked[o].quantity
<1>1. /\ TypeInv /\ Bounded(o) /\ (At(o, "holding") => exec[o].qty <= fills[o].qty)
      /\ fills[o].qty \in Nat /\ exec[o].qty \in Nat /\ asked[o].quantity \in Nat
      /\ Ahead(o) \in Nat
  BY AheadNumbers DEF HoldInv, BoundInv, LifeInv
<1>2. EnteredFills(o) = IF At(o, "holding") THEN fills[o].qty - exec[o].qty ELSE fills[o].qty
  BY <1>1 DEF EnteredFills
<1>3. Calm => fills[o].qty <= asked[o].quantity
  <2> SUFFICES ASSUME Calm PROVE fills[o].qty <= asked[o].quantity
    OBVIOUS
  <2>1. Incidents = 0
    BY DEF Calm, Undisturbed, Incidents
  <2>2. asked[o].quantity * (1 + 0) = asked[o].quantity
    BY <1>1
  <2> QED BY <1>1, <2>1, <2>2 DEF Bounded, Total
<1> QED BY <1>1, <1>2, <1>3

(* The sums of entered fills are natural numbers, and no more is sold than *)
(* was asked for.                                                          *)
LEMMA SoldIsHeld ==
  ASSUME EnoughHeld, HoldInv, Calm, NEW u \in Owners
  PROVE  /\ Bought(u) \in Nat /\ Sold(u) \in Nat /\ InitShares[u] \in Nat
         /\ Sold(u) <= InitShares[u]
         /\ \A o \in SellingFor(u) : At(o, "holding") =>
              Sold(u) + exec[o].qty <= InitShares[u]
<1> DEFINE S == SellingFor(u)
           f == [x \in S |-> EnteredFills(x)]
           all == [x \in S |-> asked[x].quantity]
<1>1. IsFiniteSet(S) /\ S \subseteq Orders
  BY OwnersOrders
<1>2. \A x \in S : f[x] \in Nat /\ all[x] \in Nat /\ f[x] <= all[x]
  <2> TAKE x \in S
  <2>1. x \in Orders
    BY <1>1
  <2>2. fills[x].qty \in Nat /\ TypeInv
    BY <2>1, AheadNumbers DEF HoldInv, BoundInv, LifeInv
  <2>3. /\ EnteredFills(x) \in Nat /\ exec[x].qty \in Nat /\ asked[x].quantity \in Nat
        /\ EnteredFills(x) = IF At(x, "holding") THEN fills[x].qty - exec[x].qty
                             ELSE fills[x].qty
        /\ fills[x].qty <= asked[x].quantity
    BY <2>1, EnteredNumbers
  <2>4. EnteredFills(x) <= asked[x].quantity
    BY <2>2, <2>3
  <2> QED BY <2>3, <2>4
<1>3. Sold(u) = SumFunctionOnSet(f, S) /\ InitShares[u] \in Nat
  BY AmountsAssumption DEF Sold
<1>4. SumFunctionOnSet(all, S) <= InitShares[u]
  <2>1. asked \in Requests /\ \A o \in Orders : asked[o].direction \in {"BUY", "SELL"}
    BY RequestsAssumption DEF HoldInv, BoundInv, LifeInv, TypeInv, TypeOK, Request
  <2>2. S = SellsOf(asked, u)
    BY <2>1 DEF SellingFor, Selling, Buying, Buys, SellsOf
  <2> QED BY <2>1, <2>2 DEF EnoughHeld
<1>5. Bought(u) \in Nat
  <2> DEFINE B == BuyingFor(u)
             h == [x \in B |-> EnteredFills(x)]
  <2>1. \A x \in B : h[x] \in Nat
    BY OwnersOrders, EnteredNumbers
  <2>2. Bought(u) = SumFunctionOnSet(h, B) /\ IsFiniteSet(B)
    BY OwnersOrders DEF Bought
  <2> HIDE DEF B, h
  <2> QED BY <2>1, <2>2, SumNat
<1>6. ASSUME NEW o \in S, At(o, "holding") PROVE Sold(u) + exec[o].qty <= InitShares[u]
  <2> DEFINE g == [x \in S |-> IF x = o THEN EnteredFills(x) + exec[o].qty ELSE EnteredFills(x)]
  <2>1. /\ EnteredFills(o) = fills[o].qty - exec[o].qty /\ exec[o].qty \in Nat
        /\ fills[o].qty <= asked[o].quantity /\ EnteredFills(o) \in Nat
    BY <1>1, <1>6, EnteredNumbers
  <2>2. fills[o].qty \in Nat
    BY <1>1, AheadNumbers DEF HoldInv, BoundInv, LifeInv
  <2>3. \A x \in S : g[x] \in Int /\ g[x] <= all[x] /\ (x # o => g[x] = f[x])
    BY <1>2, <2>1, <2>2
  <2>4. g[o] = f[o] + exec[o].qty /\ o \in S
    OBVIOUS
  <2> HIDE DEF f, g, all, S
  <2>5. SumFunctionOnSet(g, S) = SumFunctionOnSet(f, S) + exec[o].qty
    <3>1. exec[o].qty \in Int /\ \A x \in S : f[x] \in Int
      BY <1>2, <2>1
    <3>2. SumFunctionOnSet(g, S) = SumFunctionOnSet(f, S) + IF o \in S THEN exec[o].qty ELSE 0
      BY <1>1, <2>3, <2>4, <3>1, SumMoves, SMTT(30)
    <3> QED BY <2>4, <3>2
  <2>6. SumFunctionOnSet(g, S) <= SumFunctionOnSet(all, S)
    BY <1>1, <1>2, <2>3, SumMonotone
  <2>7. SumFunctionOnSet(f, S) \in Int /\ SumFunctionOnSet(all, S) \in Int
    BY <1>1, <1>2, SumInt
  <2> QED BY <1>3, <1>4, <2>1, <2>5, <2>6, <2>7
<1>7. Sold(u) \in Nat /\ Sold(u) <= InitShares[u]
  <2> HIDE DEF f, all, S
  <2>1. /\ SumFunctionOnSet(f, S) <= SumFunctionOnSet(all, S)
        /\ SumFunctionOnSet(f, S) \in Nat /\ SumFunctionOnSet(all, S) \in Int
    BY <1>1, <1>2, SumMonotone, SumNat, SumInt
  <2> QED BY <1>3, <1>4, <2>1
<1> QED BY <1>3, <1>5, <1>6, <1>7

(* What a step does to the portfolios. *)
EntersSame == \A p \in Orders : EnteredFills(p)' = EnteredFills(p)
HoldsStill == UNCHANGED <<asked, shares, held>> /\ EntersSame

LEMMA ExecuteHolds ==
  ASSUME HoldInv, NEW o \in Orders, Execute(o)
  PROVE  /\ \A p \in Orders : At(p, "holding")' => exec'[p].qty <= fills'[p].qty
         /\ refusals' = refusals => UpdateHolding(o) \/ SweepHolding(o) \/ HoldsStill
<1>0. /\ TypeInv /\ exec \in [Orders -> Goroutine] /\ asked' = asked
      /\ fills \in [Orders -> [rows : Nat, qty : Nat]] /\ refusals \in Nat
      /\ exec[o].qty \in Nat /\ fills[o].qty \in Nat
      /\ \A p \in Orders \ {o} : exec'[p] = exec[p] /\ fills'[p] = fills[p]
      /\ \A p \in Orders : At(p, "holding") => exec[p].qty <= fills[p].qty
  BY ExecuteOthers DEF HoldInv, BoundInv, LifeInv, TypeInv, TypeOK, Goroutine
<1>1. ASSUME At(o, "holding")' => exec'[o].qty <= fills'[o].qty
      PROVE  \A p \in Orders : At(p, "holding")' => exec'[p].qty <= fills'[p].qty
  BY <1>0, <1>1 DEF At
<1>2. ASSUME EnteredFills(o)' = EnteredFills(o), UNCHANGED <<shares, held>>
      PROVE  HoldsStill
  BY <1>0, <1>2 DEF HoldsStill, EntersSame, EnteredFills, At
<1>3. CASE InsertPortion(o)
  <2>1. /\ exec[o].pc = "portion" /\ exec'[o].qty = exec[o].qty
        /\ UNCHANGED <<shares, held>>
        /\ \/ /\ exec'[o].pc = "holding" /\ fills'[o].qty = fills[o].qty + exec[o].qty
           \/ exec'[o].pc = "price" /\ refusals' = refusals + 1
    BY <1>0, <1>3 DEF InsertPortion, At, GoTo, Goroutine, moneyVars, Refused
  <2>2. At(o, "holding")' => exec'[o].qty <= fills'[o].qty
    BY <1>0, <2>1 DEF At
  <2>3. refusals' = refusals => EnteredFills(o)' = EnteredFills(o)
    BY <1>0, <2>1 DEF EnteredFills, At
  <2> QED BY <1>1, <1>2, <2>1, <2>2, <2>3
<1>4. CASE UpdateHolding(o) \/ SweepHolding(o)
  <2>1. exec'[o].pc # "holding"
    BY <1>0, <1>4 DEF UpdateHolding, SweepHolding, GoTo, Goroutine
  <2> QED BY <1>1, <1>4, <2>1 DEF At
<1>5. CASE ~InsertPortion(o) /\ ~UpdateHolding(o) /\ ~SweepHolding(o)
  <2>1. /\ exec[o].pc # "holding" /\ exec'[o].pc # "holding"
        /\ fills' = fills /\ UNCHANGED <<shares, held>>
    <3>1. CASE BeginExecution(o)
      BY <1>0, <3>1 DEF BeginExecution, At, GoTo, Return, Goroutine, rowVars, moneyVars
    <3>4. CASE ChooseFill(o)
      <4>1. UNCHANGED <<shares, held>>
        BY <3>4 DEF ChooseFill, moneyVars
      <4> QED BY <1>0, <3>4, <4>1, ChooseWrites
    <3>2. CASE SettleAccount(o) \/ CreditBank(o) \/ AddCommissionPaid(o)
      BY <1>0, <3>2 DEF SettleAccount, AfterSettlement, CreditBank, AddCommissionPaid,
         At, GoTo, Goroutine, rowVars, moneyVars
    <3>3. CASE UpdateRemainingPortions(o) \/ SetOrderDone(o) \/ DeclineUnsettled(o)
      BY <1>0, <3>3 DEF UpdateRemainingPortions, SetOrderDone, DeclineUnsettled,
         At, Return, Goroutine, moneyVars
    <3> QED BY <1>5, <3>1, <3>2, <3>3, <3>4 DEF Execute
  <2>2. EnteredFills(o)' = EnteredFills(o)
    BY <2>1 DEF EnteredFills, At
  <2>3. HoldsStill
    BY <1>2, <2>1, <2>2
  <2> QED BY <1>1, <2>1, <2>3 DEF At
<1> QED BY <1>3, <1>4, <1>5

LEMMA HoldingSteps ==
  ASSUME HoldInv, [Next]_vars
  PROVE  /\ \A p \in Orders : At(p, "holding")' => exec'[p].qty <= fills'[p].qty
         /\ Calm' => HoldsStill \/ \E o \in Orders : UpdateHolding(o) \/ SweepHolding(o)
<1>0. /\ TypeInv /\ exec \in [Orders -> Goroutine]
      /\ \A p \in Orders : At(p, "holding") => exec[p].qty <= fills[p].qty
      /\ refusals \in Nat /\ crashes \in Nat
  BY DEF HoldInv, BoundInv, LifeInv, TypeInv, TypeOK, Goroutine
<1>1. ASSUME UNCHANGED <<asked, fills, shares, held>>,
             \A p \in Orders : exec'[p] = exec[p] \/ (exec[p].pc # "holding" /\ exec'[p].pc # "holding")
      PROVE  /\ \A p \in Orders : At(p, "holding")' => exec'[p].qty <= fills'[p].qty
             /\ HoldsStill
  BY <1>0, <1>1 DEF HoldsStill, EntersSame, EnteredFills, At
<1>2. ASSUME NEW o \in Orders, Create(o) \/ ReadCancellable(o) \/ CancelOrder(o)
      PROVE  /\ \A p \in Orders : At(p, "holding")' => exec'[p].qty <= fills'[p].qty
             /\ HoldsStill
  <2>1. UNCHANGED <<asked, fills, shares, held, exec>>
    BY <1>2 DEF Create, CheckOrder, DetermineInitialStatus, InsertOrder,
       DeductActuaryUsedLimit, ReadCancellable, CancelOrder, rowVars, moneyVars
  <2> QED BY <1>1, <2>1
<1>3. ASSUME NEW o \in Orders, NEW d \in Deciders, Decide(d, o)
      PROVE  /\ \A p \in Orders : At(p, "holding")' => exec'[p].qty <= fills'[p].qty
             /\ HoldsStill
  <2>1. UNCHANGED <<asked, fills, shares, held, exec>>
    BY <1>3 DEF Decide, ReadPending, ApproveOrder, DeductApproved, DeclineOrder,
       rowVars, moneyVars
  <2> QED BY <1>1, <2>1
<1>4. ASSUME NEW o \in Orders, StartExecution(o)
      PROVE  /\ \A p \in Orders : At(p, "holding")' => exec'[p].qty <= fills'[p].qty
             /\ HoldsStill
  <2>1. UNCHANGED <<asked, fills, shares, held>>
    BY <1>4 DEF StartExecution, rowVars, moneyVars
  <2>2. \A p \in Orders : exec'[p] = exec[p] \/ (exec[p].pc # "holding" /\ exec'[p].pc # "holding")
    BY <1>0, <1>4 DEF StartExecution, Executing
  <2> QED BY <1>1, <2>1, <2>2
<1>5. ASSUME NEW o \in Orders, Execute(o)
      PROVE  /\ \A p \in Orders : At(p, "holding")' => exec'[p].qty <= fills'[p].qty
             /\ Calm' => HoldsStill \/ UpdateHolding(o) \/ SweepHolding(o)
  <2>1. Calm' => refusals' = refusals
    BY <1>0, <1>5, ExecuteOthers DEF Calm, Undisturbed
  <2> QED BY <1>5, <2>1, ExecuteHolds
<1>6. CASE Poll \/ UNCHANGED vars
  <2>1. UNCHANGED <<asked, fills, shares, held, exec>>
    BY <1>6 DEF Poll, vars, rowVars, moneyVars
  <2> QED BY <1>1, <2>1
<1>7. CASE Crash
  <2>1. (\A p \in Orders : exec'[p].pc = "off") /\ crashes' # 0
    BY <1>0, <1>7 DEF Crash
  <2> QED BY <2>1 DEF At, Calm, Undisturbed
<1> QED BY <1>2, <1>3, <1>4, <1>5, <1>6, <1>7 DEF Next

(* The sums move with the one order whose fill is entered. *)
LEMMA EnteringMovesSums ==
  ASSUME HoldInv, NEW o \in Orders, NEW d \in Int, asked' = asked,
         EnteredFills(o)' = EnteredFills(o) + d,
         \A p \in Orders \ {o} : EnteredFills(p)' = EnteredFills(p),
         NEW u \in Owners
  PROVE  /\ Bought(u)' = Bought(u) + IF Buys(o) /\ asked[o].owner = u THEN d ELSE 0
         /\ Sold(u)' = Sold(u) + IF ~Buys(o) /\ asked[o].owner = u THEN d ELSE 0
<1>1. /\ BuyingFor(u)' = BuyingFor(u) /\ SellingFor(u)' = SellingFor(u)
      /\ o \in BuyingFor(u) <=> Buys(o) /\ asked[o].owner = u
      /\ o \in SellingFor(u) <=> ~Buys(o) /\ asked[o].owner = u
  BY DEF BuyingFor, SellingFor, Buying, Selling, Buys
<1>2. Bought(u)' = Bought(u) + IF o \in BuyingFor(u) THEN d ELSE 0
  <2> DEFINE B == BuyingFor(u)
             f == [x \in B |-> EnteredFills(x)]
             g == [x \in B |-> EnteredFills(x)']
  <2>1. \A x \in B : f[x] \in Int
    BY OwnersOrders, EnteredNumbers
  <2>2. (\A y \in B \ {o} : g[y] = f[y]) /\ (o \in B => g[o] = f[o] + d)
    BY OwnersOrders
  <2>3. Bought(u) = SumFunctionOnSet(f, B) /\ Bought(u)' = SumFunctionOnSet(g, B)
        /\ IsFiniteSet(B)
    BY <1>1, OwnersOrders DEF Bought
  <2> SUFFICES Bought(u)' = Bought(u) + IF o \in B THEN d ELSE 0
    OBVIOUS
  <2> HIDE DEF f, g, B
  <2> QED BY <2>1, <2>2, <2>3, SumMoves
<1>3. Sold(u)' = Sold(u) + IF o \in SellingFor(u) THEN d ELSE 0
  <2> DEFINE B == SellingFor(u)
             f == [x \in B |-> EnteredFills(x)]
             g == [x \in B |-> EnteredFills(x)']
  <2>1. \A x \in B : f[x] \in Int
    BY OwnersOrders, EnteredNumbers
  <2>2. (\A y \in B \ {o} : g[y] = f[y]) /\ (o \in B => g[o] = f[o] + d)
    BY OwnersOrders
  <2>3. Sold(u) = SumFunctionOnSet(f, B) /\ Sold(u)' = SumFunctionOnSet(g, B)
        /\ IsFiniteSet(B)
    BY <1>1, OwnersOrders DEF Sold
  <2> SUFFICES Sold(u)' = Sold(u) + IF o \in B THEN d ELSE 0
    OBVIOUS
  <2> HIDE DEF f, g, B
  <2> QED BY <2>1, <2>2, <2>3, SumMoves
<1> QED BY <1>1, <1>2, <1>3

LEMMA UpdateHolds ==
  ASSUME EnoughHeld, HoldInv, Calm, refusals' = refusals, NEW o \in Orders,
         UpdateHolding(o), NEW v \in Owners
  PROVE  Held(v)'
<1> DEFINE u == asked[o].owner
           q == exec[o].qty
<1>0. /\ TypeInv /\ exec \in [Orders -> Goroutine] /\ shares \in [Owners -> Int]
      /\ u \in Owners /\ refusals \in Nat /\ q \in Nat /\ q > 0
      /\ At(o, "holding") /\ fills' = fills /\ asked' = asked
      /\ Held(u) /\ Held(v)
  <2>1. At(o, "holding") /\ fills' = fills /\ asked' = asked
    BY DEF UpdateHolding, rowVars
  <2>2. TypeInv
    BY DEF HoldInv, BoundInv, LifeInv
  <2>3. u \in Owners
    BY <2>2, AskedType DEF TypeInv
  <2>4. /\ exec \in [Orders -> Goroutine] /\ shares \in [Owners -> Int] /\ refusals \in Nat
        /\ q \in Nat /\ q > 0
    BY <2>1, <2>2 DEF TypeInv, TypeOK, FillFits, Goroutine, At, Filling
  <2> QED BY <2>1, <2>2, <2>3, <2>4 DEF HoldInv
<1>1. ~Refused("holding")
  BY <1>0 DEF Refused
<1>2. /\ exec'[o].pc \in {"remaining", "sweep"} /\ exec'[o].qty = q
      /\ \A p \in Orders \ {o} : exec'[p] = exec[p]
      /\ IF Buys(o)
         THEN held' = held \cup {u} /\ shares' = [shares EXCEPT ![u] = @ + q]
         ELSE held' = held /\ shares' = [shares EXCEPT ![u] = IF u \in held THEN @ - q ELSE @]
  BY <1>0, <1>1 DEF UpdateHolding, GoTo, Goroutine
<1>3. /\ EnteredFills(o)' = EnteredFills(o) + q
      /\ \A p \in Orders \ {o} : EnteredFills(p)' = EnteredFills(p)
  <2>1. fills[o].qty \in Nat
    BY <1>0, AheadNumbers
  <2>2. EnteredFills(o) = fills[o].qty - q
    BY <1>0, EnteredNumbers
  <2>3. EnteredFills(o)' = fills[o].qty
    BY <1>0, <1>2, <2>1 DEF EnteredFills, At
  <2>4. \A p \in Orders \ {o} : EnteredFills(p)' = EnteredFills(p)
    BY <1>0, <1>2 DEF EnteredFills, At
  <2> QED BY <1>0, <2>1, <2>2, <2>3, <2>4
<1>4. /\ Bought(v)' = Bought(v) + IF Buys(o) /\ u = v THEN q ELSE 0
      /\ Sold(v)' = Sold(v) + IF ~Buys(o) /\ u = v THEN q ELSE 0
  BY <1>0, <1>3, EnteringMovesSums
<1>5. /\ Bought(v) \in Nat /\ Sold(v) \in Nat /\ InitShares[v] \in Nat
      /\ shares[v] = InitShares[v] + Bought(v) - Sold(v) /\ (v \notin held => shares[v] = 0)
  BY <1>0, SoldIsHeld DEF Held
<1>6. ~Buys(o) => u \in held
  <2> SUFFICES ASSUME ~Buys(o) PROVE shares[u] > 0
    BY <1>0 DEF Held
  <2>1. o \in SellingFor(u)
    BY DEF SellingFor, Selling, Buying
  <2>2. /\ Sold(u) + q <= InitShares[u] /\ Bought(u) \in Nat /\ Sold(u) \in Nat
        /\ InitShares[u] \in Nat
    BY <1>0, <2>1, SoldIsHeld
  <2>3. shares[u] = InitShares[u] + Bought(u) - Sold(u)
    BY <1>0 DEF Held
  <2> HIDE DEF u, q
  <2> QED BY <1>0, <2>2, <2>3
<1>7. shares'[v] = shares[v] + (IF u = v THEN (IF Buys(o) THEN q ELSE 0 - q) ELSE 0)
  <2>1. CASE Buys(o)
    BY <1>0, <1>2, <2>1
  <2>2. CASE ~Buys(o)
    <3>1. shares' = [shares EXCEPT ![u] = @ - q]
      BY <1>2, <1>6, <2>2
    <3> QED BY <1>0, <2>2, <3>1
  <2> QED BY <2>1, <2>2
<1>8. v \notin held' => shares'[v] = 0
  <2> SUFFICES ASSUME v \notin held' PROVE shares'[v] = 0
    OBVIOUS
  <2>1. v \notin held /\ u # v
    BY <1>2, <1>6
  <2> QED BY <1>5, <1>7, <2>1
<1> HIDE DEF u, q
<1>9. shares'[v] = InitShares[v] + Bought(v)' - Sold(v)'
  <2>1. CASE u = v /\ Buys(o)
    BY <1>0, <1>4, <1>5, <1>7, <2>1
  <2>2. CASE u = v /\ ~Buys(o)
    BY <1>0, <1>4, <1>5, <1>7, <2>2
  <2>3. CASE u # v
    BY <1>0, <1>4, <1>5, <1>7, <2>3
  <2> QED BY <2>1, <2>2, <2>3
<1> QED BY <1>8, <1>9 DEF Held

LEMMA StillHolds ==
  ASSUME HoldInv, Calm, HoldsStill, NEW v \in Owners
  PROVE  Held(v)'
<1>1. BuyingFor(v)' = BuyingFor(v) /\ SellingFor(v)' = SellingFor(v)
  BY DEF HoldsStill, BuyingFor, SellingFor, Buying, Selling, Buys
<1>2. /\ [x \in BuyingFor(v) |-> EnteredFills(x)'] = [x \in BuyingFor(v) |-> EnteredFills(x)]
      /\ [x \in SellingFor(v) |-> EnteredFills(x)'] = [x \in SellingFor(v) |-> EnteredFills(x)]
  BY OwnersOrders DEF HoldsStill, EntersSame
<1>3. Bought(v)' = Bought(v) /\ Sold(v)' = Sold(v)
  BY <1>1, <1>2 DEF Bought, Sold
<1>4. Held(v) /\ shares' = shares /\ held' = held
  BY DEF HoldInv, HoldsStill
<1> QED BY <1>3, <1>4 DEF Held

(* The row that the sweep deletes has nothing, not less than nothing. *)
LEMMA SweepHolds ==
  ASSUME EnoughHeld, HoldInv, Calm, NEW o \in Orders, SweepHolding(o), NEW v \in Owners
  PROVE  Held(v)'
<1> DEFINE u == asked[o].owner
<1>0. /\ TypeInv /\ exec \in [Orders -> Goroutine] /\ shares \in [Owners -> Int]
      /\ u \in Owners /\ fills' = fills /\ asked' = asked /\ Held(u) /\ Held(v)
  <2>1. TypeInv
    BY DEF HoldInv, BoundInv, LifeInv
  <2>2. u \in Owners
    BY <2>1, AskedType DEF TypeInv
  <2> QED BY <2>1, <2>2 DEF HoldInv, SweepHolding, rowVars, TypeInv, TypeOK, Goroutine
<1>1. EntersSame
  <2>1. /\ exec[o].pc = "sweep" /\ exec'[o].pc = "remaining"
        /\ \A p \in Orders \ {o} : exec'[p] = exec[p]
    BY <1>0 DEF SweepHolding, At, GoTo, Goroutine
  <2> QED BY <1>0, <2>1 DEF EntersSame, EnteredFills, At
<1>2. shares[u] >= 0
  <2>1. /\ Sold(u) <= InitShares[u] /\ Bought(u) \in Nat /\ Sold(u) \in Nat
        /\ InitShares[u] \in Nat
    BY <1>0, SoldIsHeld
  <2> HIDE DEF u
  <2> QED BY <1>0, <2>1 DEF Held
<1>3. CASE UNCHANGED <<held, shares>>
  BY <1>0, <1>1, <1>3, StillHolds DEF HoldsStill
<1>4. CASE shares[u] <= 0 /\ held' = held \ {u} /\ shares' = [shares EXCEPT ![u] = 0]
  <2>1. shares[u] = 0
    BY <1>0, <1>2, <1>4
  <2>2. shares' = shares
    BY <1>0, <1>4, <2>1
  <2>3. BuyingFor(v)' = BuyingFor(v) /\ SellingFor(v)' = SellingFor(v)
    BY <1>0 DEF BuyingFor, SellingFor, Buying, Selling, Buys
  <2>4. /\ [x \in BuyingFor(v) |-> EnteredFills(x)'] = [x \in BuyingFor(v) |-> EnteredFills(x)]
        /\ [x \in SellingFor(v) |-> EnteredFills(x)'] = [x \in SellingFor(v) |-> EnteredFills(x)]
    BY <1>1, OwnersOrders DEF EntersSame
  <2>5. Bought(v)' = Bought(v) /\ Sold(v)' = Sold(v)
    BY <2>3, <2>4 DEF Bought, Sold
  <2>6. v \notin held' => shares'[v] = 0
    BY <1>0, <1>4, <2>1, <2>2 DEF Held
  <2> QED BY <1>0, <2>2, <2>5, <2>6 DEF Held
<1> QED BY <1>3, <1>4 DEF SweepHolding

LEMMA NextHoldInv ==
  ASSUME EnoughHeld, HoldInv, [Next]_vars
  PROVE  HoldInv'
<1>0. /\ TypeInv /\ BoundInv'
      /\ \A p \in Orders : At(p, "holding")' => exec'[p].qty <= fills'[p].qty
  BY NextBoundInv, HoldingSteps DEF HoldInv, BoundInv, LifeInv
<1> SUFFICES ASSUME Calm', NEW v \in Owners PROVE Held(v)'
  BY <1>0 DEF HoldInv
<1>1. Calm /\ refusals' = refusals
  BY <1>0, IncidentsStay DEF Calm, Undisturbed, TypeInv, TypeOK
<1>2. HoldsStill \/ \E o \in Orders : UpdateHolding(o) \/ SweepHolding(o)
  BY HoldingSteps
<1> QED BY <1>1, <1>2, StillHolds, UpdateHolds, SweepHolds

(* While nothing fails and no execution is repeated, a portfolio shows     *)
(* what was bought and sold, up to the fill that is being entered.         *)
THEOREM HoldingsAreRight == EnoughHeld => (Spec => []HoldingsMatch)
<1> SUFFICES ASSUME EnoughHeld PROVE Spec => []HoldingsMatch
  OBVIOUS
<1>1. Init => HoldInv
  <2> SUFFICES ASSUME Init PROVE HoldInv
    OBVIOUS
  <2>1. BoundInv /\ TypeInv
    BY InitBoundInv, InitTypeInv
  <2>2. \A o \in Orders : exec[o].pc = "off" /\ fills[o].qty = 0
    BY DEF Init
  <2>3. \A o \in Orders : EnteredFills(o) = 0
    <3> TAKE o \in Orders
    <3>1. ~At(o, "holding") /\ fills[o].qty = 0
      BY <2>2 DEF At
    <3> QED BY <3>1 DEF EnteredFills
  <2>4. ASSUME NEW u \in Owners PROVE Held(u)
    <3>1. Bought(u) = 0 /\ Sold(u) = 0
      BY <2>3, OwnersOrders, SumZero DEF Bought, Sold
    <3>2. shares = InitShares /\ InitShares[u] \in Nat
          /\ (u \notin held => ~(InitShares[u] > 0))
      BY AmountsAssumption DEF Init
    <3> HIDE DEF Init
    <3> QED BY <3>1, <3>2 DEF Held
  <2> QED BY <2>1, <2>2, <2>4 DEF HoldInv, At
<1>2. HoldInv /\ [Next]_vars => HoldInv'
  BY NextHoldInv
<1>3. HoldInv => HoldingsMatch
  <2>1. \A u \in Owners : /\ Bought(u) = SumOver(BuyingFor(u), EnteredFills)
                          /\ Sold(u) = SumOver(SellingFor(u), EnteredFills)
    BY DEF Bought, Sold, SumOver
  <2> QED BY <2>1 DEF HoldInv, Calm, Held, HoldingsMatch
<1>4. Init /\ [][Next]_vars => []HoldInv
  BY <1>1, <1>2, PTL
<1> QED BY <1>3, <1>4, PTL DEF Spec
=============================================================================
