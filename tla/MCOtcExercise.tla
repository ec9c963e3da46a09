---------------------------- MODULE MCOtcExercise ----------------------------
(* Instances of OtcExercise for TLC: a seller s, a buyer b, one or two     *)
(* contracts between them, one account each.                               *)
EXTENDS OtcExerciseLedger, TLC

CONSTANTS c1, c2, k1, k2, k3, s, b, sAcc, bAcc, bAcc2

OneContract == {c1}
CallerSymmetry == Permutations({k1, k2})
(* The third caller, if there is one, calls for c2 only. *)
MCCalls == {p \in Contracts \X Callers : p[2] = k3 <=> p[1] = c2}
TwoContracts == {c1, c2}
MCSeller == [c \in Contracts |-> s]
MCBuyer == [c \in Contracts |-> b]
MCSellerAccount == [c \in Contracts |-> sAcc]
MCBuyerAccount == [c \in Contracts |-> bAcc]

(* c1 is the smaller contract; the buyer's 3 dinars pay for c1 and one     *)
(* more dinar, so that two concurrent exercises compete for them.          *)
MCAmount == [c \in Contracts |-> IF c = c1 THEN 1 ELSE 2]
MCPay == [c \in Contracts |-> 2]
MCReceive == [c \in Contracts |-> IF c = c1 THEN 2 ELSE 3]
(* Two owners, or two accounts, that sell in one contract and buy in the   *)
(* other.                                                                  *)
CrossSeller == [c \in Contracts |-> IF c = c1 THEN s ELSE b]
CrossBuyer == [c \in Contracts |-> IF c = c1 THEN b ELSE s]
CrossSellerAccount == [c \in Contracts |-> IF c = c1 THEN sAcc ELSE bAcc]
CrossBuyerAccount == [c \in Contracts |-> IF c = c1 THEN bAcc ELSE sAcc]
OneShareEach == [c \in Contracts |-> 1]

(* findAccount has no ORDER BY: it may find the buyer's other account. *)
OtherAccount == [c \in Contracts |-> bAcc2]

MCBalance == (sAcc :> 0) @@ (bAcc :> 3)
TwoAccountsBalance == MCBalance @@ (bAcc2 :> 0)

(* Money for two exercises of c1, and as many shares. *)
RichBalance == (sAcc :> 0) @@ (bAcc :> 4)
TwoShares == (s :> 2) @@ (b :> 0)

(* The seller keeps a share, or is sold out by the exercise. *)
SpareShares == (s :> 4) @@ (b :> 0)
LastShares == (s :> 1) @@ (b :> 0)

AllFaults == {"lookup", "reserveFunds", "reserveShares", "debitBuyer",
              "creditSeller", "takeShares", "dropRow", "giveShares", "verify",
              "commit"}
(* The writes whose errors the code drops, the queries that stop recovery, *)
(* and a commit whose answer is lost.                                      *)
SilentFaults == {"insertSaga", "sagaStatus", "readLog", "commitAnswer"}
EveryFault == AllFaults \cup SilentFaults
Anywhere == Labels \cup RecoveryLabels
RecoveryBoundaries == StepBoundaries \cup {"finish"}
=============================================================================
