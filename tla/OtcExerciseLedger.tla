-------------------------- MODULE OtcExerciseLedger --------------------------
(***************************************************************************)
(* The books of OtcExercise: what each label of a call has moved so far,   *)
(* the invariants I1, I2 and I3 of saga_integration_test.go                *)
(* (assertInvariants) and the refinement of OptionExercise.                *)
(***************************************************************************)
EXTENDS OtcExercise, Functions

ASSUME FiniteAssumption == IsFiniteSet(Contracts) /\ IsFiniteSet(Calls)

(* Where a crash leaves nothing that the log does not show: between the     *)
(* SUCCESS row of a step and the next statement, and in a recovery that    *)
(* has compensated nothing yet.                                            *)
StepBoundaries == {"lock", "insertSaga", "reserveFunds", "reserveShares",
                   "debitBuyer", "takeShares", "verify"}
CleanBoundaries == StepBoundaries \cup {"mark", "read"}

(* Labels at which the effect of a statement stands and is not undone. *)
FundsReserved == (Forward \ {"insertSaga", "reserveFunds"}) \cup (Undoing \ {"end"})
SharesTaken == {"dropRow", "giveShares", "undoTake", "log4", "verify", "commit",
                "c4seller"}
SharesGiven == {"log4", "verify", "commit", "c4seller", "c4buyer"}
SharesReserved ==
  FundsReserved \ (SharesTaken \cup {"log1", "reserveShares", "c1"})
SellerCredited == (SharesTaken \cup SharesReserved)
                    \ {"log2", "debitBuyer", "creditSeller", "undoDebit", "c2"}
BuyerDebited == (SellerCredited \ {"c3seller"}) \cup {"creditSeller", "undoDebit"}

(* Where a call stands.  A call that a crash cut off stands where the      *)
(* recovery of its saga does: before the first compensator of its logged   *)
(* steps, at one of them, or nowhere when no saga is left to be recovered. *)
(* (Of several calls for a contract recovery tells nothing apart.)         *)
Compensator == [r4seller |-> "c4seller", r4buyer |-> "c4buyer", r3buyer |-> "c3buyer",
                r3seller |-> "c3seller", r2 |-> "c2", r1 |-> "c1", finish |-> "end"]
Stage(p) == LET c == p[1] IN
  IF pc[p] # "lost" THEN pc[p]
  ELSE IF rpc[c] \in DOMAIN Compensator THEN Compensator[rpc[c]]
  ELSE IF saga[c] \in {"Running", "Compensating"}
       THEN Compensator[FirstCompensator(logged[c])]
       ELSE "failed"

(* Sum of weight over the calls at one of the labels. *)
InFlight(labels, where, x, weight) ==
  SumFunctionOnSet([p \in Calls |-> weight[p[1]]],
                   {p \in Calls : Stage(p) \in labels /\ where[p[1]] = x})

(* The tables with the effects of uncommitted calls taken back. *)
EffectiveBalance == [a \in Accounts |->
  account[a].balance + InFlight(BuyerDebited, PayingAccount, a, Pay)
                     - InFlight(SellerCredited, SellerAccount, a, Receive)]
EffectiveAvailable == [a \in Accounts |->
  account[a].available + InFlight(FundsReserved, PayingAccount, a, Pay)
                       - InFlight(SellerCredited, SellerAccount, a, Receive)]
EffectiveHolding == [u \in Users |->
  shares[u].amount + InFlight(SharesTaken, Seller, u, Amount)
                   - InFlight(SharesGiven, Buyer, u, Amount)]
EffectiveReserved == [u \in Users |->
  shares[u].reserved - InFlight(SharesReserved, Seller, u, Amount)]

Abstract == INSTANCE OptionExercise WITH
  balance <- EffectiveBalance, available <- EffectiveAvailable,
  holding <- EffectiveHolding, reserved <- EffectiveReserved

(* Seen without the effects of unfinished calls, ExerciseContract is one   *)
(* atomic exchange of money, shares and status per contract: whatever step *)
(* fails, its compensators take back exactly what was done.                *)
ExerciseIsAtomic == Abstract!ASpec

(* I1, I2 and I3 of assertInvariants, for every account and owner at every *)
(* moment nothing is in progress: the books show the exercised contracts   *)
(* and nothing else, and nothing is left reserved.                         *)
Quiescent ==
  /\ \A p \in Calls : ~Busy(p)
  /\ \A c \in Contracts : rpc[c] = "off"
  /\ scanned

Exercised(where, x, weight) ==
  SumFunctionOnSet(
    [c \in Contracts |->
       IF contract[c] = "EXERCISED" /\ where[c] = x THEN weight[c] ELSE 0], Contracts)

BooksBalance ==
  Quiescent =>
    /\ \A a \in Accounts :
         /\ account[a].balance = InitBalance[a]
              - Exercised(PayingAccount, a, Pay) + Exercised(SellerAccount, a, Receive)
         /\ account[a].available = account[a].balance
    /\ \A u \in Users :
         /\ shares[u].amount = InitShares[u]
              - Exercised(Seller, u, Amount) + Exercised(Buyer, u, Amount)
         /\ shares[u].reserved = 0

(* saga_recovery.go: "Mark as Compensating so the recovery is idempotent". *)
(* A step compensated twice pays the buyer's reservation back twice, and   *)
(* an account then offers more than it holds.                              *)
RecoveryIsIdempotent ==
  \A a \in Accounts : account[a].available <= account[a].balance

(* Step 2 is headed "Reserve seller securities": reserved shares are there *)
(* until the saga takes or releases them.                                  *)
ReservationsCovered ==
  \A u \in Users : shares[u].reserved <= shares[u].amount
=============================================================================
