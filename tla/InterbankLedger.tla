--------------------------- MODULE InterbankLedger ---------------------------
(***************************************************************************)
(* The books of InterbankPayment and the refinement of MoneyTransfer.      *)
(***************************************************************************)
EXTENDS InterbankPayment, Functions

(* The reservation of an interbank payment stands. *)
Reserved == Waiting \cup {"release", "debit"}

SumOver(S, where, a) == SumFunctionOnSet(Amount, {p \in S : where[p] = a})

(* An interbank payment takes effect when the receiver's bank claims it.   *)
Committed == {p \in Outgoing : row[p] = "COMMITTED"}
Pending == {p \in Outgoing \ Committed : pc[p] \in Reserved}
Uncredited == {p \in Committed : credits[p] = 0}

EffectiveBalance == [a \in Accounts |->
  account[a].balance + SumOver(Uncredited, To, a) - SumOver(Committed \ debits, From, a)]
EffectiveAvailable == [a \in Accounts |->
  account[a].available + SumOver(Uncredited, To, a) + SumOver(Pending, From, a)]
EffectiveSpent == [a \in Accounts |-> account[a].spent - SumOver(Pending, From, a)]
Done == Committed \cup {p \in Local : pc[p] \in {"record", "completed", "failed"}}

Transfers == INSTANCE MoneyTransfer WITH
  balance <- EffectiveBalance, available <- EffectiveAvailable,
  spent <- EffectiveSpent, done <- Done

(* Seen without the effects of unfinished payments, a payment to a partner *)
(* bank is one atomic transfer, although the two books are written by two  *)
(* banks at different times: as long as some attempt of every request is   *)
(* answered.  A credit that the code never books stays unfinished.         *)
PaymentIsAtomic == Transfers!MSpec

=============================================================================
