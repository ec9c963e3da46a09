----------------------------- MODULE OrderLedger -----------------------------
(***************************************************************************)
(* What the four databases of OrderExecution say together: the accounts,   *)
(* the bank, the portfolios and the agents' limits against the orders and  *)
(* their portions.                                                         *)
(***************************************************************************)
EXTENDS OrderExecution, FiniteSets, Functions

ASSUME FiniteAssumption == IsFiniteSet(Orders)

SumOver(S, value(_)) == SumFunctionOnSet([x \in S |-> value(x)], S)

Buying == {o \in Orders : Buys(o)}
Selling == Orders \ Buying
On(a) == {o \in Orders : asked[o].account = a}

(* The account pays the price and the fee of a BUY, and gets the price     *)
(* less the fee of a SELL; of n portions with q units in all:              *)
Paid(o, n, q) ==
  LET p == asked[o].price * q
      f == asked[o].fee * n
  IN IF Buys(o) THEN 0 - (p + f) ELSE p - f

(* A fill that is settled and has no portion yet. *)
Unrecorded(o) ==
  IF exec[o].pc \in {"bank", "commission", "portion"} THEN 1 ELSE 0
Recorded(o) == Paid(o, fills[o].rows, fills[o].qty)
InFlight(o) == Paid(o, Unrecorded(o), Unrecorded(o) * exec[o].qty)
Settled(o) == Recorded(o) + InFlight(o)

(* The fees the bank has had for an order. *)
Fees(o) ==
  asked[o].fee * (fills[o].rows + IF exec[o].pc \in {"commission", "portion"} THEN 1 ELSE 0)

(* Every dinar that left or reached an account is a portion of an order or *)
(* the one fill its execution is working on, and the bank has the fee of   *)
(* each (scheduler.go:221-251), even when executions overlap, orders share *)
(* the account or are cancelled under way.                                 *)
BooksBalance ==
  Undisturbed =>
    /\ \A a \in Accounts : balance[a] = InitBalance[a] + SumOver(On(a), Settled)
    /\ bank = SumOver(Orders, Fees)

(* A portion is recorded only after it was paid for and its fee was        *)
(* passed on, so that no crash or error leaves an unpaid one: an account   *)
(* from which orders only buy has paid at least for their portions.        *)
FillsArePaid ==
  /\ \A a \in Accounts :
       On(a) \subseteq Buying => balance[a] <= InitBalance[a] + SumOver(On(a), Recorded)
  /\ bank >= SumOver(Orders, LAMBDA o : asked[o].fee * fills[o].rows)

EnteredFills(o) == fills[o].qty - IF At(o, "holding") THEN exec[o].qty ELSE 0
BuyingFor(u) == {o \in Buying : asked[o].owner = u}
SellingFor(u) == {o \in Selling : asked[o].owner = u}

(* The portfolio shows what the portions say, up to the fill that is being *)
(* entered (scheduler.go:265-280), while nobody sells more than is held.   *)
HoldingsMatch ==
  Undisturbed /\ overlaps = 0 =>
    \A u \in Owners :
      shares[u] = InitShares[u] + SumOver(BuyingFor(u), EnteredFills)
                                - SumOver(SellingFor(u), EnteredFills)

BoughtBy(g) == {o \in Buying : asked[o].agent = g}
(* A call is about to charge the limit for it. *)
AboutToCharge(o) ==
  create[o] = "deduct" \/ \E d \in Deciders : decision[<<d, o>>] = "deduct"
ChargedFor(o) == IF order[o].status = "APPROVED" THEN Charge(o) ELSE 0

(* The limit of an agent has been charged for each BUY that was approved,  *)
(* by CreateOrder or by a supervisor (approval/service.go:29-40), once no  *)
(* call is about to charge it, for listings quoted in dinars.              *)
LimitCharged ==
  Undisturbed =>
    \A g \in Agents :
      (\A o \in BoughtBy(g) : ~AboutToCharge(o)) => used[g] >= SumOver(BoughtBy(g), ChargedFor)
=============================================================================
