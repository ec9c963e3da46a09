--------------------------- MODULE MCFundPositions ---------------------------
(* An instance of FundPositions for TLC: fund F with 2 dinars and 2        *)
(* shares; client a, whose account is in a currency of which a dinar is 2  *)
(* units, holds 3 of its 4 and the bank v the rest.  Client a invests (n)  *)
(* and withdraws twice (w1, w2), the bank withdraws (b), and the manager   *)
(* trades (t), two of them in a behaviour.  Client a's 3 exceed the        *)
(* liquid_assets, the bank's 2 once the client has withdrawn.              *)
EXTENDS FundPositions, TLC

CONSTANTS F, a, v, n, b, w1, w2, t

MCBy == [x \in Calls |-> IF x = b THEN v ELSE a]
MCOf == [x \in Calls \cup Trades |-> F]
MCRate == (a :> 2) @@ (v :> 1)
MCCash == (a :> 4) @@ (v :> 0) @@ (F :> 2)
MCPosition == (F :> ((a :> 3) @@ (v :> 1)))
MCLiquid == (F :> 2)
MCShares == (F :> 2)
Alike == Permutations({w1, w2})
EveryFault == {"exchange", "debit", "creditFund", "invest", "compensate",
               "debitFund", "pay", "begin", "withdraw", "pending", "settle",
               "commission", "holding", "payRow", "beginRow", "commitRow",
               "disconnect", "crash"}
=============================================================================
