-------------------------- MODULE MCOtcNegotiation --------------------------
(* Instances of OtcNegotiation for TLC: a seller with two sessions and a   *)
(* buyer, two negotiations about the same shares.                          *)
EXTENDS OtcNegotiation, TLC

CONSTANTS n1, n2, seller, buyer, s1, s2, b1, sAcc, bAcc

MCUserOf == (s1 :> seller) @@ (s2 :> seller) @@ (b1 :> buyer)
MCBuyer == [n \in Negotiations |-> buyer]
MCSellers == [n \in Negotiations |-> {seller}]
MCSeller == [n \in Negotiations |-> seller]
MCPaying == [n \in Negotiations |-> bAcc]
MCPaid == [n \in Negotiations |-> sAcc]
MCRate == [n \in Negotiations |-> 1]
(* Two shares: for two small contracts, or one large. *)
MCFree == (seller :> 2)
MCTerms == {[amount |-> 1, premium |-> 1], [amount |-> 2, premium |-> 2]}
MCBalance == (sAcc :> 0) @@ (bAcc :> 2)
MCTaxable == Negotiations \X {"seller"}

(* For instances that fail: the seller is paid into an account of another  *)
(* currency; a premium is never paid from an empty account.                *)
DoubleRate == [n \in Negotiations |-> 2]
NeverOverdrawn == \A a \in Accounts : balance[a] >= 0

Symmetry == Permutations(Negotiations) \cup Permutations({s1, s2})

(* At most one of these in a behaviour. *)
Failures ==
  {"sum", "lookup", "insert", "deduct", "deductAnswer", "credit", "creditAnswer",
   "contract", "commitAnswer", "retry", "tax", "disconnect",
   "crash"}
=============================================================================
