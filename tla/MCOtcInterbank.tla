--------------------------- MODULE MCOtcInterbank ----------------------------
(* An instance of OtcInterbank for TLC: one negotiation, absent or already *)
(* answered by the seller.  Offer t1 is one share for a premium of 2, t2   *)
(* all three shares for 1, both at a price of 1: the buyer's 4 pay for     *)
(* either, but not after the payment of 3; t2 cannot be reserved once a    *)
(* share was sold.  Four calls see an acceptance given up, the two         *)
(* counter-offers that cross it and a second acceptance.                   *)
EXTENDS OtcInterbank, TLC

CONSTANTS n1, t1, t2, c1, c2, c3, c4
MCAmount == (t1 :> 1) @@ (t2 :> 3)
MCStrike == (t1 :> 1) @@ (t2 :> 1)
MCPremium == (t1 :> 2) @@ (t2 :> 1)
Alike == Permutations(Calls)
=============================================================================
