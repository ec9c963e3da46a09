--------------------------- MODULE MCOrderExecution ---------------------------
(* Instances of OrderExecution for TLC: two orders, of a client or of an   *)
(* agent, on one account.                                                  *)
EXTENDS OrderLedger, TLC

CONSTANTS o1, o2, client, house, clientAcc, houseAcc, g, s1

(* A client's market order, of 2 dinars a unit and a fee of 1. *)
ClientOrder(direction, quantity) ==
  [owner |-> client, account |-> clientAcc, agent |-> None, client |-> TRUE,
   direction |-> direction, quantity |-> quantity, price |-> 2, fee |-> 1,
   total |-> 2 * quantity, rate |-> 1, aon |-> FALSE, isMargin |-> FALSE,
   margin |-> 0, expires |-> FALSE]
AgentOrder(quantity) ==
  [ClientOrder("BUY", quantity) EXCEPT !.owner = house, !.account = houseAcc,
                                       !.agent = g, !.client = FALSE]

(* A client buys two units and sells one; buys two units all or none, and  *)
(* one on margin; an agent's second order is for an expiring future.       *)
MCRequests ==
  {(o1 :> ClientOrder("BUY", 2)) @@ (o2 :> ClientOrder("SELL", 1)),
   (o1 :> [ClientOrder("BUY", 2) EXCEPT !.aon = TRUE])
     @@ (o2 :> [ClientOrder("BUY", 1) EXCEPT !.isMargin = TRUE, !.margin = 3]),
   (o1 :> AgentOrder(2)) @@ (o2 :> [AgentOrder(1) EXCEPT !.expires = TRUE])}

MCBalance == (clientAcc :> 7) @@ (houseAcc :> 7)
MCShares == (client :> 1) @@ (house :> 0)
MCLimit == [a \in Agents |-> 5]

EveryFault == {"insert", "actuaryInfo", "deduct", "approve", "declineOrder",
  "cancel", "start", "margin", "settle", "bank", "commission", "portion", "holding",
  "sweep", "remaining", "done", "decline"}
=============================================================================
