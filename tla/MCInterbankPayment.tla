-------------------------- MODULE MCInterbankPayment --------------------------
(* Instances of InterbankPayment for TLC: the client accounts a1 and a2 of *)
(* bank B1 and r of bank B2.  p1 pays from a1 to r and p2 from r to a1;    *)
(* q moves money from a1 to a2, in another currency if it converts.        *)
EXTENDS InterbankLedger, TLC

CONSTANTS B1, B2, a1, a2, r, v1, v2, p1, p2, q

MCHome == (a1 :> B1) @@ (a2 :> B1) @@ (r :> B2) @@ (v1 :> B1) @@ (v2 :> B1)
MCBanks == {v1, v2}
MCKind == [p \in Payments |-> IF p = q THEN "payment" ELSE "interbank"]
MCFrom == [p \in Payments |-> IF p = p2 THEN r ELSE a1]
MCTo == [p \in Payments |-> IF p = p1 THEN r ELSE IF p = p2 THEN a1 ELSE a2]
MCViaFrom == [p \in Payments |-> v1]
MCViaTo == [p \in Payments |-> v2]
(* a1's 3 dinars pay for p1 or q, and for both once p2 has arrived. *)
MCAmount == [p \in Payments |-> IF p = p2 THEN 1 ELSE 2]
MCAcceptable == Payments \ {q}
MCFinal == [p \in Payments |-> 1]
MCBalance == [a \in Accounts |-> IF a = a1 THEN 3 ELSE IF a = r THEN 1 ELSE 0]
MCLimit == [a \in Accounts |-> 4]
EveryFault == {"lookup", "record", "commitAnswer", "garbled", "context", "release",
               "debit", "partner"}
=============================================================================
