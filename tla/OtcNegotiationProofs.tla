------------------------ MODULE OtcNegotiationProofs ------------------------
(* Proofs about OtcNegotiation: for any parties, offers, callers and       *)
(* failures, contracts are made on the terms of the row, by the side whose *)
(* turn it is, what is decided stays decided, a seller's shares cover its  *)
(* contracts, and premiums are in the accounts they belong to.             *)
EXTENDS OtcNegotiation, SumTheorems

(* The inductive invariant.  HeldRows carries the argument: from the       *)
(* SELECT ... FOR UPDATE to the end of its transaction, what an acceptance *)
(* has read is what the row says.                                          *)
Acceptance == [pc : Labels, terms : Terms \cup {NoTerms},
               tx : {"open", "aborted", "closed"}, here : BOOLEAN]
Types ==
  /\ neg \in [Negotiations -> [status : Pending \cup Final \cup {None},
                               terms : Terms \cup {NoTerms}, by : Users \cup {None}]]
  /\ contract \in [Negotiations -> [status : {None, "ACTIVE", "EXPIRED"},
                                    terms : Terms \cup {NoTerms}]]
  /\ call \in [Calls -> Acceptance]

Holds(c) == call[c].tx # "closed"

OneHolder ==
  \A c, d \in Calls : Holds(c) /\ Holds(d) /\ c[1] = d[1] => c = d
HeldRows ==
  \A c \in Calls :
    /\ Holds(c) => ItsTurn(c) /\ call[c].terms = neg[c[1]].terms
    /\ call[c].pc = "capacity" /\ call[c].here => Holds(c)
Turns ==
  \A n \in Negotiations :
    /\ neg[n].status = "PENDING_SELLER" => neg[n].by = Buyer[n]
    /\ neg[n].status = "PENDING_BUYER" => neg[n].by \in Sellers[n] \ {Buyer[n]}

(* The row does not exist before it is inserted. *)
NotYetMade ==
  /\ making \in [Negotiations -> [pc : {"idle", "pending", "insert", "end"},
                                  terms : Terms \cup {NoTerms}]]
  /\ \A n \in Negotiations : making[n].pc # "end" => neg[n].status = None

Inv == Types /\ OneHolder /\ HeldRows /\ Turns /\ NotYetMade

LEMMA InitInv == Init => Inv
  BY DEF Init, Inv, Types, OneHolder, HeldRows, Turns, NotYetMade, Holds, Acceptance,
         IdleCall, NoTerms, None, Pending, Final, Labels, Accepting, Checking, Moved

Kept == \A n \in Negotiations : MadeOnAgreedTerms(n) /\ StaysDecided(n)

(* What a call does besides getting hold of a row and agreeing. *)
Quiet(c, next) ==
  /\ next \in Acceptance
  /\ next.tx # "closed" => Holds(c) /\ next.terms = call[c].terms
  /\ next.pc # "capacity" \/ ~next.here

LEMMA QuietStep ==
  ASSUME Inv, UNCHANGED <<neg, contract>>, NotYetMade', call' \in [Calls -> Acceptance],
         \A c \in Calls : call'[c] = call[c] \/ Quiet(c, call'[c])
  PROVE  Inv' /\ Kept
<1>1. OneHolder'
  BY DEF Inv, OneHolder, Holds, Quiet
<1>2. HeldRows'
  BY DEF Inv, HeldRows, Holds, Quiet, ItsTurn, IsSeller, IsBuyer
<1>3. Turns' /\ Types'
  BY DEF Inv, Turns, Types
<1>4. Kept
  BY DEF Kept, MadeOnAgreedTerms, StaysDecided
<1> QED
  BY <1>1, <1>2, <1>3, <1>4 DEF Inv

LEMMA OneCall ==
  ASSUME Inv, NEW c \in Calls, NEW next, Quiet(c, next),
         call' = [call EXCEPT ![c] = next], UNCHANGED <<neg, contract, making>>
  PROVE  Inv' /\ Kept
<1>1. call \in [Calls -> Acceptance] /\ next \in Acceptance
  BY DEF Inv, Types, Quiet
<1>2. call'[c] = next /\ \A d \in Calls \ {c} : call'[d] = call[d]
  BY <1>1
<1>3. call' \in [Calls -> Acceptance]
  BY <1>1
<1>4. NotYetMade'
  BY DEF Inv, NotYetMade
<1> QED
  BY <1>2, <1>3, <1>4, QuietStep

(* The forms of such steps. *)
LEMMA Going ==
  ASSUME Inv, NEW c \in Calls, NEW label \in Labels \ {"capacity"}, GoTo(c, label),
         UNCHANGED <<neg, contract, making>>
  PROVE  Inv' /\ Kept
<1> DEFINE next == [call[c] EXCEPT !.pc = label]
<1>1. call[c] \in Acceptance
  BY DEF Inv, Types
<1>2. Quiet(c, next)
  BY <1>1 DEF Quiet, Acceptance, Holds
<1> QED
  BY <1>2, OneCall DEF GoTo

LEMMA Returning ==
  ASSUME Inv, NEW c \in Calls, Return(c), UNCHANGED <<neg, contract, making>>
  PROVE  Inv' /\ Kept
<1>1. Quiet(c, IdleCall)
  BY DEF Quiet, IdleCall, Acceptance, NoTerms, Labels
<1> QED
  BY <1>1, OneCall DEF Return

LEMMA Ending ==
  ASSUME Inv, NEW c \in Calls, NEW label \in Labels \ {"capacity"},
         NEW tx \in {"aborted", "closed"}, tx = "closed" \/ Holds(c), EndTx(c, tx, label),
         UNCHANGED <<neg, contract, making>>
  PROVE  Inv' /\ Kept
<1> DEFINE next == [call[c] EXCEPT !.pc = label, !.tx = tx]
<1>1. call[c] \in Acceptance
  BY DEF Inv, Types
<1>2. Quiet(c, next)
  BY <1>1 DEF Quiet, Acceptance, Holds
<1> QED
  BY <1>2, OneCall DEF EndTx

(* An acceptance that does not commit. *)
LEMMA AcceptSteps ==
  ASSUME Inv, NEW c \in Calls,
         \/ CheckCapacity(c) \/ CheckBalance(c) \/ DeductPremium(c)
         \/ CreditPremium(c) \/ RefundBuyer(c) \/ TakeBackPremium(c)
         \/ RecordTax(c) \/ Disconnect(c)
  PROVE  Inv' /\ Kept
<1> USE DEF Labels, Accepting, Checking, Moved, tables
<1>1. CASE CheckCapacity(c)
  <2>1. UNCHANGED <<neg, contract, making>>
    BY <1>1 DEF CheckCapacity
  <2>2. CASE GoTo(c, "balance") \/ Return(c)
    BY <2>1, <2>2, Going, Returning
  <2>3. CASE call[c].here /\ EndTx(c, "aborted", "balance")
    <3>1. Holds(c)
      BY <1>1, <2>3 DEF CheckCapacity, At, Inv, HeldRows
    <3> QED
      BY <2>1, <2>3, <3>1, Ending
  <2> QED
    BY <1>1, <2>2, <2>3 DEF CheckCapacity
<1>2. CASE CheckBalance(c)
  BY <1>2, Going, Returning DEF CheckBalance
<1>3. CASE DeductPremium(c)
  BY <1>3, Going, Returning DEF DeductPremium
<1>4. CASE CreditPremium(c)
  BY <1>4, Going DEF CreditPremium
<1>5. CASE RefundBuyer(c)
  BY <1>5, Going, Returning DEF RefundBuyer
<1>6. CASE TakeBackPremium(c)
  BY <1>6, Returning DEF TakeBackPremium
<1>7. CASE RecordTax(c)
  BY <1>7, Returning DEF RecordTax
<1>8. CASE Disconnect(c)
  <2> DEFINE next == [call[c] EXCEPT !.here = FALSE, !.tx = "closed"]
  <2>1. call[c] \in Acceptance
    BY DEF Inv, Types
  <2>2. Quiet(c, next)
    BY <2>1 DEF Quiet, Acceptance
  <2>3. UNCHANGED <<neg, contract, making>> /\ call' = [call EXCEPT ![c] = next]
    BY <1>8 DEF Disconnect
  <2> HIDE DEF next
  <2> QED
    BY <2>2, <2>3, OneCall
<1> QED
  BY <1>1, <1>2, <1>3, <1>4, <1>5, <1>6, <1>7, <1>8

LEMMA CommitStep ==
  ASSUME Inv, NEW c \in Calls, CommitAccept(c)
  PROVE  Inv' /\ Kept
<1> USE DEF Labels, Accepting, Checking, Moved
<1>0. UNCHANGED making /\ c[1] \in Negotiations /\ call[c] \in Acceptance
  BY DEF CommitAccept, Calls, Inv, Types
<1>1. CASE UNCHANGED <<neg, contract>>
  <2>1. CASE GoTo(c, "refundBoth")
    BY <1>0, <1>1, <2>1, Going
  <2>2. CASE \E tx \in {"aborted", "closed"} :
               call[c].tx = "open" /\ EndTx(c, tx, "refundBoth")
    BY <1>0, <1>1, <2>2, Ending DEF Holds
  <2>3. CASE EndTx(c, "closed", "tax") \/ EndTx(c, "closed", "refundBoth")
    BY <1>0, <1>1, <2>3, Ending
  <2> QED
    BY <2>1, <2>2, <2>3 DEF CommitAccept
<1>2. CASE call[c].tx = "open" /\ Agree(c)
           /\ (EndTx(c, "closed", "tax") \/ EndTx(c, "closed", "refundBoth"))
  <2> DEFINE n == c[1]
             row == [neg[n] EXCEPT !.status = "ACCEPTED", !.by = UserOf[c[2]]]
             made == [status |-> "ACTIVE", terms |-> call[c].terms]
  <2>1. Holds(c) /\ ItsTurn(c) /\ call[c].terms = neg[n].terms
    BY <1>2 DEF Inv, HeldRows, Holds
  <2>2. neg' = [neg EXCEPT ![n] = row] /\ contract' = [contract EXCEPT ![n] = made]
    BY <1>2 DEF Agree
  <2>3. /\ row \in [status : Pending \cup Final \cup {None},
                    terms : Terms \cup {NoTerms}, by : Users \cup {None}]
        /\ row.status = "ACCEPTED" /\ row.by = UserOf[c[2]]
    BY <1>0, PartiesAssumption, ZenonT(60) DEF Inv, Types, Final, Calls
  <2>4. made \in [status : {None, "ACTIVE", "EXPIRED"}, terms : Terms \cup {NoTerms}]
        /\ made.terms = neg[n].terms
    BY <1>0, <2>1 DEF Acceptance
  <2>5. /\ call' \in [Calls -> Acceptance]
        /\ call'[c].tx = "closed" /\ call'[c].pc # "capacity"
        /\ \A d \in Calls \ {c} : call'[d] = call[d]
    <3>1. PICK label \in {"tax", "refundBoth"} : EndTx(c, "closed", label)
      BY <1>2
    <3> DEFINE next == [call[c] EXCEPT !.pc = label, !.tx = "closed"]
    <3>2. next \in Acceptance /\ next.tx = "closed" /\ next.pc # "capacity"
      BY <1>0 DEF Acceptance
    <3>3. call' = [call EXCEPT ![c] = next] /\ call \in [Calls -> Acceptance]
      BY <3>1 DEF EndTx, Inv, Types
    <3> HIDE DEF next
    <3> QED
      BY <3>2, <3>3
  <2>6. \A d \in Calls : call'[d].tx # "closed" => d[1] # n
    BY <2>1, <2>5 DEF Inv, OneHolder, Holds
  <2> HIDE DEF row, made
  <2>7. neg'[n] = row /\ \A m \in Negotiations \ {n} : neg'[m] = neg[m]
    BY <1>0, <2>2 DEF Inv, Types
  <2>8. contract'[n] = made /\ \A m \in Negotiations \ {n} : contract'[m] = contract[m]
    BY <1>0, <2>2 DEF Inv, Types
  <2>9. OneHolder'
    BY <2>5 DEF Inv, OneHolder, Holds
  <2>10. HeldRows'
    BY <1>0, <2>5, <2>6, <2>7 DEF Inv, HeldRows, Holds, ItsTurn, IsSeller, IsBuyer, Calls
  <2>11. Types'
    BY <2>2, <2>3, <2>4, <2>5 DEF Inv, Types
  <2>12. Turns'
    BY <2>3, <2>7 DEF Inv, Turns
  <2>13. NotYetMade'
    BY <1>0, <2>1, <2>7 DEF Inv, NotYetMade, ItsTurn, None
  <2>14. Kept
    <3>1. neg[n].status \in Pending
      BY <2>1 DEF ItsTurn, Pending
    <3>2. Buyer[n] \notin Sellers[n] => (neg[n].by = Buyer[n]) # (row.by = Buyer[n])
      BY <1>0, <2>1, <2>3 DEF ItsTurn, IsSeller, IsBuyer, Inv, Turns
    <3>3. MadeOnAgreedTerms(n) /\ StaysDecided(n)
      BY <2>4, <2>7, <2>8, <3>1, <3>2 DEF MadeOnAgreedTerms, StaysDecided, Final, Pending
    <3> QED
      BY <2>7, <2>8, <3>3 DEF Kept, MadeOnAgreedTerms, StaysDecided
  <2> QED
    BY <2>9, <2>10, <2>11, <2>12, <2>13, <2>14 DEF Inv
<1> QED
  BY <1>1, <1>2 DEF CommitAccept

LEMMA BeginStep ==
  ASSUME Inv, NEW c \in Calls, BeginAccept(c)
  PROVE  Inv' /\ Kept
<1> DEFINE next == [pc |-> "capacity", terms |-> neg[c[1]].terms, tx |-> "open",
                    here |-> TRUE]
<1>0. /\ c[1] \in Negotiations /\ call \in [Calls -> Acceptance]
      /\ UNCHANGED <<neg, contract, making>> /\ call' = [call EXCEPT ![c] = next]
  BY DEF BeginAccept, Calls, Inv, Types, tables
<1>1. next \in Acceptance /\ next.terms = neg[c[1]].terms /\ next.tx = "open"
  BY <1>0 DEF Acceptance, Labels, Accepting, Checking, Inv, Types
<1> HIDE DEF next
<1>2. /\ call' \in [Calls -> Acceptance] /\ call'[c] = next
      /\ \A d \in Calls \ {c} : call'[d] = call[d]
  BY <1>0, <1>1
<1>3. \A d \in Calls : d[1] = c[1] => ~Holds(d)
  BY DEF BeginAccept, Unlocked, Holds, Calls
<1>4. OneHolder'
  BY <1>2, <1>3 DEF Inv, OneHolder, Holds
<1>5. HeldRows'
  BY <1>0, <1>1, <1>2 DEF Inv, HeldRows, Holds, BeginAccept, ItsTurn, IsSeller, IsBuyer
<1>6. Types' /\ Turns' /\ NotYetMade'
  BY <1>0, <1>2 DEF Inv, Types, Turns, NotYetMade
<1>7. Kept
  BY <1>0 DEF Kept, MadeOnAgreedTerms, StaysDecided
<1> QED
  BY <1>4, <1>5, <1>6, <1>7 DEF Inv

(* A short transaction on a row that is there and that nobody holds, or    *)
(* its insertion.                                                          *)
LEMMA RowStep ==
  ASSUME Inv, NEW n \in Negotiations,
         NEW row \in [status : Pending \cup Final \cup {None},
                      terms : Terms \cup {NoTerms}, by : Users \cup {None}],
         neg' = [neg EXCEPT ![n] = row], UNCHANGED <<contract, call>>, NotYetMade',
         \A c \in Calls : c[1] = n => ~Holds(c),
         neg[n].status \notin Final,
         row.status = "PENDING_SELLER" => row.by = Buyer[n],
         row.status = "PENDING_BUYER" => row.by \in Sellers[n] \ {Buyer[n]}
  PROVE  Inv' /\ Kept
<1>1. neg'[n] = row /\ \A m \in Negotiations \ {n} : neg'[m] = neg[m]
  BY DEF Inv, Types
<1>2. Types'
  BY DEF Inv, Types
<1>3. OneHolder' /\ Turns'
  BY <1>1 DEF Inv, OneHolder, Holds, Turns
<1>4. HeldRows'
  <2> SUFFICES ASSUME NEW c \in Calls
               PROVE  /\ Holds(c)' => ItsTurn(c)' /\ call'[c].terms = neg'[c[1]].terms
                      /\ call'[c].pc = "capacity" /\ call'[c].here => Holds(c)'
    BY DEF HeldRows
  <2>1. c[1] \in Negotiations
    BY DEF Calls
  <2>2. Holds(c) => neg'[c[1]] = neg[c[1]]
    BY <1>1, <2>1
  <2> QED
    BY <2>2 DEF Inv, HeldRows, Holds, ItsTurn, IsSeller, IsBuyer
<1>5. Kept
  BY <1>1 DEF Kept, MadeOnAgreedTerms, StaysDecided
<1> QED
  BY <1>2, <1>3, <1>4, <1>5 DEF Inv

LEMMA CounterStep ==
  ASSUME Inv, NEW c \in Calls, NEW terms \in Terms, CounterOffer(c, terms)
  PROVE  Inv' /\ Kept
<1> DEFINE row == [status |-> IF IsBuyer(c) THEN "PENDING_SELLER" ELSE "PENDING_BUYER",
                   terms |-> terms, by |-> UserOf[c[2]]]
<1>1. c[1] \in Negotiations /\ c[2] \in Sessions /\ ItsTurn(c)
  BY DEF CounterOffer, Calls
<1>2. neg' = [neg EXCEPT ![c[1]] = row] /\ UNCHANGED <<contract, call, making>>
  BY DEF CounterOffer, NewTerms
<1>3. row \in [status : Pending \cup Final \cup {None},
               terms : Terms \cup {NoTerms}, by : Users \cup {None}]
  BY <1>1, PartiesAssumption DEF Pending
<1>4. /\ row.status = "PENDING_SELLER" => row.by = Buyer[c[1]]
      /\ row.status = "PENDING_BUYER" => row.by \in Sellers[c[1]] \ {Buyer[c[1]]}
  BY <1>1 DEF ItsTurn, IsBuyer, IsSeller
<1>5. neg[c[1]].status \in Pending
  BY <1>1 DEF ItsTurn, Pending
<1> HIDE DEF row
<1>6. NotYetMade'
  BY <1>1, <1>2, <1>5 DEF Inv, NotYetMade, Types, Pending, None
<1>7. \A d \in Calls : d[1] = c[1] => ~Holds(d)
  BY DEF CounterOffer, Unlocked, Holds, Calls
<1> QED
  BY <1>1, <1>2, <1>3, <1>4, <1>5, <1>6, <1>7, RowStep DEF Pending, Final

LEMMA RejectStep ==
  ASSUME Inv, NEW c \in Calls, RejectNegotiation(c)
  PROVE  Inv' /\ Kept
<1> DEFINE row == [neg[c[1]] EXCEPT !.status = "REJECTED", !.by = UserOf[c[2]]]
<1>1. c[1] \in Negotiations /\ c[2] \in Sessions /\ neg[c[1]].status \in Pending
  BY DEF RejectNegotiation, Calls
<1>2. neg' = [neg EXCEPT ![c[1]] = row] /\ UNCHANGED <<contract, call, making>>
  BY DEF RejectNegotiation
<1>3. /\ row \in [status : Pending \cup Final \cup {None},
                  terms : Terms \cup {NoTerms}, by : Users \cup {None}]
      /\ row.status = "REJECTED"
  <2>1. /\ UserOf[c[2]] \in Users
        /\ neg[c[1]] \in [status : Pending \cup Final \cup {None},
                         terms : Terms \cup {NoTerms}, by : Users \cup {None}]
    BY <1>1, PartiesAssumption DEF Inv, Types
  <2> QED
    BY <2>1 DEF Final
<1> HIDE DEF row
<1>4. NotYetMade'
  BY <1>1, <1>2 DEF Inv, NotYetMade, Types, Pending, None
<1>5. \A d \in Calls : d[1] = c[1] => ~Holds(d)
  BY DEF RejectNegotiation, Unlocked, Holds, Calls
<1> QED
  BY <1>1, <1>2, <1>3, <1>4, <1>5, RowStep DEF Pending, Final

LEMMA CreateStep ==
  ASSUME Inv, NEW n \in Negotiations, Create(n)
  PROVE  Inv' /\ Kept
<1>1. CASE \E terms \in Terms : SumContracts(n, terms)
  <2>1. UNCHANGED <<neg, contract, call>> /\ making[n].pc = "idle"
    BY <1>1 DEF SumContracts, tables
  <2>2. NotYetMade'
    BY <1>1, <2>1 DEF SumContracts, Inv, NotYetMade
  <2> QED
    BY <2>1, <2>2, QuietStep DEF Inv, Types
<1>2. CASE SumNegotiations(n)
  <2>1. UNCHANGED <<neg, contract, call>> /\ making[n].pc = "pending"
    BY <1>2 DEF SumNegotiations, tables
  <2>2. NotYetMade'
    BY <1>2, <2>1 DEF SumNegotiations, Inv, NotYetMade
  <2> QED
    BY <2>1, <2>2, QuietStep DEF Inv, Types
<1>3. CASE InsertNegotiation(n)
  <2>1. /\ neg[n].status = None /\ UNCHANGED <<contract, call>>
        /\ making \in [Negotiations -> [pc : {"idle", "pending", "insert", "end"},
                                        terms : Terms \cup {NoTerms}]]
    BY <1>3 DEF InsertNegotiation, Inv, NotYetMade
  <2>2. CASE neg' = neg
    BY <1>3, <2>1, <2>2, QuietStep DEF InsertNegotiation, Inv, Types, NotYetMade
  <2>3. CASE neg' # neg
    <3> DEFINE row == [status |-> "PENDING_SELLER", terms |-> making[n].terms,
                       by |-> Buyer[n]]
    <3>1. neg' = [neg EXCEPT ![n] = row]
      BY <1>3, <2>3 DEF InsertNegotiation
    <3>2. /\ row \in [status : Pending \cup Final \cup {None},
                      terms : Terms \cup {NoTerms}, by : Users \cup {None}]
          /\ row.status = "PENDING_SELLER" /\ row.by = Buyer[n]
      BY <2>1, PartiesAssumption DEF Pending
    <3> HIDE DEF row
    <3>3. NotYetMade'
      BY <1>3, <2>1, <3>1 DEF InsertNegotiation, Inv, NotYetMade, Types
    <3>4. \A c \in Calls : c[1] = n => ~Holds(c)
      BY <2>1 DEF Inv, HeldRows, ItsTurn, None
    <3> QED
      BY <2>1, <3>1, <3>2, <3>3, <3>4, RowStep DEF Final, None
  <2> QED
    BY <2>2, <2>3
<1> QED
  BY <1>1, <1>2, <1>3 DEF Create

LEMMA ExpireStep ==
  ASSUME Inv, NEW n \in Negotiations, ExpireContract(n)
  PROVE  Inv' /\ Kept
<1>1. /\ UNCHANGED <<neg, call, making>> /\ contract[n].status = "ACTIVE"
      /\ contract' = [contract EXCEPT ![n].status = "EXPIRED"]
  BY DEF ExpireContract
<1>2. Types'
  BY <1>1 DEF Inv, Types
<1>3. OneHolder' /\ HeldRows' /\ Turns' /\ NotYetMade'
  BY <1>1 DEF Inv, OneHolder, HeldRows, Turns, NotYetMade, Holds, ItsTurn, IsSeller, IsBuyer
<1>4. Kept
  BY <1>1 DEF Kept, MadeOnAgreedTerms, StaysDecided, Inv, Types, None
<1> QED
  BY <1>2, <1>3, <1>4 DEF Inv

LEMMA CrashStep == ASSUME Inv, Crash PROVE Inv' /\ Kept
<1>1. UNCHANGED <<neg, contract>> /\ call' = [c \in Calls |-> IdleCall]
  BY DEF Crash, tables
<1>2. IdleCall \in Acceptance /\ IdleCall.tx = "closed" /\ IdleCall.pc = "idle"
  BY DEF IdleCall, Acceptance, NoTerms, Labels
<1>3. NotYetMade'
  BY <1>1 DEF Crash, Inv, NotYetMade
<1> HIDE DEF IdleCall
<1>4. \A c \in Calls : Quiet(c, call'[c])
  BY <1>1, <1>2 DEF Quiet
<1> QED
  BY <1>1, <1>2, <1>3, <1>4, QuietStep

LEMMA Step == ASSUME Inv, [Next]_vars PROVE Inv' /\ Kept
<1>1. ASSUME NEW c \in Calls, Accept(c) PROVE Inv' /\ Kept
  BY <1>1, BeginStep, AcceptSteps, CommitStep DEF Accept
<1>2. ASSUME NEW n \in Negotiations, Create(n) \/ ExpireContract(n) PROVE Inv' /\ Kept
  BY <1>2, CreateStep, ExpireStep
<1>3. CASE UNCHANGED vars
  BY <1>3, QuietStep DEF vars, tables, Inv, Types, NotYetMade
<1> QED
  BY <1>1, <1>2, <1>3, AcceptSteps, RejectStep, CounterStep, CrashStep DEF Next

(* For any parties, offers, number of callers and failures: contracts are  *)
(* made on the terms of the row, which the other side offered, and what is *)
(* accepted or rejected is not touched again (FOR UPDATE at                *)
(* grpc_server.go:435, 552, 790).                                          *)
THEOREM AgreementsKept == Spec => AgreementsHold
<1>1. Inv /\ [Next]_vars => Inv'
  BY Step
<1>2. Inv /\ [Next]_vars => [Kept]_vars
  BY Step
<1> QED
  BY InitInv, <1>1, <1>2, PTL DEF Spec, AgreementsHold, Kept
-----------------------------------------------------------------------------
(* Sums over the contracts and over the acceptances.                       *)

LEMMA Amounts ==
  ASSUME Types
  PROVE  /\ \A n \in Negotiations : /\ neg[n].terms.amount \in Nat
                                    /\ contract[n].terms.amount \in Nat
                                    /\ contract[n].terms.premium \in Nat
         /\ \A c \in Calls : call[c].terms.amount \in Nat /\ call[c].terms.premium \in Nat
<1>1. \A t \in Terms \cup {NoTerms} : t.amount \in Nat /\ t.premium \in Nat
  BY AmountsAssumption DEF NoTerms
<1>2. \A n \in Negotiations : /\ neg[n].terms \in Terms \cup {NoTerms}
                              /\ contract[n].terms \in Terms \cup {NoTerms}
  BY DEF Types
<1>3. \A c \in Calls : call[c].terms \in Terms \cup {NoTerms}
  BY DEF Types, Acceptance
<1> QED
  BY <1>1, <1>2, <1>3

LEMMA FiniteCalls == IsFiniteSet(Calls)
  BY FiniteAssumption, FS_Product DEF Calls

LEMMA SharesSums ==
  ASSUME Types, NEW o
  PROVE  /\ ActiveContracts(o) =
              SumFunctionOnSet([n \in Negotiations |-> Active(n, o)], Negotiations)
         /\ \A n \in Negotiations : Active(n, o) \in Nat
         /\ ActiveContracts(o) \in Nat /\ PendingNegotiations(o) \in Nat
<1> DEFINE f == [n \in Negotiations |-> Active(n, o)]
           g == [n \in Negotiations |-> Offered(n, o)]
<1>1. \A n \in Negotiations : f[n] \in Nat /\ g[n] \in Nat
  BY Amounts DEF Active, Offered
<1>2. ActiveContracts(o) = SumFunction(f) /\ PendingNegotiations(o) = SumFunction(g)
  BY DEF ActiveContracts, PendingNegotiations, SumOver
<1>3. DOMAIN f = Negotiations /\ DOMAIN g = Negotiations
  OBVIOUS
<1>4. \A n \in Negotiations : f[n] = Active(n, o)
  OBVIOUS
<1>5. /\ ActiveContracts(o) = SumFunctionOnSet(f, Negotiations)
      /\ PendingNegotiations(o) = SumFunctionOnSet(g, Negotiations)
  BY <1>2, <1>3, SumOfAll
<1>6. ActiveContracts(o) = SumFunctionOnSet([n \in Negotiations |-> Active(n, o)], Negotiations)
  BY <1>5
<1> HIDE DEF f, g
<1> QED
  BY <1>1, <1>4, <1>5, <1>6, SumNat, FiniteAssumption

(* A contract is changed, the others are not. *)
LEMMA SharesChange ==
  ASSUME Types, Types', NEW o, NEW n \in Negotiations,
         \A m \in Negotiations \ {n} : contract'[m] = contract[m]
  PROVE  ActiveContracts(o)' = ActiveContracts(o) - Active(n, o) + Active(n, o)'
<1> DEFINE f == [m \in Negotiations |-> Active(m, o)]
           g == [m \in Negotiations |-> Active(m, o)']
<1>1. \A m \in Negotiations : f[m] \in Int
  <2>1. \A m \in Negotiations : Active(m, o) \in Nat
    BY SharesSums
  <2> QED
    BY <2>1
<1>2. \A m \in Negotiations : g[m] \in Int
  <2>1. \A m \in Negotiations : contract'[m].terms.amount \in Nat
    <3>1. \A t \in Terms \cup {NoTerms} : t.amount \in Nat
      BY AmountsAssumption DEF NoTerms
    <3> QED
      BY <3>1 DEF Types
  <2> QED
    BY <2>1 DEF Active
<1>3. \A m \in Negotiations \ {n} : g[m] = f[m]
  BY DEF Active
<1>4. f[n] = Active(n, o) /\ g[n] = Active(n, o)'
  OBVIOUS
<1>5. ActiveContracts(o) = SumFunctionOnSet(f, Negotiations)
  BY SharesSums
<1>6. ActiveContracts(o)' = SumFunctionOnSet(g, Negotiations)
  BY SumOfAll DEF ActiveContracts, SumOver
<1> HIDE DEF f, g
<1> QED
  BY <1>1, <1>2, <1>3, <1>4, <1>5, <1>6, SumChange, FiniteAssumption
-----------------------------------------------------------------------------
(* Types.                                                                  *)

Rest ==
  /\ taxed \subseteq Negotiations \X {"seller", "buyer"}
  /\ balance \in [Accounts -> Int] /\ promised \in [Negotiations -> Nat]
  /\ raced \in BOOLEAN /\ adrift \in BOOLEAN /\ refusals \in Nat

LEMMA Changing ==
  ASSUME Rest, Types, NEW n \in Negotiations, NEW c \in Calls,
         NEW a \in {PayingAccount[n], PaidAccount[n]},
         NEW x \in {Premium(c), -Premium(c), Premium(c) * Rate[n]}, Change(a, x)
  PROVE  balance' \in [Accounts -> Int]
<1>1. Premium(c) \in Nat
  BY Amounts DEF Premium
<1>2. Rate[n] \in Nat /\ a \in Accounts
  BY AmountsAssumption, PartiesAssumption
<1>3. x \in Int
  BY <1>1, <1>2
<1> QED
  BY <1>2, <1>3 DEF Change, Rest

LEMMA AcceptRest ==
  ASSUME Inv, Rest, NEW c \in Calls, Accept(c)
  PROVE  Rest'
<1>0. c[1] \in Negotiations /\ Types
  BY DEF Calls, Inv
<1> USE DEF Succeeds, Refused, LostAnswer
<1>1. refusals' \in Nat
  <2>1. CASE BeginAccept(c)
    BY <2>1 DEF BeginAccept, Rest
  <2>2. CASE CheckCapacity(c) \/ CheckBalance(c)
    BY <2>2 DEF CheckCapacity, CheckBalance, Fails, Rest
  <2>3. CASE DeductPremium(c) \/ CreditPremium(c)
    BY <2>3 DEF DeductPremium, CreditPremium, Fails, Rest
  <2>4. CASE CommitAccept(c)
    BY <2>4 DEF CommitAccept, Rest
  <2>5. CASE RefundBuyer(c) \/ TakeBackPremium(c)
    BY <2>5 DEF RefundBuyer, TakeBackPremium, Compensate, Rest
  <2>6. CASE RecordTax(c)
    BY <2>6 DEF RecordTax, InsertTax, Rest
  <2> QED
    BY <2>1, <2>2, <2>3, <2>4, <2>5, <2>6 DEF Accept
<1>2. promised' = promised /\ raced' \in BOOLEAN
  <2>1. CASE CheckCapacity(c)
    BY <2>1 DEF CheckCapacity, Rest
  <2>2. CASE UNCHANGED <<promised, raced>>
    BY <2>2 DEF Rest
  <2> QED
    BY <2>1, <2>2 DEF Accept, BeginAccept, CheckBalance, DeductPremium, CreditPremium,
       CommitAccept, RefundBuyer, TakeBackPremium, RecordTax
<1>3. taxed' \subseteq Negotiations \X {"seller", "buyer"}
  <2>1. CASE RecordTax(c)
    BY <1>0, <2>1 DEF RecordTax, InsertTax, Rest
  <2>2. CASE UNCHANGED taxed
    BY <2>2 DEF Rest
  <2> QED
    BY <2>1, <2>2 DEF Accept, BeginAccept, CheckCapacity, CheckBalance, DeductPremium,
       CreditPremium, CommitAccept, RefundBuyer, TakeBackPremium, tables
<1>4. balance' \in [Accounts -> Int]
  <2>1. CASE UNCHANGED balance
    BY <2>1 DEF Rest
  <2>2. CASE \/ Change(PayingAccount[c[1]], -Premium(c))
             \/ Change(PaidAccount[c[1]], Premium(c) * Rate[c[1]])
             \/ Change(PayingAccount[c[1]], Premium(c))
             \/ Change(PaidAccount[c[1]], -Premium(c))
    BY <1>0, <2>2, Changing
  <2> QED
    BY <2>1, <2>2 DEF Accept, BeginAccept, CheckCapacity, CheckBalance, DeductPremium,
       CreditPremium, CommitAccept, RefundBuyer, TakeBackPremium, RecordTax, Compensate
<1>5. adrift' \in BOOLEAN
  <2>1. adrift \in BOOLEAN
    BY DEF Rest
  <2>2. adrift' = adrift \/ adrift' = TRUE
    BY ZenonT(30) DEF Accept, BeginAccept, CheckCapacity, CheckBalance, DeductPremium,
       CreditPremium, CommitAccept, RefundBuyer, TakeBackPremium, RecordTax, Compensate
  <2> QED
    BY <2>1, <2>2
<1> QED
  BY <1>1, <1>2, <1>3, <1>4, <1>5 DEF Rest

LEMMA OtherRest ==
  ASSUME Inv, Rest,
         \/ \E c \in Calls : \/ RejectNegotiation(c) \/ Disconnect(c)
                             \/ \E terms \in Terms : CounterOffer(c, terms)
         \/ \E n \in Negotiations : Create(n) \/ ExpireContract(n)
         \/ Crash \/ UNCHANGED vars
  PROVE  Rest'
<1> USE DEF Succeeds, Refused
<1>1. ASSUME NEW c \in Calls, \/ RejectNegotiation(c) \/ Disconnect(c)
                              \/ \E terms \in Terms : CounterOffer(c, terms)
      PROVE  Rest'
  <2>1. UNCHANGED <<taxed, balance, promised, raced, adrift>>
    BY <1>1 DEF RejectNegotiation, Disconnect, CounterOffer, tables
  <2>2. refusals' = refusals \/ refusals' = refusals + 1
    BY <1>1 DEF RejectNegotiation, Disconnect, CounterOffer
  <2> QED
    BY <2>1, <2>2 DEF Rest
<1>2. ASSUME NEW n \in Negotiations, NEW terms \in Terms, SumContracts(n, terms) PROVE Rest'
  <2>1. ActiveContracts(Seller[n]) \in Nat
    BY SharesSums DEF Inv
  <2> QED
    BY <1>2, <2>1 DEF SumContracts, SumRead, Rest, tables
<1>3. ASSUME NEW n \in Negotiations, SumNegotiations(n) PROVE Rest'
  BY <1>3 DEF SumNegotiations, SumRead, Rest, tables
<1>4. ASSUME NEW n \in Negotiations, InsertNegotiation(n) PROVE Rest'
  BY <1>4 DEF InsertNegotiation, Rest
<1>5. ASSUME NEW n \in Negotiations, ExpireContract(n) PROVE Rest'
  BY <1>5 DEF ExpireContract, InsertTax, Rest
<1>6. CASE Crash
  BY <1>6 DEF Crash, Rest, tables
<1>7. CASE UNCHANGED vars
  BY <1>7 DEF vars, Rest, tables
<1> QED
  BY <1>1, <1>2, <1>3, <1>4, <1>5, <1>6, <1>7 DEF Create

LEMMA RestStep == ASSUME Inv, Rest, [Next]_vars PROVE Rest'
  BY AcceptRest, OtherRest DEF Next

LEMMA InitRest == Init => Rest
<1> SUFFICES ASSUME Init PROVE Rest
  OBVIOUS
<1>1. balance \in [Accounts -> Int]
  <2>1. balance = InitBalance
    BY DEF Init
  <2>2. \A a \in Accounts : InitBalance[a] \in Int
    BY AmountsAssumption
  <2> QED
    BY <2>1, <2>2, AmountsAssumption
<1>2. raced \in BOOLEAN /\ adrift \in BOOLEAN /\ refusals \in Nat
  BY DEF Init
<1>3. taxed \subseteq Negotiations \X {"seller", "buyer"} /\ promised \in [Negotiations -> Nat]
  BY DEF Init
<1> QED
  BY <1>1, <1>2, <1>3 DEF Rest

LEMMA TypesMean == Inv /\ Rest => TypeOK
  BY DEF Inv, Types, NotYetMade, Rest, TypeOK, Acceptance

(* Rows, contracts, acceptances and balances keep their types: balances    *)
(* are integers, not natural numbers, because the UPDATE of a deduction    *)
(* does not test the balance again.                                        *)
THEOREM NegotiationTypes == Spec => []TypeOK
<1>1. Inv /\ Rest /\ [Next]_vars => Inv' /\ Rest'
  BY Step, RestStep
<1> QED
  BY InitInv, InitRest, TypesMean, <1>1, PTL DEF Spec
-----------------------------------------------------------------------------
(* The shares of a seller.  An acceptance that has counted them keeps its  *)
(* room: what is active can grow only by another acceptance of the same    *)
(* seller that has counted too, and then the two overlap.                  *)

Decided == \A n \in Negotiations : contract[n].status # None => neg[n].status \in Final
Counted(c) == call[c].pc \in Accepting \ {"capacity"} /\ call[c].tx = "open"
Room ==
  /\ \A o \in Owners : ActiveContracts(o) <= Free[o]
  /\ \A c \in Calls : Counted(c) => Enough(c)
  /\ \A c, d \in Calls : Counted(c) /\ Counted(d) /\ Seller[c[1]] = Seller[d[1]] => c = d

LEMMA DecidedStep == ASSUME Inv, Decided, [Next]_vars PROVE Decided'
<1>1. \A n \in Negotiations : StaysDecided(n)
  BY Step DEF Kept
<1>2. ASSUME NEW n \in Negotiations, contract[n].status = None, contract'[n].status # None
      PROVE  neg'[n].status \in Final
  <2>1. contract' # contract
    BY <1>2
  <2>2. ASSUME NEW m \in Negotiations, ExpireContract(m) PROVE FALSE
    <3>1. m # n
      BY <1>2, <2>2, SMTT(30) DEF ExpireContract, None
    <3> QED
      BY <1>2, <2>2, <3>1 DEF ExpireContract, Inv, Types
  <2>3. PICK c \in Calls : Agree(c)
    BY <2>1, <2>2, ZenonT(60) DEF Next, vars, tables, Accept, Create, BeginAccept, CheckCapacity,
       CheckBalance, DeductPremium, CreditPremium, CommitAccept, RefundBuyer,
       TakeBackPremium, RecordTax, RejectNegotiation, Disconnect, CounterOffer,
       SumContracts, SumNegotiations, InsertNegotiation, Crash
  <2>4. c[1] = n
    BY <1>2, <2>3 DEF Agree, Inv, Types
  <2>5. neg'[n] = [neg[n] EXCEPT !.status = "ACCEPTED", !.by = UserOf[c[2]]]
    BY <2>3, <2>4 DEF Agree, Inv, Types
  <2>6. neg'[n].status = "ACCEPTED"
    BY <2>5 DEF Inv, Types
  <2> QED
    BY <2>6 DEF Final
<1> QED
  BY <1>1, <1>2 DEF Decided, StaysDecided

LEMMA ActiveKept == UNCHANGED contract => \A o : UNCHANGED ActiveContracts(o)
<1> SUFFICES ASSUME UNCHANGED contract, NEW o PROVE UNCHANGED ActiveContracts(o)
  OBVIOUS
<1>1. \A n \in Negotiations : Active(n, o)' = Active(n, o)
  BY DEF Active
<1> QED
  BY <1>1 DEF ActiveContracts, SumOver

(* The calls may lose what they hold, or go on with it. *)
LEMMA RoomKept ==
  ASSUME Room, UNCHANGED contract,
         \A c \in Calls : Counted(c)' => Counted(c) /\ call'[c].terms = call[c].terms
  PROVE  Room'
  BY ActiveKept DEF Room, Enough

LEMMA RoomGoing ==
  ASSUME Inv, Room, NEW c \in Calls, NEW label, UNCHANGED contract,
         \/ GoTo(c, label) /\ (call[c].tx = "open" =>
              call[c].pc \in Accepting \ {"capacity"} \/ label \notin Accepting)
         \/ \E tx \in {"aborted", "closed"} : EndTx(c, tx, label)
         \/ Return(c)
  PROVE  Room'
<1>1. call \in [Calls -> Acceptance] /\ call[c] \in Acceptance
  BY DEF Inv, Types
<1>2. \A d \in Calls \ {c} : call'[d] = call[d]
  BY <1>1 DEF GoTo, EndTx, Return
<1>3. Counted(c)' => Counted(c) /\ call'[c].terms = call[c].terms
  <2>1. CASE Return(c)
    BY <1>1, <2>1 DEF Return, IdleCall, Counted
  <2>2. CASE \E tx \in {"aborted", "closed"} : EndTx(c, tx, label)
    <3> PICK tx \in {"aborted", "closed"} : EndTx(c, tx, label)
      BY <2>2
    <3>1. call'[c] = [call[c] EXCEPT !.pc = label, !.tx = tx]
      BY <1>1 DEF EndTx
    <3>2. call'[c].tx = tx
      BY <1>1, <3>1 DEF Acceptance
    <3> QED
      BY <3>2 DEF Counted
  <2>3. CASE GoTo(c, label) /\ (call[c].tx = "open" =>
               call[c].pc \in Accepting \ {"capacity"} \/ label \notin Accepting)
    <3>1. call'[c] = [call[c] EXCEPT !.pc = label]
      BY <1>1, <2>3 DEF GoTo
    <3>2. call'[c].pc = label /\ call'[c].tx = call[c].tx /\ call'[c].terms = call[c].terms
      BY <1>1, <3>1 DEF Acceptance
    <3> QED
      BY <2>3, <3>2 DEF Counted
  <2> QED
    BY <2>1, <2>2, <2>3
<1> QED
  BY <1>2, <1>3, RoomKept DEF Counted

LEMMA CountingStep ==
  ASSUME Inv, ~raced => Room, NEW c \in Calls, CheckCapacity(c)
  PROVE  ~raced' => Room'
<1>0. call \in [Calls -> Acceptance] /\ call[c] \in Acceptance /\ UNCHANGED contract
  BY DEF CheckCapacity, tables, Inv, Types
<1>1. CASE (Return(c) \/ EndTx(c, "aborted", "balance")) /\ UNCHANGED raced
  BY <1>0, <1>1, RoomGoing
<1>2. CASE GoTo(c, "balance") /\ Enough(c) /\ raced' = (raced \/ Overlaps(c))
  <2> SUFFICES ASSUME ~raced, ~Overlaps(c) PROVE Room'
    BY <1>2
  <2>1. \A d \in Calls \ {c} : call'[d] = call[d]
    BY <1>0, <1>2 DEF GoTo
  <2>2. call'[c] = [call[c] EXCEPT !.pc = "balance"]
    BY <1>0, <1>2 DEF GoTo
  <2>3. call'[c].terms = call[c].terms /\ call'[c].pc = "balance"
    BY <1>0, <2>2 DEF Acceptance
  <2>4. \A d \in Calls \ {c} : Counted(d) => Seller[d[1]] # Seller[c[1]]
    BY DEF Overlaps, Counted
  <2>5. \A o : ActiveContracts(o)' = ActiveContracts(o)
    BY <1>0, ActiveKept
  <2>6. \A d \in Calls \ {c} : Counted(d)' <=> Counted(d)
    BY <2>1 DEF Counted
  <2>7. Enough(c)'
    BY <1>2, <2>3, <2>5 DEF Enough
  <2>8. \A d \in Calls \ {c} : Enough(d)' <=> Enough(d)
    BY <2>1, <2>5 DEF Enough
  <2> QED
    BY <2>4, <2>5, <2>6, <2>7, <2>8 DEF Room
<1> QED
  BY <1>1, <1>2 DEF CheckCapacity

(* The contract takes the room that its acceptance has counted. *)
LEMMA AgreeingStep ==
  ASSUME Inv, Types', Decided, Room, NEW c \in Calls, call[c].tx = "open",
         At(c, "commit"), Agree(c), NEW label, EndTx(c, "closed", label)
  PROVE  Room'
<1> DEFINE n == c[1]
           o == Seller[n]
<1>0. /\ call \in [Calls -> Acceptance] /\ call[c] \in Acceptance /\ n \in Negotiations
      /\ call[c].terms.amount \in Nat
  BY Amounts DEF Inv, Types, Calls
<1>1. contract' = [contract EXCEPT ![n] = [status |-> "ACTIVE", terms |-> call[c].terms]]
  BY DEF Agree
<1>2. /\ contract'[n] = [status |-> "ACTIVE", terms |-> call[c].terms]
      /\ \A m \in Negotiations \ {n} : contract'[m] = contract[m]
  BY <1>0, <1>1 DEF Inv, Types
<1>3. contract[n].status = None
  <2>1. ItsTurn(c)
    BY DEF Inv, HeldRows, Holds
  <2> QED
    BY <1>0, <2>1 DEF Decided, ItsTurn, Final
<1>4. Active(n, o) = 0 /\ Active(n, o)' = call[c].terms.amount
  BY <1>2, <1>3 DEF Active, None
<1>5. ActiveContracts(o)' = ActiveContracts(o) + call[c].terms.amount
  <2>1. ActiveContracts(o)' = ActiveContracts(o) - Active(n, o) + Active(n, o)'
    BY <1>0, <1>2, SharesChange DEF Inv
  <2>2. ActiveContracts(o) \in Nat
    BY SharesSums DEF Inv
  <2> QED
    BY <1>0, <1>4, <2>1, <2>2
<1>6. ASSUME NEW p, p # o PROVE ActiveContracts(p)' = ActiveContracts(p)
  <2>1. ActiveContracts(p)' = ActiveContracts(p) - Active(n, p) + Active(n, p)'
    BY <1>0, <1>2, SharesChange DEF Inv
  <2>2. ActiveContracts(p) \in Nat
    BY SharesSums DEF Inv
  <2>3. Active(n, p) = 0 /\ Active(n, p)' = 0
    BY <1>6 DEF Active
  <2> QED
    BY <2>1, <2>2, <2>3
<1>7. /\ \A d \in Calls \ {c} : call'[d] = call[d]
      /\ call'[c].tx = "closed"
  BY <1>0 DEF EndTx, Acceptance
<1>8. Counted(c) /\ ~Counted(c)'
  BY <1>7 DEF Counted, At, Accepting
<1>9. Enough(c)
  BY <1>8 DEF Room
<1>10. ActiveContracts(o)' <= Free[o]
  BY <1>5, <1>9 DEF Enough
<1>11. \A d \in Calls : Counted(d)' => d # c /\ Counted(d) /\ Seller[d[1]] # o
  BY <1>7, <1>8 DEF Room, Counted
<1>12. \A d \in Calls : Counted(d)' => Enough(d)'
  BY <1>6, <1>7, <1>11 DEF Room, Enough
<1> HIDE DEF n, o
<1>13. \A p \in Owners : ActiveContracts(p)' <= Free[p]
  BY <1>6, <1>10 DEF Room
<1>14. \A d, e \in Calls : Counted(d)' /\ Counted(e)' /\ Seller[d[1]] = Seller[e[1]] => d = e
  BY <1>11 DEF Room
<1> QED
  BY <1>12, <1>13, <1>14 DEF Room

LEMMA ExpiringStep ==
  ASSUME Inv, Types', Room, NEW n \in Negotiations, ExpireContract(n)
  PROVE  Room'
<1>1. /\ \A m \in Negotiations \ {n} : contract'[m] = contract[m]
      /\ contract'[n].status = "EXPIRED" /\ UNCHANGED call
  BY DEF ExpireContract, Inv, Types
<1>2. ASSUME NEW o PROVE ActiveContracts(o)' <= ActiveContracts(o)
  <2>1. ActiveContracts(o)' = ActiveContracts(o) - Active(n, o) + Active(n, o)'
    BY <1>1, SharesChange DEF Inv
  <2>2. Active(n, o)' = 0
    BY <1>1 DEF Active
  <2>3. ActiveContracts(o) \in Nat /\ Active(n, o) \in Nat
    BY SharesSums DEF Inv
  <2> QED
    BY <2>1, <2>2, <2>3
<1>3. \A o : ActiveContracts(o)' \in Nat /\ ActiveContracts(o) \in Nat
  <2>1. \A o : ActiveContracts(o) \in Nat
    BY SharesSums DEF Inv
  <2>2. ASSUME NEW o PROVE ActiveContracts(o)' \in Nat
    <3> DEFINE g == [m \in Negotiations |-> Active(m, o)']
    <3>1. \A m \in Negotiations : g[m] \in Nat
      <4>1. \A t \in Terms \cup {NoTerms} : t.amount \in Nat
        BY AmountsAssumption DEF NoTerms
      <4>2. \A m \in Negotiations : contract'[m].terms.amount \in Nat
        BY <4>1 DEF Types
      <4> QED
        BY <4>2 DEF Active
    <3>2. ActiveContracts(o)' = SumFunctionOnSet(g, Negotiations)
      BY SumOfAll DEF ActiveContracts, SumOver
    <3> HIDE DEF g
    <3> QED
      BY <3>1, <3>2, SumNat, FiniteAssumption
  <2> QED
    BY <2>1, <2>2
<1>4. \A o \in Owners : Free[o] \in Nat
  BY AmountsAssumption
<1>5. \A o \in Owners : ActiveContracts(o)' <= Free[o]
  BY <1>2, <1>3, <1>4 DEF Room
<1>6. ASSUME NEW c \in Calls, Counted(c)' PROVE Enough(c)'
  <2>1. /\ Counted(c) /\ c[1] \in Negotiations /\ Seller[c[1]] \in Owners
        /\ call[c].terms.amount \in Nat
    BY <1>1, <1>6, PartiesAssumption, Amounts DEF Counted, Calls, Inv
  <2>2. Free[Seller[c[1]]] >= ActiveContracts(Seller[c[1]]) + call[c].terms.amount
    BY <2>1 DEF Room, Enough
  <2> QED
    BY <1>1, <1>2, <1>3, <1>4, <2>1, <2>2 DEF Enough
<1>7. \A c, d \in Calls : Counted(c)' /\ Counted(d)' /\ Seller[c[1]] = Seller[d[1]] => c = d
  BY <1>1 DEF Room, Counted
<1> QED
  BY <1>5, <1>6, <1>7 DEF Room

LEMMA RoomStep ==
  ASSUME Inv, Inv', Decided, ~raced => Room, [Next]_vars
  PROVE  ~raced' => Room'
<1> USE DEF tables
<1>0. \A c \in Calls : call[c] \in Acceptance
  BY DEF Inv, Types
<1>1. ASSUME NEW c \in Calls, BeginAccept(c) PROVE ~raced' => Room'
  <2>1. /\ UNCHANGED <<contract, raced>> /\ \A d \in Calls \ {c} : call'[d] = call[d]
        /\ call'[c].pc = "capacity"
    BY <1>1 DEF BeginAccept, Inv, Types
  <2> QED
    BY <2>1, RoomKept DEF Counted
<1>2. ASSUME NEW c \in Calls, CheckBalance(c) \/ DeductPremium(c) \/ CreditPremium(c)
      PROVE  ~raced' => Room'
  BY <1>2, RoomGoing DEF CheckBalance, DeductPremium, CreditPremium, At, Accepting, Checking
<1>3. ASSUME NEW c \in Calls, RefundBuyer(c) \/ TakeBackPremium(c) \/ RecordTax(c)
      PROVE  ~raced' => Room'
  BY <1>3, RoomGoing DEF RefundBuyer, TakeBackPremium, RecordTax, Accepting, Checking
<1>4. ASSUME NEW c \in Calls, CommitAccept(c) PROVE ~raced' => Room'
  <2>1. UNCHANGED raced
    BY <1>4 DEF CommitAccept
  <2>2. CASE /\ call[c].tx = "open" /\ Agree(c)
             /\ EndTx(c, "closed", "tax") \/ EndTx(c, "closed", "refundBoth")
    <3>1. At(c, "commit") /\ Types'
      BY <1>4 DEF CommitAccept, Inv
    <3> QED
      BY <2>1, <2>2, <3>1, AgreeingStep
  <2>3. CASE UNCHANGED contract /\ GoTo(c, "refundBoth")
    BY <1>4, <2>1, <2>3, RoomGoing DEF Accepting, Checking
  <2>4. CASE UNCHANGED contract /\ \E tx \in {"aborted", "closed"} : EndTx(c, tx, "refundBoth")
    BY <1>4, <2>1, <2>4, RoomGoing
  <2> QED
    BY <1>4, <2>2, <2>3, <2>4 DEF CommitAccept
<1>5. ASSUME NEW c \in Calls, Disconnect(c) PROVE ~raced' => Room'
  <2>1. UNCHANGED <<contract, raced>> /\ \A d \in Calls \ {c} : call'[d] = call[d]
    BY <1>5 DEF Disconnect, Inv, Types
  <2>2. call'[c] = [call[c] EXCEPT !.here = FALSE, !.tx = "closed"]
    BY <1>5 DEF Disconnect, Inv, Types
  <2>3. call'[c].tx = "closed"
    BY <1>0, <2>2 DEF Acceptance
  <2> QED
    BY <2>1, <2>3, RoomKept DEF Counted
<1>6. ASSUME UNCHANGED <<contract, call, raced>> PROVE ~raced' => Room'
  BY <1>6, RoomKept DEF Counted
<1>7. ASSUME NEW n \in Negotiations, Create(n) PROVE ~raced' => Room'
  BY <1>6, <1>7 DEF Create, SumContracts, SumNegotiations, InsertNegotiation
<1>8. ASSUME NEW c \in Calls, RejectNegotiation(c) \/ \E terms \in Terms : CounterOffer(c, terms)
      PROVE  ~raced' => Room'
  BY <1>6, <1>8 DEF RejectNegotiation, CounterOffer
<1>9. CASE Crash
  <2>1. UNCHANGED <<contract, raced>> /\ \A c \in Calls : call'[c].pc = "idle"
    BY <1>9 DEF Crash, IdleCall
  <2> QED
    BY <2>1, RoomKept DEF Counted, Accepting, Checking
<1>10. ASSUME NEW n \in Negotiations, ExpireContract(n) PROVE ~raced' => Room'
  BY <1>10, ExpiringStep DEF Inv, ExpireContract
<1>11. CASE UNCHANGED vars
  BY <1>6, <1>11 DEF vars
<1>12. ASSUME NEW c \in Calls, Accept(c) PROVE ~raced' => Room'
  BY <1>1, <1>2, <1>3, <1>4, <1>12, CountingStep DEF Accept
<1> QED
  BY <1>5, <1>7, <1>8, <1>9, <1>10, <1>11, <1>12 DEF Next

LEMMA InitRoom == Init => Decided /\ Room
<1> SUFFICES ASSUME Init PROVE Decided /\ Room
  OBVIOUS
<1>1. Decided /\ \A c \in Calls : ~Counted(c)
  BY DEF Init, Decided, Counted, IdleCall, Accepting, Checking
<1>2. \A o : ActiveContracts(o) = 0
  <2> SUFFICES ASSUME NEW o PROVE ActiveContracts(o) = 0
    OBVIOUS
  <2> DEFINE f == [n \in Negotiations |-> Active(n, o)]
  <2>1. \A n \in Negotiations : f[n] = 0
    BY DEF Init, Active, None
  <2>2. ActiveContracts(o) = SumFunctionOnSet(f, Negotiations)
    BY InitInv, SharesSums DEF Inv
  <2> HIDE DEF f
  <2> QED
    BY <2>1, <2>2, SumZero, FiniteAssumption
<1>3. \A o \in Owners : Free[o] \in Nat
  BY AmountsAssumption
<1> QED
  BY <1>1, <1>2, <1>3 DEF Room

(* The active contracts of a seller never exceed its free shares while no  *)
(* two acceptances of one seller have counted its shares at a time, though *)
(* the count holds the row of one negotiation only (grpc_server.go:600).   *)
THEOREM SellersCovered == Spec => []ContractsCovered
<1>1. Inv /\ Decided /\ (~raced => Room) /\ [Next]_vars => Inv' /\ Decided' /\ (~raced' => Room')
  BY Step, DecidedStep, RoomStep
<1>2. Inv /\ (~raced => Room) => ContractsCovered
  BY DEF Room, ContractsCovered
<1> QED
  BY InitInv, InitRoom, <1>1, <1>2, PTL DEF Spec
-----------------------------------------------------------------------------
(* The premiums, where they need no conversion: what TakeBackPremium takes *)
(* back is the premium itself, so with another rate a compensation leaves  *)
(* the seller with the difference.                                         *)

SameCurrency == \A n \in Negotiations : Rate[n] = 1
Paid(a) == balance[a] = InitBalance[a] - Taken(a) + Given(a)

TakenForAll(a) == SumFunctionOnSet([n \in Negotiations |-> TakenFor(n, a)], Negotiations)
GivenForAll(a) == SumFunctionOnSet([n \in Negotiations |-> GivenFor(n, a)], Negotiations)
TakenByAll(a) == SumFunctionOnSet([c \in Calls |-> TakenBy(c, a)], Calls)
GivenByAll(a) == SumFunctionOnSet([c \in Calls |-> GivenBy(c, a)], Calls)

LEMMA SumsOfPremiums ==
  ASSUME NEW a
  PROVE  Taken(a) = TakenForAll(a) + TakenByAll(a) /\ Given(a) = GivenForAll(a) + GivenByAll(a)
  BY SumOfAll DEF Taken, Given, TakenForAll, TakenByAll, GivenForAll, GivenByAll, SumOver

LEMMA PremiumParts ==
  ASSUME Types, SameCurrency, NEW a
  PROVE  /\ \A n \in Negotiations :
              /\ TakenFor(n, a) \in Nat /\ GivenFor(n, a) \in Nat
              /\ GivenFor(n, a) = IF PaidAccount[n] = a /\ contract[n].status # None
                                  THEN contract[n].terms.premium ELSE 0
         /\ \A c \in Calls :
              /\ TakenBy(c, a) \in Nat /\ GivenBy(c, a) \in Nat /\ Premium(c) \in Nat
              /\ GivenBy(c, a) = IF PaidAccount[c[1]] = a /\ call[c].pc \in Credited
                                 THEN Premium(c) ELSE 0
<1>1. \A n \in Negotiations : Rate[n] = 1 /\ contract[n].terms.premium \in Nat
  BY Amounts DEF SameCurrency
<1>2. \A c \in Calls : c[1] \in Negotiations /\ Premium(c) \in Nat
  BY Amounts DEF Premium, Calls
<1>3. \A x \in Nat : x * 1 = x
  OBVIOUS
<1> QED
  BY <1>1, <1>2, <1>3 DEF TakenFor, GivenFor, TakenBy, GivenBy

(* The same of the next state. *)
LEMMA NextPremiumParts ==
  ASSUME Types', SameCurrency, NEW a
  PROVE  /\ \A n \in Negotiations :
              /\ TakenFor(n, a)' \in Nat /\ GivenFor(n, a)' \in Nat
              /\ GivenFor(n, a)' = IF PaidAccount[n] = a /\ contract'[n].status # None
                                   THEN contract'[n].terms.premium ELSE 0
         /\ \A c \in Calls :
              /\ TakenBy(c, a)' \in Nat /\ GivenBy(c, a)' \in Nat /\ Premium(c)' \in Nat
              /\ GivenBy(c, a)' = IF PaidAccount[c[1]] = a /\ call'[c].pc \in Credited
                                  THEN Premium(c)' ELSE 0
<1>0. \A t \in Terms \cup {NoTerms} : t.premium \in Nat
  BY AmountsAssumption DEF NoTerms
<1>1. \A n \in Negotiations : Rate[n] = 1 /\ contract'[n].terms.premium \in Nat
  BY <1>0 DEF SameCurrency, Types
<1>2. \A c \in Calls : c[1] \in Negotiations /\ Premium(c)' \in Nat
  BY <1>0 DEF Premium, Calls, Types, Acceptance
<1>3. \A x \in Nat : x * 1 = x
  OBVIOUS
<1> QED
  BY <1>1, <1>2, <1>3 DEF TakenFor, GivenFor, TakenBy, GivenBy

LEMMA ContractPremiums ==
  ASSUME Types, Types', SameCurrency, NEW a, NEW n \in Negotiations,
         \A m \in Negotiations \ {n} : contract'[m] = contract[m]
  PROVE  /\ TakenForAll(a)' = TakenForAll(a) - TakenFor(n, a) + TakenFor(n, a)'
         /\ GivenForAll(a)' = GivenForAll(a) - GivenFor(n, a) + GivenFor(n, a)'
<1> DEFINE f == [m \in Negotiations |-> TakenFor(m, a)]
           g == [m \in Negotiations |-> TakenFor(m, a)']
           h == [m \in Negotiations |-> GivenFor(m, a)]
           k == [m \in Negotiations |-> GivenFor(m, a)']
<1>1. \A m \in Negotiations : f[m] \in Int /\ g[m] \in Int /\ h[m] \in Int /\ k[m] \in Int
  <2>1. \A m \in Negotiations : TakenFor(m, a) \in Nat /\ GivenFor(m, a) \in Nat
    BY PremiumParts
  <2>2. \A m \in Negotiations : TakenFor(m, a)' \in Nat /\ GivenFor(m, a)' \in Nat
    BY NextPremiumParts
  <2> QED
    BY <2>1, <2>2
<1>2. \A m \in Negotiations \ {n} : g[m] = f[m] /\ k[m] = h[m]
  BY DEF TakenFor, GivenFor
<1>3. f[n] = TakenFor(n, a) /\ g[n] = TakenFor(n, a)' /\ h[n] = GivenFor(n, a) /\ k[n] = GivenFor(n, a)'
  OBVIOUS
<1>4. /\ TakenForAll(a) = SumFunctionOnSet(f, Negotiations)
      /\ TakenForAll(a)' = SumFunctionOnSet(g, Negotiations)
      /\ GivenForAll(a) = SumFunctionOnSet(h, Negotiations)
      /\ GivenForAll(a)' = SumFunctionOnSet(k, Negotiations)
  BY DEF TakenForAll, GivenForAll
<1> HIDE DEF f, g, h, k
<1>5. SumFunctionOnSet(g, Negotiations) = SumFunctionOnSet(f, Negotiations) - f[n] + g[n]
  BY <1>1, <1>2, SumChange, FiniteAssumption
<1>6. SumFunctionOnSet(k, Negotiations) = SumFunctionOnSet(h, Negotiations) - h[n] + k[n]
  BY <1>1, <1>2, SumChange, FiniteAssumption
<1> QED
  BY <1>3, <1>4, <1>5, <1>6

LEMMA CallPremiums ==
  ASSUME Types, Types', SameCurrency, NEW a, NEW c \in Calls,
         \A d \in Calls \ {c} : call'[d] = call[d]
  PROVE  /\ TakenByAll(a)' = TakenByAll(a) - TakenBy(c, a) + TakenBy(c, a)'
         /\ GivenByAll(a)' = GivenByAll(a) - GivenBy(c, a) + GivenBy(c, a)'
<1> DEFINE f == [d \in Calls |-> TakenBy(d, a)]
           g == [d \in Calls |-> TakenBy(d, a)']
           h == [d \in Calls |-> GivenBy(d, a)]
           k == [d \in Calls |-> GivenBy(d, a)']
<1>1. \A d \in Calls : f[d] \in Int /\ g[d] \in Int /\ h[d] \in Int /\ k[d] \in Int
  <2>1. \A d \in Calls : TakenBy(d, a) \in Nat /\ GivenBy(d, a) \in Nat
    BY PremiumParts
  <2>2. \A d \in Calls : TakenBy(d, a)' \in Nat /\ GivenBy(d, a)' \in Nat
    BY NextPremiumParts
  <2> QED
    BY <2>1, <2>2
<1>2. \A d \in Calls \ {c} : g[d] = f[d] /\ k[d] = h[d]
  BY DEF TakenBy, GivenBy, Premium
<1>3. f[c] = TakenBy(c, a) /\ g[c] = TakenBy(c, a)' /\ h[c] = GivenBy(c, a) /\ k[c] = GivenBy(c, a)'
  OBVIOUS
<1>4. /\ TakenByAll(a) = SumFunctionOnSet(f, Calls) /\ TakenByAll(a)' = SumFunctionOnSet(g, Calls)
      /\ GivenByAll(a) = SumFunctionOnSet(h, Calls) /\ GivenByAll(a)' = SumFunctionOnSet(k, Calls)
  BY DEF TakenByAll, GivenByAll
<1> HIDE DEF f, g, h, k
<1>5. SumFunctionOnSet(g, Calls) = SumFunctionOnSet(f, Calls) - f[c] + g[c]
  BY <1>1, <1>2, SumChange, FiniteCalls
<1>6. SumFunctionOnSet(k, Calls) = SumFunctionOnSet(h, Calls) - h[c] + k[c]
  BY <1>1, <1>2, SumChange, FiniteCalls
<1> QED
  BY <1>3, <1>4, <1>5, <1>6

LEMMA PremiumsKept ==
  ASSUME UNCHANGED contract, NEW a
  PROVE  UNCHANGED <<TakenForAll(a), GivenForAll(a)>>
<1>1. \A n \in Negotiations : TakenFor(n, a)' = TakenFor(n, a) /\ GivenFor(n, a)' = GivenFor(n, a)
  BY DEF TakenFor, GivenFor
<1> QED
  BY <1>1 DEF TakenForAll, GivenForAll

LEMMA SumsAreInts ==
  ASSUME Types, SameCurrency, NEW a
  PROVE  /\ TakenForAll(a) \in Int /\ GivenForAll(a) \in Int
         /\ TakenByAll(a) \in Int /\ GivenByAll(a) \in Int
<1> DEFINE f == [m \in Negotiations |-> TakenFor(m, a)]
           g == [m \in Negotiations |-> GivenFor(m, a)]
           h == [d \in Calls |-> TakenBy(d, a)]
           k == [d \in Calls |-> GivenBy(d, a)]
<1>1. /\ \A m \in Negotiations : f[m] \in Int /\ g[m] \in Int
      /\ \A d \in Calls : h[d] \in Int /\ k[d] \in Int
  <2>1. /\ \A m \in Negotiations : TakenFor(m, a) \in Nat /\ GivenFor(m, a) \in Nat
        /\ \A d \in Calls : TakenBy(d, a) \in Nat /\ GivenBy(d, a) \in Nat
    BY PremiumParts
  <2> QED
    BY <2>1
<1>2. /\ TakenForAll(a) = SumFunctionOnSet(f, Negotiations)
      /\ GivenForAll(a) = SumFunctionOnSet(g, Negotiations)
      /\ TakenByAll(a) = SumFunctionOnSet(h, Calls) /\ GivenByAll(a) = SumFunctionOnSet(k, Calls)
  BY DEF TakenForAll, GivenForAll, TakenByAll, GivenByAll
<1> HIDE DEF f, g, h, k
<1> QED
  BY <1>1, <1>2, SumInt, FiniteAssumption, FiniteCalls

(* What a call does with its own account of the premiums. *)
LEMMA OnePremium ==
  ASSUME Types, Types', Rest, SameCurrency, NEW a \in Accounts, Paid(a), NEW c \in Calls,
         \A d \in Calls \ {c} : call'[d] = call[d],
         \A m \in Negotiations \ {c[1]} : contract'[m] = contract[m],
         balance'[a] = balance[a]
           + (TakenFor(c[1], a) + TakenBy(c, a)) - (TakenFor(c[1], a)' + TakenBy(c, a)')
           + (GivenFor(c[1], a)' + GivenBy(c, a)') - (GivenFor(c[1], a) + GivenBy(c, a))
  PROVE  Paid(a)'
<1>1. c[1] \in Negotiations /\ balance[a] \in Int /\ InitBalance[a] \in Int
  BY AmountsAssumption DEF Calls, Rest
<1>2. /\ TakenFor(c[1], a) \in Int /\ GivenFor(c[1], a) \in Int
      /\ TakenBy(c, a) \in Int /\ GivenBy(c, a) \in Int
  BY <1>1, PremiumParts
<1>3. /\ TakenFor(c[1], a)' \in Int /\ GivenFor(c[1], a)' \in Int
      /\ TakenBy(c, a)' \in Int /\ GivenBy(c, a)' \in Int
  BY <1>1, NextPremiumParts
<1>4. /\ TakenForAll(a) \in Int /\ GivenForAll(a) \in Int
      /\ TakenByAll(a) \in Int /\ GivenByAll(a) \in Int
  BY SumsAreInts
<1>5. /\ TakenForAll(a)' = TakenForAll(a) - TakenFor(c[1], a) + TakenFor(c[1], a)'
      /\ GivenForAll(a)' = GivenForAll(a) - GivenFor(c[1], a) + GivenFor(c[1], a)'
  BY <1>1, ContractPremiums
<1>6. /\ TakenByAll(a)' = TakenByAll(a) - TakenBy(c, a) + TakenBy(c, a)'
      /\ GivenByAll(a)' = GivenByAll(a) - GivenBy(c, a) + GivenBy(c, a)'
  BY CallPremiums
<1>7. Taken(a) = TakenForAll(a) + TakenByAll(a) /\ Given(a) = GivenForAll(a) + GivenByAll(a)
  BY SumsOfPremiums
<1>8. Taken(a)' = TakenForAll(a)' + TakenByAll(a)' /\ Given(a)' = GivenForAll(a)' + GivenByAll(a)'
  BY SumOfAll DEF Taken, Given, TakenForAll, TakenByAll, GivenForAll, GivenByAll, SumOver
<1> QED
  BY <1>1, <1>2, <1>3, <1>4, <1>5, <1>6, <1>7, <1>8 DEF Paid

(* A step of a call without a contract, by the labels it leaves and takes. *)
LEMMA MovedPremium ==
  ASSUME Types, Types', Rest, SameCurrency, NEW a \in Accounts, Paid(a), NEW c \in Calls,
         \A d \in Calls \ {c} : call'[d] = call[d], UNCHANGED contract,
         call'[c].pc \in Deducted \cup Credited => Premium(c)' = Premium(c),
         balance'[a] = balance[a]
           + (IF a # PayingAccount[c[1]] \/ (call[c].pc \in Deducted <=> call'[c].pc \in Deducted)
              THEN 0 ELSE IF call[c].pc \in Deducted THEN Premium(c) ELSE -Premium(c))
           + (IF a # PaidAccount[c[1]] \/ (call[c].pc \in Credited <=> call'[c].pc \in Credited)
              THEN 0 ELSE IF call[c].pc \in Credited THEN -Premium(c) ELSE Premium(c))
  PROVE  Paid(a)'
<1>1. c[1] \in Negotiations /\ balance[a] \in Int
  BY DEF Calls, Rest
<1>2. TakenFor(c[1], a)' = TakenFor(c[1], a) /\ GivenFor(c[1], a)' = GivenFor(c[1], a)
  BY DEF TakenFor, GivenFor
<1>3. /\ TakenFor(c[1], a) \in Nat /\ GivenFor(c[1], a) \in Nat
      /\ TakenBy(c, a) \in Nat /\ GivenBy(c, a) \in Nat /\ Premium(c) \in Nat
      /\ GivenBy(c, a) = IF PaidAccount[c[1]] = a /\ call[c].pc \in Credited
                         THEN Premium(c) ELSE 0
  BY <1>1, PremiumParts
<1>4. /\ TakenBy(c, a)' \in Nat /\ GivenBy(c, a)' \in Nat /\ Premium(c)' \in Nat
      /\ GivenBy(c, a)' = IF PaidAccount[c[1]] = a /\ call'[c].pc \in Credited
                          THEN Premium(c)' ELSE 0
  BY <1>1, NextPremiumParts
<1> DEFINE dt == IF a # PayingAccount[c[1]] \/ (call[c].pc \in Deducted <=> call'[c].pc \in Deducted)
                 THEN 0 ELSE IF call[c].pc \in Deducted THEN Premium(c) ELSE -Premium(c)
           dg == IF a # PaidAccount[c[1]] \/ (call[c].pc \in Credited <=> call'[c].pc \in Credited)
                 THEN 0 ELSE IF call[c].pc \in Credited THEN -Premium(c) ELSE Premium(c)
<1>5. dt = TakenBy(c, a) - TakenBy(c, a)'
  BY <1>3, <1>4 DEF TakenBy
<1>6. dg = GivenBy(c, a)' - GivenBy(c, a)
  BY <1>3, <1>4
<1>7. balance'[a] = balance[a] + dt + dg
  OBVIOUS
<1> HIDE DEF dt, dg
<1>8. balance'[a] = balance[a]
           + (TakenFor(c[1], a) + TakenBy(c, a)) - (TakenFor(c[1], a)' + TakenBy(c, a)')
           + (GivenFor(c[1], a)' + GivenBy(c, a)') - (GivenFor(c[1], a) + GivenBy(c, a))
  BY <1>1, <1>2, <1>3, <1>4, <1>5, <1>6, <1>7
<1> QED
  BY <1>1, <1>8, OnePremium

LEMMA CallForms ==
  ASSUME Types, NEW c \in Calls
  PROVE  /\ \A label : GoTo(c, label) \/ (\E tx \in {"aborted", "closed"} : EndTx(c, tx, label)) =>
              /\ call'[c].pc = label /\ Premium(c)' = Premium(c)
              /\ \A d \in Calls \ {c} : call'[d] = call[d]
         /\ Return(c) => call'[c].pc = "idle" /\ \A d \in Calls \ {c} : call'[d] = call[d]
<1>1. call \in [Calls -> Acceptance] /\ call[c] \in Acceptance
  BY DEF Types
<1>2. ASSUME NEW label, GoTo(c, label)
      PROVE  /\ call'[c].pc = label /\ Premium(c)' = Premium(c)
             /\ \A d \in Calls \ {c} : call'[d] = call[d]
  <2>1. call'[c] = [call[c] EXCEPT !.pc = label] /\ \A d \in Calls \ {c} : call'[d] = call[d]
    BY <1>1, <1>2 DEF GoTo
  <2> QED
    BY <1>1, <2>1 DEF Acceptance, Premium
<1>3. ASSUME NEW label, NEW tx, EndTx(c, tx, label)
      PROVE  /\ call'[c].pc = label /\ Premium(c)' = Premium(c)
             /\ \A d \in Calls \ {c} : call'[d] = call[d]
  <2>1. /\ call'[c] = [call[c] EXCEPT !.pc = label, !.tx = tx]
        /\ \A d \in Calls \ {c} : call'[d] = call[d]
    BY <1>1, <1>3 DEF EndTx
  <2> QED
    BY <1>1, <2>1 DEF Acceptance, Premium
<1>4. Return(c) => call'[c].pc = "idle" /\ \A d \in Calls \ {c} : call'[d] = call[d]
  BY <1>1 DEF Return, IdleCall
<1> QED
  BY <1>2, <1>3, <1>4

LEMMA Changed ==
  ASSUME Rest, NEW b, NEW x, Change(b, x), NEW a \in Accounts
  PROVE  balance'[a] = IF a = b THEN balance[a] + x ELSE balance[a]
  BY DEF Change, Rest

Books == ~adrift => \A a \in Accounts : Paid(a)

LEMMA PremiumSteps ==
  ASSUME Inv, Types', Rest, SameCurrency, Books, NEW c \in Calls,
         \/ CheckCapacity(c) \/ CheckBalance(c) \/ DeductPremium(c)
         \/ CreditPremium(c) \/ RefundBuyer(c) \/ TakeBackPremium(c) \/ RecordTax(c)
         \/ BeginAccept(c)
  PROVE  Books'
<1> SUFFICES ASSUME ~adrift', NEW a \in Accounts PROVE Paid(a)'
  BY DEF Books
<1> USE DEF tables, Deducted, Credited, At
<1>0. /\ Types /\ c[1] \in Negotiations /\ Rate[c[1]] = 1 /\ Premium(c) \in Nat
      /\ balance[a] \in Int /\ Premium(c) * 1 = Premium(c)
  <2>1. Types /\ c[1] \in Negotiations
    BY DEF Inv, Calls
  <2>2. Premium(c) \in Nat
    BY <2>1, PremiumParts
  <2> QED
    BY <2>1, <2>2 DEF SameCurrency, Rest
<1>1. UNCHANGED contract
  BY DEF CheckCapacity, CheckBalance, DeductPremium, CreditPremium, RefundBuyer,
     TakeBackPremium, RecordTax, BeginAccept
<1>2. CASE CheckCapacity(c) \/ CheckBalance(c) \/ RecordTax(c) \/ BeginAccept(c)
  <2>1. /\ UNCHANGED <<adrift, balance>> /\ call[c].pc \notin Deducted \cup Credited
        /\ call'[c].pc \notin Deducted \cup Credited
        /\ \A d \in Calls \ {c} : call'[d] = call[d]
    <3>1. CASE BeginAccept(c)
      BY <1>0, <3>1 DEF BeginAccept, Types
    <3>2. CASE CheckCapacity(c)
      BY <1>0, <3>2, CallForms DEF CheckCapacity
    <3>3. CASE CheckBalance(c)
      BY <1>0, <3>3, CallForms DEF CheckBalance
    <3>4. CASE RecordTax(c)
      BY <1>0, <3>4, CallForms DEF RecordTax
    <3> QED
      BY <1>2, <3>1, <3>2, <3>3, <3>4
  <2>2. Paid(a)
    BY <2>1 DEF Books
  <2>3. balance'[a] = balance[a] + 0 + 0
    BY <1>0, <2>1
  <2> QED
    BY <1>0, <1>1, <2>1, <2>2, <2>3, MovedPremium
<1>3. CASE DeductPremium(c)
  <2>1. /\ UNCHANGED adrift /\ call[c].pc = "deduct"
        /\ \A d \in Calls \ {c} : call'[d] = call[d]
        /\ \/ Change(PayingAccount[c[1]], -Premium(c)) /\ GoTo(c, "credit")
           \/ UNCHANGED balance /\ Return(c)
    <3>1. \/ Change(PayingAccount[c[1]], -Premium(c)) /\ GoTo(c, "credit") /\ UNCHANGED adrift
          \/ UNCHANGED <<balance, adrift>> /\ Return(c)
      BY <1>3 DEF DeductPremium, LostAnswer
    <3> QED
      BY <1>0, <1>3, <3>1, CallForms DEF DeductPremium
  <2>2. Paid(a)
    BY <2>1 DEF Books
  <2>3. CASE Change(PayingAccount[c[1]], -Premium(c)) /\ GoTo(c, "credit")
    <3>1. call'[c].pc = "credit" /\ Premium(c)' = Premium(c)
      BY <1>0, <2>3, CallForms
    <3>2. balance'[a] = balance[a] + (IF a = PayingAccount[c[1]] THEN -Premium(c) ELSE 0) + 0
      BY <1>0, <2>3, Changed
    <3> QED
      BY <1>0, <1>1, <2>1, <2>2, <3>1, <3>2, MovedPremium
  <2>4. CASE UNCHANGED balance /\ Return(c)
    <3>1. call'[c].pc = "idle"
      BY <1>0, <2>4, CallForms
    <3>2. balance'[a] = balance[a] + 0 + 0
      BY <1>0, <2>4
    <3> QED
      BY <1>0, <1>1, <2>1, <2>2, <3>1, <3>2, MovedPremium
  <2> QED
    BY <2>1, <2>3, <2>4
<1>4. CASE CreditPremium(c)
  <2>1. \/ /\ Change(PaidAccount[c[1]], Premium(c) * Rate[c[1]]) /\ GoTo(c, "commit")
           /\ UNCHANGED adrift
        \/ UNCHANGED <<balance, adrift>> /\ GoTo(c, "refund")
    BY <1>4 DEF CreditPremium, LostAnswer
  <2>2. Paid(a) /\ call[c].pc = "credit"
    BY <1>4, <2>1 DEF Books, CreditPremium
  <2>3. CASE Change(PaidAccount[c[1]], Premium(c) * Rate[c[1]]) /\ GoTo(c, "commit")
    <3>1. /\ call'[c].pc = "commit" /\ Premium(c)' = Premium(c)
          /\ \A d \in Calls \ {c} : call'[d] = call[d]
      BY <1>0, <2>3, CallForms
    <3>2. balance'[a] = balance[a] + 0 + (IF a = PaidAccount[c[1]] THEN Premium(c) ELSE 0)
      BY <1>0, <2>3, Changed
    <3> QED
      BY <1>0, <1>1, <2>2, <3>1, <3>2, MovedPremium
  <2>4. CASE UNCHANGED balance /\ GoTo(c, "refund")
    <3>1. /\ call'[c].pc = "refund" /\ Premium(c)' = Premium(c)
          /\ \A d \in Calls \ {c} : call'[d] = call[d]
      BY <1>0, <2>4, CallForms
    <3>2. balance'[a] = balance[a] + 0 + 0
      BY <1>0, <2>4
    <3> QED
      BY <1>0, <1>1, <2>2, <3>1, <3>2, MovedPremium
  <2> QED
    BY <2>1, <2>3, <2>4
<1>5. CASE RefundBuyer(c)
  <2>1. Change(PayingAccount[c[1]], Premium(c)) /\ UNCHANGED adrift
    BY <1>5 DEF RefundBuyer, Compensate, LostAnswer
  <2>2. /\ Paid(a) /\ \A d \in Calls \ {c} : call'[d] = call[d]
        /\ \/ call[c].pc = "refund" /\ call'[c].pc = "idle"
           \/ call[c].pc = "refundBoth" /\ call'[c].pc = "takeBack" /\ Premium(c)' = Premium(c)
    BY <1>0, <1>5, <2>1, CallForms DEF Books, RefundBuyer
  <2>3. balance'[a] = balance[a] + (IF a = PayingAccount[c[1]] THEN Premium(c) ELSE 0) + 0
    BY <1>0, <2>1, Changed
  <2> QED
    BY <1>0, <1>1, <2>2, <2>3, MovedPremium
<1>6. CASE TakeBackPremium(c)
  <2>1. Change(PaidAccount[c[1]], -Premium(c)) /\ UNCHANGED adrift
    BY <1>6 DEF TakeBackPremium, Compensate, LostAnswer
  <2>2. /\ Paid(a) /\ \A d \in Calls \ {c} : call'[d] = call[d]
        /\ call[c].pc = "takeBack" /\ call'[c].pc = "idle"
    BY <1>0, <1>6, <2>1, CallForms DEF Books, TakeBackPremium
  <2>3. balance'[a] = balance[a] + 0 + (IF a = PaidAccount[c[1]] THEN -Premium(c) ELSE 0)
    BY <1>0, <2>1, Changed
  <2> QED
    BY <1>0, <1>1, <2>2, <2>3, MovedPremium
<1> QED
  BY <1>2, <1>3, <1>4, <1>5, <1>6

(* What the acceptance has moved becomes what the contract stands for. *)
LEMMA PremiumOfContract ==
  ASSUME Inv, Types', Rest, SameCurrency, Decided, Books, NEW c \in Calls, CommitAccept(c)
  PROVE  Books'
<1> SUFFICES ASSUME ~adrift', NEW a \in Accounts PROVE Paid(a)'
  BY DEF Books
<1> USE DEF Deducted, Credited, At
<1>0. /\ Types /\ c[1] \in Negotiations /\ Premium(c) \in Nat
      /\ balance[a] \in Int /\ balance' = balance /\ call[c].pc = "commit"
  <2>1. Types /\ c[1] \in Negotiations /\ balance' = balance /\ call[c].pc = "commit"
    BY DEF Inv, Calls, CommitAccept
  <2>2. Premium(c) \in Nat
    BY <2>1, PremiumParts
  <2> QED
    BY <2>1, <2>2 DEF Rest
<1>1. Paid(a)
  BY DEF CommitAccept, LostAnswer, Books
<1>2. CASE UNCHANGED contract /\ (\/ GoTo(c, "refundBoth")
                                  \/ \E tx \in {"aborted", "closed"} : EndTx(c, tx, "refundBoth"))
  <2>1. /\ call'[c].pc = "refundBoth" /\ Premium(c)' = Premium(c)
        /\ \A d \in Calls \ {c} : call'[d] = call[d]
    BY <1>0, <1>2, CallForms
  <2>2. balance'[a] = balance[a] + 0 + 0
    BY <1>0
  <2> QED
    BY <1>0, <1>1, <1>2, <2>1, <2>2, MovedPremium
<1>3. CASE call[c].tx = "open" /\ Agree(c) /\ EndTx(c, "closed", "tax")
  <2>1. call'[c].pc = "tax" /\ \A d \in Calls \ {c} : call'[d] = call[d]
    BY <1>0, <1>3, CallForms
  <2>2. /\ contract'[c[1]] = [status |-> "ACTIVE", terms |-> call[c].terms]
        /\ \A m \in Negotiations \ {c[1]} : contract'[m] = contract[m]
    BY <1>0, <1>3 DEF Agree, Types
  <2>3. contract[c[1]].status = None
    <3>1. ItsTurn(c)
      BY <1>3 DEF Inv, HeldRows, Holds
    <3> QED
      BY <1>0, <3>1 DEF Decided, ItsTurn, Final
  <2>4. contract'[c[1]].status # None /\ contract'[c[1]].terms.premium = Premium(c)
    BY <2>2 DEF None, Premium
  <2>5. /\ TakenFor(c[1], a) = 0 /\ TakenBy(c, a)' = 0
        /\ TakenFor(c[1], a)' = TakenBy(c, a)
    BY <1>0, <2>1, <2>3, <2>4 DEF TakenFor, TakenBy
  <2>6. /\ GivenFor(c[1], a) = 0 /\ GivenBy(c, a)' = 0
        /\ GivenFor(c[1], a)' = GivenBy(c, a)
    BY <1>0, <2>1, <2>3, <2>4 DEF GivenFor, GivenBy, Premium
  <2>7. TakenBy(c, a) \in Nat /\ GivenBy(c, a) \in Nat
    BY <1>0, PremiumParts
  <2>8. balance'[a] = balance[a]
           + (TakenFor(c[1], a) + TakenBy(c, a)) - (TakenFor(c[1], a)' + TakenBy(c, a)')
           + (GivenFor(c[1], a)' + GivenBy(c, a)') - (GivenFor(c[1], a) + GivenBy(c, a))
    BY <1>0, <2>5, <2>6, <2>7
  <2> QED
    BY <1>0, <1>1, <2>1, <2>2, <2>8, OnePremium
<1> QED
  BY <1>2, <1>3 DEF CommitAccept, LostAnswer

(* Steps after which the sums stand for the same. *)
LEMMA SamePremiums ==
  ASSUME Books, UNCHANGED balance, adrift => adrift',
         \A n \in Negotiations :
           /\ contract'[n].terms = contract[n].terms
           /\ contract'[n].status = None <=> contract[n].status = None,
         ~adrift' => \/ \A c \in Calls : /\ call'[c].pc \notin Deducted \cup Credited
                                         /\ call[c].pc \notin Deducted \cup Credited
                     \/ \A c \in Calls : /\ call'[c].pc = call[c].pc
                                         /\ call'[c].terms = call[c].terms
  PROVE  Books'
<1> SUFFICES ASSUME ~adrift', NEW a \in Accounts PROVE Paid(a)'
  BY DEF Books
<1>1. Paid(a)
  BY DEF Books
<1>2. \A n \in Negotiations : TakenFor(n, a)' = TakenFor(n, a) /\ GivenFor(n, a)' = GivenFor(n, a)
  BY DEF TakenFor, GivenFor
<1>3. \A c \in Calls : TakenBy(c, a)' = TakenBy(c, a) /\ GivenBy(c, a)' = GivenBy(c, a)
  BY DEF TakenBy, GivenBy, Premium
<1>4. Taken(a)' = Taken(a) /\ Given(a)' = Given(a)
  BY <1>2, <1>3 DEF Taken, Given, SumOver
<1> QED
  BY <1>1, <1>4 DEF Paid

LEMMA BooksStep ==
  ASSUME Inv, Inv', Rest, SameCurrency, Decided, Books, [Next]_vars
  PROVE  Books'
<1> USE DEF tables
<1>1. ASSUME NEW c \in Calls, Accept(c) PROVE Books'
  BY <1>1, PremiumSteps, PremiumOfContract DEF Accept, Inv
<1>2. ASSUME UNCHANGED <<contract, call, balance, adrift>> PROVE Books'
  BY <1>2, SamePremiums
<1>3. ASSUME NEW c \in Calls, RejectNegotiation(c) \/ \E terms \in Terms : CounterOffer(c, terms)
      PROVE  Books'
  BY <1>2, <1>3 DEF RejectNegotiation, CounterOffer
<1>4. ASSUME NEW n \in Negotiations, Create(n) PROVE Books'
  BY <1>2, <1>4 DEF Create, SumContracts, SumNegotiations, InsertNegotiation
<1>5. ASSUME NEW c \in Calls, Disconnect(c) PROVE Books'
  <2>1. call \in [Calls -> Acceptance] /\ call[c] \in Acceptance
    BY DEF Inv, Types
  <2>2. /\ UNCHANGED <<contract, balance, adrift>> /\ \A d \in Calls \ {c} : call'[d] = call[d]
        /\ call'[c] = [call[c] EXCEPT !.here = FALSE, !.tx = "closed"]
    BY <1>5, <2>1 DEF Disconnect
  <2>3. \A d \in Calls : call'[d].pc = call[d].pc /\ call'[d].terms = call[d].terms
    BY <2>1, <2>2, ZenonT(60) DEF Acceptance
  <2> QED
    BY <2>2, <2>3, SamePremiums
<1>6. ASSUME NEW n \in Negotiations, ExpireContract(n) PROVE Books'
  <2>1. /\ UNCHANGED <<call, balance, adrift>> /\ contract[n].status = "ACTIVE"
        /\ \A m \in Negotiations \ {n} : contract'[m] = contract[m]
        /\ contract'[n] = [contract[n] EXCEPT !.status = "EXPIRED"]
    BY <1>6 DEF ExpireContract, Inv, Types
  <2>2. contract'[n].status = "EXPIRED" /\ contract'[n].terms = contract[n].terms
    BY <2>1 DEF Inv, Types
  <2> QED
    BY <2>1, <2>2, SamePremiums DEF None
<1>7. CASE Crash
  <2>1. /\ UNCHANGED <<contract, balance>> /\ \A c \in Calls : call'[c].pc = "idle"
        /\ adrift' = (adrift \/ \E c \in Calls : call[c].pc \in Moved)
    BY <1>7 DEF Crash, IdleCall
  <2> QED
    BY <2>1, SamePremiums DEF Moved, Deducted, Credited
<1>8. CASE UNCHANGED vars
  BY <1>2, <1>8 DEF vars
<1> QED
  BY <1>1, <1>3, <1>4, <1>5, <1>6, <1>7, <1>8 DEF Next

LEMMA InitBooks == SameCurrency /\ Init => Books
<1> SUFFICES ASSUME SameCurrency, Init, NEW a \in Accounts PROVE Paid(a)
  BY DEF Books
<1>1. Types
  BY InitInv DEF Inv
<1> DEFINE f == [m \in Negotiations |-> TakenFor(m, a)]
           g == [m \in Negotiations |-> GivenFor(m, a)]
           h == [d \in Calls |-> TakenBy(d, a)]
           k == [d \in Calls |-> GivenBy(d, a)]
<1>2. /\ \A m \in Negotiations : f[m] = 0 /\ g[m] = 0
      /\ \A d \in Calls : h[d] = 0 /\ k[d] = 0
  BY DEF Init, TakenFor, GivenFor, TakenBy, GivenBy, IdleCall, Deducted, Credited
<1>3. /\ TakenForAll(a) = SumFunctionOnSet(f, Negotiations)
      /\ GivenForAll(a) = SumFunctionOnSet(g, Negotiations)
      /\ TakenByAll(a) = SumFunctionOnSet(h, Calls) /\ GivenByAll(a) = SumFunctionOnSet(k, Calls)
  BY DEF TakenForAll, GivenForAll, TakenByAll, GivenByAll
<1> HIDE DEF f, g, h, k
<1>4. TakenForAll(a) = 0 /\ GivenForAll(a) = 0 /\ TakenByAll(a) = 0 /\ GivenByAll(a) = 0
  BY <1>2, <1>3, SumZero, FiniteAssumption, FiniteCalls
<1>5. Taken(a) = 0 /\ Given(a) = 0
  BY <1>4, SumsOfPremiums
<1>6. balance[a] = InitBalance[a] /\ InitBalance[a] \in Nat
  BY AmountsAssumption DEF Init
<1> QED
  BY <1>5, <1>6 DEF Paid

(* Where a premium needs no conversion, every account has exactly what the *)
(* contracts and the acceptances under way have moved, whatever fails,     *)
(* whoever hangs up and however many acceptances of a negotiation run      *)
(* (grpc_server.go:685-748); adrift are the lost answers, the given-up     *)
(* compensations and the stops between two statements.                     *)
THEOREM PremiumsStayBalanced == SameCurrency => (Spec => []PremiumsBalance)
<1> SUFFICES ASSUME SameCurrency PROVE Spec => []PremiumsBalance
  OBVIOUS
<1>1. Init => Inv /\ Rest /\ Decided /\ Books
  BY InitInv, InitRest, InitRoom, InitBooks
<1>2. Inv /\ Rest /\ Decided /\ Books /\ [Next]_vars => Inv' /\ Rest' /\ Decided' /\ Books'
  BY Step, RestStep, DecidedStep, BooksStep
<1>3. Books => PremiumsBalance
  BY DEF Books, Paid, PremiumsBalance
<1> QED
  BY <1>1, <1>2, <1>3, PTL DEF Spec
=============================================================================
