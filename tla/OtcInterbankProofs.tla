------------------------- MODULE OtcInterbankProofs --------------------------
(***************************************************************************)
(* Proofs about OtcInterbank, for every number of negotiations, offers and *)
(* requests, every bound on attempts and every number of failures.         *)
(***************************************************************************)
EXTENDS OtcInterbank, SumTheorems

Handlers == 1..MaxTries
Statuses == Open \cup {"none", "ACCEPTED", "REJECTED"}
Row == [status : Statuses, terms : Terms]
Contract == [status : {"none", "ACTIVE", "EXERCISED", "EXPIRED"}, terms : Terms]
BankVote == [status : {"none", "PENDING", "COMMITTED", "ROLLED_BACK"},
          type : {"ACCEPT", "EXERCISE"}, of : Negotiations, amount : Nat]
Request == [pc : Labels, bank : Banks, of : Negotiations, terms : Terms,
            back : Open, tries : 0..MaxTries, waits : BOOLEAN, alive : BOOLEAN]
Handler == [pc : HandlerLabels, terms : Terms, ok : BOOLEAN]

(* The parts of TypeOK. *)
RequestTypes == call \in [Calls -> Request]
RowTypes == row \in [Banks -> [Negotiations -> Row]]
ContractTypes == contract \in [Banks -> [Negotiations -> Contract]]
HandlerTypes ==
  /\ tx \in [Calls -> BankVote]
  /\ attempt \in [Calls -> [Handlers -> Handler]]
MoneyTypes ==
  /\ balance \in Int /\ available \in Nat /\ cash \in Nat
  /\ held \in Nat /\ reserved \in 0..held /\ bought \in Nat
  /\ spent \in 0..MaxSpent /\ faults \in 0..MaxFaults
MarkTypes ==
  /\ linked \subseteq Negotiations /\ due \subseteq Negotiations
  /\ doubted \subseteq Negotiations /\ repeated \subseteq Negotiations
  /\ short \subseteq Negotiations /\ lost \subseteq Negotiations
CountTypes ==
  /\ credited \in [Negotiations -> Nat] /\ debited \in [Negotiations -> Nat]
  /\ struck \in [Negotiations -> Nat]

LEMMA TypeParts ==
  TypeOK <=> /\ RequestTypes /\ RowTypes /\ ContractTypes /\ HandlerTypes
             /\ MoneyTypes /\ MarkTypes /\ CountTypes
  BY DEF TypeOK, RequestTypes, RowTypes, ContractTypes, HandlerTypes, MoneyTypes,
     MarkTypes, CountTypes, Request, Row, Contract, BankVote, Handler, Handlers, Statuses

LEMMA Chosen ==
  /\ AnyNegotiation \in Negotiations /\ AnyTerms \in Terms
  /\ MaxTries \in Nat \ {0} /\ MaxFaults \in Nat /\ MaxSpent \in Nat
  /\ \A t \in Terms : Amount[t] \in Nat \ {0} /\ Premium[t] \in Nat \ {0}
                      /\ Strike[t] \in Nat /\ Cost(t) \in Nat
  <1>1. \E n \in Negotiations : TRUE
    BY FiniteAssumption
  <1>2. \E t \in Terms : TRUE
    BY FiniteAssumption
  <1>3. AnyNegotiation \in Negotiations /\ AnyTerms \in Terms
    BY <1>1, <1>2, Zenon DEF AnyNegotiation, AnyTerms
  <1>4. ASSUME NEW a \in Nat, NEW b \in Nat PROVE a * b \in Nat
    OBVIOUS
  <1> QED BY <1>3, <1>4, TermsAssumption, NumbersAssumption DEF Cost

LEMMA BankFacts ==
  /\ Banks = {Buyer, Seller} /\ Buyer # Seller
  /\ Turn(Buyer) = "PENDING_BUYER" /\ Turn(Seller) = "PENDING_SELLER"
  /\ Open = {"PENDING_BUYER", "PENDING_SELLER"}
  /\ Other(Buyer) = Seller /\ Other(Seller) = Buyer
  BY DEF Banks, Buyer, Seller, Turn, Open, Other

(* What the writes of the module do, element by element.                   *)
LEMMA GoToDoes ==
  ASSUME RequestTypes, NEW c \in Calls, NEW label, GoTo(c, label)
  PROVE  /\ call'[c].pc = label /\ call'[c].of = call[c].of /\ call'[c].bank = call[c].bank
         /\ call'[c].back = call[c].back /\ call'[c].terms = call[c].terms
         /\ call'[c].tries = call[c].tries /\ call'[c].waits = call[c].waits
         /\ call'[c].alive = call[c].alive
         /\ \A d \in Calls \ {c} : call'[d] = call[d]
         /\ label \in Labels => RequestTypes'
  BY DEF RequestTypes, Request, GoTo

LEMMA ReturnDoes ==
  ASSUME RequestTypes, NEW c \in Calls, Return(c)
  PROVE  /\ call'[c] = Finished("end")
         /\ \A d \in Calls \ {c} : call'[d] = call[d]
         /\ RequestTypes'
  BY Chosen, BankFacts DEF RequestTypes, Request, Return, Finished, Labels

LEMMA BeginDoes ==
  ASSUME RequestTypes, NEW c \in Calls, NEW k \in Banks, NEW n \in Negotiations,
         NEW t \in Terms, NEW label \in Labels, Begin(c, k, n, t, label)
  PROVE  /\ call'[c].pc = label /\ call'[c].bank = k /\ call'[c].of = n /\ call'[c].terms = t
         /\ call'[c].back = call[c].back /\ call'[c].tries = call[c].tries
         /\ call'[c].waits = call[c].waits /\ call'[c].alive = call[c].alive
         /\ \A d \in Calls \ {c} : call'[d] = call[d]
         /\ RequestTypes'
  BY ZenonT(60) DEF RequestTypes, Request, Begin

LEMMA SetRowDoes ==
  ASSUME RowTypes, NEW k \in Banks, NEW n \in Negotiations,
         NEW status \in Statuses, NEW t \in Terms, SetRow(k, n, status, t)
  PROVE  /\ row'[k][n].status = status /\ row'[k][n].terms = t
         /\ \A j \in Banks, m \in Negotiations : j # k \/ m # n => row'[j][m] = row[j][m]
         /\ RowTypes'
  BY DEF RowTypes, Row, SetRow

LEMMA SetStatusDoes ==
  ASSUME RowTypes, NEW k \in Banks, NEW n \in Negotiations,
         NEW status \in Statuses, SetStatus(k, n, status)
  PROVE  /\ row'[k][n].status = status /\ row'[k][n].terms = row[k][n].terms
         /\ \A j \in Banks, m \in Negotiations : j # k \/ m # n => row'[j][m] = row[j][m]
         /\ RowTypes'
  <1>1. row[k][n].terms \in Terms
    BY DEF RowTypes, Row
  <1> QED BY <1>1, SetRowDoes DEF SetStatus

LEMMA InsertDoes ==
  ASSUME ContractTypes, NEW k \in Banks, NEW n \in Negotiations, NEW t \in Terms,
         Insert(k, n, t)
  PROVE  /\ contract[k][n].status = "none" =>
              contract'[k][n].status = "ACTIVE" /\ contract'[k][n].terms = t
         /\ contract[k][n].status # "none" => contract'[k][n] = contract[k][n]
         /\ \A j \in Banks, m \in Negotiations :
              j # k \/ m # n => contract'[j][m] = contract[j][m]
         /\ ContractTypes'
  <1>1. CASE contract[k][n].status = "none"
    <2>1. contract' = [contract EXCEPT ![k][n] = [status |-> "ACTIVE", terms |-> t]]
      BY <1>1 DEF Insert
    <2>2. [status |-> "ACTIVE", terms |-> t] \in Contract
      BY DEF Contract
    <2> QED BY <1>1, <2>1, <2>2 DEF ContractTypes
  <1>2. CASE contract[k][n].status # "none"
    BY <1>2 DEF ContractTypes, Insert
  <1> QED BY <1>1, <1>2

LEMMA CloseDoes ==
  ASSUME ContractTypes, NEW k \in Banks, NEW n \in Negotiations,
         NEW status \in {"EXERCISED", "EXPIRED"},
         contract' = [contract EXCEPT ![k][n].status = status]
  PROVE  /\ contract'[k][n].status = status
         /\ contract'[k][n].terms = contract[k][n].terms
         /\ \A j \in Banks, m \in Negotiations :
              j # k \/ m # n => contract'[j][m] = contract[j][m]
         /\ ContractTypes'
  BY SMTT(30) DEF ContractTypes, Contract

(* A handler moves on or ends. *)
LEMMA ProceedDoes ==
  ASSUME HandlerTypes, NEW c \in Calls, NEW i \in Handlers, NEW label \in HandlerLabels,
         Proceed(c, i, label)
  PROVE  /\ attempt'[c][i].pc = label /\ attempt'[c][i].terms = attempt[c][i].terms
         /\ attempt'[c][i].ok = attempt[c][i].ok
         /\ \A d \in Calls, j \in Handlers :
              d # c \/ j # i => attempt'[d][j] = attempt[d][j]
         /\ attempt' \in [Calls -> [Handlers -> Handler]]
  <1> DEFINE next == [attempt[c][i] EXCEPT !.pc = label]
  <1>1. attempt[c][i] \in Handler
    BY DEF HandlerTypes
  <1>2. next \in Handler
    BY <1>1 DEF Handler
  <1>3. attempt' = [attempt EXCEPT ![c][i] = next]
    BY <1>1 DEF HandlerTypes, Handler, Proceed
  <1> HIDE DEF next
  <1>4. /\ attempt'[c][i] = next
        /\ \A d \in Calls, j \in Handlers : d # c \/ j # i => attempt'[d][j] = attempt[d][j]
        /\ attempt' \in [Calls -> [Handlers -> Handler]]
    BY <1>2, <1>3 DEF HandlerTypes
  <1> QED BY <1>1, <1>4 DEF next, Handler

LEMMA EndDoes ==
  ASSUME HandlerTypes, NEW c \in Calls, NEW i \in Handlers, NEW ok \in BOOLEAN,
         End(c, i, ok)
  PROVE  /\ attempt'[c][i].pc = "done" /\ attempt'[c][i].terms = attempt[c][i].terms
         /\ attempt'[c][i].ok = ok
         /\ \A d \in Calls, j \in Handlers :
              d # c \/ j # i => attempt'[d][j] = attempt[d][j]
         /\ attempt' \in [Calls -> [Handlers -> Handler]]
  <1> DEFINE next == [attempt[c][i] EXCEPT !.pc = "done", !.ok = ok]
  <1>1. attempt[c][i] \in Handler
    BY DEF HandlerTypes
  <1>2. next \in Handler
    BY <1>1 DEF Handler, HandlerLabels
  <1>3. attempt' = [attempt EXCEPT ![c][i] = next]
    BY DEF End
  <1> HIDE DEF next
  <1>4. /\ attempt'[c][i] = next
        /\ \A d \in Calls, j \in Handlers : d # c \/ j # i => attempt'[d][j] = attempt[d][j]
        /\ attempt' \in [Calls -> [Handlers -> Handler]]
    BY <1>2, <1>3 DEF HandlerTypes
  <1> QED BY <1>1, <1>4 DEF next, Handler

LEMMA TypePartsNext ==
  TypeOK' <=> /\ RequestTypes' /\ RowTypes' /\ ContractTypes' /\ HandlerTypes'
              /\ MoneyTypes' /\ MarkTypes' /\ CountTypes'
  BY DEF TypeOK, RequestTypes, RowTypes, ContractTypes, HandlerTypes, MoneyTypes,
     MarkTypes, CountTypes, Request, Row, Contract, BankVote, Handler, Handlers, Statuses

LEMMA Fields ==
  ASSUME RequestTypes, NEW c \in Calls
  PROVE  /\ call[c] \in Request /\ call[c].pc \in Labels /\ call[c].bank \in Banks
         /\ call[c].of \in Negotiations /\ call[c].terms \in Terms
         /\ call[c].back \in Open /\ call[c].tries \in 0..MaxTries
         /\ call[c].waits \in BOOLEAN /\ call[c].alive \in BOOLEAN
         /\ There(c) \in Banks
  BY BankFacts DEF RequestTypes, Request, There

LEMMA AcceptDoes ==
  ASSUME RequestTypes, RowTypes, NEW c \in Calls, NEW k \in Banks, NEW n \in Negotiations,
         Accept(c, k, n)
  PROVE  /\ call'[c].pc = IF k = Buyer THEN "accept" ELSE "load"
         /\ call'[c].bank = k /\ call'[c].of = n /\ call'[c].back = Turn(k)
         /\ call'[c].terms = call[c].terms /\ call'[c].tries = call[c].tries
         /\ call'[c].waits = call[c].waits /\ call'[c].alive = call[c].alive
         /\ \A d \in Calls \ {c} : call'[d] = call[d]
         /\ row'[k][n].status = "ACCEPTED" /\ row'[k][n].terms = row[k][n].terms
         /\ \A j \in Banks, m \in Negotiations : j # k \/ m # n => row'[j][m] = row[j][m]
         /\ RequestTypes' /\ RowTypes'
  <1>1. "ACCEPTED" \in Statuses
    BY DEF Statuses
  <1>2. SetStatus(k, n, "ACCEPTED")
    BY DEF Accept
  <1>3. Turn(k) \in Open /\ "accept" \in Labels /\ "load" \in Labels
    BY BankFacts DEF Labels, AcceptLabels
  <1>4. call' = [call EXCEPT ![c] = [call[c] EXCEPT
              !.pc = IF k = Buyer THEN "accept" ELSE "load",
              !.bank = k, !.of = n, !.back = Turn(k)]]
    BY DEF Accept, RequestTypes
  <1>5. RequestTypes'
    BY <1>3, <1>4, ZenonT(60) DEF RequestTypes, Request
  <1>6. /\ call'[c] = [call[c] EXCEPT
              !.pc = IF k = Buyer THEN "accept" ELSE "load",
              !.bank = k, !.of = n, !.back = Turn(k)]
        /\ \A d \in Calls \ {c} : call'[d] = call[d]
    BY <1>4 DEF RequestTypes
  <1>7. call[c] \in Request
    BY Fields
  <1>8. /\ call'[c].pc = IF k = Buyer THEN "accept" ELSE "load"
        /\ call'[c].bank = k /\ call'[c].of = n /\ call'[c].back = Turn(k)
        /\ call'[c].terms = call[c].terms /\ call'[c].tries = call[c].tries
        /\ call'[c].waits = call[c].waits /\ call'[c].alive = call[c].alive
    BY <1>6, <1>7 DEF Request
  <1> QED BY <1>1, <1>2, <1>5, <1>6, <1>8, SetStatusDoes

(* A statement of a call fails or not; the failures stay within bounds. *)
LEMMA FaultsCounted ==
  ASSUME MoneyTypes, NEW c \in Calls
  PROVE  /\ Succeeds \/ Fault => faults' \in 0..MaxFaults
         /\ Works(c) \/ Fails(c) => Succeeds \/ Fault
  BY Chosen DEF MoneyTypes, Works, Fails, Succeeds, Fault

LEMMA VoteDoes ==
  ASSUME HandlerTypes, MarkTypes, NEW c \in Calls, NEW type \in {"ACCEPT", "EXERCISE"},
         NEW n \in Negotiations, NEW amount \in Nat, Vote(c, type, n, amount)
  PROVE  /\ \/ /\ tx'[c].status = "PENDING" /\ tx'[c].type = type
               /\ tx'[c].of = n /\ tx'[c].amount = amount
               /\ lost' = lost
            \/ tx'[c] = tx[c] /\ lost' = lost \cup {n}
         /\ \A d \in Calls \ {c} : tx'[d] = tx[d]
         /\ Succeeds \/ Fault
         /\ tx' \in [Calls -> BankVote]
         /\ lost' \subseteq Negotiations
  <1> DEFINE new == [status |-> "PENDING", type |-> type, of |-> n, amount |-> amount]
  <1>1. new \in BankVote
    BY DEF BankVote
  <1> HIDE DEF new
  <1>2. CASE Succeeds /\ tx' = [tx EXCEPT ![c] = new] /\ UNCHANGED lost
    <2>1. tx'[c] = new /\ (\A d \in Calls \ {c} : tx'[d] = tx[d]) /\ tx' \in [Calls -> BankVote]
      BY <1>1, <1>2 DEF HandlerTypes
    <2> QED BY <1>2, <2>1 DEF new, MarkTypes
  <1>3. CASE Fault /\ Loses(n) /\ UNCHANGED tx
    BY <1>3 DEF Loses, HandlerTypes, MarkTypes
  <1> QED BY <1>2, <1>3 DEF Vote, new

LEMMA RollBackDoes ==
  ASSUME HandlerTypes, NEW c \in Calls, RollBack(c)
  PROVE  /\ tx'[c].status = IF tx[c].status = "PENDING" THEN "ROLLED_BACK" ELSE tx[c].status
         /\ tx'[c].type = tx[c].type /\ tx'[c].of = tx[c].of /\ tx'[c].amount = tx[c].amount
         /\ \A d \in Calls \ {c} : tx'[d] = tx[d]
         /\ tx' \in [Calls -> BankVote]
  <1>1. tx[c] \in BankVote
    BY DEF HandlerTypes
  <1>2. CASE tx[c].status = "PENDING"
    BY <1>1, <1>2, ZenonT(60) DEF RollBack, HandlerTypes, BankVote
  <1>3. CASE tx[c].status # "PENDING"
    BY <1>1, <1>3 DEF RollBack, HandlerTypes, BankVote
  <1> QED BY <1>2, <1>3

LEMMA StatusFacts ==
  /\ {"none", "PENDING_BUYER", "PENDING_SELLER", "ACCEPTED", "REJECTED"} = Statuses
  /\ \A k \in Banks : Turn(k) \in Statuses /\ Turn(Other(k)) \in Statuses /\ Other(k) \in Banks
  BY BankFacts DEF Statuses

LEMMA EntryFields ==
  ASSUME TypeOK, NEW k \in Banks, NEW n \in Negotiations
  PROVE  /\ row[k][n] \in Row /\ row[k][n].status \in Statuses /\ row[k][n].terms \in Terms
         /\ contract[k][n] \in Contract /\ contract[k][n].terms \in Terms
  BY TypeParts DEF RowTypes, Row, ContractTypes, Contract

LEMMA HandlerFields ==
  ASSUME TypeOK, NEW c \in Calls, NEW i \in Handlers
  PROVE  /\ tx[c] \in BankVote /\ tx[c].of \in Negotiations /\ tx[c].amount \in Nat
         /\ attempt[c][i] \in Handler /\ attempt[c][i].terms \in Terms
         /\ Premium[attempt[c][i].terms] \in Nat
         /\ tx[c].amount * Strike[attempt[c][i].terms] \in Nat
  <1>1. /\ tx[c] \in BankVote /\ tx[c].of \in Negotiations /\ tx[c].amount \in Nat
        /\ attempt[c][i] \in Handler /\ attempt[c][i].terms \in Terms
    BY TypeParts DEF HandlerTypes, BankVote, Handler
  <1>2. ASSUME NEW a \in Nat, NEW b \in Nat PROVE a * b \in Nat
    OBVIOUS
  <1> QED BY <1>1, <1>2, Chosen

LEMMA EditDoes ==
  ASSUME RequestTypes, NEW c \in Calls, NEW next \in Request, call' = [call EXCEPT ![c] = next]
  PROVE  /\ call'[c] = next /\ RequestTypes'
         /\ \A d \in Calls \ {c} : call'[d] = call[d]
  BY DEF RequestTypes

LEMMA FlagsAreTyped ==
  ASSUME NEW r \in Request
  PROVE  [r EXCEPT !.alive = FALSE] \in Request /\ [r EXCEPT !.waits = FALSE] \in Request
  BY DEF Request

LEMMA TermsAreTyped ==
  ASSUME NEW r \in Request, NEW label \in Labels, NEW t \in Terms
  PROVE  [r EXCEPT !.pc = label, !.terms = t] \in Request
  BY DEF Request

LEMMA TriesAreTyped ==
  ASSUME NEW r \in Request, NEW label \in Labels, NEW j \in Handlers
  PROVE  [r EXCEPT !.pc = label, !.tries = j] \in Request
  <1>1. j \in 0..MaxTries
    BY Chosen DEF Handlers
  <1> QED BY <1>1 DEF Request

LEMMA LabelFacts ==
  /\ {"idle", "forward", "link", "drop", "put", "putUpdate", "delete",
      "deleteUpdate", "refused", "end"} \subseteq Labels
  /\ {"accept", "load", "newTx", "rollback", "reserve", "contract",
      "commit", "committing", "credit", "revert"} \subseteq Labels
  /\ {"pay", "prepare", "exCommit", "exCommitting", "undo",
      "debit", "deliver", "close", "giveBack"} \subseteq Labels
  BY DEF Labels, AcceptLabels, ExerciseLabels

LEMMA PositiveFacts ==
  ASSUME NEW h \in Nat, NEW r \in 0..h, NEW a \in Nat
  PROVE  Positive(h - a) \in Nat /\ Positive(r - a) \in 0..Positive(h - a)
  BY DEF Positive

LEMMA CreateNegotiationTypes ==
  ASSUME TypeOK, NEW c \in Calls, NEW n \in Negotiations, NEW t \in Terms, CreateNegotiation(c, n, t)
  PROVE  TypeOK'
  <1> USE TypeParts, TypePartsNext, Fields, Chosen, BankFacts
      DEF CreateNegotiation, rowVars, money, stock, counts, marks, dealing
  <1>1. RequestTypes'
    BY BeginDoes, LabelFacts DEF RequestTypes
  <1>2. RowTypes'
    BY SetRowDoes, StatusFacts DEF RowTypes
  <1> QED BY <1>1, <1>2 DEF ContractTypes, HandlerTypes, MoneyTypes, MarkTypes, CountTypes

LEMMA CreateInterbankNegotiationTypes ==
  ASSUME TypeOK, NEW c \in Calls, CreateInterbankNegotiation(c)
  PROVE  TypeOK'
  <1> USE TypeParts, TypePartsNext, Fields, Chosen, BankFacts
      DEF CreateInterbankNegotiation, rowVars, money, stock, counts, marks, dealing
  <1>1. RequestTypes'
    BY GoToDoes, LabelFacts DEF RequestTypes
  <1>2. RowTypes'
    BY SetRowDoes, StatusFacts DEF RowTypes
  <1> QED BY <1>1, <1>2 DEF ContractTypes, HandlerTypes, MoneyTypes, MarkTypes, CountTypes

LEMMA ForwardFailsTypes ==
  ASSUME TypeOK, NEW c \in Calls, ForwardFails(c)
  PROVE  TypeOK'
  <1> USE TypeParts, TypePartsNext, Fields, Chosen, BankFacts
      DEF ForwardFails, rowVars, money, stock, counts, marks, dealing
  <1>1. RequestTypes'
    BY GoToDoes, LabelFacts DEF RequestTypes
  <1>2. MoneyTypes'
    BY FaultsCounted DEF MoneyTypes, Succeeds, Positive
  <1> QED BY <1>1, <1>2 DEF RowTypes, ContractTypes, HandlerTypes, MarkTypes, CountTypes

LEMMA StorePartnerIdTypes ==
  ASSUME TypeOK, NEW c \in Calls, StorePartnerId(c)
  PROVE  TypeOK'
  <1> USE TypeParts, TypePartsNext, Fields, Chosen, BankFacts
      DEF StorePartnerId, rowVars, money, stock, counts, marks, dealing
  <1>1. RequestTypes'
    BY ReturnDoes, LabelFacts DEF RequestTypes
  <1>2. MarkTypes'
    BY DEF MarkTypes, Loses
  <1> QED BY <1>1, <1>2 DEF RowTypes, ContractTypes, HandlerTypes, MoneyTypes, CountTypes

LEMMA DropNegotiationTypes ==
  ASSUME TypeOK, NEW c \in Calls, DropNegotiation(c)
  PROVE  TypeOK'
  <1> USE TypeParts, TypePartsNext, Fields, Chosen, BankFacts
      DEF DropNegotiation, rowVars, money, stock, counts, marks, dealing
  <1>1. RequestTypes'
    BY ReturnDoes, LabelFacts DEF RequestTypes
  <1>2. RowTypes'
    BY SetRowDoes, StatusFacts, ZenonT(60) DEF RowTypes
  <1>3. MoneyTypes'
    BY FaultsCounted DEF MoneyTypes, Succeeds, Positive
  <1> QED BY <1>1, <1>2, <1>3 DEF ContractTypes, HandlerTypes, MarkTypes, CountTypes

LEMMA CounterOfferTypes ==
  ASSUME TypeOK, NEW c \in Calls, NEW k \in Banks, NEW n \in Negotiations, NEW t \in Terms, CounterOffer(c, k, n, t)
  PROVE  TypeOK'
  <1> USE TypeParts, TypePartsNext, Fields, Chosen, BankFacts
      DEF CounterOffer, rowVars, money, stock, counts, marks, dealing
  <1>1. RequestTypes'
    BY BeginDoes, LabelFacts DEF RequestTypes
  <1>2. RowTypes'
    BY SetRowDoes, StatusFacts DEF RowTypes
  <1> QED BY <1>1, <1>2 DEF ContractTypes, HandlerTypes, MoneyTypes, MarkTypes, CountTypes

LEMMA RejectNegotiationTypes ==
  ASSUME TypeOK, NEW c \in Calls, NEW k \in Banks, NEW n \in Negotiations, RejectNegotiation(c, k, n)
  PROVE  TypeOK'
  <1> USE TypeParts, TypePartsNext, Fields, Chosen, BankFacts
      DEF RejectNegotiation, rowVars, money, stock, counts, marks, dealing
  <1>1. RequestTypes'
    <2>1. "delete" \in Labels
      BY DEF Labels
    <2> QED BY <2>1, BeginDoes, EntryFields
  <1>2. RowTypes'
    BY SetStatusDoes, StatusFacts DEF RowTypes
  <1> QED BY <1>1, <1>2 DEF ContractTypes, HandlerTypes, MoneyTypes, MarkTypes, CountTypes

LEMMA LookupInterbankNegotiationTypes ==
  ASSUME TypeOK, NEW c \in Calls, LookupInterbankNegotiation(c)
  PROVE  TypeOK'
  <1> USE TypeParts, TypePartsNext, Fields, Chosen, BankFacts
      DEF LookupInterbankNegotiation, rowVars, money, stock, counts, marks, dealing
  <1>1. RequestTypes'
    BY GoToDoes, ReturnDoes, LabelFacts DEF RequestTypes
  <1> QED BY <1>1 DEF RowTypes, ContractTypes, HandlerTypes, MoneyTypes, MarkTypes, CountTypes

LEMMA InterbankCounterOfferTypes ==
  ASSUME TypeOK, NEW c \in Calls, InterbankCounterOffer(c)
  PROVE  TypeOK'
  <1> USE TypeParts, TypePartsNext, Fields, Chosen, BankFacts
      DEF InterbankCounterOffer, rowVars, money, stock, counts, marks, dealing
  <1>1. RequestTypes'
    BY ReturnDoes, LabelFacts DEF RequestTypes
  <1>2. RowTypes'
    BY SetRowDoes, StatusFacts DEF RowTypes
  <1> QED BY <1>1, <1>2 DEF ContractTypes, HandlerTypes, MoneyTypes, MarkTypes, CountTypes

LEMMA InterbankDeleteNegotiationTypes ==
  ASSUME TypeOK, NEW c \in Calls, InterbankDeleteNegotiation(c)
  PROVE  TypeOK'
  <1> USE TypeParts, TypePartsNext, Fields, Chosen, BankFacts
      DEF InterbankDeleteNegotiation, rowVars, money, stock, counts, marks, dealing
  <1>1. RequestTypes'
    BY ReturnDoes, LabelFacts DEF RequestTypes
  <1>2. RowTypes'
    BY SetStatusDoes, StatusFacts DEF RowTypes
  <1> QED BY <1>1, <1>2 DEF ContractTypes, HandlerTypes, MoneyTypes, MarkTypes, CountTypes

LEMMA RequestLostTypes ==
  ASSUME TypeOK, NEW c \in Calls, RequestLost(c)
  PROVE  TypeOK'
  <1> USE TypeParts, TypePartsNext, Fields, Chosen, BankFacts
      DEF RequestLost, rowVars, money, stock, counts, marks, dealing
  <1>1. RequestTypes'
    BY ReturnDoes, LabelFacts DEF RequestTypes
  <1>2. MoneyTypes'
    BY FaultsCounted DEF MoneyTypes, Succeeds, Positive
  <1> QED BY <1>1, <1>2 DEF RowTypes, ContractTypes, HandlerTypes, MarkTypes, CountTypes

LEMMA AcceptNegotiationTypes ==
  ASSUME TypeOK, NEW c \in Calls, NEW n \in Negotiations, AcceptNegotiation(c, n)
  PROVE  TypeOK'
  <1> USE TypeParts, TypePartsNext, Fields, Chosen, BankFacts
      DEF AcceptNegotiation, rowVars, money, stock, counts, marks, dealing
  <1>1. RequestTypes'
    BY AcceptDoes, LabelFacts DEF RequestTypes
  <1>2. RowTypes'
    BY AcceptDoes, StatusFacts DEF RowTypes
  <1> QED BY <1>1, <1>2 DEF ContractTypes, HandlerTypes, MoneyTypes, MarkTypes, CountTypes

LEMMA AcceptBySellerTypes ==
  ASSUME TypeOK, NEW c \in Calls, NEW n \in Negotiations, AcceptBySeller(c, n)
  PROVE  TypeOK'
  <1> USE TypeParts, TypePartsNext, Fields, Chosen, BankFacts
      DEF AcceptBySeller, rowVars, money, stock, counts, marks, dealing
  <1>1. RequestTypes'
    BY AcceptDoes, LabelFacts DEF RequestTypes
  <1>2. RowTypes'
    BY AcceptDoes, StatusFacts DEF RowTypes
  <1> QED BY <1>1, <1>2 DEF ContractTypes, HandlerTypes, MoneyTypes, MarkTypes, CountTypes

LEMMA GiveUpTypes ==
  ASSUME TypeOK, NEW c \in Calls, GiveUp(c)
  PROVE  TypeOK'
  <1> USE TypeParts, TypePartsNext, Fields, Chosen, BankFacts
      DEF GiveUp, rowVars, money, stock, counts, marks, dealing
  <1>1. RequestTypes'
    <2>1. CASE At(c, "accept") /\ Return(c)
      BY <2>1, ReturnDoes
    <2>2. CASE call' = [call EXCEPT ![c].waits = FALSE]
      <3>1. call' = [call EXCEPT ![c] = [call[c] EXCEPT !.waits = FALSE]]
        BY <2>2 DEF RequestTypes
      <3> QED BY <3>1, EditDoes, FlagsAreTyped, LabelFacts
    <2> QED BY <2>1, <2>2
  <1>2. RowTypes'
    BY SetStatusDoes, StatusFacts DEF RowTypes
  <1>3. MoneyTypes'
    BY FaultsCounted DEF MoneyTypes, Succeeds, Positive
  <1>4. MarkTypes'
    BY DEF MarkTypes, Loses
  <1> QED BY <1>1, <1>2, <1>3, <1>4 DEF ContractTypes, HandlerTypes, CountTypes

LEMMA CancelTypes ==
  ASSUME TypeOK, NEW c \in Calls, Cancel(c)
  PROVE  TypeOK'
  <1> USE TypeParts, TypePartsNext, Fields, Chosen, BankFacts
      DEF Cancel, rowVars, money, stock, counts, marks, dealing
  <1>1. RequestTypes'
    <2>1. call' = [call EXCEPT ![c] = [call[c] EXCEPT !.alive = FALSE]]
      BY DEF RequestTypes
    <2> QED BY <2>1, EditDoes, FlagsAreTyped, LabelFacts
  <1>2. MoneyTypes'
    BY FaultsCounted DEF MoneyTypes, Succeeds, Positive
  <1>3. MarkTypes'
    BY DEF MarkTypes, Loses
  <1> QED BY <1>1, <1>2, <1>3 DEF RowTypes, ContractTypes, HandlerTypes, CountTypes

LEMMA InterbankAcceptNegotiationTypes ==
  ASSUME TypeOK, NEW c \in Calls, InterbankAcceptNegotiation(c)
  PROVE  TypeOK'
  <1> USE TypeParts, TypePartsNext, Fields, Chosen, BankFacts
      DEF InterbankAcceptNegotiation, rowVars, money, stock, counts, marks, dealing
  <1>1. RequestTypes'
    BY GoToDoes, ReturnDoes, LabelFacts DEF RequestTypes
  <1>2. RowTypes'
    BY SetStatusDoes, StatusFacts DEF RowTypes
  <1> QED BY <1>1, <1>2 DEF ContractTypes, HandlerTypes, MoneyTypes, MarkTypes, CountTypes

LEMMA LoadNegotiationTypes ==
  ASSUME TypeOK, NEW c \in Calls, LoadNegotiation(c)
  PROVE  TypeOK'
  <1> USE TypeParts, TypePartsNext, Fields, Chosen, BankFacts
      DEF LoadNegotiation, rowVars, money, stock, counts, marks, dealing
  <1>1. RequestTypes'
    <2>1. CASE call' = [call EXCEPT ![c] = [call[c] EXCEPT
              !.pc = "newTx", !.terms = row[Seller][call[c].of].terms]]
      BY <2>1, EditDoes, TermsAreTyped, EntryFields, LabelFacts
    <2>2. CASE GoTo(c, "revert")
      BY <2>2, GoToDoes, LabelFacts
    <2> QED BY <2>1, <2>2 DEF RequestTypes
  <1>2. MoneyTypes'
    BY FaultsCounted DEF MoneyTypes, Succeeds, Positive
  <1> QED BY <1>1, <1>2 DEF RowTypes, ContractTypes, HandlerTypes, MarkTypes, CountTypes

LEMMA PrepareAcceptTypes ==
  ASSUME TypeOK, NEW c \in Calls, PrepareAccept(c)
  PROVE  TypeOK'
  <1> USE TypeParts, TypePartsNext, Fields, Chosen, BankFacts
      DEF PrepareAccept, rowVars, money, stock, counts, marks, dealing
  <1>1. RequestTypes'
    BY GoToDoes, LabelFacts DEF RequestTypes
  <1>2. HandlerTypes'
    BY VoteDoes DEF HandlerTypes
  <1>3. MoneyTypes'
    BY VoteDoes, FaultsCounted DEF MoneyTypes, Succeeds, Positive
  <1>4. MarkTypes'
    BY VoteDoes DEF MarkTypes, Loses
  <1> QED BY <1>1, <1>2, <1>3, <1>4 DEF RowTypes, ContractTypes, CountTypes

LEMMA NewTxFailsTypes ==
  ASSUME TypeOK, NEW c \in Calls, NewTxFails(c)
  PROVE  TypeOK'
  <1> USE TypeParts, TypePartsNext, Fields, Chosen, BankFacts
      DEF NewTxFails, rowVars, money, stock, counts, marks, dealing
  <1>1. RequestTypes'
    BY GoToDoes, LabelFacts DEF RequestTypes
  <1>2. MoneyTypes'
    BY FaultsCounted DEF MoneyTypes, Succeeds, Positive
  <1> QED BY <1>1, <1>2 DEF RowTypes, ContractTypes, HandlerTypes, MarkTypes, CountTypes

LEMMA ReserveSharesTypes ==
  ASSUME TypeOK, NEW c \in Calls, ReserveShares(c)
  PROVE  TypeOK'
  <1> USE TypeParts, TypePartsNext, Fields, Chosen, BankFacts
      DEF ReserveShares, rowVars, money, stock, counts, marks, dealing
  <1>1. RequestTypes'
    BY GoToDoes, LabelFacts DEF RequestTypes
  <1>2. MoneyTypes'
    BY FaultsCounted DEF MoneyTypes, Succeeds, Positive
  <1> QED BY <1>1, <1>2 DEF RowTypes, ContractTypes, HandlerTypes, MarkTypes, CountTypes

LEMMA RollbackAcceptTypes ==
  ASSUME TypeOK, NEW c \in Calls, RollbackAccept(c)
  PROVE  TypeOK'
  <1> USE TypeParts, TypePartsNext, Fields, Chosen, BankFacts
      DEF RollbackAccept, rowVars, money, stock, counts, marks, dealing
  <1>1. RequestTypes'
    BY GoToDoes, LabelFacts DEF RequestTypes
  <1>2. HandlerTypes'
    BY RollBackDoes DEF HandlerTypes
  <1>3. MoneyTypes'
    BY FaultsCounted DEF MoneyTypes, Succeeds, Positive
  <1> QED BY <1>1, <1>2, <1>3 DEF RowTypes, ContractTypes, MarkTypes, CountTypes

LEMMA InsertContractTypes ==
  ASSUME TypeOK, NEW c \in Calls, InsertContract(c)
  PROVE  TypeOK'
  <1> USE TypeParts, TypePartsNext, Fields, Chosen, BankFacts
      DEF InsertContract, rowVars, money, stock, counts, marks, dealing
  <1>1. RequestTypes'
    BY GoToDoes, LabelFacts DEF RequestTypes
  <1>2. ContractTypes'
    BY InsertDoes DEF ContractTypes
  <1>3. MoneyTypes'
    BY FaultsCounted DEF MoneyTypes, Succeeds, Positive
  <1>4. MarkTypes'
    BY DEF MarkTypes, Loses
  <1> QED BY <1>1, <1>2, <1>3, <1>4 DEF RowTypes, HandlerTypes, CountTypes

LEMMA CreditSellerTypes ==
  ASSUME TypeOK, NEW c \in Calls, CreditSeller(c)
  PROVE  TypeOK'
  <1> USE TypeParts, TypePartsNext, Fields, Chosen, BankFacts
      DEF CreditSeller, rowVars, money, stock, counts, marks, dealing
  <1>1. RequestTypes'
    BY ReturnDoes, LabelFacts DEF RequestTypes
  <1>2. MoneyTypes'
    BY FaultsCounted DEF MoneyTypes, Succeeds, Positive
  <1>3. CountTypes'
    BY DEF CountTypes
  <1> QED BY <1>1, <1>2, <1>3 DEF RowTypes, ContractTypes, HandlerTypes, MarkTypes

LEMMA RevertAcceptTypes ==
  ASSUME TypeOK, NEW c \in Calls, RevertAccept(c)
  PROVE  TypeOK'
  <1> USE TypeParts, TypePartsNext, Fields, Chosen, BankFacts
      DEF RevertAccept, rowVars, money, stock, counts, marks, dealing
  <1>1. RequestTypes'
    BY GoToDoes, ReturnDoes, LabelFacts DEF RequestTypes
  <1>2. RowTypes'
    BY SetStatusDoes, StatusFacts DEF RowTypes
  <1> QED BY <1>1, <1>2 DEF ContractTypes, HandlerTypes, MoneyTypes, MarkTypes, CountTypes

LEMMA RevertAtBuyerTypes ==
  ASSUME TypeOK, NEW c \in Calls, RevertAtBuyer(c)
  PROVE  TypeOK'
  <1> USE TypeParts, TypePartsNext, Fields, Chosen, BankFacts
      DEF RevertAtBuyer, rowVars, money, stock, counts, marks, dealing
  <1>1. RequestTypes'
    BY ReturnDoes, LabelFacts DEF RequestTypes
  <1>2. RowTypes'
    BY SetStatusDoes, StatusFacts DEF RowTypes
  <1> QED BY <1>1, <1>2 DEF ContractTypes, HandlerTypes, MoneyTypes, MarkTypes, CountTypes

LEMMA ExerciseContractTypes ==
  ASSUME TypeOK, NEW c \in Calls, NEW n \in Negotiations, ExerciseContract(c, n)
  PROVE  TypeOK'
  <1> USE TypeParts, TypePartsNext, Fields, Chosen, BankFacts
      DEF ExerciseContract, rowVars, money, stock, counts, marks, dealing
  <1>1. RequestTypes'
    <2>1. "pay" \in Labels
      BY DEF Labels, ExerciseLabels
    <2> QED BY <2>1, BeginDoes, EntryFields
  <1> QED BY <1>1 DEF RowTypes, ContractTypes, HandlerTypes, MoneyTypes, MarkTypes, CountTypes

LEMMA ReserveFundsTypes ==
  ASSUME TypeOK, NEW c \in Calls, ReserveFunds(c)
  PROVE  TypeOK'
  <1> USE TypeParts, TypePartsNext, Fields, Chosen, BankFacts
      DEF ReserveFunds, rowVars, money, stock, counts, marks, dealing
  <1>1. RequestTypes'
    BY GoToDoes, ReturnDoes, LabelFacts DEF RequestTypes
  <1>2. MoneyTypes'
    BY FaultsCounted DEF MoneyTypes, Succeeds, Positive
  <1> QED BY <1>1, <1>2 DEF RowTypes, ContractTypes, HandlerTypes, MarkTypes, CountTypes

LEMMA PrepareExerciseTypes ==
  ASSUME TypeOK, NEW c \in Calls, PrepareExercise(c)
  PROVE  TypeOK'
  <1> USE TypeParts, TypePartsNext, Fields, Chosen, BankFacts
      DEF PrepareExercise, rowVars, money, stock, counts, marks, dealing
  <1>1. RequestTypes'
    BY GoToDoes, LabelFacts DEF RequestTypes
  <1>2. HandlerTypes'
    BY VoteDoes DEF HandlerTypes
  <1>3. MoneyTypes'
    BY VoteDoes, FaultsCounted DEF MoneyTypes, Succeeds, Positive
  <1>4. MarkTypes'
    BY VoteDoes DEF MarkTypes, Loses
  <1> QED BY <1>1, <1>2, <1>3, <1>4 DEF RowTypes, ContractTypes, CountTypes

LEMMA PrepareFailsTypes ==
  ASSUME TypeOK, NEW c \in Calls, PrepareFails(c)
  PROVE  TypeOK'
  <1> USE TypeParts, TypePartsNext, Fields, Chosen, BankFacts
      DEF PrepareFails, rowVars, money, stock, counts, marks, dealing
  <1>1. RequestTypes'
    BY GoToDoes, LabelFacts DEF RequestTypes
  <1>2. MoneyTypes'
    BY FaultsCounted DEF MoneyTypes, Succeeds, Positive
  <1> QED BY <1>1, <1>2 DEF RowTypes, ContractTypes, HandlerTypes, MarkTypes, CountTypes

LEMMA RollbackExerciseTypes ==
  ASSUME TypeOK, NEW c \in Calls, RollbackExercise(c)
  PROVE  TypeOK'
  <1> USE TypeParts, TypePartsNext, Fields, Chosen, BankFacts
      DEF RollbackExercise, rowVars, money, stock, counts, marks, dealing
  <1>1. RequestTypes'
    BY GoToDoes, LabelFacts DEF RequestTypes
  <1>2. HandlerTypes'
    BY RollBackDoes DEF HandlerTypes
  <1>3. MoneyTypes'
    BY FaultsCounted DEF MoneyTypes, Succeeds, Positive
  <1> QED BY <1>1, <1>2, <1>3 DEF RowTypes, ContractTypes, MarkTypes, CountTypes

LEMMA GiveBackTypes ==
  ASSUME TypeOK, NEW c \in Calls, GiveBack(c)
  PROVE  TypeOK'
  <1> USE TypeParts, TypePartsNext, Fields, Chosen, BankFacts
      DEF GiveBack, rowVars, money, stock, counts, marks, dealing
  <1>1. RequestTypes'
    BY ReturnDoes, LabelFacts DEF RequestTypes
  <1>2. MoneyTypes'
    BY FaultsCounted DEF MoneyTypes, Succeeds, Positive
  <1> QED BY <1>1, <1>2 DEF RowTypes, ContractTypes, HandlerTypes, MarkTypes, CountTypes

LEMMA DebitBuyerTypes ==
  ASSUME TypeOK, NEW c \in Calls, DebitBuyer(c)
  PROVE  TypeOK'
  <1> USE TypeParts, TypePartsNext, Fields, Chosen, BankFacts
      DEF DebitBuyer, rowVars, money, stock, counts, marks, dealing
  <1>1. RequestTypes'
    BY GoToDoes, LabelFacts DEF RequestTypes
  <1>2. MoneyTypes'
    BY FaultsCounted DEF MoneyTypes, Succeeds, Positive
  <1> QED BY <1>1, <1>2 DEF RowTypes, ContractTypes, HandlerTypes, MarkTypes, CountTypes

LEMMA AddSharesTypes ==
  ASSUME TypeOK, NEW c \in Calls, AddShares(c)
  PROVE  TypeOK'
  <1> USE TypeParts, TypePartsNext, Fields, Chosen, BankFacts
      DEF AddShares, rowVars, money, stock, counts, marks, dealing
  <1>1. RequestTypes'
    BY GoToDoes, LabelFacts DEF RequestTypes
  <1>2. MoneyTypes'
    BY FaultsCounted DEF MoneyTypes, Succeeds, Positive
  <1> QED BY <1>1, <1>2 DEF RowTypes, ContractTypes, HandlerTypes, MarkTypes, CountTypes

LEMMA MarkExercisedTypes ==
  ASSUME TypeOK, NEW c \in Calls, MarkExercised(c)
  PROVE  TypeOK'
  <1> USE TypeParts, TypePartsNext, Fields, Chosen, BankFacts
      DEF MarkExercised, rowVars, money, stock, counts, marks, dealing
  <1>1. RequestTypes'
    BY ReturnDoes, LabelFacts DEF RequestTypes
  <1>2. ContractTypes'
    BY CloseDoes DEF ContractTypes
  <1>3. MoneyTypes'
    BY FaultsCounted DEF MoneyTypes, Succeeds, Positive
  <1>4. MarkTypes'
    BY DEF MarkTypes, Loses
  <1> QED BY <1>1, <1>2, <1>3, <1>4 DEF RowTypes, HandlerTypes, CountTypes

LEMMA SendCommitTypes ==
  ASSUME TypeOK, NEW c \in Calls, SendCommit(c)
  PROVE  TypeOK'
  <1> USE TypeParts, TypePartsNext, Fields, Chosen, BankFacts
      DEF SendCommit, rowVars, money, stock, counts, marks, dealing
  <1> DEFINE i == call[c].tries + 1
             label == Waiting(call[c].pc)
             next == [call[c] EXCEPT !.pc = label, !.tries = i]
             loaded == [attempt[c][i] EXCEPT !.pc = "load"]
  <1>1. i \in Handlers /\ label \in Labels
    BY LabelFacts DEF Handlers, Waiting
  <1>2. call' = [call EXCEPT ![c] = next]
    OBVIOUS
  <1>3. RequestTypes'
    BY <1>1, <1>2, EditDoes, TriesAreTyped
  <1>4. attempt[c][i] \in Handler
    BY <1>1 DEF HandlerTypes
  <1>5. attempt' = [attempt EXCEPT ![c][i] = loaded] /\ loaded \in Handler
    BY <1>1, <1>4 DEF HandlerTypes, Handler, HandlerLabels
  <1>6. HandlerTypes'
    BY <1>1, <1>5 DEF HandlerTypes
  <1>7. MoneyTypes'
    BY FaultsCounted DEF MoneyTypes
  <1> QED BY <1>3, <1>6, <1>7 DEF RowTypes, ContractTypes, MarkTypes, CountTypes

LEMMA CommitAnsweredTypes ==
  ASSUME TypeOK, NEW c \in Calls, CommitAnswered(c)
  PROVE  TypeOK'
  <1> USE TypeParts, TypePartsNext, Fields, Chosen, BankFacts
      DEF CommitAnswered, rowVars, money, stock, counts, marks, dealing
  <1>1. RequestTypes'
    <2> DEFINE label == IF At(c, "committing") THEN "credit"
                        ELSE IF Latest(c).ok THEN "debit" ELSE "undo"
    <2>1. label \in Labels
      BY LabelFacts
    <2>2. GoTo(c, label)
      OBVIOUS
    <2> HIDE DEF label
    <2> QED BY <2>1, <2>2, GoToDoes
  <1> QED BY <1>1 DEF RowTypes, ContractTypes, HandlerTypes, MoneyTypes, MarkTypes, CountTypes

LEMMA CommitTimesOutTypes ==
  ASSUME TypeOK, NEW c \in Calls, CommitTimesOut(c)
  PROVE  TypeOK'
  <1> USE TypeParts, TypePartsNext, Fields, Chosen, BankFacts
      DEF CommitTimesOut, rowVars, money, stock, counts, marks, dealing
  <1>1. RequestTypes'
    <2>1. Sending(call[c].pc) \in Labels
      BY LabelFacts DEF Sending
    <2> QED BY <2>1, GoToDoes
  <1>2. MoneyTypes'
    BY FaultsCounted DEF MoneyTypes, Succeeds, Positive
  <1>3. MarkTypes'
    BY DEF MarkTypes, Loses
  <1> QED BY <1>1, <1>2, <1>3 DEF RowTypes, ContractTypes, HandlerTypes, CountTypes

LEMMA CommitFailsTypes ==
  ASSUME TypeOK, NEW c \in Calls, CommitFails(c)
  PROVE  TypeOK'
  <1> USE TypeParts, TypePartsNext, Fields, Chosen, BankFacts
      DEF CommitFails, rowVars, money, stock, counts, marks, dealing
  <1>1. RequestTypes'
    <2> DEFINE label == IF At(c, "commit") THEN "credit" ELSE "undo"
    <2>1. label \in Labels
      BY LabelFacts
    <2>2. GoTo(c, label)
      OBVIOUS
    <2> HIDE DEF label
    <2> QED BY <2>1, <2>2, GoToDoes
  <1>2. MoneyTypes'
    BY FaultsCounted DEF MoneyTypes, Succeeds, Positive
  <1>3. MarkTypes'
    BY DEF MarkTypes, Loses
  <1> QED BY <1>1, <1>2, <1>3 DEF RowTypes, ContractTypes, HandlerTypes, CountTypes

LEMMA LoadTxTypes ==
  ASSUME TypeOK, NEW c \in Calls, NEW i \in Handlers, LoadTx(c, i)
  PROVE  TypeOK'
  <1> USE TypeParts, TypePartsNext, Fields, Chosen, BankFacts
      DEF LoadTx, rowVars, money, stock, counts, marks, dealing
  <1>1. HandlerTypes'
    <2>1. ASSUME NEW ok \in BOOLEAN, End(c, i, ok), tx' = tx
          PROVE  HandlerTypes'
      <3>1. attempt' = [attempt EXCEPT ![c][i] = [attempt[c][i] EXCEPT !.pc = "done", !.ok = ok]]
        BY <2>1 DEF End
      <3>2. [attempt[c][i] EXCEPT !.pc = "done", !.ok = ok] \in Handler
        BY HandlerFields, ZenonT(60) DEF Handler, HandlerLabels
      <3> QED BY <2>1, <3>1, <3>2 DEF HandlerTypes
    <2>2. ASSUME NEW t \in Terms, NEW label \in {"debit", "shares"},
                 attempt' = [attempt EXCEPT ![c][i] = [attempt[c][i] EXCEPT !.pc = label, !.terms = t]]
          PROVE  HandlerTypes'
      <3> DEFINE next == [attempt[c][i] EXCEPT !.pc = label, !.terms = t]
      <3>1. next \in Handler
        BY HandlerFields, ZenonT(60) DEF Handler, HandlerLabels
      <3> QED BY <2>2, <3>1 DEF HandlerTypes
    <2>3. tx[c].of \in Negotiations /\ attempt[c] = [attempt[c] EXCEPT ![i] = attempt[c][i]]
      BY HandlerFields DEF HandlerTypes
    <2> QED BY <2>1, <2>2, <2>3, EntryFields DEF HandlerTypes
  <1>2. MoneyTypes'
    BY FaultsCounted DEF MoneyTypes, Succeeds, Positive
  <1> QED BY <1>1, <1>2, SMTT(30) DEF RequestTypes, RowTypes, ContractTypes, MarkTypes, CountTypes

LEMMA DebitPremiumTypes ==
  ASSUME TypeOK, NEW c \in Calls, NEW i \in Handlers, DebitPremium(c, i)
  PROVE  TypeOK'
  <1> USE TypeParts, TypePartsNext, Fields, Chosen, BankFacts
      DEF DebitPremium, rowVars, money, stock, counts, marks, dealing
  <1>1. HandlerTypes'
    <2>1. "insert" \in HandlerLabels
      BY DEF HandlerLabels
    <2> QED BY <2>1, ProceedDoes DEF HandlerTypes
  <1>2. MoneyTypes'
    <2> DEFINE premium == Premium[attempt[c][i].terms]
    <2>1. premium \in Nat
      BY HandlerFields
    <2>2. CASE available >= premium /\ balance' = balance - premium /\ available' = available - premium
      <3> HIDE DEF premium
      <3> QED BY <2>1, <2>2, FaultsCounted DEF MoneyTypes
    <2>3. CASE UNCHANGED <<balance, available>>
      BY <2>3, FaultsCounted DEF MoneyTypes
    <2> QED BY <2>2, <2>3
  <1>3. MarkTypes'
    BY HandlerFields DEF MarkTypes
  <1>4. CountTypes'
    BY HandlerFields DEF CountTypes
  <1> QED BY <1>1, <1>2, <1>3, <1>4 DEF RequestTypes, RowTypes, ContractTypes

LEMMA CreateBuyerContractTypes ==
  ASSUME TypeOK, NEW c \in Calls, NEW i \in Handlers, CreateBuyerContract(c, i)
  PROVE  TypeOK'
  <1> USE TypeParts, TypePartsNext, Fields, Chosen, BankFacts
      DEF CreateBuyerContract, rowVars, money, stock, counts, marks, dealing
  <1>1. ContractTypes'
    BY HandlerFields, InsertDoes DEF ContractTypes
  <1>2. HandlerTypes'
    <2>1. "mark" \in HandlerLabels
      BY DEF HandlerLabels
    <2> QED BY <2>1, ProceedDoes DEF HandlerTypes
  <1>3. MoneyTypes'
    BY FaultsCounted DEF MoneyTypes, Succeeds, Positive
  <1>4. MarkTypes'
    BY HandlerFields DEF MarkTypes, Loses
  <1> QED BY <1>1, <1>2, <1>3, <1>4 DEF RequestTypes, RowTypes, CountTypes

LEMMA TakeSharesTypes ==
  ASSUME TypeOK, NEW c \in Calls, NEW i \in Handlers, TakeShares(c, i)
  PROVE  TypeOK'
  <1> USE TypeParts, TypePartsNext, Fields, Chosen, BankFacts
      DEF TakeShares, rowVars, money, stock, counts, marks, dealing
  <1>1. HandlerTypes'
    <2>1. "strike" \in HandlerLabels
      BY DEF HandlerLabels
    <2> QED BY <2>1, ProceedDoes, EndDoes DEF HandlerTypes
  <1>2. MoneyTypes'
    <2>1. CASE held' = Positive(held - tx[c].amount) /\ reserved' = Positive(reserved - tx[c].amount)
      <3>1. held' \in Nat /\ reserved' \in 0..held'
        BY <2>1, PositiveFacts, HandlerFields DEF MoneyTypes
      <3> QED BY <3>1, FaultsCounted DEF MoneyTypes
    <2>2. CASE UNCHANGED <<held, reserved>>
      BY <2>2, FaultsCounted DEF MoneyTypes
    <2> QED BY <2>1, <2>2
  <1> QED BY <1>1, <1>2 DEF RequestTypes, RowTypes, ContractTypes, MarkTypes, CountTypes

LEMMA CreditStrikeTypes ==
  ASSUME TypeOK, NEW c \in Calls, NEW i \in Handlers, CreditStrike(c, i)
  PROVE  TypeOK'
  <1> USE TypeParts, TypePartsNext, Fields, Chosen, BankFacts
      DEF CreditStrike, rowVars, money, stock, counts, marks, dealing
  <1>1. HandlerTypes'
    <2>1. "exercised" \in HandlerLabels
      BY DEF HandlerLabels
    <2> QED BY <2>1, ProceedDoes DEF HandlerTypes
  <1>2. MoneyTypes'
    <2> DEFINE paid == tx[c].amount * Strike[attempt[c][i].terms]
    <2>1. paid \in Nat
      BY HandlerFields
    <2>2. cash' = cash + paid \/ cash' = cash
      OBVIOUS
    <2> HIDE DEF paid
    <2> QED BY <2>1, <2>2, FaultsCounted DEF MoneyTypes
  <1>3. CountTypes'
    BY HandlerFields DEF CountTypes
  <1> QED BY <1>1, <1>2, <1>3 DEF RequestTypes, RowTypes, ContractTypes, MarkTypes

LEMMA MarkSellerContractTypes ==
  ASSUME TypeOK, NEW c \in Calls, NEW i \in Handlers, MarkSellerContract(c, i)
  PROVE  TypeOK'
  <1> USE TypeParts, TypePartsNext, Fields, Chosen, BankFacts
      DEF MarkSellerContract, rowVars, money, stock, counts, marks, dealing
  <1>1. ContractTypes'
    BY HandlerFields, CloseDoes DEF ContractTypes
  <1>2. HandlerTypes'
    <2>1. "mark" \in HandlerLabels
      BY DEF HandlerLabels
    <2> QED BY <2>1, ProceedDoes, EndDoes DEF HandlerTypes
  <1>3. MoneyTypes'
    BY FaultsCounted DEF MoneyTypes, Succeeds, Positive
  <1>4. MarkTypes'
    BY HandlerFields DEF MarkTypes, Loses
  <1> QED BY <1>1, <1>2, <1>3, <1>4 DEF RequestTypes, RowTypes, CountTypes

LEMMA MarkCommittedTypes ==
  ASSUME TypeOK, NEW c \in Calls, NEW i \in Handlers, MarkCommitted(c, i)
  PROVE  TypeOK'
  <1> USE TypeParts, TypePartsNext, Fields, Chosen, BankFacts
      DEF MarkCommitted, rowVars, money, stock, counts, marks, dealing
  <1>1. HandlerTypes'
    <2>1. attempt' \in [Calls -> [Handlers -> Handler]]
      BY EndDoes
    <2>2. tx' \in [Calls -> BankVote]
      BY HandlerFields, ZenonT(60) DEF HandlerTypes, BankVote
    <2> QED BY <2>1, <2>2 DEF HandlerTypes
  <1>2. MoneyTypes'
    BY FaultsCounted DEF MoneyTypes, Succeeds, Positive
  <1> QED BY <1>1, <1>2 DEF RequestTypes, RowTypes, ContractTypes, MarkTypes, CountTypes

LEMMA StopHandlerTypes ==
  ASSUME TypeOK, NEW c \in Calls, NEW i \in Handlers, StopHandler(c, i)
  PROVE  TypeOK'
  <1> USE TypeParts, TypePartsNext, Fields, Chosen, BankFacts
      DEF StopHandler, rowVars, money, stock, counts, marks, dealing
  <1>1. HandlerTypes'
    BY EndDoes DEF HandlerTypes
  <1>2. MoneyTypes'
    BY FaultsCounted DEF MoneyTypes, Succeeds, Positive
  <1>3. MarkTypes'
    BY HandlerFields DEF MarkTypes
  <1> QED BY <1>1, <1>2, <1>3 DEF RequestTypes, RowTypes, ContractTypes, CountTypes

LEMMA SettlementPassesTypes ==
  ASSUME TypeOK, NEW n \in Negotiations, SettlementPasses(n)
  PROVE  TypeOK'
  <1> USE TypeParts, TypePartsNext, Chosen, BankFacts
      DEF SettlementPasses, rowVars, money, stock, counts, marks, dealing
  <1>1. MarkTypes'
    BY DEF MarkTypes, Loses
  <1> QED BY <1>1 DEF RequestTypes, RowTypes, ContractTypes, HandlerTypes, MoneyTypes, CountTypes

LEMMA ExpireContractTypes ==
  ASSUME TypeOK, NEW k \in Banks, NEW n \in Negotiations, ExpireContract(k, n)
  PROVE  TypeOK'
  <1> USE TypeParts, TypePartsNext, Chosen, BankFacts
      DEF ExpireContract, rowVars, money, stock, counts, marks, dealing
  <1>1. ContractTypes'
    BY CloseDoes DEF ContractTypes
  <1> QED BY <1>1 DEF RequestTypes, RowTypes, HandlerTypes, MoneyTypes, MarkTypes, CountTypes

LEMMA SpendTypes ==
  ASSUME TypeOK, Spend
  PROVE  TypeOK'
  <1> USE TypeParts, TypePartsNext, Chosen, BankFacts
      DEF Spend, rowVars, money, stock, counts, marks, dealing
  <1>1. MoneyTypes'
    BY NumbersAssumption DEF MoneyTypes
  <1> QED BY <1>1 DEF RequestTypes, RowTypes, ContractTypes, HandlerTypes, MarkTypes, CountTypes

LEMMA SellShareTypes ==
  ASSUME TypeOK, SellShare
  PROVE  TypeOK'
  <1> USE TypeParts, TypePartsNext, Chosen, BankFacts
      DEF SellShare, rowVars, money, stock, counts, marks, dealing
  <1>1. MoneyTypes'
    BY FaultsCounted DEF MoneyTypes, Succeeds, Positive
  <1> QED BY <1>1 DEF RequestTypes, RowTypes, ContractTypes, HandlerTypes, MarkTypes, CountTypes

LEMMA CrashDoes ==
  ASSUME TypeOK, NEW k \in Banks, Crash(k)
  PROVE  /\ \A c \in Calls : call'[c] = AfterCrash(c, k) /\ AfterCrash(c, k) \in Request
         /\ \A c \in Calls, i \in Handlers :
              /\ attempt'[c][i] = IF VoterOf(c) = k /\ ~Is(c, i, "none") /\ ~Is(c, i, "done")
                                  THEN [attempt[c][i] EXCEPT !.pc = "done", !.ok = FALSE]
                                  ELSE attempt[c][i]
         /\ TypeOK'
  <1>1. call' = [c \in Calls |-> AfterCrash(c, k)]
    BY DEF Crash
  <1>2. ASSUME NEW c \in Calls
        PROVE  AfterCrash(c, k) \in Request
    <2>1. call[c] \in Request
      BY TypeParts, Fields
    <2>2. Finished("end") \in Request
      BY Chosen, BankFacts, LabelFacts DEF Finished, Request
    <2>3. [call[c] EXCEPT !.pc = "refused"] \in Request
      BY <2>1, LabelFacts DEF Request
    <2> QED BY <2>1, <2>2, <2>3, FlagsAreTyped DEF AfterCrash
  <1>3. RequestTypes'
    BY <1>1, <1>2 DEF RequestTypes
  <1>4. attempt' = [c \in Calls |-> [i \in Handlers |->
          IF VoterOf(c) = k /\ ~Is(c, i, "none") /\ ~Is(c, i, "done")
          THEN [attempt[c][i] EXCEPT !.pc = "done", !.ok = FALSE] ELSE attempt[c][i]]]
    BY DEF Crash, Handlers
  <1>5. ASSUME NEW c \in Calls, NEW i \in Handlers
        PROVE  [attempt[c][i] EXCEPT !.pc = "done", !.ok = FALSE] \in Handler
    BY HandlerFields DEF Handler, HandlerLabels
  <1>6. HandlerTypes'
    <2>1. tx' = tx
      BY DEF Crash
    <2> QED BY <1>4, <1>5, <2>1, HandlerFields, TypeParts DEF HandlerTypes
  <1>7. MarkTypes'
    <2>1. \A c \in Calls : call[c].of \in Negotiations
      BY TypeParts, Fields
    <2>2. doubted' \subseteq Negotiations
      BY <2>1, TypeParts DEF Crash, MarkTypes
    <2> QED BY <2>2, TypeParts DEF Crash, MarkTypes, rowVars
  <1>8. MoneyTypes'
    <2>1. faults \in 0..MaxFaults /\ faults < MaxFaults /\ faults' = faults + 1
      BY TypeParts DEF Crash, MoneyTypes, Fault
    <2>2. faults' \in 0..MaxFaults
      BY <2>1, Chosen
    <2> QED BY <2>2, TypeParts DEF Crash, MoneyTypes, money, stock
  <1>9. RowTypes' /\ ContractTypes' /\ CountTypes'
    BY TypeParts DEF Crash, RowTypes, ContractTypes, CountTypes, counts, rowVars
  <1>10. \A c \in Calls : call'[c] = AfterCrash(c, k)
    BY <1>1
  <1>11. \A c \in Calls, i \in Handlers :
              /\ attempt'[c][i] = IF VoterOf(c) = k /\ ~Is(c, i, "none") /\ ~Is(c, i, "done")
                                  THEN [attempt[c][i] EXCEPT !.pc = "done", !.ok = FALSE]
                                  ELSE attempt[c][i]
    BY <1>4
  <1> QED BY <1>2, <1>3, <1>6, <1>7, <1>8, <1>9, <1>10, <1>11, TypePartsNext

LEMMA TypeInit == Init => TypeOK
  <1> SUFFICES ASSUME Init PROVE TypeOK
    OBVIOUS
  <1>1. Absent \in Row /\ Absent \in Contract
    BY Chosen DEF Absent, Row, Contract, Statuses
  <1>2. RowTypes /\ linked \subseteq Negotiations
    <2>1. PICK first \in [Negotiations -> Opened] :
            /\ row = [k \in Banks |-> [n \in Negotiations |-> [Absent EXCEPT !.status = first[n]]]]
            /\ linked = {n \in Negotiations : first[n] # "none"}
      BY DEF Init
    <2>2. ASSUME NEW n \in Negotiations
          PROVE  [Absent EXCEPT !.status = first[n]] \in Row
      BY <1>1, NumbersAssumption, StatusFacts DEF Row
    <2> QED BY <2>1, <2>2 DEF RowTypes
  <1>3. ContractTypes
    BY <1>1 DEF Init, ContractTypes
  <1>4. RequestTypes
    <2>1. Finished("idle") \in Request
      BY Chosen, BankFacts, LabelFacts DEF Finished, Request
    <2> QED BY <2>1 DEF Init, RequestTypes
  <1>5. HandlerTypes
    <2>1. NoTx \in BankVote /\ NoAttempt \in Handler
      BY Chosen DEF NoTx, BankVote, NoAttempt, Handler, HandlerLabels
    <2> QED BY <2>1 DEF Init, HandlerTypes, Handlers
  <1>6. MoneyTypes
    BY NumbersAssumption DEF Init, MoneyTypes
  <1>7. MarkTypes /\ CountTypes
    BY <1>2 DEF Init, MarkTypes, CountTypes
  <1> QED BY <1>2, <1>3, <1>4, <1>5, <1>6, <1>7, TypeParts

LEMMA TypeStep ==
  ASSUME TypeOK, [Next]_vars
  PROVE  TypeOK'
  <1>1. ASSUME NEW c \in Calls, NEW n \in Negotiations, Offer(c, n)
        PROVE  TypeOK'
    BY <1>1, CreateNegotiationTypes, CounterOfferTypes, RejectNegotiationTypes,
       AcceptNegotiationTypes, AcceptBySellerTypes, ExerciseContractTypes DEF Offer
  <1>2. ASSUME NEW c \in Calls, Forward(c)
        PROVE  TypeOK'
    BY <1>2, CreateInterbankNegotiationTypes, ForwardFailsTypes, StorePartnerIdTypes,
       DropNegotiationTypes, LookupInterbankNegotiationTypes, RequestLostTypes,
       InterbankCounterOfferTypes, InterbankDeleteNegotiationTypes DEF Forward
  <1>3. ASSUME NEW c \in Calls, RunAcceptance(c)
        PROVE  TypeOK'
    BY <1>3, GiveUpTypes, CancelTypes, InterbankAcceptNegotiationTypes,
       LoadNegotiationTypes, PrepareAcceptTypes, NewTxFailsTypes, ReserveSharesTypes,
       RollbackAcceptTypes, InsertContractTypes, CreditSellerTypes, RevertAcceptTypes,
       RevertAtBuyerTypes DEF RunAcceptance
  <1>4. ASSUME NEW c \in Calls, RunExercise(c)
        PROVE  TypeOK'
    BY <1>4, ReserveFundsTypes, PrepareExerciseTypes, PrepareFailsTypes,
       RollbackExerciseTypes, GiveBackTypes, DebitBuyerTypes, AddSharesTypes,
       MarkExercisedTypes DEF RunExercise
  <1>5. ASSUME NEW c \in Calls, Commit(c)
        PROVE  TypeOK'
    BY <1>5, SendCommitTypes, CommitAnsweredTypes, CommitTimesOutTypes,
       CommitFailsTypes DEF Commit
  <1>6. ASSUME NEW c \in Calls, NEW i \in Handlers, CommitOtcInterbank(c, i)
        PROVE  TypeOK'
    BY <1>6, LoadTxTypes, DebitPremiumTypes, CreateBuyerContractTypes, TakeSharesTypes,
       CreditStrikeTypes, MarkSellerContractTypes, MarkCommittedTypes,
       StopHandlerTypes DEF CommitOtcInterbank
  <1>7. ASSUME NEW n \in Negotiations,
               SettlementPasses(n) \/ \E k \in Banks : ExpireContract(k, n)
        PROVE  TypeOK'
    BY <1>7, SettlementPassesTypes, ExpireContractTypes
  <1>8. ASSUME UNCHANGED vars
        PROVE  TypeOK'
    BY <1>8 DEF vars, TypeOK, rowVars, money, stock, counts, marks, dealing
  <1> QED BY <1>1, <1>2, <1>3, <1>4, <1>5, <1>6, <1>7, <1>8, SpendTypes, SellShareTypes,
            CrashDoes DEF Next, Handlers

(* Every variable stays within its type, and the bounds on failures,       *)
(* payments and attempts are never passed.                                  *)
THEOREM InterbankTypes == Spec => []TypeOK
  <1> QED BY TypeInit, TypeStep, PTL DEF Spec

-----------------------------------------------------------------------------
(* Whose turn it is.  A negotiation is opened once, and as long as no       *)
(* caller stopped waiting for its acceptance the turn is in one place: at   *)
(* one of the banks, or on its way with one request.                        *)
Joining == {"forward", "link", "drop"}
Offering == {"put", "putUpdate"}
Accepting == AcceptLabels \cup {"refused"}
Carrying == {"forward"} \cup Offering \cup Accepting
Watched == Carrying \cup Joining \cup {"deleteUpdate"}
Agreed == {"newTx", "reserve", "contract", "commit", "committing", "credit"}
BySeller == {"load", "newTx", "rollback", "revert"}

Joins(c, n) == call[c].of = n /\ call[c].pc \in Joining
Carries(c, n) == call[c].of = n /\ call[c].pc \in Carrying
Status(k, n) == row[k][n].status
HasTurn(k, n) == Status(k, n) = Turn(k)
SameTerms(n) == row[Seller][n].terms = row[Buyer][n].terms

Joined(n) ==
  /\ n \in linked => Status(Buyer, n) # "none" /\ Status(Seller, n) # "none"
  /\ \A c \in Calls : Joins(c, n) =>
       /\ n \notin linked /\ Status(Buyer, n) # "none"
       /\ call[c].pc = "forward" => Status(Seller, n) = "none"
       /\ call[c].pc = "link" => Status(Seller, n) # "none"
  /\ \A c, d \in Calls : Joins(c, n) /\ Joins(d, n) => c = d
  /\ HasTurn(Buyer, n) \/ (\E c \in Calls : Carries(c, n) /\ call[c].pc # "forward") =>
       Status(Seller, n) # "none"
  /\ \A c \in Calls : call[c].of = n /\ call[c].pc = "deleteUpdate" => n \in linked

OneTurn(n) ==
  /\ ~(HasTurn(Buyer, n) /\ HasTurn(Seller, n))
  /\ \A c \in Calls : Carries(c, n) => ~HasTurn(Buyer, n) /\ ~HasTurn(Seller, n)
  /\ \A c, d \in Calls : Carries(c, n) /\ Carries(d, n) => c = d

(* An acceptance that the buyer started finds the same terms at both banks *)
(* and one that the seller started gets no vote.                           *)
BuyersCall(c, n) ==
  /\ n \in linked /\ call[c].back = "PENDING_BUYER"
  /\ Status(Seller, n) = "PENDING_BUYER" => SameTerms(n)
  /\ call[c].pc \notin {"accept", "refused"} => SameTerms(n) /\ Status(Seller, n) # "none"
  /\ call[c].pc \in Agreed => call[c].terms = row[Seller][n].terms

SameOffer(n) ==
  /\ Status(Buyer, n) = "ACCEPTED" =>
       /\ ~HasTurn(Seller, n)
       /\ \A c \in Calls : Carries(c, n) => call[c].bank = Buyer /\ call[c].pc \in Accepting
  /\ HasTurn(Buyer, n) /\ Status(Seller, n) = "PENDING_BUYER" => SameTerms(n)
  /\ \A c \in Calls : call[c].of = n /\ call[c].pc \in Offering /\ call[c].bank = Seller =>
       row[Seller][n].terms = call[c].terms
  /\ \A c \in Calls : call[c].of = n /\ call[c].pc \in Accepting =>
       IF call[c].bank = Buyer THEN BuyersCall(c, n) ELSE call[c].pc \in BySeller

RowInvOf(n) == Joined(n) /\ (n \in doubted \/ (OneTurn(n) /\ SameOffer(n)))
RowInv == \A n \in Negotiations : RowInvOf(n)

(* A step of a request that takes no turn and makes no offer.              *)
Onward(d) ==
  \/ call'[d].pc = call[d].pc
  \/ call'[d].pc = "drop" /\ call[d].pc \in {"forward", "link"}
  \/ call'[d].pc \in Offering /\ call[d].pc \in Offering
  \/ /\ {call[d].pc, call'[d].pc} \subseteq AcceptLabels \ {"accept"}
     /\ call'[d].pc \in Agreed => call[d].pc \in Agreed
     /\ call[d].bank = Buyer \/ call'[d].pc \in BySeller \/ call[d].pc \notin BySeller
Calm(d, n) ==
  \/ call'[d] = call[d]
  \/ call'[d].of # n
  \/ call'[d].pc \notin Watched
  \/ /\ call'[d].of = call[d].of /\ call'[d].bank = call[d].bank
     /\ call'[d].back = call[d].back /\ call'[d].terms = call[d].terms
     /\ Onward(d)

LEMMA Classes ==
  /\ Joining \cap Carrying = {"forward"}
  /\ Accepting \cap Offering = {} /\ Accepting \cap Joining = {} /\ Offering \cap Joining = {}
  /\ {"link", "drop"} \cap Carrying = {}
  /\ "forward" \notin Accepting
  /\ AcceptLabels \subseteq Accepting /\ Accepting \subseteq Carrying
  /\ Offering \subseteq Carrying /\ "accept" \in AcceptLabels
  /\ "refused" \in Accepting \ AcceptLabels /\ Agreed \subseteq AcceptLabels \ {"accept"}
  /\ BySeller \subseteq AcceptLabels \ {"accept"}
  /\ {"idle", "end", "delete"} \cap Watched = {}
  /\ "deleteUpdate" \notin Carrying \cup Joining
  /\ Joining \subseteq Watched /\ Carrying \subseteq Watched /\ "deleteUpdate" \in Watched
  /\ ExerciseLabels \cap Watched = {}
  BY DEF Watched, Joining, Carrying, Accepting, AcceptLabels, Offering, Agreed, BySeller, ExerciseLabels

LEMMA RowFrame ==
  ASSUME NEW n \in Negotiations, RowInvOf(n),
         \A k \in Banks : row'[k][n] = row[k][n],
         n \in linked' <=> n \in linked, n \in doubted => n \in doubted',
         \A d \in Calls : Calm(d, n)
  PROVE  RowInvOf(n)'
  <1>1. /\ \A k \in Banks : Status(k, n)' = Status(k, n) /\ (HasTurn(k, n)' <=> HasTurn(k, n))
        /\ SameTerms(n)' <=> SameTerms(n)
        /\ row'[Seller][n] = row[Seller][n]
    BY BankFacts DEF Status, HasTurn, SameTerms
  <1>2. ASSUME NEW d \in Calls
        PROVE  /\ Joins(d, n)' => Joins(d, n) /\ call'[d].pc \in {call[d].pc, "drop"}
               /\ Carries(d, n)' => Carries(d, n) /\ (call[d].pc = "forward" => call'[d].pc = "forward")
               /\ call'[d].of = n /\ call'[d].pc = "deleteUpdate" =>
                    call[d].of = n /\ call[d].pc = "deleteUpdate"
    <2>1. CASE call'[d] = call[d]
      BY <2>1 DEF Joins, Carries
    <2>2. CASE call'[d].of # n \/ call'[d].pc \notin Watched
      BY <2>2, Classes DEF Joins, Carries
    <2>3. CASE call'[d].of = call[d].of /\ Onward(d)
      BY <2>3, Classes DEF Onward, Joins, Carries, Joining
    <2> QED BY <2>1, <2>2, <2>3 DEF Calm
  <1>3. Joined(n)'
    BY <1>1, <1>2, BankFacts DEF RowInvOf, Joined
  <1>4. ASSUME n \notin doubted'
        PROVE  OneTurn(n)' /\ SameOffer(n)'
    <2>1. OneTurn(n) /\ SameOffer(n)
      BY <1>4 DEF RowInvOf
    <2>2. OneTurn(n)'
      BY <1>1, <1>2, <2>1, BankFacts DEF OneTurn
    <2>3. ASSUME NEW d \in Calls, Carries(d, n)'
          PROVE  /\ call'[d].bank = call[d].bank
                 /\ call'[d].pc \in Accepting <=> call[d].pc \in Accepting
                 /\ call'[d].pc \in Offering => call[d].pc \in Offering
                 /\ call'[d].terms = call[d].terms /\ call'[d].back = call[d].back
                 /\ call'[d].pc \in Agreed => call[d].pc \in Agreed
                 /\ call'[d].pc \in {"accept", "refused"} <=> call[d].pc \in {"accept", "refused"}
                 /\ call[d].bank = Buyer \/ call[d].pc = call'[d].pc \/ call[d].pc \notin BySeller
                    \/ call'[d].pc \notin Accepting \/ call'[d].pc \in BySeller
      <3>1. CASE call'[d] = call[d]
        BY <3>1
      <3>2. CASE /\ call'[d].of = call[d].of /\ call'[d].bank = call[d].bank
                 /\ call'[d].back = call[d].back /\ call'[d].terms = call[d].terms
                 /\ Onward(d)
        <4>1. call'[d].pc \in Carrying /\ call[d].pc \in Carrying
          BY <2>3, <1>2 DEF Carries
        <4>2. CASE call'[d].pc = call[d].pc
          BY <3>2, <4>2
        <4>3. CASE call'[d].pc \in Offering /\ call[d].pc \in Offering
          BY <3>2, <4>3, Classes
        <4>4. CASE /\ {call[d].pc, call'[d].pc} \subseteq AcceptLabels \ {"accept"}
                   /\ call'[d].pc \in Agreed => call[d].pc \in Agreed
                   /\ call[d].bank = Buyer \/ call'[d].pc \in BySeller \/ call[d].pc \notin BySeller
          BY <3>2, <4>4, Classes
        <4> QED BY <3>2, <4>1, <4>2, <4>3, <4>4, Classes DEF Onward
      <3> QED BY <2>3, <3>1, <3>2, Classes DEF Calm, Carries
    <2>4. ASSUME NEW d \in Calls, call'[d].of = n, call'[d].pc \in Offering \cup Accepting
          PROVE  Carries(d, n)' /\ Carries(d, n) /\ call[d].of = n
      BY <2>4, <1>2, Classes DEF Carries
    <2>5. ASSUME NEW d \in Calls, BuyersCall(d, n), Carries(d, n)'
          PROVE  BuyersCall(d, n)'
      BY <2>5, <2>3, <1>1, BankFacts DEF BuyersCall
    <2>6. Status(Buyer, n)' = "ACCEPTED" =>
            /\ ~HasTurn(Seller, n)'
            /\ \A c \in Calls : Carries(c, n)' => call'[c].bank = Buyer /\ call'[c].pc \in Accepting
      BY <1>1, <1>2, <2>1, <2>3, BankFacts DEF SameOffer
    <2>7. /\ HasTurn(Buyer, n)' /\ Status(Seller, n)' = "PENDING_BUYER" => SameTerms(n)'
          /\ \A c \in Calls : call'[c].of = n /\ call'[c].pc \in Offering /\ call'[c].bank = Seller =>
               row'[Seller][n].terms = call'[c].terms
      BY <1>1, <2>1, <2>3, <2>4, BankFacts DEF SameOffer
    <2>8. \A c \in Calls : call'[c].of = n /\ call'[c].pc \in Accepting =>
            IF call'[c].bank = Buyer THEN BuyersCall(c, n)' ELSE call'[c].pc \in BySeller
      BY <2>1, <2>3, <2>4, <2>5 DEF SameOffer
    <2> QED BY <2>2, <2>6, <2>7, <2>8 DEF SameOffer
  <1> QED BY <1>3, <1>4 DEF RowInvOf

(* A step that writes no row and moves at most one request onward.          *)
RowsStay ==
  /\ row' = row /\ linked' = linked
  /\ doubted \subseteq doubted'

LEMMA RowQuiet ==
  ASSUME RowInv, RowsStay, \A d \in Calls, n \in Negotiations : Calm(d, n)
  PROVE  RowInv'
  <1> SUFFICES ASSUME NEW n \in Negotiations PROVE RowInvOf(n)'
    BY DEF RowInv
  <1>1. RowInvOf(n)
    BY DEF RowInv
  <1> QED BY <1>1, RowFrame DEF RowsStay

LEMMA RowsStayIfCallsDo ==
  ASSUME RowInv, RowsStay, call' = call
  PROVE  RowInv'
  BY RowQuiet DEF Calm

LEMMA ReturnKeepsTurns ==
  ASSUME RequestTypes, RowInv, RowsStay, NEW c \in Calls, Return(c)
  PROVE  RowInv'
  <1>1. \A d \in Calls, n \in Negotiations : Calm(d, n)
    BY ReturnDoes, Classes DEF Calm, Finished
  <1> QED BY <1>1, RowQuiet

LEMMA GoToKeepsTurns ==
  ASSUME RequestTypes, RowInv, RowsStay, NEW c \in Calls, NEW label, GoTo(c, label),
         \/ label \notin Watched
         \/ label \in Offering /\ call[c].pc \in Offering
         \/ label = "drop" /\ call[c].pc \in {"forward", "link"}
         \/ /\ {call[c].pc, label} \subseteq AcceptLabels \ {"accept"}
            /\ label \in Agreed => call[c].pc \in Agreed
            /\ label \in BySeller \/ call[c].pc \notin BySeller
  PROVE  RowInv'
  <1>1. /\ call'[c].pc = label /\ call'[c].of = call[c].of /\ call'[c].bank = call[c].bank
        /\ call'[c].back = call[c].back /\ call'[c].terms = call[c].terms
    BY GoToDoes
  <1>2. ASSUME NEW n \in Negotiations
        PROVE  Calm(c, n)
    <2>1. CASE label \notin Watched
      BY <1>1, <2>1 DEF Calm
    <2>2. CASE label \in Watched
      BY <1>1, <2>2 DEF Calm, Onward
    <2> QED BY <2>1, <2>2
  <1>3. \A d \in Calls, n \in Negotiations : Calm(d, n)
    <2>1. \A d \in Calls \ {c} : call'[d] = call[d]
      BY GoToDoes
    <2> QED BY <1>2, <2>1 DEF Calm
  <1> QED BY <1>3, RowQuiet

(* The request that the step is about, and the others.                     *)
LEMMA RowStep ==
  ASSUME RowInv, NEW n \in Negotiations, RowInvOf(n)', doubted \subseteq doubted',
         \A k \in Banks, m \in Negotiations \ {n} : row'[k][m] = row[k][m],
         \A m \in Negotiations \ {n} : m \in linked' <=> m \in linked,
         \A d \in Calls, m \in Negotiations \ {n} : Calm(d, m)
  PROVE  RowInv'
  <1> SUFFICES ASSUME NEW m \in Negotiations PROVE RowInvOf(m)'
    BY DEF RowInv
  <1>1. CASE m = n
    BY <1>1
  <1>2. CASE m # n
    <2>1. RowInvOf(m)
      BY DEF RowInv
    <2>2. \A k \in Banks : row'[k][m] = row[k][m]
      BY <1>2
    <2>3. m \in linked' <=> m \in linked
      BY <1>2
    <2>4. \A d \in Calls : Calm(d, m)
      BY <1>2
    <2> QED BY <2>1, <2>2, <2>3, <2>4, RowFrame
  <1> QED BY <1>1, <1>2

(* The steps that write no row.                                            *)
LEMMA ExerciseKeepsTurns ==
  ASSUME TypeOK, RowInv, NEW c \in Calls, RunExercise(c)
  PROVE  RowInv'
  <1> USE TypeParts, Classes DEF rowVars, money, stock, counts, marks, dealing
  <1>1. {"prepare", "exCommit", "giveBack", "deliver", "close"} \cap Watched = {}
    BY DEF ExerciseLabels
  <1>2. RowsStay
    BY DEF RunExercise, ReserveFunds, PrepareExercise, PrepareFails, RollbackExercise,
       GiveBack, DebitBuyer, AddShares, MarkExercised, RowsStay
  <1>3. Return(c) \/ \E label \in {"prepare", "exCommit", "giveBack", "deliver", "close"} : GoTo(c, label)
    BY DEF RunExercise, ReserveFunds, PrepareExercise, PrepareFails, RollbackExercise,
       GiveBack, DebitBuyer, AddShares, MarkExercised
  <1> QED BY <1>1, <1>2, <1>3, ReturnKeepsTurns, GoToKeepsTurns

LEMMA CommitKeepsTurns ==
  ASSUME TypeOK, RowInv, NEW c \in Calls, Commit(c)
  PROVE  RowInv'
  <1> USE TypeParts, Classes DEF rowVars, money, stock, counts, marks, dealing
  <1>1. RowsStay
    BY DEF Commit, SendCommit, CommitAnswered, CommitTimesOut, CommitFails, RowsStay
  <1>2. {"debit", "undo", "exCommit"} \cap Watched = {}
    BY DEF ExerciseLabels
  <1>3. /\ {"commit", "committing", "credit"} \subseteq AcceptLabels \ {"accept"}
        /\ {"commit", "committing", "credit"} \subseteq Agreed
        /\ {"commit", "committing", "credit"} \cap BySeller = {}
    BY DEF AcceptLabels, Agreed, BySeller
  <1>4. CASE SendCommit(c)
    <2> DEFINE label == Waiting(call[c].pc)
    <2>1. call' = [call EXCEPT ![c] = [call[c] EXCEPT !.pc = label, !.tries = call[c].tries + 1]]
      BY <1>4 DEF SendCommit
    <2>2. call[c] \in Request
      BY Fields
    <2>3. /\ call'[c].pc = label /\ call'[c].of = call[c].of /\ call'[c].bank = call[c].bank
          /\ call'[c].back = call[c].back /\ call'[c].terms = call[c].terms
          /\ \A d \in Calls \ {c} : call'[d] = call[d]
      BY <2>1, <2>2 DEF RequestTypes, Request
    <2>4. \/ call[c].pc = "commit" /\ label = "committing"
          \/ call[c].pc = "exCommit" /\ label = "exCommitting"
      BY <1>4 DEF SendCommit, CommitLabels, Waiting
    <2>5. "exCommitting" \notin Watched
      BY DEF ExerciseLabels
    <2>6. \A d \in Calls, n \in Negotiations : Calm(d, n)
      BY <1>3, <2>3, <2>4, <2>5 DEF Calm, Onward
    <2> QED BY <1>1, <2>6, RowQuiet
  <1>5. CASE CommitAnswered(c)
    <2>1. CASE At(c, "committing")
      BY <1>1, <1>3, <1>5, <2>1, GoToKeepsTurns DEF CommitAnswered, At
    <2>2. CASE ~At(c, "committing")
      <3>1. \E label \in {"debit", "undo"} : GoTo(c, label)
        BY <1>5, <2>2, Zenon DEF CommitAnswered
      <3> QED BY <1>1, <1>2, <3>1, GoToKeepsTurns
    <2> QED BY <2>1, <2>2
  <1>6. CASE CommitTimesOut(c)
    <2>1. GoTo(c, Sending(call[c].pc)) /\ call[c].pc \in {"committing", "exCommitting"}
      BY <1>6 DEF CommitTimesOut
    <2> QED BY <1>1, <1>2, <1>3, <2>1, GoToKeepsTurns DEF Sending
  <1>7. CASE CommitFails(c)
    <2>1. CASE At(c, "commit")
      BY <1>1, <1>3, <1>7, <2>1, GoToKeepsTurns DEF CommitFails, At
    <2>2. CASE ~At(c, "commit")
      BY <1>1, <1>2, <1>7, <2>2, GoToKeepsTurns DEF CommitFails
    <2> QED BY <2>1, <2>2
  <1> QED BY <1>4, <1>5, <1>6, <1>7 DEF Commit

LEMMA HandlersKeepTurns ==
  ASSUME RowInv, NEW c \in Calls, NEW i \in Handlers, CommitOtcInterbank(c, i)
  PROVE  RowInv'
  <1>1. RowsStay /\ call' = call
    BY DEF CommitOtcInterbank, LoadTx, DebitPremium, CreateBuyerContract, TakeShares,
       CreditStrike, MarkSellerContract, MarkCommitted, StopHandler, RowsStay,
       rowVars, money, stock, counts, marks
  <1> QED BY <1>1, RowsStayIfCallsDo

LEMMA OthersKeepTurns ==
  ASSUME RowInv, \/ Spend \/ SellShare
                 \/ \E n \in Negotiations :
                      SettlementPasses(n) \/ \E k \in Banks : ExpireContract(k, n)
  PROVE  RowInv'
  <1>1. RowsStay /\ call' = call
    BY DEF Spend, SellShare, SettlementPasses, ExpireContract, RowsStay,
       rowVars, money, stock, counts, marks
  <1> QED BY <1>1, RowsStayIfCallsDo

(* The steps that write a row of n.                                        *)
LEMMA RowStepAt ==
  ASSUME RowInv, NEW n \in Negotiations, RowInvOf(n)', doubted \subseteq doubted',
         \A k \in Banks, m \in Negotiations \ {n} : row'[k][m] = row[k][m],
         \A m \in Negotiations \ {n} : m \in linked' <=> m \in linked,
         NEW c \in Calls, call'[c].of = n \/ call'[c].pc \notin Watched,
         \A d \in Calls \ {c} : call'[d] = call[d]
  PROVE  RowInv'
  BY RowStep DEF Calm

LEMMA CreateKeepsTurns ==
  ASSUME TypeOK, RowInv, NEW c \in Calls, NEW n \in Negotiations, NEW t \in Terms,
         CreateNegotiation(c, n, t)
  PROVE  RowInv'
  <1>0. RequestTypes /\ RowTypes /\ Buyer \in Banks /\ Seller \in Banks
    BY TypeParts, BankFacts
  <1> USE BankFacts
  <1>1. /\ row'[Buyer][n].status = "PENDING_SELLER" /\ row'[Buyer][n].terms = t
        /\ \A j \in Banks, m \in Negotiations : j # Buyer \/ m # n => row'[j][m] = row[j][m]
        /\ row[Buyer][n].status = "none" /\ row[Seller][n].status = "none"
    BY <1>0, SetRowDoes, StatusFacts DEF CreateNegotiation
  <1>2. /\ call'[c].pc = "forward" /\ call'[c].of = n
        /\ \A d \in Calls \ {c} : call'[d] = call[d]
    <2>1. "forward" \in Labels /\ Begin(c, Buyer, n, t, "forward")
      BY LabelFacts DEF CreateNegotiation
    <2> QED BY <1>0, <2>1, BeginDoes
  <1>3. linked' = linked /\ doubted' = doubted
    BY DEF CreateNegotiation, dealing, marks
  <1>4. RowInvOf(n)
    BY DEF RowInv
  <1>5. \A d \in Calls \ {c} : ~Joins(d, n)' /\ ~Carries(d, n)'
    <2>1. \A d \in Calls : ~Joins(d, n)
      BY <1>1, <1>4 DEF RowInvOf, Joined, Status
    <2>2. \A d \in Calls : ~Carries(d, n)
      BY Classes, <1>1, <1>4, <2>1 DEF RowInvOf, Joined, Status, Carries, Joins
    <2> QED BY <1>2, <2>1, <2>2 DEF Joins, Carries
  <1>6. Joined(n)'
    BY Classes, <1>1, <1>2, <1>3, <1>4, <1>5 DEF RowInvOf, Joined, Status, HasTurn, Joins, Carries
  <1>7. OneTurn(n)'
    BY Classes, <1>1, <1>2, <1>3, <1>4, <1>5 DEF OneTurn, Status, HasTurn
  <1>8. SameOffer(n)'
    BY Classes, <1>1, <1>2, <1>3, <1>4, <1>5 DEF SameOffer, Status, HasTurn, Carries
  <1>9. RowInvOf(n)'
    BY <1>6, <1>7, <1>8 DEF RowInvOf
  <1> QED BY Classes, <1>1, <1>2, <1>3, <1>9, RowStepAt

LEMMA OpenKeepsTurns ==
  ASSUME TypeOK, RowInv, NEW c \in Calls, CreateInterbankNegotiation(c)
  PROVE  RowInv'
  <1>0. PICK n \in Negotiations : n = call[c].of
    BY TypeParts, Fields
  <1>1. /\ RequestTypes /\ RowTypes /\ Buyer \in Banks /\ Seller \in Banks
        /\ n \in Negotiations /\ RowInvOf(n)
    BY TypeParts, Fields, BankFacts DEF RowInv
  <1>2. call[c].pc = "forward" /\ call[c].of = n
    BY <1>0 DEF CreateInterbankNegotiation, At
  <1>3. /\ call'[c].pc = "link" /\ call'[c].of = n /\ call'[c].bank = call[c].bank
        /\ call'[c].back = call[c].back /\ call'[c].terms = call[c].terms
        /\ \A d \in Calls \ {c} : call'[d] = call[d]
    <2>1. GoTo(c, "link")
      BY DEF CreateInterbankNegotiation
    <2> QED BY <1>0, <1>1, <2>1, GoToDoes
  <1>4. /\ row'[Seller][n].status = "PENDING_SELLER" /\ row'[Seller][n].terms = call[c].terms
        /\ \A j \in Banks, m \in Negotiations : j # Seller \/ m # n => row'[j][m] = row[j][m]
    BY <1>0, <1>1, SetRowDoes, StatusFacts, Fields, SMTT(30) DEF CreateInterbankNegotiation
  <1>5. linked' = linked /\ doubted' = doubted
    BY DEF CreateInterbankNegotiation, rowVars, dealing, marks
  <1>6. /\ \A d \in Calls \ {c} : (Joins(d, n)' <=> Joins(d, n)) /\ (Carries(d, n)' <=> Carries(d, n))
        /\ Joins(c, n) /\ Carries(c, n)
        /\ Joins(c, n)' /\ ~Carries(c, n)'
    BY <1>1, <1>2, <1>3, <1>4, <1>5, Classes DEF Joins, Carries, Joining
  <1>7. Joined(n)'
    BY <1>1, <1>2, <1>3, <1>4, <1>5, <1>6, BankFacts DEF RowInvOf, Joined, Status, HasTurn
  <1>8. n \notin doubted' => OneTurn(n)'
    BY <1>1, <1>2, <1>3, <1>4, <1>5, <1>6, BankFacts DEF RowInvOf, Joined, OneTurn, Status, HasTurn
  <1>9. n \notin doubted' => SameOffer(n)'
    BY <1>1, <1>2, <1>3, <1>4, <1>5, <1>6, Classes, BankFacts DEF RowInvOf, Joined, OneTurn, SameOffer, BuyersCall, Status, HasTurn, SameTerms, Joins, Carries
  <1>10. RowInvOf(n)'
    BY <1>7, <1>8, <1>9 DEF RowInvOf
  <1> QED BY <1>1, <1>2, <1>3, <1>4, <1>5, <1>10, Classes, RowStepAt

LEMMA LinkKeepsTurns ==
  ASSUME TypeOK, RowInv, NEW c \in Calls, StorePartnerId(c)
  PROVE  RowInv'
  <1>0. PICK n \in Negotiations : n = call[c].of
    BY TypeParts, Fields
  <1>1. /\ RequestTypes /\ RowTypes /\ Buyer \in Banks /\ Seller \in Banks
        /\ n \in Negotiations /\ RowInvOf(n)
    BY TypeParts, Fields, BankFacts DEF RowInv
  <1>2. call[c].pc = "link" /\ call[c].of = n
    BY <1>0 DEF StorePartnerId, At
  <1>3. /\ call'[c].pc = "end"
        /\ \A d \in Calls \ {c} : call'[d] = call[d]
    <2>1. Return(c)
      BY DEF StorePartnerId
    <2> QED BY <1>1, <2>1, ReturnDoes DEF Finished
  <1>4. linked' = linked \cup {n} /\ row' = row /\ doubted' = doubted
    BY <1>0 DEF StorePartnerId, dealing, marks
  <1>5. /\ \A d \in Calls \ {c} : (Joins(d, n)' <=> Joins(d, n)) /\ (Carries(d, n)' <=> Carries(d, n))
        /\ Joins(c, n) /\ ~Carries(c, n)
        /\ ~Joins(c, n)' /\ ~Carries(c, n)'
    BY <1>1, <1>2, <1>3, <1>4, Classes DEF Joins, Carries, Joining
  <1>6. Joined(n)'
    BY <1>1, <1>2, <1>3, <1>4, <1>5, BankFacts DEF RowInvOf, Joined, Status, HasTurn
  <1>7. n \notin doubted' => OneTurn(n)'
    BY <1>1, <1>2, <1>3, <1>4, <1>5, BankFacts DEF RowInvOf, Joined, OneTurn, Status, HasTurn
  <1>8. n \notin doubted' => SameOffer(n)'
    BY <1>1, <1>2, <1>3, <1>4, <1>5, Classes, BankFacts DEF RowInvOf, Joined, OneTurn, SameOffer, BuyersCall, Status, HasTurn, SameTerms, Joins, Carries
  <1>9. RowInvOf(n)'
    BY <1>6, <1>7, <1>8 DEF RowInvOf
  <1> QED BY <1>1, <1>2, <1>3, <1>4, <1>9, Classes, RowStepAt

LEMMA DropKeepsTurns ==
  ASSUME TypeOK, RowInv, NEW c \in Calls, DropNegotiation(c)
  PROVE  RowInv'
  <1>0. PICK n \in Negotiations : n = call[c].of
    BY TypeParts, Fields
  <1>1. /\ RequestTypes /\ RowTypes /\ Buyer \in Banks /\ Seller \in Banks
        /\ n \in Negotiations /\ RowInvOf(n)
    BY TypeParts, Fields, BankFacts DEF RowInv
  <1>2. call[c].pc = "drop" /\ call[c].of = n
    BY <1>0 DEF DropNegotiation, At
  <1>3. /\ call'[c].pc = "end"
        /\ \A d \in Calls \ {c} : call'[d] = call[d]
    <2>1. Return(c)
      BY DEF DropNegotiation
    <2> QED BY <1>1, <2>1, ReturnDoes DEF Finished
  <1>4. /\ row'[Buyer][n].status \in {"none", row[Buyer][n].status}
        /\ row' = row \/ row'[Buyer][n].status = "none"
        /\ \A j \in Banks, m \in Negotiations : j # Buyer \/ m # n => row'[j][m] = row[j][m]
    <2>1. CASE SetRow(Buyer, n, "none", AnyTerms)
      BY <1>1, <2>1, SetRowDoes, StatusFacts, Chosen
    <2>2. CASE row' = row
      BY <2>2
    <2> QED BY <1>0, <2>1, <2>2 DEF DropNegotiation
  <1>5. linked' = linked /\ doubted' = doubted
    BY DEF DropNegotiation, rowVars, dealing, marks
  <1>6. /\ \A d \in Calls \ {c} : (Joins(d, n)' <=> Joins(d, n)) /\ (Carries(d, n)' <=> Carries(d, n))
        /\ Joins(c, n) /\ ~Carries(c, n)
        /\ ~Joins(c, n)' /\ ~Carries(c, n)'
    BY <1>1, <1>2, <1>3, <1>4, <1>5, Classes DEF Joins, Carries, Joining
  <1>7. Joined(n)'
    BY <1>1, <1>2, <1>3, <1>4, <1>5, <1>6, BankFacts DEF RowInvOf, Joined, Status, HasTurn
  <1>8. n \notin doubted' => OneTurn(n)'
    BY <1>1, <1>2, <1>3, <1>4, <1>5, <1>6, BankFacts, SMTT(30) DEF RowInvOf, Joined, OneTurn, Status, HasTurn
  <1>9. n \notin doubted' => SameOffer(n)'
    BY <1>1, <1>2, <1>3, <1>4, <1>5, <1>6, Classes, BankFacts DEF RowInvOf, Joined, OneTurn, SameOffer, BuyersCall, Status, HasTurn, SameTerms, Joins, Carries
  <1>10. RowInvOf(n)'
    BY <1>7, <1>8, <1>9 DEF RowInvOf
  <1> QED BY <1>1, <1>2, <1>3, <1>4, <1>5, <1>10, Classes, RowStepAt

LEMMA CounterKeepsTurns ==
  ASSUME TypeOK, RowInv, NEW c \in Calls, NEW k \in Banks, NEW n \in Negotiations, NEW t \in Terms, CounterOffer(c, k, n, t)
  PROVE  RowInv'
  <1>1. /\ RequestTypes /\ RowTypes /\ Buyer \in Banks /\ Seller \in Banks
        /\ n \in Negotiations /\ RowInvOf(n)
    BY TypeParts, Fields, BankFacts DEF RowInv
  <1>2. call[c].pc = "idle" /\ HasTurn(k, n)
    BY DEF CounterOffer, At, HasTurn, Status
  <1>3. /\ call'[c].pc = "put" /\ call'[c].of = n /\ call'[c].bank = k /\ call'[c].terms = t
        /\ \A d \in Calls \ {c} : call'[d] = call[d]
    <2>1. "put" \in Labels /\ t \in Terms /\ Begin(c, k, n, t, "put")
      BY LabelFacts, EntryFields DEF CounterOffer
    <2> QED BY <1>1, <2>1, BeginDoes
  <1>4. /\ row'[k][n].status = Turn(Other(k)) /\ row'[k][n].terms = t
        /\ \A j \in Banks, m \in Negotiations : j # k \/ m # n => row'[j][m] = row[j][m]
    BY <1>1, SetRowDoes, StatusFacts DEF CounterOffer
  <1>5. linked' = linked /\ doubted' = doubted
    BY DEF CounterOffer, rowVars, dealing, marks
  <1>6. /\ \A d \in Calls \ {c} : (Joins(d, n)' <=> Joins(d, n)) /\ (Carries(d, n)' <=> Carries(d, n))
        /\ ~Joins(c, n) /\ ~Carries(c, n)
        /\ ~Joins(c, n)' /\ Carries(c, n)'
    BY <1>1, <1>2, <1>3, <1>4, <1>5, Classes DEF Joins, Carries, Joining, Offering
  <1>7. Joined(n)'
    BY <1>1, <1>2, <1>3, <1>4, <1>5, <1>6, BankFacts DEF RowInvOf, Joined, Status, HasTurn
  <1>8. n \notin doubted' => OneTurn(n)'
    BY <1>1, <1>2, <1>3, <1>4, <1>5, <1>6, BankFacts DEF RowInvOf, Joined, OneTurn, Status, HasTurn
  <1>9. ASSUME n \notin doubted'
         PROVE SameOffer(n)'
    <2> USE BankFacts DEF Status, HasTurn
    <2>1. OneTurn(n) /\ OneTurn(n)' /\ SameOffer(n)
      BY <1>9, <1>1, <1>2, <1>3, <1>4, <1>5, <1>6, <1>8 DEF RowInvOf
    <2>6. \A d \in Calls : call'[d].of = n /\ call'[d].pc \in Carrying => d = c
      BY <1>1, <1>2, <1>3, <1>4, <1>5, <1>6, <2>1 DEF OneTurn, Carries
    <2>7. "put" \in Offering /\ "put" \notin Accepting
      BY Classes DEF Offering
    <2>2. Status(Buyer, n)' = "ACCEPTED" =>
            /\ ~HasTurn(Seller, n)'
            /\ \A d \in Calls : Carries(d, n)' => call'[d].bank = Buyer /\ call'[d].pc \in Accepting
      BY <1>1, <1>2, <1>3, <1>4, <1>5, <1>6, <2>1, <2>6, <2>7 DEF SameOffer, OneTurn
    <2>3. HasTurn(Buyer, n)' /\ Status(Seller, n)' = "PENDING_BUYER" => SameTerms(n)'
      BY <1>1, <1>2, <1>3, <1>4, <1>5, <1>6, <2>1 DEF OneTurn
    <2>4. \A d \in Calls : call'[d].of = n /\ call'[d].pc \in Offering /\ call'[d].bank = Seller =>
            row'[Seller][n].terms = call'[d].terms
      BY <1>1, <1>2, <1>3, <1>4, <1>5, <1>6, <2>6, Classes
    <2>5. \A d \in Calls : call'[d].of = n /\ call'[d].pc \in Accepting =>
            IF call'[d].bank = Buyer THEN BuyersCall(d, n)' ELSE call'[d].pc \in BySeller
      BY <1>1, <1>2, <1>3, <1>4, <1>5, <1>6, <2>6, <2>7, Classes
    <2> QED BY <2>2, <2>3, <2>4, <2>5 DEF SameOffer
  <1>10. RowInvOf(n)'
    BY <1>7, <1>8, <1>9 DEF RowInvOf
  <1> QED BY <1>1, <1>2, <1>3, <1>4, <1>5, <1>10, Classes, RowStepAt

LEMMA RejectKeepsTurns ==
  ASSUME TypeOK, RowInv, NEW c \in Calls, NEW k \in Banks, NEW n \in Negotiations, RejectNegotiation(c, k, n)
  PROVE  RowInv'
  <1>1. /\ RequestTypes /\ RowTypes /\ Buyer \in Banks /\ Seller \in Banks
        /\ n \in Negotiations /\ RowInvOf(n)
    BY TypeParts, Fields, BankFacts DEF RowInv
  <1>2. call[c].pc = "idle" /\ row[k][n].status \in Open
    BY DEF RejectNegotiation, At
  <1>3. /\ call'[c].pc = "delete" /\ call'[c].of = n /\ call'[c].bank = k /\ call'[c].terms = row[k][n].terms
        /\ \A d \in Calls \ {c} : call'[d] = call[d]
    <2>1. "delete" \in Labels /\ row[k][n].terms \in Terms /\ Begin(c, k, n, row[k][n].terms, "delete")
      BY LabelFacts, EntryFields DEF RejectNegotiation
    <2> QED BY <1>1, <2>1, BeginDoes
  <1>4. /\ row'[k][n].status = "REJECTED" /\ row'[k][n].terms = row[k][n].terms
        /\ \A j \in Banks, m \in Negotiations : j # k \/ m # n => row'[j][m] = row[j][m]
    BY <1>1, SetStatusDoes, StatusFacts DEF RejectNegotiation
  <1>5. linked' = linked /\ doubted' = doubted
    BY DEF RejectNegotiation, rowVars, dealing, marks
  <1>6. /\ \A d \in Calls \ {c} : (Joins(d, n)' <=> Joins(d, n)) /\ (Carries(d, n)' <=> Carries(d, n))
        /\ ~Joins(c, n) /\ ~Carries(c, n)
        /\ ~Joins(c, n)' /\ ~Carries(c, n)'
    BY <1>1, <1>2, <1>3, <1>4, <1>5, Classes DEF Joins, Carries, Joining
  <1>7. Joined(n)'
    BY <1>1, <1>2, <1>3, <1>4, <1>5, <1>6, BankFacts DEF RowInvOf, Joined, Status, HasTurn
  <1>8. n \notin doubted' => OneTurn(n)'
    BY <1>1, <1>2, <1>3, <1>4, <1>5, <1>6, BankFacts, SMTT(30) DEF RowInvOf, Joined, OneTurn, Status, HasTurn
  <1>9. n \notin doubted' => SameOffer(n)'
    BY <1>1, <1>2, <1>3, <1>4, <1>5, <1>6, Classes, BankFacts DEF RowInvOf, Joined, OneTurn, SameOffer, BuyersCall, Status, HasTurn, SameTerms, Joins, Carries
  <1>10. RowInvOf(n)'
    BY <1>7, <1>8, <1>9 DEF RowInvOf
  <1> QED BY <1>1, <1>2, <1>3, <1>4, <1>5, <1>10, Classes, RowStepAt

LEMMA CounterThereKeepsTurns ==
  ASSUME TypeOK, RowInv, NEW c \in Calls, InterbankCounterOffer(c)
  PROVE  RowInv'
  <1>0. PICK n \in Negotiations : n = call[c].of
    BY TypeParts, Fields
  <1>1. /\ RequestTypes /\ RowTypes /\ Buyer \in Banks /\ Seller \in Banks
        /\ n \in Negotiations /\ RowInvOf(n)
    BY TypeParts, Fields, BankFacts DEF RowInv
  <1>2. call[c].pc = "putUpdate" /\ call[c].of = n
    BY <1>0 DEF InterbankCounterOffer, At
  <1>3. /\ call'[c].pc = "end"
        /\ \A d \in Calls \ {c} : call'[d] = call[d]
    <2>1. Return(c)
      BY DEF InterbankCounterOffer
    <2> QED BY <1>1, <2>1, ReturnDoes DEF Finished
  <1>4. There(c) \in Banks /\ There(c) = Other(call[c].bank)
    BY <1>1, Fields DEF There
  <1>5. /\ row'[There(c)][n].status = Turn(There(c)) /\ row'[There(c)][n].terms = call[c].terms
        /\ \A j \in Banks, m \in Negotiations : j # There(c) \/ m # n => row'[j][m] = row[j][m]
    BY <1>0, <1>1, SetRowDoes, StatusFacts, Fields DEF InterbankCounterOffer
  <1>6. linked' = linked /\ doubted' = doubted
    BY DEF InterbankCounterOffer, rowVars, dealing, marks
  <1>7. /\ \A d \in Calls \ {c} : (Joins(d, n)' <=> Joins(d, n)) /\ (Carries(d, n)' <=> Carries(d, n))
        /\ ~Joins(c, n) /\ Carries(c, n)
        /\ ~Joins(c, n)' /\ ~Carries(c, n)'
    BY <1>1, <1>2, <1>3, <1>4, <1>5, <1>6, Classes DEF Joins, Carries, Joining, Offering
  <1>8. Joined(n)'
    BY <1>1, <1>2, <1>3, <1>4, <1>5, <1>6, <1>7, BankFacts DEF RowInvOf, Joined, Status, HasTurn
  <1>9. n \notin doubted' => OneTurn(n)'
    BY <1>1, <1>2, <1>3, <1>4, <1>5, <1>6, <1>7, BankFacts DEF RowInvOf, Joined, OneTurn, Status, HasTurn
  <1>10. ASSUME n \notin doubted'
         PROVE SameOffer(n)'
    <2> USE BankFacts DEF Status, HasTurn
    <2>1. OneTurn(n) /\ OneTurn(n)' /\ SameOffer(n)
      BY <1>10, <1>1, <1>2, <1>3, <1>4, <1>5, <1>6, <1>7, <1>9 DEF RowInvOf
    <2>6. \A d \in Calls : ~(call'[d].of = n /\ call'[d].pc \in Carrying)
      BY <1>1, <1>2, <1>3, <1>4, <1>5, <1>6, <1>7, <2>1 DEF OneTurn, Carries
    <2>7. "putUpdate" \in Offering /\ "putUpdate" \notin Accepting
      BY Classes DEF Offering
    <2>8. /\ ~HasTurn(Buyer, n) /\ ~HasTurn(Seller, n) /\ Status(Buyer, n) # "ACCEPTED"
          /\ call[c].bank = Seller => row[Seller][n].terms = call[c].terms
      BY <1>1, <1>2, <1>3, <1>4, <1>5, <1>6, <1>7, <2>1, <2>7 DEF SameOffer, OneTurn
    <2>2. Status(Buyer, n)' = "ACCEPTED" =>
            /\ ~HasTurn(Seller, n)'
            /\ \A d \in Calls : Carries(d, n)' => call'[d].bank = Buyer /\ call'[d].pc \in Accepting
      BY <1>1, <1>2, <1>3, <1>4, <1>5, <1>6, <1>7, <2>8
    <2>3. HasTurn(Buyer, n)' /\ Status(Seller, n)' = "PENDING_BUYER" => SameTerms(n)'
      BY <1>1, <1>2, <1>3, <1>4, <1>5, <1>6, <1>7, <2>8, Fields DEF SameTerms
    <2>4. \A d \in Calls : call'[d].of = n /\ call'[d].pc \in Offering /\ call'[d].bank = Seller =>
            row'[Seller][n].terms = call'[d].terms
      BY <1>1, <1>2, <1>3, <1>4, <1>5, <1>6, <1>7, <2>6, Classes
    <2>5. \A d \in Calls : call'[d].of = n /\ call'[d].pc \in Accepting =>
            IF call'[d].bank = Buyer THEN BuyersCall(d, n)' ELSE call'[d].pc \in BySeller
      BY <1>1, <1>2, <1>3, <1>4, <1>5, <1>6, <1>7, <2>6, Classes
    <2> QED BY <2>2, <2>3, <2>4, <2>5 DEF SameOffer
  <1>11. RowInvOf(n)'
    BY <1>8, <1>9, <1>10 DEF RowInvOf
  <1> QED BY <1>1, <1>2, <1>3, <1>4, <1>5, <1>6, <1>11, Classes, RowStepAt

LEMMA RejectThereKeepsTurns ==
  ASSUME TypeOK, RowInv, NEW c \in Calls, InterbankDeleteNegotiation(c)
  PROVE  RowInv'
  <1>0. PICK n \in Negotiations : n = call[c].of
    BY TypeParts, Fields
  <1>1. /\ RequestTypes /\ RowTypes /\ Buyer \in Banks /\ Seller \in Banks
        /\ n \in Negotiations /\ RowInvOf(n)
    BY TypeParts, Fields, BankFacts DEF RowInv
  <1>2. call[c].pc = "deleteUpdate" /\ call[c].of = n
    BY <1>0 DEF InterbankDeleteNegotiation, At
  <1>3. /\ call'[c].pc = "end"
        /\ \A d \in Calls \ {c} : call'[d] = call[d]
    <2>1. Return(c)
      BY DEF InterbankDeleteNegotiation
    <2> QED BY <1>1, <2>1, ReturnDoes DEF Finished
  <1>4. There(c) \in Banks
    BY <1>1, Fields DEF There
  <1>5. /\ row'[There(c)][n].status = "REJECTED" /\ row'[There(c)][n].terms = row[There(c)][n].terms
        /\ \A j \in Banks, m \in Negotiations : j # There(c) \/ m # n => row'[j][m] = row[j][m]
    BY <1>0, <1>1, SetStatusDoes, StatusFacts, Fields DEF InterbankDeleteNegotiation
  <1>6. linked' = linked /\ doubted' = doubted
    BY DEF InterbankDeleteNegotiation, rowVars, dealing, marks
  <1>7. /\ \A d \in Calls \ {c} : (Joins(d, n)' <=> Joins(d, n)) /\ (Carries(d, n)' <=> Carries(d, n))
        /\ ~Joins(c, n) /\ ~Carries(c, n)
        /\ ~Joins(c, n)' /\ ~Carries(c, n)'
    BY <1>1, <1>2, <1>3, <1>4, <1>5, <1>6, Classes DEF Joins, Carries, Joining
  <1>8. Joined(n)'
    <2>1. CASE There(c) = Buyer
      BY <1>1, <1>2, <1>3, <1>4, <1>5, <1>6, <1>7, <2>1, BankFacts DEF RowInvOf, Joined, Status, HasTurn
    <2>2. CASE There(c) = Seller
      BY <1>1, <1>2, <1>3, <1>4, <1>5, <1>6, <1>7, <2>2, BankFacts DEF RowInvOf, Joined, Status, HasTurn
    <2> QED BY <1>4, <2>1, <2>2, BankFacts
  <1>9. n \notin doubted' => OneTurn(n)'
    BY <1>1, <1>2, <1>3, <1>4, <1>5, <1>6, <1>7, BankFacts, SMTT(30) DEF RowInvOf, Joined, OneTurn, Status, HasTurn
  <1>10. n \notin doubted' => SameOffer(n)'
    BY <1>1, <1>2, <1>3, <1>4, <1>5, <1>6, <1>7, Classes, BankFacts DEF RowInvOf, Joined, OneTurn, SameOffer, BuyersCall, Status, HasTurn, SameTerms, Joins, Carries
  <1>11. RowInvOf(n)'
    BY <1>8, <1>9, <1>10 DEF RowInvOf
  <1> QED BY <1>1, <1>2, <1>3, <1>4, <1>5, <1>6, <1>11, Classes, RowStepAt

LEMMA AcceptKeepsTurns ==
  ASSUME TypeOK, RowInv, NEW c \in Calls, NEW n \in Negotiations, AcceptNegotiation(c, n)
  PROVE  RowInv'
  <1>1. /\ RequestTypes /\ RowTypes /\ Buyer \in Banks /\ Seller \in Banks
        /\ n \in Negotiations /\ RowInvOf(n)
    BY TypeParts, Fields, BankFacts DEF RowInv
  <1>2. call[c].pc = "idle" /\ HasTurn(Buyer, n) /\ n \in linked
    BY BankFacts DEF AcceptNegotiation, At, HasTurn, Status
  <1>3. /\ call'[c].pc = "accept" /\ call'[c].of = n /\ call'[c].bank = Buyer /\ call'[c].back = Turn(Buyer)
        /\ \A d \in Calls \ {c} : call'[d] = call[d]
        /\ row'[Buyer][n].status = "ACCEPTED" /\ row'[Buyer][n].terms = row[Buyer][n].terms
        /\ \A j \in Banks, m \in Negotiations : j # Buyer \/ m # n => row'[j][m] = row[j][m]
    <2>1. Accept(c, Buyer, n)
      BY DEF AcceptNegotiation
    <2> QED BY <1>1, <2>1, AcceptDoes, BankFacts
  <1>4. linked' = linked /\ doubted' = doubted
    BY DEF AcceptNegotiation, rowVars, dealing, marks
  <1>5. /\ \A d \in Calls \ {c} : (Joins(d, n)' <=> Joins(d, n)) /\ (Carries(d, n)' <=> Carries(d, n))
        /\ ~Joins(c, n) /\ ~Carries(c, n)
        /\ ~Joins(c, n)' /\ Carries(c, n)'
    BY <1>1, <1>2, <1>3, <1>4, Classes DEF Joins, Carries, Joining
  <1>6. Joined(n)'
    BY <1>1, <1>2, <1>3, <1>4, <1>5, BankFacts DEF RowInvOf, Joined, Status, HasTurn
  <1>7. n \notin doubted' => OneTurn(n)'
    BY <1>1, <1>2, <1>3, <1>4, <1>5, BankFacts DEF RowInvOf, Joined, OneTurn, Status, HasTurn
  <1>8. n \notin doubted' => SameOffer(n)'
    BY <1>1, <1>2, <1>3, <1>4, <1>5, Classes, BankFacts DEF RowInvOf, Joined, OneTurn, SameOffer, BuyersCall, Status, HasTurn, SameTerms, Joins, Carries
  <1>9. RowInvOf(n)'
    BY <1>6, <1>7, <1>8 DEF RowInvOf
  <1> QED BY <1>1, <1>2, <1>3, <1>4, <1>9, Classes, RowStepAt

LEMMA AcceptBySellerKeepsTurns ==
  ASSUME TypeOK, RowInv, NEW c \in Calls, NEW n \in Negotiations, AcceptBySeller(c, n)
  PROVE  RowInv'
  <1>1. /\ RequestTypes /\ RowTypes /\ Buyer \in Banks /\ Seller \in Banks
        /\ n \in Negotiations /\ RowInvOf(n)
    BY TypeParts, Fields, BankFacts DEF RowInv
  <1>2. call[c].pc = "idle" /\ HasTurn(Seller, n)
    BY BankFacts DEF AcceptBySeller, At, HasTurn, Status
  <1>3. /\ call'[c].pc = "load" /\ call'[c].of = n /\ call'[c].bank = Seller /\ call'[c].back = Turn(Seller)
        /\ \A d \in Calls \ {c} : call'[d] = call[d]
        /\ row'[Seller][n].status = "ACCEPTED" /\ row'[Seller][n].terms = row[Seller][n].terms
        /\ \A j \in Banks, m \in Negotiations : j # Seller \/ m # n => row'[j][m] = row[j][m]
    <2>1. Accept(c, Seller, n)
      BY DEF AcceptBySeller
    <2> QED BY <1>1, <2>1, AcceptDoes, BankFacts
  <1>4. linked' = linked /\ doubted' = doubted
    BY DEF AcceptBySeller, rowVars, dealing, marks
  <1>5. /\ \A d \in Calls \ {c} : (Joins(d, n)' <=> Joins(d, n)) /\ (Carries(d, n)' <=> Carries(d, n))
        /\ ~Joins(c, n) /\ ~Carries(c, n)
        /\ ~Joins(c, n)' /\ Carries(c, n)'
    BY <1>1, <1>2, <1>3, <1>4, Classes DEF Joins, Carries, Joining, AcceptLabels
  <1>6. Joined(n)'
    BY <1>1, <1>2, <1>3, <1>4, <1>5, BankFacts DEF RowInvOf, Joined, Status, HasTurn
  <1>7. n \notin doubted' => OneTurn(n)'
    BY <1>1, <1>2, <1>3, <1>4, <1>5, BankFacts DEF RowInvOf, Joined, OneTurn, Status, HasTurn
  <1>8. ASSUME n \notin doubted'
         PROVE SameOffer(n)'
    <2> USE BankFacts DEF Status, HasTurn
    <2>1. OneTurn(n) /\ OneTurn(n)' /\ SameOffer(n)
      BY <1>8, <1>1, <1>2, <1>3, <1>4, <1>5, <1>7 DEF RowInvOf
    <2>6. \A d \in Calls : call'[d].of = n /\ call'[d].pc \in Carrying => d = c
      BY <1>1, <1>2, <1>3, <1>4, <1>5, <2>1 DEF OneTurn, Carries
    <2>7. "load" \in Accepting /\ "load" \notin Offering /\ "load" \in BySeller
      BY Classes DEF AcceptLabels, BySeller
    <2>2. Status(Buyer, n)' = "ACCEPTED" =>
            /\ ~HasTurn(Seller, n)'
            /\ \A d \in Calls : Carries(d, n)' => call'[d].bank = Buyer /\ call'[d].pc \in Accepting
      BY <1>1, <1>2, <1>3, <1>4, <1>5, <2>1 DEF SameOffer, OneTurn
    <2>3. HasTurn(Buyer, n)' /\ Status(Seller, n)' = "PENDING_BUYER" => SameTerms(n)'
      BY <1>1, <1>2, <1>3, <1>4, <1>5, <2>1 DEF OneTurn
    <2>4. \A d \in Calls : call'[d].of = n /\ call'[d].pc \in Offering /\ call'[d].bank = Seller =>
            row'[Seller][n].terms = call'[d].terms
      BY <1>1, <1>2, <1>3, <1>4, <1>5, <2>6, <2>7, Classes
    <2>5. \A d \in Calls : call'[d].of = n /\ call'[d].pc \in Accepting =>
            IF call'[d].bank = Buyer THEN BuyersCall(d, n)' ELSE call'[d].pc \in BySeller
      BY <1>1, <1>2, <1>3, <1>4, <1>5, <2>6, <2>7, Classes
    <2> QED BY <2>2, <2>3, <2>4, <2>5 DEF SameOffer
  <1>9. RowInvOf(n)'
    BY <1>6, <1>7, <1>8 DEF RowInvOf
  <1> QED BY <1>1, <1>2, <1>3, <1>4, <1>9, Classes, RowStepAt

LEMMA RevertAtBuyerKeepsTurns ==
  ASSUME TypeOK, RowInv, NEW c \in Calls, RevertAtBuyer(c)
  PROVE  RowInv'
  <1>0. PICK n \in Negotiations : n = call[c].of
    BY TypeParts, Fields
  <1>1. /\ RequestTypes /\ RowTypes /\ Buyer \in Banks /\ Seller \in Banks
        /\ n \in Negotiations /\ RowInvOf(n)
    BY TypeParts, Fields, BankFacts DEF RowInv
  <1>2. call[c].pc = "refused" /\ call[c].of = n
    BY <1>0 DEF RevertAtBuyer, At
  <1>3. /\ call'[c].pc = "end"
        /\ \A d \in Calls \ {c} : call'[d] = call[d]
    <2>1. Return(c)
      BY DEF RevertAtBuyer
    <2> QED BY <1>1, <2>1, ReturnDoes DEF Finished
  <1>4. /\ row'[Buyer][n].status = "PENDING_BUYER" /\ row'[Buyer][n].terms = row[Buyer][n].terms
        /\ \A j \in Banks, m \in Negotiations : j # Buyer \/ m # n => row'[j][m] = row[j][m]
    BY <1>0, <1>1, SetStatusDoes, StatusFacts DEF RevertAtBuyer
  <1>5. linked' = linked /\ doubted' = doubted
    BY DEF RevertAtBuyer, rowVars, dealing, marks
  <1>6. /\ \A d \in Calls \ {c} : (Joins(d, n)' <=> Joins(d, n)) /\ (Carries(d, n)' <=> Carries(d, n))
        /\ ~Joins(c, n) /\ Carries(c, n)
        /\ ~Joins(c, n)' /\ ~Carries(c, n)'
    BY <1>1, <1>2, <1>3, <1>4, <1>5, Classes DEF Joins, Carries, Joining
  <1>7. Joined(n)'
    BY <1>1, <1>2, <1>3, <1>4, <1>5, <1>6, BankFacts DEF RowInvOf, Joined, Status, HasTurn
  <1>8. n \notin doubted' => OneTurn(n)'
    BY <1>1, <1>2, <1>3, <1>4, <1>5, <1>6, BankFacts DEF RowInvOf, Joined, OneTurn, Status, HasTurn
  <1>9. n \notin doubted' => SameOffer(n)'
    BY <1>1, <1>2, <1>3, <1>4, <1>5, <1>6, Classes, BankFacts DEF RowInvOf, Joined, OneTurn, SameOffer, BuyersCall, Status, HasTurn, SameTerms, Joins, Carries
  <1>10. RowInvOf(n)'
    BY <1>7, <1>8, <1>9 DEF RowInvOf
  <1> QED BY <1>1, <1>2, <1>3, <1>4, <1>5, <1>10, Classes, RowStepAt


(* The buyer's bank stops waiting, or the context of the call is over.      *)
LEMMA GiveUpKeepsTurns ==
  ASSUME TypeOK, RowInv, NEW c \in Calls, GiveUp(c)
  PROVE  RowInv'
  <1>0. PICK n \in Negotiations : n = call[c].of
    BY TypeParts, Fields
  <1>1. /\ RequestTypes /\ RowTypes /\ MarkTypes /\ Buyer \in Banks /\ Seller \in Banks
        /\ RowInvOf(n)
    BY TypeParts, Fields, BankFacts DEF RowInv
  <1>2. call[c].pc \in AcceptLabels /\ call[c].bank = Buyer
    BY DEF GiveUp, Asks
  <1>3. /\ row'[Buyer][n].status = "PENDING_BUYER" /\ row'[Buyer][n].terms = row[Buyer][n].terms
        /\ \A j \in Banks, m \in Negotiations : j # Buyer \/ m # n => row'[j][m] = row[j][m]
    BY <1>0, <1>1, SetStatusDoes, StatusFacts DEF GiveUp
  <1>4. linked' = linked
    BY DEF GiveUp
  <1>5. CASE At(c, "accept") /\ Return(c) /\ UNCHANGED doubted
    <2>1. /\ call'[c].pc = "end" /\ call[c].pc = "accept"
          /\ \A d \in Calls \ {c} : call'[d] = call[d]
      BY <1>1, <1>5, ReturnDoes DEF Finished, At
    <2>2. /\ \A d \in Calls \ {c} : (Joins(d, n)' <=> Joins(d, n)) /\ (Carries(d, n)' <=> Carries(d, n))
          /\ ~Joins(c, n) /\ Carries(c, n)
          /\ ~Joins(c, n)' /\ ~Carries(c, n)'
      BY <1>0, <1>2, <2>1, Classes DEF Joins, Carries, Joining
    <2>3. Joined(n)'
      BY <1>0, <1>1, <1>2, <1>3, <1>4, <2>1, <2>2, Classes, BankFacts DEF RowInvOf, Joined, Status, HasTurn
    <2>4. n \notin doubted' => OneTurn(n)'
      BY <1>0, <1>1, <1>3, <1>5, <2>1, <2>2, BankFacts DEF RowInvOf, OneTurn, Status, HasTurn
    <2>5. ASSUME n \notin doubted'
          PROVE  SameOffer(n)'
      <3>1. OneTurn(n) /\ SameOffer(n)
        BY <1>1, <1>5, <2>5 DEF RowInvOf
      <3>2. \A d \in Calls : ~(call'[d].of = n /\ call'[d].pc \in Carrying)
        BY <2>1, <2>2, <3>1 DEF OneTurn, Carries
      <3>3. BuyersCall(c, n)
        BY <1>0, <1>2, <3>1, Classes DEF SameOffer
      <3>4. HasTurn(Buyer, n)' /\ Status(Seller, n)' = "PENDING_BUYER" => SameTerms(n)'
        BY <1>1, <1>3, <3>3, BankFacts DEF BuyersCall, SameTerms, Status
      <3>5. Status(Buyer, n)' = "PENDING_BUYER"
        BY <1>3 DEF Status
      <3> QED BY <3>2, <3>4, <3>5, Classes DEF SameOffer, Carries
    <2>6. RowInvOf(n)'
      BY <2>3, <2>4, <2>5 DEF RowInvOf
    <2> QED BY <1>1, <1>3, <1>4, <1>5, <2>1, <2>6, Classes, RowStepAt
  <1>6. CASE /\ call' = [call EXCEPT ![c].waits = FALSE]
             /\ doubted' = doubted \cup {call[c].of}
    <2>1. /\ call'[c].pc = call[c].pc /\ call'[c].of = n
          /\ \A d \in Calls \ {c} : call'[d] = call[d]
      BY <1>0, <1>1, <1>6, SMTT(30) DEF RequestTypes, Request
    <2>2. Joined(n)'
      <3>1. \A d \in Calls : (Joins(d, n)' <=> Joins(d, n)) /\ (Carries(d, n)' <=> Carries(d, n))
        BY <1>0, <2>1 DEF Joins, Carries
      <3>2. ~Joins(c, n) /\ Carries(c, n) /\ call[c].pc # "forward"
        BY <1>0, <1>2, Classes DEF Joins, Carries
      <3>3. Status(Seller, n) # "none" /\ Status(Seller, n)' = Status(Seller, n)
        BY <1>1, <1>3, <3>2, BankFacts DEF RowInvOf, Joined, Status
      <3> QED BY <1>0, <1>1, <1>3, <1>4, <2>1, <3>1, <3>2, <3>3, BankFacts
          DEF RowInvOf, Joined, Status, HasTurn
    <2>3. RowInvOf(n)'
      BY <1>0, <1>6, <2>2 DEF RowInvOf
    <2> QED BY <1>1, <1>3, <1>4, <1>6, <2>1, <2>3, RowStepAt
  <1> QED BY <1>5, <1>6 DEF GiveUp

LEMMA CancelKeepsTurns ==
  ASSUME TypeOK, RowInv, NEW c \in Calls, Cancel(c)
  PROVE  RowInv'
  <1>1. RowsStay /\ RequestTypes
    BY TypeParts DEF Cancel, RowsStay, rowVars
  <1>2. call' = [call EXCEPT ![c].alive = FALSE]
    BY DEF Cancel
  <1>3. /\ call'[c].pc = call[c].pc /\ call'[c].of = call[c].of /\ call'[c].bank = call[c].bank
        /\ call'[c].back = call[c].back /\ call'[c].terms = call[c].terms
        /\ \A d \in Calls \ {c} : call'[d] = call[d]
    BY <1>1, <1>2 DEF RequestTypes, Request
  <1>4. \A d \in Calls, n \in Negotiations : Calm(d, n)
    BY <1>3 DEF Calm, Onward
  <1> QED BY <1>1, <1>4, RowQuiet

LEMMA LookupKeepsTurns ==
  ASSUME TypeOK, RowInv, NEW c \in Calls, LookupInterbankNegotiation(c)
  PROVE  RowInv'
  <1>1. RowsStay /\ RequestTypes
    BY TypeParts DEF LookupInterbankNegotiation, RowsStay, rowVars, marks
  <1>2. CASE Return(c)
    BY <1>1, <1>2, ReturnKeepsTurns
  <1>3. CASE At(c, "put") /\ GoTo(c, "putUpdate")
    <2>1. "put" \in Offering /\ "putUpdate" \in Offering
      BY DEF Offering
    <2> QED BY <1>1, <1>3, <2>1, GoToKeepsTurns DEF At
  <1>4. CASE At(c, "delete") /\ call[c].of \in linked /\ GoTo(c, "deleteUpdate")
    <2>1. PICK n \in Negotiations : n = call[c].of
      BY <1>1, Fields
    <2>2. /\ call[c].pc = "delete" /\ call'[c].pc = "deleteUpdate" /\ call'[c].of = n
          /\ \A d \in Calls \ {c} : call'[d] = call[d]
      BY <1>1, <1>4, <2>1, GoToDoes DEF At
    <2>3. \A d \in Calls : (Joins(d, n)' <=> Joins(d, n)) /\ (Carries(d, n)' <=> Carries(d, n))
      <3>1. {"delete", "deleteUpdate"} \cap (Carrying \cup Joining) = {}
        BY Classes
      <3> QED BY <2>1, <2>2, <3>1 DEF Joins, Carries
    <2>4. RowInvOf(n)
      BY DEF RowInv
    <2>5. ~Joins(c, n) /\ ~Carries(c, n)
      BY <2>1, <2>2, Classes DEF Joins, Carries
    <2>6. Joined(n)'
      BY <1>1, <1>4, <2>1, <2>2, <2>3, <2>4, <2>5, BankFacts
      DEF RowInvOf, Joined, Status, HasTurn, RowsStay
    <2>7. ASSUME n \notin doubted'
          PROVE  OneTurn(n)' /\ SameOffer(n)'
      <3>1. OneTurn(n) /\ SameOffer(n)
        BY <1>1, <2>4, <2>7 DEF RowInvOf, RowsStay
      <3>2. OneTurn(n)'
        BY <1>1, <2>3, <3>1, BankFacts DEF OneTurn, Status, HasTurn, RowsStay
      <3>3. \A d \in Calls : call'[d].pc \in Offering \cup Accepting => d # c /\ call'[d] = call[d]
        BY <2>2, Classes
      <3>4. \A d \in Calls : BuyersCall(d, n) /\ call'[d] = call[d] => BuyersCall(d, n)'
        BY <1>1 DEF BuyersCall, SameTerms, Status, RowsStay
      <3>5. SameOffer(n)'
        BY <1>1, <2>2, <2>3, <2>5, <3>1, <3>3, <3>4, BankFacts DEF SameOffer, Status, HasTurn, SameTerms, RowsStay
      <3> QED BY <3>2, <3>5
    <2>8. RowInvOf(n)'
      BY <2>6, <2>7 DEF RowInvOf
    <2> QED BY <1>1, <2>2, <2>8, RowStepAt DEF RowsStay
  <1> QED BY <1>2, <1>3, <1>4 DEF LookupInterbankNegotiation

(* Of two acceptances of one offer that nobody doubts there is only one.    *)
LEMMA OneCarrier ==
  ASSUME NEW n \in Negotiations, OneTurn(n), NEW c \in Calls, Carries(c, n),
         call'[c].of = n, \A d \in Calls \ {c} : call'[d] = call[d]
  PROVE  /\ ~HasTurn(Buyer, n) /\ ~HasTurn(Seller, n)
         /\ \A d \in Calls : call'[d].of = n /\ call'[d].pc \in Carrying => d = c
         /\ \A d \in Calls : call[d].of = n /\ call[d].pc \in Carrying => d = c
  BY DEF OneTurn, Carries

LEMMA AcceptThereKeepsTurns ==
  ASSUME TypeOK, RowInv, NEW c \in Calls, InterbankAcceptNegotiation(c)
  PROVE  RowInv'
  <1>0. PICK n \in Negotiations : n = call[c].of
    BY TypeParts, Fields
  <1>1. /\ RequestTypes /\ RowTypes /\ Buyer \in Banks /\ Seller \in Banks
        /\ RowInvOf(n)
    BY TypeParts, Fields, BankFacts DEF RowInv
  <1>2. call[c].pc = "accept" /\ linked' = linked /\ doubted' = doubted
    BY DEF InterbankAcceptNegotiation, At, marks
  <1>3. /\ Carries(c, n) /\ ~Joins(c, n)
        /\ call[c].pc \in AcceptLabels /\ call[c].pc \in Accepting /\ call[c].pc \notin BySeller
    BY <1>0, <1>2, Classes DEF Carries, Joins, BySeller
  <1>4. CASE Status(Seller, n) = "PENDING_BUYER" /\ SetStatus(Seller, n, "ACCEPTED") /\ GoTo(c, "load")
    <2>1. /\ call'[c].pc = "load" /\ call'[c].of = n /\ call'[c].bank = call[c].bank
          /\ call'[c].back = call[c].back /\ call'[c].terms = call[c].terms
          /\ \A d \in Calls \ {c} : call'[d] = call[d]
      BY <1>0, <1>1, <1>4, GoToDoes
    <2>2. /\ row'[Seller][n].status = "ACCEPTED" /\ row'[Seller][n].terms = row[Seller][n].terms
          /\ \A j \in Banks, m \in Negotiations : j # Seller \/ m # n => row'[j][m] = row[j][m]
      BY <1>1, <1>4, SetStatusDoes, StatusFacts
    <2>3. "load" \in Carrying /\ "load" \notin Watched \ Carrying /\ "load" \in Accepting /\ "load" \notin Agreed
          /\ "load" \notin Offering
      BY Classes DEF AcceptLabels, Agreed, Watched, Joining
    <2>4. /\ \A d \in Calls : (Joins(d, n)' <=> Joins(d, n)) /\ (Carries(d, n)' <=> Carries(d, n))
          /\ ~Joins(c, n)'
      BY <1>0, <1>2, <1>3, <2>1, <2>3, Classes DEF Joins, Carries
    <2>5. Joined(n)'
      BY <1>1, <1>2, <1>3, <1>4, <2>1, <2>2, <2>4, BankFacts DEF RowInvOf, Joined, Status, HasTurn
    <2>6. ASSUME n \notin doubted'
          PROVE  OneTurn(n)' /\ SameOffer(n)'
      <3>1. OneTurn(n) /\ SameOffer(n)
        BY <1>1, <1>2, <2>6 DEF RowInvOf
      <3>2. /\ ~HasTurn(Buyer, n) /\ ~HasTurn(Seller, n)
            /\ \A d \in Calls : call'[d].of = n /\ call'[d].pc \in Carrying => d = c
        BY <1>3, <2>1, <3>1, OneCarrier
      <3>3. call[c].bank = Buyer /\ BuyersCall(c, n)
        BY <1>0, <1>3, <3>1 DEF SameOffer
      <3>4. BuyersCall(c, n)'
        BY <1>1, <1>2, <1>4, <2>1, <2>2, <2>3, <3>3, BankFacts DEF BuyersCall, SameTerms, Status
      <3>5. OneTurn(n)'
        BY <1>1, <2>2, <3>2, BankFacts DEF OneTurn, Status, HasTurn, Carries
      <3>6. ~HasTurn(Seller, n)' /\ ~HasTurn(Buyer, n)'
        BY <1>1, <2>2, <3>2, BankFacts DEF Status, HasTurn
      <3> QED BY <2>1, <2>3, <3>2, <3>3, <3>4, <3>5, <3>6, Classes DEF SameOffer, Carries
    <2>7. RowInvOf(n)'
      BY <2>5, <2>6 DEF RowInvOf
    <2> QED BY <1>1, <1>2, <2>1, <2>2, <2>7, RowStepAt
  <1>5. CASE Return(c) /\ row' = row
    BY <1>1, <1>2, <1>5, ReturnKeepsTurns DEF RowsStay
  <1>6. CASE GoTo(c, "refused") /\ row' = row
    <2>1. /\ call'[c].pc = "refused" /\ call'[c].of = n /\ call'[c].bank = call[c].bank
          /\ call'[c].back = call[c].back /\ call'[c].terms = call[c].terms
          /\ \A d \in Calls \ {c} : call'[d] = call[d]
      BY <1>0, <1>1, <1>6, GoToDoes
    <2>2. /\ \A d \in Calls : (Joins(d, n)' <=> Joins(d, n)) /\ (Carries(d, n)' <=> Carries(d, n))
          /\ ~Joins(c, n)'
      BY <1>0, <1>2, <1>3, <2>1, Classes DEF Joins, Carries
    <2>3. Joined(n)'
      BY <1>1, <1>2, <1>3, <1>6, <2>1, <2>2, BankFacts DEF RowInvOf, Joined, Status, HasTurn
    <2>4. ASSUME n \notin doubted'
          PROVE  OneTurn(n)' /\ SameOffer(n)'
      <3>1. OneTurn(n) /\ SameOffer(n)
        BY <1>1, <1>2, <2>4 DEF RowInvOf
      <3>2. /\ ~HasTurn(Buyer, n) /\ ~HasTurn(Seller, n)
            /\ \A d \in Calls : call'[d].of = n /\ call'[d].pc \in Carrying => d = c
        BY <1>3, <2>1, <3>1, OneCarrier
      <3>3. call[c].bank = Buyer /\ BuyersCall(c, n)
        BY <1>0, <1>3, <3>1 DEF SameOffer
      <3>4. BuyersCall(c, n)'
        BY <1>2, <1>6, <2>1, <3>3, Classes DEF BuyersCall, SameTerms, Status
      <3>5. ~HasTurn(Seller, n)' /\ ~HasTurn(Buyer, n)'
        BY <1>6, <3>2 DEF Status, HasTurn
      <3>6. OneTurn(n)'
        BY <3>2, <3>5 DEF OneTurn, Carries
      <3> QED BY <2>1, <3>2, <3>3, <3>4, <3>5, <3>6, Classes DEF SameOffer, Carries
    <2>5. RowInvOf(n)'
      BY <2>3, <2>4 DEF RowInvOf
    <2> QED BY <1>1, <1>2, <1>6, <2>1, <2>5, RowStepAt
  <1> QED BY <1>0, <1>4, <1>5, <1>6 DEF InterbankAcceptNegotiation, Status

LEMMA LoadKeepsTurns ==
  ASSUME TypeOK, RowInv, NEW c \in Calls, LoadNegotiation(c)
  PROVE  RowInv'
  <1>0. PICK n \in Negotiations : n = call[c].of
    BY TypeParts, Fields
  <1>1. /\ RequestTypes /\ RowTypes /\ Buyer \in Banks /\ Seller \in Banks
        /\ RowInvOf(n) /\ RowsStay
    BY TypeParts, Fields, BankFacts DEF RowInv, LoadNegotiation, RowsStay, rowVars, marks
  <1>2. /\ call[c].pc = "load" /\ call[c] \in Request /\ row[Seller][n].terms \in Terms
        /\ {"load", "newTx", "revert"} \subseteq AcceptLabels \ {"accept"}
        /\ "newTx" \in BySeller /\ "revert" \in BySeller /\ "revert" \notin Agreed
    BY <1>1, Fields, EntryFields DEF LoadNegotiation, At, AcceptLabels, BySeller, Agreed
  <1>3. CASE GoTo(c, "revert")
    BY <1>1, <1>2, <1>3, GoToKeepsTurns
  <1>4. CASE call' = [call EXCEPT ![c] = [@ EXCEPT
               !.pc = "newTx", !.terms = row[Seller][call[c].of].terms]]
    <2>1. /\ call'[c].pc = "newTx" /\ call'[c].of = n /\ call'[c].bank = call[c].bank
          /\ call'[c].back = call[c].back /\ call'[c].terms = row[Seller][n].terms
          /\ \A d \in Calls \ {c} : call'[d] = call[d]
      BY <1>0, <1>1, <1>2, <1>4 DEF RequestTypes, Request
    <2>2. /\ Carries(c, n) /\ ~Joins(c, n)
          /\ \A d \in Calls : (Joins(d, n)' <=> Joins(d, n)) /\ (Carries(d, n)' <=> Carries(d, n))
          /\ ~Joins(c, n)'
      BY <1>0, <1>2, <2>1, Classes DEF Joins, Carries
    <2>3. Joined(n)'
      BY <1>1, <1>2, <2>1, <2>2, BankFacts DEF RowInvOf, Joined, Status, HasTurn, RowsStay
    <2>4. ASSUME n \notin doubted'
          PROVE  OneTurn(n)' /\ SameOffer(n)'
      <3>1. OneTurn(n) /\ SameOffer(n)
        BY <1>1, <2>4 DEF RowInvOf, RowsStay
      <3>2. /\ ~HasTurn(Buyer, n) /\ ~HasTurn(Seller, n)
            /\ \A d \in Calls : call'[d].of = n /\ call'[d].pc \in Carrying => d = c
        BY <2>1, <2>2, <3>1, OneCarrier
      <3>3. call[c].bank = Buyer => BuyersCall(c, n) /\ BuyersCall(c, n)'
        <4>1. call[c].bank = Buyer => BuyersCall(c, n)
          BY <1>0, <1>2, <3>1, Classes DEF SameOffer
        <4> QED BY <1>1, <1>2, <2>1, <4>1 DEF BuyersCall, SameTerms, Status, RowsStay
      <3>4. ~HasTurn(Seller, n)' /\ ~HasTurn(Buyer, n)'
        BY <1>1, <3>2 DEF Status, HasTurn, RowsStay
      <3>5. OneTurn(n)'
        BY <3>2, <3>4 DEF OneTurn, Carries
      <3>6. Status(Buyer, n)' = "ACCEPTED" => call[c].bank = Buyer
        BY <1>1, <2>2, <3>1 DEF SameOffer, Status, RowsStay
      <3> QED BY <1>2, <2>1, <3>2, <3>3, <3>4, <3>5, <3>6, Classes DEF SameOffer, Carries
    <2>5. RowInvOf(n)'
      BY <2>3, <2>4 DEF RowInvOf
    <2> QED BY <1>1, <2>1, <2>5, RowStepAt DEF RowsStay
  <1> QED BY <1>3, <1>4 DEF LoadNegotiation

LEMMA PrepareKeepsTurns ==
  ASSUME TypeOK, RowInv, NEW c \in Calls, PrepareAccept(c)
  PROVE  RowInv'
  <1>0. PICK n \in Negotiations : n = call[c].of
    BY TypeParts, Fields
  <1>1. /\ RequestTypes /\ RowTypes /\ Buyer \in Banks /\ Seller \in Banks
        /\ RowInvOf(n) /\ RowsStay
    BY TypeParts, Fields, BankFacts DEF RowInv, PrepareAccept, RowsStay, rowVars, marks
  <1>2. /\ call[c].pc = "newTx"
        /\ {"newTx", "reserve", "rollback"} \subseteq AcceptLabels \ {"accept"}
        /\ "newTx" \in Agreed /\ "reserve" \in Agreed
        /\ "rollback" \in BySeller /\ "rollback" \notin Agreed
    BY DEF PrepareAccept, At, AcceptLabels, BySeller, Agreed
  <1>3. CASE GoTo(c, "rollback")
    BY <1>1, <1>2, <1>3, GoToKeepsTurns
  <1>4. CASE MayAccept(n) /\ GoTo(c, "reserve")
    <2>1. /\ call'[c].pc = "reserve" /\ call'[c].of = n /\ call'[c].bank = call[c].bank
          /\ call'[c].back = call[c].back /\ call'[c].terms = call[c].terms
          /\ \A d \in Calls \ {c} : call'[d] = call[d]
      BY <1>0, <1>1, <1>4, GoToDoes
    <2>2. Carries(c, n) /\ ~Joins(c, n)
      BY <1>0, <1>2, Classes DEF Carries, Joins
    <2>3. Joined(n)'
      <3>1. /\ \A d \in Calls : (Joins(d, n)' <=> Joins(d, n)) /\ (Carries(d, n)' <=> Carries(d, n))
            /\ ~Joins(c, n)'
        BY <1>0, <1>2, <2>1, Classes DEF Joins, Carries
      <3> QED BY <1>1, <1>2, <2>1, <2>2, <3>1, BankFacts DEF RowInvOf, Joined, Status, HasTurn, RowsStay
    <2>4. n \notin doubted => call[c].bank = Buyer
      BY <1>1, <1>4, <2>2 DEF MayAccept, RowInvOf, SameOffer, Status
    <2>5. RowInvOf(n)'
      <3>1. CASE n \in doubted
        BY <1>1, <2>3, <3>1 DEF RowInvOf, RowsStay
      <3>2. CASE n \notin doubted
        <4>1. \A d \in Calls : Calm(d, n)
          BY <1>0, <1>2, <2>1, <2>4, <3>2 DEF Calm, Onward
        <4> QED BY <1>1, <4>1, RowFrame DEF RowsStay
      <3> QED BY <3>1, <3>2
    <2> QED BY <1>1, <2>1, <2>5, RowStepAt DEF RowsStay
  <1> QED BY <1>0, <1>3, <1>4 DEF PrepareAccept

LEMMA RevertKeepsTurns ==
  ASSUME TypeOK, RowInv, NEW c \in Calls, RevertAccept(c)
  PROVE  RowInv'
  <1>0. PICK n \in Negotiations : n = call[c].of
    BY TypeParts, Fields
  <1>1. /\ RequestTypes /\ RowTypes /\ Buyer \in Banks /\ Seller \in Banks
        /\ RowInvOf(n) /\ linked' = linked /\ doubted' = doubted
    BY TypeParts, Fields, BankFacts DEF RowInv, RevertAccept, marks
  <1>2. /\ call[c].pc = "revert" /\ call[c].back \in Open /\ call[c].back \in Statuses
        /\ "revert" \in AcceptLabels /\ "revert" \in Accepting
    BY <1>1, Fields DEF RevertAccept, At, Statuses, AcceptLabels, Accepting
  <1>3. /\ row'[Seller][n].status = call[c].back /\ row'[Seller][n].terms = row[Seller][n].terms
        /\ \A j \in Banks, m \in Negotiations : j # Seller \/ m # n => row'[j][m] = row[j][m]
    BY <1>0, <1>1, <1>2, SetStatusDoes DEF RevertAccept
  <1>4. Carries(c, n) /\ ~Joins(c, n)
    BY <1>0, <1>2, Classes DEF Carries, Joins
  <1>5. /\ call[c].back # "none"
        /\ \A d \in Calls : Carries(d, n) /\ call[d].pc # "forward" => Status(Seller, n) # "none"
        /\ Status(Seller, n) # "none" /\ Status(Seller, n)' = call[c].back
        /\ Status(Buyer, n)' = Status(Buyer, n)
    BY <1>1, <1>2, <1>3, <1>4, BankFacts DEF RowInvOf, Joined, Status
  <1>6. CASE Asks(c) /\ GoTo(c, "refused")
    <2>1. /\ call'[c].pc = "refused" /\ call'[c].of = n /\ call'[c].bank = Buyer
          /\ call[c].bank = Buyer
          /\ call'[c].back = call[c].back /\ call'[c].terms = call[c].terms
          /\ \A d \in Calls \ {c} : call'[d] = call[d]
      BY <1>0, <1>1, <1>6, GoToDoes DEF Asks
    <2>2. /\ \A d \in Calls : (Joins(d, n)' <=> Joins(d, n)) /\ (Carries(d, n)' <=> Carries(d, n))
          /\ ~Joins(c, n)'
      BY <1>0, <1>2, <1>4, <2>1, Classes DEF Joins, Carries
    <2>3. Joined(n)'
      BY <1>1, <1>2, <1>4, <1>5, <2>1, <2>2, BankFacts DEF RowInvOf, Joined, HasTurn
    <2>4. ASSUME n \notin doubted'
          PROVE  OneTurn(n)' /\ SameOffer(n)'
      <3>1. OneTurn(n) /\ SameOffer(n)
        BY <1>1, <2>4 DEF RowInvOf
      <3>2. /\ ~HasTurn(Buyer, n) /\ ~HasTurn(Seller, n)
            /\ \A d \in Calls : call'[d].of = n /\ call'[d].pc \in Carrying => d = c
        BY <1>4, <2>1, <3>1, OneCarrier
      <3>3. BuyersCall(c, n)
        BY <1>0, <1>2, <2>1, <3>1 DEF SameOffer
      <3>4. BuyersCall(c, n)'
        BY <1>1, <1>2, <1>3, <2>1, <3>3, BankFacts, Classes DEF BuyersCall, SameTerms, Status
      <3>5. ~HasTurn(Seller, n)' /\ ~HasTurn(Buyer, n)'
        BY <1>5, <3>2, <3>3, BankFacts DEF HasTurn, BuyersCall
      <3>6. OneTurn(n)'
        BY <3>2, <3>5 DEF OneTurn, Carries
      <3> QED BY <2>1, <3>2, <3>4, <3>5, <3>6, Classes DEF SameOffer, Carries
    <2>5. RowInvOf(n)'
      BY <2>3, <2>4 DEF RowInvOf
    <2> QED BY <1>1, <1>3, <2>1, <2>5, RowStepAt
  <1>7. CASE Return(c)
    <2>1. /\ call'[c].pc = "end"
          /\ \A d \in Calls \ {c} : call'[d] = call[d]
      BY <1>1, <1>7, ReturnDoes DEF Finished
    <2>2. /\ \A d \in Calls \ {c} : (Joins(d, n)' <=> Joins(d, n)) /\ (Carries(d, n)' <=> Carries(d, n))
          /\ ~Joins(c, n)' /\ ~Carries(c, n)'
      BY <2>1, Classes DEF Joins, Carries
    <2>3. Joined(n)'
      BY <1>1, <1>2, <1>4, <1>5, <2>1, <2>2, BankFacts DEF RowInvOf, Joined, HasTurn
    <2>4. ASSUME n \notin doubted'
          PROVE  OneTurn(n)' /\ SameOffer(n)'
      <3>1. OneTurn(n) /\ SameOffer(n)
        BY <1>1, <2>4 DEF RowInvOf
      <3>2. /\ ~HasTurn(Buyer, n)
            /\ \A d \in Calls : ~(call'[d].of = n /\ call'[d].pc \in Carrying)
        BY <1>4, <2>1, <2>2, <3>1 DEF OneTurn, Carries
      <3>3. ~HasTurn(Buyer, n)'
        BY <1>5, <3>2 DEF HasTurn
      <3>4. OneTurn(n)'
        BY <3>2, <3>3 DEF OneTurn, Carries
      <3>5. Status(Buyer, n)' = "ACCEPTED" => ~HasTurn(Seller, n)'
        <4>1. ASSUME Status(Buyer, n) = "ACCEPTED"
              PROVE  call[c].back = "PENDING_BUYER"
          BY <1>0, <1>2, <1>4, <3>1, <4>1 DEF SameOffer, BuyersCall
        <4> QED BY <1>5, <4>1, BankFacts DEF HasTurn
      <3> QED BY <3>2, <3>3, <3>4, <3>5, Classes DEF SameOffer, Carries
    <2>5. RowInvOf(n)'
      BY <2>3, <2>4 DEF RowInvOf
    <2> QED BY <1>1, <1>3, <2>1, <2>5, Classes, RowStepAt
  <1> QED BY <1>6, <1>7 DEF RevertAccept

LEMMA CrashKeepsTurns ==
  ASSUME TypeOK, RowInv, NEW k \in Banks, Crash(k)
  PROVE  RowInv'
  <1> SUFFICES ASSUME NEW n \in Negotiations PROVE RowInvOf(n)'
    BY DEF RowInv
  <1>1. RequestTypes /\ RowsStay /\ RowInvOf(n) /\ MarkTypes
    BY TypeParts DEF RowInv, Crash, RowsStay, rowVars
  <1>2. ASSUME NEW d \in Calls
        PROVE  \/ call'[d] = call[d]
               \/ call'[d].pc = "end"
               \/ /\ call'[d].of = call[d].of /\ call'[d].pc \in {"refused", call[d].pc}
                  /\ call[d].pc \in AcceptLabels
                  /\ call[d].of \in doubted'
    <2>1. call'[d] = AfterCrash(d, k) /\ call[d] \in Request
      BY <1>1, Fields DEF Crash
    <2>2. SellerRuns(d) => call[d].pc \in AcceptLabels /\ call[d].of \in doubted'
      BY DEF Crash, SellerRuns
    <2>3. CASE k = Seller /\ SellerRuns(d)
      BY <2>1, <2>2, <2>3 DEF AfterCrash, Finished, Request
    <2>4. CASE ~(k = Seller /\ SellerRuns(d))
      BY <2>1, <2>2, <2>4 DEF AfterCrash, Finished, Request
    <2> QED BY <2>3, <2>4
  <1>3. ASSUME n \notin doubted'
        PROVE  RowInvOf(n)'
    <2>1. \A d \in Calls : Calm(d, n)
      BY <1>2, <1>3, Classes DEF Calm
    <2> QED BY <1>1, <2>1, RowFrame DEF RowsStay
  <1>4. Joined(n)'
    <2>1. ASSUME NEW d \in Calls
          PROVE  /\ Joins(d, n)' => Joins(d, n) /\ call'[d].pc = call[d].pc
                 /\ Carries(d, n)' /\ call'[d].pc # "forward" => Carries(d, n) /\ call[d].pc # "forward"
                 /\ call'[d].of = n /\ call'[d].pc = "deleteUpdate" =>
                      call[d].of = n /\ call[d].pc = "deleteUpdate"
      BY <1>2, Classes DEF Joins, Carries
    <2> QED BY <1>1, <2>1 DEF RowInvOf, Joined, Status, HasTurn, RowsStay
  <1> QED BY <1>3, <1>4 DEF RowInvOf

(* The statements of an acceptance that write no row. *)
LEMMA QuietAcceptance ==
  ASSUME TypeOK, RowInv, NEW c \in Calls,
         \/ ForwardFails(c) \/ RequestLost(c) \/ NewTxFails(c) \/ ReserveShares(c)
         \/ RollbackAccept(c) \/ InsertContract(c) \/ CreditSeller(c)
  PROVE  RowInv'
  <1>1. RequestTypes /\ RowsStay
    BY TypeParts DEF ForwardFails, RequestLost, NewTxFails, ReserveShares, RollbackAccept,
       InsertContract, CreditSeller, RowsStay, rowVars, marks
  <1>2. /\ {"newTx", "reserve", "contract", "commit", "credit", "rollback", "revert"}
             \subseteq AcceptLabels \ {"accept"}
        /\ {"reserve", "contract", "commit"} \subseteq Agreed
        /\ {"reserve", "contract", "commit"} \cap BySeller = {}
        /\ {"rollback", "revert"} \subseteq BySeller /\ {"rollback", "revert"} \cap Agreed = {}
    BY DEF AcceptLabels, Agreed, BySeller
  <1>3. CASE ForwardFails(c)
    BY <1>1, <1>3, GoToKeepsTurns DEF ForwardFails
  <1>4. CASE RequestLost(c) \/ CreditSeller(c)
    BY <1>1, <1>4, ReturnKeepsTurns DEF RequestLost, CreditSeller
  <1>5. CASE NewTxFails(c) \/ RollbackAccept(c)
    BY <1>1, <1>2, <1>5, GoToKeepsTurns DEF NewTxFails, RollbackAccept, At
  <1>6. CASE ReserveShares(c)
    BY <1>1, <1>2, <1>6, GoToKeepsTurns DEF ReserveShares, At
  <1>7. CASE InsertContract(c)
    BY <1>1, <1>2, <1>7, GoToKeepsTurns DEF InsertContract, At
  <1> QED BY <1>3, <1>4, <1>5, <1>6, <1>7

LEMMA BeginExerciseKeepsTurns ==
  ASSUME TypeOK, RowInv, NEW c \in Calls, NEW n \in Negotiations, ExerciseContract(c, n)
  PROVE  RowInv'
  <1>1. RequestTypes /\ RowsStay /\ contract[Buyer][n].terms \in Terms /\ Buyer \in Banks
    BY TypeParts, EntryFields, BankFacts DEF ExerciseContract, RowsStay, rowVars, marks
  <1>2. "pay" \in Labels /\ Begin(c, Buyer, n, contract[Buyer][n].terms, "pay")
    BY LabelFacts DEF ExerciseContract
  <1>3. call'[c].pc = "pay" /\ \A d \in Calls \ {c} : call'[d] = call[d]
    BY <1>1, <1>2, BeginDoes
  <1>4. "pay" \notin Watched
    BY Classes DEF ExerciseLabels
  <1>5. \A d \in Calls, m \in Negotiations : Calm(d, m)
    BY <1>3, <1>4 DEF Calm
  <1> QED BY <1>1, <1>5, RowQuiet

LEMMA RowInit ==
  Init => RowInv
  <1> SUFFICES ASSUME Init, NEW n \in Negotiations PROVE RowInvOf(n)
    BY DEF RowInv
  <1>1. PICK first \in [Negotiations -> Opened] :
          /\ row = [k \in Banks |-> [m \in Negotiations |-> [Absent EXCEPT !.status = first[m]]]]
          /\ linked = {m \in Negotiations : first[m] # "none"}
    BY DEF Init
  <1>2. /\ row[Buyer][n].status = first[n] /\ row[Seller][n].status = first[n]
        /\ row[Buyer][n].terms = row[Seller][n].terms
        /\ n \in linked <=> first[n] # "none"
        /\ first[n] \in {"none", "PENDING_BUYER"}
    BY <1>1, BankFacts, NumbersAssumption DEF Absent
  <1>3. \A c \in Calls : call[c].pc = "idle"
    BY DEF Init, Finished
  <1>4. \A c \in Calls : ~Joins(c, n) /\ ~Carries(c, n) /\ call[c].pc \notin Watched
    BY <1>3, Classes DEF Joins, Carries
  <1>5. Joined(n)
    BY <1>2, <1>3, <1>4, BankFacts DEF Joined, Status, HasTurn
  <1>6. OneTurn(n) /\ SameOffer(n)
    BY <1>2, <1>3, <1>4, BankFacts, Classes DEF OneTurn, SameOffer, Status, HasTurn, SameTerms, Carries
  <1> QED BY <1>5, <1>6 DEF RowInvOf

LEMMA RowInvStep ==
  TypeOK /\ RowInv /\ [Next]_vars => RowInv'
  <1> SUFFICES ASSUME TypeOK, RowInv, [Next]_vars PROVE RowInv'
    OBVIOUS
  <1>1. ASSUME NEW c \in Calls, NEW n \in Negotiations, Offer(c, n)
        PROVE  RowInv'
    BY <1>1, CreateKeepsTurns, CounterKeepsTurns, RejectKeepsTurns, AcceptKeepsTurns,
       AcceptBySellerKeepsTurns, BeginExerciseKeepsTurns DEF Offer
  <1>2. ASSUME NEW c \in Calls, Forward(c)
        PROVE  RowInv'
    BY <1>2, OpenKeepsTurns, QuietAcceptance, LinkKeepsTurns, DropKeepsTurns,
       LookupKeepsTurns, CounterThereKeepsTurns, RejectThereKeepsTurns DEF Forward
  <1>3. ASSUME NEW c \in Calls, RunAcceptance(c)
        PROVE  RowInv'
    BY <1>3, GiveUpKeepsTurns, CancelKeepsTurns, AcceptThereKeepsTurns, LoadKeepsTurns,
       PrepareKeepsTurns, QuietAcceptance, RevertKeepsTurns, RevertAtBuyerKeepsTurns
    DEF RunAcceptance
  <1>4. ASSUME NEW c \in Calls, NEW i \in 1..MaxTries, CommitOtcInterbank(c, i)
        PROVE  RowInv'
    BY <1>4, HandlersKeepTurns DEF Handlers
  <1>5. CASE UNCHANGED vars
    BY <1>5, RowsStayIfCallsDo DEF vars, rowVars, marks, RowsStay
  <1> QED BY <1>1, <1>2, <1>3, <1>4, <1>5, ExerciseKeepsTurns, CommitKeepsTurns,
             OthersKeepTurns, CrashKeepsTurns DEF Next
-----------------------------------------------------------------------------
(* The vote of a call and the handlers of its COMMIT_TX.  Unless a call was *)
(* repeated or its caller stopped waiting, one handler works for it at a    *)
(* time, and only while the call waits for it.                              *)
Early == {"idle", "accept", "load", "newTx", "pay", "prepare"}
Sent == {"commit", "committing", "credit", "exCommit", "exCommitting", "undo",
         "giveBack", "debit", "deliver", "close", "refused", "end"}
Answering == {"committing", "exCommitting"}
Running(c, i) == attempt[c][i].pc \notin {"none", "done"}
Voted(c) == tx[c].status # "none"
NoneSent(c) == call[c].tries = 0 /\ \A i \in Handlers : attempt[c][i].pc = "none"

VoteInv(c) ==
  /\ call[c].pc \in Early => ~Voted(c)
  /\ call[c].pc # "end" /\ Voted(c) =>
       /\ tx[c].of = call[c].of
       /\ call[c].pc \in Accepting \cup ExerciseLabels
       /\ tx[c].type = IF call[c].pc \in Accepting THEN "ACCEPT" ELSE "EXERCISE"
SentInv(c) ==
  /\ call[c].pc \notin Sent => NoneSent(c)
  /\ call[c].pc \in CommitLabels => NoneSent(c) \/ call[c].of \in repeated
  /\ call[c].pc \in Answering =>
       /\ call[c].tries \in Handlers
       /\ \/ call[c].of \in repeated
          \/ call[c].tries = 1 /\ \A i \in Handlers \ {1} : attempt[c][i].pc = "none"
HandlerInv(c) ==
  \A i \in Handlers :
    /\ attempt[c][i].pc \notin {"none", "load", "done"} => Voted(c)
    /\ attempt[c][i].pc \in {"debit", "insert"} => tx[c].type = "ACCEPT"
    /\ attempt[c][i].pc \in {"shares", "strike", "exercised"} => tx[c].type = "EXERCISE"
    /\ Running(c, i) /\ Voted(c) /\ tx[c].of \notin doubted \cup repeated =>
         call[c].pc \in Answering /\ call[c].tries = 1 /\ i = 1
CallInv(c) == VoteInv(c) /\ SentInv(c) /\ HandlerInv(c)
TxInv == \A c \in Calls : CallInv(c)

MarksGrow == doubted \subseteq doubted' /\ repeated \subseteq repeated'

(* What a call may do without touching its vote or its handlers.           *)
Moves(a, b) ==
  \/ a = b
  \/ /\ a \notin Answering \cup {"end"} /\ b \notin Answering
     /\ b \in Early => a \in Early
     /\ b \notin Sent => a \notin Sent
     /\ b \in CommitLabels => a \notin Sent
     /\ a \in Accepting \ Early => b \in Accepting \cup {"end"}
     /\ a \in ExerciseLabels \ Early => b \in ExerciseLabels \cup {"end"}

LEMMA MoveKeepsCall ==
  ASSUME NEW c \in Calls, CallInv(c), MarksGrow,
         tx'[c].of = tx[c].of, tx'[c].type = tx[c].type, Voted(c)' <=> Voted(c),
         attempt'[c] = attempt[c], Moves(call[c].pc, call'[c].pc),
         call'[c].of = call[c].of \/ call'[c].pc = "end" \/ call[c].pc = "idle",
         call'[c].tries = call[c].tries \/ call'[c].pc = "end"
  PROVE  CallInv(c)'
  <1>1. VoteInv(c)'
    <2>1. CASE call'[c].pc = "end" \/ ~Voted(c)
      BY <2>1 DEF VoteInv, Early
    <2>2. CASE call'[c].pc # "end" /\ Voted(c)
      <3>1. call[c].pc # "end" /\ call[c].pc \notin Early
        BY <2>2 DEF CallInv, VoteInv, Moves
      <3>2. call'[c].of = call[c].of
        BY <2>2, <3>1 DEF Early
      <3>3. /\ call'[c].pc \in Accepting \cup ExerciseLabels
            /\ call'[c].pc \in Accepting <=> call[c].pc \in Accepting
            /\ call'[c].pc \notin Early
        BY <2>2, <3>1, Classes DEF CallInv, VoteInv, Moves, Watched, Carrying
      <3> QED BY <2>2, <3>1, <3>2, <3>3 DEF CallInv, VoteInv
    <2> QED BY <2>1, <2>2
  <1>2. SentInv(c)'
    <2>1. CASE call'[c].pc = "end"
      BY <2>1 DEF SentInv, Sent, CommitLabels, Answering
    <2>2. CASE call'[c].pc # "end" /\ call'[c].pc = call[c].pc
      <3>1. call[c].of = call'[c].of \/ call[c].pc = "idle"
        BY <2>2
      <3> QED BY <2>2, <3>1 DEF CallInv, SentInv, NoneSent, MarksGrow, CommitLabels, Answering
    <2>3. CASE call'[c].pc # "end" /\ call'[c].pc # call[c].pc
      BY <2>3 DEF CallInv, SentInv, NoneSent, Moves, MarksGrow, CommitLabels, Answering, Sent
    <2> QED BY <2>1, <2>2, <2>3
  <1>3. HandlerInv(c)'
    <2>1. call[c].pc \in Answering => call'[c].pc = call[c].pc /\ call'[c].tries = call[c].tries
      BY DEF Moves, Answering
    <2> QED BY <2>1 DEF CallInv, HandlerInv, Running, MarksGrow
  <1> QED BY <1>1, <1>2, <1>3 DEF CallInv

(* The other calls of the step.                                            *)
LEMMA TxStep ==
  ASSUME TxInv, MarksGrow, NEW c \in Calls, CallInv(c)',
         \A d \in Calls \ {c} : call'[d] = call[d],
         \A d \in Calls \ {c} : tx'[d] = tx[d],
         \A d \in Calls \ {c} : attempt'[d] = attempt[d]
  PROVE  TxInv'
  <1> SUFFICES ASSUME NEW d \in Calls, d # c PROVE CallInv(d)'
    BY DEF TxInv
  <1>1. CallInv(d)
    BY DEF TxInv
  <1>2. call'[d] = call[d] /\ tx'[d] = tx[d] /\ attempt'[d] = attempt[d]
    OBVIOUS
  <1>3. Moves(call[d].pc, call'[d].pc) /\ (Voted(d)' <=> Voted(d))
    BY <1>2 DEF Moves, Voted
  <1> QED BY <1>1, <1>2, <1>3, MoveKeepsCall

LEMMA CallMoves ==
  ASSUME TxInv, MarksGrow, tx' = tx, attempt' = attempt, NEW c \in Calls,
         \A d \in Calls \ {c} : call'[d] = call[d],
         Moves(call[c].pc, call'[c].pc),
         call'[c].of = call[c].of \/ call'[c].pc = "end" \/ call[c].pc = "idle",
         call'[c].tries = call[c].tries \/ call'[c].pc = "end"
  PROVE  TxInv'
  <1>1. CallInv(c)
    BY DEF TxInv
  <1>2. Voted(c)' <=> Voted(c)
    BY DEF Voted
  <1>3. CallInv(c)'
    BY <1>1, <1>2, MoveKeepsCall
  <1> QED BY <1>3, TxStep

LEMMA GoToKeepsVotes ==
  ASSUME RequestTypes, TxInv, MarksGrow, tx' = tx, attempt' = attempt, NEW c \in Calls,
         NEW label, GoTo(c, label), Moves(call[c].pc, label)
  PROVE  TxInv'
  BY GoToDoes, CallMoves

LEMMA ReturnKeepsVotes ==
  ASSUME RequestTypes, TxInv, MarksGrow, tx' = tx, attempt' = attempt, NEW c \in Calls,
         Return(c), call[c].pc \notin Answering
  PROVE  TxInv'
  <1>1. call'[c].pc = "end" /\ \A d \in Calls \ {c} : call'[d] = call[d]
    BY ReturnDoes DEF Finished
  <1>2. Moves(call[c].pc, call'[c].pc)
    BY <1>1 DEF Moves, Early, Sent, CommitLabels, Answering
  <1> QED BY <1>1, <1>2, CallMoves

LEMMA StillVotes ==
  ASSUME TxInv, MarksGrow, tx' = tx, attempt' = attempt, call' = call
  PROVE  TxInv'
  <1> SUFFICES ASSUME NEW c \in Calls PROVE CallInv(c)'
    BY DEF TxInv
  <1>1. CallInv(c) /\ Moves(call[c].pc, call'[c].pc) /\ (Voted(c)' <=> Voted(c))
    BY DEF TxInv, Moves, Voted
  <1> QED BY <1>1, MoveKeepsCall


LEMMA OfferKeepsVotes ==
  ASSUME TypeOK, TxInv, NEW c \in Calls, NEW n \in Negotiations, Offer(c, n)
  PROVE  TxInv'
  <1>1. RequestTypes /\ RowTypes /\ MarksGrow /\ tx' = tx /\ attempt' = attempt
    BY TypeParts DEF Offer, CreateNegotiation, CounterOffer, RejectNegotiation,
       AcceptNegotiation, AcceptBySeller, ExerciseContract, MarksGrow, dealing, marks
  <1>2. call[c].pc = "idle"
    BY DEF Offer, CreateNegotiation, CounterOffer, RejectNegotiation,
       AcceptNegotiation, AcceptBySeller, ExerciseContract, At
  <1>3. \A label \in {"forward", "put", "delete", "pay", "accept", "load"} : Moves("idle", label)
    BY DEF Moves, Answering, Early, Sent, CommitLabels, Accepting, AcceptLabels, ExerciseLabels
  <1>4. ASSUME NEW k \in Banks, NEW t \in Terms,
               NEW label \in {"forward", "put", "delete", "pay"}, Begin(c, k, n, t, label)
        PROVE  TxInv'
    <2>1. label \in Labels
      BY LabelFacts
    <2>2. /\ call'[c].pc = label /\ call'[c].tries = call[c].tries
          /\ \A d \in Calls \ {c} : call'[d] = call[d]
      BY <1>1, <1>4, <2>1, BeginDoes
    <2> QED BY <1>1, <1>2, <1>3, <2>2, CallMoves
  <1>5. ASSUME NEW k \in Banks, Accept(c, k, n)
        PROVE  TxInv'
    <2>1. /\ call'[c].pc \in {"accept", "load"} /\ call'[c].tries = call[c].tries
          /\ \A d \in Calls \ {c} : call'[d] = call[d]
      BY <1>1, <1>5, AcceptDoes
    <2> QED BY <1>1, <1>2, <1>3, <2>1, CallMoves
  <1>6. /\ Buyer \in Banks /\ Seller \in Banks /\ contract[Buyer][n].terms \in Terms
        /\ \A k \in Banks : row[k][n].terms \in Terms
    BY BankFacts, EntryFields
  <1> QED BY <1>4, <1>5, <1>6 DEF Offer, CreateNegotiation, CounterOffer, RejectNegotiation,
             AcceptNegotiation, AcceptBySeller, ExerciseContract

LEMMA ForwardKeepsVotes ==
  ASSUME TypeOK, TxInv, NEW c \in Calls, Forward(c)
  PROVE  TxInv'
  <1>1. RequestTypes /\ MarksGrow /\ tx' = tx /\ attempt' = attempt
    BY TypeParts DEF Forward, CreateInterbankNegotiation, ForwardFails, StorePartnerId,
       DropNegotiation, LookupInterbankNegotiation, RequestLost, InterbankCounterOffer,
       InterbankDeleteNegotiation, MarksGrow, dealing, marks
  <1>2. /\ Moves("forward", "link") /\ Moves("forward", "drop") /\ Moves("link", "drop")
        /\ Moves("put", "putUpdate") /\ Moves("delete", "deleteUpdate")
    BY DEF Moves, Answering, Early, Sent, CommitLabels, Accepting, AcceptLabels, ExerciseLabels
  <1>3. \/ Return(c) /\ call[c].pc \notin Answering
        \/ \E label \in {"link", "drop", "putUpdate", "deleteUpdate"} :
             GoTo(c, label) /\ Moves(call[c].pc, label)
    BY <1>2 DEF Forward, CreateInterbankNegotiation, ForwardFails, StorePartnerId,
       DropNegotiation, LookupInterbankNegotiation, RequestLost, InterbankCounterOffer,
       InterbankDeleteNegotiation, At, Answering
  <1> QED BY <1>1, <1>3, ReturnKeepsVotes, GoToKeepsVotes

LEMMA OthersKeepVotes ==
  ASSUME TxInv, \/ Spend \/ SellShare
                \/ \E n \in Negotiations :
                     SettlementPasses(n) \/ \E k \in Banks : ExpireContract(k, n)
                \/ UNCHANGED vars
  PROVE  TxInv'
  <1>1. MarksGrow /\ tx' = tx /\ attempt' = attempt /\ call' = call
    BY DEF Spend, SellShare, SettlementPasses, ExpireContract, MarksGrow, vars, marks
  <1> QED BY <1>1, StillVotes

LEMMA AcceptanceKeepsVotes ==
  ASSUME TypeOK, TxInv, NEW c \in Calls, RunAcceptance(c)
  PROVE  TxInv'
  <1>1. RequestTypes /\ MarksGrow /\ attempt' = attempt
    BY TypeParts DEF RunAcceptance, GiveUp, Cancel, InterbankAcceptNegotiation, LoadNegotiation,
       PrepareAccept, NewTxFails, ReserveShares, RollbackAccept, InsertContract, CreditSeller,
       RevertAccept, RevertAtBuyer, MarksGrow, dealing, marks
  <1>2. call[c] \in Request /\ CallInv(c) /\ call[c].of \in Negotiations
    BY <1>1, Fields DEF TxInv
  <1>3. CASE GiveUp(c) \/ Cancel(c)
    <2>1. tx' = tx
      BY <1>3 DEF GiveUp, Cancel, dealing
    <2>2. CASE At(c, "accept") /\ Return(c)
      BY <1>1, <2>1, <2>2, ReturnKeepsVotes DEF At, Answering
    <2>3. CASE \/ call' = [call EXCEPT ![c].waits = FALSE]
               \/ call' = [call EXCEPT ![c].alive = FALSE]
      <3>1. /\ call'[c].pc = call[c].pc /\ call'[c].of = call[c].of /\ call'[c].tries = call[c].tries
            /\ \A d \in Calls \ {c} : call'[d] = call[d]
        BY <1>1, <1>2, <2>3 DEF RequestTypes, Request
      <3>2. Moves(call[c].pc, call'[c].pc)
        BY <3>1 DEF Moves
      <3> QED BY <1>1, <2>1, <3>1, <3>2, CallMoves
    <2> QED BY <1>3, <2>2, <2>3 DEF GiveUp, Cancel
  <1>4. CASE PrepareAccept(c)
    <2>1. call[c].pc = "newTx" /\ ~Voted(c) /\ NoneSent(c)
      BY <1>2, <1>4 DEF PrepareAccept, At, CallInv, VoteInv, SentInv, Early, Sent
    <2>2. CASE GoTo(c, "rollback") /\ tx' = tx
      <3>1. Moves("newTx", "rollback")
        BY DEF Moves, Answering, Early, Sent, CommitLabels, Accepting, AcceptLabels, ExerciseLabels
      <3> QED BY <1>1, <2>1, <2>2, <3>1, GoToKeepsVotes
    <2>3. CASE Vote(c, "ACCEPT", call[c].of, 1) /\ GoTo(c, "reserve")
      <3>1. /\ call'[c].pc = "reserve" /\ call'[c].of = call[c].of /\ call'[c].tries = call[c].tries
            /\ \A d \in Calls \ {c} : call'[d] = call[d]
        BY <1>1, <2>3, GoToDoes
      <3>2. /\ \/ tx'[c].type = "ACCEPT" /\ tx'[c].of = call[c].of
               \/ tx'[c] = tx[c]
            /\ \A d \in Calls \ {c} : tx'[d] = tx[d]
        BY <1>2, <2>3, TypeParts, VoteDoes
      <3>3. "reserve" \in Accepting /\ "reserve" \notin Early \cup Sent \cup CommitLabels \cup Answering
        BY DEF Accepting, AcceptLabels, Early, Sent, CommitLabels, Answering
      <3>4. VoteInv(c)' /\ SentInv(c)'
        BY <1>1, <2>1, <3>1, <3>2, <3>3 DEF VoteInv, SentInv, NoneSent, Voted
      <3>5. HandlerInv(c)'
        BY <1>1, <2>1 DEF HandlerInv, Running, NoneSent
      <3> QED BY <1>1, <3>1, <3>2, <3>4, <3>5, TxStep DEF CallInv
    <2> QED BY <1>4, <2>2, <2>3 DEF PrepareAccept
  <1>5. CASE RollbackAccept(c)
    <2>1. /\ call[c].pc = "rollback"
          /\ call'[c].pc = "revert" /\ call'[c].of = call[c].of /\ call'[c].tries = call[c].tries
          /\ \A d \in Calls \ {c} : call'[d] = call[d]
      BY <1>1, <1>5, GoToDoes DEF RollbackAccept, At
    <2>2. /\ tx'[c].of = tx[c].of /\ tx'[c].type = tx[c].type /\ (Voted(c)' <=> Voted(c))
          /\ \A d \in Calls \ {c} : tx'[d] = tx[d]
      <3>1. CASE RollBack(c)
        BY <3>1, TypeParts, RollBackDoes DEF Voted
      <3>2. CASE tx' = tx
        BY <3>2 DEF Voted
      <3> QED BY <1>5, <3>1, <3>2 DEF RollbackAccept
    <2>3. Moves("rollback", "revert")
      BY DEF Moves, Answering, Early, Sent, CommitLabels, Accepting, AcceptLabels, ExerciseLabels
    <2>4. CallInv(c)'
      BY <1>1, <1>2, <2>1, <2>2, <2>3, MoveKeepsCall
    <2> QED BY <1>1, <2>1, <2>2, <2>4, TxStep
  <1>6. CASE LoadNegotiation(c)
    <2>1. tx' = tx /\ call[c].pc = "load" /\ row[Seller][call[c].of].terms \in Terms
      BY <1>2, <1>6, EntryFields, BankFacts DEF LoadNegotiation, At, dealing
    <2>2. Moves("load", "revert") /\ Moves("load", "newTx")
      BY DEF Moves, Answering, Early, Sent, CommitLabels, Accepting, AcceptLabels, ExerciseLabels
    <2>3. CASE GoTo(c, "revert")
      BY <1>1, <2>1, <2>2, <2>3, GoToKeepsVotes
    <2>4. CASE call' = [call EXCEPT ![c] = [@ EXCEPT
                 !.pc = "newTx", !.terms = row[Seller][call[c].of].terms]]
      <3>1. /\ call'[c].pc = "newTx" /\ call'[c].of = call[c].of /\ call'[c].tries = call[c].tries
            /\ \A d \in Calls \ {c} : call'[d] = call[d]
        BY <1>1, <1>2, <2>4 DEF RequestTypes, Request
      <3> QED BY <1>1, <2>1, <2>2, <3>1, CallMoves
    <2> QED BY <1>6, <2>3, <2>4 DEF LoadNegotiation
  <1>7. CASE \/ InterbankAcceptNegotiation(c) \/ NewTxFails(c) \/ ReserveShares(c)
             \/ InsertContract(c) \/ CreditSeller(c) \/ RevertAccept(c) \/ RevertAtBuyer(c)
    <2>1. tx' = tx
      BY <1>7 DEF InterbankAcceptNegotiation, NewTxFails, ReserveShares, InsertContract,
         CreditSeller, RevertAccept, RevertAtBuyer, dealing
    <2>2. /\ Moves("accept", "load") /\ Moves("accept", "refused") /\ Moves("newTx", "revert")
          /\ Moves("reserve", "contract") /\ Moves("reserve", "rollback")
          /\ Moves("contract", "commit") /\ Moves("revert", "refused")
      BY DEF Moves, Answering, Early, Sent, CommitLabels, Accepting, AcceptLabels, ExerciseLabels
    <2>3. \/ Return(c) /\ call[c].pc \notin Answering
          \/ \E label \in {"load", "refused", "revert", "contract", "rollback", "commit"} :
               GoTo(c, label) /\ Moves(call[c].pc, label)
      BY <1>7, <2>2 DEF InterbankAcceptNegotiation, NewTxFails, ReserveShares, InsertContract,
         CreditSeller, RevertAccept, RevertAtBuyer, At, Answering
    <2> QED BY <1>1, <2>1, <2>3, ReturnKeepsVotes, GoToKeepsVotes
  <1> QED BY <1>3, <1>4, <1>5, <1>6, <1>7 DEF RunAcceptance

LEMMA ExerciseKeepsVotes ==
  ASSUME TypeOK, TxInv, NEW c \in Calls, RunExercise(c)
  PROVE  TxInv'
  <1>1. RequestTypes /\ MarksGrow /\ attempt' = attempt
    BY TypeParts DEF RunExercise, ReserveFunds, PrepareExercise, PrepareFails, RollbackExercise,
       GiveBack, DebitBuyer, AddShares, MarkExercised, MarksGrow, dealing, marks
  <1>2. call[c] \in Request /\ CallInv(c) /\ call[c].of \in Negotiations
    BY <1>1, Fields DEF TxInv
  <1>3. /\ Moves("pay", "prepare") /\ Moves("prepare", "giveBack") /\ Moves("undo", "giveBack")
        /\ Moves("debit", "deliver") /\ Moves("deliver", "close")
    BY DEF Moves, Answering, Early, Sent, CommitLabels, Accepting, AcceptLabels, ExerciseLabels
  <1>4. CASE PrepareExercise(c)
    <2> DEFINE amount == Amount[call[c].terms]
    <2>1. call[c].pc = "prepare" /\ ~Voted(c) /\ NoneSent(c)
      BY <1>2, <1>4 DEF PrepareExercise, At, CallInv, VoteInv, SentInv, Early, Sent
    <2>2. CASE GoTo(c, "giveBack") /\ tx' = tx
      BY <1>1, <1>3, <2>1, <2>2, GoToKeepsVotes
    <2>3. CASE Vote(c, "EXERCISE", call[c].of, amount) /\ GoTo(c, "exCommit")
      <3>1. /\ call'[c].pc = "exCommit" /\ call'[c].of = call[c].of /\ call'[c].tries = call[c].tries
            /\ \A d \in Calls \ {c} : call'[d] = call[d]
        BY <1>1, <2>3, GoToDoes
      <3>2. amount \in Nat
        BY <1>1, Fields, Chosen
      <3> HIDE DEF amount
      <3>3. /\ \/ tx'[c].type = "EXERCISE" /\ tx'[c].of = call[c].of
               \/ tx'[c] = tx[c]
            /\ \A d \in Calls \ {c} : tx'[d] = tx[d]
        BY <1>2, <2>3, <3>2, TypeParts, VoteDoes
      <3>4. "exCommit" \in ExerciseLabels \ Accepting /\ "exCommit" \notin Early \cup Answering
        BY DEF Accepting, AcceptLabels, ExerciseLabels, Early, Answering
      <3>5. VoteInv(c)' /\ SentInv(c)'
        BY <1>1, <2>1, <3>1, <3>3, <3>4 DEF VoteInv, SentInv, NoneSent, Voted
      <3>6. HandlerInv(c)'
        BY <1>1, <2>1 DEF HandlerInv, Running, NoneSent
      <3> QED BY <1>1, <3>1, <3>3, <3>5, <3>6, TxStep DEF CallInv
    <2> QED BY <1>4, <2>2, <2>3 DEF PrepareExercise
  <1>5. CASE RollbackExercise(c)
    <2>1. /\ call[c].pc = "undo"
          /\ call'[c].pc = "giveBack" /\ call'[c].of = call[c].of /\ call'[c].tries = call[c].tries
          /\ \A d \in Calls \ {c} : call'[d] = call[d]
      BY <1>1, <1>5, GoToDoes DEF RollbackExercise, At
    <2>2. /\ tx'[c].of = tx[c].of /\ tx'[c].type = tx[c].type /\ (Voted(c)' <=> Voted(c))
          /\ \A d \in Calls \ {c} : tx'[d] = tx[d]
      <3>1. CASE RollBack(c)
        BY <3>1, TypeParts, RollBackDoes DEF Voted
      <3>2. CASE tx' = tx
        BY <3>2 DEF Voted
      <3> QED BY <1>5, <3>1, <3>2 DEF RollbackExercise
    <2>3. CallInv(c)'
      BY <1>1, <1>2, <1>3, <2>1, <2>2, MoveKeepsCall
    <2> QED BY <1>1, <2>1, <2>2, <2>3, TxStep
  <1>6. CASE \/ ReserveFunds(c) \/ PrepareFails(c) \/ GiveBack(c)
             \/ DebitBuyer(c) \/ AddShares(c) \/ MarkExercised(c)
    <2>1. tx' = tx
      BY <1>6 DEF ReserveFunds, PrepareFails, GiveBack, DebitBuyer, AddShares, MarkExercised, dealing
    <2>2. \/ Return(c) /\ call[c].pc \notin Answering
          \/ \E label \in {"prepare", "giveBack", "deliver", "close"} :
               GoTo(c, label) /\ Moves(call[c].pc, label)
      BY <1>3, <1>6 DEF ReserveFunds, PrepareFails, GiveBack, DebitBuyer, AddShares,
         MarkExercised, At, Answering
    <2> QED BY <1>1, <2>1, <2>2, ReturnKeepsVotes, GoToKeepsVotes
  <1> QED BY <1>4, <1>5, <1>6 DEF RunExercise

LEMMA CommitKeepsVotes ==
  ASSUME TypeOK, TxInv, NEW c \in Calls, Commit(c)
  PROVE  TxInv'
  <1>1. /\ RequestTypes /\ HandlerTypes /\ tx' = tx
        /\ call[c] \in Request /\ CallInv(c) /\ call[c].of \in Negotiations
        /\ call[c].tries \in 0..MaxTries /\ MaxTries \in Nat \ {0}
    BY TypeParts, Fields, Chosen
    DEF TxInv, Commit, SendCommit, CommitAnswered, CommitTimesOut, CommitFails, dealing
  <1>2. MarksGrow
    BY DEF Commit, SendCommit, CommitAnswered, CommitTimesOut, CommitFails, MarksGrow, marks
  <1>3. /\ {"commit", "committing", "credit"} \subseteq Accepting
        /\ {"exCommit", "exCommitting", "debit", "undo"} \subseteq ExerciseLabels \ Accepting
    BY DEF Accepting, AcceptLabels, ExerciseLabels
  <1>4. CASE SendCommit(c)
    <2>1. PICK j \in Handlers : j = call[c].tries + 1
      BY <1>1, <1>4 DEF SendCommit, Handlers
    <2>2. PICK label \in Labels : label = Waiting(call[c].pc)
      BY LabelFacts DEF Waiting
    <2>3. \/ call[c].pc = "commit" /\ label = "committing"
          \/ call[c].pc = "exCommit" /\ label = "exCommitting"
      BY <1>4, <2>2 DEF SendCommit, CommitLabels, Waiting
    <2>4. call' = [call EXCEPT ![c] = [call[c] EXCEPT !.pc = label, !.tries = j]]
      BY <1>4, <2>1, <2>2 DEF SendCommit
    <2>5. /\ call'[c].pc = label /\ call'[c].of = call[c].of /\ call'[c].tries = j
          /\ \A d \in Calls \ {c} : call'[d] = call[d]
      BY <1>1, <2>4 DEF RequestTypes, Request
    <2>6. attempt' = [attempt EXCEPT ![c][j].pc = "load"]
      BY <1>4, <2>1 DEF SendCommit
    <2>7. /\ attempt'[c][j].pc = "load"
          /\ \A i \in Handlers \ {j} : attempt'[c][i] = attempt[c][i]
          /\ \A d \in Calls \ {c} : attempt'[d] = attempt[d]
      BY <1>1, <2>6 DEF HandlerTypes, Handler
    <2>8. VoteInv(c)'
      BY <1>1, <1>3, <2>3, <2>5 DEF CallInv, VoteInv, Voted, Early
    <2>9. NoneSent(c) => j = 1
      BY <1>1, <2>1 DEF NoneSent
    <2>10. NoneSent(c) \/ call[c].of \in repeated
      BY <1>1, <2>3 DEF CallInv, SentInv, CommitLabels
    <2>11. SentInv(c)'
      BY <1>2, <2>3, <2>5, <2>7, <2>9, <2>10 DEF SentInv, NoneSent, Sent, CommitLabels, Answering, MarksGrow
    <2>12. HandlerInv(c)'
      <3>1. Voted(c) => tx[c].of = call[c].of
        BY <1>1, <2>3 DEF CallInv, VoteInv
      <3>2. call[c].pc \notin Answering /\ call'[c].pc \in Answering
        BY <2>3, <2>5 DEF Answering
      <3> QED BY <1>1, <1>2, <2>5, <2>7, <2>9, <2>10, <3>1, <3>2
          DEF CallInv, HandlerInv, NoneSent, Running, Voted, MarksGrow
    <2> QED BY <1>1, <1>2, <2>5, <2>7, <2>8, <2>11, <2>12, TxStep DEF CallInv
  <1>5. ASSUME NEW label, GoTo(c, label), attempt' = attempt,
               \/ call[c].pc \in {"commit", "committing"} /\ label \in {"commit", "credit"}
               \/ call[c].pc \in {"exCommit", "exCommitting"} /\ label \in {"exCommit", "debit", "undo"},
               label \in CommitLabels => call[c].of \in repeated',
               call[c].of \in repeated' \/ (call[c].pc \in Answering /\ Latest(c).pc = "done")
        PROVE  TxInv'
    <2>1. /\ call'[c].pc = label /\ call'[c].of = call[c].of /\ call'[c].tries = call[c].tries
          /\ \A d \in Calls \ {c} : call'[d] = call[d]
      BY <1>1, <1>5, GoToDoes
    <2>2. VoteInv(c)'
      BY <1>1, <1>3, <1>5, <2>1 DEF CallInv, VoteInv, Voted, Early
    <2>3. SentInv(c)'
      BY <1>2, <1>5, <2>1 DEF SentInv, Sent, CommitLabels, Answering
    <2>4. HandlerInv(c)'
      <3>1. Voted(c) => tx[c].of = call[c].of
        BY <1>1, <1>5 DEF CallInv, VoteInv
      <3>2. ASSUME NEW i \in Handlers, Running(c, i)', Voted(c)', tx'[c].of \notin doubted' \cup repeated'
            PROVE  FALSE
        <4>1. /\ tx[c].of \notin doubted \cup repeated /\ Running(c, i) /\ Voted(c)
              /\ call[c].of \notin repeated'
          BY <1>1, <1>2, <1>5, <3>1, <3>2 DEF Running, Voted, MarksGrow
        <4>2. call[c].tries = 1 /\ i = 1
          BY <1>1, <4>1 DEF CallInv, HandlerInv
        <4> QED BY <1>5, <4>1, <4>2 DEF Latest, Running
      <3> QED BY <1>1, <1>5, <3>2 DEF CallInv, HandlerInv, Voted
    <2> QED BY <1>1, <1>2, <1>5, <2>1, <2>2, <2>3, <2>4, TxStep DEF CallInv
  <1>6. CASE CommitAnswered(c)
    <2>1. PICK label : label = IF At(c, "committing") THEN "credit" ELSE IF Latest(c).ok THEN "debit" ELSE "undo"
      OBVIOUS
    <2>2. GoTo(c, label) /\ attempt' = attempt /\ call[c].pc \in Answering /\ Latest(c).pc = "done"
      BY <1>6, <2>1 DEF CommitAnswered, dealing, Answering
    <2>3. \/ call[c].pc \in {"commit", "committing"} /\ label = "credit"
          \/ call[c].pc \in {"exCommit", "exCommitting"} /\ label \in {"debit", "undo"}
      BY <2>1, <2>2, Zenon DEF At, Answering
    <2>4. label \notin CommitLabels
      BY <2>3 DEF CommitLabels
    <2> QED BY <1>5, <2>2, <2>3, <2>4
  <1>7. CASE CommitTimesOut(c)
    <2>1. /\ GoTo(c, Sending(call[c].pc)) /\ attempt' = attempt
          /\ call[c].pc \in {"committing", "exCommitting"} /\ call[c].of \in repeated'
      BY <1>7 DEF CommitTimesOut, dealing
    <2>2. \/ call[c].pc = "committing" /\ Sending(call[c].pc) = "commit"
          \/ call[c].pc = "exCommitting" /\ Sending(call[c].pc) = "exCommit"
      BY <2>1 DEF Sending
    <2> QED BY <1>5, <2>1, <2>2
  <1>8. CASE CommitFails(c)
    <2>1. /\ GoTo(c, IF At(c, "commit") THEN "credit" ELSE "undo") /\ attempt' = attempt
          /\ call[c].pc \in {"commit", "exCommit"} /\ call[c].of \in repeated'
      BY <1>8 DEF CommitFails, dealing, CommitLabels
    <2>2. CASE At(c, "commit")
      BY <1>5, <2>1, <2>2 DEF At, CommitLabels
    <2>3. CASE ~At(c, "commit")
      BY <1>5, <2>1, <2>3 DEF At, CommitLabels
    <2> QED BY <2>2, <2>3
  <1> QED BY <1>4, <1>6, <1>7, <1>8 DEF Commit

(* A handler ends, or goes on to a label of its kind. *)
LEMMA HandlerMoves ==
  ASSUME TxInv, MarksGrow, call' = call, NEW c \in Calls, NEW i \in Handlers,
         attempt[c][i].pc # "none",
         \A d \in Calls, j \in Handlers : d # c \/ j # i => attempt'[d][j] = attempt[d][j],
         \A d \in Calls : tx'[d].of = tx[d].of /\ tx'[d].type = tx[d].type /\ (Voted(d)' <=> Voted(d)),
         \/ attempt'[c][i].pc = "done"
         \/ /\ Running(c, i) /\ Voted(c) /\ attempt'[c][i].pc \notin {"none", "load"}
            /\ attempt'[c][i].pc \in {"debit", "insert"} => tx[c].type = "ACCEPT"
            /\ attempt'[c][i].pc \in {"shares", "strike", "exercised"} => tx[c].type = "EXERCISE"
  PROVE  TxInv'
  <1> SUFFICES ASSUME NEW d \in Calls PROVE CallInv(d)'
    BY DEF TxInv
  <1>1. CallInv(d)
    BY DEF TxInv
  <1>2. VoteInv(d)'
    BY <1>1 DEF CallInv, VoteInv
  <1>3. \A j \in Handlers : attempt[d][j].pc = "none" => attempt'[d][j] = attempt[d][j]
    OBVIOUS
  <1>4. SentInv(d)'
    BY <1>1, <1>3 DEF CallInv, SentInv, NoneSent, MarksGrow
  <1>5. HandlerInv(d)'
    BY <1>1 DEF CallInv, HandlerInv, Running, MarksGrow
  <1> QED BY <1>2, <1>4, <1>5 DEF CallInv

LEMMA HandlersKeepVotes ==
  ASSUME TypeOK, TxInv, NEW c \in Calls, NEW i \in Handlers, CommitOtcInterbank(c, i)
  PROVE  TxInv'
  <1>1. HandlerTypes /\ CallInv(c) /\ tx[c] \in BankVote /\ attempt[c][i] \in Handler
    BY TypeParts, HandlerFields DEF TxInv
  <1>2. MarksGrow /\ call' = call
    BY DEF CommitOtcInterbank, LoadTx, DebitPremium, CreateBuyerContract, TakeShares,
       CreditStrike, MarkSellerContract, MarkCommitted, StopHandler, MarksGrow, marks
  <1>3. attempt[c][i].pc # "none"
    BY DEF CommitOtcInterbank, LoadTx, DebitPremium, CreateBuyerContract, TakeShares,
       CreditStrike, MarkSellerContract, MarkCommitted, StopHandler, Is
  <1>4. \A d \in Calls : tx'[d].of = tx[d].of /\ tx'[d].type = tx[d].type /\ (Voted(d)' <=> Voted(d))
    <2>1. CASE MarkCommitted(c, i) /\ tx' = [tx EXCEPT ![c].status = "COMMITTED"]
      <3>1. Voted(c)
        BY <1>1, <2>1 DEF CallInv, HandlerInv, MarkCommitted, Is
      <3>2. /\ tx'[c].status = "COMMITTED" /\ tx'[c].of = tx[c].of /\ tx'[c].type = tx[c].type
            /\ \A d \in Calls \ {c} : tx'[d] = tx[d]
        BY <1>1, <2>1 DEF HandlerTypes, BankVote
      <3> QED BY <3>1, <3>2 DEF Voted
    <2>2. CASE tx' = tx
      BY <2>2 DEF Voted
    <2> QED BY <2>1, <2>2 DEF CommitOtcInterbank, LoadTx, DebitPremium, CreateBuyerContract,
            TakeShares, CreditStrike, MarkSellerContract, MarkCommitted, StopHandler
  <1>5. ASSUME NEW ok \in BOOLEAN, End(c, i, ok)
        PROVE  TxInv'
    BY <1>1, <1>2, <1>3, <1>4, <1>5, EndDoes, HandlerMoves
  <1>6. ASSUME NEW label \in {"insert", "mark", "strike", "exercised"}, Proceed(c, i, label),
               \/ attempt[c][i].pc \in {"debit", "insert"} /\ label \in {"insert", "mark"}
               \/ attempt[c][i].pc \in {"shares", "strike", "exercised"} /\ label # "insert"
        PROVE  TxInv'
    <2>1. /\ attempt'[c][i].pc = label
          /\ \A d \in Calls, j \in Handlers : d # c \/ j # i => attempt'[d][j] = attempt[d][j]
      BY <1>1, <1>6, ProceedDoes DEF HandlerLabels
    <2>2. /\ Running(c, i) /\ Voted(c)
          /\ label \in {"debit", "insert"} => tx[c].type = "ACCEPT"
          /\ label \in {"shares", "strike", "exercised"} => tx[c].type = "EXERCISE"
      BY <1>1, <1>6 DEF Running, CallInv, HandlerInv
    <2> QED BY <1>2, <1>3, <1>4, <1>6, <2>1, <2>2, HandlerMoves
  <1>7. CASE LoadTx(c, i)
    <2>1. CASE \E ok \in BOOLEAN : End(c, i, ok)
      BY <1>5, <2>1
    <2>2. CASE /\ tx[c].status = "PENDING"
               /\ attempt' = [attempt EXCEPT ![c][i] = [@ EXCEPT
                    !.pc = IF tx[c].type = "ACCEPT" THEN "debit" ELSE "shares",
                    !.terms = IF tx[c].type = "ACCEPT" THEN row[Buyer][tx[c].of].terms
                              ELSE contract[Seller][tx[c].of].terms]]
      <3>1. PICK label : label = IF tx[c].type = "ACCEPT" THEN "debit" ELSE "shares"
        OBVIOUS
      <3>2. PICK t : t = IF tx[c].type = "ACCEPT" THEN row[Buyer][tx[c].of].terms
                         ELSE contract[Seller][tx[c].of].terms
        OBVIOUS
      <3>3. attempt' = [attempt EXCEPT ![c][i] = [attempt[c][i] EXCEPT !.pc = label, !.terms = t]]
        BY <2>2, <3>1, <3>2 DEF HandlerTypes
      <3>4. /\ attempt'[c][i].pc = label
            /\ \A d \in Calls, j \in Handlers : d # c \/ j # i => attempt'[d][j] = attempt[d][j]
        BY <1>1, <3>3 DEF HandlerTypes, Handler
      <3>5. /\ Running(c, i) /\ Voted(c) /\ label \in {"debit", "shares"}
            /\ label = "debit" => tx[c].type = "ACCEPT"
            /\ label = "shares" => tx[c].type = "EXERCISE"
        BY <1>1, <1>7, <2>2, <3>1 DEF LoadTx, Is, Running, Voted, BankVote
      <3> QED BY <1>2, <1>3, <1>4, <3>4, <3>5, HandlerMoves
    <2>3. (tx[c].status # "ROLLED_BACK") \in BOOLEAN /\ FALSE \in BOOLEAN
      OBVIOUS
    <2> QED BY <1>7, <2>1, <2>2, <2>3 DEF LoadTx
  <1>8. CASE \/ DebitPremium(c, i) \/ CreateBuyerContract(c, i) \/ CreditStrike(c, i)
    BY <1>6, <1>8 DEF DebitPremium, CreateBuyerContract, CreditStrike, Is
  <1>9. CASE TakeShares(c, i) \/ MarkSellerContract(c, i)
    BY <1>5, <1>6, <1>9 DEF TakeShares, MarkSellerContract, Is
  <1>10. CASE MarkCommitted(c, i) \/ StopHandler(c, i)
    BY <1>5, <1>10 DEF MarkCommitted, StopHandler
  <1> QED BY <1>7, <1>8, <1>9, <1>10 DEF CommitOtcInterbank

LEMMA CrashKeepsVotes ==
  ASSUME TypeOK, TxInv, NEW k \in Banks, Crash(k)
  PROVE  TxInv'
  <1> SUFFICES ASSUME NEW c \in Calls PROVE CallInv(c)'
    BY DEF TxInv
  <1>1. /\ RequestTypes /\ HandlerTypes /\ CallInv(c) /\ tx' = tx /\ MarksGrow
        /\ call[c] \in Request
    BY TypeParts, Fields DEF TxInv, Crash, MarksGrow
  <1>2. /\ call'[c] = AfterCrash(c, k)
        /\ SellerRuns(c) \/ BuyerRuns(c) => call[c].of \in doubted'
    BY DEF Crash
  <1>3. \/ call'[c].pc = "end"
        \/ /\ call'[c].of = call[c].of /\ call'[c].tries = call[c].tries
           /\ \/ call'[c].pc = call[c].pc
              \/ call'[c].pc = "refused" /\ call[c].pc \in AcceptLabels \ {"accept"}
    <2>1. CASE k = Seller /\ SellerRuns(c)
      BY <1>1, <1>2, <2>1 DEF AfterCrash, Finished, Request, SellerRuns
    <2>2. CASE ~(k = Seller /\ SellerRuns(c))
      BY <1>1, <1>2, <2>2 DEF AfterCrash, Finished, Request
    <2> QED BY <2>1, <2>2
  <1>4. ASSUME NEW i \in Handlers
        PROVE  /\ attempt'[c][i].pc \in {attempt[c][i].pc, "done"}
               /\ attempt[c][i].pc = "none" => attempt'[c][i].pc = "none"
    <2>1. attempt'[c][i] =
            IF VoterOf(c) = k /\ ~Is(c, i, "none") /\ ~Is(c, i, "done")
            THEN [attempt[c][i] EXCEPT !.pc = "done", !.ok = FALSE] ELSE attempt[c][i]
      BY DEF Crash, Handlers
    <2>2. attempt[c][i] \in Handler
      BY <1>1 DEF HandlerTypes
    <2>3. CASE VoterOf(c) = k /\ ~Is(c, i, "none") /\ ~Is(c, i, "done")
      BY <2>1, <2>2, <2>3 DEF Is, Handler
    <2>4. CASE ~(VoterOf(c) = k /\ ~Is(c, i, "none") /\ ~Is(c, i, "done"))
      BY <2>1, <2>4
    <2> QED BY <2>3, <2>4
  <1>5. VoteInv(c)'
    BY <1>1, <1>3, Classes DEF CallInv, VoteInv, Voted, Early
  <1>6. SentInv(c)'
    BY <1>1, <1>3, <1>4 DEF CallInv, SentInv, NoneSent, MarksGrow, Sent, CommitLabels, Answering
  <1>7. ASSUME NEW i \in Handlers, Running(c, i)', Voted(c)', tx'[c].of \notin doubted' \cup repeated'
        PROVE  call'[c].pc \in Answering /\ call'[c].tries = 1 /\ i = 1
    <2>1. Running(c, i) /\ Voted(c) /\ tx[c].of \notin doubted \cup repeated /\ tx[c].of \notin doubted'
      BY <1>1, <1>4, <1>7 DEF Running, Voted, MarksGrow
    <2>2. call[c].pc \in Answering
      BY <1>1, <2>1 DEF CallInv, HandlerInv
    <2>3. SellerRuns(c) \/ BuyerRuns(c)
      BY <2>2 DEF Answering, SellerRuns, BuyerRuns, AcceptLabels, ExerciseLabels
    <2>4. tx[c].of = call[c].of
      BY <1>1, <2>1, <2>2 DEF CallInv, VoteInv, Answering
    <2> QED BY <1>2, <2>1, <2>3, <2>4
  <1>8. HandlerInv(c)'
    BY <1>1, <1>4, <1>7 DEF CallInv, HandlerInv, Voted
  <1> QED BY <1>5, <1>6, <1>8 DEF CallInv

LEMMA TxInit ==
  Init => TxInv
  <1> SUFFICES ASSUME Init, NEW c \in Calls PROVE CallInv(c)
    BY DEF TxInv
  <1>1. /\ tx[c].status = "none" /\ call[c].pc = "idle" /\ call[c].tries = 0
        /\ \A i \in Handlers : attempt[c][i].pc = "none"
    BY DEF Init, NoTx, Finished, NoAttempt, Handlers
  <1> QED BY <1>1 DEF CallInv, VoteInv, SentInv, HandlerInv, NoneSent, Running, Voted,
          Early, Sent, CommitLabels, Answering

LEMMA TxInvStep ==
  TypeOK /\ TxInv /\ [Next]_vars => TxInv'
  <1> SUFFICES ASSUME TypeOK, TxInv, [Next]_vars PROVE TxInv'
    OBVIOUS
  <1>1. ASSUME NEW c \in Calls, NEW i \in 1..MaxTries, CommitOtcInterbank(c, i)
        PROVE  TxInv'
    BY <1>1, HandlersKeepVotes DEF Handlers
  <1> QED BY <1>1, OfferKeepsVotes, ForwardKeepsVotes, AcceptanceKeepsVotes, ExerciseKeepsVotes,
             CommitKeepsVotes, OthersKeepVotes, CrashKeepsVotes DEF Next
-----------------------------------------------------------------------------
(* What an agreement rests on.  From the moment a bank has the contract of  *)
(* a negotiation that nobody doubts, its two rows say the same and nothing  *)
(* is on its way but the call that pays.                                    *)
Paying == {"commit", "committing", "credit"}
Debiting == {"load", "debit", "insert"}
Sealed(n) ==
  /\ n \in linked /\ SameTerms(n) /\ ~HasTurn(Buyer, n) /\ ~HasTurn(Seller, n)
  /\ Status(Seller, n) # "none"
  /\ \A c \in Calls : Carries(c, n) => call[c].bank = Buyer /\ call[c].pc \in Paying

PaysOn(c) ==
  \/ call'[c].pc = call[c].pc
  \/ call[c].pc = "commit" /\ call'[c].pc \in {"committing", "credit"}
  \/ call[c].pc = "committing" /\ call'[c].pc = "credit"
  \/ call[c].pc = "committing" /\ call'[c].pc = "commit" /\ call[c].of \in repeated'

(* What a step leaves of a sealed negotiation.                             *)
Kept(n) ==
  /\ n \in linked' /\ \A k \in Banks : row'[k][n].terms = row[k][n].terms
  /\ \A k \in Banks : ~HasTurn(k, n)'
  /\ Status(Seller, n)' # "none"
  /\ \A c \in Calls : Carries(c, n)' =>
       Carries(c, n) /\ call'[c].bank = call[c].bank /\ PaysOn(c)

LEMMA KeptIsSealed ==
  ASSUME NEW n \in Negotiations, Sealed(n), Kept(n)
  PROVE  Sealed(n)'
  <1>1. SameTerms(n)' /\ ~HasTurn(Buyer, n)' /\ ~HasTurn(Seller, n)'
    BY BankFacts DEF Sealed, Kept, SameTerms
  <1>2. ASSUME NEW c \in Calls, Carries(c, n)'
        PROVE  call'[c].bank = Buyer /\ call'[c].pc \in Paying
    BY <1>2 DEF Sealed, Kept, PaysOn, Paying
  <1> QED BY <1>1, <1>2 DEF Sealed, Kept

(* A step of one call that leaves the rows of n alone, or rejects in one.   *)
LEMMA CallKeeps ==
  ASSUME NEW n \in Negotiations, Sealed(n), n \in linked',
         \A k \in Banks : row'[k][n].terms = row[k][n].terms,
         \A k \in Banks : row'[k][n].status \in {row[k][n].status, "REJECTED"},
         NEW c \in Calls, \A d \in Calls \ {c} : call'[d] = call[d],
         \/ call'[c].pc \notin Carrying
         \/ call'[c].of # n
         \/ Carries(c, n) /\ call'[c].bank = call[c].bank /\ PaysOn(c)
  PROVE  Kept(n)
  <1>1. \A k \in Banks : ~HasTurn(k, n)'
    BY BankFacts DEF HasTurn, Status, Sealed
  <1>2. Status(Seller, n)' # "none"
    BY BankFacts DEF Status, Sealed
  <1>3. ASSUME NEW d \in Calls, Carries(d, n)'
        PROVE  Carries(d, n) /\ call'[d].bank = call[d].bank /\ PaysOn(d)
    <2>1. CASE d = c
      BY <1>3, <2>1 DEF Carries
    <2>2. CASE d # c
      BY <1>3, <2>2 DEF Carries, PaysOn
    <2> QED BY <2>1, <2>2
  <1> QED BY <1>1, <1>2, <1>3 DEF Kept

LEMMA NothingOnTheWay ==
  ASSUME NEW n \in Negotiations, Sealed(n), NEW c \in Calls, call[c].of = n,
         call[c].pc \in Carrying
  PROVE  call[c].pc \in Paying /\ call[c].bank = Buyer
  BY DEF Sealed, Carries

LEMMA OfferKeepsSeal ==
  ASSUME TypeOK, RowInv, NEW n \in Negotiations, Sealed(n),
         NEW c \in Calls, NEW m \in Negotiations, Offer(c, m)
  PROVE  Kept(n)
  <1>1. RequestTypes /\ RowTypes /\ Buyer \in Banks /\ Seller \in Banks
        /\ linked' = linked /\ n \in linked
    BY TypeParts, BankFacts DEF Sealed, Offer, CreateNegotiation, CounterOffer,
       RejectNegotiation, AcceptNegotiation, AcceptBySeller, ExerciseContract, rowVars
  <1>2. ASSUME NEW k \in Banks, NEW t \in Terms, NEW label \in Labels,
               Begin(c, k, m, t, label), label \notin Carrying \/ m # n,
               \A j \in Banks : row'[j][n].terms = row[j][n].terms,
               \A j \in Banks : row'[j][n].status \in {row[j][n].status, "REJECTED"}
        PROVE  Kept(n)
    <2>1. call'[c].pc = label /\ call'[c].of = m /\ \A d \in Calls \ {c} : call'[d] = call[d]
      BY <1>1, <1>2, BeginDoes
    <2> QED BY <1>1, <1>2, <2>1, CallKeeps
  <1>3. CASE \E t \in Terms : CreateNegotiation(c, m, t)
    <2>1. PICK t \in Terms : CreateNegotiation(c, m, t)
      BY <1>3
    <2>2. m # n
      BY <2>1 DEF CreateNegotiation, Sealed, Status
    <2>3. \A j \in Banks : row'[j][n] = row[j][n]
      BY <1>1, <2>1, <2>2, SetRowDoes, StatusFacts DEF CreateNegotiation
    <2> QED BY <1>1, <1>2, <2>1, <2>2, <2>3, LabelFacts DEF CreateNegotiation
  <1>4. CASE \E k \in Banks, t \in Terms : CounterOffer(c, k, m, t)
    <2>1. PICK k \in Banks, t \in Terms : CounterOffer(c, k, m, t)
      BY <1>4
    <2>2. m # n
      BY <2>1, BankFacts DEF CounterOffer, Sealed, HasTurn, Status
    <2>3. \A j \in Banks : row'[j][n] = row[j][n]
      BY <1>1, <2>1, <2>2, SetRowDoes, StatusFacts DEF CounterOffer
    <2> QED BY <1>1, <1>2, <2>1, <2>2, <2>3, LabelFacts DEF CounterOffer
  <1>5. CASE \E k \in Banks : RejectNegotiation(c, k, m)
    <2>1. PICK k \in Banks : RejectNegotiation(c, k, m)
      BY <1>5
    <2>2. \A j \in Banks : /\ row'[j][n].terms = row[j][n].terms
                           /\ row'[j][n].status \in {row[j][n].status, "REJECTED"}
      BY <1>1, <2>1, SetStatusDoes, StatusFacts DEF RejectNegotiation
    <2>3. "delete" \notin Carrying /\ row[k][m].terms \in Terms
      BY Classes, EntryFields
    <2> QED BY <1>2, <2>1, <2>2, <2>3, LabelFacts DEF RejectNegotiation
  <1>6. CASE AcceptNegotiation(c, m) \/ AcceptBySeller(c, m)
    <2>1. PICK k \in Banks : Accept(c, k, m)
      BY <1>1, <1>6 DEF AcceptNegotiation, AcceptBySeller
    <2>2. m # n
      BY <1>6, BankFacts DEF AcceptNegotiation, AcceptBySeller, Sealed, HasTurn, Status
    <2>3. /\ call'[c].of = m /\ \A d \in Calls \ {c} : call'[d] = call[d]
          /\ \A j \in Banks : row'[j][n] = row[j][n]
      BY <1>1, <2>1, <2>2, AcceptDoes
    <2> QED BY <1>1, <2>2, <2>3, CallKeeps
  <1>7. CASE ExerciseContract(c, m)
    <2>1. row' = row /\ contract[Buyer][m].terms \in Terms
      BY <1>1, <1>7, EntryFields DEF ExerciseContract, rowVars
    <2>2. "pay" \notin Carrying /\ "pay" \in Labels
      BY Classes, LabelFacts DEF ExerciseLabels
    <2> QED BY <1>1, <1>2, <1>7, <2>1, <2>2 DEF ExerciseContract
  <1> QED BY <1>3, <1>4, <1>5, <1>6, <1>7 DEF Offer

LEMMA ForwardKeepsSeal ==
  ASSUME TypeOK, RowInv, NEW n \in Negotiations, Sealed(n), NEW c \in Calls, Forward(c)
  PROVE  Kept(n)
  <1>0. PICK m \in Negotiations : m = call[c].of
    BY TypeParts, Fields
  <1>1. /\ RequestTypes /\ RowTypes /\ Buyer \in Banks /\ Seller \in Banks /\ n \in linked
        /\ There(c) \in Banks /\ RowInvOf(m)
    BY TypeParts, Fields, BankFacts DEF Sealed, RowInv
  <1>2. linked \subseteq linked'
    BY DEF Forward, CreateInterbankNegotiation, ForwardFails, StorePartnerId,
       DropNegotiation, LookupInterbankNegotiation, RequestLost, InterbankCounterOffer,
       InterbankDeleteNegotiation, rowVars
  <1>3. \/ Return(c)
        \/ \E label \in {"link", "drop", "putUpdate", "deleteUpdate"} : GoTo(c, label)
    BY DEF Forward, CreateInterbankNegotiation, ForwardFails, StorePartnerId,
       DropNegotiation, LookupInterbankNegotiation, RequestLost, InterbankCounterOffer,
       InterbankDeleteNegotiation
  <1>4. \A d \in Calls \ {c} : call'[d] = call[d]
    BY <1>1, <1>3, ReturnDoes, GoToDoes
  <1>5. call'[c].pc \notin Carrying \/ call'[c].of # n
    <2>1. CASE Return(c)
      BY <1>1, <2>1, ReturnDoes, Classes DEF Finished
    <2>2. CASE \E label \in {"link", "drop", "deleteUpdate"} : GoTo(c, label)
      BY <1>1, <2>2, GoToDoes, Classes
    <2>3. CASE GoTo(c, "putUpdate")
      <3>1. call[c].pc \in Carrying /\ call[c].pc \notin Paying
        BY <1>1, <2>3, GoToDoes, Classes
        DEF Forward, CreateInterbankNegotiation, ForwardFails, StorePartnerId, DropNegotiation,
          LookupInterbankNegotiation, RequestLost, InterbankCounterOffer,
          InterbankDeleteNegotiation, At, Offering, Paying, Return, GoTo, RequestTypes, Finished, Request
      <3> QED BY <1>1, <2>3, <3>1, GoToDoes, NothingOnTheWay
    <2> QED BY <1>3, <2>1, <2>2, <2>3
  <1>6. \A k \in Banks : /\ row'[k][n].terms = row[k][n].terms
                         /\ row'[k][n].status \in {row[k][n].status, "REJECTED"}
    <2>1. CASE CreateInterbankNegotiation(c)
      <3>1. m # n
        <4>1. call[c].pc \in Carrying /\ call[c].pc \notin Paying
          BY <2>1 DEF CreateInterbankNegotiation, At, Paying, Carrying
        <4> QED BY <1>0, <4>1, NothingOnTheWay
      <3>2. call[c].terms \in Terms /\ SetRow(Seller, m, "PENDING_SELLER", call[c].terms)
        BY <1>0, <1>1, <2>1, Fields DEF CreateInterbankNegotiation
      <3>3. \A k \in Banks : row'[k][n] = row[k][n]
        BY <1>1, <3>1, <3>2, SetRowDoes, StatusFacts
      <3> QED BY <3>3
    <2>2. CASE DropNegotiation(c)
      <3>1. m # n
        BY <1>0, <1>1, <2>2 DEF DropNegotiation, At, RowInvOf, Joined, Joins, Joining
      <3> QED BY <1>0, <1>1, <2>2, <3>1, SetRowDoes, StatusFacts, Chosen, SMTT(30) DEF DropNegotiation
    <2>3. CASE InterbankCounterOffer(c)
      <3>1. m # n
        <4>1. call[c].pc \in Carrying /\ call[c].pc \notin Paying
          BY <2>3 DEF InterbankCounterOffer, At, Paying, Carrying, Offering
        <4> QED BY <1>0, <4>1, NothingOnTheWay
      <3>2. call[c].terms \in Terms /\ SetRow(There(c), m, Turn(There(c)), call[c].terms)
        BY <1>0, <1>1, <2>3, Fields DEF InterbankCounterOffer
      <3>3. \A k \in Banks : row'[k][n] = row[k][n]
        BY <1>1, <3>1, <3>2, SetRowDoes, StatusFacts
      <3> QED BY <3>3
    <2>4. CASE InterbankDeleteNegotiation(c)
      BY <1>0, <1>1, <2>4, SetStatusDoes, StatusFacts DEF InterbankDeleteNegotiation
    <2>5. CASE row' = row
      BY <2>5
    <2> QED BY <2>1, <2>2, <2>3, <2>4, <2>5 DEF Forward, ForwardFails, StorePartnerId,
            LookupInterbankNegotiation, RequestLost, rowVars
  <1> QED BY <1>1, <1>2, <1>4, <1>5, <1>6, CallKeeps

LEMMA AcceptanceKeepsSeal ==
  ASSUME TypeOK, RowInv, NEW n \in Negotiations, Sealed(n), n \notin doubted',
         NEW c \in Calls, RunAcceptance(c)
  PROVE  Kept(n)
  <1>0. PICK m \in Negotiations : m = call[c].of
    BY TypeParts, Fields
  <1>1. /\ RequestTypes /\ RowTypes /\ MarkTypes /\ Buyer \in Banks /\ Seller \in Banks
        /\ n \in linked /\ call[c] \in Request
    BY TypeParts, Fields, BankFacts DEF Sealed
  <1>2. linked' = linked
    BY DEF RunAcceptance, GiveUp, Cancel, InterbankAcceptNegotiation, LoadNegotiation,
       PrepareAccept, NewTxFails, ReserveShares, RollbackAccept, InsertContract, CreditSeller,
       RevertAccept, RevertAtBuyer, rowVars
  <1>3. CASE Cancel(c)
    <2>1. call' = [call EXCEPT ![c].alive = FALSE]
      BY <1>3 DEF Cancel
    <2>2. /\ call'[c].pc = call[c].pc /\ call'[c].of = call[c].of /\ call'[c].bank = call[c].bank
          /\ \A d \in Calls \ {c} : call'[d] = call[d]
      BY <1>1, <2>1 DEF RequestTypes, Request
    <2>3. row' = row
      BY <1>3 DEF Cancel, rowVars
    <2>4. CASE call[c].pc \in Carrying /\ call[c].of = n
      BY <1>1, <1>2, <2>2, <2>3, <2>4, CallKeeps DEF Carries, PaysOn
    <2>5. CASE call[c].pc \notin Carrying \/ call[c].of # n
      BY <1>1, <1>2, <2>2, <2>3, <2>5, CallKeeps
    <2> QED BY <2>4, <2>5
  <1>4. CASE CreditSeller(c)
    <2>1. call'[c].pc = "end" /\ \A d \in Calls \ {c} : call'[d] = call[d]
      BY <1>1, <1>4, ReturnDoes DEF CreditSeller, Finished
    <2>2. row' = row
      BY <1>4 DEF CreditSeller, rowVars
    <2> QED BY <1>1, <1>2, <2>1, <2>2, Classes, CallKeeps
  <1>5. CASE ~Cancel(c) /\ ~CreditSeller(c)
    <2>1. call[c].pc \in Carrying
      BY <1>5, Classes DEF RunAcceptance, GiveUp, InterbankAcceptNegotiation, LoadNegotiation,
         PrepareAccept, NewTxFails, ReserveShares, RollbackAccept, InsertContract,
         RevertAccept, RevertAtBuyer, At, AcceptLabels
    <2>2. m # n
      <3>1. CASE GiveUp(c)
        <4>1. SUFFICES ASSUME m = n PROVE FALSE
          OBVIOUS
        <4>2. call[c].pc = "accept"
          BY <1>0, <3>1, <4>1 DEF GiveUp, At
        <4> QED BY <1>0, <2>1, <4>1, <4>2, NothingOnTheWay DEF Paying
      <3>2. CASE ~GiveUp(c)
        <4>1. call[c].pc \notin Paying
          BY <1>5, <3>2 DEF RunAcceptance, InterbankAcceptNegotiation, LoadNegotiation,
             PrepareAccept, NewTxFails, ReserveShares, RollbackAccept, InsertContract,
             RevertAccept, RevertAtBuyer, At, Paying
        <4> QED BY <1>0, <2>1, <4>1, NothingOnTheWay
      <3> QED BY <3>1, <3>2
    <2>3. \A k \in Banks : row'[k][n] = row[k][n]
      <3>1. CASE \E k \in Banks, status \in Statuses : SetStatus(k, m, status)
        BY <1>1, <2>2, <3>1, SetStatusDoes
      <3>2. CASE row' = row
        BY <3>2
      <3>3. "ACCEPTED" \in Statuses /\ "PENDING_BUYER" \in Statuses /\ call[c].back \in Statuses
        BY <1>1, Fields, StatusFacts, BankFacts
      <3> QED BY <1>0, <1>1, <1>5, <3>1, <3>2, <3>3
          DEF RunAcceptance, GiveUp, InterbankAcceptNegotiation, LoadNegotiation,
          PrepareAccept, NewTxFails, ReserveShares, RollbackAccept, InsertContract,
          RevertAccept, RevertAtBuyer, rowVars
    <2>4. /\ call'[c].of # n \/ call'[c].pc \notin Carrying
          /\ \A d \in Calls \ {c} : call'[d] = call[d]
      <3>1. CASE Return(c)
        BY <1>1, <3>1, ReturnDoes, Classes DEF Finished
      <3>2. CASE \E label \in Labels : GoTo(c, label)
        BY <1>0, <1>1, <2>2, <3>2, GoToDoes
      <3>3. CASE call' = [call EXCEPT ![c].waits = FALSE]
        BY <1>0, <1>1, <2>2, <3>3 DEF RequestTypes, Request
      <3>4. CASE call' = [call EXCEPT ![c] = [@ EXCEPT
                   !.pc = "newTx", !.terms = row[Seller][call[c].of].terms]]
        BY <1>0, <1>1, <2>2, <3>4 DEF RequestTypes, Request
      <3> QED BY <1>5, <3>1, <3>2, <3>3, <3>4, LabelFacts
          DEF RunAcceptance, GiveUp, InterbankAcceptNegotiation, LoadNegotiation,
          PrepareAccept, NewTxFails, ReserveShares, RollbackAccept, InsertContract,
          RevertAccept, RevertAtBuyer
    <2> QED BY <1>1, <1>2, <2>3, <2>4, CallKeeps
  <1> QED BY <1>3, <1>4, <1>5

LEMMA ExerciseKeepsSeal ==
  ASSUME TypeOK, NEW n \in Negotiations, Sealed(n), NEW c \in Calls, RunExercise(c)
  PROVE  Kept(n)
  <1>1. RequestTypes /\ n \in linked /\ row' = row /\ linked' = linked
    BY TypeParts DEF Sealed, RunExercise, ReserveFunds, PrepareExercise, PrepareFails,
       RollbackExercise, GiveBack, DebitBuyer, AddShares, MarkExercised, rowVars
  <1>2. Return(c) \/ \E label \in {"prepare", "exCommit", "giveBack", "deliver", "close"} : GoTo(c, label)
    BY DEF RunExercise, ReserveFunds, PrepareExercise, PrepareFails, RollbackExercise,
       GiveBack, DebitBuyer, AddShares, MarkExercised
  <1>3. {"prepare", "exCommit", "giveBack", "deliver", "close"} \cap Carrying = {}
    BY Classes DEF ExerciseLabels
  <1>4. call'[c].pc \notin Carrying /\ \A d \in Calls \ {c} : call'[d] = call[d]
    BY <1>1, <1>2, <1>3, ReturnDoes, GoToDoes, Classes DEF Finished
  <1> QED BY <1>1, <1>4, CallKeeps

LEMMA CommitKeepsSeal ==
  ASSUME TypeOK, NEW n \in Negotiations, Sealed(n), NEW c \in Calls, Commit(c)
  PROVE  Kept(n)
  <1>1. /\ RequestTypes /\ n \in linked /\ row' = row /\ linked' = linked
        /\ call[c] \in Request
    BY TypeParts, Fields DEF Sealed, Commit, SendCommit, CommitAnswered, CommitTimesOut, CommitFails, rowVars
  <1>2. {"exCommit", "exCommitting", "debit", "undo"} \cap Carrying = {}
    BY Classes DEF ExerciseLabels
  <1>3. /\ call'[c].of = call[c].of /\ call'[c].bank = call[c].bank
        /\ \A d \in Calls \ {c} : call'[d] = call[d]
        /\ call'[c].pc \in {"exCommit", "exCommitting", "debit", "undo"} \/ PaysOn(c)
    <2>1. CASE SendCommit(c)
      <3>1. PICK label : label = Waiting(call[c].pc)
        OBVIOUS
      <3>2. call' = [call EXCEPT ![c] = [call[c] EXCEPT !.pc = label, !.tries = call[c].tries + 1]]
        BY <2>1, <3>1 DEF SendCommit
      <3>3. /\ call'[c].pc = label /\ call'[c].of = call[c].of /\ call'[c].bank = call[c].bank
            /\ \A d \in Calls \ {c} : call'[d] = call[d]
        BY <1>1, <3>2 DEF RequestTypes, Request
      <3>4. \/ call[c].pc = "commit" /\ label = "committing"
            \/ label = "exCommitting"
        BY <2>1, <3>1 DEF SendCommit, CommitLabels, Waiting
      <3> QED BY <3>3, <3>4 DEF PaysOn
    <2>2. CASE CommitAnswered(c)
      <3>1. PICK label : label = IF At(c, "committing") THEN "credit" ELSE IF Latest(c).ok THEN "debit" ELSE "undo"
        OBVIOUS
      <3>2. GoTo(c, label)
        BY <2>2, <3>1 DEF CommitAnswered
      <3>3. \/ call[c].pc = "committing" /\ label = "credit"
            \/ label \in {"debit", "undo"}
        BY <3>1, Zenon DEF At
      <3> QED BY <1>1, <3>2, <3>3, GoToDoes DEF PaysOn
    <2>3. CASE CommitTimesOut(c)
      <3>1. PICK label : label = Sending(call[c].pc)
        OBVIOUS
      <3>2. GoTo(c, label) /\ call[c].of \in repeated' /\ call[c].pc \in {"committing", "exCommitting"}
        BY <1>1, <2>3, <3>1, TypeParts DEF CommitTimesOut
      <3>3. \/ call[c].pc = "committing" /\ label = "commit"
            \/ label = "exCommit"
        BY <3>1, <3>2 DEF Sending
      <3> QED BY <1>1, <3>2, <3>3, GoToDoes DEF PaysOn
    <2>4. CASE CommitFails(c)
      <3>1. PICK label : label = IF At(c, "commit") THEN "credit" ELSE "undo"
        OBVIOUS
      <3>2. GoTo(c, label)
        BY <2>4, <3>1 DEF CommitFails
      <3>3. \/ call[c].pc = "commit" /\ label = "credit"
            \/ label = "undo"
        BY <3>1, Zenon DEF At
      <3> QED BY <1>1, <3>2, <3>3, GoToDoes DEF PaysOn
    <2> QED BY <2>1, <2>2, <2>3, <2>4 DEF Commit
  <1>4. \/ call'[c].pc \notin Carrying
        \/ call'[c].of # n
        \/ Carries(c, n) /\ call'[c].bank = call[c].bank /\ PaysOn(c)
    <2>1. PaysOn(c) /\ call'[c].pc \in Carrying => call[c].pc \in Carrying
      BY Classes DEF PaysOn, AcceptLabels
    <2> QED BY <1>2, <1>3, <2>1 DEF Carries
  <1> QED BY <1>1, <1>3, <1>4, CallKeeps

LEMMA SealIsKept ==
  ASSUME TypeOK, RowInv, [Next]_vars, NEW n \in Negotiations, Sealed(n), n \notin doubted'
  PROVE  Kept(n)
  <1>1. ASSUME row' = row, linked' = linked, call' = call
        PROVE  Kept(n)
    BY <1>1 DEF Kept, Sealed, Carries, PaysOn, HasTurn, Status, Banks
  <1>2. ASSUME NEW c \in Calls, NEW i \in 1..MaxTries, CommitOtcInterbank(c, i)
        PROVE  Kept(n)
    BY <1>1, <1>2 DEF CommitOtcInterbank, LoadTx, DebitPremium, CreateBuyerContract, TakeShares,
       CreditStrike, MarkSellerContract, MarkCommitted, StopHandler, rowVars
  <1>3. CASE \/ Spend \/ SellShare
             \/ \E m \in Negotiations :
                  SettlementPasses(m) \/ \E k \in Banks : ExpireContract(k, m)
             \/ UNCHANGED vars
    BY <1>1, <1>3 DEF Spend, SellShare, SettlementPasses, ExpireContract, vars, rowVars
  <1>4. ASSUME NEW k \in Banks, Crash(k)
        PROVE  Kept(n)
    <2>1. RequestTypes /\ row' = row /\ linked' = linked
      BY <1>4, TypeParts DEF Crash, rowVars
    <2>2. ASSUME NEW d \in Calls, Carries(d, n)'
          PROVE  Carries(d, n) /\ call'[d] = call[d]
      <3>1. call'[d] = AfterCrash(d, k) /\ call[d] \in Request
        BY <1>4, <2>1, Fields DEF Crash
      <3>2. SellerRuns(d) \/ BuyerRuns(d) => call[d].of \in doubted'
        BY <1>4 DEF Crash
      <3>3. call'[d] = call[d] \/ call'[d] = Finished("end") \/ (SellerRuns(d) /\ call'[d].of = call[d].of)
        BY <3>1 DEF AfterCrash, Request
      <3>4. call'[d] # Finished("end")
        BY <2>2, Classes DEF Carries, Finished
      <3> QED BY <2>2, <3>2, <3>3, <3>4 DEF Carries
    <2> QED BY <2>1, <2>2 DEF Kept, Sealed, PaysOn, HasTurn, Status, Banks
  <1> QED BY <1>2, <1>3, <1>4, OfferKeepsSeal, ForwardKeepsSeal, AcceptanceKeepsSeal,
             ExerciseKeepsSeal, CommitKeepsSeal DEF Next

-----------------------------------------------------------------------------
(* The contracts, the votes and the counts of premiums, step by step.       *)
Deals == <<contract, tx, attempt, credited, debited, struck, short, lost>>
DealsOf(c) ==
  \/ PrepareAccept(c) \/ RollbackAccept(c) \/ InsertContract(c) \/ CreditSeller(c)
  \/ PrepareExercise(c) \/ RollbackExercise(c) \/ MarkExercised(c) \/ SendCommit(c)
  \/ \E i \in Handlers : CommitOtcInterbank(c, i)

LEMMA DealsStay ==
  ASSUME [Next]_vars
  PROVE  \/ UNCHANGED Deals
         \/ \E c \in Calls : DealsOf(c)
         \/ \E n \in Negotiations, k \in Banks : ExpireContract(k, n)
         \/ \E k \in Banks : Crash(k)
  <1>1. ASSUME NEW c \in Calls, NEW n \in Negotiations, Offer(c, n)
        PROVE  UNCHANGED Deals
    BY <1>1 DEF Offer, CreateNegotiation, CounterOffer, RejectNegotiation, AcceptNegotiation,
       AcceptBySeller, ExerciseContract, Deals, dealing, counts, marks
  <1>2. ASSUME NEW c \in Calls, Forward(c)
        PROVE  UNCHANGED Deals
    BY <1>2 DEF Forward, CreateInterbankNegotiation, ForwardFails, StorePartnerId,
       DropNegotiation, LookupInterbankNegotiation, RequestLost, InterbankCounterOffer,
       InterbankDeleteNegotiation, Deals, dealing, counts, marks
  <1>3. ASSUME NEW c \in Calls, RunAcceptance(c)
        PROVE  UNCHANGED Deals \/ DealsOf(c)
    BY <1>3 DEF RunAcceptance, GiveUp, Cancel, InterbankAcceptNegotiation, LoadNegotiation,
       NewTxFails, ReserveShares, RevertAccept, RevertAtBuyer, DealsOf, Deals, dealing, counts, marks
  <1>4. ASSUME NEW c \in Calls, RunExercise(c)
        PROVE  UNCHANGED Deals \/ DealsOf(c)
    BY <1>4 DEF RunExercise, ReserveFunds, PrepareFails, GiveBack, DebitBuyer, AddShares,
       DealsOf, Deals, dealing, counts, marks
  <1>5. ASSUME NEW c \in Calls, Commit(c)
        PROVE  UNCHANGED Deals \/ DealsOf(c)
    BY <1>5 DEF Commit, CommitAnswered, CommitTimesOut, CommitFails, DealsOf, Deals, dealing,
       counts, marks
  <1>6. CASE Spend \/ SellShare \/ UNCHANGED vars \/ \E n \in Negotiations : SettlementPasses(n)
    BY <1>6 DEF Spend, SellShare, SettlementPasses, Deals, counts, marks, vars
  <1>7. ASSUME NEW c \in Calls, NEW i \in 1..MaxTries, CommitOtcInterbank(c, i)
        PROVE  DealsOf(c)
    BY <1>7 DEF DealsOf, Handlers
  <1> QED BY <1>1, <1>2, <1>3, <1>4, <1>5, <1>6, <1>7 DEF Next

LEMMA MarksStay ==
  ASSUME [Next]_vars
  PROVE  short \subseteq short' /\ lost \subseteq lost' /\ doubted \subseteq doubted'
         /\ repeated \subseteq repeated'
  <1>1. ASSUME NEW c \in Calls, NEW n \in Negotiations, Offer(c, n)
        PROVE  UNCHANGED marks
    BY <1>1 DEF Offer, CreateNegotiation, CounterOffer, RejectNegotiation, AcceptNegotiation,
       AcceptBySeller, ExerciseContract
  <1>2. ASSUME NEW c \in Calls, Forward(c)
        PROVE  UNCHANGED marks
    BY <1>2 DEF Forward, CreateInterbankNegotiation, ForwardFails, StorePartnerId,
       DropNegotiation, LookupInterbankNegotiation, RequestLost, InterbankCounterOffer,
       InterbankDeleteNegotiation
  <1>3. ASSUME NEW c \in Calls, RunAcceptance(c)
        PROVE  short \subseteq short' /\ lost \subseteq lost' /\ doubted \subseteq doubted'
               /\ repeated \subseteq repeated'
    BY <1>3 DEF RunAcceptance, GiveUp, Cancel, InterbankAcceptNegotiation, LoadNegotiation,
       PrepareAccept, NewTxFails, ReserveShares, RollbackAccept, InsertContract, CreditSeller,
       RevertAccept, RevertAtBuyer, Vote, Loses, marks
  <1>4. ASSUME NEW c \in Calls, RunExercise(c)
        PROVE  short \subseteq short' /\ lost \subseteq lost' /\ doubted \subseteq doubted'
               /\ repeated \subseteq repeated'
    BY <1>4 DEF RunExercise, ReserveFunds, PrepareExercise, PrepareFails, RollbackExercise,
       GiveBack, DebitBuyer, AddShares, MarkExercised, Vote, Loses, marks
  <1>5. ASSUME NEW c \in Calls, Commit(c)
        PROVE  short \subseteq short' /\ lost \subseteq lost' /\ doubted \subseteq doubted'
               /\ repeated \subseteq repeated'
    BY <1>5 DEF Commit, SendCommit, CommitAnswered, CommitTimesOut, CommitFails, marks
  <1>6. ASSUME NEW c \in Calls, NEW i \in 1..MaxTries, CommitOtcInterbank(c, i)
        PROVE  short \subseteq short' /\ lost \subseteq lost' /\ doubted \subseteq doubted'
               /\ repeated \subseteq repeated'
    BY <1>6 DEF CommitOtcInterbank, LoadTx, DebitPremium, CreateBuyerContract, TakeShares,
       CreditStrike, MarkSellerContract, MarkCommitted, StopHandler, Loses, marks
  <1>7. CASE \/ Spend \/ SellShare \/ UNCHANGED vars
             \/ \E n \in Negotiations : SettlementPasses(n) \/ \E k \in Banks : ExpireContract(k, n)
             \/ \E k \in Banks : Crash(k)
    BY <1>7 DEF Spend, SellShare, SettlementPasses, ExpireContract, Crash, marks, vars
  <1> QED BY <1>1, <1>2, <1>3, <1>4, <1>5, <1>6, <1>7 DEF Next, marks

(* Who pays has inserted its contract, who exercises has found one.        *)
LEMMA Transitions ==
  ASSUME TypeOK, [Next]_vars, NEW d \in Calls
  PROVE  \/ call'[d].pc \notin Paying \cup ExerciseLabels
         \/ call'[d].of = call[d].of /\ call'[d].terms = call[d].terms
            /\ (call'[d].alive = call[d].alive \/ call[d].of \in doubted')
            /\ \/ call'[d].pc \in Paying /\ call[d].pc \in Paying
               \/ call'[d].pc \in ExerciseLabels /\ call[d].pc \in ExerciseLabels
         \/ InsertContract(d)
         \/ \E n \in Negotiations : ExerciseContract(d, n)
  <1>1. /\ RequestTypes /\ RowTypes /\ call[d] \in Request
        /\ Paying \cap ExerciseLabels = {} /\ {"end", "refused"} \cap (Paying \cup ExerciseLabels) = {}
    BY TypeParts, Fields DEF Paying, ExerciseLabels
  <1>2. CASE call'[d] = call[d]
    BY <1>2
  <1>3. ASSUME NEW c \in Calls, NEW n \in Negotiations, Offer(c, n)
        PROVE  \/ call'[d] = call[d] \/ call'[d].pc \notin Paying \cup ExerciseLabels
               \/ ExerciseContract(d, n)
    <2>1. ASSUME NEW k \in Banks, NEW t \in Terms, NEW label \in {"forward", "put", "delete"},
                 Begin(c, k, n, t, label)
          PROVE  call'[d] = call[d] \/ call'[d].pc \notin Paying \cup ExerciseLabels
      BY <1>1, <2>1, BeginDoes, LabelFacts DEF Paying, ExerciseLabels
    <2>2. ASSUME NEW k \in Banks, Accept(c, k, n)
          PROVE  call'[d] = call[d] \/ call'[d].pc \notin Paying \cup ExerciseLabels
      BY <1>1, <2>2, AcceptDoes DEF Paying, ExerciseLabels
    <2>3. CASE ExerciseContract(c, n)
      <3>1. contract[Buyer][n].terms \in Terms /\ Buyer \in Banks
        BY EntryFields, BankFacts
      <3> QED BY <1>1, <2>3, <3>1, BeginDoes, LabelFacts DEF ExerciseContract
    <2> QED BY <1>3, <2>1, <2>2, <2>3, BankFacts, EntryFields
        DEF Offer, CreateNegotiation, CounterOffer, RejectNegotiation, AcceptNegotiation, AcceptBySeller
  <1>4. ASSUME NEW c \in Calls, Forward(c)
        PROVE  call'[d] = call[d] \/ call'[d].pc \notin Paying \cup ExerciseLabels
    <2>1. Return(c) \/ \E label \in {"link", "drop", "putUpdate", "deleteUpdate"} : GoTo(c, label)
      BY <1>4 DEF Forward, CreateInterbankNegotiation, ForwardFails, StorePartnerId,
         DropNegotiation, LookupInterbankNegotiation, RequestLost, InterbankCounterOffer,
         InterbankDeleteNegotiation
    <2> QED BY <1>1, <2>1, ReturnDoes, GoToDoes DEF Finished, Paying, ExerciseLabels
  <1>5. ASSUME NEW c \in Calls, GiveUp(c) \/ Cancel(c)
        PROVE  \/ call'[d].pc = call[d].pc /\ call'[d].of = call[d].of
                  /\ call'[d].terms = call[d].terms /\ (call'[d].alive = call[d].alive \/ call[d].of \in doubted')
               \/ call'[d].pc \notin Paying \cup ExerciseLabels
    <2>1. CASE Return(c)
      BY <1>1, <2>1, ReturnDoes DEF Finished
    <2>2. CASE call' = [call EXCEPT ![c].waits = FALSE]
      BY <1>1, <2>2 DEF RequestTypes, Request
    <2>3. CASE call' = [call EXCEPT ![c].alive = FALSE] /\ call[c].of \in doubted'
      BY <1>1, <2>3 DEF RequestTypes, Request
    <2> QED BY <1>5, <2>1, <2>2, <2>3 DEF GiveUp, Cancel
  <1>6. ASSUME NEW c \in Calls, RunAcceptance(c), ~(GiveUp(c) \/ Cancel(c)), ~InsertContract(c)
        PROVE  call'[d] = call[d] \/ call'[d].pc \notin Paying \cup ExerciseLabels
    <2>1. \/ Return(c)
          \/ \E label \in {"load", "refused", "newTx", "revert", "reserve", "rollback", "contract"} :
               GoTo(c, label)
          \/ LoadNegotiation(c)
      BY <1>6 DEF RunAcceptance, InterbankAcceptNegotiation, PrepareAccept, NewTxFails,
         ReserveShares, RollbackAccept, CreditSeller, RevertAccept, RevertAtBuyer
    <2>2. CASE LoadNegotiation(c)
      <3>1. CASE call' = [call EXCEPT ![c] = [@ EXCEPT
                   !.pc = "newTx", !.terms = row[Seller][call[c].of].terms]]
        BY <1>1, <3>1 DEF RequestTypes, Request, Paying, ExerciseLabels
      <3> QED BY <1>1, <2>2, <3>1, GoToDoes DEF LoadNegotiation, Paying, ExerciseLabels
    <2> QED BY <1>1, <2>1, <2>2, ReturnDoes, GoToDoes DEF Finished, Paying, ExerciseLabels
  <1>7. ASSUME NEW c \in Calls, InsertContract(c)
        PROVE  call'[d] = call[d] \/ d = c
    BY <1>1, <1>7, GoToDoes DEF InsertContract
  <1>8. ASSUME NEW c \in Calls, RunExercise(c)
        PROVE  \/ call'[d] = call[d] \/ call'[d].pc \notin Paying \cup ExerciseLabels
               \/ /\ call'[d].of = call[d].of /\ call'[d].terms = call[d].terms
                  /\ call'[d].alive = call[d].alive
                  /\ call'[d].pc \in ExerciseLabels /\ call[d].pc \in ExerciseLabels
    <2>1. /\ Return(c) \/ \E label \in {"prepare", "exCommit", "giveBack", "deliver", "close"} : GoTo(c, label)
          /\ call[c].pc \in ExerciseLabels
      BY <1>8 DEF RunExercise, ReserveFunds, PrepareExercise, PrepareFails, RollbackExercise,
         GiveBack, DebitBuyer, AddShares, MarkExercised, At, ExerciseLabels
    <2>2. {"prepare", "exCommit", "giveBack", "deliver", "close"} \subseteq ExerciseLabels
      BY DEF ExerciseLabels
    <2> QED BY <1>1, <2>1, <2>2, ReturnDoes, GoToDoes DEF Finished
  <1>9. ASSUME NEW c \in Calls, Commit(c)
        PROVE  \/ call'[d] = call[d]
               \/ call'[d].of = call[d].of /\ call'[d].terms = call[d].terms
                  /\ call'[d].alive = call[d].alive
                  /\ \/ call'[d].pc \in Paying /\ call[d].pc \in Paying
                     \/ call'[d].pc \in ExerciseLabels /\ call[d].pc \in ExerciseLabels
    <2>1. CASE SendCommit(c)
      <3>1. PICK label : label = Waiting(call[c].pc)
        OBVIOUS
      <3>2. call' = [call EXCEPT ![c] = [call[c] EXCEPT !.pc = label, !.tries = call[c].tries + 1]]
        BY <2>1, <3>1 DEF SendCommit
      <3>3. /\ call'[c].pc = label /\ call'[c].of = call[c].of /\ call'[c].terms = call[c].terms
            /\ call'[c].alive = call[c].alive
            /\ \A e \in Calls \ {c} : call'[e] = call[e]
        BY <1>1, <3>2 DEF RequestTypes, Request
      <3>4. \/ call[c].pc = "commit" /\ label = "committing"
            \/ call[c].pc = "exCommit" /\ label = "exCommitting"
        BY <2>1, <3>1 DEF SendCommit, CommitLabels, Waiting
      <3> QED BY <3>3, <3>4 DEF Paying, ExerciseLabels
    <2>2. CASE CommitAnswered(c)
      <3>1. PICK label : label = IF At(c, "committing") THEN "credit" ELSE IF Latest(c).ok THEN "debit" ELSE "undo"
        OBVIOUS
      <3>2. GoTo(c, label) /\ call[c].pc \in {"committing", "exCommitting"}
        BY <2>2, <3>1 DEF CommitAnswered
      <3>3. \/ call[c].pc = "committing" /\ label = "credit"
            \/ call[c].pc = "exCommitting" /\ label \in {"debit", "undo"}
        BY <3>1, <3>2, Zenon DEF At
      <3> QED BY <1>1, <3>2, <3>3, GoToDoes DEF Paying, ExerciseLabels
    <2>3. CASE CommitTimesOut(c)
      <3>1. PICK label : label = Sending(call[c].pc)
        OBVIOUS
      <3>2. GoTo(c, label) /\ call[c].pc \in {"committing", "exCommitting"}
        BY <2>3, <3>1 DEF CommitTimesOut
      <3>3. \/ call[c].pc = "committing" /\ label = "commit"
            \/ call[c].pc = "exCommitting" /\ label = "exCommit"
        BY <3>1, <3>2 DEF Sending
      <3> QED BY <1>1, <3>2, <3>3, GoToDoes DEF Paying, ExerciseLabels
    <2>4. CASE CommitFails(c)
      <3>1. PICK label : label = IF At(c, "commit") THEN "credit" ELSE "undo"
        OBVIOUS
      <3>2. GoTo(c, label) /\ call[c].pc \in {"commit", "exCommit"}
        BY <2>4, <3>1 DEF CommitFails, CommitLabels
      <3>3. \/ call[c].pc = "commit" /\ label = "credit"
            \/ call[c].pc = "exCommit" /\ label = "undo"
        BY <3>1, <3>2, Zenon DEF At
      <3> QED BY <1>1, <3>2, <3>3, GoToDoes DEF Paying, ExerciseLabels
    <2> QED BY <1>9, <2>1, <2>2, <2>3, <2>4 DEF Commit
  <1>10. ASSUME NEW k \in Banks, Crash(k)
         PROVE  \/ call'[d].pc = call[d].pc /\ call'[d].of = call[d].of
                   /\ call'[d].terms = call[d].terms /\ call'[d].alive = call[d].alive
                \/ call'[d].pc \notin Paying \cup ExerciseLabels
    <2>1. call'[d] = AfterCrash(d, k)
      BY <1>10 DEF Crash
    <2>2. \/ call'[d] = Finished("end") \/ call'[d] = call[d]
          \/ call'[d] = [call[d] EXCEPT !.pc = "refused"]
          \/ call'[d] = [call[d] EXCEPT !.waits = FALSE]
      BY <2>1, Zenon DEF AfterCrash
    <2> QED BY <1>1, <2>2 DEF Finished, Request
  <1>11. ASSUME NEW c \in Calls, NEW i \in 1..MaxTries, CommitOtcInterbank(c, i)
         PROVE  call'[d] = call[d]
    BY <1>11 DEF CommitOtcInterbank, LoadTx, DebitPremium, CreateBuyerContract, TakeShares,
       CreditStrike, MarkSellerContract, MarkCommitted, StopHandler
  <1>12. CASE \/ Spend \/ SellShare \/ UNCHANGED vars
              \/ \E n \in Negotiations : SettlementPasses(n) \/ \E k \in Banks : ExpireContract(k, n)
    BY <1>12 DEF Spend, SellShare, SettlementPasses, ExpireContract, vars
  <1>13. ASSUME NEW c \in Calls, RunAcceptance(c)
         PROVE  \/ call'[d] = call[d] \/ call'[d].pc \notin Paying \cup ExerciseLabels
                \/ /\ call'[d].pc = call[d].pc /\ call'[d].of = call[d].of
                   /\ call'[d].terms = call[d].terms /\ (call'[d].alive = call[d].alive \/ call[d].of \in doubted')
                \/ InsertContract(d)
    BY <1>13, <1>5, <1>6, <1>7
  <1> QED BY <1>3, <1>4, <1>8, <1>9, <1>10, <1>11, <1>12, <1>13 DEF Next

(* A contract is inserted once, with the terms its call has read; later      *)
(* writes change its status alone.                                           *)
Backed ==
  /\ \A c \in Calls : call[c].pc \in ExerciseLabels => Present(Buyer, call[c].of)
  /\ \A c \in Calls : Voted(c) /\ tx[c].type = "EXERCISE" =>
       Present(Seller, tx[c].of) /\ tx[c].amount = Sold(tx[c].of)

Stands(k, n) ==
  \/ contract'[k][n] = contract[k][n]
  \/ Present(k, n) /\ Present(k, n)' /\ contract'[k][n].terms = contract[k][n].terms

LEMMA ContractStep ==
  ASSUME TypeOK, TxInv, Backed, [Next]_vars, NEW k \in Banks, NEW n \in Negotiations
  PROVE  \/ Stands(k, n)
         \/ /\ k = Seller /\ ~Present(k, n)
            /\ \E c \in Calls : InsertContract(c) /\ call[c].of = n
                 /\ contract'[k][n].terms = call[c].terms
         \/ /\ k = Buyer /\ ~Present(k, n)
            /\ \E c \in Calls, i \in Handlers : CreateBuyerContract(c, i) /\ tx[c].of = n
                 /\ contract'[k][n].terms = attempt[c][i].terms
  <1>1. /\ ContractTypes /\ RequestTypes /\ Buyer \in Banks /\ Seller \in Banks
        /\ contract[k][n] \in Contract
    BY TypeParts, BankFacts, EntryFields
  <1>2. ASSUME contract' = contract PROVE Stands(k, n)
    BY <1>2 DEF Stands
  <1>3. ASSUME NEW j \in Banks, NEW m \in Negotiations, Present(j, m),
               NEW status \in {"EXERCISED", "EXPIRED"},
               contract' = [contract EXCEPT ![j][m].status = status]
        PROVE  Stands(k, n)
    BY <1>1, <1>3, CloseDoes DEF Stands, Present
  <1>4. ASSUME NEW c \in Calls, InsertContract(c), ~Stands(k, n)
        PROVE  k = Seller /\ ~Present(k, n) /\ call[c].of = n /\ contract'[k][n].terms = call[c].terms
    <2>1. call[c].of \in Negotiations /\ call[c].terms \in Terms
      BY <1>1, Fields
    <2>2. Insert(Seller, call[c].of, call[c].terms)
      BY <1>2, <1>4 DEF InsertContract
    <2> QED BY <1>1, <1>4, <2>1, <2>2, InsertDoes DEF Stands, Present
  <1>5. ASSUME NEW c \in Calls, NEW i \in Handlers, CreateBuyerContract(c, i), ~Stands(k, n)
        PROVE  k = Buyer /\ ~Present(k, n) /\ tx[c].of = n /\ contract'[k][n].terms = attempt[c][i].terms
    <2>1. tx[c].of \in Negotiations /\ attempt[c][i].terms \in Terms
      BY HandlerFields
    <2>2. Insert(Buyer, tx[c].of, attempt[c][i].terms)
      BY <1>2, <1>5 DEF CreateBuyerContract
    <2> QED BY <1>1, <1>5, <2>1, <2>2, InsertDoes DEF Stands, Present
  <1>6. ASSUME NEW c \in Calls, MarkExercised(c)
        PROVE  Stands(k, n)
    <2>1. call[c].of \in Negotiations /\ Present(Buyer, call[c].of)
      BY <1>1, <1>6, Fields DEF Backed, MarkExercised, At, ExerciseLabels
    <2> QED BY <1>1, <1>2, <1>3, <1>6, <2>1 DEF MarkExercised
  <1>7. ASSUME NEW c \in Calls, NEW i \in Handlers, CommitOtcInterbank(c, i),
               ~CreateBuyerContract(c, i)
        PROVE  Stands(k, n)
    <2>1. CASE MarkSellerContract(c, i)
      <3>1. Voted(c) /\ tx[c].type = "EXERCISE"
        BY <2>1 DEF TxInv, CallInv, HandlerInv, MarkSellerContract, Is
      <3>2. Present(Seller, tx[c].of) /\ tx[c].of \in Negotiations
        BY <3>1, HandlerFields DEF Backed
      <3> QED BY <1>1, <1>2, <1>3, <2>1, <3>2 DEF MarkSellerContract
    <2>2. CASE ~MarkSellerContract(c, i)
      BY <1>2, <1>7, <2>2 DEF CommitOtcInterbank, LoadTx, DebitPremium, TakeShares,
         CreditStrike, MarkCommitted, StopHandler
    <2> QED BY <2>1, <2>2
  <1>8. ASSUME NEW m \in Negotiations, NEW j \in Banks, ExpireContract(j, m)
        PROVE  Stands(k, n)
    BY <1>3, <1>8 DEF ExpireContract, Present
  <1>9. ASSUME NEW c \in Calls, DealsOf(c), ~InsertContract(c), ~MarkExercised(c),
               \A i \in Handlers : ~CommitOtcInterbank(c, i)
        PROVE  contract' = contract
    BY <1>9 DEF DealsOf, PrepareAccept, RollbackAccept, CreditSeller, PrepareExercise,
       RollbackExercise, SendCommit
  <1>10. ASSUME NEW j \in Banks, Crash(j)
         PROVE  contract' = contract
    BY <1>10 DEF Crash
  <1>11. UNCHANGED Deals => contract' = contract
    BY DEF Deals
  <1> QED BY <1>2, <1>4, <1>5, <1>6, <1>7, <1>8, <1>9, <1>10, <1>11, DealsStay

(* The vote of a call is given once. *)
LEMMA VoteStep ==
  ASSUME TypeOK, TxInv, [Next]_vars, NEW c \in Calls
  PROVE  \/ /\ tx'[c].of = tx[c].of /\ tx'[c].type = tx[c].type /\ tx'[c].amount = tx[c].amount
            /\ Voted(c)' <=> Voted(c)
         \/ /\ PrepareAccept(c) /\ ~Voted(c) /\ MayAccept(call[c].of)
            /\ tx'[c].status = "PENDING" /\ tx'[c].type = "ACCEPT" /\ tx'[c].of = call[c].of
         \/ /\ PrepareExercise(c) /\ ~Voted(c)
            /\ MayExercise(call[c].of, Amount[call[c].terms])
            /\ tx'[c].status = "PENDING" /\ tx'[c].type = "EXERCISE"
            /\ tx'[c].of = call[c].of /\ tx'[c].amount = Amount[call[c].terms]
  <1>1. /\ HandlerTypes /\ MarkTypes /\ RequestTypes /\ 1 \in Nat
        /\ \A d \in Calls : tx[d] \in BankVote /\ call[d].of \in Negotiations /\ Amount[call[d].terms] \in Nat
    BY TypeParts, Fields, Chosen DEF HandlerTypes
  <1>2. CASE tx'[c] = tx[c]
    BY <1>2 DEF Voted
  <1>3. ASSUME NEW d \in Calls, PrepareAccept(d), tx'[c] # tx[c]
        PROVE  /\ c = d /\ ~Voted(c) /\ MayAccept(call[c].of)
               /\ tx'[c].status = "PENDING" /\ tx'[c].type = "ACCEPT" /\ tx'[c].of = call[c].of
    <2>1. Vote(d, "ACCEPT", call[d].of, 1) /\ MayAccept(call[d].of)
      BY <1>3 DEF PrepareAccept
    <2>2. c = d
      BY <1>1, <1>3, <2>1, VoteDoes
    <2>3. ~Voted(d)
      BY <1>3 DEF TxInv, CallInv, VoteInv, PrepareAccept, At, Early
    <2> QED BY <1>1, <1>3, <2>1, <2>2, <2>3, VoteDoes
  <1>4. ASSUME NEW d \in Calls, PrepareExercise(d), tx'[c] # tx[c]
        PROVE  /\ c = d /\ ~Voted(c) /\ MayExercise(call[c].of, Amount[call[c].terms])
               /\ tx'[c].status = "PENDING" /\ tx'[c].type = "EXERCISE"
               /\ tx'[c].of = call[c].of /\ tx'[c].amount = Amount[call[c].terms]
    <2>1. /\ Vote(d, "EXERCISE", call[d].of, Amount[call[d].terms])
          /\ MayExercise(call[d].of, Amount[call[d].terms])
      BY <1>4 DEF PrepareExercise
    <2>2. c = d
      BY <1>1, <1>4, <2>1, VoteDoes
    <2>3. ~Voted(d)
      BY <1>4 DEF TxInv, CallInv, VoteInv, PrepareExercise, At, Early
    <2> QED BY <1>1, <1>4, <2>1, <2>2, <2>3, VoteDoes
  <1>5. ASSUME NEW d \in Calls, RollBack(d)
        PROVE  /\ tx'[c].of = tx[c].of /\ tx'[c].type = tx[c].type /\ tx'[c].amount = tx[c].amount
               /\ Voted(c)' <=> Voted(c)
    BY <1>1, <1>5, RollBackDoes DEF Voted
  <1>6. ASSUME NEW d \in Calls, RollbackAccept(d) \/ RollbackExercise(d)
        PROVE  /\ tx'[c].of = tx[c].of /\ tx'[c].type = tx[c].type /\ tx'[c].amount = tx[c].amount
               /\ Voted(c)' <=> Voted(c)
    BY <1>2, <1>5, <1>6 DEF RollbackAccept, RollbackExercise, Voted
  <1>7. ASSUME NEW d \in Calls, NEW i \in Handlers, CommitOtcInterbank(d, i)
        PROVE  /\ tx'[c].of = tx[c].of /\ tx'[c].type = tx[c].type /\ tx'[c].amount = tx[c].amount
               /\ Voted(c)' <=> Voted(c)
    <2>1. CASE MarkCommitted(d, i) /\ tx' = [tx EXCEPT ![d].status = "COMMITTED"]
      <3>1. Voted(d)
        BY <2>1 DEF TxInv, CallInv, HandlerInv, MarkCommitted, Is
      <3>2. /\ tx'[d].status = "COMMITTED" /\ tx'[d].of = tx[d].of /\ tx'[d].type = tx[d].type
            /\ tx'[d].amount = tx[d].amount
            /\ \A e \in Calls \ {d} : tx'[e] = tx[e]
        BY <1>1, <2>1 DEF HandlerTypes, BankVote
      <3> QED BY <3>1, <3>2 DEF Voted
    <2>2. CASE tx' = tx
      BY <2>2 DEF Voted
    <2> QED BY <1>7, <2>1, <2>2 DEF CommitOtcInterbank, LoadTx, DebitPremium, CreateBuyerContract,
            TakeShares, CreditStrike, MarkSellerContract, MarkCommitted, StopHandler
  <1>8. ASSUME NEW d \in Calls, DealsOf(d), ~PrepareAccept(d), ~PrepareExercise(d),
               ~RollbackAccept(d), ~RollbackExercise(d),
               \A i \in Handlers : ~CommitOtcInterbank(d, i)
        PROVE  tx' = tx
    BY <1>8 DEF DealsOf, InsertContract, CreditSeller, MarkExercised, SendCommit
  <1>9. ASSUME \/ \E k \in Banks : Crash(k)
               \/ \E n \in Negotiations, k \in Banks : ExpireContract(k, n)
               \/ UNCHANGED Deals
        PROVE  tx' = tx
    BY <1>9 DEF Crash, ExpireContract, Deals
  <1> QED BY <1>2, <1>3, <1>4, <1>6, <1>7, <1>8, <1>9, DealsStay

(* A handler of an acceptance starts while its call waits, loads, debits    *)
(* and inserts.                                                             *)
LEMMA HandlerStep ==
  ASSUME TypeOK, [Next]_vars, NEW c \in Calls, NEW i \in Handlers
  PROVE  \/ attempt'[c][i] = attempt[c][i]
         \/ attempt'[c][i].pc \notin Debiting
         \/ /\ SendCommit(c) /\ i = call[c].tries + 1 /\ attempt'[c][i].pc = "load"
         \/ /\ LoadTx(c, i) /\ attempt'[c][i].pc = "debit" /\ tx[c].type = "ACCEPT"
            /\ tx[c].status = "PENDING"
            /\ attempt'[c][i].terms = row[Buyer][tx[c].of].terms
         \/ /\ DebitPremium(c, i) /\ attempt'[c][i].pc = "insert"
            /\ attempt'[c][i].terms = attempt[c][i].terms
  <1>1. HandlerTypes /\ attempt[c][i] \in Handler /\ tx[c] \in BankVote
    BY TypeParts, HandlerFields
  <1>2. ASSUME NEW d \in Calls, SendCommit(d)
        PROVE  attempt'[c][i] = attempt[c][i] \/ (d = c /\ i = call[c].tries + 1 /\ attempt'[c][i].pc = "load")
    <2>1. PICK j : j = call[d].tries + 1
      OBVIOUS
    <2>2. attempt' = [attempt EXCEPT ![d][j].pc = "load"]
      BY <1>2, <2>1 DEF SendCommit
    <2> QED BY <1>1, <2>1, <2>2 DEF HandlerTypes, Handler
  <1>3. ASSUME NEW d \in Calls, NEW j \in Handlers, NEW ok \in BOOLEAN, End(d, j, ok)
        PROVE  attempt'[c][i] = attempt[c][i] \/ attempt'[c][i].pc \notin Debiting
    BY <1>1, <1>3, EndDoes DEF Debiting
  <1>4. ASSUME NEW d \in Calls, NEW j \in Handlers, NEW label \in {"mark", "strike", "exercised"},
               Proceed(d, j, label)
        PROVE  attempt'[c][i] = attempt[c][i] \/ attempt'[c][i].pc \notin Debiting
    BY <1>1, <1>4, ProceedDoes DEF Debiting, HandlerLabels
  <1>5. ASSUME NEW d \in Calls, NEW j \in Handlers, DebitPremium(d, j)
        PROVE  \/ attempt'[c][i] = attempt[c][i]
               \/ d = c /\ j = i /\ attempt'[c][i].pc = "insert"
                  /\ attempt'[c][i].terms = attempt[c][i].terms
    BY <1>1, <1>5, ProceedDoes DEF DebitPremium, HandlerLabels
  <1>6. ASSUME NEW d \in Calls, NEW j \in Handlers, LoadTx(d, j)
        PROVE  \/ attempt'[c][i] = attempt[c][i]
               \/ attempt'[c][i].pc \notin Debiting
               \/ d = c /\ j = i /\ attempt'[c][i].pc = "debit" /\ tx[c].type = "ACCEPT"
                  /\ tx[c].status = "PENDING"
                  /\ attempt'[c][i].terms = row[Buyer][tx[c].of].terms
    <2>1. CASE \E ok \in BOOLEAN : End(d, j, ok)
      BY <1>3, <2>1
    <2>2. CASE /\ tx[d].status = "PENDING"
               /\ attempt' = [attempt EXCEPT ![d][j] = [@ EXCEPT
                    !.pc = IF tx[d].type = "ACCEPT" THEN "debit" ELSE "shares",
                    !.terms = IF tx[d].type = "ACCEPT" THEN row[Buyer][tx[d].of].terms
                              ELSE contract[Seller][tx[d].of].terms]]
      <3>1. PICK label : label = IF tx[d].type = "ACCEPT" THEN "debit" ELSE "shares"
        OBVIOUS
      <3>2. PICK t : t = IF tx[d].type = "ACCEPT" THEN row[Buyer][tx[d].of].terms
                         ELSE contract[Seller][tx[d].of].terms
        OBVIOUS
      <3>3. attempt' = [attempt EXCEPT ![d][j] = [attempt[d][j] EXCEPT !.pc = label, !.terms = t]]
        BY <2>2, <3>1, <3>2 DEF HandlerTypes
      <3>4. /\ attempt[d][j] \in Handler
            /\ attempt'[d][j].pc = label /\ attempt'[d][j].terms = t
            /\ \A e \in Calls, h \in Handlers : e # d \/ h # j => attempt'[e][h] = attempt[e][h]
        BY <1>1, <3>3 DEF HandlerTypes, Handler
      <3>5. CASE tx[d].type = "ACCEPT"
        BY <2>2, <3>1, <3>2, <3>4, <3>5
      <3>6. CASE tx[d].type # "ACCEPT"
        BY <3>1, <3>4, <3>6 DEF Debiting
      <3> QED BY <3>5, <3>6
    <2>3. (tx[d].status # "ROLLED_BACK") \in BOOLEAN /\ FALSE \in BOOLEAN
      OBVIOUS
    <2> QED BY <1>6, <2>1, <2>2, <2>3 DEF LoadTx
  <1>7. ASSUME NEW d \in Calls, NEW j \in Handlers, CommitOtcInterbank(d, j),
               ~LoadTx(d, j), ~DebitPremium(d, j)
        PROVE  attempt'[c][i] = attempt[c][i] \/ attempt'[c][i].pc \notin Debiting
    BY <1>3, <1>4, <1>7 DEF CommitOtcInterbank, CreateBuyerContract, TakeShares, CreditStrike,
       MarkSellerContract, MarkCommitted, StopHandler
  <1>8. ASSUME NEW d \in Calls, DealsOf(d), ~SendCommit(d),
               \A j \in Handlers : ~CommitOtcInterbank(d, j)
        PROVE  attempt' = attempt
    BY <1>8 DEF DealsOf, PrepareAccept, RollbackAccept, InsertContract, CreditSeller,
       PrepareExercise, RollbackExercise, MarkExercised
  <1>9. ASSUME NEW k \in Banks, Crash(k)
        PROVE  attempt'[c][i] = attempt[c][i] \/ attempt'[c][i].pc \notin Debiting
    <2>1. attempt'[c][i] =
            IF VoterOf(c) = k /\ ~Is(c, i, "none") /\ ~Is(c, i, "done")
            THEN [attempt[c][i] EXCEPT !.pc = "done", !.ok = FALSE] ELSE attempt[c][i]
      BY <1>9 DEF Crash, Handlers
    <2>2. \/ attempt'[c][i] = attempt[c][i]
          \/ attempt'[c][i] = [attempt[c][i] EXCEPT !.pc = "done", !.ok = FALSE]
      BY <2>1, Zenon
    <2> QED BY <1>1, <2>2 DEF Handler, Debiting
  <1>10. ASSUME (\E n \in Negotiations, k \in Banks : ExpireContract(k, n)) \/ UNCHANGED Deals
         PROVE  attempt' = attempt
    BY <1>10 DEF ExpireContract, Deals
  <1> QED BY <1>2, <1>5, <1>6, <1>7, <1>8, <1>9, <1>10, DealsStay

LEMMA CountStep ==
  ASSUME TypeOK, [Next]_vars, NEW n \in Negotiations
  PROVE  /\ credited[n] \in Nat /\ debited[n] \in Nat
         /\ \/ credited'[n] = credited[n]
            \/ \E c \in Calls : CreditSeller(c) /\ call[c].of = n /\ credited'[n] = credited[n] + 1
         /\ \/ debited'[n] = debited[n]
            \/ \E c \in Calls, i \in Handlers : DebitPremium(c, i) /\ tx[c].of = n
                 /\ debited'[n] = debited[n] + 1
  <1>1. /\ CountTypes /\ RequestTypes /\ credited[n] \in Nat /\ debited[n] \in Nat
        /\ \A c \in Calls : call[c].of \in Negotiations
    BY TypeParts, Fields DEF CountTypes
  <1>2. ASSUME NEW c \in Calls, CreditSeller(c)
        PROVE  /\ debited'[n] = debited[n]
               /\ credited'[n] = credited[n] \/ (call[c].of = n /\ credited'[n] = credited[n] + 1)
    <2>1. PICK m \in Negotiations : m = call[c].of
      BY <1>1
    <2>2. credited' = credited \/ credited' = [credited EXCEPT ![m] = credited[m] + 1]
      BY <1>1, <1>2, <2>1 DEF CreditSeller, CountTypes
    <2>3. credited'[n] = credited[n] \/ (m = n /\ credited'[n] = credited[n] + 1)
      BY <1>1, <2>2 DEF CountTypes
    <2> QED BY <1>2, <2>1, <2>3 DEF CreditSeller
  <1>3. ASSUME NEW c \in Calls, NEW i \in Handlers, CommitOtcInterbank(c, i)
        PROVE  /\ credited'[n] = credited[n]
               /\ \/ debited'[n] = debited[n]
                  \/ DebitPremium(c, i) /\ tx[c].of = n /\ debited'[n] = debited[n] + 1
    <2>1. CASE DebitPremium(c, i)
      <3>1. PICK m \in Negotiations : m = tx[c].of
        BY HandlerFields
      <3>2. debited' = debited \/ debited' = [debited EXCEPT ![m] = debited[m] + 1]
        BY <1>1, <2>1, <3>1 DEF DebitPremium, CountTypes
      <3>3. debited'[n] = debited[n] \/ (m = n /\ debited'[n] = debited[n] + 1)
        BY <1>1, <3>2 DEF CountTypes
      <3> QED BY <2>1, <3>1, <3>3 DEF DebitPremium
    <2>2. CASE ~DebitPremium(c, i)
      BY <1>3, <2>2 DEF CommitOtcInterbank, LoadTx, CreateBuyerContract, TakeShares, CreditStrike,
         MarkSellerContract, MarkCommitted, StopHandler, counts
    <2> QED BY <2>1, <2>2
  <1>4. ASSUME NEW c \in Calls, DealsOf(c), ~CreditSeller(c),
               \A i \in Handlers : ~CommitOtcInterbank(c, i)
        PROVE  credited' = credited /\ debited' = debited
    BY <1>4 DEF DealsOf, PrepareAccept, RollbackAccept, InsertContract,
       PrepareExercise, RollbackExercise, MarkExercised, SendCommit, counts
  <1>5. ASSUME \/ \E k \in Banks : Crash(k)
               \/ \E m \in Negotiations, k \in Banks : ExpireContract(k, m)
               \/ UNCHANGED Deals
        PROVE  credited' = credited /\ debited' = debited
    BY <1>5 DEF Crash, ExpireContract, Deals, counts
  <1> QED BY <1>1, <1>2, <1>3, <1>4, <1>5, DealsStay

LEMMA ContractsGrow ==
  ASSUME TypeOK, TxInv, Backed, [Next]_vars, NEW k \in Banks, NEW n \in Negotiations, Present(k, n)
  PROVE  Present(k, n)' /\ contract'[k][n].terms = contract[k][n].terms
  <1>1. Stands(k, n)
    BY ContractStep
  <1> QED BY <1>1 DEF Stands, Present

LEMMA BackedStep ==
  ASSUME TypeOK, TxInv, Backed, [Next]_vars
  PROVE  Backed'
  <1>1. RequestTypes /\ Buyer \in Banks /\ Seller \in Banks
    BY TypeParts, BankFacts
  <1>2. ASSUME NEW c \in Calls, call'[c].pc \in ExerciseLabels
        PROVE  Present(Buyer, call[c].of)'
    <2>1. CASE call'[c].of = call[c].of /\ call[c].pc \in ExerciseLabels
      <3>1. PICK n \in Negotiations : n = call[c].of
        BY <1>1, Fields
      <3>2. Present(Buyer, n)
        BY <2>1, <3>1 DEF Backed
      <3>3. Present(Buyer, n)'
        BY <1>1, <3>2, ContractsGrow
      <3> QED BY <2>1, <3>1, <3>3 DEF Present
    <2>2. ~InsertContract(c)
      BY <1>1, <1>2, GoToDoes DEF InsertContract, ExerciseLabels
    <2>3. ASSUME NEW n \in Negotiations, ExerciseContract(c, n)
          PROVE  call'[c].of = n /\ Present(Buyer, n)'
      <3>1. contract[Buyer][n].terms \in Terms /\ Present(Buyer, n)
        BY <1>1, <2>3, EntryFields DEF ExerciseContract, Present
      <3>2. Present(Buyer, n)'
        BY <1>1, <3>1, ContractsGrow
      <3> QED BY <1>1, <2>3, <3>1, <3>2, BeginDoes, LabelFacts DEF ExerciseContract
    <2>4. ASSUME NEW n \in Negotiations, ExerciseContract(c, n)
          PROVE  Present(Buyer, call[c].of)'
      BY <2>3, <2>4 DEF Present
    <2> QED BY <1>2, <2>1, <2>2, <2>4, Transitions DEF Paying, ExerciseLabels
  <1>3. ASSUME NEW c \in Calls, Voted(c)', tx'[c].type = "EXERCISE"
        PROVE  Present(Seller, tx[c].of)' /\ tx'[c].amount = Sold(tx[c].of)'
    <2>1. CASE Voted(c) /\ tx'[c].of = tx[c].of /\ tx'[c].type = tx[c].type /\ tx'[c].amount = tx[c].amount
      <3>1. PICK n \in Negotiations : n = tx[c].of
        BY TypeParts DEF HandlerTypes, BankVote
      <3>2. Present(Seller, n) /\ tx[c].amount = Sold(n)
        BY <1>3, <2>1, <3>1 DEF Backed
      <3>3. Present(Seller, n)' /\ Sold(n)' = Sold(n)
        BY <1>1, <3>2, ContractsGrow, SMTT(30) DEF Sold
      <3> QED BY <2>1, <3>1, <3>2, <3>3 DEF Present, Sold
    <2>2. CASE /\ PrepareExercise(c) /\ MayExercise(call[c].of, Amount[call[c].terms])
               /\ tx'[c].of = call[c].of /\ tx'[c].amount = Amount[call[c].terms]
      <3>1. PICK n \in Negotiations : n = call[c].of
        BY <1>1, Fields
      <3>2. Present(Seller, n) /\ Amount[call[c].terms] = Sold(n)
        BY <2>2, <3>1 DEF MayExercise, Present, Sold
      <3>3. Present(Seller, n)' /\ Sold(n)' = Sold(n)
        BY <1>1, <3>2, ContractsGrow DEF Sold
      <3> QED BY <2>2, <3>1, <3>2, <3>3 DEF Present, Sold
    <2> QED BY <1>3, <2>1, <2>2, VoteStep
  <1> QED BY <1>2, <1>3 DEF Backed

(* Who pays, and a handler that takes the premium, has the seller's         *)
(* contract behind it; who has the buyer's has tried to take the premium.   *)
Granted(n) == Present(Seller, n) \/ n \in lost
Tried(n) == debited[n] >= 1 \/ n \in short
Debits(c, i) == Voted(c) /\ tx[c].type = "ACCEPT" /\ attempt[c][i].pc \in Debiting
Grounds ==
  /\ \A n \in Negotiations : Present(Buyer, n) => Tried(n) /\ Granted(n)
  /\ \A c \in Calls : call[c].pc \in Paying => Granted(call[c].of)
  /\ \A c \in Calls, i \in Handlers : Debits(c, i) =>
       Granted(tx[c].of) /\ (attempt[c][i].pc = "insert" => Tried(tx[c].of))

LEMMA GroundsGrow ==
  ASSUME TypeOK, TxInv, Backed, [Next]_vars, NEW n \in Negotiations
  PROVE  (Granted(n) => Granted(n)') /\ (Tried(n) => Tried(n)')
  <1>1. Seller \in Banks /\ debited[n] \in Nat /\ debited'[n] \in {debited[n], debited[n] + 1}
    BY BankFacts, CountStep, SMTT(30)
  <1> QED BY <1>1, ContractsGrow, MarksStay DEF Granted, Tried

(* A handler of an acceptance before a step that leaves it one.             *)
LEMMA DebitsBefore ==
  ASSUME TypeOK, TxInv, [Next]_vars, NEW c \in Calls, NEW i \in Handlers, Debits(c, i)'
  PROVE  /\ Voted(c) /\ tx[c].type = "ACCEPT" /\ tx'[c].of = tx[c].of
         /\ \/ attempt'[c][i] = attempt[c][i]
            \/ /\ SendCommit(c) /\ i = call[c].tries + 1 /\ attempt'[c][i].pc = "load"
               /\ call[c].pc = "commit" /\ call[c].of = tx[c].of
            \/ /\ LoadTx(c, i) /\ attempt'[c][i].pc = "debit" /\ attempt[c][i].pc = "load"
               /\ attempt'[c][i].terms = row[Buyer][tx[c].of].terms
            \/ /\ DebitPremium(c, i) /\ attempt'[c][i].pc = "insert" /\ attempt[c][i].pc = "debit"
               /\ attempt'[c][i].terms = attempt[c][i].terms
  <1>1. CallInv(c) /\ RequestTypes
    BY TypeParts DEF TxInv
  <1>2. ASSUME PrepareAccept(c) \/ PrepareExercise(c)
        PROVE  FALSE
    <2>1. call[c].pc \in {"newTx", "prepare"} /\ attempt' = attempt
      BY <1>2 DEF PrepareAccept, PrepareExercise, At
    <2>2. attempt[c][i].pc = "none"
      BY <1>1, <2>1 DEF CallInv, SentInv, NoneSent, Sent
    <2> QED BY <2>1, <2>2 DEF Debits, Debiting
  <1>3. Voted(c) /\ tx[c].type = "ACCEPT" /\ tx'[c].of = tx[c].of
    BY <1>2, VoteStep DEF Debits
  <1>4. ASSUME SendCommit(c) PROVE call[c].pc = "commit" /\ call[c].of = tx[c].of
    <2>1. call[c].pc \in {"commit", "exCommit"}
      BY <1>4 DEF SendCommit, CommitLabels
    <2> QED BY <1>1, <1>3, <2>1, Classes DEF CallInv, VoteInv, Accepting, AcceptLabels
  <1> QED BY <1>3, <1>4, HandlerStep, ZenonT(60) DEF Debits, LoadTx, DebitPremium, Is

LEMMA GroundsStep ==
  ASSUME TypeOK, TxInv, Backed, Grounds, [Next]_vars
  PROVE  Grounds'
  <1>1. /\ RequestTypes /\ HandlerTypes /\ Buyer \in Banks /\ Seller \in Banks /\ Buyer # Seller
        /\ ContractTypes
    BY TypeParts, BankFacts
  <1>2. ASSUME NEW n \in Negotiations, Present(Buyer, n)'
        PROVE  Tried(n)' /\ Granted(n)'
    <2>1. CASE Present(Buyer, n)
      BY <2>1, GroundsGrow DEF Grounds
    <2>2. CASE ~Present(Buyer, n)
      <3>1. PICK c \in Calls, i \in Handlers : CreateBuyerContract(c, i) /\ tx[c].of = n
        BY <1>1, <1>2, <2>2, ContractStep DEF Stands, Present
      <3>2. Debits(c, i) /\ attempt[c][i].pc = "insert"
        BY <3>1 DEF TxInv, CallInv, HandlerInv, Debits, Debiting, CreateBuyerContract, Is
      <3> QED BY <3>1, <3>2, GroundsGrow DEF Grounds
    <2> QED BY <2>1, <2>2
  <1>3. ASSUME NEW c \in Calls, call'[c].pc \in Paying
        PROVE  Granted(call[c].of)'
    <2>1. PICK n \in Negotiations : n = call[c].of
      BY <1>1, Fields
    <2>2. CASE call'[c].of = call[c].of /\ call[c].pc \in Paying
      <3>1. Granted(n)'
        BY <2>1, <2>2, GroundsGrow DEF Grounds
      <3> QED BY <2>1, <2>2, <3>1 DEF Granted, Present
    <2>3. CASE InsertContract(c)
      <3>1. call'[c].of = n /\ call[c].terms \in Terms
        BY <1>1, <2>1, <2>3, GoToDoes, Fields DEF InsertContract
      <3>2. Granted(n)'
        BY <1>1, <2>1, <2>3, <3>1, InsertDoes DEF InsertContract, Loses, Granted, Present
      <3> QED BY <3>1, <3>2 DEF Granted, Present
    <2>4. ASSUME NEW m \in Negotiations PROVE ~ExerciseContract(c, m)
      <3>1. SUFFICES ASSUME ExerciseContract(c, m) PROVE FALSE
        OBVIOUS
      <3>2. contract[Buyer][m].terms \in Terms
        BY <1>1, EntryFields
      <3>3. call'[c].pc = "pay"
        BY <1>1, <3>1, <3>2, BeginDoes, LabelFacts DEF ExerciseContract
      <3> QED BY <1>3, <3>3 DEF Paying
    <2> QED BY <1>3, <2>2, <2>3, <2>4, Transitions DEF Paying, ExerciseLabels
  <1>4. ASSUME NEW c \in Calls, NEW i \in Handlers, Debits(c, i)'
        PROVE  Granted(tx[c].of)' /\ (attempt'[c][i].pc = "insert" => Tried(tx[c].of)')
    <2>1. PICK n \in Negotiations : n = tx[c].of /\ n = tx'[c].of
      BY <1>1, <1>4, DebitsBefore DEF HandlerTypes, BankVote
    <2>2. CASE attempt'[c][i] = attempt[c][i]
      <3>1. Granted(n) /\ (attempt[c][i].pc = "insert" => Tried(n))
        BY <1>4, <2>1, <2>2, DebitsBefore DEF Grounds, Debits
      <3>2. Granted(n)' /\ (attempt'[c][i].pc = "insert" => Tried(n)')
        BY <2>2, <3>1, GroundsGrow
      <3> QED BY <2>1, <3>2 DEF Granted, Tried, Present
    <2>3. CASE call[c].pc = "commit" /\ call[c].of = tx[c].of /\ attempt'[c][i].pc = "load"
      <3>1. Granted(n)
        BY <2>1, <2>3 DEF Grounds, Paying
      <3>2. Granted(n)'
        BY <3>1, GroundsGrow
      <3> QED BY <2>1, <2>3, <3>2 DEF Granted, Present
    <2>4. CASE attempt'[c][i].pc = "debit" /\ attempt[c][i].pc = "load"
      <3>1. Granted(n)
        BY <1>4, <2>1, <2>4, DebitsBefore DEF Grounds, Debits, Debiting
      <3>2. Granted(n)'
        BY <3>1, GroundsGrow
      <3> QED BY <2>1, <2>4, <3>2 DEF Granted, Present
    <2>5. CASE DebitPremium(c, i) /\ attempt[c][i].pc = "debit"
      <3>1. Granted(n)
        BY <1>4, <2>1, <2>5, DebitsBefore DEF Grounds, Debits, Debiting
      <3>2. Granted(n)'
        BY <3>1, GroundsGrow
      <3>3. debited \in [Negotiations -> Nat]
        BY TypeParts DEF CountTypes
      <3>4. Tried(n)'
        BY <2>1, <2>5, <3>3 DEF DebitPremium, Tried
      <3> QED BY <2>1, <3>2, <3>4 DEF Granted, Present, Tried
    <2> QED BY <1>4, <2>2, <2>3, <2>4, <2>5, DebitsBefore
  <1> QED BY <1>2, <1>3, <1>4 DEF Grounds

(* The contracts of a negotiation nobody doubts are those of its rows, which *)
(* are sealed from the first contract on; a premium is paid out when the    *)
(* last call of it ends, and taken while that call waits.                   *)
Agreement(n) ==
  /\ \A k \in Banks : Present(k, n) => Sealed(n) /\ contract[k][n].terms = row[k][n].terms
  /\ \A c \in Calls, i \in Handlers : Debits(c, i) /\ tx[c].of = n =>
       /\ Sealed(n)
       /\ attempt[c][i].pc # "load" => attempt[c][i].terms = row[Buyer][n].terms
PaidOut(n) ==
  credited[n] >= 1 => credited[n] = 1 /\ Sealed(n) /\ \A c \in Calls : ~Carries(c, n)
Taken(n) ==
  debited[n] >= 1 =>
    /\ debited[n] = 1 /\ Sealed(n)
    /\ \A c \in Calls : Carries(c, n) => call[c].pc \in {"committing", "credit"}
    /\ \A c \in Calls, i \in Handlers :
         Debits(c, i) /\ tx[c].of = n => attempt[c][i].pc = "insert"
PayInv ==
  /\ Backed /\ Grounds
  /\ \A n \in Negotiations \ doubted : Agreement(n) /\ PaidOut(n)
  /\ \A n \in Negotiations \ (doubted \cup repeated) : Taken(n)

(* A call that reserved, or that pays, runs for the buyer and alone.        *)
LEMMA SealedByPayer ==
  ASSUME TypeOK, RowInv, NEW n \in Negotiations, n \notin doubted,
         NEW c \in Calls, call[c].of = n, call[c].pc \in Paying \cup {"contract"}
  PROVE  /\ call[c].bank = Buyer /\ call[c].terms = row[Seller][n].terms
         /\ call[c].pc \in Paying => Sealed(n)
         /\ n \in linked /\ SameTerms(n) /\ ~HasTurn(Buyer, n) /\ ~HasTurn(Seller, n)
         /\ Status(Seller, n) # "none"
         /\ Carries(c, n) /\ \A d \in Calls \ {c} : ~Carries(d, n)
  <1>1. OneTurn(n) /\ SameOffer(n)
    BY DEF RowInv, RowInvOf
  <1>2. /\ call[c].pc \in Accepting /\ call[c].pc \in Carrying /\ call[c].pc \in Agreed
        /\ call[c].pc \notin BySeller /\ call[c].pc \notin {"accept", "refused"}
    BY DEF Paying, Agreed, BySeller, Carrying, Accepting, AcceptLabels
  <1>3. call[c].bank = Buyer /\ BuyersCall(c, n)
    BY <1>1, <1>2 DEF SameOffer
  <1>4. Carries(c, n)
    BY <1>2 DEF Carries
  <1>5. \A d \in Calls \ {c} : ~Carries(d, n)
    BY <1>1, <1>4 DEF OneTurn
  <1>6. ~HasTurn(Buyer, n) /\ ~HasTurn(Seller, n)
    BY <1>1, <1>4 DEF OneTurn
  <1> QED BY <1>2, <1>3, <1>4, <1>5, <1>6 DEF BuyersCall, Sealed

(* A step that keeps a seal. *)
LEMMA SealStays ==
  ASSUME TypeOK, RowInv, [Next]_vars, NEW n \in Negotiations, n \notin doubted', Sealed(n)
  PROVE  /\ Kept(n) /\ Sealed(n)'
         /\ \A k \in Banks : row'[k][n].terms = row[k][n].terms
         /\ \A c \in Calls : Carries(c, n)' => Carries(c, n) /\ PaysOn(c)
  <1>1. Kept(n)
    BY SealIsKept
  <1> QED BY <1>1, KeptIsSealed DEF Kept

LEMMA AgreementStep ==
  ASSUME TypeOK, RowInv, TxInv, Backed, [Next]_vars,
         NEW n \in Negotiations, n \notin doubted', Agreement(n)
  PROVE  Agreement(n)'
  <1>1. /\ RequestTypes /\ RowTypes /\ Buyer \in Banks /\ Seller \in Banks /\ Banks = {Buyer, Seller}
        /\ Buyer # Seller /\ n \notin doubted
    BY TypeParts, BankFacts, MarksStay
  <1>2. ASSUME NEW k \in Banks, Present(k, n)'
        PROVE  Sealed(n)' /\ contract'[k][n].terms = row'[k][n].terms
    <2>1. CASE Present(k, n)
      <3>1. Sealed(n) /\ contract[k][n].terms = row[k][n].terms
        BY <2>1 DEF Agreement
      <3> QED BY <2>1, <3>1, SealStays, ContractsGrow
    <2>2. CASE k = Seller /\ \E c \in Calls : InsertContract(c) /\ call[c].of = n
                                  /\ contract'[k][n].terms = call[c].terms
      <3>1. PICK c \in Calls : InsertContract(c) /\ call[c].of = n
                                  /\ contract'[k][n].terms = call[c].terms
        BY <2>2
      <3>2. /\ call[c].bank = Buyer /\ call[c].terms = row[Seller][n].terms
            /\ n \in linked /\ SameTerms(n) /\ ~HasTurn(Buyer, n) /\ ~HasTurn(Seller, n)
            /\ Status(Seller, n) # "none"
            /\ \A d \in Calls \ {c} : ~Carries(d, n)
        BY <1>1, <3>1, SealedByPayer DEF InsertContract, At
      <3>3. /\ call'[c].pc = "commit" /\ call'[c].bank = Buyer
            /\ row' = row /\ linked' = linked
            /\ \A d \in Calls \ {c} : call'[d] = call[d]
        BY <1>1, <3>1, <3>2, GoToDoes DEF InsertContract, rowVars
      <3>4. \A d \in Calls : Carries(d, n)' => call'[d].bank = Buyer /\ call'[d].pc \in Paying
        BY <3>2, <3>3 DEF Carries, Paying
      <3>5. /\ n \in linked' /\ SameTerms(n)' /\ ~HasTurn(Buyer, n)' /\ ~HasTurn(Seller, n)'
            /\ Status(Seller, n)' # "none"
        BY <3>2, <3>3 DEF SameTerms, HasTurn, Status
      <3> QED BY <2>2, <3>1, <3>2, <3>3, <3>4, <3>5 DEF Sealed
    <2>3. CASE k = Buyer /\ \E c \in Calls, i \in Handlers : CreateBuyerContract(c, i) /\ tx[c].of = n
                                  /\ contract'[k][n].terms = attempt[c][i].terms
      <3>1. PICK c \in Calls, i \in Handlers : CreateBuyerContract(c, i) /\ tx[c].of = n
                                  /\ contract'[k][n].terms = attempt[c][i].terms
        BY <2>3
      <3>2. Debits(c, i) /\ attempt[c][i].pc = "insert"
        BY <3>1 DEF TxInv, CallInv, HandlerInv, Debits, Debiting, CreateBuyerContract, Is
      <3>3. Sealed(n) /\ attempt[c][i].terms = row[Buyer][n].terms
        BY <3>1, <3>2 DEF Agreement
      <3> QED BY <1>1, <2>3, <3>1, <3>3, SealStays
    <2> QED BY <1>2, <2>1, <2>2, <2>3, ContractStep DEF Stands, Present
  <1>3. ASSUME NEW c \in Calls, NEW i \in Handlers, Debits(c, i)', tx'[c].of = n
        PROVE  /\ Sealed(n)'
               /\ attempt'[c][i].pc # "load" => attempt'[c][i].terms = row'[Buyer][n].terms
    <2>1. Voted(c) /\ tx[c].type = "ACCEPT" /\ tx[c].of = n
      BY <1>3, DebitsBefore
    <2>2. ASSUME Sealed(n), \/ attempt'[c][i].pc = "load"
                            \/ attempt'[c][i].terms = row[Buyer][n].terms
          PROVE  /\ Sealed(n)'
                 /\ attempt'[c][i].pc # "load" => attempt'[c][i].terms = row'[Buyer][n].terms
      BY <1>1, <2>2, SealStays
    <2>3. CASE attempt'[c][i] = attempt[c][i]
      <3>1. Debits(c, i)
        BY <1>3, <2>1, <2>3 DEF Debits
      <3> QED BY <2>1, <2>2, <2>3, <3>1 DEF Agreement
    <2>4. CASE attempt'[c][i].pc = "load" /\ call[c].pc = "commit" /\ call[c].of = tx[c].of
      <3>1. Sealed(n)
        BY <1>1, <2>1, <2>4, SealedByPayer DEF Paying
      <3> QED BY <2>2, <2>4, <3>1
    <2>5. CASE attempt[c][i].pc = "load" /\ attempt'[c][i].terms = row[Buyer][tx[c].of].terms
      <3>1. Debits(c, i)
        BY <2>1, <2>5 DEF Debits, Debiting
      <3> QED BY <2>1, <2>2, <2>5, <3>1 DEF Agreement
    <2>6. CASE attempt[c][i].pc = "debit" /\ attempt'[c][i].terms = attempt[c][i].terms
      <3>1. Debits(c, i)
        BY <2>1, <2>6 DEF Debits, Debiting
      <3> QED BY <2>1, <2>2, <2>6, <3>1 DEF Agreement
    <2> QED BY <1>3, <2>3, <2>4, <2>5, <2>6, DebitsBefore
  <1> QED BY <1>2, <1>3 DEF Agreement

LEMMA PaidOutStep ==
  ASSUME TypeOK, RowInv, [Next]_vars, NEW n \in Negotiations, n \notin doubted', PaidOut(n)
  PROVE  PaidOut(n)'
  <1>1. RequestTypes /\ n \notin doubted /\ credited[n] \in Nat
    BY TypeParts, MarksStay, CountStep
  <1>2. ASSUME NEW c \in Calls, CreditSeller(c), call[c].of = n
        PROVE  /\ Carries(c, n) /\ Sealed(n) /\ \A d \in Calls \ {c} : ~Carries(d, n)
               /\ ~Carries(c, n)'
    <2>1. /\ Carries(c, n) /\ Sealed(n) /\ \A d \in Calls \ {c} : ~Carries(d, n)
      BY <1>1, <1>2, SealedByPayer DEF CreditSeller, At, Paying
    <2>2. call'[c].pc = "end"
      BY <1>1, <1>2, ReturnDoes DEF CreditSeller, Finished
    <2> QED BY <2>1, <2>2, Classes DEF Carries
  <1>3. CASE credited[n] >= 1
    <2>1. credited[n] = 1 /\ Sealed(n) /\ \A c \in Calls : ~Carries(c, n)
      BY <1>3 DEF PaidOut
    <2>2. credited'[n] = credited[n]
      BY <1>2, <2>1, CountStep
    <2> QED BY <2>1, <2>2, SealStays DEF PaidOut
  <1>4. CASE ~(credited[n] >= 1)
    <2>1. CASE credited'[n] = credited[n]
      BY <1>4, <2>1 DEF PaidOut
    <2>2. CASE \E c \in Calls : CreditSeller(c) /\ call[c].of = n /\ credited'[n] = credited[n] + 1
      <3>1. PICK c \in Calls : CreditSeller(c) /\ call[c].of = n /\ credited'[n] = credited[n] + 1
        BY <2>2
      <3>2. Sealed(n)' /\ \A d \in Calls : ~Carries(d, n)'
        BY <1>2, <3>1, SealStays
      <3>3. credited'[n] = 1
        BY <1>1, <1>4, <3>1
      <3> QED BY <3>2, <3>3 DEF PaidOut
    <2> QED BY <2>1, <2>2, CountStep
  <1> QED BY <1>3, <1>4

LEMMA TakenStep ==
  ASSUME TypeOK, RowInv, TxInv, Backed, [Next]_vars, NEW n \in Negotiations,
         n \notin doubted' \cup repeated', Agreement(n), Taken(n)
  PROVE  Taken(n)'
  <1>1. /\ RequestTypes /\ HandlerTypes /\ n \notin doubted \cup repeated /\ debited[n] \in Nat
    BY TypeParts, MarksStay, CountStep
  <1>2. ASSUME NEW c \in Calls, NEW i \in Handlers, Debits(c, i), tx[c].of = n
        PROVE  /\ call[c].pc = "committing" /\ call[c].of = n /\ Carries(c, n) /\ i = 1
               /\ \A d \in Calls \ {c} : ~Carries(d, n)
    <2>1. CallInv(c) /\ Running(c, i) /\ Voted(c) /\ tx[c].type = "ACCEPT"
      BY <1>2 DEF TxInv, Debits, Debiting, Running
    <2>2. call[c].pc \in Answering /\ i = 1
      BY <1>1, <1>2, <2>1 DEF CallInv, HandlerInv
    <2>3. call[c].pc = "committing" /\ call[c].of = n
      BY <1>2, <2>1, <2>2, Classes DEF CallInv, VoteInv, Answering, Accepting, AcceptLabels
    <2> QED BY <1>1, <2>2, <2>3, SealedByPayer DEF Paying
  <1>3. CASE debited[n] >= 1
    <2>1. /\ debited[n] = 1 /\ Sealed(n)
          /\ \A c \in Calls : Carries(c, n) => call[c].pc \in {"committing", "credit"}
          /\ \A c \in Calls, i \in Handlers :
               Debits(c, i) /\ tx[c].of = n => attempt[c][i].pc = "insert"
      BY <1>3 DEF Taken
    <2>2. debited'[n] = debited[n]
      <3>1. ASSUME NEW c \in Calls, NEW i \in Handlers, DebitPremium(c, i), tx[c].of = n
            PROVE  FALSE
        <4>1. Debits(c, i) /\ attempt[c][i].pc = "debit"
          BY <3>1 DEF TxInv, CallInv, HandlerInv, Debits, Debiting, DebitPremium, Is
        <4> QED BY <2>1, <3>1, <4>1
      <3> QED BY <3>1, CountStep
    <2>3. ASSUME NEW c \in Calls, Carries(c, n)'
          PROVE  call'[c].pc \in {"committing", "credit"}
      <3>1. Carries(c, n) /\ PaysOn(c)
        BY <1>1, <2>1, <2>3, SealStays
      <3>2. call[c].of = n /\ call[c].pc \in {"committing", "credit"}
        BY <2>1, <3>1 DEF Carries
      <3> QED BY <3>1, <3>2 DEF PaysOn
    <2>4. ASSUME NEW c \in Calls, NEW i \in Handlers, Debits(c, i)', tx'[c].of = n
          PROVE  attempt'[c][i].pc = "insert"
      <3>1. Voted(c) /\ tx[c].type = "ACCEPT" /\ tx[c].of = n
        BY <2>4, DebitsBefore
      <3>2. CASE attempt'[c][i] = attempt[c][i]
        BY <2>1, <2>4, <3>1, <3>2 DEF Debits
      <3>3. CASE call[c].pc = "commit" /\ call[c].of = tx[c].of
        <4>1. Carries(c, n)
          BY <3>1, <3>3, Classes DEF Carries, AcceptLabels
        <4> QED BY <2>1, <3>3, <4>1
      <3>4. CASE attempt[c][i].pc = "load"
        BY <2>1, <3>1, <3>4 DEF Debits, Debiting
      <3> QED BY <2>4, <3>2, <3>3, <3>4, DebitsBefore
    <2> QED BY <2>1, <2>2, <2>3, <2>4, SealStays DEF Taken
  <1>4. CASE ~(debited[n] >= 1)
    <2>1. CASE debited'[n] = debited[n]
      BY <1>4, <2>1 DEF Taken
    <2>2. CASE \E c \in Calls, i \in Handlers : DebitPremium(c, i) /\ tx[c].of = n
                 /\ debited'[n] = debited[n] + 1
      <3>1. PICK c \in Calls, i \in Handlers : DebitPremium(c, i) /\ tx[c].of = n
                 /\ debited'[n] = debited[n] + 1
        BY <2>2
      <3>2. Debits(c, i) /\ call' = call /\ row' = row
        BY <3>1 DEF TxInv, CallInv, HandlerInv, Debits, Debiting, DebitPremium, Is, rowVars
      <3>3. Sealed(n)
        BY <3>1, <3>2 DEF Agreement
      <3>4. Sealed(n)'
        BY <1>1, <3>3, SealStays
      <3>5. /\ call[c].pc = "committing" /\ call[c].of = n /\ i = 1
            /\ \A d \in Calls \ {c} : ~Carries(d, n)
        BY <1>2, <3>1, <3>2
      <3>6. \A d \in Calls : Carries(d, n)' => call'[d].pc \in {"committing", "credit"}
        BY <3>2, <3>5 DEF Carries
      <3>7. ASSUME NEW d \in Calls, NEW j \in Handlers, Debits(d, j)', tx'[d].of = n
            PROVE  attempt'[d][j].pc = "insert"
        <4>1. tx' = tx
          BY <3>1 DEF DebitPremium
        <4>2. /\ attempt'[c][i].pc = "insert"
              /\ \A e \in Calls, h \in Handlers : e # c \/ h # i => attempt'[e][h] = attempt[e][h]
          BY <1>1, <3>1, ProceedDoes DEF DebitPremium, HandlerLabels
        <4>3. CASE d = c /\ j = i
          BY <4>2, <4>3
        <4>4. CASE d # c \/ j # i
          <5>1. Debits(d, j) /\ tx[d].of = n
            BY <3>7, <4>1, <4>2, <4>4 DEF Debits, Voted
          <5>2. Carries(d, n) /\ j = 1
            BY <1>2, <5>1
          <5> QED BY <3>5, <4>4, <5>2
        <4> QED BY <4>3, <4>4
      <3>8. debited'[n] = 1
        BY <1>1, <1>4, <3>1
      <3> QED BY <3>4, <3>6, <3>7, <3>8 DEF Taken
    <2> QED BY <2>1, <2>2, CountStep
  <1> QED BY <1>3, <1>4

LEMMA PayInit ==
  Init => PayInv
  <1> SUFFICES ASSUME Init PROVE PayInv
    OBVIOUS
  <1>1. /\ \A c \in Calls : tx[c].status = "none" /\ call[c].pc = "idle"
        /\ \A k \in Banks, n \in Negotiations : contract[k][n].status = "none"
        /\ \A n \in Negotiations : credited[n] = 0 /\ debited[n] = 0
    BY DEF Init, NoTx, Finished, Absent
  <1> QED BY <1>1, BankFacts DEF PayInv, Backed, Grounds, Agreement, PaidOut, Taken, Debits, Voted, Present,
          ExerciseLabels, Paying

LEMMA PayInvStep ==
  TypeOK /\ RowInv /\ TxInv /\ PayInv /\ [Next]_vars => PayInv'
  <1> SUFFICES ASSUME TypeOK, RowInv, TxInv, PayInv, [Next]_vars PROVE PayInv'
    OBVIOUS
  <1>1. Backed' /\ Grounds'
    BY BackedStep, GroundsStep DEF PayInv
  <1>2. ASSUME NEW n \in Negotiations, n \notin doubted'
        PROVE  Agreement(n)' /\ PaidOut(n)'
    BY <1>2, AgreementStep, PaidOutStep, MarksStay DEF PayInv
  <1>3. ASSUME NEW n \in Negotiations, n \notin doubted' \cup repeated'
        PROVE  Taken(n)'
    BY <1>3, TakenStep, MarksStay DEF PayInv
  <1> QED BY <1>1, <1>2, <1>3 DEF PayInv

(* The invariant the theorems below rest on. *)
DealInv == TypeOK /\ RowInv /\ TxInv /\ PayInv

LEMMA DealsHold == Spec => []DealInv
  <1>1. Init => DealInv
    BY TypeInit, RowInit, TxInit, PayInit DEF DealInv
  <1>2. DealInv /\ [Next]_vars => DealInv'
    BY TypeStep, RowInvStep, TxInvStep, PayInvStep DEF DealInv
  <1> QED BY <1>1, <1>2, PTL DEF Spec

(* The two banks never hold different contracts for one agreement, for any  *)
(* number of negotiations and offers, wherever requests cross, stop, are    *)
(* lost or repeated, unless a caller stopped waiting while the other bank   *)
(* ran on (acceptCrossBank, executeInterbankAcceptOutgoing).                *)
THEOREM TermsAgree == Spec => []ContractsAgree
  <1>1. DealInv => ContractsAgree
    BY BankFacts DEF DealInv, PayInv, Agreement, Sealed, SameTerms, ContractsAgree
  <1> QED BY <1>1, DealsHold, PTL

(* A premium is paid out at most once and taken at most once, unless a      *)
(* caller stopped waiting or COMMIT_TX had to be repeated, and the buyer's  *)
(* bank writes a contract only after the debit of the premium was tried     *)
(* (executeInterbankAcceptOutgoing, CommitOtcInterbank).                    *)
THEOREM PremiumsPaidOnce == Spec => []PremiumOnce
  <1>1. ASSUME DealInv, NEW n \in Negotiations
        PROVE  /\ credited[n] <= 1 \/ n \in doubted
               /\ debited[n] <= 1 \/ n \in doubted \cup repeated
               /\ Present(Buyer, n) => debited[n] >= 1 \/ n \in short
    <2>1. credited[n] \in Nat /\ debited[n] \in Nat
      BY <1>1, TypeParts DEF DealInv, CountTypes
    <2> QED BY <1>1, <2>1 DEF DealInv, PayInv, PaidOut, Taken, Grounds, Tried
  <1>2. DealInv => PremiumOnce
    BY <1>1 DEF PremiumOnce
  <1> QED BY <1>2, DealsHold, PTL
-----------------------------------------------------------------------------
(* Exercises.  An answer that the exercise took place means that the        *)
(* seller's row says so, or that the loss of a row was not looked at; the   *)
(* exercise of a negotiation that nothing disturbs is alone, and goes on    *)
(* until the buyer's row says so too.                                       *)
Exercised(k, n) == contract[k][n].status = "EXERCISED"
Ending == {"debit", "deliver", "close"}
Delivered(n) == Exercised(Seller, n) \/ n \in lost
Asked(c) == call[c].pc \in {"exCommit", "exCommitting"}
SomeHandler(c) == \E i \in Handlers : attempt[c][i].pc # "none"
Answers ==
  /\ \A n \in Negotiations : Exercised(Buyer, n) => Delivered(n)
  /\ \A c \in Calls :
       /\ call[c].pc \in ExerciseLabels /\ (Asked(c) \/ SomeHandler(c)) =>
            Voted(c) \/ call[c].of \in lost
       /\ call[c].pc \in Ending => Delivered(call[c].of)
       /\ Voted(c) /\ tx[c].type = "EXERCISE" /\ tx[c].status = "COMMITTED" =>
            Exercised(Seller, tx[c].of)
  /\ \A c \in Calls, i \in Handlers :
       /\ Voted(c) /\ tx[c].type = "EXERCISE" /\ attempt[c][i].pc = "mark" =>
            Exercised(Seller, tx[c].of)
       /\ call[c].pc \in ExerciseLabels /\ attempt[c][i].pc = "done" /\ attempt[c][i].ok =>
            Delivered(call[c].of)

Exercises(c, n) == call[c].of = n /\ call[c].pc \in ExerciseLabels
Past(c, labels) ==
  \/ /\ call[c].pc = "exCommitting"
     /\ attempt[c][1].pc \in labels \/ (attempt[c][1].pc = "done" /\ attempt[c][1].ok)
  \/ call[c].pc \in Ending
OneExercise(n) ==
  /\ \A c \in Calls : Exercises(c, n) => call[c].alive
  /\ \A c, d \in Calls : Exercises(c, n) /\ Exercises(d, n) => c = d
  /\ Exercised(Buyer, n) => \A c \in Calls : ~Exercises(c, n)
  /\ Exercised(Seller, n) =>
       Exercised(Buyer, n) \/ \E c \in Calls : Exercises(c, n) /\ Past(c, {"mark"})
  /\ struck[n] >= 1 =>
       /\ struck[n] = 1
       /\ \/ Exercised(Buyer, n)
          \/ \E c \in Calls : Exercises(c, n) /\ Past(c, {"exercised", "mark"})
ExerciseInv ==
  /\ Answers
  /\ \A c \in Calls : call[c].pc = "idle" => call[c].alive
  /\ \A n \in Negotiations : Undisturbed(n) => OneExercise(n)

LEMMA ExerciseSteps ==
  ASSUME TypeOK, [Next]_vars, NEW d \in Calls, call[d].pc \in ExerciseLabels
  PROVE  \/ call'[d] = call[d] \/ RunExercise(d) \/ Commit(d) \/ Cancel(d)
         \/ \E k \in Banks : Crash(k)
  <1>1. /\ RequestTypes /\ RowTypes
        /\ ExerciseLabels \cap (AcceptLabels \cup
             {"idle", "forward", "link", "drop", "put", "putUpdate", "delete", "deleteUpdate", "refused"}) = {}
    BY TypeParts, SMTT(30) DEF ExerciseLabels, AcceptLabels
  <1>2. ASSUME NEW c \in Calls, NEW n \in Negotiations, Offer(c, n)
        PROVE  call'[d] = call[d]
    <2>1. call[c].pc = "idle"
      BY <1>2 DEF Offer, CreateNegotiation, CounterOffer, RejectNegotiation, AcceptNegotiation,
         AcceptBySeller, ExerciseContract, At
    <2> QED BY <1>1, <1>2, <2>1 DEF Offer, CreateNegotiation, CounterOffer, RejectNegotiation,
         AcceptNegotiation, AcceptBySeller, ExerciseContract, Begin, Accept, RequestTypes
  <1>3. ASSUME NEW c \in Calls, Forward(c)
        PROVE  call'[d] = call[d]
    <2>1. call[c].pc \in {"forward", "link", "drop", "put", "putUpdate", "delete", "deleteUpdate"}
      BY <1>3 DEF Forward, CreateInterbankNegotiation, ForwardFails, StorePartnerId,
         DropNegotiation, LookupInterbankNegotiation, RequestLost, InterbankCounterOffer,
         InterbankDeleteNegotiation, At
    <2>2. Return(c) \/ \E label \in {"link", "drop", "putUpdate", "deleteUpdate"} : GoTo(c, label)
      BY <1>3 DEF Forward, CreateInterbankNegotiation, ForwardFails, StorePartnerId,
         DropNegotiation, LookupInterbankNegotiation, RequestLost, InterbankCounterOffer,
         InterbankDeleteNegotiation
    <2> QED BY <1>1, <2>1, <2>2, ReturnDoes, GoToDoes
  <1>4. ASSUME NEW c \in Calls, RunAcceptance(c)
        PROVE  call'[d] = call[d] \/ (d = c /\ Cancel(d))
    <2>1. CASE Cancel(c)
      BY <1>1, <2>1 DEF Cancel, RequestTypes
    <2>2. CASE ~Cancel(c)
      <3>1. call[c].pc \in AcceptLabels \cup {"refused"}
        BY <1>4, <2>2 DEF RunAcceptance, GiveUp, InterbankAcceptNegotiation, LoadNegotiation,
           PrepareAccept, NewTxFails, ReserveShares, RollbackAccept, InsertContract, CreditSeller,
           RevertAccept, RevertAtBuyer, At, AcceptLabels
      <3>2. c # d
        BY <1>1, <3>1
      <3> QED BY <1>1, <1>4, <2>2, <3>2
          DEF RunAcceptance, GiveUp, InterbankAcceptNegotiation, LoadNegotiation,
           PrepareAccept, NewTxFails, ReserveShares, RollbackAccept, InsertContract, CreditSeller,
           RevertAccept, RevertAtBuyer, GoTo, Return, RequestTypes
    <2> QED BY <2>1, <2>2
  <1>5. ASSUME NEW c \in Calls, RunExercise(c)
        PROVE  call'[d] = call[d] \/ c = d
    <2>1. Return(c) \/ \E label \in {"prepare", "exCommit", "giveBack", "deliver", "close"} : GoTo(c, label)
      BY <1>5 DEF RunExercise, ReserveFunds, PrepareExercise, PrepareFails, RollbackExercise,
         GiveBack, DebitBuyer, AddShares, MarkExercised
    <2> QED BY <1>1, <2>1, ReturnDoes, GoToDoes
  <1>6. ASSUME NEW c \in Calls, Commit(c)
        PROVE  call'[d] = call[d] \/ c = d
    BY <1>1, <1>6 DEF Commit, SendCommit, CommitAnswered, CommitTimesOut, CommitFails, GoTo, RequestTypes
  <1>7. ASSUME NEW c \in Calls, NEW i \in 1..MaxTries, CommitOtcInterbank(c, i)
        PROVE  call'[d] = call[d]
    BY <1>7 DEF CommitOtcInterbank, LoadTx, DebitPremium, CreateBuyerContract, TakeShares,
       CreditStrike, MarkSellerContract, MarkCommitted, StopHandler
  <1>8. CASE \/ Spend \/ SellShare \/ UNCHANGED vars
             \/ \E n \in Negotiations : SettlementPasses(n) \/ \E k \in Banks : ExpireContract(k, n)
    BY <1>8 DEF Spend, SellShare, SettlementPasses, ExpireContract, vars
  <1> QED BY <1>2, <1>3, <1>4, <1>5, <1>6, <1>7, <1>8 DEF Next

(* How an exercise moves: it ends when it has marked the buyer's row.       *)
LEMMA ExerciseMoves ==
  ASSUME TypeOK, [Next]_vars, NEW d \in Calls, call[d].pc \in ExerciseLabels
  PROVE  \/ call'[d].pc = call[d].pc /\ call'[d].of = call[d].of /\ call'[d].tries = call[d].tries
         \/ call[d].of \in doubted' /\ call'[d].pc \notin ExerciseLabels
         \/ call[d].of \in repeated' /\ Asked(d) /\ call'[d].of = call[d].of
            /\ call'[d].pc \in {"exCommit", "undo"}
         \/ call[d].pc = "pay" /\ call'[d].pc = "end"
         \/ call'[d].pc = "end" /\ call[d].pc = "giveBack"
         \/ call'[d].pc = "end" /\ MarkExercised(d)
         \/ /\ call'[d].of = call[d].of
            /\ \/ call[d].pc = "pay" /\ call'[d].pc = "prepare"
               \/ call[d].pc \in {"prepare", "undo"} /\ call'[d].pc = "giveBack"
               \/ PrepareExercise(d) /\ call'[d].pc = "exCommit"
               \/ SendCommit(d) /\ call[d].pc = "exCommit" /\ call'[d].pc = "exCommitting"
               \/ /\ call[d].pc = "exCommitting" /\ Latest(d).pc = "done" /\ attempt' = attempt
                  /\ call'[d].pc = IF Latest(d).ok THEN "debit" ELSE "undo"
               \/ call[d].pc = "debit" /\ call'[d].pc = "deliver"
               \/ call[d].pc = "deliver" /\ call'[d].pc = "close"
  <1>1. RequestTypes /\ call[d] \in Request /\ Ending \subseteq ExerciseLabels /\ "end" \notin ExerciseLabels
    BY TypeParts, Fields DEF Ending, ExerciseLabels
  <1>2. CASE RunExercise(d)
    <2>1. CASE ReserveFunds(d)
      BY <1>1, <2>1, GoToDoes, ReturnDoes DEF ReserveFunds, At, Finished
    <2>2. CASE PrepareExercise(d)
      BY <1>1, <2>2, GoToDoes DEF PrepareExercise, At
    <2>3. CASE PrepareFails(d) \/ RollbackExercise(d)
      BY <1>1, <2>3, GoToDoes DEF PrepareFails, RollbackExercise, At
    <2>4. CASE GiveBack(d) \/ MarkExercised(d)
      BY <1>1, <2>4, ReturnDoes DEF GiveBack, MarkExercised, At, Finished
    <2>5. CASE DebitBuyer(d) \/ AddShares(d)
      BY <1>1, <2>5, GoToDoes DEF DebitBuyer, AddShares, At
    <2> QED BY <1>2, <2>1, <2>2, <2>3, <2>4, <2>5 DEF RunExercise
  <1>3. CASE Commit(d)
    <2>1. CASE SendCommit(d)
      <3>1. PICK label : label = Waiting(call[d].pc)
        OBVIOUS
      <3>2. call' = [call EXCEPT ![d] = [call[d] EXCEPT !.pc = label, !.tries = call[d].tries + 1]]
        BY <2>1, <3>1 DEF SendCommit
      <3>3. call'[d].pc = label /\ call'[d].of = call[d].of
        BY <1>1, <3>2 DEF RequestTypes, Request
      <3>4. call[d].pc = "exCommit" /\ label = "exCommitting"
        BY <2>1, <3>1 DEF SendCommit, CommitLabels, Waiting, ExerciseLabels
      <3> QED BY <2>1, <3>3, <3>4
    <2>2. CASE CommitAnswered(d)
      <3>1. PICK label : label = IF At(d, "committing") THEN "credit" ELSE IF Latest(d).ok THEN "debit" ELSE "undo"
        OBVIOUS
      <3>2. GoTo(d, label) /\ call[d].pc = "exCommitting" /\ Latest(d).pc = "done" /\ attempt' = attempt
        BY <2>2, <3>1 DEF CommitAnswered, ExerciseLabels, dealing
      <3>3. label = IF Latest(d).ok THEN "debit" ELSE "undo"
        BY <3>1, <3>2, Zenon DEF At
      <3>4. call'[d].pc = label /\ call'[d].of = call[d].of
        BY <1>1, <3>2, GoToDoes
      <3> QED BY <3>2, <3>3, <3>4, Zenon
    <2>3. CASE CommitTimesOut(d)
      <3>1. GoTo(d, "exCommit") /\ call[d].of \in repeated' /\ call[d].pc = "exCommitting"
        BY <1>1, <2>3 DEF CommitTimesOut, Sending, ExerciseLabels
      <3> QED BY <1>1, <3>1, GoToDoes DEF Asked
    <2>4. CASE CommitFails(d)
      <3>1. PICK label : label = IF At(d, "commit") THEN "credit" ELSE "undo"
        OBVIOUS
      <3>2. GoTo(d, label) /\ call[d].of \in repeated' /\ call[d].pc = "exCommit"
        BY <1>1, <2>4, <3>1 DEF CommitFails, ExerciseLabels, CommitLabels
      <3>3. label = "undo"
        BY <3>1, <3>2, Zenon DEF At
      <3> QED BY <1>1, <3>2, <3>3, GoToDoes DEF Asked
    <2> QED BY <1>3, <2>1, <2>2, <2>3, <2>4 DEF Commit
  <1>4. CASE Cancel(d)
    BY <1>1, <1>4 DEF Cancel, RequestTypes, Request
  <1>5. ASSUME NEW k \in Banks, Crash(k)
        PROVE  \/ call'[d].pc = call[d].pc /\ call'[d].of = call[d].of /\ call'[d].tries = call[d].tries
               \/ call[d].of \in doubted' /\ call'[d].pc \notin ExerciseLabels
    <2>1. call'[d] = AfterCrash(d, k) /\ call[d].of \in doubted'
      BY <1>5 DEF Crash, BuyerRuns
    <2>2. \/ call'[d] = Finished("end") \/ call'[d] = call[d]
          \/ call'[d] = [call[d] EXCEPT !.pc = "refused"]
          \/ call'[d] = [call[d] EXCEPT !.waits = FALSE]
      BY <2>1, Zenon DEF AfterCrash
    <2> QED BY <1>1, <2>1, <2>2 DEF Finished, Request, ExerciseLabels
  <1> QED BY <1>2, <1>3, <1>4, <1>5, ExerciseSteps

(* What becomes of a handler. *)
Cut(c) == tx[c].of \in doubted' \cup lost' \/ \E k \in Banks : Crash(k)
LEMMA HandlerNext ==
  ASSUME TypeOK, [Next]_vars, NEW c \in Calls, NEW i \in Handlers, attempt'[c][i] # attempt[c][i]
  PROVE  \/ /\ SendCommit(c) /\ i = call[c].tries + 1 /\ attempt'[c][i].pc = "load"
         \/ /\ attempt[c][i].pc \notin {"none", "done"} /\ attempt'[c][i].pc = "done"
            /\ ~attempt'[c][i].ok
            /\ attempt[c][i].pc \in {"strike", "exercised", "mark"} => Cut(c)
         \/ /\ attempt[c][i].pc = "load" /\ attempt'[c][i].pc \in {"debit", "shares"}
         \/ /\ attempt[c][i].pc = "load" /\ attempt'[c][i].pc = "done" /\ tx' = tx
            /\ tx[c].status \in {"none", "COMMITTED"}
         \/ /\ attempt[c][i].pc = "debit" /\ attempt'[c][i].pc = "insert"
         \/ /\ attempt[c][i].pc = "insert" /\ attempt'[c][i].pc = "mark"
         \/ /\ attempt[c][i].pc = "shares" /\ attempt'[c][i].pc = "strike"
         \/ /\ attempt[c][i].pc = "strike" /\ attempt'[c][i].pc = "exercised"
         \/ /\ attempt[c][i].pc = "exercised" /\ attempt'[c][i].pc = "mark"
            /\ MarkSellerContract(c, i)
         \/ /\ attempt[c][i].pc = "mark" /\ attempt'[c][i].pc = "done" /\ attempt'[c][i].ok
            /\ MarkCommitted(c, i)
  <1>1. HandlerTypes /\ attempt[c][i] \in Handler /\ tx[c] \in BankVote
    BY TypeParts, HandlerFields
  <1>2. ASSUME NEW d \in Calls, SendCommit(d)
        PROVE  d = c /\ i = call[c].tries + 1 /\ attempt'[c][i].pc = "load"
    <2>1. PICK j : j = call[d].tries + 1
      OBVIOUS
    <2>2. attempt' = [attempt EXCEPT ![d][j].pc = "load"]
      BY <1>2, <2>1 DEF SendCommit
    <2> QED BY <1>1, <2>1, <2>2 DEF HandlerTypes, Handler
  <1>3. ASSUME NEW d \in Calls, NEW j \in Handlers, NEW ok \in BOOLEAN, End(d, j, ok)
        PROVE  d = c /\ j = i /\ attempt'[c][i].pc = "done" /\ attempt'[c][i].ok = ok
    BY <1>1, <1>3, EndDoes
  <1>4. ASSUME NEW d \in Calls, NEW j \in Handlers,
               NEW label \in {"insert", "mark", "strike", "exercised"}, Proceed(d, j, label)
        PROVE  d = c /\ j = i /\ attempt'[c][i].pc = label
    BY <1>1, <1>4, ProceedDoes DEF HandlerLabels
  <1>5. ASSUME NEW d \in Calls, NEW j \in Handlers, LoadTx(d, j)
        PROVE  /\ attempt[c][i].pc = "load"
               /\ \/ attempt'[c][i].pc = "done" /\ ~attempt'[c][i].ok
                  \/ attempt'[c][i].pc = "done" /\ tx[c].status \in {"none", "COMMITTED"}
                  \/ attempt'[c][i].pc \in {"debit", "shares"}
               /\ tx' = tx
    <2>1. CASE tx[d].status # "PENDING" /\ End(d, j, tx[d].status # "ROLLED_BACK")
      <3>1. (tx[d].status # "ROLLED_BACK") \in BOOLEAN
        OBVIOUS
      <3>2. /\ d = c /\ j = i /\ attempt'[c][i].pc = "done"
            /\ attempt'[c][i].ok = (tx[c].status # "ROLLED_BACK")
        BY <1>3, <2>1, <3>1
      <3>3. attempt'[c][i].ok => tx[c].status \in {"none", "COMMITTED"}
        BY <1>1, <2>1, <3>2 DEF BankVote
      <3> QED BY <1>5, <3>2, <3>3 DEF LoadTx, Is
    <2>2. CASE End(d, j, FALSE)
      BY <1>3, <1>5, <2>2 DEF LoadTx, Is
    <2>3. CASE /\ tx[d].status = "PENDING"
               /\ attempt' = [attempt EXCEPT ![d][j] = [@ EXCEPT
                    !.pc = IF tx[d].type = "ACCEPT" THEN "debit" ELSE "shares",
                    !.terms = IF tx[d].type = "ACCEPT" THEN row[Buyer][tx[d].of].terms
                              ELSE contract[Seller][tx[d].of].terms]]
      <3>1. PICK label : label = IF tx[d].type = "ACCEPT" THEN "debit" ELSE "shares"
        OBVIOUS
      <3>2. PICK t : t = IF tx[d].type = "ACCEPT" THEN row[Buyer][tx[d].of].terms
                         ELSE contract[Seller][tx[d].of].terms
        OBVIOUS
      <3>3. attempt' = [attempt EXCEPT ![d][j] = [attempt[d][j] EXCEPT !.pc = label, !.terms = t]]
        BY <2>3, <3>1, <3>2 DEF HandlerTypes
      <3>4. d = c /\ j = i /\ attempt'[c][i].pc = label
        BY <1>1, <3>3 DEF HandlerTypes, Handler
      <3> QED BY <1>5, <3>1, <3>4 DEF LoadTx, Is
    <2> QED BY <1>5, <2>1, <2>2, <2>3 DEF LoadTx
  <1>6. ASSUME NEW d \in Calls, NEW j \in Handlers, CommitOtcInterbank(d, j), ~LoadTx(d, j)
        PROVE  \/ /\ attempt[c][i].pc \notin {"none", "done"} /\ attempt'[c][i].pc = "done"
                  /\ ~attempt'[c][i].ok
                  /\ attempt[c][i].pc \in {"strike", "exercised", "mark"} => tx[c].of \in doubted' \cup lost'
               \/ /\ attempt[c][i].pc = "debit" /\ attempt'[c][i].pc = "insert"
               \/ /\ attempt[c][i].pc = "insert" /\ attempt'[c][i].pc = "mark"
               \/ /\ attempt[c][i].pc = "shares" /\ attempt'[c][i].pc = "strike"
               \/ /\ attempt[c][i].pc = "strike" /\ attempt'[c][i].pc = "exercised"
               \/ /\ attempt[c][i].pc = "exercised" /\ attempt'[c][i].pc = "mark"
                  /\ MarkSellerContract(c, i)
               \/ /\ attempt[c][i].pc = "mark" /\ attempt'[c][i].pc = "done" /\ attempt'[c][i].ok
                  /\ MarkCommitted(c, i)
    <2>1. CASE DebitPremium(d, j) \/ CreateBuyerContract(d, j) \/ CreditStrike(d, j)
      BY <1>4, <2>1 DEF DebitPremium, CreateBuyerContract, CreditStrike, Is
    <2>2. CASE TakeShares(d, j)
      BY <1>3, <1>4, <2>2 DEF TakeShares, Is
    <2>3. CASE MarkSellerContract(d, j)
      BY <1>3, <1>4, <2>3 DEF MarkSellerContract, Is, Loses
    <2>4. CASE MarkCommitted(d, j)
      BY <1>3, <2>4 DEF MarkCommitted, Is
    <2>5. CASE StopHandler(d, j)
      BY <1>3, <2>5 DEF StopHandler, Is
    <2> QED BY <1>6, <2>1, <2>2, <2>3, <2>4, <2>5 DEF CommitOtcInterbank
  <1>7. ASSUME NEW d \in Calls, DealsOf(d), ~SendCommit(d),
               \A j \in Handlers : ~CommitOtcInterbank(d, j)
        PROVE  FALSE
    BY <1>7 DEF DealsOf, PrepareAccept, RollbackAccept, InsertContract, CreditSeller,
       PrepareExercise, RollbackExercise, MarkExercised
  <1>8. ASSUME NEW k \in Banks, Crash(k)
        PROVE  attempt[c][i].pc \notin {"none", "done"} /\ attempt'[c][i].pc = "done" /\ ~attempt'[c][i].ok
    <2>1. attempt'[c][i] =
            IF VoterOf(c) = k /\ ~Is(c, i, "none") /\ ~Is(c, i, "done")
            THEN [attempt[c][i] EXCEPT !.pc = "done", !.ok = FALSE] ELSE attempt[c][i]
      BY <1>8 DEF Crash, Handlers
    <2>2. /\ ~Is(c, i, "none") /\ ~Is(c, i, "done")
          /\ attempt'[c][i] = [attempt[c][i] EXCEPT !.pc = "done", !.ok = FALSE]
      BY <2>1, Zenon
    <2> QED BY <1>1, <2>2 DEF Handler, Is
  <1>9. ASSUME (\E n \in Negotiations, k \in Banks : ExpireContract(k, n)) \/ UNCHANGED Deals
        PROVE  FALSE
    BY <1>9 DEF ExpireContract, Deals
  <1>10. ASSUME NEW d \in Calls, DealsOf(d)
         PROVE  SendCommit(d) \/ \E j \in Handlers : CommitOtcInterbank(d, j)
    BY <1>7, <1>10
  <1> QED BY <1>2, <1>5, <1>6, <1>8, <1>9, <1>10, DealsStay DEF Cut

(* An exercised contract stays so; it becomes so by a step of its own.      *)
LEMMA ExercisedStep ==
  ASSUME TypeOK, [Next]_vars, NEW k \in Banks, NEW n \in Negotiations
  PROVE  /\ Exercised(k, n) => Exercised(k, n)'
         /\ Exercised(k, n)' =>
              \/ Exercised(k, n)
              \/ k = Buyer /\ \E c \in Calls : MarkExercised(c) /\ call[c].of = n
              \/ k = Seller /\ \E c \in Calls, i \in Handlers :
                   MarkSellerContract(c, i) /\ tx[c].of = n /\ attempt'[c][i].pc = "mark"
  <1>1. /\ ContractTypes /\ RequestTypes /\ HandlerTypes /\ Buyer \in Banks /\ Seller \in Banks
        /\ \A c \in Calls : call[c].of \in Negotiations /\ call[c].terms \in Terms /\ tx[c].of \in Negotiations
    BY TypeParts, Fields, BankFacts DEF HandlerTypes, BankVote
  <1>2. ASSUME contract' = contract PROVE Exercised(k, n)' <=> Exercised(k, n)
    BY <1>2 DEF Exercised
  <1>3. ASSUME NEW j \in Banks, NEW m \in Negotiations, NEW t \in Terms, Insert(j, m, t)
        PROVE  Exercised(k, n)' <=> Exercised(k, n)
    BY <1>1, <1>3, InsertDoes DEF Exercised
  <1>4. ASSUME NEW c \in Calls, MarkExercised(c)
        PROVE  /\ Exercised(k, n) => Exercised(k, n)'
               /\ Exercised(k, n)' => Exercised(k, n) \/ (k = Buyer /\ call[c].of = n)
    <2>1. CASE contract' = contract
      BY <1>2, <2>1, SMTT(30)
    <2>2. CASE contract' = [contract EXCEPT ![Buyer][call[c].of].status = "EXERCISED"]
      BY <1>1, <2>2, CloseDoes DEF Exercised
    <2> QED BY <1>4, <2>1, <2>2 DEF MarkExercised
  <1>5. ASSUME NEW c \in Calls, NEW i \in Handlers, CommitOtcInterbank(c, i)
        PROVE  /\ Exercised(k, n) => Exercised(k, n)'
               /\ Exercised(k, n)' => Exercised(k, n) \/
                    (k = Seller /\ MarkSellerContract(c, i) /\ tx[c].of = n /\ attempt'[c][i].pc = "mark")
    <2>1. CASE MarkSellerContract(c, i)
      <3>1. CASE contract' = contract
        BY <1>2, <3>1
      <3>2. CASE /\ Proceed(c, i, "mark")
                 /\ contract' = [contract EXCEPT ![Seller][tx[c].of].status = "EXERCISED"]
        <4>1. attempt'[c][i].pc = "mark"
          BY <1>1, <3>2, ProceedDoes DEF HandlerLabels
        <4> QED BY <1>1, <2>1, <3>2, <4>1, CloseDoes DEF Exercised
      <3> QED BY <2>1, <3>1, <3>2 DEF MarkSellerContract
    <2>2. CASE CreateBuyerContract(c, i)
      <3>1. attempt[c][i].terms \in Terms
        BY HandlerFields
      <3> QED BY <1>1, <1>2, <1>3, <2>2, <3>1 DEF CreateBuyerContract
    <2>3. CASE contract' = contract
      BY <1>2, <2>3
    <2> QED BY <1>5, <2>1, <2>2, <2>3 DEF CommitOtcInterbank, LoadTx, DebitPremium,
            TakeShares, CreditStrike, MarkCommitted, StopHandler
  <1>6. ASSUME NEW m \in Negotiations, NEW j \in Banks, ExpireContract(j, m)
        PROVE  Exercised(k, n)' <=> Exercised(k, n)
    BY <1>1, <1>6, CloseDoes DEF ExpireContract, Exercised
  <1>7. ASSUME NEW c \in Calls, InsertContract(c)
        PROVE  Exercised(k, n)' <=> Exercised(k, n)
    BY <1>1, <1>2, <1>3, <1>7 DEF InsertContract
  <1>8. ASSUME NEW c \in Calls, DealsOf(c), ~InsertContract(c), ~MarkExercised(c),
               \A i \in Handlers : ~CommitOtcInterbank(c, i)
        PROVE  contract' = contract
    BY <1>8 DEF DealsOf, PrepareAccept, RollbackAccept, CreditSeller, PrepareExercise,
       RollbackExercise, SendCommit
  <1>9. ASSUME (\E j \in Banks : Crash(j)) \/ UNCHANGED Deals
        PROVE  contract' = contract
    BY <1>9 DEF Crash, Deals
  <1> QED BY <1>2, <1>4, <1>5, <1>6, <1>7, <1>8, <1>9, DealsStay

LEMMA StruckStep ==
  ASSUME TypeOK, [Next]_vars, NEW n \in Negotiations
  PROVE  /\ struck[n] \in Nat
         /\ \/ struck'[n] = struck[n]
            \/ \E c \in Calls, i \in Handlers : CreditStrike(c, i) /\ tx[c].of = n
                 /\ struck'[n] = struck[n] + 1
  <1>1. CountTypes /\ struck[n] \in Nat
    BY TypeParts DEF CountTypes
  <1>2. ASSUME NEW c \in Calls, NEW i \in Handlers, CommitOtcInterbank(c, i)
        PROVE  \/ struck'[n] = struck[n]
               \/ CreditStrike(c, i) /\ tx[c].of = n /\ struck'[n] = struck[n] + 1
    <2>1. CASE CreditStrike(c, i)
      <3>1. PICK m \in Negotiations : m = tx[c].of
        BY HandlerFields
      <3>2. struck' = struck \/ struck' = [struck EXCEPT ![m] = struck[m] + 1]
        BY <1>1, <2>1, <3>1 DEF CreditStrike, CountTypes
      <3>3. struck'[n] = struck[n] \/ (m = n /\ struck'[n] = struck[n] + 1)
        BY <1>1, <3>2 DEF CountTypes
      <3> QED BY <2>1, <3>1, <3>3
    <2>2. CASE ~CreditStrike(c, i)
      BY <1>2, <2>2 DEF CommitOtcInterbank, LoadTx, DebitPremium, CreateBuyerContract, TakeShares,
         MarkSellerContract, MarkCommitted, StopHandler, counts
    <2> QED BY <2>1, <2>2
  <1>3. ASSUME NEW c \in Calls, DealsOf(c), \A i \in Handlers : ~CommitOtcInterbank(c, i)
        PROVE  struck' = struck
    BY <1>3 DEF DealsOf, PrepareAccept, RollbackAccept, InsertContract, CreditSeller,
       PrepareExercise, RollbackExercise, MarkExercised, SendCommit, counts
  <1>4. ASSUME \/ \E k \in Banks : Crash(k)
               \/ \E m \in Negotiations, k \in Banks : ExpireContract(k, m)
               \/ UNCHANGED Deals
        PROVE  struck' = struck
    BY <1>4 DEF Crash, ExpireContract, Deals, counts
  <1> QED BY <1>1, <1>2, <1>3, <1>4, DealsStay

LEMMA CommittedStep ==
  ASSUME TypeOK, TxInv, [Next]_vars, NEW c \in Calls, tx'[c].status = "COMMITTED"
  PROVE  /\ tx'[c].of = tx[c].of /\ tx'[c].type = tx[c].type /\ Voted(c)
         /\ tx[c].status = "COMMITTED" \/ \E i \in Handlers : attempt[c][i].pc = "mark"
  <1>1. HandlerTypes
    BY TypeParts
  <1>2. tx'[c].of = tx[c].of /\ tx'[c].type = tx[c].type /\ Voted(c)
    BY VoteStep DEF Voted
  <1>3. CASE tx' = tx
    BY <1>2, <1>3
  <1>4. ASSUME NEW d \in Calls, RollBack(d)
        PROVE  tx[c].status = "COMMITTED"
    BY <1>1, <1>4, RollBackDoes
  <1>5. ASSUME NEW d \in Calls, NEW type \in {"ACCEPT", "EXERCISE"}, NEW n \in Negotiations,
               NEW amount \in Nat, Vote(d, type, n, amount)
        PROVE  tx[c].status = "COMMITTED"
    <2>1. MarkTypes
      BY TypeParts
    <2> QED BY <1>1, <1>5, <2>1, VoteDoes
  <1>6. ASSUME NEW d \in Calls, DealsOf(d), \A i \in Handlers : ~CommitOtcInterbank(d, i)
        PROVE  tx' = tx \/ tx[c].status = "COMMITTED"
    <2>1. call[d].of \in Negotiations /\ Amount[call[d].terms] \in Nat /\ 1 \in Nat
      BY TypeParts, Fields, Chosen
    <2> QED BY <1>4, <1>5, <1>6, <2>1 DEF DealsOf, PrepareAccept, RollbackAccept, InsertContract,
            CreditSeller, PrepareExercise, RollbackExercise, MarkExercised, SendCommit
  <1>7. ASSUME NEW d \in Calls, NEW i \in Handlers, CommitOtcInterbank(d, i), tx' # tx
        PROVE  tx[c].status = "COMMITTED" \/ attempt[c][i].pc = "mark"
    <2>1. MarkCommitted(d, i)
      BY <1>7 DEF CommitOtcInterbank, LoadTx, DebitPremium, CreateBuyerContract,
            TakeShares, CreditStrike, MarkSellerContract, StopHandler
    <2> QED BY <1>1, <1>7, <2>1 DEF MarkCommitted, Is, HandlerTypes, BankVote
  <1>8. ASSUME \/ \E k \in Banks : Crash(k)
               \/ \E n \in Negotiations, k \in Banks : ExpireContract(k, n)
               \/ UNCHANGED Deals
        PROVE  tx' = tx
    BY <1>8 DEF Crash, ExpireContract, Deals
  <1> QED BY <1>2, <1>3, <1>6, <1>7, <1>8, DealsStay

LEMMA DeliveredStays ==
  ASSUME TypeOK, [Next]_vars, NEW n \in Negotiations, Delivered(n)
  PROVE  Delivered(n)'
  <1>1. Seller \in Banks
    BY BankFacts
  <1> QED BY <1>1, ExercisedStep, MarksStay DEF Delivered

(* A request that exercises did so before the step, or has just begun.      *)
LEMMA ExercisesBefore ==
  ASSUME TypeOK, TxInv, [Next]_vars, NEW c \in Calls, call'[c].pc \in ExerciseLabels
  PROVE  \/ /\ call[c].pc \in ExerciseLabels /\ call'[c].of = call[c].of
            /\ call'[c].alive = call[c].alive \/ call[c].of \in doubted'
         \/ /\ call[c].pc = "idle" /\ call'[c].pc = "pay" /\ ExerciseContract(c, call'[c].of)
            /\ call'[c].alive = call[c].alive /\ NoneSent(c)
            /\ contract' = contract /\ attempt' = attempt
            /\ \A d \in Calls \ {c} : call'[d] = call[d]
  <1>1. RequestTypes /\ Paying \cap ExerciseLabels = {} /\ Buyer \in Banks
    BY TypeParts, BankFacts DEF Paying, ExerciseLabels
  <1>2. ~InsertContract(c)
    BY <1>1, GoToDoes DEF InsertContract, ExerciseLabels
  <1>3. ASSUME NEW n \in Negotiations, ExerciseContract(c, n)
        PROVE  /\ call[c].pc = "idle" /\ call'[c].pc = "pay" /\ call'[c].of = n
               /\ call'[c].alive = call[c].alive /\ NoneSent(c)
               /\ contract' = contract /\ attempt' = attempt
               /\ \A d \in Calls \ {c} : call'[d] = call[d]
    <2>1. contract[Buyer][n].terms \in Terms
      BY <1>1, EntryFields
    <2>2. call[c].pc = "idle" /\ contract' = contract /\ attempt' = attempt
      BY <1>3 DEF ExerciseContract, At, dealing
    <2>3. NoneSent(c)
      BY <2>2 DEF TxInv, CallInv, SentInv, Sent
    <2> QED BY <1>1, <1>3, <2>1, <2>2, <2>3, BeginDoes, LabelFacts DEF ExerciseContract
  <1> QED BY <1>1, <1>2, <1>3, Transitions

LEMMA AnswersStep ==
  ASSUME TypeOK, TxInv, Answers, [Next]_vars
  PROVE  Answers'
  <1>1. /\ RequestTypes /\ HandlerTypes /\ MarkTypes /\ Buyer \in Banks /\ Seller \in Banks
        /\ Ending \subseteq ExerciseLabels /\ {"exCommit", "exCommitting"} \subseteq ExerciseLabels
    BY TypeParts, BankFacts DEF Ending, ExerciseLabels
  <1>2. ASSUME NEW n \in Negotiations, Exercised(Buyer, n)'
        PROVE  Delivered(n)'
    <2>1. CASE Exercised(Buyer, n)
      BY <2>1, DeliveredStays DEF Answers
    <2>2. CASE ~Exercised(Buyer, n)
      <3>1. PICK c \in Calls : MarkExercised(c) /\ call[c].of = n
        BY <1>1, <1>2, <2>2, ExercisedStep, BankFacts
      <3>2. call[c].pc \in Ending
        BY <3>1 DEF MarkExercised, At, Ending
      <3> QED BY <3>1, <3>2, DeliveredStays DEF Answers
    <2> QED BY <2>1, <2>2
  <1>3. ASSUME NEW c \in Calls, call'[c].pc \in ExerciseLabels, Asked(c)' \/ SomeHandler(c)'
        PROVE  Voted(c)' \/ call'[c].of \in lost'
    <2>1. Voted(c) => Voted(c)'
      BY VoteStep
    <2>2. call[c].pc \in ExerciseLabels /\ call'[c].of = call[c].of
      BY <1>3, ExercisesBefore DEF Asked, SomeHandler, NoneSent
    <2>3. CASE Asked(c) \/ SomeHandler(c)
      BY <2>1, <2>2, <2>3, MarksStay DEF Answers
    <2>4. CASE ~Asked(c) /\ ~SomeHandler(c)
      <3>1. ASSUME NEW i \in Handlers, attempt'[c][i].pc # "none" PROVE FALSE
        <4>1. attempt[c][i].pc = "none"
          BY <2>4 DEF SomeHandler
        <4>2. ~SendCommit(c)
          BY <2>2, <2>4 DEF SendCommit, CommitLabels, Asked, ExerciseLabels
        <4> QED BY <3>1, <4>1, <4>2, HandlerNext
      <3>2. PrepareExercise(c) /\ call'[c].pc = "exCommit"
        BY <1>3, <2>2, <2>4, <3>1, ExerciseMoves DEF Asked, SomeHandler
      <3>3. Vote(c, "EXERCISE", call[c].of, Amount[call[c].terms])
        <4>1. "giveBack" # "exCommit" /\ (GoTo(c, "giveBack") => call'[c].pc = "giveBack")
          BY <1>1, GoToDoes
        <4> QED BY <3>2, <4>1 DEF PrepareExercise
      <3>4. call[c].of \in Negotiations /\ Amount[call[c].terms] \in Nat
        BY <1>1, Fields, Chosen
      <3> QED BY <1>1, <2>2, <3>3, <3>4, VoteDoes DEF Voted
    <2> QED BY <2>3, <2>4
  <1>4. ASSUME NEW c \in Calls, call'[c].pc \in Ending
        PROVE  Delivered(call[c].of)'
    <2>1. call[c].pc \in ExerciseLabels /\ call'[c].of = call[c].of
      BY <1>1, <1>4, ExercisesBefore DEF Ending
    <2>2. PICK n \in Negotiations : n = call[c].of
      BY <1>1, Fields
    <2>3. CASE call[c].pc \in Ending
      <3>1. Delivered(n)'
        BY <2>2, <2>3, DeliveredStays DEF Answers
      <3> QED BY <2>1, <2>2, <3>1 DEF Delivered, Exercised
    <2>4. CASE call[c].pc = "exCommitting" /\ Latest(c).pc = "done" /\ Latest(c).ok
      <3>1. call[c].tries \in Handlers
        BY <2>4 DEF TxInv, CallInv, SentInv, Answering
      <3>2. Delivered(n)'
        BY <2>1, <2>2, <2>4, <3>1, DeliveredStays DEF Answers, Latest
      <3> QED BY <2>1, <2>2, <3>2 DEF Delivered, Exercised
    <2> QED BY <1>1, <1>4, <2>1, <2>3, <2>4, ExerciseMoves DEF Ending
  <1>5. ASSUME NEW c \in Calls, NEW i \in Handlers, Voted(c), tx[c].type = "EXERCISE",
               attempt[c][i].pc = "mark"
        PROVE  Exercised(Seller, tx[c].of)
    BY <1>5 DEF Answers
  <1>6. ASSUME NEW c \in Calls, Exercised(Seller, tx[c].of), tx'[c].of = tx[c].of
        PROVE  Exercised(Seller, tx[c].of)'
    <2>1. PICK n \in Negotiations : n = tx[c].of
      BY <1>1 DEF HandlerTypes, BankVote
    <2>2. Exercised(Seller, n)'
      BY <1>1, <1>6, <2>1, ExercisedStep
    <2> QED BY <1>6, <2>1, <2>2 DEF Exercised
  <1>7. ASSUME NEW c \in Calls, tx'[c].type = "EXERCISE", tx'[c].status = "COMMITTED"
        PROVE  Exercised(Seller, tx[c].of)'
    <2>1. Exercised(Seller, tx[c].of) /\ tx'[c].of = tx[c].of
      BY <1>5, <1>7, CommittedStep DEF Answers
    <2> QED BY <1>6, <2>1
  <1>8. ASSUME NEW c \in Calls, NEW i \in Handlers, Voted(c)', tx'[c].type = "EXERCISE",
               attempt'[c][i].pc = "mark"
        PROVE  Exercised(Seller, tx[c].of)'
    <2>1. CASE attempt'[c][i] = attempt[c][i]
      <3>1. Voted(c)
        BY <1>8, <2>1 DEF TxInv, CallInv, HandlerInv
      <3>2. tx'[c].of = tx[c].of /\ tx'[c].type = tx[c].type
        BY <3>1, VoteStep
      <3> QED BY <1>5, <1>6, <1>8, <2>1, <3>1, <3>2
    <2>2. CASE attempt'[c][i] # attempt[c][i]
      <3>1. \/ attempt[c][i].pc = "insert"
            \/ attempt[c][i].pc = "exercised" /\ MarkSellerContract(c, i)
        BY <1>8, <2>2, HandlerNext
      <3>2. Voted(c) /\ (attempt[c][i].pc = "insert" => tx[c].type = "ACCEPT")
        BY <3>1 DEF TxInv, CallInv, HandlerInv
      <3>3. tx'[c].of = tx[c].of /\ tx'[c].type = tx[c].type
        BY <3>2, VoteStep
      <3>4. MarkSellerContract(c, i)
        BY <1>8, <3>1, <3>2, <3>3
      <3>5. contract' = [contract EXCEPT ![Seller][tx[c].of].status = "EXERCISED"]
        BY <1>1, <1>8, <3>4, EndDoes DEF MarkSellerContract
      <3>6. PICK n \in Negotiations : n = tx[c].of
        BY <1>1 DEF HandlerTypes, BankVote
      <3>7. ContractTypes /\ contract' = [contract EXCEPT ![Seller][n].status = "EXERCISED"]
        BY <3>5, <3>6, TypeParts
      <3>8. contract'[Seller][n].status = "EXERCISED"
        BY <1>1, <3>7, CloseDoes
      <3> QED BY <3>3, <3>6, <3>8 DEF Exercised
    <2> QED BY <2>1, <2>2
  <1>9. ASSUME NEW c \in Calls, NEW i \in Handlers, call'[c].pc \in ExerciseLabels,
               attempt'[c][i].pc = "done", attempt'[c][i].ok
        PROVE  Delivered(call[c].of)'
    <2>1. PICK n \in Negotiations : n = call[c].of
      BY <1>1, Fields
    <2>2. call[c].pc \in ExerciseLabels /\ call'[c].of = call[c].of
      <3>1. attempt[c][i].pc # "none" \/ SendCommit(c)
        BY <1>9, HandlerNext
      <3>2. ASSUME SendCommit(c), call[c].pc = "idle" PROVE FALSE
        BY <3>2 DEF SendCommit, CommitLabels
      <3> QED BY <1>9, <3>1, <3>2, ExercisesBefore DEF NoneSent
    <2>3. ASSUME Voted(c) PROVE tx[c].of = n /\ tx[c].type = "EXERCISE"
      BY <2>1, <2>2, <2>3, Classes DEF TxInv, CallInv, VoteInv, Watched, Carrying, ExerciseLabels
    <2>4. Delivered(n)
      <3>1. CASE attempt'[c][i] = attempt[c][i]
        BY <1>9, <2>1, <2>2, <3>1 DEF Answers
      <3>2. CASE attempt[c][i].pc = "load" /\ tx[c].status = "none"
        BY <2>1, <2>2, <3>2 DEF Answers, SomeHandler, Voted, Delivered
      <3>3. CASE attempt[c][i].pc = "load" /\ tx[c].status = "COMMITTED"
        BY <2>3, <3>3 DEF Answers, Voted, Delivered
      <3>4. CASE attempt[c][i].pc = "mark"
        <4>1. Voted(c)
          BY <3>4 DEF TxInv, CallInv, HandlerInv
        <4> QED BY <1>5, <2>3, <3>4, <4>1 DEF Delivered
      <3> QED BY <1>9, <3>1, <3>2, <3>3, <3>4, HandlerNext
    <2>5. Delivered(n)'
      BY <2>4, DeliveredStays
    <2> QED BY <2>1, <2>2, <2>5 DEF Delivered, Exercised
  <1> QED BY <1>2, <1>3, <1>4, <1>7, <1>8, <1>9 DEF Answers

(* A handler that works for an undisturbed negotiation is that of the call  *)
(* that waits for it.                                                       *)
LEMMA WorksForOne ==
  ASSUME TypeOK, TxInv, NEW n \in Negotiations, n \notin doubted \cup repeated,
         NEW c \in Calls, NEW i \in Handlers, tx[c].of = n,
         attempt[c][i].pc \in {"shares", "strike", "exercised"}
  PROVE  /\ Exercises(c, n) /\ call[c].pc = "exCommitting" /\ i = 1
         /\ Voted(c) /\ tx[c].type = "EXERCISE"
  <1>1. CallInv(c)
    BY DEF TxInv
  <1>2. Voted(c) /\ tx[c].type = "EXERCISE"
    BY <1>1 DEF CallInv, HandlerInv
  <1>3. call[c].pc \in Answering /\ i = 1
    BY <1>1, <1>2 DEF CallInv, HandlerInv, Running
  <1>4. call[c].of = n /\ call[c].pc \notin Accepting
    BY <1>1, <1>2, <1>3 DEF CallInv, VoteInv, Answering
  <1>5. call[c].pc = "exCommitting"
    BY <1>3, <1>4 DEF Answering, Accepting, AcceptLabels
  <1> QED BY <1>2, <1>3, <1>4, <1>5 DEF Exercises, ExerciseLabels

LEMMA PastStays ==
  ASSUME TypeOK, TxInv, [Next]_vars, NEW n \in Negotiations, Undisturbed(n)',
         NEW labels \in {{"mark"}, {"exercised", "mark"}},
         NEW c \in Calls, Exercises(c, n), Past(c, labels)
  PROVE  Exercised(Buyer, n)' \/ (Exercises(c, n)' /\ Past(c, labels)')
  <1>1. /\ n \notin doubted' \cup repeated' \cup lost' /\ n \notin doubted \cup repeated \cup lost
        /\ CallInv(c) /\ Ending \subseteq ExerciseLabels /\ 1 \in Handlers /\ ContractTypes
        /\ Buyer \in Banks
    BY MarksStay, Chosen, TypeParts, BankFacts DEF Undisturbed, TxInv, Ending, ExerciseLabels, Handlers
  <1>2. call[c].of = n /\ call[c].pc \in ExerciseLabels
    BY DEF Exercises
  <1>3. CASE MarkExercised(c)
    <2>1. contract' = [contract EXCEPT ![Buyer][n].status = "EXERCISED"]
      BY <1>1, <1>2, <1>3 DEF MarkExercised, Loses
    <2> QED BY <1>1, <2>1, CloseDoes DEF Exercised
  <1>4. CASE call[c].pc \in Ending /\ ~MarkExercised(c)
    <2>1. call'[c].of = n /\ call'[c].pc \in Ending
      BY <1>1, <1>2, <1>4, ExerciseMoves DEF Ending, Asked, PrepareExercise, At
    <2> QED BY <1>1, <2>1 DEF Exercises, Past
  <1>5. CASE /\ call[c].pc = "exCommitting"
             /\ attempt[c][1].pc \in labels \/ (attempt[c][1].pc = "done" /\ attempt[c][1].ok)
    <2>1. call[c].tries = 1
      BY <1>1, <1>2, <1>5 DEF CallInv, SentInv, Answering
    <2>2. Latest(c) = attempt[c][1]
      BY <2>1 DEF Latest
    <2>3. CASE call'[c].pc # call[c].pc
      <3>1. /\ call'[c].of = n /\ Latest(c).pc = "done"
            /\ call'[c].pc = IF Latest(c).ok THEN "debit" ELSE "undo"
        BY <1>1, <1>2, <1>5, <2>3, ExerciseMoves DEF PrepareExercise, MarkExercised, At
      <3>2. attempt[c][1].ok
        BY <1>5, <2>2, <3>1
      <3>3. call'[c].pc = "debit"
        BY <2>2, <3>1, <3>2
      <3> QED BY <1>1, <3>1, <3>3 DEF Exercises, Past, Ending
    <2>4. CASE call'[c].pc = call[c].pc
      <3>1. call'[c].of = n
        BY <1>1, <1>2, <1>5, <2>4, ExerciseMoves DEF MarkExercised, At
      <3>2. attempt'[c][1].pc \in labels \/ (attempt'[c][1].pc = "done" /\ attempt'[c][1].ok)
        <4>1. CASE attempt'[c][1] = attempt[c][1]
          BY <1>5, <4>1
        <4>2. CASE attempt'[c][1] # attempt[c][1]
          <5>1. ~SendCommit(c)
            BY <1>5 DEF SendCommit, CommitLabels
          <5>2. attempt[c][1].pc \in {"exercised", "mark"}
            BY <1>1, <1>5, <4>2, <5>1, HandlerNext
          <5>3. ~Cut(c)
            <6>1. tx[c].of = n
              BY <1>1, <1>2, <1>5, <5>2 DEF CallInv, HandlerInv, VoteInv
            <6>2. ASSUME NEW k \in Banks, Crash(k) PROVE FALSE
              BY <1>1, <1>2, <6>2 DEF Crash, BuyerRuns
            <6> QED BY <1>1, <6>1, <6>2 DEF Cut
          <5> QED BY <1>1, <1>5, <4>2, <5>1, <5>2, <5>3, HandlerNext
        <4> QED BY <4>1, <4>2
      <3> QED BY <1>2, <1>5, <2>4, <3>1, <3>2 DEF Exercises, Past
    <2> QED BY <2>3, <2>4
  <1> QED BY <1>3, <1>4, <1>5 DEF Past

LEMMA OneExerciseStep ==
  ASSUME TypeOK, TxInv, [Next]_vars, NEW n \in Negotiations, Undisturbed(n)', OneExercise(n),
         \A c \in Calls : call[c].pc = "idle" => call[c].alive
  PROVE  OneExercise(n)'
  <1>1. /\ n \notin doubted' \cup repeated' \cup lost' /\ n \notin doubted \cup repeated \cup lost
        /\ HandlerTypes /\ RequestTypes /\ Buyer \in Banks /\ Seller \in Banks /\ Buyer # Seller
        /\ 1 \in Handlers
    BY MarksStay, Chosen, TypeParts, BankFacts DEF Undisturbed, Handlers
  <1>2. ASSUME NEW c \in Calls, ExerciseContract(c, n)
        PROVE  (\A d \in Calls : ~Exercises(d, n)) /\ ~Exercised(Buyer, n) /\ call[c].alive
    BY <1>2 DEF ExerciseContract, Locked, OneExercise, Exercises, Exercised, At
  <1>3. ASSUME NEW c \in Calls, Exercises(c, n)'
        PROVE  /\ call'[c].alive
               /\ Exercises(c, n) \/ (ExerciseContract(c, n) /\ contract' = contract
                                      /\ \A d \in Calls \ {c} : call'[d] = call[d])
    <2>1. call'[c].of = n /\ call'[c].pc \in ExerciseLabels
      BY <1>3 DEF Exercises
    <2>2. CASE call[c].pc \in ExerciseLabels /\ call'[c].of = call[c].of
      BY <1>1, <2>1, <2>2, ExercisesBefore DEF Exercises, OneExercise, ExerciseLabels
    <2>3. CASE ExerciseContract(c, n)
      BY <1>2, <2>1, <2>3, ExercisesBefore DEF ExerciseContract, At, ExerciseLabels
    <2> QED BY <2>1, <2>2, <2>3, ExercisesBefore
  <1>4. ASSUME NEW c \in Calls, NEW d \in Calls, Exercises(c, n)', Exercises(d, n)'
        PROVE  c = d
    <2>1. CASE Exercises(c, n) /\ Exercises(d, n)
      BY <2>1 DEF OneExercise
    <2>2. CASE ~Exercises(c, n)
      BY <1>2, <1>3, <1>4, <2>2 DEF Exercises
    <2>3. CASE ~Exercises(d, n)
      BY <1>2, <1>3, <1>4, <2>3 DEF Exercises
    <2> QED BY <2>1, <2>2, <2>3
  <1>5. ASSUME Exercised(Buyer, n)', NEW c \in Calls, Exercises(c, n)'
        PROVE  FALSE
    <2>1. CASE Exercised(Buyer, n)
      BY <1>2, <1>3, <1>5, <2>1 DEF OneExercise
    <2>2. CASE ~Exercised(Buyer, n)
      <3>1. PICK d \in Calls : MarkExercised(d) /\ call[d].of = n
        BY <1>1, <1>5, <2>2, ExercisedStep
      <3>2. Exercises(d, n) /\ call'[d].pc = "end" /\ \A e \in Calls \ {d} : call'[e] = call[e]
        BY <1>1, <3>1, ReturnDoes DEF MarkExercised, At, Finished, Exercises, ExerciseLabels
      <3>3. c # d
        BY <1>5, <3>2 DEF Exercises, ExerciseLabels
      <3>4. Exercises(c, n)
        BY <1>5, <3>2, <3>3 DEF Exercises
      <3> QED BY <3>2, <3>3, <3>4 DEF OneExercise
    <2> QED BY <2>1, <2>2
  <1>6. ASSUME Exercised(Seller, n)'
        PROVE  Exercised(Buyer, n)' \/ \E c \in Calls : Exercises(c, n)' /\ Past(c, {"mark"})'
    <2>1. CASE Exercised(Seller, n)
      <3>1. CASE Exercised(Buyer, n)
        BY <1>1, <3>1, ExercisedStep
      <3>2. CASE \E c \in Calls : Exercises(c, n) /\ Past(c, {"mark"})
        BY <3>2, PastStays
      <3> QED BY <2>1, <3>1, <3>2 DEF OneExercise
    <2>2. CASE ~Exercised(Seller, n)
      <3>1. PICK c \in Calls, i \in Handlers :
              MarkSellerContract(c, i) /\ tx[c].of = n /\ attempt'[c][i].pc = "mark"
        BY <1>1, <1>6, <2>2, ExercisedStep
      <3>2. Exercises(c, n) /\ call[c].pc = "exCommitting" /\ i = 1 /\ call' = call
        BY <1>1, <3>1, WorksForOne DEF MarkSellerContract, Is
      <3>3. Exercises(c, n)' /\ Past(c, {"mark"})'
        BY <3>1, <3>2 DEF Exercises, Past
      <3> QED BY <3>3
    <2> QED BY <2>1, <2>2
  <1>7. ASSUME struck'[n] >= 1
        PROVE  /\ struck'[n] = 1
               /\ \/ Exercised(Buyer, n)'
                  \/ \E c \in Calls : Exercises(c, n)' /\ Past(c, {"exercised", "mark"})'
    <2>1. ASSUME NEW c \in Calls, NEW i \in Handlers, CreditStrike(c, i), tx[c].of = n
          PROVE  /\ Exercises(c, n) /\ call[c].pc = "exCommitting" /\ i = 1 /\ call' = call
                 /\ attempt[c][1].pc = "strike" /\ attempt'[c][1].pc = "exercised"
      <3>1. Exercises(c, n) /\ call[c].pc = "exCommitting" /\ i = 1
        BY <1>1, <2>1, WorksForOne DEF CreditStrike, Is
      <3>2. attempt[c][1].pc = "strike" /\ attempt'[c][1].pc = "exercised" /\ call' = call
        BY <1>1, <2>1, <3>1, ProceedDoes DEF CreditStrike, Is, HandlerLabels
      <3> QED BY <3>1, <3>2
    <2>2. CASE struck[n] >= 1
      <3>1. struck'[n] = struck[n]
        <4>1. ASSUME NEW c \in Calls, NEW i \in Handlers, CreditStrike(c, i), tx[c].of = n
              PROVE  FALSE
          <5>1. Exercises(c, n) /\ ~Past(c, {"exercised", "mark"})
            BY <2>1, <4>1 DEF Past, Ending
          <5> QED BY <2>2, <5>1 DEF OneExercise
        <4> QED BY <4>1, StruckStep
      <3>2. CASE Exercised(Buyer, n)
        BY <1>1, <2>2, <3>1, <3>2, ExercisedStep DEF OneExercise
      <3>3. CASE \E c \in Calls : Exercises(c, n) /\ Past(c, {"exercised", "mark"})
        BY <2>2, <3>1, <3>3, PastStays DEF OneExercise
      <3> QED BY <2>2, <3>2, <3>3 DEF OneExercise
    <2>3. CASE ~(struck[n] >= 1)
      <3>1. PICK c \in Calls, i \in Handlers : CreditStrike(c, i) /\ tx[c].of = n
                                               /\ struck'[n] = struck[n] + 1
        BY <1>7, <2>3, StruckStep
      <3>2. Exercises(c, n)' /\ Past(c, {"exercised", "mark"})'
        BY <2>1, <3>1 DEF Exercises, Past
      <3>3. struck'[n] = 1
        BY <2>3, <3>1, StruckStep
      <3> QED BY <3>2, <3>3
    <2> QED BY <2>2, <2>3
  <1> QED BY <1>3, <1>4, <1>5, <1>6, <1>7 DEF OneExercise

LEMMA ExerciseInit ==
  Init => ExerciseInv
  <1> SUFFICES ASSUME Init PROVE ExerciseInv
    OBVIOUS
  <1>1. /\ \A c \in Calls : tx[c].status = "none" /\ call[c].pc = "idle" /\ call[c].alive
        /\ \A k \in Banks, n \in Negotiations : contract[k][n].status = "none"
        /\ \A n \in Negotiations : struck[n] = 0
        /\ \A c \in Calls, i \in Handlers : attempt[c][i].pc = "none"
    BY DEF Init, NoTx, Finished, Absent, NoAttempt, Handlers
  <1>2. "idle" \notin ExerciseLabels /\ Ending \subseteq ExerciseLabels
    BY DEF ExerciseLabels, Ending
  <1>3. Answers
    BY <1>1, <1>2, BankFacts DEF Answers, Exercised, Voted
  <1>4. \A n \in Negotiations : OneExercise(n)
    BY <1>1, <1>2, BankFacts DEF OneExercise, Exercised, Exercises
  <1> QED BY <1>1, <1>3, <1>4 DEF ExerciseInv

LEMMA IdleStep ==
  ASSUME TypeOK, [Next]_vars, NEW c \in Calls, call[c].pc = "idle" => call[c].alive,
         call'[c].pc = "idle"
  PROVE  call'[c].alive
  <1>1. /\ RequestTypes /\ RowTypes /\ call[c] \in Request /\ "idle" \notin AcceptLabels \cup ExerciseLabels
    BY TypeParts, Fields DEF AcceptLabels, ExerciseLabels
  <1>2. CASE call'[c] = call[c]
    BY <1>2
  <1>3. ASSUME NEW d \in Calls, NEW n \in Negotiations, Offer(d, n)
        PROVE  call'[c] = call[c]
    <2>1. ASSUME NEW k \in Banks, NEW t \in Terms, NEW label \in {"forward", "put", "delete", "pay"},
                 Begin(d, k, n, t, label)
          PROVE  call'[c] = call[c]
      BY <1>1, <2>1, BeginDoes, LabelFacts
    <2>2. ASSUME NEW k \in Banks, Accept(d, k, n)
          PROVE  call'[c] = call[c]
      BY <1>1, <2>2, AcceptDoes
    <2> QED BY <1>3, <2>1, <2>2, BankFacts, EntryFields
        DEF Offer, CreateNegotiation, CounterOffer, RejectNegotiation, AcceptNegotiation,
            AcceptBySeller, ExerciseContract
  <1>4. ASSUME NEW d \in Calls, NEW label, label # "idle", GoTo(d, label) \/ Return(d)
        PROVE  call'[c] = call[c]
    BY <1>1, <1>4, GoToDoes, ReturnDoes DEF Finished
  <1>5. ASSUME NEW d \in Calls, Forward(d)
        PROVE  call'[c] = call[c]
    <2>1. Return(d) \/ \E label \in {"link", "drop", "putUpdate", "deleteUpdate"} : GoTo(d, label)
      BY <1>5 DEF Forward, CreateInterbankNegotiation, ForwardFails, StorePartnerId,
         DropNegotiation, LookupInterbankNegotiation, RequestLost, InterbankCounterOffer,
         InterbankDeleteNegotiation
    <2> QED BY <1>4, <2>1
  <1>6. ASSUME NEW d \in Calls, RunAcceptance(d)
        PROVE  call'[c] = call[c]
    <2>1. \/ Return(d)
          \/ \E label \in {"load", "refused", "newTx", "revert", "reserve", "rollback", "contract", "commit"} :
               GoTo(d, label)
          \/ LoadNegotiation(d) \/ GiveUp(d) \/ Cancel(d)
      BY <1>6 DEF RunAcceptance, InterbankAcceptNegotiation, PrepareAccept, NewTxFails,
         ReserveShares, RollbackAccept, InsertContract, CreditSeller, RevertAccept, RevertAtBuyer
    <2>2. CASE LoadNegotiation(d)
      <3>1. CASE call' = [call EXCEPT ![d] = [@ EXCEPT
                   !.pc = "newTx", !.terms = row[Seller][call[d].of].terms]]
        BY <1>1, <3>1 DEF RequestTypes, Request
      <3> QED BY <1>4, <2>2, <3>1 DEF LoadNegotiation
    <2>3. CASE GiveUp(d)
      <3>1. CASE Return(d)
        BY <1>1, <3>1, ReturnDoes DEF Finished
      <3>2. CASE call' = [call EXCEPT ![d].waits = FALSE]
        BY <1>1, <2>3, <3>2 DEF RequestTypes, Request, GiveUp
      <3> QED BY <2>3, <3>1, <3>2 DEF GiveUp
    <2>4. CASE Cancel(d)
      BY <1>1, <2>4 DEF Cancel, RequestTypes, Request
    <2> QED BY <1>4, <2>1, <2>2, <2>3, <2>4
  <1>7. ASSUME NEW d \in Calls, RunExercise(d)
        PROVE  call'[c] = call[c]
    <2>1. Return(d) \/ \E label \in {"prepare", "exCommit", "giveBack", "deliver", "close"} : GoTo(d, label)
      BY <1>7 DEF RunExercise, ReserveFunds, PrepareExercise, PrepareFails, RollbackExercise,
         GiveBack, DebitBuyer, AddShares, MarkExercised
    <2> QED BY <1>4, <2>1
  <1>8. ASSUME NEW d \in Calls, Commit(d)
        PROVE  call'[c] = call[c]
    <2>1. CASE SendCommit(d)
      BY <1>1, <2>1 DEF SendCommit, Waiting, RequestTypes, Request
    <2>2. \/ SendCommit(d)
          \/ \E label \in {"credit", "debit", "undo", "commit", "exCommit"} : GoTo(d, label)
      <3>1. PICK a : a = IF At(d, "committing") THEN "credit" ELSE IF Latest(d).ok THEN "debit" ELSE "undo"
        OBVIOUS
      <3>2. PICK b : b = IF At(d, "commit") THEN "credit" ELSE "undo"
        OBVIOUS
      <3>3. PICK e : e = Sending(call[d].pc)
        OBVIOUS
      <3>4. a \in {"credit", "debit", "undo"} /\ b \in {"credit", "undo"} /\ e \in {"commit", "exCommit"}
        BY <3>1, <3>2, <3>3 DEF Sending
      <3> QED BY <1>8, <3>1, <3>2, <3>3, <3>4 DEF Commit, CommitAnswered, CommitTimesOut, CommitFails
    <2> QED BY <1>4, <2>1, <2>2
  <1>9. ASSUME NEW k \in Banks, Crash(k)
        PROVE  call'[c].alive
    <2>1. call'[c] = AfterCrash(c, k)
      BY <1>9 DEF Crash
    <2>2. \/ call'[c] = Finished("end") \/ call'[c] = call[c]
          \/ call'[c] = [call[c] EXCEPT !.pc = "refused"]
          \/ call'[c] = [call[c] EXCEPT !.waits = FALSE]
      BY <2>1, Zenon DEF AfterCrash
    <2> QED BY <1>1, <2>2 DEF Finished, Request
  <1>10. ASSUME NEW d \in Calls, NEW i \in 1..MaxTries, CommitOtcInterbank(d, i)
         PROVE  call'[c] = call[c]
    BY <1>10 DEF CommitOtcInterbank, LoadTx, DebitPremium, CreateBuyerContract, TakeShares,
       CreditStrike, MarkSellerContract, MarkCommitted, StopHandler
  <1>11. CASE \/ Spend \/ SellShare \/ UNCHANGED vars
              \/ \E n \in Negotiations : SettlementPasses(n) \/ \E k \in Banks : ExpireContract(k, n)
    BY <1>11 DEF Spend, SellShare, SettlementPasses, ExpireContract, vars
  <1> QED BY <1>2, <1>3, <1>5, <1>6, <1>7, <1>8, <1>9, <1>10, <1>11 DEF Next

LEMMA ExerciseInvStep ==
  TypeOK /\ TxInv /\ ExerciseInv /\ [Next]_vars => ExerciseInv'
  <1> SUFFICES ASSUME TypeOK, TxInv, ExerciseInv, [Next]_vars PROVE ExerciseInv'
    OBVIOUS
  <1>1. Answers' /\ \A c \in Calls : call'[c].pc = "idle" => call'[c].alive
    BY AnswersStep, IdleStep DEF ExerciseInv
  <1>2. ASSUME NEW n \in Negotiations, Undisturbed(n)'
        PROVE  OneExercise(n)'
    BY <1>2, OneExerciseStep, MarksStay DEF ExerciseInv, Undisturbed
  <1> QED BY <1>1, <1>2 DEF ExerciseInv

LEMMA ExercisesHold == Spec => []ExerciseInv
  <1>1. Init => ExerciseInv
    BY ExerciseInit
  <1>2. DealInv /\ ExerciseInv /\ [Next]_vars => ExerciseInv'
    BY ExerciseInvStep DEF DealInv
  <1> QED BY <1>1, <1>2, DealsHold, PTL DEF Spec

(* A buyer whose contract is EXERCISED has taken the seller's shares unless *)
(* the write of a row was lost; a seller who delivered has a buyer whose    *)
(* row says so once nothing is under way, and the strike is paid once,      *)
(* unless a caller stopped waiting, COMMIT_TX was repeated or a row lost    *)
(* (ExerciseContract of interbank_outgoing.go, CommitOtcInterbank).         *)
THEOREM ExercisesMatch == Spec => []SharesDelivered
  <1>1. ASSUME TypeOK, ExerciseInv, NEW n \in Negotiations
        PROVE  /\ contract[Buyer][n].status = "EXERCISED" =>
                    contract[Seller][n].status = "EXERCISED" \/ n \in lost
               /\ contract[Seller][n].status = "EXERCISED" /\ Quiet(n) /\ Undisturbed(n) =>
                    contract[Buyer][n].status = "EXERCISED"
               /\ struck[n] <= 1 \/ ~Undisturbed(n)
    <2>1. struck[n] \in Nat
      BY <1>1, TypeParts DEF CountTypes
    <2>2. Quiet(n) => \A c \in Calls : ~Exercises(c, n)
      BY DEF Quiet, Exercises, ExerciseLabels
    <2>3. contract[Buyer][n].status = "EXERCISED" =>
            contract[Seller][n].status = "EXERCISED" \/ n \in lost
      BY <1>1 DEF ExerciseInv, Answers, Delivered, Exercised
    <2>4. Undisturbed(n) => OneExercise(n)
      BY <1>1 DEF ExerciseInv
    <2> QED BY <2>1, <2>2, <2>3, <2>4 DEF OneExercise, Exercised
  <1>2. TypeOK /\ ExerciseInv => SharesDelivered
    BY <1>1 DEF SharesDelivered
  <1> QED BY <1>2, DealsHold, ExercisesHold, PTL DEF DealInv
-----------------------------------------------------------------------------
(* Reserved shares.  While no exercise was disturbed, the seller's bank     *)
(* reserves at least what is owed under contracts not yet exercised and     *)
(* what acceptances have reserved and not yet written down.                 *)
Takes(c, i, n) ==
  /\ Voted(c) /\ tx[c].type = "EXERCISE" /\ tx[c].of = n
  /\ attempt[c][i].pc \in {"strike", "exercised"}
SharesTaken(n) == \E c \in Calls, i \in Handlers : Takes(c, i, n)
Owed(n) == IF Present(Seller, n) /\ ~Exercised(Seller, n) /\ ~SharesTaken(n) THEN Sold(n) ELSE 0
InHand(c) == IF call[c].pc = "contract" THEN Amount[call[c].terms] ELSE 0
AllOwed == SumFunctionOnSet([n \in Negotiations |-> Owed(n)], Negotiations)
AllInHand == SumFunctionOnSet([c \in Calls |-> InHand(c)], Calls)
NothingDisturbed == \A n \in Negotiations : Prepared(n) => Undisturbed(n)
Covered == NothingDisturbed => reserved >= AllOwed + AllInHand

LEMMA ReserveFirst ==
  ASSUME TypeOK, [Next]_vars, NEW d \in Calls, call'[d].pc = "contract"
  PROVE  /\ call'[d].terms = call[d].terms
         /\ call[d].pc = "contract" \/ ReserveShares(d)
  <1>1. /\ RequestTypes /\ RowTypes /\ call[d] \in Request
        /\ "contract" \notin ExerciseLabels /\ "contract" \notin CommitLabels
    BY TypeParts, Fields DEF ExerciseLabels, CommitLabels
  <1>2. CASE call'[d] = call[d]
    BY <1>2
  <1>3. ASSUME NEW c \in Calls, NEW n \in Negotiations, Offer(c, n)
        PROVE  call'[d] = call[d]
    <2>1. ASSUME NEW k \in Banks, NEW t \in Terms, NEW label \in {"forward", "put", "delete", "pay"},
                 Begin(c, k, n, t, label)
          PROVE  call'[d] = call[d]
      BY <1>1, <2>1, BeginDoes, LabelFacts
    <2>2. ASSUME NEW k \in Banks, Accept(c, k, n)
          PROVE  call'[d] = call[d]
      BY <1>1, <2>2, AcceptDoes
    <2> QED BY <1>3, <2>1, <2>2, BankFacts, EntryFields
        DEF Offer, CreateNegotiation, CounterOffer, RejectNegotiation, AcceptNegotiation,
            AcceptBySeller, ExerciseContract
  <1>4. ASSUME NEW c \in Calls, NEW label, label # "contract", GoTo(c, label) \/ Return(c)
        PROVE  call'[d] = call[d]
    BY <1>1, <1>4, GoToDoes, ReturnDoes DEF Finished
  <1>5. ASSUME NEW c \in Calls, Forward(c)
        PROVE  call'[d] = call[d]
    <2>1. Return(c) \/ \E label \in {"link", "drop", "putUpdate", "deleteUpdate"} : GoTo(c, label)
      BY <1>5 DEF Forward, CreateInterbankNegotiation, ForwardFails, StorePartnerId,
         DropNegotiation, LookupInterbankNegotiation, RequestLost, InterbankCounterOffer,
         InterbankDeleteNegotiation
    <2> QED BY <1>4, <2>1
  <1>6. ASSUME NEW c \in Calls, RunAcceptance(c)
        PROVE  /\ call'[d].terms = call[d].terms
               /\ call[d].pc = "contract" \/ ReserveShares(d)
    <2>1. \/ Return(c)
          \/ \E label \in {"load", "refused", "newTx", "revert", "reserve", "rollback", "commit"} :
               GoTo(c, label)
          \/ LoadNegotiation(c) \/ GiveUp(c) \/ Cancel(c) \/ ReserveShares(c)
      BY <1>6 DEF RunAcceptance, InterbankAcceptNegotiation, PrepareAccept, NewTxFails,
         RollbackAccept, InsertContract, CreditSeller, RevertAccept, RevertAtBuyer
    <2>2. CASE LoadNegotiation(c)
      <3>1. CASE call' = [call EXCEPT ![c] = [@ EXCEPT
                   !.pc = "newTx", !.terms = row[Seller][call[c].of].terms]]
        BY <1>1, <1>2, <3>1 DEF RequestTypes, Request
      <3> QED BY <1>2, <1>4, <2>2, <3>1 DEF LoadNegotiation
    <2>3. CASE GiveUp(c)
      <3>1. CASE Return(c)
        BY <1>1, <1>2, <3>1, ReturnDoes DEF Finished
      <3>2. CASE call' = [call EXCEPT ![c].waits = FALSE]
        BY <1>1, <3>2 DEF RequestTypes, Request
      <3> QED BY <2>3, <3>1, <3>2 DEF GiveUp
    <2>4. CASE Cancel(c)
      BY <1>1, <2>4 DEF Cancel, RequestTypes, Request
    <2>5. CASE ReserveShares(c)
      BY <1>1, <2>5, GoToDoes DEF ReserveShares
    <2> QED BY <1>2, <1>4, <2>1, <2>2, <2>3, <2>4, <2>5
  <1>7. ASSUME NEW c \in Calls, RunExercise(c)
        PROVE  call'[d] = call[d]
    <2>1. Return(c) \/ \E label \in {"prepare", "exCommit", "giveBack", "deliver", "close"} : GoTo(c, label)
      BY <1>7 DEF RunExercise, ReserveFunds, PrepareExercise, PrepareFails, RollbackExercise,
         GiveBack, DebitBuyer, AddShares, MarkExercised
    <2> QED BY <1>4, <2>1
  <1>8. ASSUME NEW c \in Calls, Commit(c)
        PROVE  call'[d] = call[d]
    <2>1. CASE SendCommit(c)
      BY <1>1, <2>1 DEF SendCommit, Waiting, RequestTypes, Request
    <2>2. \/ SendCommit(c)
          \/ \E label \in {"credit", "debit", "undo", "commit", "exCommit"} : GoTo(c, label)
      <3>1. PICK a : a = IF At(c, "committing") THEN "credit" ELSE IF Latest(c).ok THEN "debit" ELSE "undo"
        OBVIOUS
      <3>2. PICK b : b = IF At(c, "commit") THEN "credit" ELSE "undo"
        OBVIOUS
      <3>3. PICK e : e = Sending(call[c].pc)
        OBVIOUS
      <3>4. a \in {"credit", "debit", "undo"} /\ b \in {"credit", "undo"} /\ e \in {"commit", "exCommit"}
        BY <3>1, <3>2, <3>3 DEF Sending
      <3> QED BY <1>8, <3>1, <3>2, <3>3, <3>4 DEF Commit, CommitAnswered, CommitTimesOut, CommitFails
    <2> QED BY <1>4, <2>1, <2>2
  <1>9. ASSUME NEW k \in Banks, Crash(k)
        PROVE  call'[d].terms = call[d].terms /\ call[d].pc = "contract"
    <2>1. call'[d] = AfterCrash(d, k)
      BY <1>9 DEF Crash
    <2>2. \/ call'[d] = Finished("end") \/ call'[d] = call[d]
          \/ call'[d] = [call[d] EXCEPT !.pc = "refused"]
          \/ call'[d] = [call[d] EXCEPT !.waits = FALSE]
      BY <2>1, Zenon DEF AfterCrash
    <2> QED BY <1>1, <2>2 DEF Finished, Request
  <1>10. ASSUME NEW c \in Calls, NEW i \in 1..MaxTries, CommitOtcInterbank(c, i)
         PROVE  call'[d] = call[d]
    BY <1>10 DEF CommitOtcInterbank, LoadTx, DebitPremium, CreateBuyerContract, TakeShares,
       CreditStrike, MarkSellerContract, MarkCommitted, StopHandler
  <1>11. CASE \/ Spend \/ SellShare \/ UNCHANGED vars
              \/ \E n \in Negotiations : SettlementPasses(n) \/ \E k \in Banks : ExpireContract(k, n)
    BY <1>11 DEF Spend, SellShare, SettlementPasses, ExpireContract, vars
  <1> QED BY <1>2, <1>3, <1>5, <1>6, <1>7, <1>8, <1>9, <1>10, <1>11 DEF Next

(* What is reserved changes in two places.                                  *)
LEMMA ReservedStep ==
  ASSUME [Next]_vars
  PROVE  \/ reserved' = reserved
         \/ \E c \in Calls : ReserveShares(c)
         \/ \E c \in Calls, i \in Handlers : TakeShares(c, i)
  <1>1. ASSUME NEW c \in Calls, NEW n \in Negotiations, Offer(c, n)
        PROVE  reserved' = reserved
    BY <1>1 DEF Offer, CreateNegotiation, CounterOffer, RejectNegotiation, AcceptNegotiation,
       AcceptBySeller, ExerciseContract, dealing, stock
  <1>2. ASSUME NEW c \in Calls, Forward(c)
        PROVE  reserved' = reserved
    BY <1>2 DEF Forward, CreateInterbankNegotiation, ForwardFails, StorePartnerId,
       DropNegotiation, LookupInterbankNegotiation, RequestLost, InterbankCounterOffer,
       InterbankDeleteNegotiation, dealing, stock
  <1>3. ASSUME NEW c \in Calls, RunAcceptance(c)
        PROVE  reserved' = reserved \/ ReserveShares(c)
    BY <1>3 DEF RunAcceptance, GiveUp, Cancel, InterbankAcceptNegotiation, LoadNegotiation,
       PrepareAccept, NewTxFails, RollbackAccept, InsertContract, CreditSeller, RevertAccept,
       RevertAtBuyer, dealing, stock
  <1>4. ASSUME NEW c \in Calls, RunExercise(c)
        PROVE  reserved' = reserved
    BY <1>4 DEF RunExercise, ReserveFunds, PrepareExercise, PrepareFails, RollbackExercise,
         GiveBack, DebitBuyer, AddShares, MarkExercised, dealing, stock
  <1>5. ASSUME NEW c \in Calls, Commit(c)
        PROVE  reserved' = reserved
    BY <1>5 DEF Commit, SendCommit, CommitAnswered, CommitTimesOut, CommitFails, dealing, stock
  <1>6. ASSUME NEW c \in Calls, NEW i \in Handlers, CommitOtcInterbank(c, i)
        PROVE  reserved' = reserved \/ TakeShares(c, i)
    BY <1>6 DEF CommitOtcInterbank, LoadTx, DebitPremium, CreateBuyerContract,
       CreditStrike, MarkSellerContract, MarkCommitted, StopHandler, stock
  <1>7. CASE \/ Spend \/ SellShare \/ UNCHANGED vars \/ \E k \in Banks : Crash(k)
             \/ \E n \in Negotiations : SettlementPasses(n) \/ \E k \in Banks : ExpireContract(k, n)
    BY <1>7 DEF Spend, SellShare, SettlementPasses, ExpireContract, Crash, stock, vars
  <1> QED BY <1>1, <1>2, <1>3, <1>4, <1>5, <1>6, <1>7 DEF Next, Handlers

(* An exercise once prepared stays so, and marks stay.                      *)
LEMMA StaysUndisturbed ==
  ASSUME TypeOK, TxInv, [Next]_vars, NothingDisturbed'
  PROVE  /\ NothingDisturbed
         /\ \A n \in Negotiations : Prepared(n) => Prepared(n)' /\ Undisturbed(n)'
  <1>1. ASSUME NEW n \in Negotiations, Prepared(n)
        PROVE  Prepared(n)'
    <2>1. PICK c \in Calls : tx[c].of = n /\ tx[c].type = "EXERCISE" /\ Voted(c)
      BY <1>1 DEF Prepared, Voted
    <2>2. tx'[c].of = n /\ tx'[c].type = "EXERCISE" /\ tx'[c].status # "none"
      BY <2>1, VoteStep DEF Voted
    <2> QED BY <2>2 DEF Prepared
  <1> QED BY <1>1, MarksStay DEF NothingDisturbed, Undisturbed

(* Who takes the shares of an undisturbed negotiation finishes taking them. *)
LEMMA TakingGoesOn ==
  ASSUME TypeOK, TxInv, [Next]_vars, NEW n \in Negotiations, Undisturbed(n)',
         NEW c \in Calls, NEW i \in Handlers, Takes(c, i, n)
  PROVE  Takes(c, i, n)' \/ Exercised(Seller, n)'
  <1>1. /\ n \notin doubted \cup repeated /\ n \notin doubted' \cup lost'
        /\ Voted(c) /\ tx[c].of = n /\ tx[c].type = "EXERCISE"
        /\ attempt[c][i].pc \in {"strike", "exercised"}
    BY MarksStay DEF Undisturbed, Takes
  <1>2. Exercises(c, n) /\ call[c].pc = "exCommitting"
    BY <1>1, WorksForOne
  <1>3. Voted(c)' /\ tx'[c].of = n /\ tx'[c].type = "EXERCISE"
    BY <1>1, VoteStep
  <1>4. CASE attempt'[c][i] = attempt[c][i]
    BY <1>1, <1>3, <1>4 DEF Takes
  <1>5. CASE attempt'[c][i] # attempt[c][i]
    <2>1. ~SendCommit(c)
      BY <1>2 DEF SendCommit, CommitLabels
    <2>2. ~Cut(c)
      <3>1. ASSUME NEW k \in Banks, Crash(k) PROVE FALSE
        <4>1. call[c].of \in doubted' /\ call[c].of = n
          BY <1>2, <3>1 DEF Crash, BuyerRuns, Exercises
        <4> QED BY <1>1, <4>1
      <3> QED BY <1>1, <3>1 DEF Cut
    <2>3. \/ attempt[c][i].pc = "strike" /\ attempt'[c][i].pc = "exercised"
          \/ /\ attempt[c][i].pc = "exercised" /\ attempt'[c][i].pc = "mark"
             /\ MarkSellerContract(c, i)
      BY <1>1, <1>5, <2>1, <2>2, HandlerNext
    <2>4. CASE attempt'[c][i].pc = "exercised"
      BY <1>3, <2>4 DEF Takes
    <2>5. CASE attempt'[c][i].pc = "mark" /\ MarkSellerContract(c, i)
      <3>1. HandlerTypes /\ ContractTypes /\ Seller \in Banks
        BY TypeParts, BankFacts
      <3>2. ~End(c, i, FALSE)
        BY <2>5, <3>1, EndDoes
      <3>3. contract' = [contract EXCEPT ![Seller][n].status = "EXERCISED"]
        BY <1>1, <2>5, <3>2 DEF MarkSellerContract
      <3> QED BY <3>1, <3>3, CloseDoes DEF Exercised
    <2> QED BY <2>3, <2>4, <2>5
  <1> QED BY <1>4, <1>5

LEMMA OwedIsNat ==
  ASSUME TypeOK, NEW n \in Negotiations
  PROVE  Owed(n) \in Nat /\ Sold(n) \in Nat
  <1>1. contract[Seller][n].terms \in Terms
    BY TypeParts, BankFacts DEF ContractTypes, Contract
  <1> QED BY <1>1, Chosen DEF Owed, Sold

LEMMA InHandIsNat ==
  ASSUME TypeOK, NEW c \in Calls
  PROVE  InHand(c) \in Nat
  BY TypeParts, Fields, Chosen DEF InHand

LEMMA NatsNext ==
  ASSUME TypeOK, [Next]_vars
  PROVE  /\ \A n \in Negotiations : Owed(n)' \in Nat
         /\ \A c \in Calls : InHand(c)' \in Nat
  <1>1. ContractTypes' /\ RequestTypes'
    BY TypeStep, TypePartsNext
  <1>2. ASSUME NEW n \in Negotiations PROVE Owed(n)' \in Nat
    <2>1. contract'[Seller][n].terms \in Terms
      BY <1>1, BankFacts DEF ContractTypes, Contract
    <2> QED BY <2>1, Chosen DEF Owed, Sold
  <1>3. ASSUME NEW c \in Calls PROVE InHand(c)' \in Nat
    <2>1. call'[c].terms \in Terms
      BY <1>1 DEF RequestTypes, Request
    <2> QED BY <2>1, Chosen DEF InHand
  <1> QED BY <1>2, <1>3

(* What is owed for a negotiation grows only when its contract is written.  *)
LEMMA OwedStep ==
  ASSUME TypeOK, TxInv, Backed, [Next]_vars, NothingDisturbed', NEW n \in Negotiations
  PROVE  \/ Owed(n)' <= Owed(n)
         \/ \E c \in Calls : InsertContract(c) /\ call[c].of = n /\ Owed(n) = 0
              /\ Owed(n)' = Amount[call[c].terms]
  <1>1. Owed(n) \in Nat /\ Owed(n)' \in Nat /\ Seller \in Banks
    BY OwedIsNat, NatsNext, BankFacts
  <1>2. CASE Owed(n)' = 0
    BY <1>1, <1>2
  <1>3. CASE Owed(n)' # 0
    <2>1. Present(Seller, n)' /\ ~Exercised(Seller, n)' /\ ~SharesTaken(n)' /\ Owed(n)' = Sold(n)'
      BY <1>3 DEF Owed
    <2>2. CASE ~Present(Seller, n)
      <3>1. ~Stands(Seller, n)
        BY <2>1, <2>2 DEF Stands, Present
      <3>2. PICK c \in Calls : InsertContract(c) /\ call[c].of = n
                               /\ contract'[Seller][n].terms = call[c].terms
        BY <1>1, <3>1, ContractStep, BankFacts
      <3>3. Owed(n)' = Amount[call[c].terms]
        BY <2>1, <3>2 DEF Sold
      <3>4. Owed(n) = 0
        BY <2>2 DEF Owed
      <3> QED BY <3>2, <3>3, <3>4
    <2>3. CASE Present(Seller, n)
      <3>1. contract'[Seller][n].terms = contract[Seller][n].terms
        BY <1>1, <2>3, ContractsGrow
      <3>2. ~Exercised(Seller, n)
        BY <1>1, <2>1, ExercisedStep
      <3>3. ~SharesTaken(n)
        <4> SUFFICES ASSUME NEW c \in Calls, NEW i \in Handlers, Takes(c, i, n) PROVE FALSE
          BY DEF SharesTaken
        <4>1. Prepared(n)
          BY DEF Prepared, Takes, Voted
        <4>2. Undisturbed(n)'
          BY <4>1, StaysUndisturbed
        <4>3. Takes(c, i, n)' \/ Exercised(Seller, n)'
          BY <4>2, TakingGoesOn
        <4> QED BY <2>1, <4>3 DEF SharesTaken
      <3>4. Owed(n) = Sold(n) /\ Sold(n)' = Sold(n)
        BY <2>3, <3>1, <3>2, <3>3 DEF Owed, Sold
      <3> QED BY <1>1, <2>1, <3>4
    <2> QED BY <2>2, <2>3
  <1> QED BY <1>2, <1>3

LEMMA InHandStep ==
  ASSUME TypeOK, [Next]_vars, NEW c \in Calls, ~ReserveShares(c)
  PROVE  InHand(c)' <= InHand(c)
  <1>1. InHand(c) \in Nat /\ InHand(c)' \in Nat
    BY InHandIsNat, NatsNext
  <1>2. CASE call'[c].pc = "contract"
    BY <1>1, <1>2, ReserveFirst DEF InHand
  <1>3. CASE call'[c].pc # "contract"
    BY <1>1, <1>3 DEF InHand
  <1> QED BY <1>2, <1>3

(* The shares an exercise takes were owed, and are not after it.            *)
LEMMA TakenWereOwed ==
  ASSUME TypeOK, TxInv, Backed, ExerciseInv, [Next]_vars, NothingDisturbed',
         NEW c \in Calls, NEW i \in Handlers, TakeShares(c, i), reserved' # reserved
  PROVE  /\ Owed(tx[c].of) = tx[c].amount /\ Owed(tx[c].of)' = 0
         /\ reserved' >= reserved - tx[c].amount
  <1>1. PICK n \in Negotiations : n = tx[c].of
    BY HandlerFields
  <1>2. /\ HandlerTypes /\ MoneyTypes /\ Seller \in Banks /\ tx[c].amount \in Nat
    BY TypeParts, BankFacts, HandlerFields
  <1>3. /\ Proceed(c, i, "strike") /\ reserved' = Positive(reserved - tx[c].amount)
        /\ attempt[c][i].pc = "shares" /\ tx' = tx /\ contract' = contract
    BY DEF TakeShares, Is
  <1>4. Voted(c) /\ tx[c].type = "EXERCISE"
    BY <1>3 DEF TxInv, CallInv, HandlerInv
  <1>5. Prepared(n)
    BY <1>1, <1>4 DEF Prepared, Voted
  <1>6. Undisturbed(n)' /\ n \notin doubted \cup repeated \cup lost
    BY <1>5, StaysUndisturbed DEF NothingDisturbed, Undisturbed
  <1>7. Exercises(c, n) /\ call[c].pc = "exCommitting" /\ i = 1
    BY <1>1, <1>3, <1>6, WorksForOne
  <1>8. OneExercise(n)
    BY <1>6 DEF ExerciseInv, Undisturbed
  <1>9. ~Exercised(Seller, n)
    <2> SUFFICES ASSUME Exercised(Seller, n) PROVE FALSE
      OBVIOUS
    <2>1. ~Exercised(Buyer, n)
      BY <1>7, <1>8 DEF OneExercise
    <2>2. PICK d \in Calls : Exercises(d, n) /\ Past(d, {"mark"})
      BY <1>8, <2>1 DEF OneExercise
    <2>3. d = c
      BY <1>7, <1>8, <2>2 DEF OneExercise
    <2> QED BY <1>3, <1>7, <2>2, <2>3 DEF Past, Ending
  <1>10. ~SharesTaken(n)
    <2> SUFFICES ASSUME NEW d \in Calls, NEW j \in Handlers, Takes(d, j, n) PROVE FALSE
      BY DEF SharesTaken
    <2>1. Exercises(d, n) /\ j = 1
      BY <1>6, WorksForOne DEF Takes
    <2>2. d = c
      BY <1>7, <1>8, <2>1 DEF OneExercise
    <2> QED BY <1>3, <1>7, <2>1, <2>2 DEF Takes
  <1>11. Present(Seller, n) /\ tx[c].amount = Sold(n)
    BY <1>1, <1>4 DEF Backed
  <1>12. Owed(n) = tx[c].amount
    BY <1>9, <1>10, <1>11 DEF Owed
  <1>13. Owed(n)' = 0
    <2>1. attempt'[c][i].pc = "strike"
      BY <1>2, <1>3, ProceedDoes DEF HandlerLabels
    <2>2. Takes(c, i, n)'
      BY <1>1, <1>3, <1>4, <2>1 DEF Takes, Voted
    <2> QED BY <2>2 DEF Owed, SharesTaken
  <1>14. reserved' >= reserved - tx[c].amount
    BY <1>2, <1>3 DEF MoneyTypes, Positive
  <1>15. tx[c].of = n
    BY <1>1
  <1>16. Owed(tx[c].of) = Owed(n)
    BY <1>15
  <1>17. Owed(tx[c].of)' = Owed(n)'
    BY <1>3, <1>15
  <1> QED BY <1>12, <1>13, <1>14, <1>16, <1>17

LEMMA SumTypes ==
  ASSUME TypeOK
  PROVE  AllOwed \in Nat /\ AllInHand \in Nat
  BY OwedIsNat, InHandIsNat, FiniteAssumption, SumNat DEF AllOwed, AllInHand

LEMMA SumTypesNext ==
  ASSUME TypeOK, [Next]_vars
  PROVE  AllOwed' \in Nat /\ AllInHand' \in Nat
  <1> DEFINE o == [n \in Negotiations |-> Owed(n)']
             h == [c \in Calls |-> InHand(c)']
  <1>1. (\A n \in Negotiations : o[n] \in Nat) /\ \A c \in Calls : h[c] \in Nat
    BY NatsNext
  <1>2. AllOwed' = SumFunctionOnSet(o, Negotiations) /\ AllInHand' = SumFunctionOnSet(h, Calls)
    BY DEF AllOwed, AllInHand
  <1> HIDE DEF o, h
  <1> QED BY <1>1, <1>2, FiniteAssumption, SumNat

(* If nothing more is owed, the sums do not grow.                           *)
LEMMA OwesNoMore ==
  ASSUME TypeOK, [Next]_vars, \A n \in Negotiations : Owed(n)' <= Owed(n)
  PROVE  AllOwed' <= AllOwed
  <1> DEFINE o == [n \in Negotiations |-> Owed(n)]
             p == [n \in Negotiations |-> Owed(n)']
  <1>1. \A n \in Negotiations : o[n] \in Int /\ p[n] \in Int /\ p[n] <= o[n]
    BY OwedIsNat, NatsNext
  <1>2. AllOwed = SumFunctionOnSet(o, Negotiations) /\ AllOwed' = SumFunctionOnSet(p, Negotiations)
    BY DEF AllOwed
  <1> HIDE DEF o, p
  <1> QED BY <1>1, <1>2, FiniteAssumption, SumMonotone

LEMMA OwesLess ==
  ASSUME TypeOK, [Next]_vars, NEW m \in Negotiations,
         \A n \in Negotiations \ {m} : Owed(n)' <= Owed(n)
  PROVE  AllOwed' <= AllOwed - Owed(m) + Owed(m)'
  <1> DEFINE o == [n \in Negotiations |-> Owed(n)]
             p == [n \in Negotiations |-> Owed(n)']
             q == [n \in Negotiations |-> IF n = m THEN Owed(m)' ELSE Owed(n)]
  <1>1. /\ \A n \in Negotiations : o[n] \in Int /\ p[n] \in Int /\ q[n] \in Int /\ p[n] <= q[n]
        /\ \A n \in Negotiations \ {m} : q[n] = o[n]
        /\ o[m] = Owed(m) /\ q[m] = Owed(m)'
    BY OwedIsNat, NatsNext
  <1>2. AllOwed = SumFunctionOnSet(o, Negotiations) /\ AllOwed' = SumFunctionOnSet(p, Negotiations)
    BY DEF AllOwed
  <1> HIDE DEF o, p, q
  <1>3. SumFunctionOnSet(p, Negotiations) <= SumFunctionOnSet(q, Negotiations)
    BY <1>1, FiniteAssumption, SumMonotone
  <1>4. SumFunctionOnSet(q, Negotiations) = SumFunctionOnSet(o, Negotiations) - o[m] + q[m]
    BY <1>1, FiniteAssumption, SumChange
  <1> QED BY <1>1, <1>2, <1>3, <1>4

LEMMA HoldsNoMore ==
  ASSUME TypeOK, [Next]_vars, \A c \in Calls : InHand(c)' <= InHand(c)
  PROVE  AllInHand' <= AllInHand
  <1> DEFINE o == [c \in Calls |-> InHand(c)]
             p == [c \in Calls |-> InHand(c)']
  <1>1. \A c \in Calls : o[c] \in Int /\ p[c] \in Int /\ p[c] <= o[c]
    BY InHandIsNat, NatsNext
  <1>2. AllInHand = SumFunctionOnSet(o, Calls) /\ AllInHand' = SumFunctionOnSet(p, Calls)
    BY DEF AllInHand
  <1> HIDE DEF o, p
  <1> QED BY <1>1, <1>2, FiniteAssumption, SumMonotone

LEMMA HoldsOther ==
  ASSUME TypeOK, [Next]_vars, NEW d \in Calls,
         \A c \in Calls \ {d} : InHand(c)' = InHand(c)
  PROVE  AllInHand' = AllInHand - InHand(d) + InHand(d)'
  <1> DEFINE o == [c \in Calls |-> InHand(c)]
             p == [c \in Calls |-> InHand(c)']
  <1>1. /\ \A c \in Calls : o[c] \in Int /\ p[c] \in Int
        /\ \A c \in Calls \ {d} : p[c] = o[c]
        /\ o[d] = InHand(d) /\ p[d] = InHand(d)'
    BY InHandIsNat, NatsNext
  <1>2. AllInHand = SumFunctionOnSet(o, Calls) /\ AllInHand' = SumFunctionOnSet(p, Calls)
    BY DEF AllInHand
  <1> HIDE DEF o, p
  <1>3. SumFunctionOnSet(p, Calls) = SumFunctionOnSet(o, Calls) - o[d] + p[d]
    BY <1>1, FiniteAssumption, SumChange
  <1> QED BY <1>1, <1>2, <1>3


(* The sums may shrink one by one. *)
LEMMA SmallerSum ==
  \A r, a, b, x, y \in Nat : r >= a + b /\ x <= a /\ y <= b => r >= x + y
  OBVIOUS

LEMMA CoveredStep ==
  ASSUME TypeOK, TxInv, Backed, ExerciseInv, [Next]_vars, Covered
  PROVE  Covered'
  <1> SUFFICES ASSUME NothingDisturbed' PROVE reserved' >= AllOwed' + AllInHand'
    BY DEF Covered
  <1>1. reserved >= AllOwed + AllInHand
    BY StaysUndisturbed DEF Covered
  <1>2. /\ AllOwed \in Nat /\ AllInHand \in Nat /\ AllOwed' \in Nat /\ AllInHand' \in Nat
        /\ reserved \in Nat /\ reserved' \in Nat /\ RequestTypes
        /\ \A n \in Negotiations : Owed(n) \in Nat /\ Owed(n)' \in Nat
        /\ \A c \in Calls : InHand(c) \in Nat /\ InHand(c)' \in Nat
    BY SumTypes, SumTypesNext, NatsNext, OwedIsNat, InHandIsNat, TypeParts, TypePartsNext, TypeStep
       DEF MoneyTypes
  <1>3. ASSUME NEW d \in Calls, InsertContract(d)
        PROVE  reserved' >= AllOwed' + AllInHand'
    <2>1. PICK m \in Negotiations : m = call[d].of
      BY <1>2, Fields
    <2>2. /\ GoTo(d, "commit") /\ call[d].pc = "contract" /\ reserved' = reserved
      BY <1>3 DEF InsertContract, At, stock
    <2>3. /\ call'[d].pc = "commit" /\ \A c \in Calls \ {d} : call'[c] = call[c]
      BY <1>2, <2>2, GoToDoes
    <2>4. /\ InHand(d) = Amount[call[d].terms] /\ InHand(d)' = 0
          /\ \A c \in Calls \ {d} : InHand(c)' = InHand(c)
      BY <2>2, <2>3 DEF InHand
    <2>5. AllInHand' = AllInHand - InHand(d) + InHand(d)'
      BY <2>4, HoldsOther
    <2>6. ASSUME NEW n \in Negotiations, NEW c \in Calls, InsertContract(c), call[c].of = n
          PROVE  c = d /\ n = m
      <3>1. c = d
        BY <1>2, <2>3, <2>6, GoToDoes DEF InsertContract, At
      <3> QED BY <2>1, <2>6, <3>1
    <2>7. \A n \in Negotiations \ {m} : Owed(n)' <= Owed(n)
      BY <2>6, OwedStep
    <2>8. AllOwed' <= AllOwed - Owed(m) + Owed(m)'
      BY <2>7, OwesLess
    <2>9. Owed(m)' - Owed(m) <= InHand(d)
      <3>1. CASE Owed(m)' <= Owed(m)
        BY <1>2, <3>1
      <3>2. CASE ~(Owed(m)' <= Owed(m))
        <4>1. Owed(m) = 0 /\ Owed(m)' = Amount[call[d].terms]
          BY <2>6, <3>2, OwedStep
        <4> QED BY <1>2, <2>4, <4>1
      <3> QED BY <3>1, <3>2
    <2> QED BY <1>1, <1>2, <2>2, <2>4, <2>5, <2>8, <2>9
  <1>4. ASSUME \A c \in Calls : ~InsertContract(c)
        PROVE  \A n \in Negotiations : Owed(n)' <= Owed(n)
    BY <1>4, OwedStep
  <1>5. ASSUME NEW d \in Calls, ReserveShares(d), \A c \in Calls : ~InsertContract(c)
        PROVE  reserved' >= AllOwed' + AllInHand'
    <2>1. AllOwed' <= AllOwed
      BY <1>4, <1>5, OwesNoMore
    <2>2. call[d].pc = "reserve" /\ InHand(d) = 0
      BY <1>5 DEF ReserveShares, At, InHand
    <2>3. \A c \in Calls \ {d} : call'[c] = call[c]
      BY <1>2, <1>5, GoToDoes DEF ReserveShares
    <2>4. \A c \in Calls \ {d} : InHand(c)' = InHand(c)
      BY <2>3 DEF InHand
    <2>5. AllInHand' = AllInHand - InHand(d) + InHand(d)'
      BY <2>4, HoldsOther
    <2>6. reserved' = reserved + InHand(d)'
      <3>1. CASE GoTo(d, "contract") /\ reserved' = reserved + Amount[call[d].terms]
        BY <1>2, <3>1, GoToDoes DEF InHand
      <3>2. CASE GoTo(d, "rollback") /\ reserved' = reserved
        <4>1. InHand(d)' = 0
          BY <1>2, <3>2, GoToDoes DEF InHand
        <4> QED BY <1>2, <3>2, <4>1
      <3> QED BY <1>5, <3>1, <3>2 DEF ReserveShares
    <2> QED BY <1>1, <1>2, <2>1, <2>2, <2>5, <2>6
  <1>6. ASSUME \A c \in Calls : ~ReserveShares(c)
        PROVE  AllInHand' <= AllInHand
    BY <1>6, InHandStep, HoldsNoMore
  <1>7. ASSUME NEW c \in Calls, NEW i \in Handlers, TakeShares(c, i), reserved' # reserved,
               \A d \in Calls : ~InsertContract(d) /\ ~ReserveShares(d)
        PROVE  reserved' >= AllOwed' + AllInHand'
    <2>1. PICK m \in Negotiations : m = tx[c].of
      BY HandlerFields
    <2>2. tx' = tx
      BY <1>7 DEF TakeShares
    <2>3. Owed(m) = tx[c].amount /\ Owed(m)' = 0 /\ reserved' >= reserved - tx[c].amount
      <3>1. Owed(tx[c].of) = tx[c].amount /\ Owed(tx[c].of)' = 0
            /\ reserved' >= reserved - tx[c].amount
        BY <1>7, TakenWereOwed
      <3>2. Owed(tx[c].of) = Owed(m)
        BY <2>1
      <3>3. Owed(tx[c].of)' = Owed(m)'
        BY <2>1, <2>2
      <3> QED BY <3>1, <3>2, <3>3
    <2>4. AllOwed' <= AllOwed - Owed(m) + Owed(m)'
      BY <1>4, <1>7, OwesLess
    <2>5. AllInHand' <= AllInHand
      BY <1>6, <1>7
    <2>6. tx[c].amount \in Nat
      BY HandlerFields
    <2> QED BY <1>1, <1>2, <2>3, <2>4, <2>5, <2>6
  <1>8. ASSUME reserved' = reserved, \A d \in Calls : ~InsertContract(d) /\ ~ReserveShares(d)
        PROVE  reserved' >= AllOwed' + AllInHand'
    <2>1. AllOwed' <= AllOwed
      BY <1>4, <1>8, OwesNoMore
    <2>2. AllInHand' <= AllInHand
      BY <1>6, <1>8
    <2>3. reserved' = reserved
      BY <1>8
    <2>4. /\ AllOwed \in Nat /\ AllInHand \in Nat /\ AllOwed' \in Nat /\ AllInHand' \in Nat
          /\ reserved \in Nat
      BY <1>2
    <2>5. reserved >= AllOwed' + AllInHand'
      BY <1>1, <2>1, <2>2, <2>4, SmallerSum
    <2> QED BY <2>3, <2>5
  <1> QED BY <1>3, <1>5, <1>7, <1>8, ReservedStep

LEMMA CoveredInit ==
  Init => Covered
  <1> SUFFICES ASSUME Init PROVE Covered
    OBVIOUS
  <1> DEFINE o == [n \in Negotiations |-> Owed(n)]
             h == [c \in Calls |-> InHand(c)]
  <1>1. /\ \A c \in Calls : call[c].pc = "idle"
        /\ \A n \in Negotiations : contract[Seller][n].status = "none"
        /\ reserved = 0
    BY BankFacts DEF Init, Finished, Absent
  <1>2. (\A n \in Negotiations : o[n] = 0) /\ \A c \in Calls : h[c] = 0
    BY <1>1 DEF Owed, InHand, Present
  <1>3. AllOwed = SumFunctionOnSet(o, Negotiations) /\ AllInHand = SumFunctionOnSet(h, Calls)
    BY DEF AllOwed, AllInHand
  <1> HIDE DEF o, h
  <1>4. AllOwed = 0 /\ AllInHand = 0
    BY <1>2, <1>3, FiniteAssumption, SumZero
  <1> QED BY <1>1, <1>4 DEF Covered

LEMMA CoverHolds == Spec => []Covered
  <1>1. Init => Covered
    BY CoveredInit
  <1>2. DealInv /\ ExerciseInv /\ Covered /\ [Next]_vars => Covered'
    BY CoveredStep DEF DealInv, PayInv
  <1> QED BY <1>1, <1>2, DealsHold, ExercisesHold, PTL DEF Spec

(* The buyer's contract has the seller's behind it unless the write of a    *)
(* row was lost, and while no exercise was disturbed the seller's bank      *)
(* keeps reserved the shares of every contract no exercise was prepared of, *)
(* for any number of contracts on one holding (executeInterbankAccept-      *)
(* Outgoing reserves before it inserts, CommitOtcInterbank takes what was   *)
(* reserved).                                                               *)
THEOREM RightsAreBacked == Spec => []ContractBacked
  <1>1. ASSUME TypeOK, Covered, NothingDisturbed,
               NEW S, S = {n \in Negotiations : contract[Seller][n].status = "ACTIVE" /\ ~Prepared(n)}
        PROVE  reserved >= AmountOf(S)
    <2> DEFINE f == [n \in S |-> Sold(n)]
               g == [n \in Negotiations |-> IF n \in S THEN Sold(n) ELSE 0]
               o == [n \in Negotiations |-> Owed(n)]
    <2>1. S \in SUBSET Negotiations
      BY <1>1
    <2>2. ASSUME NEW n \in S PROVE Owed(n) = Sold(n)
      <3>1. n \in Negotiations /\ contract[Seller][n].status = "ACTIVE" /\ ~Prepared(n)
        BY <1>1
      <3>2. ~SharesTaken(n)
        BY <3>1 DEF SharesTaken, Takes, Voted, Prepared
      <3> QED BY <3>1, <3>2 DEF Owed, Present, Exercised
    <2>3. /\ \A n \in S : f[n] \in Int /\ g[n] = f[n]
          /\ \A n \in Negotiations \ S : g[n] = 0
          /\ \A n \in Negotiations : g[n] \in Int /\ o[n] \in Int /\ g[n] <= o[n]
      BY <1>1, <2>1, <2>2, OwedIsNat
    <2>4. AmountOf(S) = SumFunctionOnSet(f, S) /\ AllOwed = SumFunctionOnSet(o, Negotiations)
      BY DEF AmountOf, AllOwed
    <2> HIDE DEF f, g, o
    <2>5. SumFunctionOnSet(f, S) = SumFunctionOnSet(g, Negotiations)
      BY <2>1, <2>3, FiniteAssumption, SumPart
    <2>6. SumFunctionOnSet(g, Negotiations) <= SumFunctionOnSet(o, Negotiations)
      BY <2>3, FiniteAssumption, SumMonotone
    <2>7. /\ SumFunctionOnSet(g, Negotiations) \in Int /\ AllOwed \in Nat /\ AllInHand \in Nat
          /\ reserved \in Nat
      BY <1>1, <2>3, FiniteAssumption, SumInt, SumTypes, TypeParts DEF MoneyTypes
    <2>8. reserved >= AllOwed + AllInHand
      BY <1>1 DEF Covered
    <2> QED BY <2>4, <2>5, <2>6, <2>7, <2>8
  <1>2. DealInv => \A n \in Negotiations : Present(Buyer, n) => Present(Seller, n) \/ n \in lost
    BY DEF DealInv, PayInv, Grounds, Granted
  <1>3. DealInv /\ Covered => ContractBacked
    BY <1>1, <1>2 DEF DealInv, ContractBacked, NothingDisturbed
  <1> QED BY <1>3, DealsHold, CoverHolds, PTL
=============================================================================
