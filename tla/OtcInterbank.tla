---------------------------- MODULE OtcInterbank -----------------------------
(***************************************************************************)
(* otc-service between two banks, both running this program: the buyer of  *)
(* an option is a client of one, the seller of the other.  Each bank keeps *)
(* its own row of the negotiation and its own row of the contract, and     *)
(* tells the other of every change by an HTTP request that nothing         *)
(* repeats (handlers/interbank_outgoing.go).  An acceptance is run by the  *)
(* seller's bank, an exercise by the buyer's: NEW_TX, vote, COMMIT_TX or   *)
(* ROLLBACK_TX (handlers/grpc_server.go), and statements of its own around *)
(* them whose errors are mostly dropped.                                   *)
(***************************************************************************)
EXTENDS Integers, FiniteSets, Functions

CONSTANTS
  Negotiations,  \* pairs of rows of otc_negotiations, one at each bank
  Calls,         \* requests of clients; NEW_TX of a call has its own ids
  Terms,         \* what may be offered
  Amount, Strike, Premium,  \* [Terms -> Nat]: shares, price of one, premium
  Opened,        \* states a negotiation may start in: absent, or after the
                 \* first counter-offer of the seller
  InitBalance, InitHeld, InitCash,
  Payment,       \* what the buyer pays elsewhere at a time
  MaxSpent,      \* bound on payments of the buyer and sales of the seller
  MaxTries,      \* attempts of otcSendInterbankRequest
  MaxFaults      \* bound on failures

ASSUME TermsAssumption ==
  /\ Amount \in [Terms -> Nat \ {0}] /\ Strike \in [Terms -> Nat]
  /\ Premium \in [Terms -> Nat \ {0}]
ASSUME NumbersAssumption ==
  /\ InitBalance \in Nat /\ InitHeld \in Nat /\ InitCash \in Nat
  /\ Payment \in Nat \ {0} /\ MaxSpent \in Nat
  /\ MaxTries \in Nat \ {0} /\ MaxFaults \in Nat
  /\ Opened \subseteq {"none", "PENDING_BUYER"}
ASSUME FiniteAssumption ==
  /\ IsFiniteSet(Negotiations) /\ IsFiniteSet(Calls)
  /\ Negotiations # {} /\ Terms # {}

VARIABLES
  row,        \* [bank][n]: status and terms in otc_negotiations
  linked,     \* negotiations whose partner_negotiation_id the buyer's bank has
  contract,   \* [bank][n]: status and terms in otc_contracts
  due,        \* negotiations whose settlement date has passed
  tx,         \* row of otc_interbank_tx at the bank that voted
  balance, available,  \* the buyer's account
  cash,       \* the seller's account (both columns move together)
  held, reserved,      \* the seller's portfolio_entry: amount, reserved_amount
  bought,     \* shares the buyer was given
  call,       \* label and locals of a request, whether its caller still waits
              \* and whether the context it runs under is still alive
  attempt,    \* the COMMIT_TX handlers of a call: label, terms, whether it failed
  spent,      \* payments and sales so far
  credited, debited, struck,  \* how often a premium and a strike were paid
  doubted,    \* negotiations of which a caller stopped waiting while the
              \* other bank ran on
  repeated,   \* negotiations a COMMIT_TX of which was not answered in time
  short,      \* negotiations whose premium found too little money
  lost,       \* negotiations a row of which could not be written; the error
              \* was dropped
  faults      \* how much has failed

rowVars == <<row, linked>>
money == <<balance, available, cash>>
stock == <<held, reserved, bought>>
counts == <<credited, debited, struck>>
marks == <<doubted, repeated, short, lost>>
dealing == <<contract, due, tx, money, stock, attempt, spent, counts>>
vars == <<rowVars, contract, due, tx, money, stock, call, attempt, spent,
          counts, marks, faults>>

Buyer == "buyer"
Seller == "seller"
Banks == {Buyer, Seller}
Other(k) == IF k = Buyer THEN Seller ELSE Buyer
Turn(k) == IF k = Buyer THEN "PENDING_BUYER" ELSE "PENDING_SELLER"
Open == {Turn(k) : k \in Banks}

AcceptLabels == {"accept", "load", "newTx", "rollback", "reserve", "contract",
                 "commit", "committing", "credit", "revert"}
ExerciseLabels == {"pay", "prepare", "exCommit", "exCommitting", "undo",
                   "debit", "deliver", "close", "giveBack"}
Labels == {"idle", "forward", "link", "drop", "put", "putUpdate", "delete",
           "deleteUpdate", "refused", "end"} \cup AcceptLabels \cup ExerciseLabels
HandlerLabels == {"none", "load", "debit", "insert", "shares", "strike",
                  "exercised", "mark", "done"}

AnyNegotiation == CHOOSE n \in Negotiations : TRUE
AnyTerms == CHOOSE t \in Terms : TRUE
Absent == [status |-> "none", terms |-> AnyTerms]
Finished(label) ==
  [pc |-> label, bank |-> Buyer, of |-> AnyNegotiation, terms |-> AnyTerms,
   back |-> "PENDING_BUYER", tries |-> 0, waits |-> TRUE, alive |-> TRUE]
NoAttempt == [pc |-> "none", terms |-> AnyTerms, ok |-> TRUE]
NoTx == [status |-> "none", type |-> "ACCEPT", of |-> AnyNegotiation, amount |-> 0]

TypeOK ==
  /\ row \in [Banks -> [Negotiations ->
       [status : Open \cup {"none", "ACCEPTED", "REJECTED"}, terms : Terms]]]
  /\ linked \subseteq Negotiations /\ due \subseteq Negotiations
  /\ contract \in [Banks -> [Negotiations ->
       [status : {"none", "ACTIVE", "EXERCISED", "EXPIRED"}, terms : Terms]]]
  /\ tx \in [Calls -> [status : {"none", "PENDING", "COMMITTED", "ROLLED_BACK"},
                       type : {"ACCEPT", "EXERCISE"}, of : Negotiations, amount : Nat]]
  /\ balance \in Int /\ available \in Nat /\ cash \in Nat
  /\ held \in Nat /\ reserved \in 0..held /\ bought \in Nat
  /\ call \in [Calls -> [pc : Labels, bank : Banks, of : Negotiations, terms : Terms,
                         back : Open, tries : 0..MaxTries, waits : BOOLEAN,
                         alive : BOOLEAN]]
  /\ attempt \in [Calls -> [1..MaxTries ->
       [pc : HandlerLabels, terms : Terms, ok : BOOLEAN]]]
  /\ spent \in 0..MaxSpent /\ faults \in 0..MaxFaults
  /\ credited \in [Negotiations -> Nat] /\ debited \in [Negotiations -> Nat]
  /\ struck \in [Negotiations -> Nat]
  /\ doubted \subseteq Negotiations /\ repeated \subseteq Negotiations
  /\ short \subseteq Negotiations /\ lost \subseteq Negotiations

Init ==
  /\ \E first \in [Negotiations -> Opened] :
       /\ row = [k \in Banks |-> [n \in Negotiations |->
                   [Absent EXCEPT !.status = first[n]]]]
       /\ linked = {n \in Negotiations : first[n] # "none"}
  /\ contract = [k \in Banks |-> [n \in Negotiations |-> Absent]]
  /\ due = {} /\ tx = [c \in Calls |-> NoTx]
  /\ balance = InitBalance /\ available = InitBalance /\ cash = InitCash
  /\ held = InitHeld /\ reserved = 0 /\ bought = 0
  /\ call = [c \in Calls |-> Finished("idle")]
  /\ attempt = [c \in Calls |-> [i \in 1..MaxTries |-> NoAttempt]]
  /\ spent = 0 /\ faults = 0
  /\ credited = [n \in Negotiations |-> 0] /\ debited = [n \in Negotiations |-> 0]
  /\ struck = [n \in Negotiations |-> 0]
  /\ doubted = {} /\ repeated = {} /\ short = {} /\ lost = {}

At(c, label) == call[c].pc = label
GoTo(c, label) == call' = [call EXCEPT ![c].pc = label]
Return(c) == call' = [call EXCEPT ![c] = Finished("end")]
Begin(c, k, n, t, label) ==
  call' = [call EXCEPT ![c] = [@ EXCEPT
    !.pc = label, !.bank = k, !.of = n, !.terms = t]]
SetRow(k, n, status, terms) ==
  row' = [row EXCEPT ![k][n] = [status |-> status, terms |-> terms]]
SetStatus(k, n, status) == SetRow(k, n, status, row[k][n].terms)

Succeeds == UNCHANGED faults
Fault == faults < MaxFaults /\ faults' = faults + 1
(* A statement or a request under the context of the call. *)
Works(c) == call[c].alive /\ Succeeds
Fails(c) ==
  \/ Fault
  \/ ~call[c].alive /\ Succeeds
-----------------------------------------------------------------------------
(* Offers.  The partner is asked once; an error is only logged. *)

CreateNegotiation(c, n, t) ==
  /\ At(c, "idle")
  /\ row[Buyer][n].status = "none" /\ row[Seller][n].status = "none"
  /\ SetRow(Buyer, n, "PENDING_SELLER", t)
  /\ Begin(c, Buyer, n, t, "forward")
  /\ UNCHANGED <<linked, dealing, marks, faults>>

CreateInterbankNegotiation(c) ==
  /\ At(c, "forward")
  /\ SetRow(Seller, call[c].of, "PENDING_SELLER", call[c].terms)
  /\ GoTo(c, "link")
  /\ UNCHANGED <<linked, dealing, marks, faults>>

ForwardFails(c) ==
  /\ call[c].pc \in {"forward", "link"} /\ Fault
  /\ GoTo(c, "drop")
  /\ UNCHANGED <<rowVars, dealing, marks>>

StorePartnerId(c) ==
  /\ At(c, "link")
  /\ linked' = linked \cup {call[c].of} /\ Return(c)
  /\ UNCHANGED <<row, dealing, marks, faults>>

DropNegotiation(c) ==
  /\ At(c, "drop")
  /\ \/ Succeeds /\ SetRow(Buyer, call[c].of, "none", AnyTerms)
     \/ Fault /\ UNCHANGED row
  /\ Return(c)
  /\ UNCHANGED <<linked, dealing, marks>>

CounterOutOfTurn(c, k, n, t) ==
  /\ At(c, "idle") /\ row[k][n].status \in Open
  /\ SetRow(k, n, Turn(Other(k)), t)
  /\ Begin(c, k, n, t, "put")
  /\ UNCHANGED <<linked, dealing, marks, faults>>

CounterOffer(c, k, n, t) ==
  /\ At(c, "idle") /\ row[k][n].status = Turn(k)
  /\ SetRow(k, n, Turn(Other(k)), t)
  /\ Begin(c, k, n, t, "put")
  /\ UNCHANGED <<linked, dealing, marks, faults>>

RejectNegotiation(c, k, n) ==
  /\ At(c, "idle") /\ row[k][n].status \in Open
  /\ SetStatus(k, n, "REJECTED")
  /\ Begin(c, k, n, row[k][n].terms, "delete")
  /\ UNCHANGED <<linked, dealing, marks, faults>>

(* The handlers of the partner look the status up and then update the row *)
(* whatever it has become.                                                *)
There(c) == Other(call[c].bank)
StatusThere(c) == row[There(c)][call[c].of].status

LookupInterbankNegotiation(c) ==
  /\ \/ /\ At(c, "put")
        /\ IF call[c].of \in linked /\ StatusThere(c) = Turn(call[c].bank)
           THEN GoTo(c, "putUpdate") ELSE Return(c)
     \/ /\ At(c, "delete")
        /\ IF call[c].of \in linked /\ StatusThere(c) \in Open
           THEN GoTo(c, "deleteUpdate") ELSE Return(c)
  /\ UNCHANGED <<rowVars, dealing, marks, faults>>

InterbankCounterOffer(c) ==
  /\ At(c, "putUpdate")
  /\ SetRow(There(c), call[c].of, Turn(There(c)), call[c].terms)
  /\ Return(c)
  /\ UNCHANGED <<linked, dealing, marks, faults>>

InterbankDeleteNegotiation(c) ==
  /\ At(c, "deleteUpdate")
  /\ SetStatus(There(c), call[c].of, "REJECTED")
  /\ Return(c)
  /\ UNCHANGED <<linked, dealing, marks, faults>>

RequestLost(c) ==
  /\ call[c].pc \in {"put", "putUpdate", "delete", "deleteUpdate"} /\ Fault
  /\ Return(c)
  /\ UNCHANGED <<rowVars, dealing, marks>>
-----------------------------------------------------------------------------
(* Acceptance.  The bank that accepts commits ACCEPTED first: the prepare *)
(* that the seller's bank sends to the buyer's must read it.               *)

Accept(c, k, n) ==
  /\ SetStatus(k, n, "ACCEPTED")
  /\ call' = [call EXCEPT ![c] = [@ EXCEPT
       !.pc = IF k = Buyer THEN "accept" ELSE "load",
       !.bank = k, !.of = n, !.back = Turn(k)]]

AcceptNegotiation(c, n) ==
  /\ At(c, "idle") /\ row[Buyer][n].status = "PENDING_BUYER" /\ n \in linked
  /\ Accept(c, Buyer, n)
  /\ UNCHANGED <<linked, dealing, marks, faults>>

Sold(n) == Amount[contract[Seller][n].terms]
AmountOf(S) == SumFunctionOnSet([n \in S |-> Sold(n)], S)
Promised == AmountOf({n \in Negotiations : contract[Seller][n].status = "ACTIVE"})

AcceptAgain(c, n) ==
  /\ At(c, "idle") /\ row[Seller][n].status \notin {"none", "REJECTED"}
  /\ held - reserved >= Promised + Amount[row[Seller][n].terms]
  /\ Accept(c, Seller, n)
  /\ UNCHANGED <<linked, dealing, marks, faults>>

(* The seller accepts: an instance of this program always votes NO, its row *)
(* says that it is the seller's turn.                                       *)
AcceptBySeller(c, n) ==
  /\ At(c, "idle") /\ row[Seller][n].status = "PENDING_SELLER"
  /\ held - reserved >= Promised + Amount[row[Seller][n].terms]
  /\ Accept(c, Seller, n)
  /\ UNCHANGED <<linked, dealing, marks, faults>>

(* acceptCrossBank gives up: it makes the offer open again, whatever the  *)
(* seller's bank does.                                                    *)
Asks(c) == call[c].bank = Buyer /\ call[c].waits
GiveUp(c) ==
  /\ call[c].pc \in AcceptLabels /\ Asks(c) /\ Fault
  /\ SetStatus(Buyer, call[c].of, "PENDING_BUYER")
  /\ \/ At(c, "accept") /\ Return(c) /\ UNCHANGED doubted
     \/ /\ call' = [call EXCEPT ![c].waits = FALSE]
        /\ doubted' = doubted \cup {call[c].of}
  /\ UNCHANGED <<linked, dealing, repeated, short, lost>>

(* The time of the context is over, or its caller is gone. *)
Cancel(c) ==
  /\ call[c].pc \in (AcceptLabels \ {"accept", "revert"}) \cup (ExerciseLabels \ {"giveBack"})
  /\ call[c].alive
  /\ IF call[c].waits THEN Fault ELSE Succeeds
  /\ call' = [call EXCEPT ![c].alive = FALSE]
  /\ doubted' = doubted \cup {call[c].of}
  /\ UNCHANGED <<rowVars, dealing, repeated, short, lost>>

InterbankAcceptNegotiation(c) ==
  /\ At(c, "accept")
  /\ LET n == call[c].of IN
     \/ /\ row[Seller][n].status = "PENDING_BUYER"
        /\ SetStatus(Seller, n, "ACCEPTED") /\ GoTo(c, "load")
     \/ /\ row[Seller][n].status = "ACCEPTED"
        /\ Return(c) /\ UNCHANGED row
     \/ /\ row[Seller][n].status \notin {"PENDING_BUYER", "ACCEPTED"}
        /\ IF call[c].waits THEN GoTo(c, "refused") ELSE Return(c)
        /\ UNCHANGED row
  /\ UNCHANGED <<linked, dealing, marks, faults>>

(* executeInterbankAcceptOutgoing reads the row again. *)
LoadNegotiation(c) ==
  /\ At(c, "load")
  /\ \/ /\ Works(c)
        /\ call' = [call EXCEPT ![c] = [@ EXCEPT
             !.pc = "newTx", !.terms = row[Seller][call[c].of].terms]]
     \/ Fails(c) /\ GoTo(c, "revert")
  /\ UNCHANGED <<rowVars, dealing, marks>>

Loses(n) == lost' = lost \cup {n}

(* insertOtcInterbankTx: the vote is given even when the row is not kept.   *)
(* (The row of a NO is never committed, and is left out.)                   *)
Vote(c, type, n, amount) ==
  \/ /\ Succeeds
     /\ tx' = [tx EXCEPT ![c] =
          [status |-> "PENDING", type |-> type, of |-> n, amount |-> amount]]
     /\ UNCHANGED lost
  \/ Fault /\ Loses(n) /\ UNCHANGED tx

MayAccept(n) ==
  /\ n \in linked /\ row[Buyer][n].status = "ACCEPTED"
  /\ available >= Premium[row[Buyer][n].terms]

PrepareAccept(c) ==
  /\ At(c, "newTx") /\ call[c].alive
  /\ IF MayAccept(call[c].of)
     THEN Vote(c, "ACCEPT", call[c].of, 1) /\ GoTo(c, "reserve")
     ELSE GoTo(c, "rollback") /\ UNCHANGED <<tx, lost>> /\ Succeeds
  /\ UNCHANGED <<rowVars, contract, due, money, stock, attempt, spent, counts,
                 doubted, repeated, short>>

NewTxFails(c) ==
  /\ At(c, "newTx") /\ Fails(c) /\ GoTo(c, "revert")
  /\ UNCHANGED <<rowVars, dealing, marks>>

ReserveOrNot(c) ==
  /\ At(c, "reserve")
  /\ \/ /\ Works(c) /\ GoTo(c, "contract")
        /\ reserved' = IF held - reserved >= Amount[call[c].terms]
                       THEN reserved + Amount[call[c].terms] ELSE reserved
     \/ Fails(c) /\ GoTo(c, "rollback") /\ UNCHANGED reserved
  /\ UNCHANGED <<rowVars, contract, due, tx, money, held, bought, attempt, spent, counts, marks>>

ReserveShares(c) ==
  /\ At(c, "reserve")
  /\ \/ /\ held - reserved >= Amount[call[c].terms] /\ Works(c)
        /\ reserved' = reserved + Amount[call[c].terms] /\ GoTo(c, "contract")
     \/ /\ held - reserved < Amount[call[c].terms] /\ Works(c)
        /\ GoTo(c, "rollback") /\ UNCHANGED reserved
     \/ Fails(c) /\ GoTo(c, "rollback") /\ UNCHANGED reserved
  /\ UNCHANGED <<rowVars, contract, due, tx, money, held, bought, attempt, spent, counts, marks>>

RollBack(c) ==
  IF tx[c].status = "PENDING" THEN tx' = [tx EXCEPT ![c].status = "ROLLED_BACK"]
                              ELSE UNCHANGED tx

RollbackAccept(c) ==
  /\ At(c, "rollback")
  /\ \/ Works(c) /\ RollBack(c)
     \/ Fails(c) /\ UNCHANGED tx
  /\ GoTo(c, "revert")
  /\ UNCHANGED <<rowVars, contract, due, money, stock, attempt, spent, counts, marks>>

(* ON CONFLICT (negotiation_id) DO NOTHING *)
Insert(k, n, terms) ==
  IF contract[k][n].status = "none"
  THEN contract' = [contract EXCEPT ![k][n] = [status |-> "ACTIVE", terms |-> terms]]
  ELSE UNCHANGED contract

InsertContract(c) ==
  /\ At(c, "contract")
  /\ \/ Works(c) /\ Insert(Seller, call[c].of, call[c].terms) /\ UNCHANGED lost
     \/ Fails(c) /\ Loses(call[c].of) /\ UNCHANGED contract
  /\ GoTo(c, "commit")
  /\ UNCHANGED <<rowVars, due, tx, money, stock, attempt, spent, counts, doubted,
                 repeated, short>>

(* The result of COMMIT_TX is not looked at. *)
CreditSeller(c) ==
  /\ At(c, "credit")
  /\ \/ /\ Works(c)
        /\ cash' = cash + Premium[call[c].terms]
        /\ credited' = [credited EXCEPT ![call[c].of] = @ + 1]
     \/ Fails(c) /\ UNCHANGED <<cash, credited>>
  /\ Return(c)
  /\ UNCHANGED <<rowVars, contract, due, tx, balance, available, stock, attempt, spent, debited, struck, marks>>

RevertAccept(c) ==
  /\ At(c, "revert")
  /\ SetStatus(Seller, call[c].of, call[c].back)
  /\ IF Asks(c) THEN GoTo(c, "refused") ELSE Return(c)
  /\ UNCHANGED <<linked, dealing, marks, faults>>

RevertAtBuyer(c) ==
  /\ At(c, "refused")
  /\ SetStatus(Buyer, call[c].of, "PENDING_BUYER") /\ Return(c)
  /\ UNCHANGED <<linked, dealing, marks, faults>>
-----------------------------------------------------------------------------
(* Exercise, run by the buyer's bank under the lock of its contract row. *)

Cost(terms) == Amount[terms] * Strike[terms]
Locked(n) ==
  \E c \in Calls : call[c].pc \in ExerciseLabels /\ call[c].of = n /\ call[c].alive

ExerciseUnlocked(c, n) ==
  /\ At(c, "idle")
  /\ contract[Buyer][n].status = "ACTIVE" /\ n \notin due
  /\ Begin(c, Buyer, n, contract[Buyer][n].terms, "pay")
  /\ UNCHANGED <<rowVars, dealing, marks, faults>>

ExerciseContract(c, n) ==
  /\ At(c, "idle") /\ ~Locked(n)
  /\ contract[Buyer][n].status = "ACTIVE" /\ n \notin due
  /\ Begin(c, Buyer, n, contract[Buyer][n].terms, "pay")
  /\ UNCHANGED <<rowVars, dealing, marks, faults>>

ReserveFunds(c) ==
  /\ At(c, "pay")
  /\ \/ /\ available >= Cost(call[c].terms) /\ balance >= Cost(call[c].terms) /\ Works(c)
        /\ available' = available - Cost(call[c].terms) /\ GoTo(c, "prepare")
     \/ /\ available < Cost(call[c].terms) \/ balance < Cost(call[c].terms)
        /\ Succeeds /\ Return(c) /\ UNCHANGED available
     \/ Fails(c) /\ Return(c) /\ UNCHANGED available
  /\ UNCHANGED <<rowVars, contract, due, tx, balance, cash, stock, attempt, spent, counts, marks>>

MayExercise(n, amount) ==
  /\ contract[Seller][n].status = "ACTIVE" /\ n \notin due
  /\ Amount[contract[Seller][n].terms] = amount

PrepareExercise(c) ==
  /\ At(c, "prepare") /\ call[c].alive
  /\ LET n == call[c].of  amount == Amount[call[c].terms] IN
     IF MayExercise(n, amount)
     THEN Vote(c, "EXERCISE", n, amount) /\ GoTo(c, "exCommit")
     ELSE GoTo(c, "giveBack") /\ UNCHANGED <<tx, lost>> /\ Succeeds
  /\ UNCHANGED <<rowVars, contract, due, money, stock, attempt, spent, counts,
                 doubted, repeated, short>>

PrepareFails(c) ==
  /\ At(c, "prepare") /\ Fails(c) /\ GoTo(c, "giveBack")
  /\ UNCHANGED <<rowVars, dealing, marks>>

(* A COMMIT_TX that was refused, or never answered. *)
RollbackExercise(c) ==
  /\ At(c, "undo")
  /\ \/ Works(c) /\ RollBack(c)
     \/ Fails(c) /\ UNCHANGED tx
  /\ GoTo(c, "giveBack")
  /\ UNCHANGED <<rowVars, contract, due, money, stock, attempt, spent, counts, marks>>

GiveBack(c) ==
  /\ At(c, "giveBack")
  /\ available' = available + Cost(call[c].terms)
  /\ Return(c)
  /\ UNCHANGED <<rowVars, contract, due, tx, balance, cash, stock, attempt, spent, counts,
                 marks, faults>>

(* Step 3 debits the balance and gives the reservation back. *)
DebitBuyer(c) ==
  /\ At(c, "debit")
  /\ \/ /\ Works(c)
        /\ balance' = balance - Cost(call[c].terms)
        /\ available' = available + Cost(call[c].terms)
     \/ Fails(c) /\ UNCHANGED <<balance, available>>
  /\ GoTo(c, "deliver")
  /\ UNCHANGED <<rowVars, contract, due, tx, cash, stock, attempt, spent, counts, marks>>

AddShares(c) ==
  /\ At(c, "deliver")
  /\ \/ Works(c) /\ bought' = bought + Amount[call[c].terms]
     \/ Fails(c) /\ UNCHANGED bought
  /\ GoTo(c, "close")
  /\ UNCHANGED <<rowVars, contract, due, tx, money, held, reserved, attempt, spent,
                 counts, marks>>

MarkExercised(c) ==
  /\ At(c, "close")
  /\ \/ /\ Works(c) /\ UNCHANGED lost
        /\ contract' = [contract EXCEPT ![Buyer][call[c].of].status = "EXERCISED"]
     \/ Fails(c) /\ Loses(call[c].of) /\ UNCHANGED contract
  /\ Return(c)
  /\ UNCHANGED <<rowVars, due, tx, money, stock, attempt, spent, counts, doubted,
                 repeated, short>>
-----------------------------------------------------------------------------
(* COMMIT_TX: otcSendInterbankRequest repeats it when no answer came in ten *)
(* seconds, while the handler of the first attempt may still run.           *)

CommitLabels == {"commit", "exCommit"}
Waiting(label) == IF label = "commit" THEN "committing" ELSE "exCommitting"
Sending(label) == IF label = "committing" THEN "commit" ELSE "exCommit"
Latest(c) == attempt[c][call[c].tries]

SendCommit(c) ==
  /\ call[c].pc \in CommitLabels /\ call[c].tries < MaxTries /\ Works(c)
  /\ call' = [call EXCEPT ![c] = [@ EXCEPT
       !.pc = Waiting(call[c].pc), !.tries = call[c].tries + 1]]
  /\ attempt' = [attempt EXCEPT ![c][call[c].tries + 1].pc = "load"]
  /\ UNCHANGED <<rowVars, contract, due, tx, money, stock, spent, counts, marks>>

CommitAnswered(c) ==
  /\ call[c].pc \in {"committing", "exCommitting"} /\ Latest(c).pc = "done"
  /\ GoTo(c, IF At(c, "committing") THEN "credit"
             ELSE IF Latest(c).ok THEN "debit" ELSE "undo")
  /\ UNCHANGED <<rowVars, dealing, marks, faults>>

(* A partner that was slow once may stay so. *)
CommitTimesOut(c) ==
  /\ call[c].pc \in {"committing", "exCommitting"}
  /\ IF call[c].tries > 1 THEN Succeeds ELSE Fails(c)
  /\ GoTo(c, Sending(call[c].pc))
  /\ repeated' = repeated \cup {call[c].of}
  /\ UNCHANGED <<rowVars, dealing, doubted, short, lost>>

CommitFails(c) ==
  /\ call[c].pc \in CommitLabels
  /\ IF call[c].tries = MaxTries THEN Succeeds ELSE Fails(c)
  /\ GoTo(c, IF At(c, "commit") THEN "credit" ELSE "undo")
  /\ repeated' = repeated \cup {call[c].of}
  /\ UNCHANGED <<rowVars, dealing, doubted, short, lost>>

(* CommitOtcInterbank: each attempt reads the status of the row once. *)
Is(c, i, label) == attempt[c][i].pc = label
Proceed(c, i, label) == attempt' = [attempt EXCEPT ![c][i].pc = label]
End(c, i, ok) ==
  attempt' = [attempt EXCEPT ![c][i] = [@ EXCEPT !.pc = "done", !.ok = ok]]

LoadTx(c, i) ==
  /\ Is(c, i, "load")
  /\ \/ /\ tx[c].status = "PENDING" /\ Succeeds
        /\ attempt' = [attempt EXCEPT ![c][i] = [@ EXCEPT
             !.pc = IF tx[c].type = "ACCEPT" THEN "debit" ELSE "shares",
             !.terms = IF tx[c].type = "ACCEPT" THEN row[Buyer][tx[c].of].terms
                       ELSE contract[Seller][tx[c].of].terms]]
     \/ tx[c].status # "PENDING" /\ Succeeds /\ End(c, i, tx[c].status # "ROLLED_BACK")
     \/ Fault /\ End(c, i, FALSE)
  /\ UNCHANGED <<rowVars, contract, due, tx, money, stock, call, spent, counts, marks>>

(* The statement tests the money; whether it matched a row is not looked at. *)
DebitPremium(c, i) ==
  /\ Is(c, i, "debit")
  /\ LET n == tx[c].of  premium == Premium[attempt[c][i].terms] IN
     \/ /\ available >= premium /\ Succeeds
        /\ balance' = balance - premium /\ available' = available - premium
        /\ debited' = [debited EXCEPT ![n] = @ + 1]
        /\ UNCHANGED short
     \/ /\ available < premium /\ Succeeds
        /\ short' = short \cup {n} /\ UNCHANGED <<balance, available, debited>>
     \/ /\ Fault
        /\ short' = short \cup {n} /\ UNCHANGED <<balance, available, debited>>
  /\ Proceed(c, i, "insert")
  /\ UNCHANGED <<rowVars, contract, due, tx, cash, stock, call, spent, credited,
                 struck, doubted, repeated, lost>>

CreateBuyerContract(c, i) ==
  /\ Is(c, i, "insert")
  /\ \/ Succeeds /\ Insert(Buyer, tx[c].of, attempt[c][i].terms) /\ UNCHANGED lost
     \/ Fault /\ Loses(tx[c].of) /\ UNCHANGED contract
  /\ Proceed(c, i, "mark")
  /\ UNCHANGED <<rowVars, due, tx, money, stock, call, spent, counts, doubted,
                 repeated, short>>

Positive(x) == IF x > 0 THEN x ELSE 0

TakeReserved(c, i) ==
  /\ Is(c, i, "shares")
  /\ \/ /\ Succeeds
        /\ held' = Positive(held - tx[c].amount)
        /\ Proceed(c, i, "strike") /\ UNCHANGED reserved
     \/ Fault /\ End(c, i, FALSE) /\ UNCHANGED <<held, reserved>>
  /\ UNCHANGED <<rowVars, contract, due, tx, money, bought, call, spent, counts, marks>>

TakeShares(c, i) ==
  /\ Is(c, i, "shares")
  /\ \/ /\ Succeeds
        /\ held' = Positive(held - tx[c].amount)
        /\ reserved' = Positive(reserved - tx[c].amount)
        /\ Proceed(c, i, "strike")
     \/ Fault /\ End(c, i, FALSE) /\ UNCHANGED <<held, reserved>>
  /\ UNCHANGED <<rowVars, contract, due, tx, money, bought, call, spent, counts, marks>>

CreditStrike(c, i) ==
  /\ Is(c, i, "strike")
  /\ \/ /\ Succeeds
        /\ cash' = cash + tx[c].amount * Strike[attempt[c][i].terms]
        /\ struck' = [struck EXCEPT ![tx[c].of] = @ + 1]
     \/ Fault /\ UNCHANGED <<cash, struck>>
  /\ Proceed(c, i, "exercised")
  /\ UNCHANGED <<rowVars, contract, due, tx, balance, available, stock, call, spent,
                 credited, debited, marks>>

MarkSellerContract(c, i) ==
  /\ Is(c, i, "exercised")
  /\ \/ /\ Succeeds /\ Proceed(c, i, "mark")
        /\ contract' = [contract EXCEPT ![Seller][tx[c].of].status = "EXERCISED"]
        /\ UNCHANGED lost
     \/ Fault /\ Loses(tx[c].of) /\ End(c, i, FALSE) /\ UNCHANGED contract
  /\ UNCHANGED <<rowVars, due, tx, money, stock, call, spent, counts, doubted,
                 repeated, short>>

MarkCommitted(c, i) ==
  /\ Is(c, i, "mark")
  /\ \/ Succeeds /\ tx' = [tx EXCEPT ![c].status = "COMMITTED"]
     \/ Fault /\ UNCHANGED tx
  /\ End(c, i, TRUE)
  /\ UNCHANGED <<rowVars, contract, due, money, stock, call, spent, counts, marks>>

(* A handler stops: the request it answers was closed, or its process. *)
StopHandler(c, i) ==
  /\ ~Is(c, i, "none") /\ ~Is(c, i, "done")
  /\ IF call[c].pc \in {"committing", "exCommitting"} /\ i = call[c].tries
     THEN Fault ELSE Succeeds
  /\ End(c, i, FALSE)
  /\ doubted' = doubted \cup {tx[c].of}
  /\ UNCHANGED <<rowVars, contract, due, tx, money, stock, call, spent, counts,
                 repeated, short, lost>>

(* A crash of otc-service at a bank; nothing of this is taken up again. *)
SellerRuns(c) == call[c].pc \in AcceptLabels \ {"accept"}
BuyerRuns(c) ==
  call[c].pc \in {"forward", "link", "drop", "accept", "refused"} \cup ExerciseLabels
VoterOf(c) == IF tx[c].type = "ACCEPT" THEN Buyer ELSE Seller

AfterCrash(c, k) ==
  IF k = Seller /\ SellerRuns(c)
  THEN IF Asks(c) THEN [call[c] EXCEPT !.pc = "refused"] ELSE Finished("end")
  ELSE IF k = Buyer /\ BuyerRuns(c) THEN Finished("end")
  ELSE IF k = Buyer /\ SellerRuns(c) /\ Asks(c) THEN [call[c] EXCEPT !.waits = FALSE]
  ELSE call[c]

Crash(k) ==
  /\ Fault
  /\ call' = [c \in Calls |-> AfterCrash(c, k)]
  /\ attempt' = [c \in Calls |-> [i \in 1..MaxTries |->
       IF VoterOf(c) = k /\ ~Is(c, i, "none") /\ ~Is(c, i, "done")
       THEN [attempt[c][i] EXCEPT !.pc = "done", !.ok = FALSE] ELSE attempt[c][i]]]
  /\ doubted' = doubted \cup
       {call[c].of : c \in {x \in Calls : SellerRuns(x) \/ BuyerRuns(x)}}
  /\ UNCHANGED <<rowVars, contract, due, tx, money, stock, spent, counts, repeated, short, lost>>
-----------------------------------------------------------------------------
(* The rest of the banks. *)

Spend ==
  /\ spent < MaxSpent /\ available >= Payment
  /\ balance' = balance - Payment /\ available' = available - Payment
  /\ spent' = spent + 1
  /\ UNCHANGED <<rowVars, contract, due, tx, cash, stock, call, attempt, counts, marks, faults>>

SellShare ==
  /\ spent < MaxSpent /\ held - reserved >= 1
  /\ held' = held - 1 /\ spent' = spent + 1
  /\ UNCHANGED <<rowVars, contract, due, tx, money, reserved, bought, call, attempt,
                 counts, marks, faults>>

SettlementPasses(n) ==
  /\ n \notin due /\ due' = due \cup {n}
  /\ \E k \in Banks : contract[k][n].status = "ACTIVE"
  /\ UNCHANGED <<rowVars, contract, tx, money, stock, call, attempt, spent, counts,
                 marks, faults>>

(* ExpireContracts; the reserved shares are not released. *)
ExpireContract(k, n) ==
  /\ n \in due /\ contract[k][n].status = "ACTIVE"
  /\ k = Buyer => ~Locked(n)
  /\ contract' = [contract EXCEPT ![k][n].status = "EXPIRED"]
  /\ UNCHANGED <<rowVars, due, tx, money, stock, call, attempt, spent, counts, marks, faults>>

Offer(c, n) ==
  \/ \E t \in Terms : CreateNegotiation(c, n, t)
  \/ \E k \in Banks, t \in Terms : CounterOffer(c, k, n, t)
  \/ \E k \in Banks : RejectNegotiation(c, k, n)
  \/ AcceptNegotiation(c, n)
  \/ AcceptBySeller(c, n)
  \/ ExerciseContract(c, n)

Forward(c) ==
  \/ CreateInterbankNegotiation(c) \/ ForwardFails(c)
  \/ StorePartnerId(c) \/ DropNegotiation(c)
  \/ LookupInterbankNegotiation(c) \/ RequestLost(c)
  \/ InterbankCounterOffer(c) \/ InterbankDeleteNegotiation(c)

RunAcceptance(c) ==
  \/ GiveUp(c) \/ Cancel(c)
  \/ InterbankAcceptNegotiation(c) \/ LoadNegotiation(c)
  \/ PrepareAccept(c) \/ NewTxFails(c) \/ ReserveShares(c) \/ RollbackAccept(c)
  \/ InsertContract(c) \/ CreditSeller(c) \/ RevertAccept(c) \/ RevertAtBuyer(c)

RunExercise(c) ==
  \/ ReserveFunds(c) \/ PrepareExercise(c) \/ PrepareFails(c)
  \/ RollbackExercise(c) \/ GiveBack(c)
  \/ DebitBuyer(c) \/ AddShares(c) \/ MarkExercised(c)

Commit(c) ==
  SendCommit(c) \/ CommitAnswered(c) \/ CommitTimesOut(c) \/ CommitFails(c)

CommitOtcInterbank(c, i) ==
  \/ LoadTx(c, i) \/ DebitPremium(c, i) \/ CreateBuyerContract(c, i)
  \/ TakeShares(c, i) \/ CreditStrike(c, i) \/ MarkSellerContract(c, i)
  \/ MarkCommitted(c, i) \/ StopHandler(c, i)

Next ==
  \/ \E c \in Calls :
       \/ \E n \in Negotiations : Offer(c, n)
       \/ Forward(c) \/ RunAcceptance(c) \/ RunExercise(c) \/ Commit(c)
       \/ \E i \in 1..MaxTries : CommitOtcInterbank(c, i)
  \/ \E n \in Negotiations :
       SettlementPasses(n) \/ \E k \in Banks : ExpireContract(k, n)
  \/ Spend \/ SellShare
  \/ \E k \in Banks : Crash(k)

Spec == Init /\ [][Next]_vars
-----------------------------------------------------------------------------
Present(k, n) == contract[k][n].status # "none"
Quiet(n) ==
  /\ \A c \in Calls : call[c].pc \in {"idle", "end"} \/ call[c].of # n
  /\ \A c \in Calls, i \in 1..MaxTries :
       Is(c, i, "none") \/ Is(c, i, "done") \/ tx[c].of # n

(* Nothing of n was cut off, repeated or dropped. *)
Undisturbed(n) == n \notin doubted \cup repeated \cup lost

(* The two banks never hold different contracts for the same agreement:    *)
(* each inserts the terms of its own row, read at a different moment, after *)
(* offers crossed and lookups went stale.  Only an acceptance whose buyer's *)
(* bank stopped waiting escapes: acceptCrossBank reopens the offer while    *)
(* the seller's bank still runs.                                            *)
ContractsAgree ==
  \A n \in Negotiations \ doubted :
    Present(Buyer, n) /\ Present(Seller, n) =>
      contract[Buyer][n].terms = contract[Seller][n].terms

(* A premium is paid out once and taken once, whatever the order of         *)
(* counter-offers, rejections and acceptances; the buyer has no contract    *)
(* without having paid, unless the money had gone since the vote.           *)
PremiumOnce ==
  \A n \in Negotiations :
    /\ credited[n] <= 1 \/ n \in doubted
    /\ debited[n] <= 1 \/ n \in doubted \cup repeated
    /\ Present(Buyer, n) => debited[n] >= 1 \/ n \in short

(* An exercise happens at both banks or at neither, and once: a buyer whose *)
(* contract is EXERCISED has taken the seller's shares, and a seller who    *)
(* delivered has a buyer whose contract says so, once nothing is under way. *)
SharesDelivered ==
  \A n \in Negotiations :
    /\ contract[Buyer][n].status = "EXERCISED" =>
         contract[Seller][n].status = "EXERCISED" \/ n \in lost
    /\ contract[Seller][n].status = "EXERCISED" /\ Quiet(n) /\ Undisturbed(n) =>
         contract[Buyer][n].status = "EXERCISED"
    /\ struck[n] <= 1 \/ ~Undisturbed(n)

Prepared(n) ==
  \E c \in Calls : tx[c].of = n /\ tx[c].type = "EXERCISE" /\ tx[c].status # "none"

(* The buyer's right is backed: the seller's bank has the contract before   *)
(* the buyer's bank has it, and its shares stay reserved until an exercise  *)
(* takes them.  An exercise that was cut off, repeated or not written may   *)
(* take them twice, and so take what is reserved for another contract.      *)
ContractBacked ==
  /\ \A n \in Negotiations : Present(Buyer, n) => Present(Seller, n) \/ n \in lost
  /\ (\A n \in Negotiations : Prepared(n) => Undisturbed(n)) =>
       reserved >= AmountOf({n \in Negotiations :
                               contract[Seller][n].status = "ACTIVE" /\ ~Prepared(n)})

(* What interbank_outgoing.go says of step 3: the available balance was     *)
(* reduced by the reservation already, so the debit leaves no more of it    *)
(* than there is money.                                                     *)
AvailableWithinBalance == available <= balance
=============================================================================
