--------------------------- MODULE OtcNegotiation ---------------------------
(***************************************************************************)
(* otc-service: negotiations of option contracts between clients of the    *)
(* bank, or with the bank itself (handlers/grpc_server.go): creation,      *)
(* counter-offers, rejection, and the acceptance, which moves the premium  *)
(* in account_db while it holds the row of the negotiation in otc_db.      *)
(* Negotiations with partner banks are another protocol.                   *)
(***************************************************************************)
EXTENDS Integers, FiniteSets, Functions

CONSTANTS
  Negotiations,   \* ids of rows of otc_negotiations, all of one ticker
  Users,          \* (id, type) of whoever calls
  Sessions,       \* a user may call from several at a time
  UserOf,         \* [Sessions -> Users]
  Buyer,          \* [Negotiations -> Users]
  Sellers,        \* [Negotiations -> SUBSET Users]: the seller, or, when the
                  \* bank sells (seller_id = 0), every employee
  Seller,         \* [Negotiations -> Owners], of the shares
  Owners,
  Free,           \* [Owners -> Nat]: amount - reserved_amount
  Terms,          \* offers: sets of [amount : Nat, premium : Nat]
  PayingAccount,  \* [Negotiations -> Accounts], of the buyer
  PaidAccount,    \* [Negotiations -> Accounts], of the seller
  Rate,           \* what a unit of premium is in the seller's account
  Accounts, InitBalance,
  Taxable,        \* <<negotiation, role>> of clients: employees owe no tax
  Faults,         \* what can fail in an instance
  MaxRefusals     \* bound on what does

None == "none"
Pending == {"PENDING_SELLER", "PENDING_BUYER"}
Final == {"ACCEPTED", "REJECTED"}
Calls == Negotiations \X Sessions
Checking == {"capacity", "balance", "deduct"}
Accepting == Checking \cup {"credit", "commit"}
Moved == {"credit", "commit", "refund", "refundBoth", "takeBack"}
Labels == Accepting \cup Moved \cup {"idle", "tax"}

ASSUME PartiesAssumption ==
  /\ UserOf \in [Sessions -> Users] /\ Buyer \in [Negotiations -> Users]
  /\ Sellers \in [Negotiations -> SUBSET Users]
  /\ Seller \in [Negotiations -> Owners]
  /\ PayingAccount \in [Negotiations -> Accounts]
  /\ PaidAccount \in [Negotiations -> Accounts]
  /\ None \notin Users /\ None \notin Calls
ASSUME FiniteAssumption == IsFiniteSet(Negotiations) /\ IsFiniteSet(Sessions)
ASSUME AmountsAssumption ==
  /\ Free \in [Owners -> Nat] /\ InitBalance \in [Accounts -> Nat]
  /\ Rate \in [Negotiations -> Nat] /\ MaxRefusals \in Nat
  /\ Terms \subseteq [amount : Nat, premium : Nat]

VARIABLES
  neg,        \* otc_negotiations: status, terms, modified_by
  contract,   \* otc_contracts by negotiation_id: status, terms
  taxed,      \* tax_record: <<negotiation, role>>
  balance,    \* accounts, what the premiums make of it
  call,       \* AcceptNegotiation: label, terms it read, its transaction
              \* (open or aborted, it has the row), whether its caller
              \* still waits
  making,     \* CreateNegotiation: label, terms
  promised,   \* and the first of its two sums
  raced,      \* acceptances that checked one seller's shares overlapped
  adrift,     \* an answer was lost, a compensation gave up, or the service
              \* stopped after a deduction
  refusals    \* how much has failed

tables == <<neg, contract, taxed>>
vars == <<tables, balance, call, making, promised, raced, adrift, refusals>>

NoTerms == [amount |-> 0, premium |-> 0]
IdleCall == [pc |-> "idle", terms |-> NoTerms, tx |-> "closed", here |-> FALSE]

TypeOK ==
  /\ neg \in [Negotiations ->
       [status : Pending \cup Final \cup {None}, terms : Terms \cup {NoTerms},
        by : Users \cup {None}]]
  /\ contract \in [Negotiations ->
       [status : {None, "ACTIVE", "EXPIRED"}, terms : Terms \cup {NoTerms}]]
  /\ taxed \subseteq Negotiations \X {"seller", "buyer"}
  /\ balance \in [Accounts -> Int]
  /\ call \in [Calls -> [pc : Labels, terms : Terms \cup {NoTerms},
                         tx : {"open", "aborted", "closed"}, here : BOOLEAN]]
  /\ making \in [Negotiations ->
       [pc : {"idle", "pending", "insert", "end"}, terms : Terms \cup {NoTerms}]]
  /\ promised \in [Negotiations -> Nat]
  /\ raced \in BOOLEAN /\ adrift \in BOOLEAN /\ refusals \in Nat

Init ==
  /\ neg = [n \in Negotiations |-> [status |-> None, terms |-> NoTerms, by |-> None]]
  /\ contract = [n \in Negotiations |-> [status |-> None, terms |-> NoTerms]]
  /\ taxed = {}
  /\ balance = InitBalance
  /\ call = [c \in Calls |-> IdleCall]
  /\ making = [n \in Negotiations |-> [pc |-> "idle", terms |-> NoTerms]]
  /\ promised = [n \in Negotiations |-> 0]
  /\ raced = FALSE /\ adrift = FALSE /\ refusals = 0

Succeeds == UNCHANGED refusals
Refused(label) ==
  /\ label \in Faults /\ refusals < MaxRefusals
  /\ refusals' = refusals + 1

SumOver(S, value(_)) == SumFunction([x \in S |-> value(x)])
Active(n, o) ==
  IF Seller[n] = o /\ contract[n].status = "ACTIVE" THEN contract[n].terms.amount ELSE 0
Offered(n, o) ==
  IF Seller[n] = o /\ neg[n].status \in Pending THEN neg[n].terms.amount ELSE 0
ActiveContracts(o) == SumOver(Negotiations, LAMBDA n : Active(n, o))
PendingNegotiations(o) == SumOver(Negotiations, LAMBDA n : Offered(n, o))
-----------------------------------------------------------------------------
(* CreateNegotiation.  The two sums are read one after the other, and an   *)
(* error of either counts as 0.                                            *)

SumRead(sum, read) ==
  \/ read = sum /\ Succeeds
  \/ read = 0 /\ Refused("sum")

SumContracts(n, terms) ==
  /\ making[n].pc = "idle"
  /\ making' = [making EXCEPT ![n] = [pc |-> "pending", terms |-> terms]]
  /\ \E sum \in {ActiveContracts(Seller[n]), 0} :
       /\ SumRead(ActiveContracts(Seller[n]), sum)
       /\ promised' = [promised EXCEPT ![n] = sum]
  /\ UNCHANGED <<tables, balance, call, raced, adrift>>

SumNegotiations(n) ==
  /\ making[n].pc = "pending"
  /\ \E sum \in {PendingNegotiations(Seller[n]), 0} :
       /\ SumRead(PendingNegotiations(Seller[n]), sum)
       /\ making' = [making EXCEPT ![n].pc =
            IF Free[Seller[n]] < promised[n] + sum + making[n].terms.amount
            THEN "end" ELSE "insert"]
  /\ UNCHANGED <<tables, balance, call, promised, raced, adrift>>

InsertNegotiation(n) ==
  /\ making[n].pc = "insert"
  /\ \/ /\ Succeeds
        /\ neg' = [neg EXCEPT ![n] =
             [status |-> "PENDING_SELLER", terms |-> making[n].terms, by |-> Buyer[n]]]
     \/ Refused("insert") /\ UNCHANGED neg
  /\ making' = [making EXCEPT ![n].pc = "end"]
  /\ UNCHANGED <<contract, taxed, balance, call, promised, raced, adrift>>
-----------------------------------------------------------------------------
(* CounterOffer, RejectNegotiation: one short transaction on the row.      *)

IsBuyer(c) == UserOf[c[2]] = Buyer[c[1]]
IsSeller(c) == UserOf[c[2]] \in Sellers[c[1]]

ItsTurn(c) ==
  \/ neg[c[1]].status = "PENDING_SELLER" /\ IsSeller(c)
  \/ neg[c[1]].status = "PENDING_BUYER" /\ IsBuyer(c)

(* Mutant: SELECT without FOR UPDATE. *)
ReadOnly(n) == TRUE

Unlocked(n) == \A session \in Sessions : call[<<n, session>>].tx = "closed"

(* Mutant: the UPDATE leaves out the premium. *)
NewTermsOldPremium(n, terms) == [terms EXCEPT !.premium = neg[n].terms.premium]
NewTerms(n, terms) == terms

CounterOffer(c, terms) ==
  /\ Unlocked(c[1]) /\ ItsTurn(c)
  /\ neg' = [neg EXCEPT ![c[1]] =
       [status |-> IF IsBuyer(c) THEN "PENDING_SELLER" ELSE "PENDING_BUYER",
        terms |-> NewTerms(c[1], terms), by |-> UserOf[c[2]]]]
  /\ UNCHANGED <<contract, taxed, balance, call, making, promised, raced,
                 adrift, refusals>>

RejectNegotiation(c) ==
  /\ Unlocked(c[1])
  /\ IsSeller(c) \/ IsBuyer(c)
  /\ neg[c[1]].status \in Pending
  /\ neg' = [neg EXCEPT ![c[1]] = [@ EXCEPT !.status = "REJECTED", !.by = UserOf[c[2]]]]
  /\ UNCHANGED <<contract, taxed, balance, call, making, promised, raced,
                 adrift, refusals>>
-----------------------------------------------------------------------------
(* AcceptNegotiation *)

At(c, label) == call[c].pc = label

(* SELECT ... FOR UPDATE and the checks of the row. *)
BeginAccept(c) ==
  /\ At(c, "idle") /\ Unlocked(c[1]) /\ ItsTurn(c)
  /\ call' = [call EXCEPT ![c] =
       [pc |-> "capacity", terms |-> neg[c[1]].terms, tx |-> "open", here |-> TRUE]]
  /\ UNCHANGED <<tables, balance, making, promised, raced, adrift, refusals>>

GoTo(c, label) == call' = [call EXCEPT ![c].pc = label]
EndTx(c, tx, label) ==
  call' = [call EXCEPT ![c] = [@ EXCEPT !.pc = label, !.tx = tx]]

(* The handler returns, and its deferred Rollback ends the transaction. *)
Return(c) == call' = [call EXCEPT ![c] = IdleCall]

(* A statement under the request's context fails, for the database or      *)
(* because the caller is gone.                                             *)
Fails(c, label) ==
  \/ Refused(label)
  \/ ~call[c].here /\ Succeeds

Overlaps(c) ==
  \E d \in Calls \ {c} : /\ Seller[d[1]] = Seller[c[1]]
                         /\ call[d].pc \in Accepting \ {"capacity"} /\ call[d].tx = "open"

(* What is left of the test when the sum fails; as a mutant of Enough,     *)
(* reserved shares are thought to be all that is promised.                 *)
EnoughAlone(c) == Free[Seller[c[1]]] >= call[c].terms.amount
Enough(c) ==
  Free[Seller[c[1]]] >= ActiveContracts(Seller[c[1]]) + call[c].terms.amount

(* The shares of the seller against the active contracts; an error of the  *)
(* sum counts as 0 and leaves a transaction in which nothing more works.   *)
CheckCapacity(c) ==
  /\ At(c, "capacity")
  /\ \/ /\ call[c].here /\ Succeeds /\ Enough(c)
        /\ GoTo(c, "balance") /\ raced' = (raced \/ Overlaps(c))
     \/ /\ call[c].here /\ Refused("sum") /\ EnoughAlone(c)
        /\ EndTx(c, "aborted", "balance")
        /\ UNCHANGED raced
     \/ /\ \/ Succeeds /\ ~Enough(c)
           \/ Fails(c, "lookup")
        /\ Return(c) /\ UNCHANGED raced
  /\ UNCHANGED <<tables, balance, making, promised, adrift>>

(* The buyer's balance, and the look-ups of the accounts. *)
CheckBalance(c) ==
  /\ At(c, "balance")
  /\ \/ /\ call[c].here /\ Succeeds
        /\ balance[PayingAccount[c[1]]] >= call[c].terms.premium
        /\ GoTo(c, "deduct")
     \/ /\ \/ Succeeds /\ balance[PayingAccount[c[1]]] < call[c].terms.premium
           \/ Fails(c, "lookup")
        /\ Return(c)
  /\ UNCHANGED <<tables, balance, making, promised, raced, adrift>>

Change(account, amount) == balance' = [balance EXCEPT ![account] = @ + amount]
Premium(c) == call[c].terms.premium

(* An error of a statement of another database may be a lost answer.       *)
LostAnswer(label) == Refused(label) /\ adrift' = TRUE

(* The UPDATE does not test the balance again. *)
DeductPremium(c) ==
  /\ At(c, "deduct")
  /\ \/ /\ call[c].here /\ Succeeds
        /\ Change(PayingAccount[c[1]], -Premium(c))
        /\ GoTo(c, "credit") /\ UNCHANGED adrift
     \/ Fails(c, "deduct") /\ Return(c) /\ UNCHANGED <<balance, adrift>>
     \/ /\ LostAnswer("deductAnswer") /\ Return(c)
        /\ Change(PayingAccount[c[1]], -Premium(c))
  /\ UNCHANGED <<tables, making, promised, raced>>

CreditPremium(c) ==
  /\ At(c, "credit")
  /\ \/ /\ call[c].here /\ Succeeds
        /\ Change(PaidAccount[c[1]], Premium(c) * Rate[c[1]])
        /\ GoTo(c, "commit") /\ UNCHANGED adrift
     \/ Fails(c, "credit") /\ GoTo(c, "refund") /\ UNCHANGED <<balance, adrift>>
     \/ /\ LostAnswer("creditAnswer") /\ GoTo(c, "refund")
        /\ Change(PaidAccount[c[1]], Premium(c) * Rate[c[1]])
  /\ UNCHANGED <<tables, making, promised, raced>>

(* The contract and the status of the negotiation become visible at once;  *)
(* a failing INSERT or UPDATE keeps the row until the handler returns, a   *)
(* failing COMMIT frees it.                                                *)
Agree(c) ==
  /\ contract' = [contract EXCEPT ![c[1]] =
       [status |-> "ACTIVE", terms |-> call[c].terms]]
  /\ neg' = [neg EXCEPT ![c[1]] = [@ EXCEPT !.status = "ACCEPTED", !.by = UserOf[c[2]]]]

CommitAccept(c) ==
  /\ At(c, "commit")
  /\ \/ /\ call[c].tx = "open" /\ Agree(c)
        /\ \/ Succeeds /\ EndTx(c, "closed", "tax") /\ UNCHANGED adrift
           \/ LostAnswer("commitAnswer") /\ EndTx(c, "closed", "refundBoth")
     \/ /\ \/ call[c].tx # "open" /\ Succeeds /\ GoTo(c, "refundBoth")
           \/ /\ call[c].tx = "open" /\ Refused("contract")
              /\ \E tx \in {"aborted", "closed"} : EndTx(c, tx, "refundBoth")
        /\ UNCHANGED <<neg, contract, adrift>>
  /\ UNCHANGED <<taxed, balance, making, promised, raced>>

(* The compensations: three attempts without the request's context. *)
Compensate(account, amount) ==
  \/ Succeeds /\ Change(account, amount) /\ UNCHANGED adrift
  \/ LostAnswer("retry") /\ UNCHANGED balance

(* Mutant: the refund uses the request's context. *)
RefundInContext(c) ==
  /\ \/ call[c].here /\ Compensate(PayingAccount[c[1]], Premium(c))
     \/ ~call[c].here /\ UNCHANGED <<balance, adrift, refusals>>
  /\ \/ At(c, "refund") /\ Return(c)
     \/ At(c, "refundBoth") /\ GoTo(c, "takeBack")
  /\ UNCHANGED <<tables, making, promised, raced>>

RefundBuyer(c) ==
  /\ Compensate(PayingAccount[c[1]], Premium(c))
  /\ \/ At(c, "refund") /\ Return(c)
     \/ At(c, "refundBoth") /\ GoTo(c, "takeBack")
  /\ UNCHANGED <<tables, making, promised, raced>>

(* What is taken back is the premium, not what it was converted to. *)
TakeBackPremium(c) ==
  /\ At(c, "takeBack")
  /\ Compensate(PaidAccount[c[1]], -Premium(c))
  /\ Return(c)
  /\ UNCHANGED <<tables, making, promised, raced>>

InsertTax(row) ==
  \/ Succeeds /\ taxed' = taxed \cup ({row} \cap Taxable)
  \/ Refused("tax") /\ UNCHANGED taxed

RecordTax(c) ==
  /\ At(c, "tax")
  /\ InsertTax(<<c[1], "seller">>)
  /\ Return(c)
  /\ UNCHANGED <<neg, contract, balance, making, promised, raced, adrift>>

(* One row of the UPDATE: a contract past its settlement date.  The        *)
(* premium is a loss of the buyer.                                         *)
ExpireContract(n) ==
  /\ contract[n].status = "ACTIVE"
  /\ contract' = [contract EXCEPT ![n].status = "EXPIRED"]
  /\ InsertTax(<<n, "buyer">>)
  /\ UNCHANGED <<neg, balance, call, making, promised, raced, adrift>>

(* The caller is gone: database/sql rolls the transaction back, which      *)
(* frees the row while the handler still runs.                             *)
Disconnect(c) ==
  /\ call[c].here
  /\ Refused("disconnect")
  /\ call' = [call EXCEPT ![c] = [@ EXCEPT !.here = FALSE, !.tx = "closed"]]
  /\ UNCHANGED <<tables, balance, making, promised, raced, adrift>>

Crash ==
  /\ Refused("crash")
  /\ call' = [c \in Calls |-> IdleCall]
  /\ making' = [n \in Negotiations |->
       IF making[n].pc = "idle" THEN making[n] ELSE [making[n] EXCEPT !.pc = "end"]]
  /\ adrift' = (adrift \/ \E c \in Calls : call[c].pc \in Moved)
  /\ UNCHANGED <<tables, balance, promised, raced>>

Accept(c) ==
  \/ BeginAccept(c) \/ CheckCapacity(c) \/ CheckBalance(c) \/ DeductPremium(c)
  \/ CreditPremium(c) \/ CommitAccept(c) \/ RefundBuyer(c) \/ TakeBackPremium(c)
  \/ RecordTax(c)

Create(n) ==
  \/ \E terms \in Terms : SumContracts(n, terms)
  \/ SumNegotiations(n) \/ InsertNegotiation(n)

Next ==
  \/ \E c \in Calls :
       \/ Accept(c) \/ RejectNegotiation(c) \/ Disconnect(c)
       \/ \E terms \in Terms : CounterOffer(c, terms)
  \/ \E n \in Negotiations : Create(n) \/ ExpireContract(n)
  \/ Crash

Spec == Init /\ [][Next]_vars
-----------------------------------------------------------------------------
(* Properties *)

(* What an acceptance has moved so far, by label. *)
Deducted == {"credit", "commit", "refund", "refundBoth"}
Credited == {"commit", "refundBoth", "takeBack"}

TakenFor(n, a) ==
  IF PayingAccount[n] = a /\ contract[n].status # None THEN contract[n].terms.premium ELSE 0
TakenBy(c, a) == IF PayingAccount[c[1]] = a /\ call[c].pc \in Deducted THEN Premium(c) ELSE 0
GivenFor(n, a) ==
  IF PaidAccount[n] = a /\ contract[n].status # None
  THEN contract[n].terms.premium * Rate[n] ELSE 0
GivenBy(c, a) ==
  IF PaidAccount[c[1]] = a /\ call[c].pc \in Credited THEN Premium(c) * Rate[c[1]] ELSE 0

Taken(a) ==
  SumOver(Negotiations, LAMBDA n : TakenFor(n, a)) + SumOver(Calls, LAMBDA c : TakenBy(c, a))
Given(a) ==
  SumOver(Negotiations, LAMBDA n : GivenFor(n, a)) + SumOver(Calls, LAMBDA c : GivenBy(c, a))

(* A premium is paid once for every contract and for nothing else:         *)
(* whatever fails, whoever hangs up and however many acceptances of one    *)
(* negotiation run, what was moved without a contract is moved back        *)
(* (grpc_server.go:685-748), unless an answer is lost, a compensation      *)
(* fails three times or the service stops in between.                      *)
PremiumsBalance ==
  ~adrift =>
    \A a \in Accounts : balance[a] = InitBalance[a] - Taken(a) + Given(a)

(* The active contracts of a seller are covered by its free shares, as     *)
(* long as its acceptances do not overlap: counter-offers may raise the    *)
(* amount at any time, and an acceptance counts what is active then        *)
(* (grpc_server.go:600-610).                                               *)
ContractsCovered ==
  ~raced => \A o \in Owners : ActiveContracts(o) <= Free[o]

(* The same without the premise: "to prevent overselling across multiple   *)
(* accepted negotiations" (grpc_server.go:600-601).                        *)
NeverOversold ==
  \A o \in Owners : ActiveContracts(o) <= Free[o]

(* A contract has the terms that the row has when it is made, and they     *)
(* were offered by the other side: no counter-offer slips in between the   *)
(* reading of the row and the contract (grpc_server.go:548-552), although *)
(* the row may be freed under a running handler.                           *)
MadeOnAgreedTerms(n) ==
  contract[n].status = None /\ contract'[n].status # None =>
    /\ contract'[n].terms = neg[n].terms
    /\ neg[n].status \in Pending
    /\ Buyer[n] \notin Sellers[n] =>
         (neg[n].by = Buyer[n]) # (neg'[n].by = Buyer[n])

(* What is accepted or rejected stays so. *)
StaysDecided(n) ==
  neg[n].status \in Final => neg'[n] = neg[n]

AgreementsHold ==
  [][\A n \in Negotiations : MadeOnAgreedTerms(n) /\ StaysDecided(n)]_vars
=============================================================================
