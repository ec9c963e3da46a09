--------------------------- MODULE InterbankPayment ---------------------------
(***************************************************************************)
(* Payments of payment-service.  A payment to a partner bank runs two-phase *)
(* commit (executeOutgoing2PC in handlers/interbank_outgoing.go) against   *)
(* the partner's /interbank endpoint (handlers/interbank.go behind the     *)
(* gateway's InterbankHandler); payments and transfers inside the bank are *)
(* one database transaction.  Both ends of the protocol are this           *)
(* repository's code, so the model runs it at every bank.                  *)
(*                                                                         *)
(* A request is a triple <<p, type, n>>: the n-th HTTP attempt to send the *)
(* message of that type for payment p.  An attempt that times out may have *)
(* reached the partner, and its handler may still be running there.        *)
(***************************************************************************)
EXTENDS Integers, FiniteSets

CONSTANTS
  Banks, Accounts,
  Home,         \* [Accounts -> Banks]
  BankAccounts, \* the accounts of the banks themselves (owner_id = 0)
  Payments,
  Kind,         \* [Payments -> {"interbank", "payment", "transfer"}]
  From, To,     \* [Payments -> Accounts]
  ViaFrom, ViaTo, \* the banks' accounts that a conversion goes through
  Amount, Final,  \* [Payments -> Nat]: sent, and received after conversion
  Acceptable,   \* payments whose currency the receiving account has
  InitBalance,  \* [Accounts -> Nat]
  Limit,        \* [Accounts -> Nat]: the smaller of daily and monthly limit
  Retries,      \* interbankMaxRetries
  Faults,       \* what may fail, by label
  Cancels,      \* does a dropped connection cancel the partner's handler?
  MaxFailures,  \* HTTP attempts that fail
  MaxCrashes, MaxDeletes

Types == {"NEW_TX", "COMMIT_TX", "ROLLBACK_TX"}
Attempts == 1..Retries
Requests == Payments \X Types \X Attempts
Outgoing == {p \in Payments : Kind[p] = "interbank"}
Local == Payments \ Outgoing

Waiting == {"newTx", "commitTx", "rollbackTx"}
Ended == {"refused", "completed", "failed", "lost"}
PaymentLabels ==
  {"idle", "direct", "viaBank", "release", "debit", "record"} \cup Waiting \cup Ended
Running == {"sent", "validate", "insertYes", "insertNo", "claim", "credit", "otc",
            "mark"}
Answers == {"yes", "no", "ok", "error"}

ASSUME PlacesAssumption ==
  /\ Home \in [Accounts -> Banks] /\ BankAccounts \subseteq Accounts
  /\ From \in [Payments -> Accounts \ BankAccounts]
  /\ To \in [Payments -> Accounts]
  /\ ViaFrom \in [Payments -> BankAccounts] /\ ViaTo \in [Payments -> BankAccounts]
  /\ Kind \in [Payments -> {"interbank", "payment", "transfer"}]
  /\ \A p \in Payments : From[p] # To[p]
  /\ Acceptable \subseteq Payments
ASSUME QuantitiesAssumption ==
  /\ Amount \in [Payments -> Nat] /\ Final \in [Payments -> Nat]
  /\ InitBalance \in [Accounts -> Nat] /\ Limit \in [Accounts -> Nat]
  /\ Retries \in Nat \ {0} /\ Cancels \in BOOLEAN
  /\ MaxFailures \in Nat /\ MaxCrashes \in Nat /\ MaxDeletes \in Nat
ASSUME FiniteAssumption == IsFiniteSet(Payments)

VARIABLES
  account,   \* accounts: balance, available_balance, daily and monthly spent
  open,      \* accounts whose row exists
  row,       \* interbank_transactions.status at the receiver, "none" without row
  vote,      \* interbank_transactions.cached_vote
  recorded,  \* payments and transfers with a row in those tables
  pc,        \* what the call that makes a payment does next
  attempt,   \* the attempt it waits for
  handler,   \* what the partner's handler of each attempt does next
  debits,    \* history: interbank payments whose debit was applied
  credits,   \* history: how often each interbank payment was credited
  failures, crashes   \* bounded counters of what the environment did

tables == <<account, open, row, vote, recorded>>
history == <<debits, credits>>
vars == <<tables, history, pc, attempt, handler, failures, crashes>>

TypeOK ==
  /\ account \in [Accounts -> [balance : Int, available : Int, spent : Int]]
  /\ open \subseteq Accounts
  /\ row \in [Payments -> {"none", "PENDING", "COMMITTED", "ROLLED_BACK"}]
  /\ vote \in [Payments -> {"yes", "no"}]
  /\ recorded \subseteq Payments
  /\ pc \in [Payments -> PaymentLabels]
  /\ attempt \in [Payments -> Attempts]
  /\ handler \in [Requests -> {"unsent"} \cup Running \cup Answers]
  /\ debits \subseteq Payments /\ credits \in [Payments -> Nat]
  /\ failures \in Nat /\ crashes \in Nat

Init ==
  /\ account = [a \in Accounts |->
       [balance |-> InitBalance[a], available |-> InitBalance[a], spent |-> 0]]
  /\ open = Accounts
  /\ row = [p \in Payments |-> "none"]
  /\ vote = [p \in Payments |-> "no"]
  /\ recorded = {}
  /\ pc = [p \in Payments |-> "idle"]
  /\ attempt = [p \in Payments |-> 1]
  /\ handler = [r \in Requests |-> "unsent"]
  /\ debits = {} /\ credits = [p \in Payments |-> 0]
  /\ failures = 0 /\ crashes = 0

-----------------------------------------------------------------------------
(* UPDATE accounts; no row, no effect and no error. *)
Move(acc, a, b, v, s) ==
  IF a \in open
  THEN [acc EXCEPT ![a] = [balance |-> @.balance + b, available |-> @.available + v,
                           spent |-> @.spent + s]]
  ELSE acc

Covered(p) == From[p] \in open /\ account[From[p]].available >= Amount[p]
WithinLimits(p) == account[From[p]].spent + Amount[p] <= Limit[From[p]]

Goes(p, from, to) == pc[p] = from /\ pc' = [pc EXCEPT ![p] = to]

(* sendInterbankRequest: the n-th attempt leaves for the partner. *)
Send(p, type, n) ==
  /\ handler' = [handler EXCEPT ![<<p, type, n>>] = "sent"]
  /\ attempt' = [attempt EXCEPT ![p] = n]

-----------------------------------------------------------------------------
(* CreatePayment and CreateTransfer inside the bank: the row lock on the   *)
(* sender makes check and transfer one transaction.  A recipient that does *)
(* not exist is paid through the bank's own account.                       *)

(* The recipient is looked up before the transaction begins. *)
LookupRecipient(p) ==
  /\ p \in Local /\ From[p] \in open
  /\ \/ To[p] \in open /\ Goes(p, "idle", "direct")
     \/ Kind[p] = "payment" /\ To[p] \notin open /\ Goes(p, "idle", "viaBank")
  /\ UNCHANGED <<tables, history, attempt, handler, failures, crashes>>

(* Another currency goes through the bank's accounts in both currencies. *)
Paid(p) ==
  LET spent == IF Kind[p] = "payment" THEN Amount[p] ELSE 0
      debited == Move(account, From[p], -Amount[p], -Amount[p], spent)
      atBank == Move(debited, ViaFrom[p], Amount[p], Amount[p], 0)
  IN CASE pc[p] = "viaBank" -> atBank
       [] pc[p] = "direct" /\ p \in Acceptable ->
            Move(debited, To[p], Amount[p], Amount[p], 0)
       [] OTHER -> Move(Move(atBank, ViaTo[p], -Final[p], -Final[p], 0),
                        To[p], Final[p], Final[p], 0)

(* The answer of a commit may be lost. *)
Transfer(p) ==
  /\ Covered(p) /\ (Kind[p] = "payment" => WithinLimits(p))
  /\ pc[p] \in {"direct", "viaBank"}
  /\ \/ pc' = [pc EXCEPT ![p] = "record"]
     \/ "commitAnswer" \in Faults /\ pc' = [pc EXCEPT ![p] = "failed"]
  /\ account' = Paid(p)
  /\ UNCHANGED <<open, row, vote, recorded, history, attempt, handler, failures,
                 crashes>>

Refuse(p) ==
  /\ pc[p] \in {"idle", "direct", "viaBank"}
  /\ \/ ~Covered(p)
     \/ Kind[p] # "transfer" /\ ~WithinLimits(p)
     \/ Kind[p] = "transfer" /\ To[p] \notin open
     \/ "lookup" \in Faults
  /\ pc' = [pc EXCEPT ![p] = "refused"]
  /\ UNCHANGED <<tables, history, attempt, handler, failures, crashes>>

(* INSERT INTO payments or transfers, after the money has moved. *)
Record(p) ==
  /\ \/ Goes(p, "record", "completed") /\ recorded' = recorded \cup {p}
     \/ "record" \in Faults /\ Goes(p, "record", "failed") /\ UNCHANGED recorded
  /\ UNCHANGED <<account, open, row, vote, history, attempt, handler, failures,
                 crashes>>

-----------------------------------------------------------------------------
(* executeOutgoing2PC.                                                     *)

(* Mutant: the limits are checked before the row is locked, not under it.  *)
ReserveUnchecked(p) ==
  /\ p \in Outgoing /\ Goes(p, "idle", "newTx")
  /\ account' = Move(account, From[p], 0, -Amount[p], Amount[p])
  /\ Send(p, "NEW_TX", 1)
  /\ UNCHANGED <<open, row, vote, recorded, history, failures, crashes>>

(* DB tx #1.  The answer of its commit may be lost. *)
Reserve(p) ==
  /\ p \in Outgoing /\ Covered(p) /\ WithinLimits(p)
  /\ account' = Move(account, From[p], 0, -Amount[p], Amount[p])
  /\ \/ Goes(p, "idle", "newTx") /\ Send(p, "NEW_TX", 1)
     \/ /\ "commitAnswer" \in Faults /\ Goes(p, "idle", "failed")
        /\ UNCHANGED <<attempt, handler>>
  /\ UNCHANGED <<open, row, vote, recorded, history, failures, crashes>>

(* Continue with the next message, or without one. *)
Next2PC(p, from, to) ==
  /\ Goes(p, from, to)
  /\ CASE to = "commitTx" -> Send(p, "COMMIT_TX", 1)
       [] to = "rollbackTx" -> Send(p, "ROLLBACK_TX", 1)
       [] OTHER -> UNCHANGED <<attempt, handler>>
  /\ UNCHANGED <<tables, history, failures, crashes>>

Answered(p, type) == handler[<<p, type, attempt[p]>>]

(* A vote that cannot be decoded is rolled back; a NO and an error are not. *)
TakeVote(p) ==
  \/ Answered(p, "NEW_TX") = "yes" /\ Next2PC(p, "newTx", "commitTx")
  \/ Answered(p, "NEW_TX") \in {"no", "error"} /\ Next2PC(p, "newTx", "release")
  \/ /\ "garbled" \in Faults /\ Answered(p, "NEW_TX") \in {"yes", "no"}
     /\ Next2PC(p, "newTx", "rollbackTx")

(* Mutant: an error counts as a committed transaction. *)
TakeCommittedAnyAnswer(p) ==
  Answered(p, "COMMIT_TX") \in {"ok", "error"} /\ Next2PC(p, "commitTx", "debit")

TakeCommitted(p) ==
  \/ Answered(p, "COMMIT_TX") = "ok" /\ Next2PC(p, "commitTx", "debit")
  \/ Answered(p, "COMMIT_TX") = "error" /\ Next2PC(p, "commitTx", "rollbackTx")

TakeRolledBack(p) ==
  Answered(p, "ROLLBACK_TX") \in Answers /\ Next2PC(p, "rollbackTx", "release")

TypeOf(label) ==
  CASE label = "newTx" -> "NEW_TX" [] label = "commitTx" -> "COMMIT_TX"
    [] label = "rollbackTx" -> "ROLLBACK_TX"

(* An attempt times out or its connection breaks, wherever the request is. *)
AttemptFails(p) ==
  /\ pc[p] \in Waiting /\ attempt[p] < Retries
  /\ failures < MaxFailures /\ failures' = failures + 1
  /\ Send(p, TypeOf(pc[p]), attempt[p] + 1)
  /\ UNCHANGED <<tables, history, pc, crashes>>

(* Mutant: takes a commit nobody answered for done. *)
RequestFailsDebits(p) ==
  /\ pc[p] \in Waiting
  /\ attempt[p] = Retries \/ "context" \in Faults
  /\ failures < MaxFailures /\ failures' = failures + 1
  /\ pc' = [pc EXCEPT ![p] = IF pc[p] = "commitTx" THEN "debit" ELSE "release"]
  /\ UNCHANGED <<tables, history, attempt, handler, crashes>>

(* The last attempt failed, or the context is done and so are all attempts. *)
RequestFails(p) ==
  /\ pc[p] \in Waiting
  /\ attempt[p] = Retries \/ "context" \in Faults
  /\ failures < MaxFailures /\ failures' = failures + 1
  /\ \/ /\ pc[p] = "commitTx" /\ pc' = [pc EXCEPT ![p] = "rollbackTx"]
        /\ Send(p, "ROLLBACK_TX", 1)
     \/ /\ pc[p] # "commitTx" /\ pc' = [pc EXCEPT ![p] = "release"]
        /\ UNCHANGED <<attempt, handler>>
  /\ UNCHANGED <<tables, history, crashes>>

(* Mutant: gives back a debit that was never applied. *)
ReleaseReservationAndBalance(p) ==
  /\ Goes(p, "release", "failed")
  /\ account' = Move(account, From[p], Amount[p], Amount[p], -Amount[p])
  /\ UNCHANGED <<open, row, vote, recorded, history, attempt, handler, failures,
                 crashes>>

(* releaseReservation drops its error. *)
ReleaseReservation(p) ==
  /\ Goes(p, "release", "failed")
  /\ \/ account' = Move(account, From[p], 0, Amount[p], -Amount[p])
     \/ "release" \in Faults /\ UNCHANGED account
  /\ UNCHANGED <<open, row, vote, recorded, history, attempt, handler, failures,
                 crashes>>

(* DB tx #2. *)
ApplyDebit(p) ==
  /\ \/ /\ Goes(p, "debit", "record")
        /\ account' = Move(account, From[p], -Amount[p], 0, 0)
        /\ debits' = debits \cup {p}
     \/ "debit" \in Faults /\ Goes(p, "debit", "failed") /\ UNCHANGED <<account, debits>>
  /\ UNCHANGED <<open, row, vote, recorded, credits, attempt, handler, failures,
                 crashes>>

-----------------------------------------------------------------------------
(* The partner's handlers.                                                 *)

Handles(r, type, from, to) ==
  /\ r[2] = type /\ handler[r] = from /\ handler' = [handler EXCEPT ![r] = to]

OthersUnchanged == UNCHANGED <<open, recorded, debits, pc, attempt, failures, crashes>>

(* PrepareInterbankPayment. *)
LookupVote(r) == LET p == r[1] IN
  /\ \/ row[p] # "none" /\ Handles(r, "NEW_TX", "sent", vote[p])
     \/ row[p] = "none" /\ Handles(r, "NEW_TX", "sent", "validate")
  /\ UNCHANGED <<account, row, vote, credits>> /\ OthersUnchanged

Validate(r) == LET p == r[1] IN
  /\ Handles(r, "NEW_TX", "validate",
       IF To[p] \in open /\ p \in Acceptable THEN "insertYes" ELSE "insertNo")
  /\ UNCHANGED <<account, row, vote, credits>> /\ OthersUnchanged

(* INSERT ... ON CONFLICT DO NOTHING, then the handler answers its own vote. *)
InsertInterbankTx(r) == LET p == r[1] IN
  \E v \in {"yes", "no"} :
    /\ Handles(r, "NEW_TX", IF v = "yes" THEN "insertYes" ELSE "insertNo", v)
    /\ IF row[p] = "none"
       THEN row' = [row EXCEPT ![p] = "PENDING"] /\ vote' = [vote EXCEPT ![p] = v]
       ELSE UNCHANGED <<row, vote>>
    /\ UNCHANGED <<account, credits>> /\ OthersUnchanged

(* Mutant: a transaction that is COMMITTED already is an error. *)
LookupCommitOnce(r) == LET p == r[1] IN
  /\ \/ row[p] = "none" /\ Handles(r, "COMMIT_TX", "sent", "otc")
     \/ row[p] \in {"COMMITTED", "ROLLED_BACK"} /\ Handles(r, "COMMIT_TX", "sent", "error")
     \/ row[p] = "PENDING" /\ Handles(r, "COMMIT_TX", "sent", "claim")
  /\ UNCHANGED <<account, row, vote, credits>> /\ OthersUnchanged

(* CommitInterbankPayment.  The gateway answers a NotFound with success. *)
LookupCommit(r) == LET p == r[1] IN
  /\ \/ row[p] = "none" /\ Handles(r, "COMMIT_TX", "sent", "otc")
     \/ row[p] = "ROLLED_BACK" /\ Handles(r, "COMMIT_TX", "sent", "error")
     \/ row[p] \in {"PENDING", "COMMITTED"} /\ Handles(r, "COMMIT_TX", "sent", "claim")
  /\ UNCHANGED <<account, row, vote, credits>> /\ OthersUnchanged

(* Mutant: the claim does not test that the row is still PENDING. *)
ClaimUnconditionally(r) == LET p == r[1] IN
  /\ Handles(r, "COMMIT_TX", "claim", "credit")
  /\ row' = [row EXCEPT ![p] = "COMMITTED"]
  /\ UNCHANGED <<account, vote, credits>> /\ OthersUnchanged

Claim(r) == LET p == r[1] IN
  /\ \/ /\ row[p] = "PENDING" /\ Handles(r, "COMMIT_TX", "claim", "credit")
        /\ row' = [row EXCEPT ![p] = "COMMITTED"]
     \/ /\ row[p] # "PENDING" /\ Handles(r, "COMMIT_TX", "claim", "otc")
        /\ UNCHANGED row
  /\ UNCHANGED <<account, vote, credits>> /\ OthersUnchanged

CreditReceiver(r) == LET p == r[1] IN
  /\ Handles(r, "COMMIT_TX", "credit", "otc")
  /\ account' = Move(account, To[p], Amount[p], Amount[p], 0)
  /\ credits' = [credits EXCEPT ![p] = @ + 1]
  /\ UNCHANGED <<row, vote>> /\ OthersUnchanged

(* The gateway goes on to CommitOtcInterbank, which finds no such row. *)
CommitOtcToo(r) ==
  /\ Handles(r, "COMMIT_TX", "otc", "ok")
  /\ UNCHANGED <<account, row, vote, credits>> /\ OthersUnchanged

(* RollbackInterbankPayment; the gateway drops its error. *)
LookupRollback(r) == LET p == r[1] IN
  /\ Handles(r, "ROLLBACK_TX", "sent", IF row[p] = "PENDING" THEN "mark" ELSE "ok")
  /\ UNCHANGED <<account, row, vote, credits>> /\ OthersUnchanged

(* The UPDATE does not test the status again. *)
MarkRolledBack(r) == LET p == r[1] IN
  /\ Handles(r, "ROLLBACK_TX", "mark", "ok")
  /\ row' = [row EXCEPT ![p] = "ROLLED_BACK"]
  /\ UNCHANGED <<account, vote, credits>> /\ OthersUnchanged

(* Nobody waits for this attempt any more. *)
Abandoned(r) ==
  ~(pc[r[1]] \in Waiting /\ TypeOf(pc[r[1]]) = r[2] /\ attempt[r[1]] = r[3])

(* A request is lost on the way; a statement fails, or finds its context   *)
(* cancelled because the sender closed the connection.                     *)
HandlerFails(r) ==
  /\ \/ handler[r] = "sent" /\ Abandoned(r)
     \/ handler[r] \in Running /\ ("partner" \in Faults \/ (Cancels /\ Abandoned(r)))
  /\ handler' = [handler EXCEPT ![r] = "error"]
  /\ UNCHANGED <<account, row, vote, credits>> /\ OthersUnchanged

-----------------------------------------------------------------------------
(* Environment.                                                            *)

(* account-service: DeleteAccount asks nobody. *)
DeleteAccount(a) ==
  /\ a \in open \ BankAccounts
  /\ Cardinality(Accounts \ open) < MaxDeletes
  /\ open' = open \ {a}
  /\ UNCHANGED <<account, row, vote, recorded, history, pc, attempt, handler,
                 failures, crashes>>

Here(b, a) == Home[a] = b

(* The services of one bank are killed. *)
Crash(b) ==
  /\ crashes < MaxCrashes /\ crashes' = crashes + 1
  /\ pc' = [p \in Payments |->
       IF Here(b, From[p]) /\ pc[p] \notin {"idle"} \cup Ended THEN "lost" ELSE pc[p]]
  /\ handler' = [r \in Requests |->
       IF Here(b, To[r[1]]) /\ handler[r] \in Running THEN "error" ELSE handler[r]]
  /\ UNCHANGED <<tables, history, attempt, failures>>

PaymentStep(p) ==
  \/ LookupRecipient(p) \/ Transfer(p) \/ Refuse(p) \/ Record(p)
  \/ Reserve(p) \/ TakeVote(p) \/ TakeCommitted(p) \/ TakeRolledBack(p)
  \/ ReleaseReservation(p) \/ ApplyDebit(p)

HandlerStep(r) ==
  \/ LookupVote(r) \/ Validate(r) \/ InsertInterbankTx(r)
  \/ LookupCommit(r) \/ Claim(r) \/ CreditReceiver(r) \/ CommitOtcToo(r)
  \/ LookupRollback(r) \/ MarkRolledBack(r)

Next ==
  \/ \E p \in Payments : PaymentStep(p) \/ AttemptFails(p) \/ RequestFails(p)
  \/ \E r \in Requests : HandlerStep(r) \/ HandlerFails(r)
  \/ \E a \in Accounts : DeleteAccount(a)
  \/ \E b \in Banks : Crash(b)

Spec == Init /\ [][Next]_vars

(* Handlers are scheduled and requests that are not lost arrive.  Whether  *)
(* a client pays, and whether an attempt fails, is left open.              *)
Fairness ==
  /\ \A p \in Payments : WF_vars(PaymentStep(p) /\ pc[p] # "idle")
  /\ \A r \in Requests : WF_vars(HandlerStep(r))

FairSpec == Spec /\ Fairness

-----------------------------------------------------------------------------
(* Properties.                                                             *)

(* However often COMMIT_TX is sent, and however its handlers interleave    *)
(* with each other, with a rollback, crashes and cancellations, the        *)
(* receiver is credited at most once ("preventing double credit").         *)
CreditedOnce == \A p \in Payments : credits[p] <= 1

(* The sender is debited only for a transaction that the receiver's bank   *)
(* holds as COMMITTED, whatever was lost, repeated, cancelled or killed.   *)
DebitedIsCommitted == \A p \in debits : row[p] = "COMMITTED"

(* Concurrent payments never spend money an account does not have and      *)
(* never exceed its limits, whatever reservations are left behind.         *)
NeverOverdrawn ==
  \A a \in Accounts \ BankAccounts :
    /\ 0 <= account[a].available /\ account[a].available <= account[a].balance
    /\ 0 <= account[a].spent /\ account[a].spent <= Limit[a]

(* Why these two hold, as one inductive invariant.  A row is claimed by    *)
(* one handler, which alone may credit.  As long as no ROLLBACK_TX was     *)
(* sent, a COMMIT_TX handler past its claim has left the row COMMITTED,    *)
(* and a sender that debits has never sent one.                            *)
RollbackSent(p) == \E n \in Attempts : handler[<<p, "ROLLBACK_TX", n>>] # "unsent"

ClaimedOnce ==
  /\ \A p \in Payments : row[p] \in {"none", "PENDING"} => credits[p] = 0
  /\ \A r \in Requests :
       handler[r] = "credit" => row[r[1]] \notin {"none", "PENDING"} /\ credits[r[1]] = 0
  /\ \A r, s \in Requests :
       handler[r] = "credit" /\ handler[s] = "credit" /\ r[1] = s[1] => r = s

LabelsOfTypes ==
  \A r \in Requests :
    /\ r[2] = "NEW_TX" => handler[r] \notin {"claim", "credit", "otc", "ok", "mark"}
    /\ r[2] = "COMMIT_TX" => handler[r] \notin {"yes", "no", "mark"}

CommitsAreOfRows ==
  \A r \in Requests :
    \/ r[2] = "NEW_TX" /\ handler[r] = "yes"
    \/ r[2] = "COMMIT_TX" /\ handler[r] # "unsent"
    => row[r[1]] # "none"

NoRollbackYet ==
  \A p \in Payments : ~RollbackSent(p) =>
    /\ row[p] # "ROLLED_BACK"
    /\ \A n \in Attempts :
         handler[<<p, "COMMIT_TX", n>>] \in {"credit", "otc", "ok"} => row[p] = "COMMITTED"

DebtorNeverRollsBack ==
  \A p \in Payments :
    /\ pc[p] \in {"idle", "direct", "viaBank", "newTx", "commitTx", "debit"} =>
         ~RollbackSent(p) /\ p \notin debits
    /\ pc[p] \in {"rollbackTx", "release"} => p \notin debits
    /\ pc[p] = "commitTx" => row[p] # "none"
    /\ p \in debits => ~RollbackSent(p)
    /\ pc[p] = "debit" \/ p \in debits => row[p] = "COMMITTED"

TwoPhase ==
  /\ CreditedOnce /\ ClaimedOnce
  /\ LabelsOfTypes /\ CommitsAreOfRows /\ NoRollbackYet /\ DebtorNeverRollsBack

(* A payment that reserved money ends in both books or in neither: the     *)
(* sender debited and the receiver credited, or the reservation released   *)
(* and nothing credited.                                                   *)
EveryPaymentSettles ==
  \A p \in Outgoing :
    pc[p] = "newTx" ~>
      \/ pc[p] = "completed" /\ p \in debits /\ credits[p] = 1
      \/ pc[p] = "failed" /\ p \notin debits /\ credits[p] = 0 /\ row[p] # "COMMITTED"

(* interbank_outgoing.go, before the debit: "partner has already credited  *)
(* the recipient so this MUST complete".  Asked once the partner's         *)
(* handlers have all ended.                                                *)
DebitedIsCredited ==
  (\A r \in Requests : handler[r] \notin Running) => \A p \in debits : credits[p] = 1
=============================================================================
