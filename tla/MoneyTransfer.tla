---------------------------- MODULE MoneyTransfer ----------------------------
(***************************************************************************)
(* What a payment promises: the money moves from one account to the other  *)
(* in one indivisible step, together with the sender's spending, or not at *)
(* all.  Conversion goes through the banks' own accounts.                  *)
(***************************************************************************)
EXTENDS Integers

CONSTANTS Accounts, Payments, Kind, From, To, ViaFrom, ViaTo, Amount, Final,
          Acceptable, InitBalance, Limit

VARIABLES balance, available, spent, done

mvars == <<balance, available, spent, done>>

MInit ==
  /\ balance = InitBalance /\ available = InitBalance
  /\ spent = [a \in Accounts |-> 0] /\ done = {}

Converted(p) == Kind[p] # "interbank" /\ p \notin Acceptable

(* What account a gains by payment p. *)
Gain(p, a) ==
  (IF a = From[p] THEN -Amount[p] ELSE 0)
  + (IF Converted(p)
     THEN (IF a = ViaFrom[p] THEN Amount[p] ELSE 0)
          + (IF a = ViaTo[p] THEN -Final[p] ELSE 0)
          + (IF a = To[p] THEN Final[p] ELSE 0)
     ELSE IF a = To[p] THEN Amount[p] ELSE 0)

Pay(p) ==
  /\ p \notin done /\ done' = done \cup {p}
  /\ available[From[p]] >= Amount[p]
  /\ Kind[p] # "transfer" => spent[From[p]] + Amount[p] <= Limit[From[p]]
  /\ balance' = [a \in Accounts |-> balance[a] + Gain(p, a)]
  /\ available' = [a \in Accounts |-> available[a] + Gain(p, a)]
  /\ spent' = IF Kind[p] = "transfer" THEN spent
              ELSE [spent EXCEPT ![From[p]] = @ + Amount[p]]

MNext == \E p \in Payments : Pay(p)

MSpec == MInit /\ [][MNext]_mvars
=============================================================================
