--------------------------- MODULE OptionExercise ---------------------------
(***************************************************************************)
(* What exercising an option contract promises: money and shares change    *)
(* hands in one indivisible step together with the contract's status, or   *)
(* not at all, and nothing stays reserved.                                 *)
(***************************************************************************)
EXTENDS Integers

CONSTANTS Contracts, Users, Accounts, Seller, Buyer, SellerAccount,
          PayingAccount, Amount, Pay, Receive, InitBalance, InitShares

VARIABLES contract, balance, available, holding, reserved

avars == <<contract, balance, available, holding, reserved>>

AInit ==
  /\ contract = [c \in Contracts |-> "ACTIVE"]
  /\ balance = InitBalance /\ available = InitBalance
  /\ holding = InitShares /\ reserved = [u \in Users |-> 0]

Transfer(f, from, n, to, m) == [[f EXCEPT ![from] = @ - n] EXCEPT ![to] = @ + m]

Exercise(c) ==
  /\ contract[c] = "ACTIVE"
  /\ available[PayingAccount[c]] >= Pay[c] /\ holding[Seller[c]] >= Amount[c]
  /\ contract' = [contract EXCEPT ![c] = "EXERCISED"]
  /\ balance' = Transfer(balance, PayingAccount[c], Pay[c], SellerAccount[c], Receive[c])
  /\ available' = Transfer(available, PayingAccount[c], Pay[c], SellerAccount[c], Receive[c])
  /\ holding' = Transfer(holding, Seller[c], Amount[c], Buyer[c], Amount[c])
  /\ UNCHANGED reserved

Expire ==
  /\ \E S \in SUBSET {c \in Contracts : contract[c] = "ACTIVE"} :
       contract' = [c \in Contracts |-> IF c \in S THEN "EXPIRED" ELSE contract[c]]
  /\ UNCHANGED <<balance, available, holding, reserved>>

ANext == Expire \/ \E c \in Contracts : Exercise(c)

ASpec == AInit /\ [][ANext]_avars
=============================================================================
