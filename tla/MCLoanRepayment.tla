--------------------------- MODULE MCLoanRepayment ---------------------------
(* Instances of LoanRepayment for TLC: one loan of 5 at a variable rate,   *)
(* repaid in 3 rows of at least 2.                                         *)
EXTENDS LoanRepayment, TLC

CONSTANTS loan1, t1, t2, a1, a2

Alike == Permutations({t1, t2}) \cup Permutations({a1, a2})
=============================================================================
