----------------------------- MODULE MCDeposits -----------------------------
(* Model-checking instance of Deposits: two keys, deposit lists of up to   *)
(* two deposits, amounts that exercise quantization (3 -> 2) and the cap *)
(* (6 -> 4), so two deposits of 3 reach the maximum while one does not.   *)
EXTENDS Deposits

MCKeys == {"k1", "k2"}
MCAmounts == {3, 6}
====
