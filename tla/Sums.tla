-------------------------------- MODULE Sums --------------------------------
(***************************************************************************)
(* The sum of the values of a function over a finite set: the balance of a *)
(* bill, the visits of all tables.                                         *)
(***************************************************************************)
EXTENDS Integers, FiniteSetsExt

SumOver(f, S) == MapThenSumSet(LAMBDA x : f[x], S)
=============================================================================
