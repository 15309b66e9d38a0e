-------------------------------- MODULE Sums --------------------------------
(***************************************************************************)
(* The sum of a function over a set of keys: the totals that the code      *)
(* keeps or recomputes by iterating over a map (stakes, lamports, votes).  *)
(***************************************************************************)
EXTENDS Integers, FiniteSetsExt

SumOver(f, S) == MapThenSumSet(LAMBDA k : f[k], S)
=============================================================================
