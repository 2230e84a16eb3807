-------------------------------- MODULE Sums --------------------------------
(* The sum the contracts' books and baskets are added up with. *)
EXTENDS Integers, FiniteSetsExt

\* The sum of f over the finite set S.
SumOver(f, S) == MapThenSumSet(LAMBDA x : f[x], S)
=============================================================================
