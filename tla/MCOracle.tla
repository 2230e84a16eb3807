------------------------------ MODULE MCOracle ------------------------------
(***************************************************************************)
(* Values for model checking Oracle: one currency, lists of three entries  *)
(* over three validators, of which one may be named twice, and a quorum of *)
(* two; a second standing for an hour of the code, but one for the whole   *)
(* timelock of a validator change: no property depends on its length, and  *)
(* with one second changes and rounds interleave more.                     *)
(***************************************************************************)
EXTENDS Oracle, TLC

CONSTANTS v1, v2, v3

MCCurrencies == <<"NGN">>
MCWeight == "NGN" :> 4

MCPool == {v1, v2, v3}
MCSymmetry == Permutations(MCPool)

\* Three distinct validators, or two of whom one is named twice.
MCInitLists == {l \in [MCPool -> 0 .. 2] : SumOver(l, MCPool) = 3}

\* Agreeing feeds, feeds with one outlier, and too few of them.
MCFeeds == {<<8, 8, 8>>, <<16, 16, 16>>}
MCOddFeeds == {<<8, 8, 8>>, <<16, 16, 8>>, <<16, 16>>}
=============================================================================
