---------------------------- MODULE MCAcbuSystem ----------------------------
(***************************************************************************)
(* Values for model checking AcbuSystem: two basket currencies, one whole  *)
(* counted as four units, and a handful of amounts around the bounds.      *)
(***************************************************************************)
EXTENDS AcbuSystem, TLC

MCCurrencies == <<"NGN", "KES">>
MCWeight == "NGN" :> 1 @@ "KES" :> 3

MCOneCurrency == <<"NGN">>
MCOneWeight == "NGN" :> 4

MCReports == {[amount |-> 8, valueUsd |-> 32], [amount |-> 2, valueUsd |-> 9]}

MCOneReport == {[amount |-> 8, valueUsd |-> 32]}

\* Two spellings of one fintech id.
MCFintechIds == {"FLW-1", "flw-1"}
MCLowercase == "FLW-1" :> "flw-1" @@ "flw-1" :> "flw-1"

MCPeerLists == {{}, {"minting"}, {"burning", "reserve"}, {"unreachable"}}
=============================================================================
