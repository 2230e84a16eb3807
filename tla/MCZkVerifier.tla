---------------------------- MODULE MCZkVerifier ----------------------------
(***************************************************************************)
(* Values for model checking ZkVerifier: two wallets that share what they  *)
(* know of two credentials, and a policy that is tightened or moved to     *)
(* another country.                                                        *)
(***************************************************************************)
EXTENDS ZkVerifier, TLC

CONSTANTS w1, w2, c1, c2, n1, n2

MCWallets == {w1, w2}
MCCommitments == {c1, c2}
MCNullifiers == {n1, n2}
MCPolicies == {
    [min_tier |-> 1, allowed_country |-> "NG"],
    [min_tier |-> 2, allowed_country |-> "KE"]}

\* Wallets, commitments and nullifiers are interchangeable.
MCSymmetry == Permutations(MCWallets) \cup Permutations(MCCommitments)
              \cup Permutations(MCNullifiers)
=============================================================================
