---------------------------- MODULE MCGovernance ----------------------------
(***************************************************************************)
(* Values for model checking Governance: three people, two of them signers *)
(* at first, and deployments of one or two contracts under the multisig or *)
(* under a key.                                                            *)
(***************************************************************************)
EXTENDS Governance, TLC

CONSTANTS a, b, c, k, l, safe, acbu, other

MCAddresses == {a, b, c}
MCSigners == {a, b}
MCKeys == {k, l}
MCTokens == {acbu, other}

\* A rotation with a lower threshold, a raised threshold, a malformed one.
MCConfigs == {
    [signers |-> {b, c}, threshold |-> 1],
    [signers |-> {a, b, c}, threshold |-> 3],
    [signers |-> {b}, threshold |-> 2]}

\* Calls the target makes, and calls it refuses at once or by then.
MCCalls == {
    [target |-> "minting", tag |-> "pause"],
    [target |-> "minting", tag |-> "unpause"],
    [target |-> "minting", tag |-> "upgrade", version |-> 2],
    [target |-> "minting", tag |-> "upgrade", version |-> 3],
    [target |-> "burning", tag |-> "upgrade", version |-> 2],
    [target |-> "burning", tag |-> "upgrade", version |-> 3],
    [target |-> "tracker", tag |-> "update_acbu_token", token |-> other],
    [target |-> "oracle", tag |-> "upgrade", version |-> 2],
    [target |-> "oracle", tag |-> "set_rate_admin"]}

MCDeployments == {
    "minting" :> safe,
    "burning" :> safe,
    "tracker" :> safe,
    "oracle" :> safe,
    "minting" :> k,
    "burning" :> k,
    "oracle" :> k,
    "tracker" :> k}
=============================================================================
