----------------------------- MODULE Governance -----------------------------
(***************************************************************************)
(* The multisig together with the contracts it administers and those that  *)
(* a key administers: execute makes the approved call on the target under  *)
(* the multisig's address, and is undone as a whole if the target refuses. *)
(***************************************************************************)
EXTENDS Multisig

CONSTANTS
    Keys, Safe, Tokens, InitToken, InitOperator, Deployments,
    StagedVersions, OracleVersion, AdminTimelock

VARIABLE contracts

INSTANCE ContractAdmin

governanceVars == <<vars, contracts>>

\* The calls that can be proposed; set_rate_admin carries a rate, which
\* Oracle!SetRateAdmin is about.
ContractCalls ==
    [target : ContractNames, tag : {"pause", "unpause", "set_rate_admin"}]
    \cup [target : ContractNames, tag : {"update_acbu_token"}, token : Tokens]
    \cup [target : ContractNames, tag : {"upgrade"}, version : Nat]

ASSUME GovernanceAssumption ==
    /\ Calls \subseteq ContractCalls
    /\ Safe \notin Keys
    /\ InitToken \in Tokens
    /\ InitOperator \in Keys
    /\ Deployments \subseteq UNION {[D -> Holders] : D \in SUBSET ContractNames}
    /\ \A deployment \in Deployments :
         "minting" \in DOMAIN deployment => deployment["minting"] # InitOperator
    /\ StagedVersions \subseteq Nat
    /\ OracleVersion \in Nat /\ OracleVersion >= 6
    /\ AdminTimelock \in Nat

GovernanceInit == Init /\ AdminInit

\* Bounds of the instance: where no contract is under the multisig, nobody
\* uses the multisig, and calls are proposed on contracts that are deployed.
InUse == \E c \in DOMAIN contracts : contracts[c].admin = Safe

\* Mutant: a failed call is caught, and the proposal stays executed.
ExecuteCatchingFailure(executor, id) ==
    /\ Execute(executor, id)
    /\ LET action == proposals[id].action
       IN  \/ action.kind = "call" /\ Invoke(action.call)
           \/ UNCHANGED contracts

\* execute, on this contract or on another one.
ExecuteProposal(executor, id) ==
    /\ Execute(executor, id)
    /\ LET action == proposals[id].action
       IN  IF action.kind = "call" THEN Invoke(action.call) ELSE UNCHANGED contracts

Deployed(action) == action.kind = "call" => action.call.target \in DOMAIN contracts

MultisigStep ==
    /\ InUse
    /\ ProposalStep
    /\ \A id \in DOMAIN proposals' : Deployed(proposals'[id].action)
    /\ UNCHANGED contracts

GovernanceNext ==
    \/ MultisigStep
    \/ \E signer \in Addresses, id \in DOMAIN proposals : ExecuteProposal(signer, id)
    \/ KeyStep /\ UNCHANGED vars
    \/ TimePasses /\ UNCHANGED contracts

GovernanceSpec == GovernanceInit /\ [][GovernanceNext]_governanceVars

-----------------------------------------------------------------------------
(* Safety *)

GovernanceTypeOK ==
    /\ TypeOK
    /\ \E D \in SUBSET ContractNames : contracts \in [D -> Settings]

UpgradesDone(c) ==
    {id \in DOMAIN proposals :
        /\ proposals[id].executed
        /\ proposals[id].action.kind = "call"
        /\ proposals[id].action.call.target = c
        /\ proposals[id].action.call.tag = "upgrade"}

\* execute and upgrade: an executed upgrade proposal has taken effect, no
\* two of them set the same version, and minting has skipped none: what a
\* call refuses cannot use up the approvals that were given for it.
UpgradesTakeEffect ==
    \A c \in DOMAIN contracts : contracts[c].admin = Safe =>
        LET bound(id) == proposals[id].action.call.version
        IN  /\ \A id, other \in UpgradesDone(c) : bound(id) = bound(other) => id = other
            /\ \A id \in UpgradesDone(c) : bound(id) \in 2 .. contracts[c].version
            /\ contracts[c].version # 1 =>
                 \E id \in UpgradesDone(c) : bound(id) = contracts[c].version
            /\ c = "minting" => \A v \in 2 .. contracts[c].version :
                                  \E id \in UpgradesDone(c) : bound(id) = v

(* Action properties *)

\* A contract as a call should leave it.
Outcome(settings, call) ==
    CASE call.tag = "pause"             -> [settings EXCEPT !.paused = TRUE]
      [] call.tag = "unpause"           -> [settings EXCEPT !.paused = FALSE]
      [] call.tag = "update_acbu_token" -> [settings EXCEPT !.token = call.token]
      [] call.tag = "set_rate_admin"    -> [settings EXCEPT !.held = @ \cup {"rates"}]
      [] call.tag = "upgrade"           -> [settings EXCEPT !.version = call.version]

\* C-043 and AC-010: proposals are kept and executed once, and neither the
\* multisig nor a contract under it changes except as one proposal said
\* that is executed in that step, with a threshold of the signers of that
\* moment behind it.  In particular the multisig never hands a contract on,
\* and never sets an operator, a nominee or a staged upgrade.
GovernedOnly ==
    [][/\ ScopeStep
       /\ \A c \in DOMAIN contracts :
            contracts[c].admin = Safe /\ contracts'[c] # contracts[c] =>
              \E id \in DOMAIN proposals :
                LET p == proposals[id]
                IN  /\ Executes(id)
                    /\ p.action.kind = "call" /\ p.action.call.target = c
                    /\ contracts'[c] = Outcome(contracts[c], p.action.call)
                    /\ Cardinality(p.approvals \cap config.signers) >= config.threshold
      ]_governanceVars

\* Neither the stored version of a contract nor anything staged for it is
\* one that migrate erases data from.
Settled(c) ==
    /\ Erased(contracts[c].version) = {}
    /\ \A upgrade \in contracts[c].staged : Erased(upgrade.version) = {}

\* Over staged, executed and cancelled upgrades, rotations and migrations:
\* no version goes back, except the oracle's, whose migrate may pass an
\* upgrade that is staged; and once past the versions that are migrated by
\* erasing, basket, rates and token addresses stay.
UpgradesKeepState ==
    [][\A c \in DOMAIN contracts :
         /\ c # "oracle" => contracts'[c].version >= contracts[c].version
         /\ Settled(c) => Settled(c)' /\ contracts[c].held \subseteq contracts'[c].held
      ]_governanceVars
=============================================================================
