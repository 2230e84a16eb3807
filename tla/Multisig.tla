------------------------------ MODULE Multisig ------------------------------
(***************************************************************************)
(* The M-of-N multisig that administers the other contracts: a proposal    *)
(* binds one action, signers approve it, and execute performs exactly that *)
(* action.  The multisig's own signers, threshold and version change the   *)
(* same way, while other proposals are under way.                          *)
(***************************************************************************)
EXTENDS Integers, Sequences, FiniteSets

CONSTANTS
    Addresses,                \* who may ever be a signer
    InitSigners, InitThreshold,
    Configs,                  \* [signers, threshold] pairs somebody may propose
    Calls,                    \* actions on other contracts
    UpgradeVersions,          \* versions bound by propose(self, Upgrade(..))
    MaxSigners,               \* MAX_SIGNERS
    ProposalTtl,              \* PROPOSAL_TTL_SECONDS
    ProposeUpgradeAllowed,    \* the environment calls propose_upgrade
    MaxProposals, MaxNow      \* bounds of the instance

\* Mutant: the threshold is not checked against the signers.
ValidSigners(config) == Cardinality(config.signers) \in 1 .. MaxSigners

ValidConfig(config) ==
    /\ Cardinality(config.signers) \in 1 .. MaxSigners
    /\ config.threshold \in 1 .. Cardinality(config.signers)

ASSUME MultisigAssumption ==
    /\ IsFiniteSet(Addresses)
    /\ InitSigners \subseteq Addresses
    /\ Configs \subseteq [signers : SUBSET Addresses, threshold : Nat]
    /\ UpgradeVersions \subseteq Nat
    /\ MaxSigners \in Nat /\ ProposalTtl \in Nat
    /\ ProposeUpgradeAllowed \in BOOLEAN
    /\ MaxProposals \in Nat /\ MaxNow \in Nat
    /\ ValidConfig([signers |-> InitSigners, threshold |-> InitThreshold])

VARIABLES
    now,          \* ledger time
    config,       \* Config: the signers and the threshold
    version,      \* the stored contract version
    proposals     \* proposals by id; ids are handed out in sequence

vars == <<now, config, version, proposals>>

\* The typed actions: on this contract, and on any other.
Action ==
    [kind : {"update_config"}, config : Configs]
    \cup [kind : {"upgrade"}, version : Nat]
    \cup [kind : {"call"}, call : Calls]

Proposal ==
    [action : Action, approvals : (SUBSET Addresses) \ {{}}, executed : BOOLEAN, expiresAt : Nat]

Init ==
    /\ now = 1
    /\ config = [signers |-> InitSigners, threshold |-> InitThreshold]
    /\ version = 1
    /\ proposals = <<>>

-----------------------------------------------------------------------------
\* Mutant: the proposer has yet to approve.
CreateBareProposal(proposer, action) ==
    /\ Len(proposals) < MaxProposals
    /\ proposer \in config.signers
    /\ proposals' = Append(proposals,
            [action |-> action, approvals |-> {},
             executed |-> FALSE, expiresAt |-> now + ProposalTtl])
    /\ UNCHANGED <<now, config, version>>

\* create_proposal: the proposer's approval counts at once.
CreateProposal(proposer, action) ==
    /\ Len(proposals) < MaxProposals
    /\ proposer \in config.signers
    /\ proposals' = Append(proposals,
            [action |-> action, approvals |-> {proposer},
             executed |-> FALSE, expiresAt |-> now + ProposalTtl])
    /\ UNCHANGED <<now, config, version>>

\* A malformed signer rotation is refused when it is proposed.
ProposeUpdateConfig(proposer, new) ==
    /\ ValidConfig(new)
    /\ CreateProposal(proposer, [kind |-> "update_config", config |-> new])

\* propose_upgrade binds the successor of the version stored now.
ProposeUpgrade(proposer) ==
    /\ ProposeUpgradeAllowed
    /\ CreateProposal(proposer, [kind |-> "upgrade", version |-> version + 1])

\* propose takes the version of a self-upgrade as the caller gives it.
Propose(proposer, action) == CreateProposal(proposer, action)

Open(p) == ~p.executed /\ now <= p.expiresAt

Approve(approver, id) ==
    /\ approver \in config.signers
    /\ Open(proposals[id])
    /\ approver \notin proposals[id].approvals
    /\ proposals' = [proposals EXCEPT ![id].approvals = @ \cup {approver}]
    /\ UNCHANGED <<now, config, version>>

\* Mutant: approvals are counted, whoever gave them.
ApprovedByCount(p) == Cardinality(p.approvals) >= config.threshold

\* Every approval on record must be a signer's still, or execute fails.
Approved(p) ==
    /\ p.approvals \subseteq config.signers
    /\ Cardinality(p.approvals) >= config.threshold

MarkExecuted(id) == proposals' = [proposals EXCEPT ![id].executed = TRUE]

\* execute on this contract; for another one the call is made on the
\* multisig's behalf, and if it fails nothing at all has happened.
Execute(executor, id) ==
    LET action == proposals[id].action
    IN  /\ executor \in config.signers
        /\ Open(proposals[id])
        /\ Approved(proposals[id])
        /\ MarkExecuted(id)
        /\ action.kind = "update_config" => ValidConfig(action.config)
        /\ config' = IF action.kind = "update_config" THEN action.config ELSE config
        /\ version' = IF action.kind = "upgrade" THEN action.version ELSE version
        /\ UNCHANGED now

TimePasses ==
    /\ now < MaxNow
    /\ now' = now + 1
    /\ UNCHANGED <<config, version, proposals>>

ProposalStep ==
    \E signer \in Addresses :
        \/ \E new \in Configs : ProposeUpdateConfig(signer, new)
        \/ ProposeUpgrade(signer)
        \/ \E v \in UpgradeVersions : Propose(signer, [kind |-> "upgrade", version |-> v])
        \/ \E call \in Calls : Propose(signer, [kind |-> "call", call |-> call])
        \/ \E id \in DOMAIN proposals : Approve(signer, id)

Next ==
    \/ ProposalStep
    \/ \E signer \in Addresses, id \in DOMAIN proposals : Execute(signer, id)
    \/ TimePasses

Spec == Init /\ [][Next]_vars

-----------------------------------------------------------------------------
(* Safety *)

TypeOK ==
    /\ now \in Nat
    /\ config \in [signers : SUBSET Addresses, threshold : Nat]
    /\ version \in Nat
    /\ proposals \in Seq(Proposal)

\* Whatever is proposed, approved and executed in whatever order, the
\* signers can always reach their threshold, and never without an approval.
ConfigSound ==
    /\ config.threshold >= 1
    /\ config.threshold <= Cardinality(config.signers)
    /\ Cardinality(config.signers) <= MaxSigners

(* Action properties *)

Executes(id) == ~proposals[id].executed /\ proposals'[id].executed

\* An action takes effect only with the approval of a threshold of the
\* signers of that moment: neither approvals of removed signers nor a
\* threshold that has since been raised let an older proposal through.
ExecutionAuthorised ==
    [][\A id \in DOMAIN proposals : Executes(id) =>
        /\ Cardinality(proposals[id].approvals \cap config.signers) >= config.threshold
        /\ now <= proposals[id].expiresAt]_vars

\* A proposal keeps its action and its approvals, is executed once, and the
\* multisig itself changes only as one executed proposal said when it was
\* made.
ScopeStep ==
    /\ \A id \in DOMAIN proposals :
         /\ proposals'[id].action = proposals[id].action
         /\ proposals[id].approvals \subseteq proposals'[id].approvals
         /\ proposals[id].executed => proposals'[id] = proposals[id]
    /\ (config' # config \/ version' # version) =>
         \E id \in DOMAIN proposals :
             /\ Executes(id)
             /\ \/ proposals[id].action = [kind |-> "update_config", config |-> config']
                \/ proposals[id].action = [kind |-> "upgrade", version |-> version']
=============================================================================
