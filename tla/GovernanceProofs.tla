-------------------------- MODULE GovernanceProofs --------------------------
(***************************************************************************)
(* Proofs about Multisig and about Governance: for every set of addresses  *)
(* and of keys, every config anyone may propose, every deployment of       *)
(* contracts under keys or under the multisig, any versions and any number *)
(* of concurrent proposals.                                                *)
(***************************************************************************)
EXTENDS Governance, FiniteSetTheorems, TLAPS

-----------------------------------------------------------------------------
(* The multisig by itself: what holds of Multisig!Spec. *)

\* Sets of addresses are finite, so approvals and signers can be counted.
LEMMA AddressesCounted ==
    ASSUME NEW S, S \subseteq Addresses
    PROVE  IsFiniteSet(S) /\ Cardinality(S) \in Nat
  BY FS_Subset, FS_CardinalityType, MultisigAssumption

\* A valid config satisfies the invariant.
LEMMA ValidIsSound ==
    ASSUME NEW new, ValidConfig(new), MaxSigners \in Nat,
           Cardinality(new.signers) \in Nat
    PROVE  /\ new.threshold >= 1
           /\ new.threshold <= Cardinality(new.signers)
           /\ Cardinality(new.signers) <= MaxSigners
  BY DEF ValidConfig

-----------------------------------------------------------------------------
(* Type correctness. *)

\* The initial state is well typed and its config is sound.
LEMMA InitType == Init => TypeOK /\ ConfigSound
  <1> SUFFICES ASSUME Init PROVE TypeOK /\ ConfigSound
    OBVIOUS
  <1> DEFINE first == [signers |-> InitSigners, threshold |-> InitThreshold]
  <1>1. config = first /\ ValidConfig(first) /\ InitSigners \subseteq Addresses
    BY MultisigAssumption DEF Init
  <1>2. Cardinality(InitSigners) \in Nat
    BY <1>1, AddressesCounted
  <1>3. InitThreshold \in Nat
    BY <1>1, <1>2 DEF ValidConfig
  <1>4. ConfigSound
    BY <1>1, <1>2, ValidIsSound, MultisigAssumption DEF ConfigSound
  <1>5. TypeOK
    BY <1>1, <1>3 DEF Init, TypeOK
  <1> QED BY <1>4, <1>5

\* Proposing appends one well-typed proposal.
LEMMA CreateProposalType ==
    ASSUME TypeOK, NEW proposer \in Addresses, NEW action \in Action,
           CreateProposal(proposer, action)
    PROVE  TypeOK'
  <1> DEFINE new == [action |-> action, approvals |-> {proposer},
                     executed |-> FALSE, expiresAt |-> now + ProposalTtl]
  <1>1. new \in Proposal
    BY MultisigAssumption DEF TypeOK, Proposal
  <1>2. proposals' = Append(proposals, new)
    BY DEF CreateProposal
  <1> HIDE DEF new
  <1>3. proposals' \in Seq(Proposal)
    BY <1>1, <1>2 DEF TypeOK
  <1> QED BY <1>3 DEF CreateProposal, TypeOK

\* Approving adds one address to one proposal.
LEMMA ApproveType ==
    ASSUME TypeOK, NEW approver \in Addresses, NEW id \in DOMAIN proposals,
           Approve(approver, id)
    PROVE  TypeOK'
  <1>1. proposals[id] \in Proposal
    BY DEF TypeOK
  <1> DEFINE new == [proposals[id] EXCEPT !.approvals = @ \cup {approver}]
  <1>2. new \in Proposal
    BY <1>1 DEF Proposal
  <1>3. proposals' = [proposals EXCEPT ![id] = new]
    BY DEF Approve
  <1> HIDE DEF new
  <1>4. proposals' \in Seq(Proposal)
    BY <1>2, <1>3 DEF TypeOK
  <1> QED BY <1>4 DEF Approve, TypeOK

\* Executing marks one proposal and installs what its action carries.
LEMMA ExecuteType ==
    ASSUME TypeOK, NEW executor \in Addresses, NEW id \in DOMAIN proposals,
           Execute(executor, id)
    PROVE  TypeOK'
  <1>1. proposals[id] \in Proposal
    BY DEF TypeOK
  <1> DEFINE new == [proposals[id] EXCEPT !.executed = TRUE]
             action == proposals[id].action
  <1>2. new \in Proposal /\ action \in Action
    BY <1>1 DEF Proposal
  <1>3. proposals' = [proposals EXCEPT ![id] = new]
    BY DEF Execute, MarkExecuted
  <1>4. action.kind = "update_config" => action.config \in Configs
    BY <1>2 DEF Action
  <1>5. action.kind = "upgrade" => action.version \in Nat
    BY <1>2 DEF Action
  <1>6. /\ config' = IF action.kind = "update_config" THEN action.config ELSE config
        /\ version' = IF action.kind = "upgrade" THEN action.version ELSE version
        /\ now' = now
    BY DEF Execute
  <1> HIDE DEF new, action
  <1>7. proposals' \in Seq(Proposal)
    BY <1>2, <1>3 DEF TypeOK
  <1>8. config' \in [signers : SUBSET Addresses, threshold : Nat]
    <2>1. Configs \subseteq [signers : SUBSET Addresses, threshold : Nat]
      BY MultisigAssumption
    <2>2. CASE action.kind = "update_config"
      BY <1>4, <1>6, <2>1, <2>2
    <2>3. CASE action.kind # "update_config"
      BY <1>6, <2>3 DEF TypeOK
    <2> QED BY <2>2, <2>3
  <1>9. version' \in Nat
    BY <1>5, <1>6 DEF TypeOK
  <1> QED BY <1>6, <1>7, <1>8, <1>9 DEF TypeOK

\* Every step is a proposal, an approval, an execution or a tick.
LEMMA StepCases ==
    ASSUME TypeOK, Next
    PROVE  \/ \E proposer \in Addresses, action \in Action : CreateProposal(proposer, action)
           \/ \E signer \in Addresses, id \in DOMAIN proposals : Approve(signer, id)
           \/ \E signer \in Addresses, id \in DOMAIN proposals : Execute(signer, id)
           \/ TimePasses
  <1>1. ASSUME NEW signer \in Addresses, NEW new \in Configs,
               ProposeUpdateConfig(signer, new)
        PROVE  \E action \in Action : CreateProposal(signer, action)
    <2>1. [kind |-> "update_config", config |-> new] \in Action
      BY DEF Action
    <2> QED BY <1>1, <2>1 DEF ProposeUpdateConfig
  <1>2. ASSUME NEW signer \in Addresses, NEW act \in Action, Propose(signer, act)
        PROVE  \E action \in Action : CreateProposal(signer, action)
    BY <1>2 DEF Propose
  <1>3. \A v \in UpgradeVersions : [kind |-> "upgrade", version |-> v] \in Action
    BY MultisigAssumption DEF Action
  <1>4. \A call \in Calls : [kind |-> "call", call |-> call] \in Action
    BY DEF Action
  <1>5. ASSUME NEW signer \in Addresses, ProposeUpgrade(signer)
        PROVE  \E action \in Action : CreateProposal(signer, action)
    <2>1. [kind |-> "upgrade", version |-> version + 1] \in Action
      BY DEF Action, TypeOK
    <2> QED BY <1>5, <2>1 DEF ProposeUpgrade
  <1> QED BY <1>1, <1>2, <1>3, <1>4, <1>5 DEF Next, ProposalStep

\* A step leads from a well-typed state to a well-typed one.
LEMMA StepType ==
    ASSUME TypeOK, [Next]_vars
    PROVE  TypeOK'
  <1>1. CASE TimePasses
    BY <1>1 DEF TimePasses, TypeOK
  <1>2. CASE UNCHANGED vars
    BY <1>2 DEF vars, TypeOK
  <1>3. CASE Next
    BY <1>1, <1>3, StepCases, CreateProposalType, ApproveType, ExecuteType
  <1> QED BY <1>2, <1>3

\* Every state the multisig reaches is well typed.
THEOREM TypeCorrect == Spec => []TypeOK
  <1>1. TypeOK /\ [Next]_vars => TypeOK'
    BY StepType
  <1> QED BY <1>1, InitType, PTL DEF Spec

-----------------------------------------------------------------------------
(* Safety. *)

\* Only an execution changes the config, and execute validates it again.
THEOREM ConfigStaysSound == Spec => []ConfigSound
  <1>1. TypeOK /\ ConfigSound /\ [Next]_vars => ConfigSound'
    <2> SUFFICES ASSUME TypeOK, ConfigSound, [Next]_vars PROVE ConfigSound'
      OBVIOUS
    <2>1. CASE config' = config
      BY <2>1 DEF ConfigSound
    <2>2. CASE config' # config
      <3>1. PICK signer \in Addresses, id \in DOMAIN proposals : Execute(signer, id)
        BY <2>2, StepCases DEF CreateProposal, Approve, TimePasses, vars
      <3>2. config' = proposals[id].action.config /\ ValidConfig(config')
        BY <2>2, <3>1 DEF Execute
      <3>3. TypeOK'
        BY <3>1, ExecuteType
      <3>4. Cardinality(config'.signers) \in Nat
        BY <3>3, AddressesCounted DEF TypeOK
      <3> QED BY <3>2, <3>4, ValidIsSound, MultisigAssumption DEF ConfigSound
    <2> QED BY <2>1, <2>2
  <1> QED BY <1>1, InitType, TypeCorrect, PTL DEF Spec

-----------------------------------------------------------------------------
(* Action properties. *)

\* A proposal that becomes executed was executed by this very step.
LEMMA WhoExecutes ==
    ASSUME TypeOK, [Next]_vars, NEW id \in DOMAIN proposals, Executes(id)
    PROVE  \E signer \in Addresses : Execute(signer, id)
  <1>1. proposals' # proposals /\ ~proposals[id].executed /\ proposals'[id].executed
    BY DEF Executes
  <1>2. ASSUME NEW proposer, NEW action, CreateProposal(proposer, action)
        PROVE  FALSE
    <2>1. proposals'[id] = proposals[id]
      BY <1>2 DEF CreateProposal, TypeOK
    <2> QED BY <1>1, <2>1
  <1>3. ASSUME NEW signer, NEW other \in DOMAIN proposals, Approve(signer, other)
        PROVE  FALSE
    <2>1. proposals'[id].executed = proposals[id].executed
      BY <1>3 DEF Approve, TypeOK, Proposal
    <2> QED BY <1>1, <2>1
  <1>4. ASSUME NEW signer, NEW other \in DOMAIN proposals, Execute(signer, other)
        PROVE  other = id
    BY <1>1, <1>4 DEF Execute, MarkExecuted, TypeOK
  <1> QED BY <1>1, <1>2, <1>3, <1>4, StepCases DEF TimePasses, vars

\* An action takes effect only with a threshold of the current signers.
THEOREM ExecutionsAreAuthorised == Spec => ExecutionAuthorised
  <1>1. ASSUME TypeOK, [Next]_vars, NEW id \in DOMAIN proposals, Executes(id)
        PROVE  /\ Cardinality(proposals[id].approvals \cap config.signers) >= config.threshold
               /\ now <= proposals[id].expiresAt
    <2>1. PICK signer \in Addresses : Execute(signer, id)
      BY <1>1, WhoExecutes
    <2>2. Approved(proposals[id]) /\ Open(proposals[id])
      BY <2>1 DEF Execute
    <2>3. proposals[id].approvals \cap config.signers = proposals[id].approvals
      BY <2>2 DEF Approved
    <2> QED BY <2>2, <2>3 DEF Approved, Open
  <1>2. TypeOK /\ [Next]_vars =>
          [\A id \in DOMAIN proposals : Executes(id) =>
            /\ Cardinality(proposals[id].approvals \cap config.signers) >= config.threshold
            /\ now <= proposals[id].expiresAt]_vars
    BY <1>1
  <1> QED BY <1>2, TypeCorrect, PTL DEF Spec, ExecutionAuthorised

\* What a step does to a proposal that is there: it keeps its action and its
\* approvals, and nothing more happens to it once it is executed.
LEMMA ProposalsKept ==
    ASSUME TypeOK, [Next]_vars, NEW id \in DOMAIN proposals
    PROVE  /\ id \in DOMAIN proposals'
           /\ proposals'[id].action = proposals[id].action
           /\ proposals[id].approvals \subseteq proposals'[id].approvals
           /\ proposals[id].executed => proposals'[id] = proposals[id]
  <1>0. proposals[id] \in Proposal /\ proposals \in Seq(Proposal)
    BY DEF TypeOK
  <1>1. ASSUME NEW proposer, NEW action, CreateProposal(proposer, action)
        PROVE  id \in DOMAIN proposals' /\ proposals'[id] = proposals[id]
    BY <1>0, <1>1 DEF CreateProposal
  <1>2. ASSUME NEW signer, NEW other \in DOMAIN proposals, Approve(signer, other)
        PROVE  /\ id \in DOMAIN proposals'
               /\ proposals'[id].action = proposals[id].action
               /\ proposals[id].approvals \subseteq proposals'[id].approvals
               /\ proposals[id].executed => proposals'[id] = proposals[id]
    <2> DEFINE new == [proposals[other] EXCEPT !.approvals = @ \cup {signer}]
    <2>1. proposals' = [proposals EXCEPT ![other] = new] /\ ~proposals[other].executed
      BY <1>2 DEF Approve, Open
    <2>2. /\ new.action = proposals[other].action
          /\ proposals[other].approvals \subseteq new.approvals
      BY <1>0 DEF TypeOK, Proposal
    <2> HIDE DEF new
    <2> QED BY <1>0, <2>1, <2>2
  <1>3. ASSUME NEW signer, NEW other \in DOMAIN proposals, Execute(signer, other)
        PROVE  /\ id \in DOMAIN proposals'
               /\ proposals'[id].action = proposals[id].action
               /\ proposals[id].approvals \subseteq proposals'[id].approvals
               /\ proposals[id].executed => proposals'[id] = proposals[id]
    <2> DEFINE new == [proposals[other] EXCEPT !.executed = TRUE]
    <2>1. proposals' = [proposals EXCEPT ![other] = new] /\ ~proposals[other].executed
      BY <1>3 DEF Execute, MarkExecuted, Open
    <2>2. /\ new.action = proposals[other].action
          /\ new.approvals = proposals[other].approvals
      BY <1>0 DEF TypeOK, Proposal
    <2> HIDE DEF new
    <2> QED BY <1>0, <2>1, <2>2
  <1>4. CASE TimePasses \/ UNCHANGED vars
    BY <1>4 DEF TimePasses, vars
  <1> QED BY <1>1, <1>2, <1>3, <1>4, StepCases

\* Proposals are kept, and only an executed one changes the multisig.
LEMMA StepIsScoped ==
    ASSUME TypeOK, [Next]_vars
    PROVE  ScopeStep
  <1>1. ASSUME config' # config \/ version' # version
        PROVE  \E id \in DOMAIN proposals :
                 /\ Executes(id)
                 /\ \/ proposals[id].action = [kind |-> "update_config", config |-> config']
                    \/ proposals[id].action = [kind |-> "upgrade", version |-> version']
    <2>1. PICK signer \in Addresses, id \in DOMAIN proposals : Execute(signer, id)
      BY <1>1, StepCases DEF CreateProposal, Approve, TimePasses, vars
    <2>0. proposals[id] \in Proposal
      BY DEF TypeOK
    <2> DEFINE action == proposals[id].action
    <2>2. action \in Action
      BY <2>0 DEF Proposal
    <2>3. Executes(id)
      BY <2>0, <2>1 DEF Execute, MarkExecuted, Open, Executes, TypeOK, Proposal
    <2>4. /\ config' = IF action.kind = "update_config" THEN action.config ELSE config
          /\ version' = IF action.kind = "upgrade" THEN action.version ELSE version
      BY <2>1 DEF Execute
    <2>5. /\ action.kind = "update_config" =>
               action = [kind |-> "update_config", config |-> action.config]
          /\ action.kind = "upgrade" =>
               action = [kind |-> "upgrade", version |-> action.version]
      BY <2>2 DEF Action
    <2> HIDE DEF action
    <2>6. \/ action = [kind |-> "update_config", config |-> config']
          \/ action = [kind |-> "upgrade", version |-> version']
      BY <1>1, <2>4, <2>5
    <2> QED BY <2>3, <2>6 DEF action
  <1> QED BY <1>1, ProposalsKept DEF ScopeStep

-----------------------------------------------------------------------------
(* The multisig inside Governance is the multisig. *)

\* Every step of Governance is one of the multisig, or leaves it alone.
LEMMA StepOfMultisig ==
    ASSUME [GovernanceNext]_governanceVars
    PROVE  [Next]_vars
  <1>1. CASE MultisigStep
    BY <1>1 DEF MultisigStep, Next
  <1>2. CASE \E signer \in Addresses, id \in DOMAIN proposals : ExecuteProposal(signer, id)
    BY <1>2 DEF ExecuteProposal, Next
  <1>3. CASE KeyStep /\ UNCHANGED vars
    BY <1>3
  <1>4. CASE TimePasses /\ UNCHANGED contracts
    BY <1>4 DEF Next
  <1>5. CASE UNCHANGED governanceVars
    BY <1>5 DEF governanceVars
  <1> QED BY <1>1, <1>2, <1>3, <1>4, <1>5 DEF GovernanceNext

\* So whatever is proved of the multisig holds of it in Governance.
LEMMA IsMultisig == GovernanceSpec => Spec
  <1>1. GovernanceInit => Init
    BY DEF GovernanceInit
  <1>2. [GovernanceNext]_governanceVars => [Next]_vars
    BY StepOfMultisig
  <1> QED BY <1>1, <1>2, PTL DEF GovernanceSpec, Spec

\* The threshold stays between one and the number of signers, whatever the
\* calls do that the multisig makes.
THEOREM GovernanceConfigSound == GovernanceSpec => []ConfigSound
  BY IsMultisig, ConfigStaysSound, PTL

\* What executes has a threshold of current signers behind it.
THEOREM GovernanceExecutionsAuthorised == GovernanceSpec => ExecutionAuthorised
  BY IsMultisig, ExecutionsAreAuthorised, PTL

-----------------------------------------------------------------------------
(* What holds of the settings of a contract, and what a call keeps of them. *)

\* The multisig never nominates; minting and burning stage no upgrade; what
\* the others stage is ahead of what they have, except in the oracle.
Sound(c, s) ==
    /\ s.admin = Safe => s.nominee = {}
    /\ s.version >= 1
    /\ c \in {"minting", "burning"} => s.staged = {}
    /\ \A upgrade \in s.staged :
         /\ upgrade.version >= 1
         /\ c # "oracle" => upgrade.version > s.version

\* Settled, of the settings themselves.
Past(s) == s.version >= 6 /\ \A upgrade \in s.staged : upgrade.version >= 6

Kept(c, old, after) ==
    /\ after \in Settings
    /\ Sound(c, after)
    /\ after.admin = Safe => old.admin = Safe
    /\ c # "oracle" => after.version >= old.version
    /\ Past(old) => Past(after) /\ old.held \subseteq after.held

\* Settled says just that.
LEMMA SettledIsPast ==
    ASSUME NEW c \in DOMAIN contracts, contracts[c] \in Settings
    PROVE  Settled(c) <=> Past(contracts[c])
  <1>1. \A v \in Nat : Erased(v) = {} <=> v >= 6
    BY DEF Erased, OracleData
  <1>2. /\ contracts[c].version \in Nat
        /\ \A upgrade \in contracts[c].staged : upgrade.version \in Nat
    BY DEF Settings
  <1> QED BY <1>1, <1>2 DEF Settled, Past

\* A call that leaves versions and staged upgrades alone, and touches the
\* nominee or the admin only where a key is admin.
LEMMA KeptBySetting ==
    ASSUME NEW c, NEW old \in Settings, NEW after \in Settings, Sound(c, old),
           after.admin = old.admin,
           after.nominee = old.nominee \/ old.admin # Safe,
           after.version = old.version, after.staged = old.staged,
           old.held \subseteq after.held
    PROVE  Kept(c, old, after)
  BY DEF Kept, Sound, Past, Settings

-----------------------------------------------------------------------------
(* The calls a key makes. *)

\* A key is not the multisig.
LEMMA KeyIsNotSafe == \A key \in Keys : key \in Holders /\ key # Safe
  BY GovernanceAssumption DEF Holders

\* The calls that set one thing.
LEMMA KeySettings ==
    ASSUME NEW c \in DOMAIN contracts, contracts[c] \in Settings,
           Sound(c, contracts[c]), NEW key \in Keys, now \in Nat,
           \/ Pause(key, c)
           \/ Unpause(key, c)
           \/ \E token \in Tokens : UpdateAcbuToken(key, c, token)
           \/ \E operator \in Keys : SetOperator(key, c, operator)
           \/ SetRateAdmin(key, c)
           \/ SetBasketConfig(key, c)
           \/ SetSTokenAddress(key, c)
           \/ \E newAdmin \in Holders : TransferAdmin(key, c, newAdmin)
           \/ CancelAdminTransfer(key, c)
    PROVE  contracts[c].admin # Safe /\ \E after : Store(c, after) /\ Kept(c, contracts[c], after)
  <1> DEFINE old == contracts[c]
  <1>0. old \in Settings /\ old.admin = key /\ key # Safe
    BY KeyIsNotSafe DEF Pause, Unpause, UpdateAcbuToken, SetOperator, SetRateAdmin,
       SetBasketConfig, SetSTokenAddress, TransferAdmin, CancelAdminTransfer, CheckAdmin
  <1>1. ASSUME NEW value \in BOOLEAN, Store(c, [old EXCEPT !.paused = value])
        PROVE  \E after : Store(c, after) /\ Kept(c, old, after)
    <2> DEFINE after == [old EXCEPT !.paused = value]
    <2>1. /\ after \in Settings /\ after.admin = old.admin /\ after.nominee = old.nominee
          /\ after.version = old.version /\ after.staged = old.staged /\ after.held = old.held
      BY <1>0 DEF Settings
    <2> HIDE DEF after
    <2> QED BY <1>0, <1>1, <2>1, KeptBySetting DEF after
  <1>2. ASSUME NEW token \in Tokens, Store(c, [old EXCEPT !.token = token])
        PROVE  \E after : Store(c, after) /\ Kept(c, old, after)
    <2> DEFINE after == [old EXCEPT !.token = token]
    <2>1. /\ after \in Settings /\ after.admin = old.admin /\ after.nominee = old.nominee
          /\ after.version = old.version /\ after.staged = old.staged /\ after.held = old.held
      BY <1>0 DEF Settings
    <2> HIDE DEF after
    <2> QED BY <1>0, <1>2, <2>1, KeptBySetting DEF after
  <1>3. ASSUME NEW operator \in Keys, Store(c, [old EXCEPT !.operator = operator])
        PROVE  \E after : Store(c, after) /\ Kept(c, old, after)
    <2> DEFINE after == [old EXCEPT !.operator = operator]
    <2>1. /\ after \in Settings /\ after.admin = old.admin /\ after.nominee = old.nominee
          /\ after.version = old.version /\ after.staged = old.staged /\ after.held = old.held
      BY <1>0 DEF Settings
    <2> HIDE DEF after
    <2> QED BY <1>0, <1>3, <2>1, KeptBySetting DEF after
  <1>4. ASSUME NEW more \in SUBSET OracleData, Store(c, [old EXCEPT !.held = @ \cup more])
        PROVE  \E after : Store(c, after) /\ Kept(c, old, after)
    <2> DEFINE after == [old EXCEPT !.held = @ \cup more]
    <2>1. /\ after \in Settings /\ after.admin = old.admin /\ after.nominee = old.nominee
          /\ after.version = old.version /\ after.staged = old.staged /\ old.held \subseteq after.held
      BY <1>0 DEF Settings
    <2> HIDE DEF after
    <2> QED BY <1>0, <1>4, <2>1, KeptBySetting DEF after
  <1>5. ASSUME NEW nominee \in SUBSET [to : Holders, eligibleAt : Nat],
               Store(c, [old EXCEPT !.nominee = nominee])
        PROVE  \E after : Store(c, after) /\ Kept(c, old, after)
    <2> DEFINE after == [old EXCEPT !.nominee = nominee]
    <2>1. /\ after \in Settings /\ after.admin = old.admin
          /\ after.version = old.version /\ after.staged = old.staged /\ after.held = old.held
      BY <1>0 DEF Settings
    <2> HIDE DEF after
    <2> QED BY <1>0, <1>5, <2>1, KeptBySetting DEF after
  <1>6. {"rates"} \in SUBSET OracleData /\ {"basket"} \in SUBSET OracleData
        /\ {"s_tokens"} \in SUBSET OracleData
    BY DEF OracleData
  <1>7. \A newAdmin \in Holders :
          {[to |-> newAdmin, eligibleAt |-> now + AdminTimelock]}
            \in SUBSET [to : Holders, eligibleAt : Nat]
    BY GovernanceAssumption
  <1>8. CASE Pause(key, c) \/ Unpause(key, c)
    BY <1>0, <1>1, <1>8 DEF Pause, Unpause
  <1>9. CASE \E token \in Tokens : UpdateAcbuToken(key, c, token)
    BY <1>0, <1>2, <1>9 DEF UpdateAcbuToken
  <1>10. CASE \E operator \in Keys : SetOperator(key, c, operator)
    BY <1>0, <1>3, <1>10 DEF SetOperator
  <1>11. CASE SetRateAdmin(key, c) \/ SetBasketConfig(key, c) \/ SetSTokenAddress(key, c)
    BY <1>0, <1>4, <1>6, <1>11 DEF SetRateAdmin, SetBasketConfig, SetSTokenAddress
  <1>12. CASE \E newAdmin \in Holders : TransferAdmin(key, c, newAdmin)
    BY <1>0, <1>5, <1>7, <1>12 DEF TransferAdmin
  <1>13. CASE CancelAdminTransfer(key, c)
    BY <1>0, <1>5, <1>13 DEF CancelAdminTransfer
  <1> QED BY <1>8, <1>9, <1>10, <1>11, <1>12, <1>13

\* A key accepts a nomination: the contract is not the multisig's before,
\* for it would have no nominee, nor after.
LEMMA AcceptAdminKeeps ==
    ASSUME NEW c \in DOMAIN contracts, contracts[c] \in Settings,
           Sound(c, contracts[c]), NEW key \in Keys, AcceptAdmin(key, c)
    PROVE  contracts[c].admin # Safe /\ \E after : Store(c, after) /\ Kept(c, contracts[c], after)
  <1>1. PICK nomination \in contracts[c].nominee :
            /\ key = nomination.to
            /\ Store(c, [contracts[c] EXCEPT !.admin = nomination.to, !.nominee = {}])
    BY DEF AcceptAdmin
  <1> DEFINE old == contracts[c]
             after == [old EXCEPT !.admin = nomination.to, !.nominee = {}]
  <1>2. old.admin # Safe
    BY <1>1 DEF Sound
  <1>3. nomination.to \in Holders /\ nomination.to # Safe
    BY <1>1, KeyIsNotSafe
  <1>4. /\ after \in Settings /\ after.admin = nomination.to /\ after.nominee = {}
        /\ after.version = old.version /\ after.staged = old.staged /\ after.held = old.held
    BY <1>3 DEF Settings
  <1>5. Store(c, after)
    BY <1>1
  <1> HIDE DEF after
  <1>6. Kept(c, old, after)
    BY <1>2, <1>3, <1>4 DEF Kept, Sound, Past, Settings
  <1> QED BY <1>2, <1>5, <1>6

\* What an upgrade in one step leaves.
LEMMA UpgradeKeeps ==
    ASSUME NEW c \in DOMAIN contracts, contracts[c] \in Settings,
           Sound(c, contracts[c]), NEW caller \in Holders, NEW v \in Nat,
           Upgrade(caller, c, v)
    PROVE  /\ contracts[c].admin = caller
           /\ \E after : Store(c, after) /\ Kept(c, contracts[c], after)
  <1> DEFINE old == contracts[c]
             after == [old EXCEPT !.version = v]
  <1>1. /\ c \in {"minting", "burning"} /\ old.admin = caller /\ v > old.version
        /\ Store(c, after)
    BY DEF Upgrade, CheckAdmin
  <1>2. /\ after \in Settings /\ after.admin = old.admin /\ after.nominee = old.nominee
        /\ after.version = v /\ after.staged = old.staged /\ after.held = old.held
    BY DEF Settings
  <1> HIDE DEF after
  <1>3. Kept(c, old, after)
    BY <1>1, <1>2 DEF Kept, Sound, Past, Settings
  <1> QED BY <1>1, <1>3

\* What is staged is ahead of what is stored.
LEMMA StageUpgradeKeeps ==
    ASSUME NEW c \in DOMAIN contracts, contracts[c] \in Settings,
           Sound(c, contracts[c]), NEW key \in Keys, NEW v \in Nat, now \in Nat,
           StageUpgrade(key, c, v)
    PROVE  contracts[c].admin # Safe /\ \E after : Store(c, after) /\ Kept(c, contracts[c], after)
  <1> DEFINE old == contracts[c]
             staged == {[version |-> v, eligibleAt |-> now + AdminTimelock]}
             after == [old EXCEPT !.staged = staged]
  <1>1. /\ c \notin {"minting", "burning"} /\ old.admin = key /\ v > old.version
        /\ Store(c, after)
    BY DEF StageUpgrade, CheckAdmin
  <1>2. staged \in SUBSET [version : Nat, eligibleAt : Nat]
    BY GovernanceAssumption
  <1>3. \A upgrade \in staged : upgrade.version = v
    OBVIOUS
  <1> HIDE DEF staged
  <1>4. /\ after \in Settings /\ after.admin = old.admin /\ after.nominee = old.nominee
        /\ after.version = old.version /\ after.staged = staged /\ after.held = old.held
    BY <1>2 DEF Settings
  <1> HIDE DEF after
  <1>5. Kept(c, old, after)
    BY <1>1, <1>3, <1>4 DEF Kept, Sound, Past, Settings
  <1> QED BY <1>1, <1>5, KeyIsNotSafe

\* An upgrade that takes effect was ahead of what is stored since it was
\* staged, except in the oracle, where it is past the erasing versions if
\* the oracle is.
LEMMA ExecuteUpgradeKeeps ==
    ASSUME NEW c \in DOMAIN contracts, contracts[c] \in Settings,
           Sound(c, contracts[c]), NEW key \in Keys, ExecuteUpgrade(key, c)
    PROVE  contracts[c].admin # Safe /\ \E after : Store(c, after) /\ Kept(c, contracts[c], after)
  <1>1. PICK upgrade \in contracts[c].staged :
            Store(c, [contracts[c] EXCEPT !.version = upgrade.version, !.staged = {}])
    BY DEF ExecuteUpgrade
  <1> DEFINE old == contracts[c]
             after == [old EXCEPT !.version = upgrade.version, !.staged = {}]
  <1>2. old.admin = key
    BY DEF ExecuteUpgrade, CheckAdmin
  <1>3. upgrade.version \in Nat
    BY DEF Settings
  <1>4. /\ after \in Settings /\ after.admin = old.admin /\ after.nominee = old.nominee
        /\ after.version = upgrade.version /\ after.staged = {} /\ after.held = old.held
    BY <1>3 DEF Settings
  <1>5. Store(c, after)
    BY <1>1
  <1> HIDE DEF after
  <1>6. Kept(c, old, after)
    BY <1>2, <1>3, <1>4, KeyIsNotSafe DEF Kept, Sound, Past, Settings
  <1> QED BY <1>2, <1>5, <1>6, KeyIsNotSafe

\* Cancelling leaves nothing staged.
LEMMA CancelUpgradeKeeps ==
    ASSUME NEW c \in DOMAIN contracts, contracts[c] \in Settings,
           Sound(c, contracts[c]), NEW key \in Keys, CancelUpgrade(key, c)
    PROVE  contracts[c].admin # Safe /\ \E after : Store(c, after) /\ Kept(c, contracts[c], after)
  <1> DEFINE old == contracts[c]
             after == [old EXCEPT !.staged = {}]
  <1>1. old.admin = key /\ Store(c, after)
    BY DEF CancelUpgrade, CheckAdmin
  <1>2. /\ after \in Settings /\ after.admin = old.admin /\ after.nominee = old.nominee
        /\ after.version = old.version /\ after.staged = {} /\ after.held = old.held
    BY DEF Settings
  <1> HIDE DEF after
  <1>3. Kept(c, old, after)
    BY <1>1, <1>2 DEF Kept, Sound, Past, Settings
  <1> QED BY <1>1, <1>3, KeyIsNotSafe

\* migrate leaves a version past the erasing ones, and from one erases
\* nothing.
LEMMA MigrateKeeps ==
    ASSUME NEW c \in DOMAIN contracts, contracts[c] \in Settings,
           Sound(c, contracts[c]), NEW key \in Keys, Migrate(key, c)
    PROVE  contracts[c].admin # Safe /\ \E after : Store(c, after) /\ Kept(c, contracts[c], after)
  <1> DEFINE old == contracts[c]
             after == [old EXCEPT !.version = OracleVersion,
                                !.held = @ \ Erased(old.version)]
  <1>1. c = "oracle" /\ old.admin = key /\ Store(c, after)
    BY DEF Migrate, CheckAdmin
  <1>2. OracleVersion \in Nat /\ OracleVersion >= 6
    BY GovernanceAssumption
  <1>3. old.version >= 6 => Erased(old.version) = {}
    BY DEF Erased, Settings
  <1>4. /\ after \in Settings /\ after.admin = old.admin /\ after.nominee = old.nominee
        /\ after.version = OracleVersion /\ after.staged = old.staged
        /\ after.held = old.held \ Erased(old.version)
    BY <1>2 DEF Settings
  <1> HIDE DEF after
  <1>5. Kept(c, old, after)
    BY <1>1, <1>2, <1>3, <1>4 DEF Kept, Sound, Past, Settings
  <1> QED BY <1>1, <1>5, KeyIsNotSafe

\* A transaction of a key changes one contract, which is not the multisig's.
LEMMA KeyStepKeeps ==
    ASSUME NEW D, contracts \in [D -> Settings],
           \A c \in D : Sound(c, contracts[c]), now \in Nat, KeyStep
    PROVE  \E c \in D : \E after :
               Store(c, after) /\ contracts[c].admin # Safe /\ Kept(c, contracts[c], after)
  <1>1. PICK key \in Keys, c \in DOMAIN contracts :
        \/ Pause(key, c)
        \/ Unpause(key, c)
        \/ \E token \in Tokens : UpdateAcbuToken(key, c, token)
        \/ \E operator \in Keys : SetOperator(key, c, operator)
        \/ SetRateAdmin(key, c)
        \/ SetBasketConfig(key, c)
        \/ SetSTokenAddress(key, c)
        \/ \E newAdmin \in Holders : TransferAdmin(key, c, newAdmin)
        \/ AcceptAdmin(key, c)
        \/ CancelAdminTransfer(key, c)
        \/ \E v \in StagedVersions : Upgrade(key, c, v) \/ StageUpgrade(key, c, v)
        \/ ExecuteUpgrade(key, c)
        \/ CancelUpgrade(key, c)
        \/ Migrate(key, c)
    BY DEF KeyStep
  <1>2. c \in D /\ contracts[c] \in Settings /\ Sound(c, contracts[c]) /\ DOMAIN contracts = D
    OBVIOUS
  <1>3. key \in Holders /\ key # Safe
    BY KeyIsNotSafe
  <1>4. StagedVersions \subseteq Nat
    BY GovernanceAssumption
  <1>5. contracts[c].admin # Safe /\ \E after : Store(c, after) /\ Kept(c, contracts[c], after)
    <2>1. CASE AcceptAdmin(key, c)
      BY <1>2, <2>1, AcceptAdminKeeps
    <2>2. CASE \E v \in StagedVersions : Upgrade(key, c, v)
      BY <1>2, <1>3, <1>4, <2>2, UpgradeKeeps
    <2>3. CASE \E v \in StagedVersions : StageUpgrade(key, c, v)
      BY <1>2, <1>4, <2>3, StageUpgradeKeeps
    <2>4. CASE ExecuteUpgrade(key, c)
      BY <1>2, <2>4, ExecuteUpgradeKeeps
    <2>5. CASE CancelUpgrade(key, c)
      BY <1>2, <2>5, CancelUpgradeKeeps
    <2>6. CASE Migrate(key, c)
      BY <1>2, <2>6, MigrateKeeps
    <2> QED BY <1>1, <1>2, <2>1, <2>2, <2>3, <2>4, <2>5, <2>6, KeySettings
  <1> QED BY <1>2, <1>5

-----------------------------------------------------------------------------
(* The calls the multisig makes. *)

\* What the fields of a call are.
LEMMA CallFields ==
    ASSUME NEW call \in Calls
    PROVE  /\ call.target \in ContractNames
           /\ call.tag \in {"pause", "unpause", "set_rate_admin", "update_acbu_token", "upgrade"}
           /\ call.tag = "update_acbu_token" => call.token \in Tokens
           /\ call.tag = "upgrade" => call.version \in Nat
  BY GovernanceAssumption DEF ContractCalls

\* A call that succeeds is on a contract of the multisig, and leaves it as
\* it says; an upgrade goes forward, one version at a time for minting.
LEMMA InvokeKeeps ==
    ASSUME NEW D, contracts \in [D -> Settings],
           \A c \in D : Sound(c, contracts[c]),
           NEW call \in Calls, Invoke(call)
    PROVE  LET c == call.target
               after == Outcome(contracts[c], call)
           IN  /\ c \in D /\ contracts[c].admin = Safe
               /\ Store(c, after) /\ Kept(c, contracts[c], after)
               /\ after.admin = Safe
               /\ call.tag = "upgrade" =>
                    /\ after.version = call.version /\ call.version > contracts[c].version
                    /\ c = "minting" => call.version = contracts[c].version + 1
               /\ call.tag # "upgrade" => after.version = contracts[c].version
  <1> DEFINE c == call.target
             old == contracts[c]
             after == Outcome(old, call)
  <1>1. c \in D /\ old \in Settings /\ Sound(c, old) /\ c \in DOMAIN contracts
    BY DEF Invoke
  <1>2. old.admin = Safe
    BY DEF Invoke, Pause, Unpause, UpdateAcbuToken, SetRateAdmin, Upgrade, CheckAdmin
  <1>3. CASE call.tag = "pause"
    <2>1. after = [old EXCEPT !.paused = TRUE] /\ Store(c, [old EXCEPT !.paused = TRUE])
      BY <1>3 DEF Invoke, Pause, Outcome
    <2> HIDE DEF after
    <2>2. /\ after \in Settings /\ after.admin = old.admin /\ after.nominee = old.nominee
          /\ after.version = old.version /\ after.staged = old.staged /\ after.held = old.held
      BY <1>1, <2>1 DEF Settings
    <2> QED BY <1>1, <1>2, <1>3, <2>1, <2>2, KeptBySetting DEF after
  <1>4. CASE call.tag = "unpause"
    <2>1. after = [old EXCEPT !.paused = FALSE] /\ Store(c, [old EXCEPT !.paused = FALSE])
      BY <1>4 DEF Invoke, Unpause, Outcome
    <2> HIDE DEF after
    <2>2. /\ after \in Settings /\ after.admin = old.admin /\ after.nominee = old.nominee
          /\ after.version = old.version /\ after.staged = old.staged /\ after.held = old.held
      BY <1>1, <2>1 DEF Settings
    <2> QED BY <1>1, <1>2, <1>4, <2>1, <2>2, KeptBySetting DEF after
  <1>5. CASE call.tag = "update_acbu_token"
    <2>1. after = [old EXCEPT !.token = call.token] /\ Store(c, [old EXCEPT !.token = call.token])
      BY <1>5 DEF Invoke, UpdateAcbuToken, Outcome
    <2>2. call.token \in Tokens
      BY <1>5, CallFields
    <2> HIDE DEF after
    <2>3. /\ after \in Settings /\ after.admin = old.admin /\ after.nominee = old.nominee
          /\ after.version = old.version /\ after.staged = old.staged /\ after.held = old.held
      BY <1>1, <2>1, <2>2 DEF Settings
    <2> QED BY <1>1, <1>2, <1>5, <2>1, <2>3, KeptBySetting DEF after
  <1>6. CASE call.tag = "set_rate_admin"
    <2>1. /\ after = [old EXCEPT !.held = @ \cup {"rates"}]
          /\ Store(c, [old EXCEPT !.held = @ \cup {"rates"}])
      BY <1>6 DEF Invoke, SetRateAdmin, Outcome
    <2> HIDE DEF after
    <2>2. /\ after \in Settings /\ after.admin = old.admin /\ after.nominee = old.nominee
          /\ after.version = old.version /\ after.staged = old.staged
          /\ old.held \subseteq after.held
      BY <1>1, <2>1 DEF Settings, OracleData
    <2> QED BY <1>1, <1>2, <1>6, <2>1, <2>2, KeptBySetting DEF after
  <1>7. CASE call.tag = "upgrade"
    <2>1. Upgrade(Safe, c, call.version)
      BY <1>7 DEF Invoke
    <2>2. /\ after = [old EXCEPT !.version = call.version]
          /\ Store(c, [old EXCEPT !.version = call.version])
          /\ call.version > old.version
          /\ c \in {"minting", "burning"}
          /\ c = "minting" => call.version = old.version + 1
      BY <1>7, <2>1 DEF Upgrade, Outcome
    <2>3. call.version \in Nat
      BY <1>7, CallFields
    <2> HIDE DEF after
    <2>4. /\ after \in Settings /\ after.admin = old.admin /\ after.nominee = old.nominee
          /\ after.version = call.version /\ after.staged = old.staged /\ after.held = old.held
      BY <1>1, <2>2, <2>3 DEF Settings
    <2>5. Kept(c, old, after)
      BY <1>1, <2>2, <2>3, <2>4 DEF Kept, Sound, Past, Settings
    <2> QED BY <1>1, <1>2, <1>7, <2>2, <2>4, <2>5 DEF after
  <1> QED BY <1>3, <1>4, <1>5, <1>6, <1>7, CallFields

-----------------------------------------------------------------------------
(* Upgrades that have been executed. *)

\* UpgradesTakeEffect, for one contract.
Effective(c) ==
    LET bound(id) == proposals[id].action.call.version
    IN  /\ \A id, other \in UpgradesDone(c) : bound(id) = bound(other) => id = other
        /\ \A id \in UpgradesDone(c) : bound(id) \in 2 .. contracts[c].version
        /\ contracts[c].version # 1 =>
             \E id \in UpgradesDone(c) : bound(id) = contracts[c].version
        /\ c = "minting" => \A v \in 2 .. contracts[c].version :
                              \E id \in UpgradesDone(c) : bound(id) = v

\* An execution of a call adds its proposal to those done, and no other.
LEMMA DoneByExecution ==
    ASSUME TypeOK, [Next]_vars, NEW signer \in Addresses, NEW id \in DOMAIN proposals,
           Execute(signer, id), NEW c
    PROVE  LET action == proposals[id].action
               done == action.kind = "call" /\ action.call.target = c
                       /\ action.call.tag = "upgrade"
           IN  /\ UpgradesDone(c)' = UpgradesDone(c) \cup (IF done THEN {id} ELSE {})
               /\ id \notin UpgradesDone(c)
               /\ Executes(id)
  <1>1. \A i \in DOMAIN proposals : proposals'[i].action = proposals[i].action
    BY ProposalsKept
  <1>2. proposals[id] \in Proposal /\ proposals \in Seq(Proposal)
    BY DEF TypeOK
  <1> DEFINE after == [proposals[id] EXCEPT !.executed = TRUE]
  <1>3. proposals' = [proposals EXCEPT ![id] = after] /\ ~proposals[id].executed
    BY DEF Execute, MarkExecuted, Open
  <1>4. after.executed
    BY <1>2 DEF Proposal
  <1> HIDE DEF after
  <1>5. /\ DOMAIN proposals' = DOMAIN proposals
        /\ proposals'[id].executed
        /\ \A i \in DOMAIN proposals \ {id} : proposals'[i] = proposals[i]
    BY <1>2, <1>3, <1>4
  <1>6. id \notin UpgradesDone(c)
    BY <1>3 DEF UpgradesDone
  <1> QED BY <1>1, <1>3, <1>5, <1>6 DEF UpgradesDone, Executes

\* Nothing else makes an upgrade done.
LEMMA DoneOtherwise ==
    ASSUME TypeOK, ProposalStep \/ UNCHANGED proposals, NEW c
    PROVE  UpgradesDone(c)' = UpgradesDone(c)
  <1>1. ASSUME NEW proposer, NEW action, CreateProposal(proposer, action)
        PROVE  UpgradesDone(c)' = UpgradesDone(c)
    <2> DEFINE after == [action |-> action, approvals |-> {proposer},
                       executed |-> FALSE, expiresAt |-> now + ProposalTtl]
    <2>1. proposals' = Append(proposals, after) /\ ~after.executed
      BY <1>1 DEF CreateProposal
    <2>2. proposals \in Seq(Proposal)
      BY DEF TypeOK
    <2> HIDE DEF after
    <2>3. /\ DOMAIN proposals' = DOMAIN proposals \cup {Len(proposals) + 1}
          /\ Len(proposals) + 1 \notin DOMAIN proposals
          /\ ~proposals'[Len(proposals) + 1].executed
          /\ \A i \in DOMAIN proposals : proposals'[i] = proposals[i]
      BY <2>1, <2>2
    <2> QED BY <2>3 DEF UpgradesDone
  <1>2. ASSUME NEW signer, NEW id \in DOMAIN proposals, Approve(signer, id)
        PROVE  UpgradesDone(c)' = UpgradesDone(c)
    <2>1. proposals[id] \in Proposal /\ proposals \in Seq(Proposal)
      BY DEF TypeOK
    <2> DEFINE after == [proposals[id] EXCEPT !.approvals = @ \cup {signer}]
    <2>2. proposals' = [proposals EXCEPT ![id] = after] /\ ~proposals[id].executed
      BY <1>2 DEF Approve, Open
    <2>3. ~after.executed
      BY <2>1, <2>2 DEF Proposal
    <2> HIDE DEF after
    <2>4. /\ DOMAIN proposals' = DOMAIN proposals
          /\ ~proposals'[id].executed
          /\ \A i \in DOMAIN proposals \ {id} : proposals'[i] = proposals[i]
      BY <2>1, <2>2, <2>3
    <2> QED BY <2>2, <2>4 DEF UpgradesDone
  <1>3. CASE UNCHANGED proposals
    BY <1>3 DEF UpgradesDone
  <1>4. CASE ProposalStep
    BY <1>1, <1>2, <1>4 DEF ProposalStep, ProposeUpdateConfig, ProposeUpgrade, Propose
  <1> QED BY <1>3, <1>4

\* Where neither the version nor what is done changes, nothing does.
LEMMA EffectiveKept ==
    ASSUME TypeOK, [Next]_vars, NEW c, Effective(c),
           UpgradesDone(c)' = UpgradesDone(c),
           contracts'[c].version = contracts[c].version
    PROVE  Effective(c)'
  <1>1. \A id \in UpgradesDone(c) :
          proposals'[id].action.call.version = proposals[id].action.call.version
    BY ProposalsKept DEF UpgradesDone
  <1> QED BY <1>1 DEF Effective

\* An upgrade done goes past all that were done before it.
LEMMA EffectiveUpgraded ==
    ASSUME TypeOK, [Next]_vars, NEW c, Effective(c), NEW id \in DOMAIN proposals,
           id \notin UpgradesDone(c),
           UpgradesDone(c)' = UpgradesDone(c) \cup {id},
           NEW old \in Nat, NEW v \in Nat, old >= 1, v > old,
           contracts[c].version = old, contracts'[c].version = v,
           proposals[id].action.call.version = v,
           c = "minting" => v = old + 1
    PROVE  Effective(c)'
  <1> DEFINE done == UpgradesDone(c)
             bound(i) == proposals[i].action.call.version
             bound1(i) == proposals'[i].action.call.version
  <1>1. \A i \in done \cup {id} : bound1(i) = bound(i)
    BY ProposalsKept DEF UpgradesDone
  <1>2. /\ \A i, other \in done : bound(i) = bound(other) => i = other
        /\ \A i \in done : bound(i) \in 2 .. old
        /\ c = "minting" => \A w \in 2 .. old : \E i \in done : bound(i) = w
    BY DEF Effective
  <1>3. bound(id) = v /\ id \notin done
    OBVIOUS
  <1> HIDE DEF done, bound, bound1
  <1>4. \A i, other \in done \cup {id} : bound1(i) = bound1(other) => i = other
    BY <1>1, <1>2, <1>3
  <1>5. \A i \in done \cup {id} : bound1(i) \in 2 .. v
    BY <1>1, <1>2, <1>3
  <1>6. \E i \in done \cup {id} : bound1(i) = v
    BY <1>1, <1>3
  <1>7. c = "minting" => \A w \in 2 .. v : \E i \in done \cup {id} : bound1(i) = w
    BY <1>1, <1>2, <1>3
  <1> QED BY <1>4, <1>5, <1>6, <1>7 DEF Effective, done, bound1

-----------------------------------------------------------------------------
(* The inductive invariant. *)

Inv ==
    /\ GovernanceTypeOK
    /\ \A c \in DOMAIN contracts : Sound(c, contracts[c])
    /\ \A c \in DOMAIN contracts : contracts[c].admin = Safe => Effective(c)

\* What is deployed is sound, and nothing has been executed.
LEMMA InitInv == GovernanceInit => Inv
  <1> SUFFICES ASSUME GovernanceInit PROVE Inv
    OBVIOUS
  <1>1. TypeOK /\ proposals = <<>>
    BY InitType DEF GovernanceInit, Init
  <1>2. PICK deployment \in Deployments :
            contracts = [c \in DOMAIN deployment |-> Initialized(deployment[c])]
    BY DEF GovernanceInit, AdminInit
  <1>3. PICK D \in SUBSET ContractNames : deployment \in [D -> Holders]
    BY GovernanceAssumption
  <1>4. contracts = [c \in D |-> Initialized(deployment[c])]
    BY <1>2, <1>3
  <1>5. ASSUME NEW admin \in Holders
        PROVE  /\ Initialized(admin) \in Settings
               /\ Initialized(admin).nominee = {} /\ Initialized(admin).staged = {}
               /\ Initialized(admin).version = 1
    BY GovernanceAssumption DEF Initialized, Settings, OracleData
  <1>6. /\ DOMAIN contracts = D
        /\ \A c \in D : contracts[c] = Initialized(deployment[c]) /\ deployment[c] \in Holders
    BY <1>4, <1>3
  <1>7. contracts \in [D -> Settings]
    BY <1>4, <1>3, <1>5
  <1>8. \A c \in D : Sound(c, contracts[c])
    BY <1>5, <1>6 DEF Sound
  <1>9. \A c \in D : Effective(c)
    <2> SUFFICES ASSUME NEW c \in D PROVE Effective(c)
      OBVIOUS
    <2>1. UpgradesDone(c) = {} /\ contracts[c].version = 1
      BY <1>1, <1>5, <1>6 DEF UpgradesDone
    <2> QED BY <2>1 DEF Effective
  <1> QED BY <1>1, <1>4, <1>6, <1>7, <1>8, <1>9 DEF Inv, GovernanceTypeOK

\* A step that leaves the contracts and what is done alone.
LEMMA InvOtherwise ==
    ASSUME Inv, TypeOK', [Next]_vars, UNCHANGED contracts,
           ProposalStep \/ UNCHANGED proposals
    PROVE  Inv'
  <1>1. \A c : UpgradesDone(c)' = UpgradesDone(c)
    BY DoneOtherwise DEF Inv, GovernanceTypeOK
  <1>2. TypeOK
    BY DEF Inv, GovernanceTypeOK
  <1>3. ASSUME NEW c \in DOMAIN contracts, contracts[c].admin = Safe
        PROVE  Effective(c)'
    BY <1>1, <1>2, <1>3, EffectiveKept DEF Inv
  <1> QED BY <1>3 DEF Inv, GovernanceTypeOK, Sound

\* A key changes a contract that is not the multisig's, before or after.
LEMMA InvKeyStep ==
    ASSUME Inv, KeyStep, UNCHANGED vars
    PROVE  Inv'
  <1>1. TypeOK /\ TypeOK'
    BY StepType DEF Inv, GovernanceTypeOK
  <1>2. PICK D \in SUBSET ContractNames : contracts \in [D -> Settings]
    BY DEF Inv, GovernanceTypeOK
  <1>3. now \in Nat
    BY <1>1 DEF TypeOK
  <1>4. PICK c \in D, after \in Settings :
            Store(c, after) /\ contracts[c].admin # Safe /\ Kept(c, contracts[c], after)
    BY <1>2, <1>3, KeyStepKeeps DEF Inv, Kept
  <1>5. /\ contracts' = [contracts EXCEPT ![c] = after]
        /\ after \in Settings /\ Sound(c, after) /\ after.admin # Safe
    BY <1>4 DEF Store, Kept
  <1>6. contracts' \in [D -> Settings]
    BY <1>2, <1>5
  <1>7. \A d \in D : Sound(d, contracts'[d])
    BY <1>2, <1>5 DEF Inv
  <1>8. ASSUME NEW d \in D, contracts'[d].admin = Safe
        PROVE  Effective(d)'
    <2>1. contracts'[d] = contracts[d] /\ Effective(d)
      BY <1>2, <1>4, <1>5, <1>8 DEF Inv
    <2>2. UpgradesDone(d)' = UpgradesDone(d)
      BY <1>1, DoneOtherwise DEF vars
    <2> QED BY <1>1, <2>1, <2>2, EffectiveKept
  <1> QED BY <1>1, <1>2, <1>6, <1>7, <1>8 DEF Inv, GovernanceTypeOK

\* An execution makes the call its proposal carries, or none.
LEMMA InvExecute ==
    ASSUME Inv, NEW signer \in Addresses, NEW id \in DOMAIN proposals,
           ExecuteProposal(signer, id)
    PROVE  Inv'
  <1>1. TypeOK /\ Execute(signer, id) /\ [Next]_vars
    BY DEF Inv, GovernanceTypeOK, ExecuteProposal, Next
  <1>2. TypeOK'
    BY <1>1, StepType
  <1>3. PICK D \in SUBSET ContractNames : contracts \in [D -> Settings]
    BY DEF Inv, GovernanceTypeOK
  <1>4. proposals[id] \in Proposal
    BY <1>1 DEF TypeOK
  <1>5. proposals[id].action \in Action
    BY <1>4 DEF Proposal
  <1> DEFINE action == proposals[id].action
             call == action.call
  <1>6. CASE action.kind # "call"
    <2>1. UNCHANGED contracts
      BY <1>6 DEF ExecuteProposal
    <2>2. \A c : UpgradesDone(c)' = UpgradesDone(c)
      BY <1>1, <1>6, DoneByExecution
    <2>3. ASSUME NEW c \in DOMAIN contracts, contracts[c].admin = Safe
          PROVE  Effective(c)'
      BY <1>1, <2>1, <2>2, <2>3, EffectiveKept DEF Inv
    <2> QED BY <1>2, <2>1, <2>3 DEF Inv, GovernanceTypeOK, Sound
  <1>7. CASE action.kind = "call"
    <2>1. call \in Calls
      BY <1>5, <1>7 DEF Action
    <2>2. Invoke(call)
      BY <1>7 DEF ExecuteProposal
    <2>3. PICK t \in D : t = call.target
      BY <1>3, <2>1, <2>2, InvokeKeeps DEF Inv
    <2>4. PICK after : after = Outcome(contracts[t], call)
      OBVIOUS
    <2>5. /\ contracts[t].admin = Safe
          /\ Store(t, after) /\ Kept(t, contracts[t], after)
          /\ call.tag = "upgrade" =>
               /\ after.version = call.version /\ call.version > contracts[t].version
               /\ t = "minting" => call.version = contracts[t].version + 1
          /\ call.tag # "upgrade" => after.version = contracts[t].version
      BY <1>3, <2>1, <2>2, <2>3, <2>4, InvokeKeeps DEF Inv
    <2>6. /\ contracts' = [contracts EXCEPT ![t] = after]
          /\ after \in Settings /\ Sound(t, after)
      BY <2>5 DEF Store, Kept
    <2>7. contracts' \in [D -> Settings]
      BY <1>3, <2>6
    <2>8. \A d \in D : Sound(d, contracts'[d])
      BY <1>3, <2>6 DEF Inv
    <2>9. ASSUME NEW d \in D \ {t}, contracts'[d].admin = Safe
          PROVE  Effective(d)'
      <3>1. contracts'[d] = contracts[d] /\ Effective(d)
        BY <1>3, <2>6, <2>9 DEF Inv
      <3>2. UpgradesDone(d)' = UpgradesDone(d)
        BY <1>1, <2>9, <2>3, DoneByExecution
      <3> QED BY <1>1, <3>1, <3>2, EffectiveKept
    <2>10. Effective(t)'
      <3>1. Effective(t) /\ contracts'[t] = after
        BY <1>3, <2>5, <2>6 DEF Inv
      <3>2. CASE call.tag # "upgrade"
        <4>1. UpgradesDone(t)' = UpgradesDone(t)
          BY <1>1, <2>3, <3>2, DoneByExecution
        <4> QED BY <1>1, <2>5, <3>1, <3>2, <4>1, EffectiveKept
      <3>3. CASE call.tag = "upgrade"
        <4>1. UpgradesDone(t)' = UpgradesDone(t) \cup {id} /\ id \notin UpgradesDone(t)
          BY <1>1, <1>7, <2>3, <3>3, DoneByExecution
        <4>2. contracts[t].version \in Nat /\ contracts[t].version >= 1
          BY <1>3, <2>5 DEF Inv, Sound, Settings
        <4>3. call.version \in Nat
          BY <2>1, <3>3, CallFields
        <4> QED BY <1>1, <2>5, <3>1, <3>3, <4>1, <4>2, <4>3, EffectiveUpgraded
      <3> QED BY <3>2, <3>3
    <2> QED BY <1>2, <1>3, <2>7, <2>8, <2>9, <2>10 DEF Inv, GovernanceTypeOK
  <1> QED BY <1>6, <1>7

\* The invariant holds throughout.
THEOREM Invariance == GovernanceSpec => []Inv
  <1>1. Inv /\ [GovernanceNext]_governanceVars => Inv'
    <2> SUFFICES ASSUME Inv, [GovernanceNext]_governanceVars PROVE Inv'
      OBVIOUS
    <2>1. [Next]_vars /\ TypeOK'
      BY StepOfMultisig, StepType DEF Inv, GovernanceTypeOK
    <2>2. CASE MultisigStep
      BY <2>1, <2>2, InvOtherwise DEF MultisigStep
    <2>3. CASE \E signer \in Addresses, id \in DOMAIN proposals : ExecuteProposal(signer, id)
      BY <2>3, InvExecute
    <2>4. CASE KeyStep /\ UNCHANGED vars
      BY <2>4, InvKeyStep
    <2>5. CASE TimePasses /\ UNCHANGED contracts
      BY <2>1, <2>5, InvOtherwise DEF TimePasses
    <2>6. CASE UNCHANGED governanceVars
      BY <2>1, <2>6, InvOtherwise DEF governanceVars, vars
    <2> QED BY <2>2, <2>3, <2>4, <2>5, <2>6 DEF GovernanceNext
  <1> QED BY <1>1, InitInv, PTL DEF GovernanceSpec

\* Every state of the multisig and of the contracts is well typed.
THEOREM GovernanceTypeCorrect == GovernanceSpec => []GovernanceTypeOK
  <1>1. Inv => GovernanceTypeOK
    BY DEF Inv
  <1> QED BY <1>1, Invariance, PTL

\* Whatever is proposed, approved and executed in whatever order, executed
\* upgrades are those in force, none twice and for minting none skipped.
THEOREM UpgradesAreInForce == GovernanceSpec => []UpgradesTakeEffect
  <1>1. Inv => UpgradesTakeEffect
    BY DEF Inv, Effective, UpgradesTakeEffect
  <1> QED BY <1>1, Invariance, PTL

-----------------------------------------------------------------------------
(* Action properties. *)

\* What a step does to a contract: nothing, or what a call does of a key
\* that is its admin, or what the call does of a proposal that executes.
LEMMA ChangeOfContract ==
    ASSUME Inv, [GovernanceNext]_governanceVars, NEW c \in DOMAIN contracts,
           contracts'[c] # contracts[c]
    PROVE  /\ Kept(c, contracts[c], contracts'[c])
           /\ contracts[c].admin = Safe =>
                \E signer \in Addresses, id \in DOMAIN proposals :
                  LET action == proposals[id].action
                  IN  /\ Execute(signer, id)
                      /\ action.kind = "call" /\ action.call.target = c
                      /\ contracts'[c] = Outcome(contracts[c], action.call)
  <1>1. TypeOK
    BY DEF Inv, GovernanceTypeOK
  <1>2. PICK D \in SUBSET ContractNames : contracts \in [D -> Settings]
    BY DEF Inv, GovernanceTypeOK
  <1>3. c \in D
    BY <1>2
  <1>4. CASE KeyStep /\ UNCHANGED vars
    <2>1. now \in Nat
      BY <1>1 DEF TypeOK
    <2>2. PICK d \in D, after \in Settings :
              Store(d, after) /\ contracts[d].admin # Safe /\ Kept(d, contracts[d], after)
      BY <1>2, <1>4, <2>1, KeyStepKeeps DEF Inv, Kept
    <2>3. d = c /\ contracts'[c] = after
      BY <1>2, <1>3, <2>2 DEF Store
    <2> QED BY <2>2, <2>3
  <1>5. CASE \E signer \in Addresses, id \in DOMAIN proposals : ExecuteProposal(signer, id)
    <2>1. PICK signer \in Addresses, id \in DOMAIN proposals : ExecuteProposal(signer, id)
      BY <1>5
    <2>2. proposals[id] \in Proposal
      BY <1>1, <2>1 DEF TypeOK
    <2>3. proposals[id].action \in Action
      BY <2>2 DEF Proposal
    <2>4. /\ Execute(signer, id)
          /\ proposals[id].action.kind = "call" /\ Invoke(proposals[id].action.call)
      BY <2>1 DEF ExecuteProposal
    <2>5. PICK call \in Calls : call = proposals[id].action.call
      BY <2>3, <2>4 DEF Action
    <2>6. LET t == call.target
              after == Outcome(contracts[t], call)
          IN  t \in D /\ Store(t, after) /\ Kept(t, contracts[t], after)
      BY <1>2, <2>4, <2>5, InvokeKeeps DEF Inv
    <2>7. call.target = c /\ contracts'[c] = Outcome(contracts[c], call)
      BY <1>2, <1>3, <2>6 DEF Store
    <2> QED BY <2>1, <2>4, <2>5, <2>6, <2>7
  <1>6. CASE MultisigStep \/ (TimePasses /\ UNCHANGED contracts) \/ UNCHANGED governanceVars
    BY <1>6 DEF MultisigStep, governanceVars
  <1> QED BY <1>4, <1>5, <1>6 DEF GovernanceNext

\* Nothing under the multisig changes but by a proposal that a threshold of
\* the signers of that moment approved.
THEOREM GovernanceGoverns == GovernanceSpec => GovernedOnly
  <1> DEFINE Governed(c) ==
        contracts[c].admin = Safe /\ contracts'[c] # contracts[c] =>
          \E id \in DOMAIN proposals :
            LET p == proposals[id]
            IN  /\ Executes(id)
                /\ p.action.kind = "call" /\ p.action.call.target = c
                /\ contracts'[c] = Outcome(contracts[c], p.action.call)
                /\ Cardinality(p.approvals \cap config.signers) >= config.threshold
  <1>1. ASSUME Inv, [GovernanceNext]_governanceVars
        PROVE  ScopeStep /\ \A c \in DOMAIN contracts : Governed(c)
    <2>1. TypeOK /\ [Next]_vars
      BY <1>1, StepOfMultisig DEF Inv, GovernanceTypeOK
    <2>2. ASSUME NEW c \in DOMAIN contracts, contracts[c].admin = Safe,
                 contracts'[c] # contracts[c]
          PROVE  Governed(c)
      <3>1. PICK signer \in Addresses, id \in DOMAIN proposals :
              LET action == proposals[id].action
              IN  /\ Execute(signer, id)
                  /\ action.kind = "call" /\ action.call.target = c
                  /\ contracts'[c] = Outcome(contracts[c], action.call)
        BY <1>1, <2>2, ChangeOfContract
      <3>2. Executes(id)
        BY <2>1, <3>1, DoneByExecution
      <3>3. Approved(proposals[id])
        BY <3>1 DEF Execute
      <3>4. /\ proposals[id].approvals \cap config.signers = proposals[id].approvals
            /\ Cardinality(proposals[id].approvals) >= config.threshold
        BY <3>3 DEF Approved
      <3> QED BY <3>1, <3>2, <3>4
    <2> QED BY <2>1, <2>2, StepIsScoped
  <1>2. Inv /\ [GovernanceNext]_governanceVars =>
          [ScopeStep /\ \A c \in DOMAIN contracts : Governed(c)]_governanceVars
    BY <1>1
  <1> QED BY <1>2, Invariance, PTL DEF GovernanceSpec, GovernedOnly

\* No version goes back but the oracle's, and a contract past the versions
\* that migrate erases stays so, and keeps what it holds.
THEOREM UpgradesAreKept == GovernanceSpec => UpgradesKeepState
  <1> DEFINE Keeps(c) ==
        /\ c # "oracle" => contracts'[c].version >= contracts[c].version
        /\ Settled(c) => Settled(c)' /\ contracts[c].held \subseteq contracts'[c].held
  <1>1. ASSUME Inv, [GovernanceNext]_governanceVars, NEW c \in DOMAIN contracts
        PROVE  Keeps(c)
    <2>1. PICK D \in SUBSET ContractNames : contracts \in [D -> Settings]
      BY <1>1 DEF Inv, GovernanceTypeOK
    <2>2. contracts[c] \in Settings /\ contracts[c].version \in Nat
      BY <2>1 DEF Settings
    <2>3. CASE contracts'[c] = contracts[c]
      BY <2>2, <2>3 DEF Settled
    <2>4. CASE contracts'[c] # contracts[c]
      <3>1. Kept(c, contracts[c], contracts'[c])
        BY <1>1, <2>4, ChangeOfContract
      <3>2. contracts'[c] \in Settings
        BY <3>1 DEF Kept
      <3>3. Settled(c) <=> Past(contracts[c])
        BY <2>2, SettledIsPast
      <3>4. Settled(c)' <=> Past(contracts'[c])
        BY <3>2 DEF Settled, Past, Erased, OracleData, Settings
      <3> QED BY <3>1, <3>3, <3>4 DEF Kept
    <2> QED BY <2>3, <2>4
  <1>2. Inv /\ [GovernanceNext]_governanceVars =>
          [\A c \in DOMAIN contracts : Keeps(c)]_governanceVars
    BY <1>1
  <1> QED BY <1>2, Invariance, PTL DEF GovernanceSpec, UpgradesKeepState
=============================================================================
