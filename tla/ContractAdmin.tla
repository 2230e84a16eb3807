---------------------------- MODULE ContractAdmin ----------------------------
(***************************************************************************)
(* The administrative entry points of the protected contracts: pause,      *)
(* token, operator, two-step rotation of the admin, upgrades in one step   *)
(* (minting, burning) and behind a timelock (the others), and the          *)
(* oracle's migrate.  Each takes the address that calls it.  The contracts *)
(* repeat these functions; "map" names one copy of each, and the places    *)
(* where copies differ are definitions of their own.                       *)
(***************************************************************************)
EXTENDS Integers, FiniteSets

CONSTANTS
    Keys,              \* addresses that sign transactions themselves
    Safe,              \* the address of the multisig contract
    Tokens, InitToken,
    InitOperator,
    Deployments,       \* for each deployed contract, the admin it is given
    StagedVersions,    \* versions somebody may stage
    OracleVersion,     \* VERSION of the oracle's code
    AdminTimelock      \* ADMIN_TIMELOCK_SECONDS, UPGRADE_TIMELOCK_SECONDS

Holders == Keys \cup {Safe}
ContractNames == {"minting", "burning", "oracle", "tracker", "pool", "vault"}

VARIABLES
    now,          \* env.ledger().timestamp()
    contracts     \* the administrative storage of each deployed contract

\* What the oracle keeps that its migrate may erase.
OracleData == {"basket", "rates", "s_tokens"}

Settings == [admin : Holders,
             nominee : SUBSET [to : Holders, eligibleAt : Nat],
             operator : Keys,
             paused : BOOLEAN,
             token : Tokens,
             version : Nat,
             staged : SUBSET [version : Nat, eligibleAt : Nat],
             held : SUBSET OracleData]

\* initialize stores CONTRACT_VERSION, which is 1 in every contract.
Initialized(admin) ==
    [admin |-> admin, nominee |-> {}, operator |-> InitOperator,
     paused |-> FALSE, token |-> InitToken, version |-> 1, staged |-> {},
     held |-> {"basket"}]

AdminInit ==
    \E deployment \in Deployments :
        contracts = [c \in DOMAIN deployment |-> Initialized(deployment[c])]

-----------------------------------------------------------------------------
(* Entry points; caller is who signed, or the contract that calls. *)

Store(c, settings) == contracts' = [contracts EXCEPT ![c] = settings]

\* Mutant: the admin's authorisation is not required.
AnyCaller(caller, c) == caller \in Holders

CheckAdmin(caller, c) == caller = contracts[c].admin

Pause(caller, c) ==
    /\ c # "oracle"
    /\ CheckAdmin(caller, c)
    /\ Store(c, [contracts[c] EXCEPT !.paused = TRUE])

Unpause(caller, c) ==
    /\ c # "oracle"
    /\ CheckAdmin(caller, c)
    /\ Store(c, [contracts[c] EXCEPT !.paused = FALSE])

UpdateAcbuToken(caller, c, token) ==
    /\ c \in {"minting", "tracker", "vault"}
    /\ CheckAdmin(caller, c)
    /\ Store(c, [contracts[c] EXCEPT !.token = token])

SetOperator(caller, c, operator) ==
    /\ c = "minting"
    /\ CheckAdmin(caller, c)
    /\ operator # contracts[c].admin
    /\ Store(c, [contracts[c] EXCEPT !.operator = operator])

\* Under the guards of Oracle!SetRateAdmin, which may refuse it.
SetRateAdmin(caller, c) ==
    /\ c = "oracle"
    /\ CheckAdmin(caller, c)
    /\ Store(c, [contracts[c] EXCEPT !.held = @ \cup {"rates"}])

SetBasketConfig(caller, c) ==
    /\ c = "oracle"
    /\ CheckAdmin(caller, c)
    /\ Store(c, [contracts[c] EXCEPT !.held = @ \cup {"basket"}])

SetSTokenAddress(caller, c) ==
    /\ c = "oracle"
    /\ CheckAdmin(caller, c)
    /\ Store(c, [contracts[c] EXCEPT !.held = @ \cup {"s_tokens"}])

-----------------------------------------------------------------------------
(* Two-step rotation of the admin. *)

TransferAdmin(caller, c, newAdmin) ==
    /\ CheckAdmin(caller, c)
    /\ Store(c, [contracts[c] EXCEPT !.nominee =
                   {[to |-> newAdmin, eligibleAt |-> now + AdminTimelock]}])

\* The minting contract does not compare the new admin with the operator.
AcceptAdmin(caller, c) ==
    \E nomination \in contracts[c].nominee :
        /\ caller = nomination.to
        /\ now >= nomination.eligibleAt
        /\ Store(c, [contracts[c] EXCEPT !.admin = nomination.to, !.nominee = {}])

CancelAdminTransfer(caller, c) ==
    /\ CheckAdmin(caller, c)
    /\ c # "burning" => contracts[c].nominee # {}
    /\ Store(c, [contracts[c] EXCEPT !.nominee = {}])

-----------------------------------------------------------------------------
(* Upgrades.  The code put in place is taken to be of the same contract. *)

\* SC-034: minting goes one version at a time, and not while paused.
Upgrade(caller, c, version) ==
    /\ c \in {"minting", "burning"}
    /\ CheckAdmin(caller, c)
    /\ c = "minting" => ~contracts[c].paused /\ version = contracts[c].version + 1
    /\ version > contracts[c].version
    /\ Store(c, [contracts[c] EXCEPT !.version = version])

\* Mutant: the version staged is not compared with the one stored.
StageAnyUpgrade(caller, c, version) ==
    /\ c \notin {"minting", "burning"}
    /\ CheckAdmin(caller, c)
    /\ Store(c, [contracts[c] EXCEPT !.staged =
                   {[version |-> version, eligibleAt |-> now + AdminTimelock]}])

\* propose_upgrade
StageUpgrade(caller, c, version) ==
    /\ c \notin {"minting", "burning"}
    /\ CheckAdmin(caller, c)
    /\ version > contracts[c].version
    /\ Store(c, [contracts[c] EXCEPT !.staged =
                   {[version |-> version, eligibleAt |-> now + AdminTimelock]}])

\* The version stored since the upgrade was staged is not looked at again.
ExecuteUpgrade(caller, c) ==
    /\ CheckAdmin(caller, c)
    /\ \E upgrade \in contracts[c].staged :
         /\ now >= upgrade.eligibleAt
         /\ Store(c, [contracts[c] EXCEPT !.version = upgrade.version, !.staged = {}])

CancelUpgrade(caller, c) ==
    /\ c \notin {"minting", "burning"}
    /\ CheckAdmin(caller, c)
    /\ Store(c, [contracts[c] EXCEPT !.staged = {}])

\* What a migrate from a version erases.
Erased(version) ==
    IF version < 6 THEN OracleData ELSE {}

Migrate(caller, c) ==
    /\ c = "oracle"
    /\ CheckAdmin(caller, c)
    /\ contracts[c].version < OracleVersion
    /\ Store(c, [contracts[c] EXCEPT !.version = OracleVersion,
                                     !.held = @ \ Erased(contracts[c].version)])

-----------------------------------------------------------------------------
\* MultisigAction::invoke: the one call an approved action makes, which the
\* multisig makes under its own address; it fails where the target has no
\* such function.
Invoke(call) ==
    /\ call.target \in DOMAIN contracts
    /\ \/ call.tag = "pause" /\ Pause(Safe, call.target)
       \/ call.tag = "unpause" /\ Unpause(Safe, call.target)
       \/ call.tag = "update_acbu_token" /\ UpdateAcbuToken(Safe, call.target, call.token)
       \/ call.tag = "set_rate_admin" /\ SetRateAdmin(Safe, call.target)
       \/ call.tag = "upgrade" /\ Upgrade(Safe, call.target, call.version)

\* A transaction signed by a key.
KeyStep ==
    \E key \in Keys, c \in DOMAIN contracts :
        \/ Pause(key, c)
        \/ Unpause(key, c)
        \/ \E token \in Tokens : UpdateAcbuToken(key, c, token)
        \/ \E operator \in Keys : SetOperator(key, c, operator)
        \/ SetRateAdmin(key, c)
        \/ SetBasketConfig(key, c)
        \/ SetSTokenAddress(key, c)
        \/ \E newAdmin \in Holders : TransferAdmin(key, c, newAdmin)
        \/ AcceptAdmin(key, c)
        \/ CancelAdminTransfer(key, c)
        \/ \E version \in StagedVersions :
             Upgrade(key, c, version) \/ StageUpgrade(key, c, version)
        \/ ExecuteUpgrade(key, c)
        \/ CancelUpgrade(key, c)
        \/ Migrate(key, c)
=============================================================================
