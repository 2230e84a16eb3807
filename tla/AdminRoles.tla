----------------------------- MODULE AdminRoles -----------------------------
(***************************************************************************)
(* The administration every contract of the repository carries: two-step   *)
(* rotation of the admin and staged replacement of the code, each behind a *)
(* timelock.  The source lines are those of the escrow, whose code the     *)
(* lending pool and the savings vault repeat.                              *)
(***************************************************************************)
EXTENDS Naturals

CONSTANTS
    Addresses,         \* who may be admin
    InitAdmin,
    AdminTimelock,     \* ADMIN_TIMELOCK_SECONDS
    WasmHashes,        \* code that may be staged
    InitWasm,
    UpgradeTimelock    \* UPGRADE_TIMELOCK_SECONDS

ASSUME AdminAssumption ==
    /\ InitAdmin \in Addresses
    /\ AdminTimelock \in Nat
    /\ InitWasm \in WasmHashes
    /\ UpgradeTimelock \in Nat

VARIABLES
    now,               \* env.ledger().timestamp()
    admin,             \* DATA_KEY.admin
    pendingAdmin,      \* {} or the one nomination: [to, eligibleAt]
    wasm,              \* hash of the code in effect
    pendingUpgrade     \* {} or the one staged upgrade: [to, eligibleAt]

rotationVars == <<admin, pendingAdmin>>
upgradeVars == <<wasm, pendingUpgrade>>

AdminTypeOK ==
    /\ now \in Nat
    /\ admin \in Addresses
    /\ pendingAdmin \subseteq [to : Addresses, eligibleAt : Nat]
    /\ wasm \in WasmHashes
    /\ pendingUpgrade \subseteq [to : WasmHashes, eligibleAt : Nat]

AdminInit ==
    /\ now = 1
    /\ admin = InitAdmin /\ pendingAdmin = {}
    /\ wasm = InitWasm /\ pendingUpgrade = {}

\* Nominating again replaces the nominee and starts the timelock anew.
TransferAdmin(newAdmin) ==
    /\ pendingAdmin' = {[to |-> newAdmin, eligibleAt |-> now + AdminTimelock]}
    /\ UNCHANGED <<now, admin, upgradeVars>>

\* Mutant: the nominee need not wait.
AcceptAdminAtOnce ==
    \E nomination \in pendingAdmin :
        /\ admin' = nomination.to
        /\ pendingAdmin' = {}
        /\ UNCHANGED <<now, upgradeVars>>

AcceptAdmin ==
    \E nomination \in pendingAdmin :
        /\ now >= nomination.eligibleAt
        /\ admin' = nomination.to
        /\ pendingAdmin' = {}
        /\ UNCHANGED <<now, upgradeVars>>

CancelAdminTransfer ==
    /\ pendingAdmin # {}
    /\ pendingAdmin' = {}
    /\ UNCHANGED <<now, admin, upgradeVars>>

ProposeUpgrade(hash) ==
    /\ pendingUpgrade' = {[to |-> hash, eligibleAt |-> now + UpgradeTimelock]}
    /\ UNCHANGED <<now, wasm, rotationVars>>

\* The staged code is taken to be a version of the same contract.
ExecuteUpgrade ==
    \E upgrade \in pendingUpgrade :
        /\ now >= upgrade.eligibleAt
        /\ wasm' = upgrade.to
        /\ pendingUpgrade' = {}
        /\ UNCHANGED <<now, rotationVars>>

CancelUpgrade ==
    /\ pendingUpgrade' = {}
    /\ UNCHANGED <<now, wasm, rotationVars>>

AdminNext ==
    \/ \E newAdmin \in Addresses : TransferAdmin(newAdmin)
    \/ AcceptAdmin
    \/ CancelAdminTransfer
    \/ \E hash \in WasmHashes : ProposeUpgrade(hash)
    \/ ExecuteUpgrade
    \/ CancelUpgrade
=============================================================================
