------------------------------- MODULE Escrow -------------------------------
(***************************************************************************)
(* The escrow contract: a payer locks ACBU for a payee under an id of its  *)
(* own.  Entries live in temporary storage, whose lifetime is counted in   *)
(* ledgers, while the term of an escrow is counted in seconds.  An entry   *)
(* past its lifetime is gone for the contract; the model keeps it, so that *)
(* properties can speak of escrows nobody has settled.                     *)
(***************************************************************************)
EXTENDS AdminRoles, FiniteSets, Functions

CONSTANTS
    EscrowIds,           \* ids a payer may use
    Tokens, InitToken,   \* token contracts the admin may configure
    Amounts,             \* amounts somebody may lock
    MinEscrowAmount,     \* MIN_ESCROW_AMOUNT
    MaxEscrowLifetime,   \* MAX_ESCROW_LIFETIME, seconds
    EntryTtl,            \* ESCROW_TTL_THRESHOLD_MAX_LEDGERS
    NominalGap,          \* the 5 seconds of a ledger the constants go by
    LedgerGaps,          \* seconds one ledger close may add to the clock
    TokenSupply,         \* bound: what exists of each token
    MaxNow               \* bound: no ledger closes beyond it

ASSUME EscrowAssumption ==
    /\ InitToken \in Tokens
    /\ Amounts \subseteq Nat
    /\ MinEscrowAmount \in Nat \ {0}
    /\ MaxEscrowLifetime \in Nat /\ EntryTtl \in Nat
    /\ NominalGap \in Nat \ {0}
    /\ LedgerGaps \subseteq Nat \ {0}
    /\ TokenSupply \in Nat /\ MaxNow \in Nat

\* 518_400 ledgers of 5 seconds are the 30 days of the term, and no ledger is
\* faster.  Only KeptForTerm rests on this.
ASSUME NominalPace ==
    /\ \A gap \in LedgerGaps : gap >= NominalGap
    /\ MaxEscrowLifetime <= NominalGap * EntryTtl

VARIABLES
    ledger,     \* env.ledger().sequence()
    paused,     \* the phase is Paused
    token,      \* DATA_KEY.acbu_token
    held,       \* held[t]: what the contract owns of token t
    escrows,    \* escrows[payer, id]: the entry last stored, if any
    switched    \* history: the token was replaced while an escrow was open

storeVars == <<ledger, paused, token, held, escrows, switched>>
vars == <<now, admin, pendingAdmin, wasm, pendingUpgrade, storeVars>>

Keys == Addresses \X EscrowIds
Entry == [payee : Addresses, amount : Nat, expiry : Nat, liveUntil : Nat]

EscrowTypeOK ==
    /\ AdminTypeOK
    /\ ledger \in Nat
    /\ paused \in BOOLEAN /\ switched \in BOOLEAN
    /\ token \in Tokens
    /\ held \in [Tokens -> Nat]
    /\ \A k \in DOMAIN escrows : k \in Keys /\ escrows[k] \in Entry

Init ==
    /\ AdminInit
    /\ ledger = 1
    /\ paused = FALSE /\ switched = FALSE
    /\ token = InitToken
    /\ held = [t \in Tokens |-> 0]
    /\ escrows = <<>>

\* What storage().temporary().has and get still find.
Live(k) == k \in DOMAIN escrows /\ ledger <= escrows[k].liveUntil
Expired(k) == now > escrows[k].expiry

-----------------------------------------------------------------------------
(* Entry points.  The payer signs create, with the payee, and release;     *)
(* whose signature refund needs depends on the term.                       *)

\* Mutant: one ledger short of the term.
NewEntryShortLived(payee, amount) ==
    [payee |-> payee, amount |-> amount, expiry |-> now + MaxEscrowLifetime,
     liveUntil |-> ledger + EntryTtl - 1]

NewEntry(payee, amount) ==
    [payee |-> payee, amount |-> amount, expiry |-> now + MaxEscrowLifetime,
     liveUntil |-> ledger + EntryTtl]

Create(payer, payee, amount, id) ==
    /\ ~paused
    /\ amount >= MinEscrowAmount
    /\ payer # payee
    /\ ~Live(<<payer, id>>)
    /\ held[token] + amount <= TokenSupply
    /\ escrows' = [k \in DOMAIN escrows \cup {<<payer, id>>} |->
         IF k = <<payer, id>> THEN NewEntry(payee, amount) ELSE escrows[k]]
    /\ held' = [held EXCEPT ![token] = @ + amount]
    /\ UNCHANGED <<now, rotationVars, upgradeVars, ledger, paused, token, switched>>

\* Mutant: the entry stays when the payee is paid.
SettleKeepingEntry(k) ==
    /\ Live(k)
    /\ escrows[k].amount <= held[token]
    /\ held' = [held EXCEPT ![token] = @ - escrows[k].amount]
    /\ UNCHANGED <<now, rotationVars, upgradeVars, ledger, paused, token, escrows, switched>>

\* Mutant: the balance of the configured token is not looked at.
SettleUncovered(k) ==
    /\ Live(k)
    /\ escrows' = Restrict(escrows, DOMAIN escrows \ {k})
    /\ held' = [held EXCEPT ![token] = @ - escrows[k].amount]
    /\ UNCHANGED <<now, rotationVars, upgradeVars, ledger, paused, token, switched>>

\* The entry is removed and its amount leaves the contract, or neither.
Settle(k) ==
    /\ Live(k)
    /\ escrows[k].amount <= held[token]
    /\ escrows' = Restrict(escrows, DOMAIN escrows \ {k})
    /\ held' = [held EXCEPT ![token] = @ - escrows[k].amount]
    /\ UNCHANGED <<now, rotationVars, upgradeVars, ledger, paused, token, switched>>

\* To the payee, on the payer's word, until the term is over.
Release(payer, id) ==
    /\ ~paused
    /\ Settle(<<payer, id>>)
    /\ ~Expired(<<payer, id>>)

\* Back to the payer: on the admin's word during the term, on the payer's
\* own once it is over.
Refund(signer, payer, id) ==
    /\ ~paused
    /\ Settle(<<payer, id>>)
    /\ signer = IF Expired(<<payer, id>>) THEN payer ELSE admin

SetPaused(value) ==
    /\ paused' = value
    /\ UNCHANGED <<now, rotationVars, upgradeVars, ledger, token, held, escrows, switched>>

UpdateAcbuToken(newToken) ==
    /\ token' = newToken
    /\ switched' = (switched \/ (newToken # token /\ \E k \in DOMAIN escrows : Live(k)))
    /\ UNCHANGED <<now, rotationVars, upgradeVars, ledger, paused, held, escrows>>

LedgerClose ==
    \E gap \in LedgerGaps :
        /\ now + gap <= MaxNow
        /\ now' = now + gap
        /\ ledger' = ledger + 1
        /\ UNCHANGED <<rotationVars, upgradeVars, paused, token, held, escrows, switched>>

AdminStep == AdminNext /\ UNCHANGED storeVars

PayerStep ==
    \E payer \in Addresses, id \in EscrowIds :
        \/ \E payee \in Addresses, amount \in Amounts : Create(payer, payee, amount, id)
        \/ Release(payer, id)
        \/ \E signer \in Addresses : Refund(signer, payer, id)

Next ==
    \/ PayerStep
    \/ \E value \in BOOLEAN : SetPaused(value)
    \/ \E newToken \in Tokens : UpdateAcbuToken(newToken)
    \/ AdminStep
    \/ LedgerClose

Spec == Init /\ [][Next]_vars

-----------------------------------------------------------------------------
(* Properties. *)

\* The contract can pay every escrow still open: creating, settling, expiry
\* and reuse of an id leave it at least what open escrows lock, as long as
\* the admin has not replaced the token under an open escrow.
Solvent ==
    LET open == {k \in DOMAIN escrows : Live(k)}
        locked == [k \in open |-> escrows[k].amount]
    IN  ~switched => SumFunction(locked) <= held[token]

\* create: entries are "kept alive for the full escrow window".  Their life is
\* counted in ledgers and the window in seconds; while no ledger is faster
\* than nominal, none is lost that could still be released.
KeptForTerm == \A k \in DOMAIN escrows : Expired(k) \/ Live(k)

Announced(pending, delay) ==
    {[to |-> p.to, since |-> p.eligibleAt - delay] : p \in pending}

Rotation == INSTANCE Timelock WITH
    Values <- Addresses, InitValue <- InitAdmin, Delay <- AdminTimelock,
    clock <- now, current <- admin,
    announced <- Announced(pendingAdmin, AdminTimelock)

\* transfer_admin, accept_admin, cancel_admin_transfer: an admin takes over
\* only after a full timelock as the announced successor.
RotationTimelocked == Rotation!TimelockSpec

Upgrade == INSTANCE Timelock WITH
    Values <- WasmHashes, InitValue <- InitWasm, Delay <- UpgradeTimelock,
    clock <- now, current <- wasm,
    announced <- Announced(pendingUpgrade, UpgradeTimelock)

\* propose_upgrade, execute_upgrade, cancel_upgrade: so does code, also if
\* other code is staged in the meantime.
UpgradeTimelocked == Upgrade!TimelockSpec

\* Both: nothing takes effect that has not stood announced, unreplaced and
\* uncancelled, for its timelock.
AnnouncementsTimelocked == RotationTimelocked /\ UpgradeTimelocked
=============================================================================
