----------------------------- MODULE ZkVerifier -----------------------------
(***************************************************************************)
(* The on-chain record of KYC verifications: the admin attests credential  *)
(* commitments and sets the policy, a wallet spends a nullifier of a       *)
(* commitment to be verified for a number of ledgers, and the admin may    *)
(* take that back.  The contract checks no proof itself; the public inputs *)
(* are what a wallet claims.  Entries live in persistent storage: one past *)
(* its lifetime is archived, no call can use it until somebody restores    *)
(* it, and it is present all the same.  So a spent nullifier never expires,*)
(* whatever the comments at NULLIFIER_TTL_LEDGERS and ScopedNullifier say. *)
(***************************************************************************)
EXTENDS Integers, Sequences

CONSTANTS
    Wallets, Commitments, Nullifiers,
    Policies,          \* [min_tier, allowed_country] pairs the admin may set
    Tiers, Countries,  \* public_inputs[0] and [1]
    Validity,          \* VERIFICATION_VALIDITY_LEDGERS
    EntryTtl,          \* NULLIFIER_TTL_LEDGERS
    MinTtl,            \* ledgers the network gives a new or restored entry
    MaxEvents, MaxLedger   \* bounds of the instance

ASSUME ZkAssumption ==
    /\ Tiers \subseteq Nat
    /\ Policies \subseteq [min_tier : Nat, allowed_country : Countries]
    /\ Validity \in Nat /\ EntryTtl \in Nat /\ MinTtl \in Nat \ {0}
    /\ MaxEvents \in Nat /\ MaxLedger \in Nat

VARIABLES
    ledger,       \* env.ledger().sequence()
    paused,       \* DataKey::Paused
    policy,       \* DataKey::Policy: {} or the one policy in force
    attested,     \* DataKey::AttestedCommitment
    spent,        \* DataKey::ScopedNullifier: <<commitment, nullifier>> pairs
    verified,     \* DataKey::Verified: {} or the one record of each wallet
    liveUntil,    \* the last ledger before the entry of a key is archived
    events        \* the events published so far, with the claims behind them

vars == <<ledger, paused, policy, attested, spent, verified, liveUntil, events>>

VerificationRecord ==
    [expires_at_ledger : Nat, nullifier : Nullifiers, policy : Policies]

AttestedCommitment(commitment) == <<"attested", commitment>>
ScopedNullifier(commitment, nullifier) == <<"spent", commitment, nullifier>>
Verified(wallet) == <<"verified", wallet>>

\* The keys of the entries in persistent storage, and of those present.
DataKeys ==
    {AttestedCommitment(c) : c \in Commitments}
    \cup {ScopedNullifier(c, n) : c \in Commitments, n \in Nullifiers}
    \cup {Verified(w) : w \in Wallets}

Present ==
    {AttestedCommitment(c) : c \in attested}
    \cup {ScopedNullifier(pair[1], pair[2]) : pair \in spent}
    \cup {Verified(w) : w \in {w \in Wallets : verified[w] # {}}}

Event ==
    [kind : {"pol_set"}, policy : Policies]
    \cup [kind : {"attested"}, commitment : Commitments]
    \cup [kind : {"verified"}, user : Wallets, policy : Policies, expires_at_ledger : Nat,
          pair : Commitments \X Nullifiers, tier : Tiers, country : Countries]
    \cup [kind : {"revoked"}, user : Wallets]

Init ==
    /\ ledger = 1
    /\ paused = FALSE
    /\ policy = {}
    /\ attested = {}
    /\ spent = {}
    /\ verified = [w \in Wallets |-> {}]
    /\ liveUntil = [key \in DataKeys |-> 0]
    /\ events = <<>>

-----------------------------------------------------------------------------
Publish(event) ==
    /\ Len(events) < MaxEvents
    /\ events' = Append(events, event)

Live(key) == ledger <= liveUntil[key]

\* extend_ttl, which leaves an entry alone with more than half of ttl to go.
Extended(until, ttl) == IF until - ledger <= ttl \div 2 THEN ledger + ttl ELSE until

NewEntry == ledger + MinTtl - 1

\* set_policy works while the contract is paused.
SetPolicy(new) ==
    /\ policy' = {new}
    /\ Publish([kind |-> "pol_set", policy |-> new])
    /\ UNCHANGED <<ledger, paused, attested, spent, verified, liveUntil>>

RegisterCommitment(commitment) ==
    /\ ~paused
    /\ commitment \notin attested
    /\ attested' = attested \cup {commitment}
    /\ liveUntil' = [liveUntil EXCEPT
            ![AttestedCommitment(commitment)] = Extended(NewEntry, EntryTtl)]
    /\ Publish([kind |-> "attested", commitment |-> commitment])
    /\ UNCHANGED <<ledger, paused, policy, spent, verified>>

\* is_attested, a read by anyone that keeps the attestation alive.
IsAttested(commitment) ==
    /\ commitment \in attested /\ Live(AttestedCommitment(commitment))
    /\ liveUntil' = [liveUntil EXCEPT ![AttestedCommitment(commitment)] = Extended(@, EntryTtl)]
    /\ UNCHANGED <<ledger, paused, policy, attested, spent, verified, events>>

\* AZ-001: the claim meets the policy.
Meets(tier, country, p) == tier >= p.min_tier /\ country = p.allowed_country

\* Mutant: in temporary storage, a pair past its lifetime is unspent again.
UnspentOrExpired(commitment, nullifier) ==
    <<commitment, nullifier>> \in spent => ~Live(ScopedNullifier(commitment, nullifier))

Unspent(commitment, nullifier) == <<commitment, nullifier>> \notin spent

\* verify reads the attestation and overwrites the wallet's record, and can
\* do neither to an archived entry.
EntriesLive(wallet, commitment) ==
    /\ Live(AttestedCommitment(commitment))
    /\ verified[wallet] # {} => Live(Verified(wallet))

\* The pair's entry is new; the wallet's record may replace another.
KeepEntries(wallet, commitment, nullifier) ==
    LET until == IF verified[wallet] = {} THEN NewEntry ELSE liveUntil[Verified(wallet)]
    IN  liveUntil' = [liveUntil EXCEPT
            ![ScopedNullifier(commitment, nullifier)] = Extended(NewEntry, EntryTtl),
            ![Verified(wallet)] = Extended(until, Validity)]

\* Mutant: until a policy is set, every claim will do.
VerifyWithoutPolicy(wallet, commitment, nullifier, tier, country) ==
    /\ ~paused
    /\ commitment \in attested /\ EntriesLive(wallet, commitment)
    /\ Unspent(commitment, nullifier)
    /\ \E p \in Policies :
         /\ \A q \in policy : p = q /\ Meets(tier, country, q)
         /\ verified' = [verified EXCEPT ![wallet] =
                {[expires_at_ledger |-> ledger + Validity,
                  nullifier |-> nullifier, policy |-> p]}]
         /\ Publish([kind |-> "verified", user |-> wallet, policy |-> p,
                     expires_at_ledger |-> ledger + Validity,
                     pair |-> <<commitment, nullifier>>, tier |-> tier, country |-> country])
    /\ spent' = spent \cup {<<commitment, nullifier>>}
    /\ KeepEntries(wallet, commitment, nullifier)
    /\ UNCHANGED <<ledger, paused, policy, attested>>

\* verify, for a claim that names the calling wallet (AZ-032).
Verify(wallet, commitment, nullifier, tier, country) ==
    /\ ~paused
    /\ commitment \in attested /\ EntriesLive(wallet, commitment)
    /\ Unspent(commitment, nullifier)
    /\ \E p \in policy :
         /\ Meets(tier, country, p)
         /\ verified' = [verified EXCEPT ![wallet] =
                {[expires_at_ledger |-> ledger + Validity,
                  nullifier |-> nullifier, policy |-> p]}]
         /\ Publish([kind |-> "verified", user |-> wallet, policy |-> p,
                     expires_at_ledger |-> ledger + Validity,
                     pair |-> <<commitment, nullifier>>, tier |-> tier, country |-> country])
    /\ spent' = spent \cup {<<commitment, nullifier>>}
    /\ KeepEntries(wallet, commitment, nullifier)
    /\ UNCHANGED <<ledger, paused, policy, attested>>

\* is_verified; a record that is archived has to be restored to be read.
IsVerified(wallet) ==
    \E record \in verified[wallet] : ledger < record.expires_at_ledger

\* revoke_verification, of an expired record too; without one it changes
\* nothing and says so.
RevokeVerification(wallet) ==
    /\ verified[wallet] # {} /\ Live(Verified(wallet))
    /\ verified' = [verified EXCEPT ![wallet] = {}]
    /\ liveUntil' = [liveUntil EXCEPT ![Verified(wallet)] = 0]
    /\ Publish([kind |-> "revoked", user |-> wallet])
    /\ UNCHANGED <<ledger, paused, policy, attested, spent>>

SetPaused(value) ==
    /\ paused' = value
    /\ UNCHANGED <<ledger, policy, attested, spent, verified, liveUntil, events>>

LedgerClose ==
    /\ ledger < MaxLedger
    /\ ledger' = ledger + 1
    /\ UNCHANGED <<paused, policy, attested, spent, verified, liveUntil, events>>

\* External: whoever pays for it restores an archived entry.
Restore(key) ==
    /\ key \in Present /\ ~Live(key)
    /\ liveUntil' = [liveUntil EXCEPT ![key] = NewEntry]
    /\ UNCHANGED <<ledger, paused, policy, attested, spent, verified, events>>

AdminStep ==
    \/ \E new \in Policies : SetPolicy(new)
    \/ \E commitment \in Commitments : RegisterCommitment(commitment)
    \/ \E wallet \in Wallets : RevokeVerification(wallet)
    \/ \E value \in BOOLEAN : SetPaused(value)

WalletStep ==
    \E wallet \in Wallets, commitment \in Commitments, nullifier \in Nullifiers,
       tier \in Tiers, country \in Countries :
        Verify(wallet, commitment, nullifier, tier, country)

EntryStep ==
    \/ \E commitment \in Commitments : IsAttested(commitment)
    \/ \E key \in DataKeys : Restore(key)

Next == AdminStep \/ WalletStep \/ EntryStep \/ LedgerClose

Spec == Init /\ [][Next]_vars

-----------------------------------------------------------------------------
(* Properties. *)

ZkTypeOK ==
    /\ ledger \in Nat
    /\ paused \in BOOLEAN
    /\ policy \subseteq Policies
    /\ attested \subseteq Commitments
    /\ spent \subseteq Commitments \X Nullifiers
    /\ verified \in [Wallets -> SUBSET VerificationRecord]
    /\ liveUntil \in [DataKeys -> Nat]
    /\ events \in Seq(Event)

Verification(i) == i \in DOMAIN events /\ events[i].kind = "verified"

\* AZ-014: over revocations, expired records, archived and restored entries,
\* pauses and other wallets, no pair of a commitment and a nullifier ever
\* verifies twice.  Spent is the pair: under another commitment the same
\* nullifier verifies again, which test_verify_nullifier_reused_panics
\* expects to be refused.
NullifierSpentOnce ==
    \A i, j \in DOMAIN events :
        Verification(i) /\ Verification(j) /\ events[i].pair = events[j].pair => i = j

\* Event i is the last about this wallet.
LastAbout(wallet, i) ==
    /\ events[i].kind \in {"verified", "revoked"} /\ events[i].user = wallet
    /\ \A j \in i + 1 .. Len(events) :
         events[j].kind \in {"verified", "revoked"} => events[j].user # wallet

\* AZ-001, AZ-002: at event i, the policy that was last set is the one the
\* event names, and the commitment had been attested.
WellFounded(i) ==
    /\ \E j \in 1 .. i - 1 :
         /\ events[j].kind = "pol_set" /\ events[j].policy = events[i].policy
         /\ \A k \in j + 1 .. i - 1 : events[k].kind # "pol_set"
    /\ \E j \in 1 .. i - 1 :
         events[j].kind = "attested" /\ events[j].commitment = events[i].pair[1]
    /\ Meets(events[i].tier, events[i].country, events[i].policy)

\* is_verified says what the published events say: a wallet is verified
\* exactly while the last event about it is a verification that was well
\* founded when it was made and has not reached its deadline.  A later
\* policy or a pause does not end it; an expiry or a revocation does.
StandingEarned ==
    \A wallet \in Wallets :
        IsVerified(wallet) <=>
            \E i \in DOMAIN events :
                /\ Verification(i)
                /\ LastAbout(wallet, i)
                /\ WellFounded(i)
                /\ ledger < events[i].expires_at_ledger
=============================================================================
