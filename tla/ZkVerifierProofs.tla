-------------------------- MODULE ZkVerifierProofs --------------------------
(***************************************************************************)
(* Proofs about ZkVerifier, for any wallets, credentials, policies and     *)
(* length of a verification, and over any number of events.                *)
(***************************************************************************)
EXTENDS ZkVerifier, TLAPS

-----------------------------------------------------------------------------
(* Publishing. *)

\* Publishing adds one event after those that are there.
LEMMA Published ==
    ASSUME events \in Seq(Event), NEW event, Publish(event)
    PROVE  LET n == Len(events) + 1
           IN  /\ n \in Nat /\ n \notin DOMAIN events
               /\ DOMAIN events = 1 .. Len(events)
               /\ DOMAIN events' = DOMAIN events \cup {n} /\ Len(events') = n
               /\ events'[n] = event
               /\ \A i \in DOMAIN events : events'[i] = events[i]
  BY DEF Publish

\* What an event is about, and what it rests on, does not change later; it
\* is the last about a wallet until there is one about the same wallet.
LEMMA EventsStay ==
    ASSUME events \in Seq(Event), NEW event, Publish(event), NEW i \in DOMAIN events
    PROVE  /\ Verification(i)' <=> Verification(i)
           /\ WellFounded(i)' <=> WellFounded(i)
           /\ \A wallet : LastAbout(wallet, i)' <=>
                /\ LastAbout(wallet, i)
                /\ ~(event.kind \in {"verified", "revoked"} /\ event.user = wallet)
  <1> DEFINE n == Len(events) + 1
  <1>1. /\ n \in Nat /\ n \notin DOMAIN events
        /\ DOMAIN events = 1 .. Len(events)
        /\ DOMAIN events' = DOMAIN events \cup {n} /\ Len(events') = n
        /\ events'[n] = event
        /\ \A j \in DOMAIN events : events'[j] = events[j]
    BY Published
  <1>2. Len(events) \in Nat
    OBVIOUS
  <1> HIDE DEF n
  <1>3. Verification(i)' <=> Verification(i)
    BY <1>1 DEF Verification
  <1>4. \A j \in 1 .. i : j \in DOMAIN events
    BY <1>1, <1>2
  <1>5. WellFounded(i)' <=> WellFounded(i)
    <2>1. \A j \in 1 .. i - 1 : events'[j] = events[j]
      BY <1>1, <1>2, <1>4
    <2>2. \A j \in 1 .. i - 1 : \A k \in j + 1 .. i - 1 : events'[k] = events[k]
      BY <2>1, <1>1, <1>2
    <2>3. events'[i] = events[i]
      BY <1>1
    <2> QED BY <2>1, <2>2, <2>3 DEF WellFounded
  <1>6. ASSUME NEW wallet
        PROVE  LastAbout(wallet, i)' <=>
                /\ LastAbout(wallet, i)
                /\ ~(event.kind \in {"verified", "revoked"} /\ event.user = wallet)
    <2>1. i + 1 .. Len(events') = (i + 1 .. Len(events)) \cup {n}
      BY <1>1, <1>2 DEF n
    <2>2. \A j \in i + 1 .. Len(events) : events'[j] = events[j]
      BY <1>1, <1>2
    <2>3. events'[i] = events[i]
      BY <1>1
    <2> QED BY <1>1, <2>1, <2>2, <2>3 DEF LastAbout
  <1> QED BY <1>3, <1>5, <1>6

-----------------------------------------------------------------------------
(* Type correctness. *)

\* An entry lives until some ledger, extended or new.
LEMMA LifetimeType ==
    ASSUME ZkTypeOK
    PROVE  /\ NewEntry \in Nat
           /\ \A until \in Nat, ttl \in Nat : Extended(until, ttl) \in Nat
  <1>1. NewEntry \in Nat
    BY ZkAssumption DEF ZkTypeOK, NewEntry
  <1>2. ASSUME NEW until \in Nat, NEW ttl \in Nat PROVE Extended(until, ttl) \in Nat
    BY DEF ZkTypeOK, Extended
  <1> QED BY <1>1, <1>2

\* A verification gives the entries of its pair and its wallet a lifetime.
LEMMA KeepEntriesType ==
    ASSUME ZkTypeOK, NEW wallet \in Wallets, NEW commitment \in Commitments,
           NEW nullifier \in Nullifiers, KeepEntries(wallet, commitment, nullifier)
    PROVE  liveUntil' \in [DataKeys -> Nat]
  <1> DEFINE until == IF verified[wallet] = {} THEN NewEntry ELSE liveUntil[Verified(wallet)]
  <1>1. ScopedNullifier(commitment, nullifier) \in DataKeys /\ Verified(wallet) \in DataKeys
    BY DEF DataKeys
  <1>2. until \in Nat
    BY <1>1, LifetimeType DEF ZkTypeOK
  <1>3. PICK pairUntil : pairUntil = Extended(NewEntry, EntryTtl)
    OBVIOUS
  <1>4. PICK recordUntil : recordUntil = Extended(until, Validity)
    OBVIOUS
  <1>5. pairUntil \in Nat /\ recordUntil \in Nat
    BY <1>2, <1>3, <1>4, LifetimeType, ZkAssumption
  <1>6. liveUntil' = [liveUntil EXCEPT ![ScopedNullifier(commitment, nullifier)] = pairUntil,
                                       ![Verified(wallet)] = recordUntil]
    BY <1>3, <1>4 DEF KeepEntries
  <1> QED BY <1>5, <1>6 DEF ZkTypeOK

\* A step leads from a well-typed state to a well-typed one.
LEMMA StepType ==
    ASSUME ZkTypeOK, [Next]_vars
    PROVE  ZkTypeOK'
  <1>1. ASSUME NEW event \in Event, Publish(event)
        PROVE  events' \in Seq(Event)
    BY <1>1 DEF ZkTypeOK, Publish
  <1>2. ASSUME NEW new \in Policies, SetPolicy(new)
        PROVE  ZkTypeOK'
    <2>1. [kind |-> "pol_set", policy |-> new] \in Event
      BY DEF Event
    <2> QED BY <1>1, <1>2, <2>1 DEF SetPolicy, ZkTypeOK
  <1>3. ASSUME NEW commitment \in Commitments, RegisterCommitment(commitment)
        PROVE  ZkTypeOK'
    <2>1. [kind |-> "attested", commitment |-> commitment] \in Event
      BY DEF Event
    <2>2. PICK until : until = Extended(NewEntry, EntryTtl)
      OBVIOUS
    <2>3. liveUntil' = [liveUntil EXCEPT ![AttestedCommitment(commitment)] = until]
          /\ until \in Nat
      BY <1>3, <2>2, LifetimeType, ZkAssumption DEF RegisterCommitment
    <2> QED BY <1>1, <1>3, <2>1, <2>3 DEF RegisterCommitment, ZkTypeOK
  <1>4. ASSUME NEW wallet \in Wallets, RevokeVerification(wallet)
        PROVE  ZkTypeOK'
    <2>1. [kind |-> "revoked", user |-> wallet] \in Event
      BY DEF Event
    <2> QED BY <1>1, <1>4, <2>1 DEF RevokeVerification, ZkTypeOK
  <1>5. ASSUME NEW wallet \in Wallets, NEW commitment \in Commitments,
               NEW nullifier \in Nullifiers, NEW tier \in Tiers, NEW country \in Countries,
               Verify(wallet, commitment, nullifier, tier, country)
        PROVE  ZkTypeOK'
    <2>1. PICK p \in policy :
            /\ verified' = [verified EXCEPT ![wallet] =
                  {[expires_at_ledger |-> ledger + Validity,
                    nullifier |-> nullifier, policy |-> p]}]
            /\ Publish([kind |-> "verified", user |-> wallet, policy |-> p,
                        expires_at_ledger |-> ledger + Validity,
                        pair |-> <<commitment, nullifier>>, tier |-> tier,
                        country |-> country])
      BY <1>5 DEF Verify
    <2>2. p \in Policies /\ ledger + Validity \in Nat
      BY <2>1, ZkAssumption DEF ZkTypeOK
    <2>3. [kind |-> "verified", user |-> wallet, policy |-> p,
           expires_at_ledger |-> ledger + Validity,
           pair |-> <<commitment, nullifier>>, tier |-> tier, country |-> country] \in Event
      BY <2>2 DEF Event
    <2>4. events' \in Seq(Event)
      BY <1>1, <2>1, <2>3
    <2>5. [expires_at_ledger |-> ledger + Validity,
           nullifier |-> nullifier, policy |-> p] \in VerificationRecord
      BY <2>2 DEF VerificationRecord
    <2>6. verified' \in [Wallets -> SUBSET VerificationRecord]
      BY <2>1, <2>5 DEF ZkTypeOK
    <2>7. liveUntil' \in [DataKeys -> Nat]
      BY <1>5, KeepEntriesType DEF Verify
    <2> QED BY <1>5, <2>4, <2>6, <2>7 DEF Verify, ZkTypeOK
  <1>6. ASSUME NEW value \in BOOLEAN, SetPaused(value)
        PROVE  ZkTypeOK'
    BY <1>6 DEF SetPaused, ZkTypeOK
  <1>7. CASE LedgerClose
    BY <1>7 DEF LedgerClose, ZkTypeOK
  <1>8. CASE UNCHANGED vars
    BY <1>8 DEF vars, ZkTypeOK
  <1>9. CASE AdminStep
    BY <1>2, <1>3, <1>4, <1>6, <1>9 DEF AdminStep
  <1>10. CASE WalletStep
    BY <1>5, <1>10 DEF WalletStep
  <1>11. ASSUME NEW commitment \in Commitments, IsAttested(commitment)
         PROVE  ZkTypeOK'
    <2>1. AttestedCommitment(commitment) \in DataKeys
      BY DEF DataKeys
    <2>2. PICK until : until = Extended(liveUntil[AttestedCommitment(commitment)], EntryTtl)
      OBVIOUS
    <2>3. liveUntil' = [liveUntil EXCEPT ![AttestedCommitment(commitment)] = until]
          /\ until \in Nat
      BY <1>11, <2>1, <2>2, LifetimeType, ZkAssumption DEF IsAttested, ZkTypeOK
    <2> QED BY <1>11, <2>3 DEF IsAttested, ZkTypeOK
  <1>12. ASSUME NEW key \in DataKeys, Restore(key)
         PROVE  ZkTypeOK'
    BY <1>12, LifetimeType DEF Restore, ZkTypeOK
  <1>13. CASE EntryStep
    BY <1>11, <1>12, <1>13 DEF EntryStep
  <1> QED BY <1>7, <1>8, <1>9, <1>10, <1>13 DEF Next

\* The initial state is well typed.
LEMMA InitType == Init => ZkTypeOK
  <1> SUFFICES ASSUME Init PROVE ZkTypeOK
    OBVIOUS
  <1>1. <<>> \in Seq(Event)
    OBVIOUS
  <1>2. [w \in Wallets |-> {}] \in [Wallets -> SUBSET VerificationRecord]
    OBVIOUS
  <1> QED BY <1>1, <1>2 DEF Init, ZkTypeOK

\* Every state of the verifier is well typed.
THEOREM TypeCorrect == Spec => []ZkTypeOK
  <1>1. ZkTypeOK /\ [Next]_vars => ZkTypeOK'
    BY StepType
  <1> QED BY <1>1, InitType, PTL DEF Spec

-----------------------------------------------------------------------------
(* The inductive invariant: what is stored is what the events say. *)

\* Every pair that verified is spent.
PairsSpent == \A i \in DOMAIN events : Verification(i) => events[i].pair \in spent

\* The policy in force is the one last set.
PolicyAnnounced ==
    \A p \in policy : \E j \in DOMAIN events :
        /\ events[j].kind = "pol_set" /\ events[j].policy = p
        /\ \A k \in j + 1 .. Len(events) : events[k].kind # "pol_set"

CommitmentsAnnounced ==
    \A commitment \in attested : \E j \in DOMAIN events :
        events[j].kind = "attested" /\ events[j].commitment = commitment

\* Every verification was well founded, and a wallet has a record with its
\* deadline exactly while it is the last event about the wallet.
StandsBehind(i, record) == events[i].expires_at_ledger = record.expires_at_ledger

RecordsAnnounced ==
    /\ \A i \in DOMAIN events : Verification(i) => WellFounded(i)
    /\ \A wallet \in Wallets :
         /\ \A record \in verified[wallet] : \E i \in DOMAIN events :
              Verification(i) /\ LastAbout(wallet, i) /\ StandsBehind(i, record)
         /\ \A i \in DOMAIN events : Verification(i) /\ LastAbout(wallet, i) =>
              \E record \in verified[wallet] : StandsBehind(i, record)

Inv ==
    /\ ZkTypeOK
    /\ PairsSpent /\ NullifierSpentOnce
    /\ PolicyAnnounced /\ CommitmentsAnnounced /\ RecordsAnnounced

\* Nothing is stored and nothing has been said.
LEMMA InitInv == Init => Inv
  <1> SUFFICES ASSUME Init PROVE Inv
    OBVIOUS
  <1>1. /\ DOMAIN events = {} /\ policy = {} /\ attested = {}
        /\ \A wallet \in Wallets : verified[wallet] = {}
    BY DEF Init
  <1> QED BY <1>1, InitType DEF Inv, PairsSpent, NullifierSpentOnce, PolicyAnnounced,
                CommitmentsAnnounced, RecordsAnnounced

\* An event that is not about a verification leaves what is said of wallets
\* that it does not name.
LEMMA OtherEvent ==
    ASSUME Inv, NEW event, Publish(event), event.kind # "verified"
    PROVE  /\ \A i \in DOMAIN events' : Verification(i)' =>
                i \in DOMAIN events /\ Verification(i)
           /\ \A i \in DOMAIN events : Verification(i)' <=> Verification(i)
           /\ NullifierSpentOnce'
           /\ \A i \in DOMAIN events' : Verification(i)' => WellFounded(i)'
           /\ spent \subseteq spent' => PairsSpent'
  <1>1. events \in Seq(Event)
    BY DEF Inv, ZkTypeOK
  <1>0. PICK n : n = Len(events) + 1
    OBVIOUS
  <1>2. /\ n \notin DOMAIN events
        /\ DOMAIN events' = DOMAIN events \cup {n}
        /\ events'[n] = event
        /\ \A i \in DOMAIN events : events'[i] = events[i]
    BY <1>0, <1>1, Published
  <1>3. \A i \in DOMAIN events : /\ Verification(i)' <=> Verification(i)
                                 /\ WellFounded(i)' <=> WellFounded(i)
    BY <1>1, EventsStay
  <1>4. ~Verification(n)'
    BY <1>2 DEF Verification
  <1>5. \A i \in DOMAIN events' : Verification(i)' => i \in DOMAIN events /\ Verification(i)
    BY <1>2, <1>3, <1>4
  <1>6. NullifierSpentOnce'
    BY <1>2, <1>5 DEF Inv, NullifierSpentOnce
  <1>7. \A i \in DOMAIN events' : Verification(i)' => WellFounded(i)'
    BY <1>3, <1>5 DEF Inv, RecordsAnnounced
  <1>8. spent \subseteq spent' => PairsSpent'
    BY <1>2, <1>5 DEF Inv, PairsSpent
  <1> QED BY <1>3, <1>5, <1>6, <1>7, <1>8

\* What the events say of a wallet stays while no event is about it.
LEMMA WalletKept ==
    ASSUME Inv, NEW event, Publish(event), NEW wallet \in Wallets,
           event.kind \in {"verified", "revoked"} => event.user # wallet,
           verified'[wallet] = verified[wallet]
    PROVE  /\ \A record \in verified'[wallet] : \E i \in DOMAIN events' :
                Verification(i)' /\ LastAbout(wallet, i)' /\ StandsBehind(i, record)'
           /\ \A i \in DOMAIN events' : Verification(i)' /\ LastAbout(wallet, i)' =>
                \E record \in verified'[wallet] : StandsBehind(i, record)'
  <1>1. events \in Seq(Event)
    BY DEF Inv, ZkTypeOK
  <1>0. PICK n : n = Len(events) + 1
    OBVIOUS
  <1>2. /\ n \notin DOMAIN events
        /\ DOMAIN events' = DOMAIN events \cup {n}
        /\ events'[n] = event
        /\ \A i \in DOMAIN events : events'[i] = events[i]
    BY <1>0, <1>1, Published
  <1>3. \A i \in DOMAIN events :
          /\ Verification(i)' <=> Verification(i)
          /\ LastAbout(wallet, i)' <=> LastAbout(wallet, i)
    BY <1>1, EventsStay
  <1>4. ~LastAbout(wallet, n)'
    BY <1>2 DEF LastAbout
  <1>5. ASSUME NEW record \in verified'[wallet]
        PROVE  \E i \in DOMAIN events' :
                 Verification(i)' /\ LastAbout(wallet, i)' /\ StandsBehind(i, record)'
    <2>1. PICK i \in DOMAIN events :
              Verification(i) /\ LastAbout(wallet, i) /\ StandsBehind(i, record)
      BY <1>5 DEF Inv, RecordsAnnounced
    <2> QED BY <1>2, <1>3, <2>1 DEF StandsBehind
  <1>6. ASSUME NEW i \in DOMAIN events', Verification(i)', LastAbout(wallet, i)'
        PROVE  \E record \in verified'[wallet] : StandsBehind(i, record)'
    <2>1. i \in DOMAIN events /\ Verification(i) /\ LastAbout(wallet, i)
      BY <1>2, <1>3, <1>4, <1>6
    <2>2. PICK record \in verified[wallet] : StandsBehind(i, record)
      BY <2>1 DEF Inv, RecordsAnnounced
    <2> QED BY <1>2, <2>1, <2>2 DEF StandsBehind
  <1> QED BY <1>5, <1>6

\* What is announced of the policy and of commitments stays announced, as
\* long as no other policy is set.
LEMMA AnnouncementsKept ==
    ASSUME Inv, NEW event, Publish(event)
    PROVE  /\ event.kind # "pol_set" /\ UNCHANGED policy => PolicyAnnounced'
           /\ UNCHANGED attested => CommitmentsAnnounced'
  <1>1. events \in Seq(Event) /\ Len(events) \in Nat
    BY DEF Inv, ZkTypeOK
  <1>2. PICK n : n = Len(events) + 1
    OBVIOUS
  <1>3. /\ DOMAIN events = 1 .. Len(events)
        /\ DOMAIN events' = DOMAIN events \cup {n} /\ Len(events') = n
        /\ events'[n] = event
        /\ \A i \in DOMAIN events : events'[i] = events[i]
    BY <1>1, <1>2, Published
  <1>4. ASSUME event.kind # "pol_set", UNCHANGED policy
        PROVE  PolicyAnnounced'
    <2> SUFFICES ASSUME NEW p \in policy
                 PROVE  \E j \in DOMAIN events' :
                          /\ events'[j].kind = "pol_set" /\ events'[j].policy = p
                          /\ \A k \in j + 1 .. Len(events') : events'[k].kind # "pol_set"
      BY <1>4 DEF PolicyAnnounced
    <2>1. PICK j \in DOMAIN events :
            /\ events[j].kind = "pol_set" /\ events[j].policy = p
            /\ \A k \in j + 1 .. Len(events) : events[k].kind # "pol_set"
      BY DEF Inv, PolicyAnnounced
    <2>2. j \in 1 .. Len(events) /\ j \in DOMAIN events'
      BY <1>3, <2>1
    <2>3. ASSUME NEW k \in j + 1 .. Len(events')
          PROVE  events'[k].kind # "pol_set"
      <3>1. CASE k = n
        BY <1>3, <1>4, <3>1
      <3>2. CASE k # n
        <4>1. k \in j + 1 .. Len(events) /\ k \in DOMAIN events
          BY <1>1, <1>2, <1>3, <2>2, <3>2
        <4> QED BY <1>3, <2>1, <4>1
      <3> QED BY <3>1, <3>2
    <2> QED BY <1>3, <2>1, <2>2, <2>3
  <1>5. ASSUME UNCHANGED attested
        PROVE  CommitmentsAnnounced'
    <2> SUFFICES ASSUME NEW commitment \in attested
                 PROVE  \E j \in DOMAIN events' :
                          events'[j].kind = "attested" /\ events'[j].commitment = commitment
      BY <1>5 DEF CommitmentsAnnounced
    <2>1. PICK j \in DOMAIN events :
            events[j].kind = "attested" /\ events[j].commitment = commitment
      BY DEF Inv, CommitmentsAnnounced
    <2> QED BY <1>3, <2>1
  <1> QED BY <1>4, <1>5

\* The new policy is the one last set.
LEMMA InvSetPolicy ==
    ASSUME Inv, NEW new \in Policies, SetPolicy(new)
    PROVE  Inv'
  <1> DEFINE event == [kind |-> "pol_set", policy |-> new]
  <1>1. /\ Publish(event) /\ policy' = {new}
        /\ UNCHANGED <<attested, spent, verified>>
    BY DEF SetPolicy
  <1>2. event.kind = "pol_set" /\ event.policy = new
    OBVIOUS
  <1> HIDE DEF event
  <1>3. ZkTypeOK'
    BY StepType DEF Inv, Next, AdminStep
  <1>4. events \in Seq(Event) /\ Len(events) \in Nat
    BY DEF Inv, ZkTypeOK
  <1>5. PolicyAnnounced'
    <2>1. PICK n : n = Len(events) + 1
      OBVIOUS
    <2>2. n \in DOMAIN events' /\ events'[n] = event /\ Len(events') = n
      BY <1>1, <1>4, <2>1, Published
    <2>3. \A k \in n + 1 .. Len(events') : FALSE
      BY <1>4, <2>1, <2>2
    <2> QED BY <1>1, <1>2, <2>2, <2>3 DEF PolicyAnnounced
  <1>6. CommitmentsAnnounced' /\ PairsSpent' /\ NullifierSpentOnce'
    BY <1>1, <1>2, AnnouncementsKept, OtherEvent
  <1>7. RecordsAnnounced'
    BY <1>1, <1>2, OtherEvent, WalletKept DEF RecordsAnnounced
  <1> QED BY <1>3, <1>5, <1>6, <1>7 DEF Inv

\* The commitment is announced.
LEMMA InvRegisterCommitment ==
    ASSUME Inv, NEW commitment \in Commitments, RegisterCommitment(commitment)
    PROVE  Inv'
  <1> DEFINE event == [kind |-> "attested", commitment |-> commitment]
  <1>1. /\ Publish(event) /\ attested' = attested \cup {commitment}
        /\ UNCHANGED <<policy, spent, verified>>
    BY DEF RegisterCommitment
  <1>2. event.kind = "attested" /\ event.commitment = commitment
    OBVIOUS
  <1> HIDE DEF event
  <1>3. ZkTypeOK'
    BY StepType DEF Inv, Next, AdminStep
  <1>4. events \in Seq(Event)
    BY DEF Inv, ZkTypeOK
  <1>5. CommitmentsAnnounced'
    <2>1. PICK n : n = Len(events) + 1
      OBVIOUS
    <2>2. /\ n \in DOMAIN events' /\ events'[n] = event
          /\ DOMAIN events \subseteq DOMAIN events'
          /\ \A i \in DOMAIN events : events'[i] = events[i]
      BY <1>1, <1>4, <2>1, Published
    <2> QED BY <1>1, <1>2, <2>2 DEF Inv, CommitmentsAnnounced
  <1>6. PolicyAnnounced' /\ PairsSpent' /\ NullifierSpentOnce'
    BY <1>1, <1>2, AnnouncementsKept, OtherEvent
  <1>7. RecordsAnnounced'
    BY <1>1, <1>2, OtherEvent, WalletKept DEF RecordsAnnounced
  <1> QED BY <1>3, <1>5, <1>6, <1>7 DEF Inv

\* The wallet has no record, and the last event about it is no verification.
LEMMA InvRevoke ==
    ASSUME Inv, NEW wallet \in Wallets, RevokeVerification(wallet)
    PROVE  Inv'
  <1> DEFINE event == [kind |-> "revoked", user |-> wallet]
  <1>1. /\ Publish(event) /\ verified' = [verified EXCEPT ![wallet] = {}]
        /\ UNCHANGED <<policy, attested, spent>>
    BY DEF RevokeVerification
  <1>2. event.kind = "revoked" /\ event.user = wallet
    OBVIOUS
  <1> HIDE DEF event
  <1>3. ZkTypeOK'
    BY StepType DEF Inv, Next, AdminStep
  <1>4. events \in Seq(Event) /\ verified \in [Wallets -> SUBSET VerificationRecord]
    BY DEF Inv, ZkTypeOK
  <1>5. PolicyAnnounced' /\ CommitmentsAnnounced' /\ PairsSpent' /\ NullifierSpentOnce'
    BY <1>1, <1>2, AnnouncementsKept, OtherEvent
  <1>6. \A i \in DOMAIN events' : Verification(i)' /\ LastAbout(wallet, i)' => FALSE
    BY <1>1, <1>2, <1>4, OtherEvent, EventsStay
  <1>7. verified'[wallet] = {} /\ \A w \in Wallets \ {wallet} : verified'[w] = verified[w]
    BY <1>1, <1>4
  <1>8. \A w \in Wallets :
          /\ \A record \in verified'[w] : \E i \in DOMAIN events' :
               Verification(i)' /\ LastAbout(w, i)' /\ StandsBehind(i, record)'
          /\ \A i \in DOMAIN events' : Verification(i)' /\ LastAbout(w, i)' =>
               \E record \in verified'[w] : StandsBehind(i, record)'
    <2> SUFFICES ASSUME NEW w \in Wallets \ {wallet}
                 PROVE  /\ \A record \in verified'[w] : \E i \in DOMAIN events' :
                             Verification(i)' /\ LastAbout(w, i)' /\ StandsBehind(i, record)'
                        /\ \A i \in DOMAIN events' : Verification(i)' /\ LastAbout(w, i)' =>
                             \E record \in verified'[w] : StandsBehind(i, record)'
      BY <1>6, <1>7
    <2> QED BY <1>1, <1>2, <1>7, WalletKept
  <1>9. RecordsAnnounced'
    BY <1>1, <1>2, <1>8, OtherEvent DEF RecordsAnnounced
  <1> QED BY <1>3, <1>5, <1>9 DEF Inv

\* A verification is well founded when it is made, of a pair that was not
\* spent, and is what the record of the wallet says.
LEMMA InvVerify ==
    ASSUME Inv, NEW wallet \in Wallets, NEW commitment \in Commitments,
           NEW nullifier \in Nullifiers, NEW tier \in Tiers, NEW country \in Countries,
           Verify(wallet, commitment, nullifier, tier, country)
    PROVE  Inv'
  <1>1. PICK p \in policy :
          /\ Meets(tier, country, p)
          /\ verified' = [verified EXCEPT ![wallet] =
                {[expires_at_ledger |-> ledger + Validity,
                  nullifier |-> nullifier, policy |-> p]}]
          /\ Publish([kind |-> "verified", user |-> wallet, policy |-> p,
                      expires_at_ledger |-> ledger + Validity,
                      pair |-> <<commitment, nullifier>>, tier |-> tier,
                      country |-> country])
    BY DEF Verify
  <1>2. PICK deadline : deadline = ledger + Validity
    OBVIOUS
  <1>3. PICK record : record = [expires_at_ledger |-> deadline,
                                nullifier |-> nullifier, policy |-> p]
    OBVIOUS
  <1>4. PICK event : event = [kind |-> "verified", user |-> wallet, policy |-> p,
                              expires_at_ledger |-> deadline,
                              pair |-> <<commitment, nullifier>>, tier |-> tier,
                              country |-> country]
    OBVIOUS
  <1>5. /\ Publish(event) /\ verified' = [verified EXCEPT ![wallet] = {record}]
        /\ commitment \in attested /\ <<commitment, nullifier>> \notin spent
        /\ spent' = spent \cup {<<commitment, nullifier>>}
        /\ UNCHANGED <<policy, attested>>
    BY <1>1, <1>2, <1>3, <1>4 DEF Verify, Unspent
  <1>6. /\ event.kind = "verified" /\ event.user = wallet /\ event.policy = p
        /\ event.expires_at_ledger = record.expires_at_ledger
        /\ event.pair = <<commitment, nullifier>> /\ event.pair[1] = commitment
        /\ event.tier = tier /\ event.country = country
    BY <1>3, <1>4
  <1>7. ZkTypeOK'
    BY StepType DEF Inv, Next, WalletStep
  <1>8. /\ events \in Seq(Event) /\ Len(events) \in Nat
        /\ verified \in [Wallets -> SUBSET VerificationRecord]
    BY DEF Inv, ZkTypeOK
  <1>9. PICK n : n = Len(events) + 1
    OBVIOUS
  <1>10. /\ n \in Nat /\ n \notin DOMAIN events
         /\ DOMAIN events = 1 .. Len(events)
         /\ DOMAIN events' = DOMAIN events \cup {n} /\ Len(events') = n
         /\ events'[n] = event
         /\ \A i \in DOMAIN events : events'[i] = events[i]
    BY <1>5, <1>8, <1>9, Published
  <1>11. PolicyAnnounced' /\ CommitmentsAnnounced'
    BY <1>5, <1>6, AnnouncementsKept
  <1>12. \A i \in DOMAIN events : Verification(i)' <=> Verification(i)
    BY <1>5, <1>8, EventsStay
  <1>13. PairsSpent'
    BY <1>5, <1>6, <1>10, <1>12 DEF Inv, PairsSpent
  <1>14. NullifierSpentOnce'
    <2>1. \A i \in DOMAIN events : Verification(i) => events[i].pair # event.pair
      BY <1>5, <1>6 DEF Inv, PairsSpent
    <2> QED BY <1>10, <1>12, <2>1 DEF Inv, NullifierSpentOnce
  <1>15. WellFounded(n)'
    <2>1. PICK j \in DOMAIN events :
            /\ events[j].kind = "pol_set" /\ events[j].policy = p
            /\ \A k \in j + 1 .. Len(events) : events[k].kind # "pol_set"
      BY <1>1 DEF Inv, PolicyAnnounced
    <2>2. PICK a \in DOMAIN events :
            events[a].kind = "attested" /\ events[a].commitment = commitment
      BY <1>5 DEF Inv, CommitmentsAnnounced
    <2>3. 1 .. n - 1 = DOMAIN events /\ \A i : j + 1 .. n - 1 = j + 1 .. Len(events)
      BY <1>8, <1>9, <1>10
    <2>4. \A k \in j + 1 .. n - 1 : events'[k].kind # "pol_set"
      <3> SUFFICES ASSUME NEW k \in j + 1 .. n - 1 PROVE events'[k].kind # "pol_set"
        OBVIOUS
      <3>1. k \in DOMAIN events /\ k \in j + 1 .. Len(events)
        BY <1>8, <1>9, <1>10, <2>1, <2>3
      <3> QED BY <1>10, <2>1, <3>1
    <2> QED BY <1>1, <1>6, <1>10, <2>1, <2>2, <2>3, <2>4 DEF WellFounded, Meets
  <1>16. \A i \in DOMAIN events' : Verification(i)' => WellFounded(i)'
    BY <1>5, <1>8, <1>10, <1>12, <1>15, EventsStay DEF Inv, RecordsAnnounced
  <1>17. /\ verified'[wallet] = {record}
         /\ \A w \in Wallets \ {wallet} : verified'[w] = verified[w]
    BY <1>5, <1>8
  <1>18. Verification(n)' /\ LastAbout(wallet, n)' /\ StandsBehind(n, record)'
    BY <1>6, <1>10 DEF Verification, LastAbout, StandsBehind
  <1>19. \A i \in DOMAIN events' : LastAbout(wallet, i)' => i = n
    BY <1>5, <1>6, <1>8, <1>10, EventsStay
  <1>20. \A w \in Wallets :
          /\ \A r \in verified'[w] : \E i \in DOMAIN events' :
               Verification(i)' /\ LastAbout(w, i)' /\ StandsBehind(i, r)'
          /\ \A i \in DOMAIN events' : Verification(i)' /\ LastAbout(w, i)' =>
               \E r \in verified'[w] : StandsBehind(i, r)'
    <2> TAKE w \in Wallets
    <2>1. CASE w = wallet
      BY <1>10, <1>17, <1>18, <1>19, <2>1
    <2>2. CASE w # wallet
      BY <1>5, <1>6, <1>17, <2>2, WalletKept
    <2> QED BY <2>1, <2>2
  <1>21. RecordsAnnounced'
    BY <1>16, <1>20 DEF RecordsAnnounced
  <1> QED BY <1>7, <1>11, <1>13, <1>14, <1>21 DEF Inv

\* Pausing, keeping entries alive, the close of a ledger and stuttering leave
\* it as it is: it speaks of what is present, archived or not.
LEMMA InvQuiet ==
    ASSUME Inv, ZkTypeOK', UNCHANGED <<policy, attested, spent, verified, events>>
    PROVE  Inv'
  <1>1. PairsSpent' /\ NullifierSpentOnce'
    BY DEF Inv, PairsSpent, NullifierSpentOnce, Verification
  <1>2. PolicyAnnounced' /\ CommitmentsAnnounced'
    BY DEF Inv, PolicyAnnounced, CommitmentsAnnounced
  <1>3. \A i : /\ Verification(i)' <=> Verification(i)
               /\ WellFounded(i)' <=> WellFounded(i)
               /\ \A wallet : LastAbout(wallet, i)' <=> LastAbout(wallet, i)
               /\ \A record : StandsBehind(i, record)' <=> StandsBehind(i, record)
    BY DEF Verification, WellFounded, LastAbout, StandsBehind
  <1>4. RecordsAnnounced'
    BY <1>3 DEF Inv, RecordsAnnounced
  <1> QED BY <1>1, <1>2, <1>4 DEF Inv

\* The invariant holds throughout.
THEOREM Invariance == Spec => []Inv
  <1>1. Inv /\ [Next]_vars => Inv'
    <2> SUFFICES ASSUME Inv, [Next]_vars PROVE Inv'
      OBVIOUS
    <2>1. ZkTypeOK'
      BY StepType DEF Inv
    <2>2. CASE AdminStep
      <3>1. ASSUME NEW value \in BOOLEAN, SetPaused(value)
            PROVE  Inv'
        BY <2>1, <3>1, InvQuiet DEF SetPaused
      <3> QED BY <2>2, <3>1, InvSetPolicy, InvRegisterCommitment, InvRevoke DEF AdminStep
    <2>3. CASE WalletStep
      BY <2>3, InvVerify DEF WalletStep
    <2>4. CASE LedgerClose
      BY <2>1, <2>4, InvQuiet DEF LedgerClose
    <2>5. CASE UNCHANGED vars
      BY <2>1, <2>5, InvQuiet DEF vars
    <2>6. CASE EntryStep
      BY <2>1, <2>6, InvQuiet DEF EntryStep, IsAttested, Restore
    <2> QED BY <2>2, <2>3, <2>4, <2>5, <2>6 DEF Next
  <1> QED BY <1>1, InitInv, PTL DEF Spec

-----------------------------------------------------------------------------
(* What follows. *)

\* No pair of a commitment and a nullifier ever verifies twice, however long
\* its entry has been archived.
THEOREM NullifiersAreSpentOnce == Spec => []NullifierSpentOnce
  <1>1. Inv => NullifierSpentOnce
    BY DEF Inv
  <1> QED BY <1>1, Invariance, PTL

\* A wallet is verified exactly while its last event is a verification that
\* was well founded and has not reached its deadline.
THEOREM StandingIsEarned == Spec => []StandingEarned
  <1>1. Inv => StandingEarned
    <2> SUFFICES ASSUME Inv, NEW wallet \in Wallets
                 PROVE  IsVerified(wallet) <=>
                          \E i \in DOMAIN events :
                            /\ Verification(i) /\ LastAbout(wallet, i) /\ WellFounded(i)
                            /\ ledger < events[i].expires_at_ledger
      BY DEF StandingEarned
    <2>1. ASSUME NEW record \in verified[wallet], ledger < record.expires_at_ledger
          PROVE  \E i \in DOMAIN events :
                   /\ Verification(i) /\ LastAbout(wallet, i) /\ WellFounded(i)
                   /\ ledger < events[i].expires_at_ledger
      <3>1. PICK i \in DOMAIN events :
              Verification(i) /\ LastAbout(wallet, i) /\ StandsBehind(i, record)
        BY <2>1 DEF Inv, RecordsAnnounced
      <3> QED BY <2>1, <3>1 DEF Inv, RecordsAnnounced, StandsBehind
    <2>2. ASSUME NEW i \in DOMAIN events, Verification(i), LastAbout(wallet, i),
                 ledger < events[i].expires_at_ledger
          PROVE  IsVerified(wallet)
      BY <2>2 DEF Inv, RecordsAnnounced, StandsBehind, IsVerified
    <2> QED BY <2>1, <2>2 DEF IsVerified
  <1> QED BY <1>1, Invariance, PTL
=============================================================================
