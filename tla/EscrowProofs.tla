---------------------------- MODULE EscrowProofs ----------------------------
(***************************************************************************)
(* Proofs about Escrow, for any addresses, tokens and code, any timelocks, *)
(* any lifetime of entries and any pace of the ledger.                     *)
(***************************************************************************)
EXTENDS Escrow, FiniteSums

\* One nomination, one staged upgrade, as AdminTypeOK wants them.
LEMMA PendingTyped ==
    ASSUME NEW S, NEW to \in S, NEW eligibleAt \in Nat
    PROVE  {[to |-> to, eligibleAt |-> eligibleAt]} \subseteq [to : S, eligibleAt : Nat]
  OBVIOUS

\* Who holds which office never leaves its type.
LEMMA AdminStepTyped ==
    ASSUME AdminTypeOK, AdminNext
    PROVE  AdminTypeOK'
  <1> USE AdminAssumption
  <1>1. ASSUME NEW newAdmin \in Addresses, TransferAdmin(newAdmin) PROVE AdminTypeOK'
    <2>1. now + AdminTimelock \in Nat
      BY DEF AdminTypeOK
    <2>2. pendingAdmin' \subseteq [to : Addresses, eligibleAt : Nat]
      BY <1>1, <2>1, PendingTyped DEF TransferAdmin
    <2> QED BY <1>1, <2>2 DEF AdminTypeOK, TransferAdmin, upgradeVars
  <1>2. CASE AcceptAdmin
    BY <1>2 DEF AdminTypeOK, AcceptAdmin, upgradeVars
  <1>3. CASE CancelAdminTransfer
    BY <1>3 DEF AdminTypeOK, CancelAdminTransfer, upgradeVars
  <1>4. ASSUME NEW hash \in WasmHashes, ProposeUpgrade(hash) PROVE AdminTypeOK'
    <2>1. now + UpgradeTimelock \in Nat
      BY DEF AdminTypeOK
    <2>2. pendingUpgrade' \subseteq [to : WasmHashes, eligibleAt : Nat]
      BY <1>4, <2>1, PendingTyped DEF ProposeUpgrade
    <2> QED BY <1>4, <2>2 DEF AdminTypeOK, ProposeUpgrade, rotationVars
  <1>5. CASE ExecuteUpgrade
    BY <1>5 DEF AdminTypeOK, ExecuteUpgrade, rotationVars
  <1>6. CASE CancelUpgrade
    BY <1>6 DEF AdminTypeOK, CancelUpgrade, rotationVars
  <1> QED BY <1>1, <1>2, <1>3, <1>4, <1>5, <1>6 DEF AdminNext

\* Settling takes the amount of one entry, which is covered, from one token.
LEMMA SettleTyped ==
    ASSUME EscrowTypeOK, NEW k, Settle(k)
    PROVE  EscrowTypeOK'
  <1>1. k \in DOMAIN escrows /\ escrows[k].amount \in Nat /\ escrows[k].amount <= held[token]
    BY DEF Settle, Live, EscrowTypeOK, Entry
  <1>2. held' \in [Tokens -> Nat]
    BY <1>1 DEF Settle, EscrowTypeOK
  <1>3. \A j \in DOMAIN escrows' : j \in Keys /\ escrows'[j] \in Entry
    <2>1. escrows' = [j \in DOMAIN escrows \ {k} |-> escrows[j]]
      BY DEF Settle, Restrict
    <2> QED BY <2>1 DEF EscrowTypeOK
  <1>4. AdminTypeOK'
    BY DEF Settle, EscrowTypeOK, AdminTypeOK, rotationVars, upgradeVars
  <1> QED BY <1>2, <1>3, <1>4 DEF Settle, EscrowTypeOK

\* A new entry is typed and leaves the others as they are.
LEMMA CreateTyped ==
    ASSUME EscrowTypeOK, NEW payer \in Addresses, NEW payee \in Addresses,
           NEW amount \in Amounts, NEW id \in EscrowIds, Create(payer, payee, amount, id)
    PROVE  EscrowTypeOK'
  <1> DEFINE key == <<payer, id>>
             entry == NewEntry(payee, amount)
  <1>1. key \in Keys /\ entry \in Entry
    BY EscrowAssumption DEF Keys, Entry, NewEntry, EscrowTypeOK, AdminTypeOK
  <1>2. escrows' = [k \in DOMAIN escrows \cup {key} |-> IF k = key THEN entry ELSE escrows[k]]
    BY DEF Create
  <1> HIDE DEF key, entry
  <1>3. \A j \in DOMAIN escrows' : j \in Keys /\ escrows'[j] \in Entry
    BY <1>1, <1>2 DEF EscrowTypeOK
  <1>4. held' \in [Tokens -> Nat]
    BY EscrowAssumption DEF Create, EscrowTypeOK
  <1>5. AdminTypeOK'
    BY DEF Create, EscrowTypeOK, AdminTypeOK, rotationVars, upgradeVars
  <1> QED BY <1>3, <1>4, <1>5 DEF Create, EscrowTypeOK

-----------------------------------------------------------------------------
(* The type invariant. *)

\* One step of any entry point keeps the types.
LEMMA NextTyped == EscrowTypeOK /\ [Next]_vars => EscrowTypeOK'
  <1> SUFFICES ASSUME EscrowTypeOK, [Next]_vars PROVE EscrowTypeOK'
    OBVIOUS
  <1>1. CASE PayerStep
    <2> PICK payer \in Addresses, id \in EscrowIds :
          \/ \E payee \in Addresses, amount \in Amounts : Create(payer, payee, amount, id)
          \/ Release(payer, id)
          \/ \E signer \in Addresses : Refund(signer, payer, id)
      BY <1>1 DEF PayerStep
    <2>1. CASE \E payee \in Addresses, amount \in Amounts : Create(payer, payee, amount, id)
      BY <2>1, CreateTyped
    <2>2. CASE Release(payer, id)
      BY <2>2, SettleTyped DEF Release
    <2>3. CASE \E signer \in Addresses : Refund(signer, payer, id)
      BY <2>3, SettleTyped DEF Refund
    <2> QED BY <2>1, <2>2, <2>3
  <1>2. ASSUME NEW value \in BOOLEAN, SetPaused(value) PROVE EscrowTypeOK'
    BY <1>2 DEF SetPaused, EscrowTypeOK, AdminTypeOK, rotationVars, upgradeVars
  <1>3. ASSUME NEW newToken \in Tokens, UpdateAcbuToken(newToken) PROVE EscrowTypeOK'
    <2>1. switched' \in BOOLEAN
      BY <1>3 DEF UpdateAcbuToken
    <2> QED BY <1>3, <2>1 DEF UpdateAcbuToken, EscrowTypeOK, AdminTypeOK, rotationVars, upgradeVars
  <1>4. CASE AdminStep
    <2>1. AdminTypeOK'
      BY <1>4, AdminStepTyped DEF AdminStep, EscrowTypeOK
    <2> QED BY <1>4, <2>1 DEF AdminStep, storeVars, EscrowTypeOK
  <1>5. CASE LedgerClose
    <2>1. now' \in Nat /\ ledger' \in Nat
      BY <1>5, EscrowAssumption DEF LedgerClose, EscrowTypeOK, AdminTypeOK
    <2> QED BY <1>5, <2>1 DEF LedgerClose, EscrowTypeOK, AdminTypeOK, rotationVars, upgradeVars
  <1>6. CASE UNCHANGED vars
    BY <1>6 DEF vars, storeVars, EscrowTypeOK, AdminTypeOK
  <1> QED BY <1>1, <1>2, <1>3, <1>4, <1>5, <1>6 DEF Next

\* release, refund: nothing is paid that the contract does not own, whatever
\* token it is pointed at in the meantime, and every state is typed.
THEOREM TypeCorrect == Spec => []EscrowTypeOK
  <1>1. ASSUME Init PROVE EscrowTypeOK
    <2>1. AdminTypeOK
      BY <1>1, AdminAssumption DEF Init, AdminInit, AdminTypeOK
    <2>2. held \in [Tokens -> Nat]
      BY <1>1 DEF Init
    <2>3. DOMAIN escrows = {}
      BY <1>1 DEF Init
    <2> QED BY <1>1, <2>1, <2>2, <2>3, EscrowAssumption DEF Init, EscrowTypeOK
  <1> QED BY <1>1, NextTyped, PTL DEF Spec

-----------------------------------------------------------------------------
(* The two clocks of an entry. *)

\* What is left of the term is covered by what is left of the lifetime, at
\* the nominal pace.
Covered(entry) == entry.expiry - now <= NominalGap * (entry.liveUntil - ledger)

ClocksInv == \A k \in DOMAIN escrows : Covered(escrows[k])

\* A ledger takes at least one nominal gap off the term.
LEMMA CloseCovers ==
    ASSUME NEW entry \in Entry, Covered(entry), now \in Nat, ledger \in Nat,
           NEW gap \in LedgerGaps, now' = now + gap, ledger' = ledger + 1
    PROVE  Covered(entry)'
  <1> DEFINE left == entry.liveUntil - ledger
             left1 == entry.liveUntil - (ledger + 1)
  <1>1. /\ gap \in Nat /\ gap >= NominalGap /\ NominalGap \in Nat
        /\ entry.expiry \in Nat /\ entry.liveUntil \in Nat
    BY EscrowAssumption, NominalPace DEF Entry
  <1>2. left \in Int /\ left1 = left - 1
    BY <1>1
  <1>3. entry.expiry - now <= NominalGap * left
    BY DEF Covered
  <1> HIDE DEF left, left1
  <1>4. NominalGap * (left - 1) = NominalGap * left - NominalGap
    BY <1>1, <1>2
  <1>5. NominalGap * left \in Int
    BY <1>1, <1>2
  <1>6. entry.expiry - (now + gap) <= NominalGap * left1
    BY <1>1, <1>2, <1>3, <1>4, <1>5
  <1> QED BY <1>6 DEF Covered, left1

\* Entries are covered when they are made, and stay so.
LEMMA NextCovered == EscrowTypeOK /\ ClocksInv /\ [Next]_vars => ClocksInv'
  <1> SUFFICES ASSUME EscrowTypeOK, ClocksInv, [Next]_vars PROVE ClocksInv'
    OBVIOUS
  <1>1. CASE LedgerClose
    <2> PICK gap \in LedgerGaps : now' = now + gap
      BY <1>1 DEF LedgerClose
    <2> QED BY <1>1, CloseCovers DEF LedgerClose, ClocksInv, EscrowTypeOK, AdminTypeOK
  <1>2. ASSUME NEW payer \in Addresses, NEW payee \in Addresses, NEW amount \in Amounts,
               NEW id \in EscrowIds, Create(payer, payee, amount, id)
        PROVE  ClocksInv'
    <2> DEFINE key == <<payer, id>>
               entry == NewEntry(payee, amount)
    <2>1. now \in Nat /\ ledger \in Nat
      BY DEF EscrowTypeOK, AdminTypeOK
    <2>2. Covered(entry)
      <3>1. entry.expiry - now = MaxEscrowLifetime /\ entry.liveUntil - ledger = EntryTtl
        BY <2>1, EscrowAssumption DEF NewEntry
      <3> QED BY <3>1, NominalPace DEF Covered
    <2>3. escrows' = [k \in DOMAIN escrows \cup {key} |-> IF k = key THEN entry ELSE escrows[k]]
      BY <1>2 DEF Create
    <2>4. now' = now /\ ledger' = ledger
      BY <1>2 DEF Create
    <2> HIDE DEF key, entry
    <2> QED BY <2>2, <2>3, <2>4 DEF ClocksInv, Covered
  <1>3. ASSUME NEW k, Settle(k) PROVE ClocksInv'
    <2>1. escrows' = [j \in DOMAIN escrows \ {k} |-> escrows[j]]
      BY <1>3 DEF Settle, Restrict
    <2> QED BY <1>3, <2>1 DEF Settle, ClocksInv, Covered
  <1>4. CASE PayerStep
    BY <1>2, <1>3, <1>4 DEF PayerStep, Release, Refund
  <1>5. ASSUME UNCHANGED <<now, ledger, escrows>> PROVE ClocksInv'
    BY <1>5 DEF ClocksInv, Covered
  <1>6. CASE AdminStep
    BY <1>5, <1>6 DEF AdminStep, AdminNext, storeVars, TransferAdmin, AcceptAdmin,
                      CancelAdminTransfer, ProposeUpgrade, ExecuteUpgrade, CancelUpgrade
  <1> QED BY <1>1, <1>4, <1>5, <1>6
          DEF Next, SetPaused, UpdateAcbuToken, vars, storeVars

\* create, release: as long as no ledger is faster than nominal, the contract
\* finds an escrow for the whole term in which it can be released.
THEOREM EscrowsAreKept == Spec => []KeptForTerm
  <1>1. Init => ClocksInv
    <2>1. Init => DOMAIN escrows = {}
      BY DEF Init
    <2> QED BY <2>1 DEF ClocksInv
  <1>2. EscrowTypeOK /\ ClocksInv => KeptForTerm
    <2> SUFFICES ASSUME EscrowTypeOK, ClocksInv, NEW k \in DOMAIN escrows, ~Expired(k)
                 PROVE  Live(k)
      BY DEF KeptForTerm
    <2> DEFINE left == escrows[k].liveUntil - ledger
    <2>1. /\ escrows[k].expiry \in Nat /\ escrows[k].liveUntil \in Nat
          /\ now \in Nat /\ ledger \in Nat
      BY DEF EscrowTypeOK, AdminTypeOK, Entry
    <2>2. left \in Int /\ NominalGap * left >= 0 /\ NominalGap \in Nat \ {0}
      BY <2>1, EscrowAssumption DEF ClocksInv, Covered, Expired
    <2>3. left >= 0
      <3> HIDE DEF left
      <3> QED BY <2>2
    <2> QED BY <2>1, <2>3 DEF Live
  <1> QED BY <1>1, <1>2, NextCovered, TypeCorrect, PTL DEF Spec

-----------------------------------------------------------------------------
(* The contract can pay what it owes. *)

Open == {k \in DOMAIN escrows : Live(k)}

\* The amounts of the entries e.
AmountsOf(e) == [k \in DOMAIN e |-> e[k].amount]

\* What open escrows lock is covered, and there are finitely many entries.
SolvencyInv ==
    /\ IsFiniteSet(DOMAIN escrows)
    /\ ~switched => SumOver(AmountsOf(escrows), Open) <= held[token]

\* The sum the property speaks of is a sum over the amounts of all entries.
LEMMA LockedAsSum ==
    ASSUME NEW e, NEW S \in SUBSET DOMAIN e, IsFiniteSet(S), \A k \in S : e[k].amount \in Nat
    PROVE  SumFunction([k \in S |-> e[k].amount]) = SumOver(AmountsOf(e), S)
  <1> DEFINE locked == [k \in S |-> e[k].amount]
  <1>1. SumFunction(locked) = SumOver(locked, S)
    BY SumOfFunction
  <1>2. \A k \in S : locked[k] \in Int /\ locked[k] = AmountsOf(e)[k]
    BY DEF AmountsOf
  <1> HIDE DEF locked
  <1>3. SumOver(locked, S) = SumOver(AmountsOf(e), S)
    BY <1>2, SumCongruent
  <1> QED BY <1>1, <1>3 DEF locked

\* A new entry takes the place of none that is open, and what it locks comes
\* in; entries under other keys keep their amounts.
LEMMA CreateSolvent ==
    ASSUME EscrowTypeOK, EscrowTypeOK', SolvencyInv, NEW payer \in Addresses,
           NEW payee \in Addresses, NEW amount \in Amounts, NEW id \in EscrowIds,
           Create(payer, payee, amount, id)
    PROVE  SolvencyInv'
  <1> DEFINE key == <<payer, id>>
             entry == NewEntry(payee, amount)
             before == AmountsOf(escrows)
             after == AmountsOf(escrows')
  <1>1. escrows' = [k \in DOMAIN escrows \cup {key} |-> IF k = key THEN entry ELSE escrows[k]]
    BY DEF Create
  <1>2. /\ held' = [held EXCEPT ![token] = @ + amount]
        /\ UNCHANGED <<ledger, token, switched>>
        /\ ~Live(key)
    BY DEF Create
  <1>3. ledger \in Nat /\ amount \in Nat /\ held[token] \in Nat /\ held'[token] = held[token] + amount
    BY <1>2, EscrowAssumption DEF EscrowTypeOK
  <1>4. entry.amount = amount /\ entry.liveUntil >= ledger
    BY <1>3, EscrowAssumption DEF NewEntry
  <1>5. key \notin Open /\ Open \subseteq DOMAIN escrows
    BY <1>2 DEF Open
  <1>6. Open' = Open \cup {key}
    BY <1>1, <1>2, <1>4, <1>5 DEF Open, Live
  <1>7. after[key] = amount /\ \A k \in Open : after[k] = before[k] /\ before[k] \in Nat
    BY <1>1, <1>4, <1>5 DEF AmountsOf, EscrowTypeOK, Entry
  <1>8. IsFiniteSet(DOMAIN escrows') /\ IsFiniteSet(Open)
    <2>1. DOMAIN escrows' = DOMAIN escrows \cup {key}
      BY <1>1
    <2> QED BY <1>5, <2>1, FS_AddElement, FS_Subset DEF SolvencyInv
  <1> HIDE DEF key, entry, before, after
  <1>9. SumOver(after, Open \cup {key}) = SumOver(after, Open) + after[key]
    <2>1. \A k \in Open \cup {key} : after[k] \in Int
      BY <1>3, <1>7
    <2> QED BY <1>5, <1>8, <2>1, SumAddMember
  <1>10. SumOver(after, Open) = SumOver(before, Open) /\ SumOver(before, Open) \in Int
    <2>1. \A k \in Open : after[k] \in Int /\ before[k] \in Int /\ after[k] = before[k]
      BY <1>7
    <2> QED BY <1>8, <2>1, SumCongruent, SumInt
  <1>11. ~switched => SumOver(before, Open) <= held[token]
    BY DEF SolvencyInv, before
  <1>12. ~switched => SumOver(after, Open') <= held'[token]
    BY <1>3, <1>6, <1>7, <1>9, <1>10, <1>11
  <1> QED BY <1>2, <1>8, <1>12 DEF SolvencyInv, after

\* Settling takes one open entry away, and its amount.
LEMMA SettleSolvent ==
    ASSUME EscrowTypeOK, SolvencyInv, NEW k, Settle(k)
    PROVE  SolvencyInv'
  <1> DEFINE before == AmountsOf(escrows)
             after == AmountsOf(escrows')
             rest == Open \ {k}
  <1>1. escrows' = [j \in DOMAIN escrows \ {k} |-> escrows[j]]
    BY DEF Settle, Restrict
  <1>2. /\ held' = [held EXCEPT ![token] = @ - escrows[k].amount]
        /\ UNCHANGED <<ledger, token, switched>>
    BY DEF Settle
  <1>3. k \in Open /\ Open \subseteq DOMAIN escrows
    BY DEF Settle, Open, Live
  <1>4. Open' = rest
    BY <1>1, <1>2 DEF Open, Live
  <1>5. \A j \in Open : before[j] = escrows[j].amount /\ before[j] \in Nat
    BY <1>3 DEF AmountsOf, EscrowTypeOK, Entry
  <1>6. \A j \in rest : after[j] = before[j]
    BY <1>1, <1>3 DEF AmountsOf
  <1>7. held[token] \in Nat /\ held'[token] = held[token] - before[k]
    BY <1>2, <1>3, <1>5 DEF EscrowTypeOK
  <1>8. IsFiniteSet(DOMAIN escrows') /\ IsFiniteSet(Open) /\ IsFiniteSet(rest)
    <2>1. DOMAIN escrows' = DOMAIN escrows \ {k}
      BY <1>1
    <2> QED BY <1>3, <2>1, FS_RemoveElement, FS_Subset DEF SolvencyInv
  <1>9. ~switched => SumOver(before, Open) <= held[token]
    BY DEF SolvencyInv
  <1> HIDE DEF before, after
  <1>10. SumOver(before, Open) = before[k] + SumOver(before, rest)
    <2>1. \A j \in Open : before[j] \in Int
      BY <1>5
    <2> QED BY <1>3, <1>8, <2>1, SumRemove
  <1>11. SumOver(after, rest) = SumOver(before, rest) /\ SumOver(before, rest) \in Int
    <2>1. \A j \in rest : after[j] \in Int /\ before[j] \in Int /\ after[j] = before[j]
      BY <1>5, <1>6
    <2> HIDE DEF rest
    <2> QED BY <1>8, <2>1, SumCongruent, SumInt
  <1>12. before[k] \in Nat
    BY <1>3, <1>5
  <1> HIDE DEF rest
  <1>13. ~switched => SumOver(after, Open') <= held'[token]
    BY <1>4, <1>7, <1>9, <1>10, <1>11, <1>12
  <1> QED BY <1>2, <1>8, <1>13 DEF SolvencyInv, after

\* Entries that outlive their lifetime lock nothing any more.
LEMMA CloseSolvent ==
    ASSUME EscrowTypeOK, SolvencyInv, LedgerClose
    PROVE  SolvencyInv'
  <1> DEFINE amounts == AmountsOf(escrows)
  <1>1. ledger' = ledger + 1 /\ ledger \in Nat /\ UNCHANGED <<token, held, escrows, switched>>
    BY DEF LedgerClose, EscrowTypeOK
  <1>2. \A k \in DOMAIN escrows : amounts[k] \in Nat /\ escrows[k].liveUntil \in Nat
    BY DEF AmountsOf, EscrowTypeOK, Entry
  <1>3. Open' \in SUBSET Open /\ Open \subseteq DOMAIN escrows
    BY <1>1, <1>2 DEF Open, Live
  <1>4. IsFiniteSet(Open) /\ IsFiniteSet(Open')
    BY <1>3, FS_Subset DEF SolvencyInv
  <1>5. ~switched => SumOver(amounts, Open) <= held[token]
    BY DEF SolvencyInv
  <1>6. held[token] \in Nat
    BY DEF EscrowTypeOK
  <1> HIDE DEF amounts
  <1>7. \A k \in Open : amounts[k] \in Nat
    BY <1>2, <1>3
  <1>8. SumOver(amounts, Open') <= SumOver(amounts, Open)
    BY <1>3, <1>4, <1>7, SumSubset
  <1>9. SumOver(amounts, Open') \in Int /\ SumOver(amounts, Open) \in Int
    <2>1. \A k \in Open' : amounts[k] \in Nat
      BY <1>3, <1>7
    <2> QED BY <1>4, <1>7, <2>1, SumInt
  <1>10. ~switched => SumOver(amounts, Open') <= held[token]
    BY <1>5, <1>6, <1>8, <1>9
  <1> QED BY <1>1, <1>10 DEF SolvencyInv, amounts

\* The other entry points leave entries and holdings alone; a new token under
\* an open escrow is remembered, and without one nothing is locked.
LEMMA NextSolvent == EscrowTypeOK /\ EscrowTypeOK' /\ SolvencyInv /\ [Next]_vars => SolvencyInv'
  <1> SUFFICES ASSUME EscrowTypeOK, EscrowTypeOK', SolvencyInv, [Next]_vars PROVE SolvencyInv'
    OBVIOUS
  <1>1. ASSUME UNCHANGED <<ledger, token, held, escrows, switched>> PROVE SolvencyInv'
    BY <1>1 DEF SolvencyInv, Open, Live
  <1>2. CASE PayerStep
    <2> PICK payer \in Addresses, id \in EscrowIds :
          \/ \E payee \in Addresses, amount \in Amounts : Create(payer, payee, amount, id)
          \/ Release(payer, id)
          \/ \E signer \in Addresses : Refund(signer, payer, id)
      BY <1>2 DEF PayerStep
    <2>1. CASE \E payee \in Addresses, amount \in Amounts : Create(payer, payee, amount, id)
      BY <2>1, CreateSolvent
    <2>2. CASE Release(payer, id)
      BY <2>2, SettleSolvent DEF Release
    <2>3. CASE \E signer \in Addresses : Refund(signer, payer, id)
      BY <2>3, SettleSolvent DEF Refund
    <2> QED BY <2>1, <2>2, <2>3
  <1>3. ASSUME NEW newToken \in Tokens, UpdateAcbuToken(newToken) PROVE SolvencyInv'
    <2>1. UNCHANGED <<ledger, held, escrows>> /\ token' = newToken
      BY <1>3 DEF UpdateAcbuToken
    <2>2. Open' = Open /\ IsFiniteSet(DOMAIN escrows)'
      BY <2>1 DEF Open, Live, SolvencyInv
    <2>3. CASE newToken = token
      <3>1. switched' => switched
        BY <1>3, <2>3 DEF UpdateAcbuToken
      <3>2. ~switched' => ~switched
        BY <1>3, <2>3 DEF UpdateAcbuToken
      <3> QED BY <2>1, <2>2, <2>3, <3>2 DEF SolvencyInv
    <2>4. CASE newToken # token /\ Open = {}
      <3>1. held[newToken] \in Nat
        BY DEF EscrowTypeOK
      <3>2. SumOver(AmountsOf(escrows), Open) = 0
        BY <2>4, SumEmpty
      <3> QED BY <2>1, <2>2, <3>1, <3>2 DEF SolvencyInv
    <2>5. CASE newToken # token /\ Open # {}
      <3>1. switched'
        BY <1>3, <2>5 DEF UpdateAcbuToken, Open
      <3> QED BY <2>2, <3>1 DEF SolvencyInv
    <2> QED BY <2>3, <2>4, <2>5
  <1>4. CASE AdminStep
    BY <1>1, <1>4 DEF AdminStep, storeVars
  <1>5. CASE LedgerClose
    BY <1>5, CloseSolvent
  <1> QED BY <1>1, <1>2, <1>3, <1>4, <1>5 DEF Next, SetPaused, vars, storeVars

\* create, release, refund: for any number of escrows and any reuse of ids,
\* the contract owns what all open escrows together lock, until the admin
\* replaces the token under an open one.
THEOREM EscrowsAreCovered == Spec => []Solvent
  <1>1. Init => SolvencyInv
    <2> SUFFICES ASSUME Init PROVE SolvencyInv
      OBVIOUS
    <2>1. DOMAIN escrows = {} /\ Open = {} /\ held[token] = 0
      BY EscrowAssumption DEF Init, Open
    <2>2. SumOver(AmountsOf(escrows), Open) = 0
      BY <2>1, SumEmpty
    <2> QED BY <2>1, <2>2, FS_EmptySet DEF SolvencyInv
  <1>2. EscrowTypeOK /\ SolvencyInv => Solvent
    <2> SUFFICES ASSUME EscrowTypeOK, SolvencyInv, ~switched
                 PROVE  SumFunction([k \in Open |-> escrows[k].amount]) <= held[token]
      BY DEF Solvent, Open
    <2>1. Open \in SUBSET DOMAIN escrows
      BY DEF Open
    <2>2. IsFiniteSet(Open) /\ \A k \in Open : escrows[k].amount \in Nat
      BY <2>1, FS_Subset DEF SolvencyInv, EscrowTypeOK, Entry
    <2>3. SumFunction([k \in Open |-> escrows[k].amount]) = SumOver(AmountsOf(escrows), Open)
      BY <2>1, <2>2, LockedAsSum
    <2> QED BY <2>3 DEF SolvencyInv
  <1>3. EscrowTypeOK /\ [Next]_vars => EscrowTypeOK'
    BY NextTyped
  <1> QED BY <1>1, <1>2, <1>3, NextSolvent, TypeCorrect, PTL DEF Spec

-----------------------------------------------------------------------------
(* The administration implements the timelock. *)

\* An announcement made now was made at eligibleAt - delay.
LEMMA AnnouncedNow ==
    ASSUME NEW to, NEW t \in Nat, NEW delay \in Nat
    PROVE  Announced({[to |-> to, eligibleAt |-> t + delay]}, delay) = {[to |-> to, since |-> t]}
  <1>1. (t + delay) - delay = t
    OBVIOUS
  <1> QED BY <1>1 DEF Announced

\* Every step announces, withdraws or applies a successor, or is not about
\* the admin at all.
LEMMA RotationStep ==
    EscrowTypeOK /\ [Next]_vars => [Rotation!TimelockNext]_(Rotation!timelockVars)
  <1> SUFFICES ASSUME EscrowTypeOK, [Next]_vars
               PROVE  Rotation!TimelockNext \/ UNCHANGED <<now, admin, pendingAdmin>>
    BY DEF Rotation!timelockVars, Announced
  <1> USE AdminAssumption DEF EscrowTypeOK, AdminTypeOK
  <1>1. ASSUME NEW newAdmin \in Addresses, TransferAdmin(newAdmin)
        PROVE  Rotation!TimelockNext
    BY <1>1, AnnouncedNow DEF TransferAdmin, Rotation!TimelockNext, Rotation!Announce
  <1>2. ASSUME AcceptAdmin PROVE Rotation!TimelockNext
    <2> PICK nomination \in pendingAdmin :
          /\ now >= nomination.eligibleAt
          /\ admin' = nomination.to
          /\ pendingAdmin' = {}
          /\ UNCHANGED <<now, upgradeVars>>
      BY <1>2 DEF AcceptAdmin
    <2> DEFINE change == [to |-> nomination.to, since |-> nomination.eligibleAt - AdminTimelock]
    <2>1. change \in Announced(pendingAdmin, AdminTimelock)
      BY DEF Announced
    <2>2. now >= change.since + AdminTimelock
      OBVIOUS
    <2>3. Announced(pendingAdmin, AdminTimelock)' = {}
      BY DEF Announced
    <2>4. Rotation!TakeEffect
      BY <2>1, <2>2, <2>3 DEF Rotation!TakeEffect
    <2> QED BY <2>4 DEF Rotation!TimelockNext
  <1>3. ASSUME CancelAdminTransfer PROVE Rotation!TimelockNext
    BY <1>3 DEF CancelAdminTransfer, Announced, Rotation!TimelockNext, Rotation!Withdraw
  <1>4. ASSUME LedgerClose PROVE Rotation!TimelockNext
    <2>1. now' > now
      BY <1>4, EscrowAssumption DEF LedgerClose
    <2> QED BY <1>4, <2>1 DEF LedgerClose, rotationVars, Announced, Rotation!TimelockNext,
                             Rotation!TimePasses
  <1>5. CASE AdminStep
    BY <1>1, <1>2, <1>3, <1>5 DEF AdminStep, AdminNext, ProposeUpgrade, ExecuteUpgrade,
                                  CancelUpgrade, rotationVars
  <1>6. CASE PayerStep
    BY <1>6 DEF PayerStep, Create, Release, Refund, Settle, rotationVars
  <1> QED BY <1>4, <1>5, <1>6
          DEF Next, SetPaused, UpdateAcbuToken, vars, rotationVars

\* transfer_admin, accept_admin: only a successor announced a full timelock
\* ago, and not since cancelled or replaced, becomes admin.
THEOREM RotationImplementsTimelock == Spec => RotationTimelocked
  <1>1. Init => Rotation!TimelockInit
    BY DEF Init, AdminInit, Rotation!TimelockInit, Announced
  <1> QED BY <1>1, RotationStep, TypeCorrect, PTL
          DEF Spec, RotationTimelocked, Rotation!TimelockSpec

\* Every step stages, withdraws or applies an upgrade, or is not about code.
LEMMA UpgradeStep ==
    EscrowTypeOK /\ [Next]_vars => [Upgrade!TimelockNext]_(Upgrade!timelockVars)
  <1> SUFFICES ASSUME EscrowTypeOK, [Next]_vars
               PROVE  Upgrade!TimelockNext \/ UNCHANGED <<now, wasm, pendingUpgrade>>
    BY DEF Upgrade!timelockVars, Announced
  <1> USE AdminAssumption DEF EscrowTypeOK, AdminTypeOK
  <1>1. ASSUME NEW hash \in WasmHashes, ProposeUpgrade(hash)
        PROVE  Upgrade!TimelockNext
    BY <1>1, AnnouncedNow DEF ProposeUpgrade, Upgrade!TimelockNext, Upgrade!Announce
  <1>2. ASSUME ExecuteUpgrade PROVE Upgrade!TimelockNext
    <2> PICK upgrade \in pendingUpgrade :
          /\ now >= upgrade.eligibleAt
          /\ wasm' = upgrade.to
          /\ pendingUpgrade' = {}
          /\ UNCHANGED <<now, rotationVars>>
      BY <1>2 DEF ExecuteUpgrade
    <2> DEFINE change == [to |-> upgrade.to, since |-> upgrade.eligibleAt - UpgradeTimelock]
    <2>1. change \in Announced(pendingUpgrade, UpgradeTimelock)
      BY DEF Announced
    <2>2. now >= change.since + UpgradeTimelock
      OBVIOUS
    <2>3. Announced(pendingUpgrade, UpgradeTimelock)' = {}
      BY DEF Announced
    <2>4. Upgrade!TakeEffect
      BY <2>1, <2>2, <2>3 DEF Upgrade!TakeEffect
    <2> QED BY <2>4 DEF Upgrade!TimelockNext
  <1>3. ASSUME CancelUpgrade PROVE Upgrade!TimelockNext
    BY <1>3 DEF CancelUpgrade, Announced, Upgrade!TimelockNext, Upgrade!Withdraw
  <1>4. ASSUME LedgerClose PROVE Upgrade!TimelockNext
    <2>1. now' > now
      BY <1>4, EscrowAssumption DEF LedgerClose
    <2> QED BY <1>4, <2>1 DEF LedgerClose, upgradeVars, Announced, Upgrade!TimelockNext,
                             Upgrade!TimePasses
  <1>5. CASE AdminStep
    BY <1>1, <1>2, <1>3, <1>5 DEF AdminStep, AdminNext, TransferAdmin, AcceptAdmin,
                                  CancelAdminTransfer, upgradeVars
  <1>6. CASE PayerStep
    BY <1>6 DEF PayerStep, Create, Release, Refund, Settle, upgradeVars
  <1> QED BY <1>4, <1>5, <1>6
          DEF Next, SetPaused, UpdateAcbuToken, vars, upgradeVars

\* propose_upgrade, execute_upgrade: only code staged a full timelock ago,
\* and not since replaced, is installed.
THEOREM UpgradeImplementsTimelock == Spec => UpgradeTimelocked
  <1>1. Init => Upgrade!TimelockInit
    BY DEF Init, AdminInit, Upgrade!TimelockInit, Announced
  <1> QED BY <1>1, UpgradeStep, TypeCorrect, PTL
          DEF Spec, UpgradeTimelocked, Upgrade!TimelockSpec

\* The escrow implements the timelock for its admin and for its code.
THEOREM AnnouncementsImplementTimelock == Spec => AnnouncementsTimelocked
  BY RotationImplementsTimelock, UpgradeImplementsTimelock DEF AnnouncementsTimelocked
=============================================================================
