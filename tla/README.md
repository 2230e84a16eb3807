# ACBU contracts: specification, model checking and proofs

ACBU is a basket stablecoin on Soroban (Stellar): a *minting* contract issues
the ACBU token against USDC, S-tokens and fiat deposits, a *burning* contract
redeems it, an *oracle* prices the basket, a *reserve tracker* gates both on
what a custodian attested, and a *multisig* administers them. This directory
holds TLA+ models of those contracts, the TLC runs that check them on small
instances, and TLAPS proofs of what matters most for every instance.

    tlc -config MCIssuance.cfg MCAcbuSystem.tla     # one run per MC*.cfg
    tlapm OracleProofs.tla                          # proofs, any *Proofs.tla

`PROJECT.json` lists the runs, which module each uses, and for every modelled
definition the source lines it translates.

## The system

| Component | State | Operations | Talks to | What makes it correct |
|---|---|---|---|---|
| oracle (`acbu_oracle`) | rates with timestamp and ledger, a list of validators and an index of them, quorum, open rounds, emergency votes, thresholds, pending validator change, basket, token addresses | `update_rate`, `cast_emergency_vote`, `set_rate_admin`, setters, scheduled validator changes, reads | read by all value contracts | a rate has a quorum of current validators and fresh submissions behind it; emergencies need votes of their own; a stale feed can be refreshed |
| reserve tracker (`acbu_reserve_tracker`) | reports, attestation time, cached verdict, pause | `update_reserve`, `submit_attestation`, `verify_reserves`, `is_reserve_sufficient` | reads oracle and token | fail closed without a fresh attestation |
| minting (`acbu_minting`) | tracked supply, cap, fees, used proofs and fintech ids, custody, pause, peers | five mint entry points, `admin_drip_fiat`, `record_burn`, `sync_supply`, setters | oracle, tracker, token, peers | never more ACBU than cap, reserves and deposits allow; a deposit is credited once |
| burning (`acbu_burning`) | fees, link to minting, vault allowance, pause, peers | `redeem_single`, `redeem_basket` | oracle, tracker, token, vault, minting | pays out at most what is burned; the tracked supply follows |
| circuit breaker (`shared`) | pause of each contract, peer lists | `pause`, `unpause`, `set_circuit_peers` | every linked contract | a halt stops value, also through links, and fails closed |
| multisig (`acbu_multisig`) | signers, threshold, version, proposals | `propose*`, `approve`, `execute` | admin of the others: `execute` makes the approved call on them | only what a threshold of current signers approved, once, as it was proposed; a call that the target refuses uses nothing up |
| arithmetic (`shared`) | none | fees, median by quickselect, deviation | all | exact reference result, termination |
| lending pool (`acbu_lending_pool`) | `Balance` and `Borrowed` per lender, loans, two totals, rate, pause | `deposit`, `withdraw`, `borrow`, `repay`, `liquidate`, setters | token, admin | what lenders can claim, and what was sent to the pool unasked, is what it holds; no balance is lent twice; every repaid unit counts |
| escrow (`acbu_escrow`) | entries in temporary storage, token address, pause | `create`, `release`, `refund`, `update_acbu_token` | token, admin | open escrows are paid for, pay once, and are found for their whole term |
| admin roles (repeated in every contract) | admin, operator, version; a nominee and a staged upgrade, each with a time of eligibility | `transfer_admin`, `accept_admin`, `set_operator`, `upgrade` or `propose_upgrade` and `execute_upgrade`, cancels, `migrate` | multisig | nothing takes effect before it has stood announced for a timelock; no version goes back and no data goes with a migration |
| savings vault (`acbu_savings_vault`) | lots per user and term, total principal, yield reserve, yield owed, two rates, pause | `deposit`, `withdraw`, `fund_yield_reserve`, `withdraw_yield_reserve`, `claim_yield`, setters | token, admin | matured principal can always be taken out; yield comes out of the reserve only and is owed until paid |
| ZK verifier (`contracts/zk_verifier`) | policy, attested commitments, spent nullifiers, a verification with its deadline per wallet, pause | `set_policy`, `register_commitment`, `verify`, `is_verified`, `revoke_verification`, `pause` | admin, wallets | a nullifier of a commitment verifies once; who counts as verified earned it under the policy of that time |

A Soroban invocation is atomic: the host runs one at a time, and a call that
panics leaves no write behind, whichever contract wrote it. So the hard
behaviours are not data races but *orders of calls* by users, validators,
operator, admins and custodian, each with a view that may be stale: open rounds
over a change of the quorum, a proposal over a rotation or over an upgrade, a
staged upgrade over a migration, books over a mint, two contracts linked one at
a time, deposits that are retried, two clocks (close time and ledger sequence)
that need not agree.

## Modules

| Module | Models | State and actions in the code |
|---|---|---|
| `Sums` | `SumOver`, the sum books and baskets are added up with | loops such as `sum_lots` |
| `AcbuMath` | fees, `weighted_floor`, deviation, the median as a definition | `shared/src/lib.rs` |
| `RateFeed` | the oracle as its readers see it, and the ledger clock: `quotes` is the `rates` map | readers' guards `RateReadable`, `CheckOracleFreshness`, `BasketRate` |
| `CircuitBreaker` | `paused`, `peers` | `check_circuit` is `CheckCircuit` |
| `AcbuToken` (external) | `supply` of the token contract | `mint`, `burn` as the contracts call them |
| `ReserveTracker` | `reserves`, `attestedAt`, `lastVerify` | one action per entry point, `IsReserveSufficient` |
| `Minting` | `tracked` is `total_supply`; `usedProofs`, `processedIds`, custody and vault balances | one action per entry point; `IssueForUsd` is the tail they share |
| `Burning` | `mintingLinked`, `allowance` | `RedeemSingle`, `RedeemBasket` with `notify_minting_burn` in the same step |
| `AcbuSystem` | the composition: every entry point of the five above, in any order | a call across contracts is part of the caller's step |
| `SupplyLedger` | abstract: circulation, a cap, a freeze | implemented by `AcbuSystem` (`Ledger`, `LedgerSpec`) |
| `Oracle` | rounds, votes, overrides, validator changes; `listed` counts how often the validator list holds an address, `validators` is its index | `initialize` may be given any list of `InitLists`, also one that names an address twice; implements `RateFeed!FeedSpec`, the feed `AcbuSystem` is built on |
| `Quickselect` | `median` step by step, one action per loop step | implements `AcbuMath!Median` |
| `Multisig` | proposals and self-governance | `CreateProposal`, `Approve`, `Execute` |
| `ContractAdmin` | `contracts`: the administrative storage of minting, burning, oracle, reserve tracker, pool and vault | one operator per entry point, with the address that calls it; `Invoke` is `MultisigAction::invoke` |
| `Governance` | `Multisig` and `ContractAdmin` together | `ExecuteProposal` marks the proposal and makes its call in one step; `KeyStep` is a transaction signed by a key |
| `Timelock` | abstract: a value in effect, one announced, a delay | implemented twice by `AdminRoles` in `Escrow` (`AnnouncementsTimelocked`: the admin and the code) |
| `AdminRoles` | `admin`, `pendingAdmin`, `wasm`, `pendingUpgrade` | one action per entry point; an announcement is `{}` or one `[to, eligibleAt]`; used by `Escrow`, against `Timelock` |
| `Escrow` | extends `AdminRoles` with `escrows`, `held` (token balances) and both clocks | `Create`, `Release`, `Refund`, `UpdateAcbuToken`, ...; `Settle` is the part release and refund share |
| `LendingPool` | `balance`, `borrowed`, `loans`, `activeLiquidity`, `totalBalance`, `held` | one action per entry point; `LoanNow` is `get_loan`; `Donate` (external) is a transfer of the token to the pool's address, which `withdraw` names in a comment ("external direct token send") |
| `SavingsVault` | `lots` of a `<<user, term>>`, `totalPrincipal`, `yieldReserve`, `owed`, `totalOwed`, `held` | one action per entry point; the loop of `withdraw` is the recursive function `Consuming` of `ConsumeLot`, its checks are `Withdrawable` |
| `ZkVerifier` | `policy`, `attested`, `spent`, `verified`, the ledger sequence; `liveUntil`, the last ledger before an entry is archived | one action per entry point, `IsAttested` among them because it extends a lifetime; `Restore` (external) brings an archived entry back; `events` are the published events, in order |
| `MC*` | values for TLC | |
| `*Proofs` | theorems | |
| `FiniteSums` | lemmas about `SumOver` | |

Histories are the only variables the code does not have: `credited` (how often
a fiat deposit was credited), `backers` (who submitted the stored rate),
`original` (the argument of `median`), `switched` (the token of the escrow was
replaced under an open escrow), `writtenOff` (principal written off by the
pool), `donated` (plain transfers to the vault, and to the pool), `repeated` (the
entries of the oracle's first validator list that name an address again) and
`events` (what the ZK verifier published, with the claims of each verification). An escrow entry past its lifetime is gone for the contract (`Live`) but
kept by the model, so that properties can speak of it. A definition marked *Mutant* in a comment
is a plausible wrong version of the one below it; it is used by nothing, and
substituting it must make a run fail (`mutants` in `PROJECT.json`).

Abstractions. Amounts are integers of any size: i128 overflow panics and undoes
the call, so it only removes behaviour. Addresses of depositors, recipients and
approvals disappear from the value contracts: a depositor can be assumed to own
whatever of the existing supply is elsewhere. The caller's minimum-output floors, event contents, storage
lifetimes (except those of the escrow's and the ZK verifier's entries), the
re-entrancy guard and authorisation of named roles only make calls fail. Basket currencies are registered, distinct and fixed per instance;
sources are positive. `verify_fiat_settlement_proof` is a guard the operator can
always satisfy. `ContractAdmin` keeps of the oracle's data only whether it is there
(`held`: basket, rates, token addresses), for what `migrate` erases; which rates
validators store is `Oracle`'s. It takes new code to be of the same contract, so
that the entry points stay. The ZK verifier checks no proof and compares two of
its six public inputs with the policy; the others are left out.

## Runs

Sets of calls an instance makes are the constant `Entrypoints`; the theorems do
not depend on it. Small scales (`BasisPoints = Decimals = 4`) make every
truncation visible with one-digit amounts.

| Run | States | What it shows |
|---|---|---|
| Issuance | 714 k | one currency, two rates, ledgers of one second, amounts at and around the bounds: the counter covers the token (`SupplyTracked`), each mint is backed by books and attestation at the new supply (`IssuanceBacked`), the abstract ledger is implemented (`LedgerSpec`) |
| Redemption | 201 k | two currencies with weights 1:3 and rates that leave remainders: `IssuancePaid`, `RedemptionBounded`, `LinkedBurnRecorded` |
| Breakers | 256 k | pauses and peer lists of every kind, also an unreachable peer, and redemptions of six units, of which at least one S-token unit is paid out, so that payouts come before and after every halt: `HaltStopsValue`, which contains that the ledger of Issuance issues nothing while it is frozen; two spellings of one id: `DepositCreditedOnce` |
| Oracle | 732 k | three validators, lists of three distinct ones or of two of whom one is named twice, quorum between one and two, all eight calls: feeds with an outlier and too short ones, emergency votes, overrides, additions and removals behind the timelock, ledgers of one or two seconds, so that both clocks run out separately: `RoundBelowQuorum`, `QuorumWithinRepeats`, `BackersAuthorised`, `CommitBacked`, `EmergencyVotesPostdateRate`, `RefreshableWhenUnusable`, `FeedSpec` |
| Quickselect | 20 k | every vector up to length five over four values of both signs, real scale: `SelectionCorrect` (the window keeps the wanted rank, a partition splits at its pivot, the answer is the median), `Terminates` |
| Governance | 1.8 M | one of four contracts, under the multisig or under a key; three proposals among a rotation, a raised threshold, a malformed configuration, a self-upgrade and nine calls of which some are refused at once and some by then; expiry; nominations, staged upgrades and migrations by keys: `ConfigSound`, `ExecutionAuthorised`, `GovernedOnly`, `UpgradesTakeEffect`, `UpgradesKeepState` |
| Escrow | 542 k | two parties, two tokens, ledgers of the nominal length and of a longer one, timelocks of three seconds: `Solvent`, `KeptForTerm`, `AnnouncementsTimelocked` |
| LendingPool | 3.2 M | two lenders, one borrower with two loan ids, rates that truncate a fee to nothing or yield a unit a second, a unit sent to the pool by a plain transfer at any time: `HoldingsMatch` (AC-041: what lenders can claim and what was sent add up to what is held), `DriftAccountedFor` (the totals are off by write-offs less such transfers), `NeverOverlent`, `RepaymentApplied` |
| SavingsVault | 125 k | two users, up to two lots each, whole and half yields and fees, three seconds: `BooksAddUp` (totals are the sums of lots and of what is owed, holdings are principal and reserve), `PendingYieldKept`, `MaturedReturnable` |
| ZkVerifier | 363 k | two wallets that share what they know of two credentials with two nullifiers each, two policies, verifications of two ledgers, entries that are archived after as many and restored, up to five events: `NullifierSpentOnce` (of a pair of a commitment and a nullifier), `StandingEarned` |

Bounds: `MaxNow` stops the clock after the intervals, lifetimes and timelocks of
the instance have elapsed at least once in combination (in units standing for an
hour in `MCOracle`: lifetimes and cooldown 1, interval 3, as in the code
`TTL = cooldown < interval`; the timelock of validator changes is one unit, since
no property depends on its length); where no property is about time `MaxNow = 1`.
In `MCEscrow` two seconds stand for a ledger's five, and as in the code the
lifetime of an entry, in nominal ledgers, is exactly the term; the last second
is late enough to see an escrow expire, be lost, and its id used again. In
`MCLendingPool` loans can fall due, be written off and be repaid afterwards. In
`MCSavingsVault` a lot is unlocked after one second and yields a whole unit only
if it is large or locked long, so that a bucket holds locked and unlocked lots
and truncation differs between a withdrawal in one piece and in two.
In `MCGovernance` the timelock and the life of a proposal are one second, so that
three seconds see a nomination accepted, an upgrade staged on what it made
possible, and proposals expire in between; staged versions lie below and above
the version from which `migrate` keeps data. A deployment has one contract,
because contracts share no administrative state; with none under the multisig
nobody uses the multisig (`InUse`), and calls are proposed on what is deployed
(`Deployed`). In `MCZkVerifier` `MaxEvents` leaves room for a policy, an
attestation and two verifications around a revocation, or for two attestations
and verifications under both, and `MaxLedger` lets a verification expire and be
renewed, and the entry of a spent pair be archived and restored. `UsdcSupply`,
`STokenSupply` and `TokenSupply` bound what depositors own, `MaxDonated` what is
sent to the pool by plain transfers; `MaxProposals` is three, enough for two
proposals to race a third that changes the rules. Deadlock
is not checked: with the clock at its bound nothing more may be possible.
Validators in `MCOracle` (`MCInitLists` is closed under renaming) and wallets,
commitments and nullifiers in `MCZkVerifier` are symmetric: no constant tells
them apart, and no liveness property is checked with symmetry. Nothing is
paused in Issuance: the half of `LedgerSpec` that freezes issuance is left to
`HaltStopsValue` in Breakers and to the theorem.

Each run that ends in a violation checks one sentence of a comment that the code
does not keep:

| Run | The code | The comment |
|---|---|---|
| TotalsDrift | `liquidate` leaves `TotalLenderBalance` as it is; nothing is sent to the pool in this run | "`TotalLenderBalance - ActiveLoansLiquidity == SAC balance`" |
| QuorumLost | `initialize` accepts a list that names a validator twice, a removal is judged by the length of the list and drops every entry: from `[v2, v3, v3]` with a quorum of two, removing `v3` leaves one | "removing refuses to drop below `min_signatures`" (`execute_validator_change`) |

More comments say other than the code, without a run of their own:

* `compute_basket_rate` says that the sum "is then rescaled by `BASIS_POINTS /
  total_weight`" and divides by `total_weight` alone, after each term was divided
  by `BASIS_POINTS`: with weights that add up to `BASIS_POINTS` the rate of the
  basket is short by that factor. `test_comprehensive.rs` expects 1_500_000 of two
  half weights at 1.0 and 2.0, where the code yields 150. `BasketRate` is what the
  code computes, so every theorem about the value contracts is about that rate.
* ZK verifier: `test_verify_nullifier_reused_panics` expects "the same nullifier for
  a different wallet + commitment" to be refused. `verify` looks a nullifier up
  together with its commitment (`ScopedNullifier`), so under another commitment it
  verifies again; `NullifierSpentOnce` is about the pair.
* ZK verifier: a spent nullifier is kept "long enough to prevent replay within any
  realistic settlement window while still letting stale entries expire"
  (`NULLIFIER_TTL_LEDGERS`), and persistent storage is used "so entries expire
  individually via TTL" (`ScopedNullifier`). A persistent entry past its lifetime is
  archived, not deleted: a call that touches it fails until it is restored, and
  then finds it as it was. So a pair never becomes unspent again, not after those
  60 days either (`NullifierSpentOnce`, where entries are archived and restored;
  its mutant is the code the comments describe).
* minting: `mint_from_basket` adds `acbu_amount + fee_acbu` to the tracked supply
  but mints `net_mint + fee_acbu`, which is `acbu_amount`, so one basket mint with a
  fee leaves the counter above the token; the comment on the mint check wants
  it "in sync with the actual circulating supply".
* vault: `get_user_lots` reads temporary storage, while `deposit` and `withdraw`
  keep lots in persistent storage, so it never finds one;
  `test_get_user_lots_pagination` expects the lots.
* `update_rate`: "unless the new rate deviates beyond the per-currency emergency
  threshold". The deviation is tested on an argument; the median that is
  committed need not resemble it.
* `STALE_RATE_MAX_LEDGERS`: "Admin can bypass via `set_rate_admin`".
  `set_rate_admin` waits for the wall clock even if the rate is stale by ledgers.
* multisig: "The stored version is bumped by one". An upgrade proposal older
  than another executed one stores the version it was bound to, which may be
  lower; and "once the threshold is reached, any signer calls `execute`" forgets
  that one approval by a signer removed since blocks it.
* `docs/upgrade-runbook.md` promises "Downgrade Prevention: upgrades to a lower or
  equal version are rejected". The staged contracts compare versions when an
  upgrade is staged. In the oracle a `migrate` may come between: it stores
  `VERSION`, and executing the staged upgrade then takes the version back to
  the one it was staged with. A further `migrate` then erases basket, rates and
  token addresses, against "No Data Loss".
* The same happens to any fresh oracle: `initialize` stores version 1, so its first
  `migrate` ("no-op if already current") runs every migration.
* The runbook's "all contracts implement a standardized `upgrade` function" holds
  of minting and burning, the only ones without a timelock, although the table
  in `README.md` says "Multisig (timelock)" of both; the others stage.
* `README.md` and `DEPLOYMENT.md` want "all admin operations" behind the multisig,
  whose actions are pause, unpause, token, rate and `upgrade`. It cannot
  transfer or accept an admin, stage an upgrade or set an operator
  (`GovernedOnly`), so a contract handed to it stays with it, and oracle,
  tracker, pool and vault can then not be upgraded at all.
* `InvalidRoleSeparation`, "admin and operator must be different addresses":
  `initialize` and `set_operator` of minting see to it, `accept_admin` does not,
  so an operator who is nominated becomes both.
* `INTEGRATION.md` gives `zk_gate` a `zk_verifier` to ask. The gate calls `is_v`, the
  verifier exports `is_verified`, so every gated call fails.
* `is_reserve_sufficient` calls a supply that values to zero sufficient; the
  code (AC-042) does not.
* escrow: "Only the payer or admin can authorize the release"; only the payer
  can. "After expiry the payer may self-refund": at the nominal pace of five
  seconds the entry's lifetime ends in the ledger whose time is the expiry, and
  in the next one, the first in which the payer's signature would do, it is
  gone. The window is open only if ledgers were slower than nominal or somebody
  extended the entry from outside.

`SupplyTracked` (an inequality) is what remains true in spite of the drift of the
counter: the drift is to the safe side, and no call takes the counter below the token.

Fairness is assumed in one place: `Quickselect` is a sequential loop, so its
next step is taken (`WF_selectVars(SelectNext)`), and `Terminates` follows. Nothing obliges
users, validators or admins to call a contract, so no other specification states
fairness, and what must stay possible is stated as a state property instead
(`RefreshableWhenUnusable`, `QuorumWithinRepeats`).

## Proofs

* `AcbuSystemProofs`: `TypeCorrect`; `SupplyIsTracked` (`supply <= tracked`),
  inductive together with the types: the lemmas on `IssueForUsd` and
  `NotifyMintingBurn` show that a mint counts at least what it issues and a burn
  is recorded at most in full; `SystemImplementsLedger`: initial states map to
  initial states and every step to a step of `SupplyLedger` or a stutter, by
  cases on the steps of the contracts. `LinkedBurnsAreRecorded` needs
  `SupplyIsTracked`: `record_burn` saturates at zero, and only a counter that
  covers the token shows that it never does. `DepositsAreCreditedOnce` needs
  that an id credited so far is in `processedIds` (`CreditsRecorded`).
  `HaltsStopValue` goes through every action: those that move value are guarded
  by the breaker, the others leave supply, vault and custody alone.
  `IssuanceIsBacked` traces every rise of the supply to `IssueForUsd` or the fiat
  drip, whose gate is `IsReserveSufficient` at a supply no smaller than the
  token's after the mint (by `SupplyIsTracked`), and shows that valuing a supply
  is monotone through both its roundings. `IssuanceIsPaid` bounds what is minted
  for a value, the treasury's part included (`AcbuForBack`, `IssueForUsdPaid`).
  `RedemptionsAreBounded` has one lemma per rounding: the fee, the floor of
  `STokenOut` (`STokenOutBack`), the legs by oracle weights, each floored and the
  last one taking the remainder, which add up to the whole (`LegsSplitTotal`
  from `FloorsBounded`).
* `OracleProofs`: the invariant `IInv` = shape of rounds and votes, `ClockInv`
  (nothing is dated in the future), `RoundInv` (rounds of distinct pool members
  below the quorum) and `QuorumInv`, in which `ListInv` says that the validator list
  is no longer than its distinct members and what the first list repeated. Nothing is assumed of the first
  list but what `initialize` checks, so what holds of the quorum is
  `QuorumShortByRepeatsOnly`; `DistinctListsKeepQuorum` adds the assumption that
  the list repeats nobody, which `initialize` does not check, and has
  `QuorumAttainable`, which `QuorumLost` shows to fail without it. `RoundBelowQuorum` is not inductive alone:
  that a committed round has a full quorum needs its size, and that an
  emergency's votes postdate the rate needs `ClockInv` and the assumption
  `VoteTtl <= Cooldown`, likewise `SubmissionTtl <= Cooldown <= UpdateInterval`
  and `SubmissionTtl <= StaleLedgers` (a ledger takes at least a second) for
  `CommitsAreBacked`. In the code these are 3600, 3600, 3600, 21600 seconds and
  4320 ledgers. `UnusableIsRefreshable`: whatever its readers reject is outside
  the interval on one of the two clocks.
  `OracleTypeCorrect` and `OracleImplementsFeed` rest on what a median is:
  the median of a bag lies between the extremes of any majority of it
  (`MajorityHoldsMedian`, by counting the values below and above), so it is an
  integer, and a rate by `RatesAssumption`, which says that `Rates` names whatever
  may be published; where feeds are never negative that asks nothing
  (`MediansOfNaturals`).
  `SelectionIsCorrect` of `Quickselect`, for vectors of any length. A swap is a
  bijection of places, so every stage holds the same values as often as the
  argument (`SwapKeepsBag`); each partition keeps the wanted rank inside the
  window, everything below it no larger and everything above no smaller
  (`Bracketed`); a window of one place therefore holds the value of that rank
  (`SettledIsKth`, by counting), and for an even length the first of the two
  values survives the second selection (`LowerKept`).
* `LendingPoolProofs`: `IInv` = types, `LoansOK` (a loan's clock is not in the
  future and only a repaid loan has no principal), `NeverOverlent`,
  `DriftAccountedFor` and `HoldingsMatch`, inductive together: that a write-off
  or a repayment keeps `Available` needs the principal to be what was added to
  `Borrowed`, `BooksMatchHoldings` that each call moves the books of one lender by
  what it moves the holdings (`BooksMove`) and a plain transfer moves none of them
  (`DonateInv`), and
  `RepaymentsApply` needs `FeeIsNat` and `RepaidOK`, that interest is natural
  and a repayment splits without remainder.
* `EscrowProofs`: types; `EscrowsAreKept` from `ClocksInv` (the seconds left of
  a term are at most the nominal gap times the ledgers left of the entry), which
  rests on the assumption `NominalPace`; `EscrowsAreCovered`: an entry created
  adds its amount to sum and holdings, one settled takes it from both, and one
  that expires out of storage only from the sum;
  `AnnouncementsImplementTimelock` for the admin and the staged code, with the
  mapping `since = eligibleAt - delay`.
* `SavingsVaultProofs`: types, and `BooksIInv` with them. The loop of `withdraw` is
  shown to be defined on every list (`ConsumingIsLoop`), and by counting along
  the list every stage of it is `Accounted`: what it has taken is what is missing
  from the lots it keeps, of all lots and of the unlocked ones; the yields of
  what it took and of what it kept are no more than that of the lots before,
  since two floors are no more than the floor of the sum (`DivSplit`); once
  nothing unlocked is left they are equal; and it passes by an unlocked lot only
  when it is done. From that `VaultBooksAddUp`, `PendingYieldIsKept` and
  `MaturedIsReturnable` follow: the last because the vault holds everybody's
  principal besides the reserve, so that the transfer of a payout cannot fail.
* `GovernanceProofs`: of `Multisig` by itself the types, `ConfigStaysSound`
  (`ValidConfig` is re-established by the only action that writes the config)
  and `ExecutionsAreAuthorised`. Every step of `Governance` is one of `Multisig` or leaves it
  alone (`StepOfMultisig`), so what is proved there holds here. The invariant is
  the types, `Sound` (no nominee where the multisig is admin, so that nothing is
  accepted behind its back; nothing staged in minting and burning; what is
  staged is ahead of the stored version, except in the oracle) and `Effective`
  (the executed upgrades of a contract under the multisig are exactly the
  versions it went through). `GovernanceGoverns` and `UpgradesAreKept` follow by
  cases on who calls what.
* `ZkVerifierProofs`: the invariant says that storage is a digest of the published
  events: pairs of verifications are spent (`PairsSpent`), the policy is the one
  last announced, attested commitments were announced, and a wallet has a record
  exactly while the last event about it is a verification with that deadline
  (`RecordsAnnounced`). None of it mentions lifetimes: archival only stops calls. Both properties follow, by cases on the event a step
  publishes.

* `FiniteSums`: the facts about sums that the proofs of the books cite. The
  library defines a sum by a recursion over the subsets of a set and states
  its facts with operators as parameters, which a first-order prover cannot
  instantiate. Here there is one sum, `SumOver(f, S)`, of every function over
  every finite set, and induction takes the form of a least counterexample:
  among the subsets of a finite set for which a fact fails one is minimal
  (`MinimalSubset`, from the library's well-founded orderings), as among
  naturals one is least (`LeastNatural`, `CountingUp`). That shows that the
  recursion has exactly one solution (`RecursionSolvable`, `RecursionUnique`) and
  hence that any member may be taken out first (`SumRemove`), from which the
  others follow: `SumUpdate`, `SumMonotone`, `SumLinear`, `SumPartition`,
  `SumReindex`.

All theorems hold for every value of the constants under the named assumptions
in the modules. TLC evaluates these on every run. Of the assumptions those on
sizes say that users, lenders, terms and currencies are finitely many, as
storage is; `RatesAssumption` and `OracleAssumption` say what sets the model's
constants must name.

Every invariant and every action property a passing run checks is a theorem,
and so are the refinements of `SupplyLedger`, of `RateFeed` and of `Timelock`.
Only model-checked is `Terminates`: liveness under fairness is out of the
prover's reach. `MaturedReturnable` says of the checks of `withdraw` that they
pass, not `ENABLED` of the action, which the prover cannot reason about: the
action's other conjuncts each assign one variable, so it is the same.

## Not modelled

* The `update_*` setters of addresses other than the token, `set_custodian`,
  `add_currency`: they re-point a contract, after which other contracts than
  these are called.
* `set_basket_config` as a change of the weights under the value contracts (its
  part in `migrate` is in `ContractAdmin`), sources that are not positive.
* Merkle inclusion proofs (read-only), signatures of settlement proofs.
* A vault pointed at another token while it holds lots (the escrow's case is
  modelled: `switched`), and `get_user_lots`.
* The ZK gate, whose calls all fail, and the rules of `verifier`, pure
  functions no contract calls; they expect five public inputs where the
  contract takes six.
* The re-entrancy guard: the host refuses re-entry, the guard can only make a
  call fail.
* SDK, frontend, circuits and scripts.

## Plan

Done, in this order: the value contracts and their ledger, the oracle, the
median, the multisig, escrow with the admin roles, the lending pool, the savings
vault, the administration of all contracts by keys and by the multisig, the ZK
verifier; then the proofs listed above. Left:

1. `BasketLegs`: mint and redemption legs when the weights do not add up to
   `BASIS_POINTS`, which `set_basket_config` accepts.
2. `FiatSettlement`: proofs bound to the time of a ledger against retries.
3. Proofs: what a median commits to when a minority of sources or validators
   lies (`MajorityHoldsMedian` inside `CommitBacked`), and the same results
   for weights that do not add up.
