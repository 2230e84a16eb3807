------------------------------ MODULE Minting -------------------------------
(***************************************************************************)
(* The minting contract: five ways to issue ACBU, the tracked supply the   *)
(* cap and the reserve gate are judged on, and the replay records of       *)
(* proofs and fintech transactions.                                        *)
(*                                                                         *)
(* One invocation is one step: the host serialises calls and undoes every  *)
(* write of a call that panics.  A guard below is an early panic or        *)
(* return, or a refusal by a called contract.  Recipients range over       *)
(* accounts only, and depositors hold and authorise what they send.        *)
(***************************************************************************)
EXTENDS ReserveTracker

CONSTANTS
    MinMint, MaxMint,      \* bounds of one mint, in USD units
    InitMaxSupply,         \* MAX_TOTAL_SUPPLY
    InitMaxDrip,
    InitFeeRate, InitFeeSingle,
    ProofIds,              \* proof_id strings
    FintechIds,            \* well-formed fintech_tx_id strings, as sent
    Lowercase,             \* the canonical id of each
    MintAmounts,           \* amounts callers pass to the mint entry points
    UsdcSupply,            \* USDC in existence: what depositors can own at most
    STokenSupply,          \* S-tokens in existence, per currency
    MaxSupplies,           \* values the admin may pass to set_max_supply
    FeeRates               \* values the admin may pass to the fee setters

ASSUME MintingAssumption ==
    /\ MinMint \in Nat \ {0} /\ MaxMint \in Nat
    /\ InitMaxSupply \in Int
    /\ InitMaxDrip \in Nat
    /\ InitFeeRate \in 0 .. BasisPoints /\ InitFeeSingle \in 0 .. BasisPoints
    /\ Lowercase \in [FintechIds -> STRING]
    /\ MintAmounts \subseteq Nat
    /\ UsdcSupply \in Nat /\ STokenSupply \in Nat
    /\ MaxSupplies \subseteq Int
    /\ FeeRates \subseteq Int

VARIABLES
    tracked,         \* total_supply: the contract's own counter
    maxSupply, maxDrip, feeRate, feeSingle,
    usedProofs,      \* proof ids sealed by mark_proof_used
    processedIds,    \* canonical fintech ids marked processed
    burningLinked,   \* a burning contract may call record_burn
    usdcHeld,        \* USDC received by this contract
    vault,           \* vault[c]: S-tokens of c held by the vault
    custody,         \* custody[c]: S-tokens of c held by this contract
    credited         \* history: how often each fiat deposit was credited

\* What set_* entry points write, and what the mint entry points write.
mintConfigVars == <<maxSupply, maxDrip, feeRate, feeSingle, burningLinked>>
mintStateVars == <<tracked, usedProofs, processedIds, usdcHeld, vault, custody, credited>>
mintingVars == <<mintConfigVars, mintStateVars>>

Deposits == Range(Lowercase)

MintingTypeOK ==
    /\ tracked \in Nat
    /\ maxSupply \in Int /\ maxDrip \in Nat
    /\ feeRate \in 0 .. BasisPoints /\ feeSingle \in 0 .. BasisPoints
    /\ usedProofs \subseteq ProofIds
    /\ processedIds \subseteq Deposits
    /\ burningLinked \in BOOLEAN
    /\ usdcHeld \in Nat
    /\ vault \in [Currency -> Nat]
    /\ custody \in [Currency -> Nat]
    /\ credited \in [Deposits -> Nat]

MintingInit ==
    /\ tracked = 0
    /\ maxSupply = InitMaxSupply /\ maxDrip = InitMaxDrip
    /\ feeRate = InitFeeRate /\ feeSingle = InitFeeSingle
    /\ usedProofs = {} /\ processedIds = {}
    /\ burningLinked = FALSE
    /\ usdcHeld = 0
    /\ vault = [c \in Currency |-> 0]
    /\ custody = [c \in Currency |-> 0]
    /\ credited = [d \in Deposits |-> 0]

-----------------------------------------------------------------------------
\* The basket rate is readable, fresh and a usable divisor (checked_div).
BasketPriced ==
    /\ BasketRateReadable
    /\ CheckOracleFreshness(BasketTimestamp)
    /\ BasketRate \in Nat \ {0}

CurrencyPriced(c) ==
    /\ RateReadable(c)
    /\ CheckOracleFreshness(quotes[c].timestamp)

\* Mutants: the reserves are asked before the mint is added; the cap is
\* compared with the supply so far.
CanIssueOnOldReserves(projected) ==
    /\ projected <= maxSupply
    /\ IsReserveSufficient(tracked)

CanIssueBelowCap(projected) ==
    /\ tracked < maxSupply
    /\ IsReserveSufficient(projected)

\* check_supply_cap and is_reserve_sufficient on the supply as it would be.
CanIssue(projected) ==
    /\ projected <= maxSupply
    /\ IsReserveSufficient(projected)

UsdGross(c, amount) == (amount * quotes[c].rate) \div Decimals

\* Mutant: the quotient is rounded up.
AcbuForRoundedUp(usd) == (usd * Decimals + BasketRate - 1) \div BasketRate

AcbuFor(usd) == (usd * Decimals) \div BasketRate

\* Mutant: the counter misses the fee minted to the treasury.
IssueForUsdFeeUncounted(usd, feeBps) ==
    LET acbu == AcbuFor(CalculateAmountAfterFee(usd, feeBps))
        fee == AcbuFor(CalculateFee(usd, feeBps))
    IN  /\ usd >= MinMint /\ usd <= MaxMint
        /\ BasketPriced
        /\ CanIssue(tracked + acbu + fee)
        /\ tracked' = tracked + acbu
        /\ TokenMint(acbu, fee)

\* The tail every USD-priced mint shares: bounds, cap and reserves, the
\* tracked supply, then the two mints (recipient and treasury).
IssueForUsd(usd, feeBps) ==
    LET acbu == AcbuFor(CalculateAmountAfterFee(usd, feeBps))
        fee == AcbuFor(CalculateFee(usd, feeBps))
    IN  /\ usd >= MinMint /\ usd <= MaxMint
        /\ BasketPriced
        /\ CanIssue(tracked + acbu + fee)
        /\ tracked' = tracked + acbu + fee
        /\ TokenMint(acbu, fee)

\* A depositor can still own amount S-tokens of c.
Outstanding(c, amount) == vault[c] + custody[c] + amount <= STokenSupply

-----------------------------------------------------------------------------
MintFromUsdc(amount) ==
    /\ CheckCircuit("minting")
    /\ usdcHeld + amount <= UsdcSupply
    /\ IssueForUsd(amount, feeRate)
    /\ usdcHeld' = usdcHeld + amount
    /\ UNCHANGED <<mintConfigVars, usedProofs, processedIds, vault, custody, credited>>

\* S-tokens of c pulled from the depositor for a basket mint of acbu.
DepositLeg(acbu, c) ==
    LET usdTotal == (acbu * BasketRate) \div Decimals
        usdLeg == (Weight[c] * usdTotal) \div BasisPoints
    IN  IF Weight[c] = 0 THEN 0 ELSE (usdLeg * Decimals) \div quotes[c].rate

MaxBasketCurrencies == 10

\* The counter moves by acbu + fee, although the fee is carved out of acbu.
MintFromBasket(acbu, proof) ==
    LET fee == CalculateFee(acbu, feeRate)
    IN  /\ CheckCircuit("minting")
        /\ proof \notin usedProofs
        /\ acbu >= MinMint /\ acbu <= MaxMint
        /\ BasketPriced
        /\ CanIssue(tracked + acbu)
        /\ Len(Currencies) <= MaxBasketCurrencies
        /\ \A c \in Currency : Weight[c] # 0 => RateReadable(c) /\ quotes[c].rate # 0
        /\ \A c \in Currency : Outstanding(c, DepositLeg(acbu, c))
        /\ tracked' = tracked + (acbu + fee)
        /\ vault' = [c \in Currency |-> vault[c] + DepositLeg(acbu, c)]
        /\ TokenMint(acbu - fee, fee)
        /\ usedProofs' = usedProofs \cup {proof}
        /\ UNCHANGED <<mintConfigVars, processedIds, usdcHeld, custody, credited>>

MintFromSingle(c, amount) ==
    /\ CheckCircuit("minting")
    /\ CurrencyPriced(c) /\ quotes[c].rate # 0
    /\ Outstanding(c, amount)
    /\ IssueForUsd(UsdGross(c, amount), feeSingle)
    /\ vault' = [vault EXCEPT ![c] = @ + amount]
    /\ UNCHANGED <<mintConfigVars, usedProofs, processedIds, usdcHeld, custody, credited>>

\* The operator moves custodied S-tokens to the vault.
MintFromDemoFiat(c, amount, proof) ==
    /\ CheckCircuit("minting")
    /\ proof \notin usedProofs
    /\ CurrencyPriced(c)
    /\ IssueForUsd(UsdGross(c, amount), feeSingle)
    /\ custody[c] >= amount
    /\ custody' = [custody EXCEPT ![c] = @ - amount]
    /\ vault' = [vault EXCEPT ![c] = @ + amount]
    /\ usedProofs' = usedProofs \cup {proof}
    /\ UNCHANGED <<mintConfigVars, processedIds, usdcHeld, credited>>

\* Mutant: ids are compared as they were sent.
FintechKeyAsSent(id) == id

\* normalize_fintech_tx_id: what a fintech id is recorded under.
FintechKey(id) == Lowercase[id]

\* The operator reports an off-chain deposit and signs it for this ledger.
MintFromFiat(c, amount, id) ==
    /\ CheckCircuit("minting")
    /\ FintechKey(id) \notin processedIds
    /\ CurrencyPriced(c) /\ quotes[c].rate # 0
    /\ IssueForUsd(UsdGross(c, amount), feeRate)
    /\ processedIds' = processedIds \cup {FintechKey(id)}
    /\ credited' = [credited EXCEPT ![Lowercase[id]] = @ + 1]
    /\ UNCHANGED <<mintConfigVars, usedProofs, usdcHeld, vault, custody>>

AdminDripFiat(c, amount) ==
    /\ CheckCircuit("minting")
    /\ amount > 0 /\ amount <= maxDrip
    /\ custody[c] >= amount
    /\ custody' = [custody EXCEPT ![c] = @ - amount]
    /\ UNCHANGED <<mintConfigVars, tracked, usedProofs, processedIds, usdcHeld, vault, credited>>

-----------------------------------------------------------------------------
\* record_burn, called by the linked burning contract within its own step.
RecordBurn(amount) ==
    /\ burningLinked
    /\ amount > 0
    /\ tracked' = IF amount >= tracked THEN 0 ELSE tracked - amount

\* sync_supply(v) succeeds only for the token's supply, within the cap.
SyncSupply ==
    /\ ~IsPaused("minting")
    /\ supply <= maxSupply
    /\ tracked' = supply
    /\ UNCHANGED <<mintConfigVars, usedProofs, processedIds, usdcHeld, vault, custody, credited>>

SetBurningContract ==
    /\ burningLinked' = TRUE
    /\ UNCHANGED <<maxSupply, maxDrip, feeRate, feeSingle, mintStateVars>>

SetMaxSupply(n) ==
    /\ ~IsPaused("minting")
    /\ maxSupply' = n
    /\ UNCHANGED <<maxDrip, feeRate, feeSingle, burningLinked, mintStateVars>>

SetMaxDrip(n) ==
    /\ ~IsPaused("minting")
    /\ n >= 0
    /\ maxDrip' = n
    /\ UNCHANGED <<maxSupply, feeRate, feeSingle, burningLinked, mintStateVars>>

\* Mutant: any fee rate is stored.
SetFeeRateUnchecked(bps) ==
    /\ ~IsPaused("minting")
    /\ feeRate' = bps
    /\ UNCHANGED <<maxSupply, maxDrip, feeSingle, burningLinked, mintStateVars>>

SetFeeRate(bps) ==
    /\ ~IsPaused("minting")
    /\ bps \in 0 .. BasisPoints
    /\ feeRate' = bps
    /\ UNCHANGED <<maxSupply, maxDrip, feeSingle, burningLinked, mintStateVars>>

SetFeeSingle(bps) ==
    /\ ~IsPaused("minting")
    /\ bps \in 0 .. BasisPoints
    /\ feeSingle' = bps
    /\ UNCHANGED <<maxSupply, maxDrip, feeRate, burningLinked, mintStateVars>>

\* External: S-tokens of c arrive in the contract's demo custody.
FundCustody(c, amount) ==
    /\ Outstanding(c, amount)
    /\ custody' = [custody EXCEPT ![c] = @ + amount]
    /\ UNCHANGED <<mintConfigVars, tracked, usedProofs, processedIds, usdcHeld, vault, credited>>
=============================================================================
