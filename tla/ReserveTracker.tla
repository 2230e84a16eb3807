--------------------------- MODULE ReserveTracker ---------------------------
(***************************************************************************)
(* The reserve tracker: the admin reports what the custodian holds per     *)
(* currency, the custodian attests it with a Merkle root, and minting and  *)
(* burning ask is_reserve_sufficient before they move value.               *)
(***************************************************************************)
EXTENDS RateFeed, CircuitBreaker, AcbuToken

CONSTANTS
    ReserveReports,      \* [amount, valueUsd] pairs the admin may report
    MinReserveRatio,     \* min_reserve_ratio_bps
    AttestationMaxAge,   \* ATTESTATION_MAX_AGE_SECONDS
    VerifyCooldown,      \* VERIFY_RESERVES_COOLDOWN_SECONDS
    ToleranceBps,        \* RESERVE_TOLERANCE_BPS
    MinTolerance         \* RESERVE_MIN_TOLERANCE_STROOPS

ASSUME ReserveAssumption ==
    /\ ReserveReports \subseteq [amount : Int, valueUsd : Int]
    /\ MinReserveRatio \in Int
    /\ AttestationMaxAge \in Nat /\ VerifyCooldown \in Nat
    /\ ToleranceBps \in Nat /\ MinTolerance \in Nat

VARIABLES
    reserves,        \* reserves[c]: value_usd of the stored ReserveData, 0 if none
    attestedAt,      \* attestation_ts, or Never
    lastVerify       \* [at, result] of the last computed verify_reserves

reserveVars == <<reserves, attestedAt, lastVerify>>

Never == -1

ReserveTypeOK ==
    /\ reserves \in [Currency -> Nat]
    /\ attestedAt \in Nat \cup {Never}
    /\ lastVerify \in [at : Nat \cup {Never}, result : BOOLEAN]

ReserveInit ==
    /\ reserves = [c \in Currency |-> 0]
    /\ attestedAt = Never
    /\ lastVerify = [at |-> Never, result |-> FALSE]

-----------------------------------------------------------------------------
TotalReserves == SumOver(reserves, Currency)

SupplyUsd(total) == (total * BasketRate) \div Decimals

AttestationFresh == attestedAt # Never /\ now - attestedAt <= AttestationMaxAge

\* The ratio test proper, once the rate could be read.
RatioMet(total) ==
    /\ SupplyUsd(total) # 0
    /\ (TotalReserves * BasisPoints) \div SupplyUsd(total) >= MinReserveRatio

\* is_reserve_sufficient does not panic: only the ratio test reads the oracle.
ReserveCheckAnswers(total) ==
    (~IsPaused("reserve") /\ AttestationFresh /\ total > 0) => BasketRateReadable

\* is_reserve_sufficient(total) = true.
IsReserveSufficient(total) ==
    /\ ~IsPaused("reserve")
    /\ AttestationFresh
    /\ total > 0 => BasketRateReadable /\ RatioMet(total)

-----------------------------------------------------------------------------
\* update_reserve: the report must agree with the oracle within the tolerance.
UpdateReserve(c, report) ==
    LET expected == TruncDiv(report.amount * quotes[c].rate, Decimals)
        tolerance == Max({TruncDiv(expected * ToleranceBps, BasisPoints), MinTolerance})
    IN  /\ report.amount > 0 /\ report.valueUsd > 0
        /\ RateReadable(c)
        /\ CheckOracleFreshness(quotes[c].timestamp)
        /\ AbsDiff(report.valueUsd, expected) <= tolerance
        /\ reserves' = [reserves EXCEPT ![c] = report.valueUsd]
        /\ UNCHANGED <<attestedAt, lastVerify>>

ResetReserves ==
    /\ reserves' = [c \in Currency |-> 0]
    /\ UNCHANGED <<attestedAt, lastVerify>>

SubmitAttestation ==
    /\ attestedAt' = now
    /\ UNCHANGED <<reserves, lastVerify>>

\* verify_reserves outside its cooldown.  A zero supply panics, which also
\* rolls the stored call time back; within the cooldown the stored answer is
\* returned and nothing changes.
VerifyReserves ==
    /\ lastVerify.at = Never \/ now - lastVerify.at >= VerifyCooldown
    /\ supply # 0
    /\ ReserveCheckAnswers(supply)
    /\ lastVerify' = [at |-> now, result |-> IsReserveSufficient(supply)]
    /\ UNCHANGED <<reserves, attestedAt>>
=============================================================================
