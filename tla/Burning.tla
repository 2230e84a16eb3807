------------------------------ MODULE Burning -------------------------------
(***************************************************************************)
(* The burning contract: ACBU is burned in full, its fee included, and the *)
(* vault pays S-tokens out under an allowance it granted.  The burn is     *)
(* reported to the minting contract once the two are linked.               *)
(***************************************************************************)
EXTENDS Minting

CONSTANTS
    MinBurn,                          \* MIN_BURN_AMOUNT
    BurnFeeRate, BurnFeeSingle,       \* fixed at initialize
    BurnAmounts,                      \* amounts holders redeem
    Allowances                        \* allowances the vault may grant

ASSUME BurningAssumption ==
    /\ MinBurn \in Nat \ {0}
    /\ BurnFeeRate \in 0 .. BasisPoints /\ BurnFeeSingle \in 0 .. BasisPoints
    /\ BurnAmounts \subseteq Nat
    /\ Allowances \subseteq Nat

VARIABLES
    mintingLinked,    \* burns are reported to the minting contract
    allowance         \* allowance[c]: what the vault lets this contract spend

burningVars == <<mintingLinked, allowance>>

BurningTypeOK ==
    /\ mintingLinked \in BOOLEAN
    /\ allowance \in [Currency -> Nat]

BurningInit ==
    /\ mintingLinked = FALSE
    /\ allowance = [c \in Currency |-> 0]

-----------------------------------------------------------------------------
\* Mutant: a paused tracker, which gives no verdict, counts as consent.
CheckReservesUnlessPaused == IsPaused("reserve") \/ IsReserveSufficient(supply)

\* check_reserves looks at the token's supply before the burn.
CheckReserves == IsReserveSufficient(supply)

\* Mutant: the burn is reported net of the fee.
NotifyMintingNetBurn(amount) ==
    IF mintingLinked
    THEN RecordBurn(CalculateAmountAfterFee(amount, BurnFeeRate))
    ELSE UNCHANGED tracked

\* notify_minting_burn: a linked minting contract that does not know this
\* contract makes the whole redemption fail.
NotifyMintingBurn(amount) ==
    IF mintingLinked THEN RecordBurn(amount) ELSE UNCHANGED tracked

\* S-tokens leave the vault within its balance and its allowance.
PayOut(paid) ==
    /\ \A c \in Currency : vault[c] - paid[c] \in Nat /\ allowance[c] - paid[c] \in Nat
    /\ vault' = [c \in Currency |-> vault[c] - paid[c]]
    /\ allowance' = [c \in Currency |-> allowance[c] - paid[c]]

\* What redeeming touches apart from the supply and the vault stays.
RedeemFrame ==
    UNCHANGED <<mintingLinked, mintConfigVars, usedProofs, processedIds, usdcHeld,
                custody, credited>>

\* Mutant: the quotient is rounded up.
STokenOutRoundedUp(netAcbu, c) ==
    TruncDiv(netAcbu * BasketRate + quotes[c].rate - 1, quotes[c].rate)

STokenOut(netAcbu, c) == TruncDiv(netAcbu * BasketRate, quotes[c].rate)

RedeemSingle(c, amount) ==
    LET net == amount - CalculateFee(amount, BurnFeeSingle)
    IN  /\ CheckCircuit("burning")
        /\ amount >= MinBurn
        /\ BasketPriced /\ CurrencyPriced(c) /\ quotes[c].rate > 0
        /\ CheckReserves
        /\ TokenBurn(amount)
        /\ NotifyMintingBurn(amount)
        /\ PayOut([d \in Currency |-> IF d = c THEN STokenOut(net, c) ELSE 0])
        /\ RedeemFrame

-----------------------------------------------------------------------------
Index == DOMAIN Currencies

BasketWeight(i) == Weight[Currencies[i]]

TotalBasketWeight == SumOver([i \in Index |-> BasketWeight(i)], Index)

LastPositiveWeight == Max({i \in Index : BasketWeight(i) > 0})

\* The share of the total that leg i gets: floors, and the last currency
\* with a weight takes what the floors left over.
LegShare(total, i) ==
    LET floors == [j \in Index |-> WeightedFloor(total, BasketWeight(j), TotalBasketWeight)]
    IN  IF i = LastPositiveWeight
        THEN total - SumOver(floors, {j \in Index : j < i})
        ELSE floors[i]

\* S-tokens of c a basket redemption of amount pays out.
RedemptionLeg(amount, c) ==
    LET i == CHOOSE j \in Index : Currencies[j] = c
        net == LegShare(amount, i) - LegShare(CalculateFee(amount, BurnFeeRate), i)
        native == STokenOut(net, c)
    IN  IF Weight[c] = 0 \/ native <= 0 THEN 0 ELSE native

RedeemBasket(amount) ==
    /\ CheckCircuit("burning")
    /\ amount >= MinBurn
    /\ BasketPriced
    /\ TotalBasketWeight # 0
    /\ CheckReserves
    /\ \A c \in Currency : Weight[c] # 0 => CurrencyPriced(c) /\ quotes[c].rate > 0
    /\ TokenBurn(amount)
    /\ NotifyMintingBurn(amount)
    /\ PayOut([c \in Currency |-> RedemptionLeg(amount, c)])
    /\ RedeemFrame

SetMintingContract ==
    /\ mintingLinked' = TRUE
    /\ UNCHANGED <<allowance, mintingVars>>

\* External: the vault approves this contract as spender of c.
VaultApprove(c, amount) ==
    /\ allowance' = [allowance EXCEPT ![c] = amount]
    /\ UNCHANGED <<mintingLinked, mintingVars>>
=============================================================================
