-------------------------- MODULE AcbuSystemProofs --------------------------
(***************************************************************************)
(* Proofs about AcbuSystem, for every basket, clock, amount and set of     *)
(* entry points: type correctness, the invariant that the tracked supply   *)
(* covers the token's and the refinement of SupplyLedger it makes          *)
(* possible; that halts and deposit ids bind every call; and, from lemmas  *)
(* on the rounding of each entry point, what a mint is backed by and paid  *)
(* for and what a redemption may hand out.                                 *)
(***************************************************************************)
EXTENDS AcbuSystem, FiniteSums

\* Truncating division of naturals stays within the naturals.
LEMMA DivNat ==
    ASSUME NEW a \in Nat, NEW b \in Nat \ {0}
    PROVE  a \div b \in Nat
  BY SMT

\* So does the product.
LEMMA TimesNat ==
    ASSUME NEW a \in Nat, NEW b \in Nat
    PROVE  a * b \in Nat
  BY SMT

\* Every stored quote carries a natural rate, the empty one included.
LEMMA QuoteRateNat ==
    ASSUME RateTypeOK, NEW c \in Currency
    PROVE  quotes[c].rate \in Nat
  <1>1. Rates \subseteq Nat
    BY FeedAssumption
  <1>2. quotes[c] \in [rate : Rates, timestamp : Nat, ledger : Nat, set : {TRUE}]
        \/ quotes[c] = NoQuote
    BY DEF RateTypeOK, Quote
  <1>3. CASE quotes[c] \in [rate : Rates, timestamp : Nat, ledger : Nat, set : {TRUE}]
    BY <1>1, <1>3
  <1>4. CASE quotes[c] = NoQuote
    BY <1>4 DEF NoQuote
  <1> QED BY <1>2, <1>3, <1>4

\* A basket deposit leg is a natural number of S-tokens.
LEMMA DepositLegNat ==
    ASSUME RateTypeOK, NEW acbu \in Nat, NEW c \in Currency,
           BasketRate \in Nat \ {0},
           Weight[c] # 0 => quotes[c].rate # 0
    PROVE  DepositLeg(acbu, c) \in Nat
  <1> DEFINE usdTotal == (acbu * BasketRate) \div Decimals
             usdLeg == (Weight[c] * usdTotal) \div BasisPoints
  <1>1. usdTotal \in Nat
    BY TimesNat, DivNat, ScaleAssumption
  <1>2. Weight[c] \in Nat
    BY FeedAssumption
  <1>3. usdLeg \in Nat
    <2> HIDE DEF usdTotal
    <2> QED BY <1>1, <1>2, TimesNat, DivNat, ScaleAssumption
  <1>4. quotes[c].rate \in Nat
    BY QuoteRateNat
  <1>5. CASE Weight[c] = 0
    BY <1>5 DEF DepositLeg
  <1>6. CASE Weight[c] # 0
    <2>1. quotes[c].rate \in Nat \ {0}
      BY <1>4, <1>6
    <2>2. usdLeg * Decimals \in Nat
      <3> HIDE DEF usdLeg
      <3> QED BY <1>3, TimesNat, ScaleAssumption
    <2>3. (usdLeg * Decimals) \div quotes[c].rate \in Nat
      <3> HIDE DEF usdLeg
      <3> QED BY <2>1, <2>2, DivNat
    <2> QED BY <1>6, <2>3 DEF DepositLeg
  <1> QED BY <1>5, <1>6
-----------------------------------------------------------------------------
(* Type correctness, one lemma per kind of step. *)

\* The oracle's steps touch the clock and the quotes only.
LEMMA OracleStepType ==
    ASSUME TypeOK, OracleStep
    PROVE  TypeOK'
  <1> USE DEF TypeOK, RateTypeOK
  <1>1. ASSUME NEW c \in Currency, NEW r \in Rates, PublishRate(c, r)
        PROVE  RateTypeOK'
    <2>1. [rate |-> r, timestamp |-> now, ledger |-> ledger, set |-> TRUE] \in Quote
      BY DEF Quote
    <2> QED BY <1>1, <2>1 DEF PublishRate
  <1>2. ASSUME ClearRates PROVE RateTypeOK'
    BY <1>2 DEF ClearRates, Quote
  <1>3. ASSUME LedgerClose PROVE RateTypeOK'
    BY <1>3, FeedAssumption DEF LedgerClose
  <1>4. RateTypeOK'
    BY <1>1, <1>2, <1>3 DEF OracleStep
  <1> QED BY <1>4 DEF OracleStep, breakerVars, reserveVars, mintingVars, mintConfigVars,
        mintStateVars, burningVars, BreakerTypeOK, TokenTypeOK, ReserveTypeOK,
        MintingTypeOK, BurningTypeOK

\* Pausing and linking peers touch the breakers only.
LEMMA BreakerStepType ==
    ASSUME TypeOK, BreakerStep
    PROVE  TypeOK'
  <1>1. BreakerTypeOK'
    BY BreakerAssumption DEF TypeOK, BreakerTypeOK, BreakerStep, Pause, Unpause,
        SetCircuitPeers
  <1> QED BY <1>1 DEF TypeOK, BreakerStep, rateVars, reserveVars, mintingVars,
        mintConfigVars, mintStateVars, burningVars, RateTypeOK, TokenTypeOK,
        ReserveTypeOK, MintingTypeOK, BurningTypeOK

\* Reports, attestations and verifications touch the tracker only.
LEMMA ReserveStepType ==
    ASSUME TypeOK, ReserveStep
    PROVE  TypeOK'
  <1> USE DEF TypeOK, ReserveTypeOK
  <1>1. ASSUME NEW c \in Currency, NEW report \in ReserveReports, UpdateReserve(c, report)
        PROVE  ReserveTypeOK'
    <2>1. report.valueUsd \in Nat
      BY <1>1, ReserveAssumption DEF UpdateReserve
    <2> QED BY <1>1, <2>1 DEF UpdateReserve
  <1>2. ASSUME ResetReserves PROVE ReserveTypeOK'
    BY <1>2 DEF ResetReserves
  <1>3. ASSUME SubmitAttestation PROVE ReserveTypeOK'
    BY <1>3 DEF SubmitAttestation, RateTypeOK
  <1>4. ASSUME VerifyReserves PROVE ReserveTypeOK'
    <2>1. IsReserveSufficient(supply) \in BOOLEAN
      BY DEF IsReserveSufficient
    <2> QED BY <1>4, <2>1 DEF VerifyReserves, RateTypeOK
  <1>5. ReserveTypeOK'
    BY <1>1, <1>2, <1>3, <1>4 DEF ReserveStep
  <1> QED BY <1>5 DEF ReserveStep, rateVars, breakerVars, mintingVars, mintConfigVars,
        mintStateVars, burningVars, RateTypeOK, BreakerTypeOK, TokenTypeOK,
        MintingTypeOK, BurningTypeOK

\* What every mint that goes through IssueForUsd leaves behind.
LEMMA IssueForUsdType ==
    ASSUME TypeOK, NEW usd, NEW bps, IssueForUsd(usd, bps)
    PROVE  supply' \in Nat /\ tracked' \in Nat
  <1> DEFINE acbu == AcbuFor(CalculateAmountAfterFee(usd, bps))
             fee == AcbuFor(CalculateFee(usd, bps))
  <1>1. acbu \in Nat /\ fee \in Nat /\ supply' = supply + acbu + fee
    BY DEF IssueForUsd, TokenMint
  <1>2. tracked' = tracked + acbu + fee
    BY DEF IssueForUsd
  <1>3. supply \in Nat /\ tracked \in Nat
    BY DEF TypeOK, TokenTypeOK, MintingTypeOK
  <1> HIDE DEF acbu, fee
  <1> QED BY <1>1, <1>2, <1>3

\* The five mints keep every variable of the system in its type.
LEMMA MintStepType ==
    ASSUME TypeOK, MintStep
    PROVE  TypeOK'
  <1> DEFINE Issued == supply' \in Nat /\ MintingTypeOK'
  <1>1. PICK n \in MintAmounts :
          \/ MintFromUsdc(n)
          \/ \E p \in ProofIds : MintFromBasket(n, p)
          \/ \E c \in Currency : MintFromSingle(c, n)
          \/ \E c \in Currency, p \in ProofIds : MintFromDemoFiat(c, n, p)
          \/ \E c \in Currency, id \in FintechIds : MintFromFiat(c, n, id)
    BY DEF MintStep
  <1>2. n \in Nat
    BY MintingAssumption
  <1>3. MintingTypeOK
    BY DEF TypeOK
  <1>4. ASSUME MintFromUsdc(n) PROVE Issued
    BY <1>2, <1>3, <1>4, IssueForUsdType DEF MintFromUsdc, mintConfigVars, MintingTypeOK
  <1>5. ASSUME NEW p \in ProofIds, MintFromBasket(n, p) PROVE Issued
    <2> DEFINE fee == CalculateFee(n, feeRate)
    <2>1. n - fee \in Nat /\ fee \in Nat /\ supply' = supply + (n - fee) + fee
      BY <1>5 DEF MintFromBasket, TokenMint
    <2>2. tracked' = tracked + (n + fee)
      BY <1>5 DEF MintFromBasket
    <2>3. supply \in Nat /\ tracked \in Nat
      BY DEF TypeOK, TokenTypeOK, MintingTypeOK
    <2>4. \A c \in Currency : DepositLeg(n, c) \in Nat
      BY <1>2, <1>5, DepositLegNat DEF MintFromBasket, BasketPriced, TypeOK
    <2>5. vault' \in [Currency -> Nat]
      <3>1. vault' = [c \in Currency |-> vault[c] + DepositLeg(n, c)]
        BY <1>5 DEF MintFromBasket
      <3>2. \A c \in Currency : vault[c] + DepositLeg(n, c) \in Nat
        BY <1>3, <2>4 DEF MintingTypeOK
      <3> QED BY <3>1, <3>2
    <2>6. supply' \in Nat /\ tracked' \in Nat
      <3> HIDE DEF fee
      <3> QED BY <1>2, <2>1, <2>2, <2>3
    <2>7. usedProofs' \subseteq ProofIds
      BY <1>3, <1>5 DEF MintFromBasket, MintingTypeOK
    <2> QED BY <1>3, <1>5, <2>5, <2>6, <2>7 DEF MintFromBasket, mintConfigVars, MintingTypeOK
  <1>6. ASSUME NEW c \in Currency, MintFromSingle(c, n) PROVE Issued
    BY <1>2, <1>3, <1>6, IssueForUsdType DEF MintFromSingle, mintConfigVars, MintingTypeOK
  <1>7. ASSUME NEW c \in Currency, NEW p \in ProofIds, MintFromDemoFiat(c, n, p) PROVE Issued
    <2>1. supply' \in Nat /\ tracked' \in Nat
      BY <1>7, IssueForUsdType DEF MintFromDemoFiat
    <2>2. custody' \in [Currency -> Nat] /\ vault' \in [Currency -> Nat]
      BY <1>2, <1>3, <1>7 DEF MintFromDemoFiat, MintingTypeOK
    <2>3. usedProofs' \subseteq ProofIds
      BY <1>3, <1>7 DEF MintFromDemoFiat, MintingTypeOK
    <2> QED BY <1>3, <1>7, <2>1, <2>2, <2>3 DEF MintFromDemoFiat, mintConfigVars, MintingTypeOK
  <1>8. ASSUME NEW c \in Currency, NEW id \in FintechIds, MintFromFiat(c, n, id) PROVE Issued
    <2>1. Lowercase[id] \in Deposits
      BY MintingAssumption DEF Deposits, Range
    <2>2. supply' \in Nat /\ tracked' \in Nat
      BY <1>8, IssueForUsdType DEF MintFromFiat
    <2>3. processedIds' \subseteq Deposits /\ credited' \in [Deposits -> Nat]
      BY <1>3, <1>8, <2>1 DEF MintFromFiat, FintechKey, MintingTypeOK
    <2> QED BY <1>3, <1>8, <2>2, <2>3 DEF MintFromFiat, mintConfigVars, MintingTypeOK
  <1>9. Issued
    <2> HIDE DEF Issued
    <2> QED BY <1>1, <1>4, <1>5, <1>6, <1>7, <1>8
  <1> QED BY <1>9 DEF TypeOK, MintStep, rateVars, breakerVars, reserveVars, burningVars,
        RateTypeOK, BreakerTypeOK, TokenTypeOK, ReserveTypeOK, BurningTypeOK

\* Administration of the minting contract and of its custody.
LEMMA MintAdminStepType ==
    ASSUME TypeOK, MintAdminStep
    PROVE  TypeOK'
  <1> DEFINE Kept == MintingTypeOK'
  <1>1. MintingTypeOK /\ supply \in Nat
    BY DEF TypeOK, TokenTypeOK
  <1>2. MintAmounts \subseteq Nat /\ MaxSupplies \subseteq Int
    BY MintingAssumption
  <1>3. ASSUME SyncSupply PROVE Kept
    BY <1>1, <1>3 DEF SyncSupply, mintConfigVars, MintingTypeOK
  <1>4. ASSUME SetBurningContract PROVE Kept
    BY <1>1, <1>4 DEF SetBurningContract, mintStateVars, MintingTypeOK
  <1>5. ASSUME NEW n \in MaxSupplies, SetMaxSupply(n) PROVE Kept
    BY <1>1, <1>2, <1>5 DEF SetMaxSupply, mintStateVars, MintingTypeOK
  <1>6. ASSUME NEW n \in MintAmounts, SetMaxDrip(n) PROVE Kept
    BY <1>1, <1>2, <1>6 DEF SetMaxDrip, mintStateVars, MintingTypeOK
  <1>7. ASSUME NEW b \in FeeRates, SetFeeRate(b) PROVE Kept
    BY <1>1, <1>7 DEF SetFeeRate, mintStateVars, MintingTypeOK
  <1>8. ASSUME NEW b \in FeeRates, SetFeeSingle(b) PROVE Kept
    BY <1>1, <1>8 DEF SetFeeSingle, mintStateVars, MintingTypeOK
  <1>9. ASSUME NEW c \in Currency, NEW n \in MintAmounts, FundCustody(c, n) PROVE Kept
    <2>1. n \in Nat
      BY <1>2
    <2>2. custody' \in [Currency -> Nat]
      BY <1>1, <1>9, <2>1 DEF FundCustody, MintingTypeOK
    <2> QED BY <1>1, <1>9, <2>2 DEF FundCustody, mintConfigVars, MintingTypeOK
  <1>10. ASSUME NEW c \in Currency, NEW n \in MintAmounts, AdminDripFiat(c, n) PROVE Kept
    <2>1. n \in Nat
      BY <1>2
    <2>2. custody' \in [Currency -> Nat]
      BY <1>1, <1>10, <2>1 DEF AdminDripFiat, MintingTypeOK
    <2> QED BY <1>1, <1>10, <2>2 DEF AdminDripFiat, mintConfigVars, MintingTypeOK
  <1>11. Kept
    <2> HIDE DEF Kept
    <2> QED BY <1>3, <1>4, <1>5, <1>6, <1>7, <1>8, <1>9, <1>10 DEF MintAdminStep
  <1> QED BY <1>11 DEF TypeOK, MintAdminStep, rateVars, breakerVars, reserveVars,
        burningVars, RateTypeOK, BreakerTypeOK, TokenTypeOK, ReserveTypeOK, BurningTypeOK

\* What every redemption leaves behind.
LEMMA RedemptionType ==
    ASSUME TypeOK, NEW n, NEW paid,
           TokenBurn(n), NotifyMintingBurn(n), PayOut(paid), RedeemFrame
    PROVE  supply' \in Nat /\ MintingTypeOK' /\ BurningTypeOK'
  <1>1. supply \in Nat /\ MintingTypeOK /\ BurningTypeOK
    BY DEF TypeOK, TokenTypeOK
  <1>2. n \in Nat \ {0} /\ supply' \in Nat
    BY <1>1 DEF TokenBurn
  <1>3. tracked' \in Nat
    BY <1>1, <1>2 DEF NotifyMintingBurn, RecordBurn, MintingTypeOK
  <1>4. vault' \in [Currency -> Nat] /\ allowance' \in [Currency -> Nat]
    BY DEF PayOut
  <1> QED BY <1>1, <1>2, <1>3, <1>4 DEF RedeemFrame, mintConfigVars, MintingTypeOK,
        BurningTypeOK

\* Both redemptions keep every variable of the system in its type.
LEMMA RedeemStepType ==
    ASSUME TypeOK, RedeemStep
    PROVE  TypeOK'
  <1> DEFINE Kept == supply' \in Nat /\ MintingTypeOK' /\ BurningTypeOK'
  <1>1. PICK n \in BurnAmounts :
          (\E c \in Currency : RedeemSingle(c, n)) \/ RedeemBasket(n)
    BY DEF RedeemStep
  <1>2. ASSUME NEW c \in Currency, RedeemSingle(c, n) PROVE Kept
    BY <1>2, RedemptionType DEF RedeemSingle
  <1>3. ASSUME RedeemBasket(n) PROVE Kept
    BY <1>3, RedemptionType DEF RedeemBasket
  <1>4. Kept
    <2> HIDE DEF Kept
    <2> QED BY <1>1, <1>2, <1>3
  <1> QED BY <1>4 DEF TypeOK, RedeemStep, rateVars, breakerVars, reserveVars,
        RateTypeOK, BreakerTypeOK, TokenTypeOK, ReserveTypeOK

\* Linking, the vault's approvals and burns at the token.
LEMMA BurnAdminStepType ==
    ASSUME TypeOK, BurnAdminStep \/ HolderBurnStep
    PROVE  TypeOK'
  <1>1. CASE BurnAdminStep
    <2>1. BurningTypeOK'
      BY <1>1, BurningAssumption DEF TypeOK, BurningTypeOK, BurnAdminStep,
          SetMintingContract, VaultApprove
    <2>2. UNCHANGED mintingVars
      BY <1>1 DEF BurnAdminStep, SetMintingContract, VaultApprove
    <2> QED BY <1>1, <2>1, <2>2 DEF TypeOK, BurnAdminStep, rateVars, breakerVars,
          reserveVars, mintingVars, mintConfigVars, mintStateVars, RateTypeOK,
          BreakerTypeOK, TokenTypeOK, ReserveTypeOK, MintingTypeOK
  <1>2. CASE HolderBurnStep
    <2>1. supply' \in Nat
      BY <1>2 DEF TypeOK, TokenTypeOK, HolderBurnStep, TokenBurn
    <2> QED BY <1>2, <2>1 DEF TypeOK, HolderBurnStep, rateVars, breakerVars,
          reserveVars, mintingVars, mintConfigVars, mintStateVars, burningVars,
          RateTypeOK, BreakerTypeOK, TokenTypeOK, ReserveTypeOK, MintingTypeOK,
          BurningTypeOK
  <1> QED BY <1>1, <1>2

\* The initial state of a deployment is well typed.
LEMMA InitType == Init => TypeOK
  <1> SUFFICES ASSUME Init PROVE TypeOK
    OBVIOUS
  <1>1. RateTypeOK
    BY DEF Init, RateInit, RateTypeOK, Quote
  <1>2. BreakerTypeOK /\ TokenTypeOK /\ ReserveTypeOK
    BY DEF Init, BreakerInit, BreakerTypeOK, TokenInit, TokenTypeOK, ReserveInit,
        ReserveTypeOK
  <1>3. MintingTypeOK
    BY MintingAssumption DEF Init, MintingInit, MintingTypeOK
  <1>4. BurningTypeOK
    BY DEF Init, BurningInit, BurningTypeOK
  <1> QED BY <1>1, <1>2, <1>3, <1>4 DEF TypeOK

\* A step that changes nothing keeps the types.
LEMMA StutterType ==
    ASSUME TypeOK, UNCHANGED vars
    PROVE  TypeOK'
  BY DEF TypeOK, vars, rateVars, breakerVars, reserveVars, mintingVars, mintConfigVars,
      mintStateVars, burningVars, RateTypeOK, BreakerTypeOK, TokenTypeOK, ReserveTypeOK,
      MintingTypeOK, BurningTypeOK

LEMMA NextType == TypeOK /\ [Next]_vars => TypeOK'
  BY OracleStepType, BreakerStepType, ReserveStepType, MintStepType, MintAdminStepType,
      RedeemStepType, BurnAdminStepType, StutterType DEF Next

\* Every state the system reaches is well typed.
THEOREM TypeCorrect == Spec => []TypeOK
  BY InitType, NextType, PTL DEF Spec

-----------------------------------------------------------------------------
(* The tracked supply covers the token's supply. *)

\* What one mint adds to the token it adds to the counter, at least; and it
\* stays within the cap, with minting running and the reserve breaker closed.
LEMMA MintStepCounts ==
    ASSUME TypeOK, SupplyTracked, MintStep
    PROVE  /\ SupplyTracked'
           /\ supply' >= supply
           /\ supply' <= maxSupply
           /\ ~Frozen
           /\ UNCHANGED maxSupply
  <1> DEFINE Counted ==
        /\ supply' <= tracked'
        /\ supply' >= supply
        /\ supply' <= maxSupply
        /\ ~Frozen
        /\ UNCHANGED maxSupply
  <1>1. /\ supply \in Nat /\ tracked \in Nat /\ maxSupply \in Int
        /\ supply' \in Nat /\ tracked' \in Nat
        /\ supply <= tracked
    BY MintStepType DEF TypeOK, TokenTypeOK, MintingTypeOK, SupplyTracked
  <1>2. ASSUME NEW usd, NEW bps, CheckCircuit("minting"), IssueForUsd(usd, bps),
               UNCHANGED mintConfigVars
        PROVE  Counted
    <2> DEFINE acbu == AcbuFor(CalculateAmountAfterFee(usd, bps))
               fee == AcbuFor(CalculateFee(usd, bps))
    <2>1. /\ acbu \in Nat /\ fee \in Nat
          /\ supply' = supply + acbu + fee
          /\ tracked' = tracked + acbu + fee
          /\ tracked + acbu + fee <= maxSupply
      BY <1>2 DEF IssueForUsd, TokenMint, CanIssue
    <2>2. ~Frozen
      BY <1>2 DEF IssueForUsd, CanIssue, IsReserveSufficient, CheckCircuit, Frozen
    <2>3. UNCHANGED maxSupply
      BY <1>2 DEF mintConfigVars
    <2> HIDE DEF acbu, fee
    <2> QED BY <1>1, <2>1, <2>2, <2>3
  <1>3. ASSUME NEW n \in MintAmounts, NEW p \in ProofIds, MintFromBasket(n, p)
        PROVE  Counted
    <2> DEFINE fee == CalculateFee(n, feeRate)
    <2>1. /\ n - fee \in Nat /\ fee \in Nat
          /\ supply' = supply + (n - fee) + fee
          /\ tracked' = tracked + (n + fee)
          /\ tracked + n <= maxSupply
      BY <1>3 DEF MintFromBasket, TokenMint, CanIssue
    <2>2. ~Frozen
      BY <1>3 DEF MintFromBasket, CanIssue, IsReserveSufficient, CheckCircuit, Frozen
    <2>3. UNCHANGED maxSupply
      BY <1>3 DEF MintFromBasket, mintConfigVars
    <2>4. n \in Nat
      BY MintingAssumption
    <2> HIDE DEF fee
    <2> QED BY <1>1, <2>1, <2>2, <2>3, <2>4
  <1>4. PICK n \in MintAmounts :
          \/ MintFromUsdc(n)
          \/ \E p \in ProofIds : MintFromBasket(n, p)
          \/ \E c \in Currency : MintFromSingle(c, n)
          \/ \E c \in Currency, p \in ProofIds : MintFromDemoFiat(c, n, p)
          \/ \E c \in Currency, id \in FintechIds : MintFromFiat(c, n, id)
    BY DEF MintStep
  <1>5. CASE MintFromUsdc(n)
    BY <1>2, <1>5 DEF SupplyTracked, MintFromUsdc
  <1>6. CASE \E p \in ProofIds : MintFromBasket(n, p)
    BY <1>3, <1>6 DEF SupplyTracked
  <1>7. CASE \E c \in Currency : MintFromSingle(c, n)
    BY <1>2, <1>7 DEF SupplyTracked, MintFromSingle
  <1>8. CASE \E c \in Currency, p \in ProofIds : MintFromDemoFiat(c, n, p)
    BY <1>2, <1>8 DEF SupplyTracked, MintFromDemoFiat
  <1>9. CASE \E c \in Currency, id \in FintechIds : MintFromFiat(c, n, id)
    BY <1>2, <1>9 DEF SupplyTracked, MintFromFiat
  <1> QED BY <1>4, <1>5, <1>6, <1>7, <1>8, <1>9

\* A burn lowers the token by its amount and the counter by no more; when
\* record_burn saturates at zero, nothing is left in circulation either.
LEMMA BurnCounts ==
    ASSUME TypeOK, SupplyTracked, NEW n, TokenBurn(n), NotifyMintingBurn(n)
    PROVE  SupplyTracked' /\ supply' \in Nat /\ supply' < supply
  <1>1. supply \in Nat /\ tracked \in Nat /\ supply <= tracked
    BY DEF TypeOK, TokenTypeOK, MintingTypeOK, SupplyTracked
  <1>2. n \in Nat \ {0} /\ n <= supply /\ supply' = supply - n
    BY DEF TokenBurn
  <1>3. tracked' = tracked \/ tracked' = IF n >= tracked THEN 0 ELSE tracked - n
    BY DEF NotifyMintingBurn, RecordBurn
  <1> QED BY <1>1, <1>2, <1>3 DEF SupplyTracked

\* Redemptions keep the counter above the token.
LEMMA RedeemStepCounts ==
    ASSUME TypeOK, SupplyTracked, RedeemStep
    PROVE  SupplyTracked' /\ supply' \in Nat /\ supply' < supply /\ UNCHANGED maxSupply
  <1>1. PICK n \in BurnAmounts :
          TokenBurn(n) /\ NotifyMintingBurn(n) /\ RedeemFrame
    BY DEF RedeemStep, RedeemSingle, RedeemBasket
  <1>2. UNCHANGED maxSupply
    BY <1>1 DEF RedeemFrame, mintConfigVars
  <1> QED BY <1>1, <1>2, BurnCounts

\* So do burns at the token, which no contract hears of.
LEMMA HolderBurnStepCounts ==
    ASSUME TypeOK, SupplyTracked, HolderBurnStep
    PROVE  SupplyTracked' /\ supply' \in Nat /\ supply' < supply /\ UNCHANGED maxSupply
  <1>1. PICK n \in BurnAmounts : TokenBurn(n)
    BY DEF HolderBurnStep
  <1>2. UNCHANGED <<tracked, maxSupply>>
    BY DEF HolderBurnStep, mintingVars, mintConfigVars, mintStateVars
  <1>3. supply \in Nat /\ tracked \in Nat /\ supply <= tracked
    BY DEF TypeOK, TokenTypeOK, MintingTypeOK, SupplyTracked
  <1> QED BY <1>1, <1>2, <1>3 DEF TokenBurn, SupplyTracked

\* Administration only ever sets the counter to the token's own figure.
LEMMA MintAdminStepCounts ==
    ASSUME TypeOK, SupplyTracked, MintAdminStep
    PROVE  SupplyTracked' /\ UNCHANGED supply
  <1>1. UNCHANGED supply /\ (tracked' = supply \/ tracked' = tracked)
    BY DEF MintAdminStep, SyncSupply, SetBurningContract, SetMaxSupply, SetMaxDrip,
        SetFeeRate, SetFeeSingle, FundCustody, AdminDripFiat, mintStateVars
  <1>2. supply \in Nat /\ supply <= tracked
    BY DEF TypeOK, TokenTypeOK, SupplyTracked
  <1> QED BY <1>1, <1>2 DEF SupplyTracked

\* The other steps move neither the token nor the counter.
LEMMA OtherStepCounts ==
    ASSUME SupplyTracked,
           OracleStep \/ BreakerStep \/ ReserveStep \/ BurnAdminStep \/ UNCHANGED vars
    PROVE  SupplyTracked' /\ UNCHANGED <<supply, maxSupply>>
  <1>1. UNCHANGED <<supply, tracked, maxSupply>>
    BY DEF OracleStep, BreakerStep, ReserveStep, BurnAdminStep, SetMintingContract,
        VaultApprove, vars, mintingVars, mintConfigVars, mintStateVars
  <1> QED BY <1>1 DEF SupplyTracked

\* The supply the cap and the reserves are judged on is never below what
\* circulates, in any deployment that started with an empty token.
THEOREM SupplyIsTracked == Spec => []SupplyTracked
  <1>1. Init => SupplyTracked
    BY DEF Init, TokenInit, MintingInit, SupplyTracked
  <1>2. TypeOK /\ SupplyTracked /\ [Next]_vars => SupplyTracked'
    BY MintStepCounts, RedeemStepCounts, HolderBurnStepCounts, MintAdminStepCounts,
        OtherStepCounts DEF Next
  <1> QED BY <1>1, <1>2, TypeCorrect, PTL DEF Spec

-----------------------------------------------------------------------------
(* Deposits are credited once. *)

\* A deposit is credited once its canonical id is recorded, not before.
CreditsRecorded == \A d \in Deposits : credited[d] = IF d \in processedIds THEN 1 ELSE 0

\* The report that credits a deposit records it, under an id that was not.
LEMMA MintFromFiatRecords ==
    ASSUME TypeOK, CreditsRecorded, NEW c, NEW amount, NEW id \in FintechIds,
           MintFromFiat(c, amount, id)
    PROVE  CreditsRecorded'
  <1>1. credited \in [Deposits -> Nat]
    BY DEF TypeOK, MintingTypeOK
  <1>2. /\ Lowercase[id] \notin processedIds
        /\ processedIds' = processedIds \cup {Lowercase[id]}
        /\ credited' = [credited EXCEPT ![Lowercase[id]] = @ + 1]
    BY DEF MintFromFiat, FintechKey
  <1>3. Lowercase[id] \in Deposits
    BY MintingAssumption DEF Deposits, Range
  <1>4. ASSUME NEW d \in Deposits
        PROVE  credited'[d] = IF d \in processedIds' THEN 1 ELSE 0
    <2>1. CASE d = Lowercase[id]
      <3>1. credited'[d] = credited[d] + 1 /\ credited[d] = 0
        BY <1>1, <1>2, <2>1 DEF CreditsRecorded
      <3> QED BY <1>2, <2>1, <3>1
    <2>2. CASE d # Lowercase[id]
      <3>1. credited'[d] = credited[d] /\ (d \in processedIds' <=> d \in processedIds)
        BY <1>1, <1>2, <2>2
      <3> QED BY <3>1 DEF CreditsRecorded
    <2> QED BY <2>1, <2>2
  <1> QED BY <1>4 DEF CreditsRecorded

\* Nothing else touches the records.
LEMMA NextRecords == TypeOK /\ CreditsRecorded /\ [Next]_vars => CreditsRecorded'
  <1> SUFFICES ASSUME TypeOK, CreditsRecorded, [Next]_vars PROVE CreditsRecorded'
    OBVIOUS
  <1>1. ASSUME UNCHANGED <<processedIds, credited>> PROVE CreditsRecorded'
    BY <1>1 DEF CreditsRecorded
  <1>2. CASE MintStep
    <2> PICK n \in MintAmounts :
          \/ MintFromUsdc(n)
          \/ \E p \in ProofIds : MintFromBasket(n, p)
          \/ \E c \in Currency : MintFromSingle(c, n)
          \/ \E c \in Currency, p \in ProofIds : MintFromDemoFiat(c, n, p)
          \/ \E c \in Currency, id \in FintechIds : MintFromFiat(c, n, id)
      BY <1>2 DEF MintStep
    <2>1. CASE \E c \in Currency, id \in FintechIds : MintFromFiat(c, n, id)
      BY <2>1, MintFromFiatRecords
    <2> QED BY <1>1, <2>1 DEF MintFromUsdc, MintFromBasket, MintFromSingle, MintFromDemoFiat
  <1>3. CASE MintAdminStep
    BY <1>1, <1>3 DEF MintAdminStep, SyncSupply, SetBurningContract, SetMaxSupply,
        SetMaxDrip, SetFeeRate, SetFeeSingle, FundCustody, AdminDripFiat, mintStateVars
  <1>4. CASE RedeemStep
    BY <1>1, <1>4 DEF RedeemStep, RedeemSingle, RedeemBasket, RedeemFrame
  <1>5. CASE BurnAdminStep
    BY <1>1, <1>5 DEF BurnAdminStep, SetMintingContract, VaultApprove, mintingVars,
        mintStateVars
  <1>6. CASE OracleStep \/ BreakerStep \/ ReserveStep \/ HolderBurnStep \/ UNCHANGED vars
    BY <1>1, <1>6 DEF OracleStep, BreakerStep, ReserveStep, HolderBurnStep, vars,
        mintingVars, mintStateVars
  <1> QED BY <1>2, <1>3, <1>4, <1>5, <1>6 DEF Next

\* mint_from_fiat: however often the operator reports a deposit, under
\* whichever spelling of its id, it is credited at most once.
THEOREM DepositsAreCreditedOnce == Spec => []DepositCreditedOnce
  <1>1. Init => CreditsRecorded
    BY DEF Init, MintingInit, CreditsRecorded
  <1>2. CreditsRecorded => DepositCreditedOnce
    BY DEF CreditsRecorded, DepositCreditedOnce
  <1> QED BY <1>1, <1>2, NextRecords, TypeCorrect, PTL DEF Spec

-----------------------------------------------------------------------------
(* Redemptions are reported, and a halt stops value. *)

\* Only a redemption both lowers the supply and touches the vault.
LEMMA WhoRedeems ==
    ASSUME TypeOK, SupplyTracked, [Next]_vars, vault' # vault, supply' < supply
    PROVE  RedeemStep
  <1>1. supply \in Nat
    BY DEF TypeOK, TokenTypeOK
  <1>2. ~MintStep
    <2>1. MintStep => supply' \in Nat /\ supply' >= supply
      BY MintStepCounts, MintStepType DEF TypeOK, TokenTypeOK
    <2> QED BY <1>1, <2>1
  <1>3. supply' # supply
    BY <1>1
  <1>4. ~MintAdminStep
    BY <1>3, MintAdminStepCounts
  <1>5. ~(OracleStep \/ BreakerStep \/ ReserveStep \/ BurnAdminStep \/ UNCHANGED vars)
    BY <1>3, OtherStepCounts
  <1>6. ~HolderBurnStep
    BY DEF HolderBurnStep, mintingVars, mintStateVars
  <1> QED BY <1>2, <1>4, <1>5, <1>6 DEF Next

\* set_minting_contract, record_burn: once linked, the counter follows every
\* redemption exactly, because it is never below what is burned.
THEOREM LinkedBurnsAreRecorded == Spec => LinkedBurnRecorded
  <1>1. ASSUME TypeOK, SupplyTracked, [Next]_vars,
               mintingLinked, vault' # vault, supply' < supply
        PROVE  tracked - tracked' = supply - supply'
    <2>1. RedeemStep
      BY <1>1, WhoRedeems
    <2>2. PICK n \in BurnAmounts : TokenBurn(n) /\ NotifyMintingBurn(n)
      BY <2>1 DEF RedeemStep, RedeemSingle, RedeemBasket
    <2>3. /\ n \in Nat \ {0} /\ n <= supply /\ supply' = supply - n
          /\ tracked' = IF n >= tracked THEN 0 ELSE tracked - n
      BY <1>1, <2>2 DEF TokenBurn, NotifyMintingBurn, RecordBurn
    <2>4. supply \in Nat /\ tracked \in Nat /\ supply <= tracked
      BY <1>1 DEF TypeOK, TokenTypeOK, MintingTypeOK, SupplyTracked
    <2> QED BY <2>3, <2>4
  <1>2. TypeOK /\ SupplyTracked /\ [Next]_vars =>
          [(mintingLinked /\ vault' # vault /\ supply' < supply) =>
              tracked - tracked' = supply - supply']_vars
    BY <1>1
  <1> QED BY <1>2, TypeCorrect, SupplyIsTracked, PTL DEF Spec, LinkedBurnRecorded

\* A mint runs through an untripped breaker and only fills the vault.
LEMMA MintStepFillsVault ==
    ASSUME TypeOK, SupplyTracked, MintStep
    PROVE  /\ ~IsHalted("minting") /\ ~IsPaused("reserve")
           /\ \A c \in Currency : vault'[c] >= vault[c]
  <1>1. ~IsHalted("minting") /\ ~IsPaused("reserve")
    BY MintStepCounts DEF Frozen
  <1>2. vault \in [Currency -> Nat] /\ MintAmounts \subseteq Nat
    BY MintingAssumption DEF TypeOK, MintingTypeOK
  <1>3. PICK n \in MintAmounts :
          \/ MintFromUsdc(n)
          \/ \E p \in ProofIds : MintFromBasket(n, p)
          \/ \E c \in Currency : MintFromSingle(c, n)
          \/ \E c \in Currency, p \in ProofIds : MintFromDemoFiat(c, n, p)
          \/ \E c \in Currency, id \in FintechIds : MintFromFiat(c, n, id)
    BY DEF MintStep
  <1>4. n \in Nat
    BY <1>2
  <1> DEFINE Filled == \A c \in Currency : vault'[c] >= vault[c]
  <1>5. ASSUME UNCHANGED vault PROVE Filled
    BY <1>2, <1>5
  <1>6. ASSUME NEW c \in Currency, vault' = [vault EXCEPT ![c] = @ + n] PROVE Filled
    BY <1>2, <1>4, <1>6
  <1>7. ASSUME NEW p, MintFromBasket(n, p) PROVE Filled
    <2>1. BasketRate \in Nat \ {0} /\ \A c \in Currency : Weight[c] # 0 => quotes[c].rate # 0
      BY <1>7 DEF MintFromBasket, BasketPriced
    <2>2. \A c \in Currency : DepositLeg(n, c) \in Nat
      BY <1>4, <2>1, DepositLegNat DEF TypeOK
    <2>3. \A c \in Currency : vault'[c] = vault[c] + DepositLeg(n, c)
      BY <1>7 DEF MintFromBasket
    <2> QED BY <1>2, <2>2, <2>3
  <1>8. Filled
    <2> HIDE DEF Filled
    <2> QED BY <1>3, <1>5, <1>6, <1>7
         DEF MintFromUsdc, MintFromSingle, MintFromDemoFiat, MintFromFiat
  <1> QED BY <1>1, <1>8

\* A redemption runs through untripped breakers and issues nothing.
LEMMA RedeemStepRuns ==
    ASSUME TypeOK, SupplyTracked, RedeemStep
    PROVE  /\ ~IsHalted("burning") /\ ~IsPaused("reserve")
           /\ supply' < supply /\ UNCHANGED custody
  <1>1. ~IsHalted("burning") /\ CheckReserves /\ RedeemFrame
    BY DEF RedeemStep, RedeemSingle, RedeemBasket, CheckCircuit
  <1> QED BY <1>1, RedeemStepCounts DEF CheckReserves, IsReserveSufficient, RedeemFrame

\* Administration leaves the vault alone, and drips from custody only
\* through an untripped breaker.
LEMMA MintAdminStepCustody ==
    ASSUME TypeOK, MintAdminStep
    PROVE  /\ UNCHANGED vault
           /\ IsHalted("minting") => \A c \in Currency : custody'[c] >= custody[c]
  <1>1. custody \in [Currency -> Nat] /\ MintAmounts \subseteq Nat
    BY MintingAssumption DEF TypeOK, MintingTypeOK
  <1>2. ASSUME NEW c \in Currency, NEW n \in MintAmounts, FundCustody(c, n)
        PROVE  \A d \in Currency : custody'[d] >= custody[d]
    <2>1. n \in Nat
      BY <1>1
    <2> QED BY <1>1, <1>2, <2>1 DEF FundCustody
  <1>3. ASSUME NEW c \in Currency, NEW n \in MintAmounts, AdminDripFiat(c, n)
        PROVE  ~IsHalted("minting")
    BY <1>3 DEF AdminDripFiat, CheckCircuit
  <1>4. UNCHANGED custody => \A c \in Currency : custody'[c] >= custody[c]
    BY <1>1
  <1>5. UNCHANGED vault
    BY DEF MintAdminStep, SyncSupply, SetBurningContract, SetMaxSupply, SetMaxDrip,
        SetFeeRate, SetFeeSingle, FundCustody, AdminDripFiat, mintStateVars
  <1>6. \/ UNCHANGED custody
        \/ \E c \in Currency, n \in MintAmounts : FundCustody(c, n) \/ AdminDripFiat(c, n)
    BY DEF MintAdminStep, SyncSupply, SetBurningContract, SetMaxSupply, SetMaxDrip,
        SetFeeRate, SetFeeSingle, mintStateVars
  <1> QED BY <1>2, <1>3, <1>4, <1>5, <1>6

\* No other step issues, or moves what vault and custody hold.
LEMMA OtherStepHolds ==
    ASSUME TypeOK, SupplyTracked,
           OracleStep \/ BreakerStep \/ ReserveStep \/ BurnAdminStep \/ HolderBurnStep
              \/ UNCHANGED vars
    PROVE  ~(supply' > supply) /\ UNCHANGED <<vault, custody>>
  <1>1. supply \in Nat
    BY DEF TypeOK, TokenTypeOK
  <1>2. supply' = supply \/ (supply' \in Nat /\ supply' < supply)
    BY OtherStepCounts, HolderBurnStepCounts
  <1>3. UNCHANGED <<vault, custody>>
    BY DEF OracleStep, BreakerStep, ReserveStep, BurnAdminStep, SetMintingContract,
        VaultApprove, HolderBurnStep, vars, mintingVars, mintStateVars
  <1> QED BY <1>1, <1>2, <1>3

\* check_circuit, is_reserve_sufficient: a contract halted by itself or by a
\* peer issues and pays nothing, and a paused tracker stops both.
THEOREM HaltsStopValue == Spec => HaltStopsValue
  <1> DEFINE Stopped ==
        /\ IsHalted("minting") => ~Rises /\ \A c \in Currency : custody'[c] >= custody[c]
        /\ IsHalted("burning") => \A c \in Currency : PaidOut(c) <= 0
        /\ IsPaused("reserve") => ~Rises /\ \A c \in Currency : PaidOut(c) <= 0
  <1>1. ASSUME TypeOK, SupplyTracked, [Next]_vars PROVE Stopped
    <2>1. /\ supply \in Nat
          /\ vault \in [Currency -> Nat] /\ vault' \in [Currency -> Nat]
          /\ custody \in [Currency -> Nat]
      <3>1. TypeOK'
        BY <1>1, OracleStepType, BreakerStepType, ReserveStepType, MintStepType,
            MintAdminStepType, RedeemStepType, BurnAdminStepType, StutterType DEF Next
      <3> QED BY <1>1, <3>1 DEF TypeOK, TokenTypeOK, MintingTypeOK
    <2>2. (\A c \in Currency : vault'[c] >= vault[c]) => \A c \in Currency : PaidOut(c) <= 0
      BY <2>1 DEF PaidOut
    <2>3. UNCHANGED vault => \A c \in Currency : vault'[c] >= vault[c]
      BY <2>1
    <2>4. UNCHANGED custody => \A c \in Currency : custody'[c] >= custody[c]
      BY <2>1
    <2>5. CASE MintStep
      BY <1>1, <2>2, <2>5, MintStepFillsVault
    <2>6. CASE RedeemStep
      <3>1. /\ ~IsHalted("burning") /\ ~IsPaused("reserve")
            /\ supply' < supply /\ UNCHANGED custody
        BY <1>1, <2>6, RedeemStepRuns
      <3>2. supply' \in Nat
        BY <1>1, <2>6, RedeemStepCounts
      <3>3. ~Rises
        BY <2>1, <3>1, <3>2 DEF Rises
      <3> QED BY <2>4, <3>1, <3>3
    <2>7. CASE MintAdminStep
      <3>1. ~Rises
        BY <1>1, <2>1, <2>7, MintAdminStepCounts DEF Rises
      <3> QED BY <1>1, <2>2, <2>3, <2>7, <3>1, MintAdminStepCustody
    <2>8. CASE OracleStep \/ BreakerStep \/ ReserveStep \/ BurnAdminStep \/ HolderBurnStep
                 \/ UNCHANGED vars
      <3>1. ~(supply' > supply) /\ UNCHANGED <<vault, custody>>
        BY <1>1, <2>8, OtherStepHolds
      <3> QED BY <2>2, <2>3, <2>4, <3>1 DEF Rises
    <2> QED BY <1>1, <2>5, <2>6, <2>7, <2>8 DEF Next
  <1>2. TypeOK /\ SupplyTracked /\ [Next]_vars => [Stopped]_vars
    BY <1>1
  <1> QED BY <1>2, TypeCorrect, SupplyIsTracked, PTL DEF Spec, HaltStopsValue

-----------------------------------------------------------------------------
(* What is issued is backed. *)

\* The basket names finitely many currencies, each once.
LEMMA CurrencyFinite ==
    /\ IsFiniteSet(Currency)
    /\ \A i, j \in DOMAIN Currencies : Currencies[i] = Currencies[j] => i = j
  <1>1. Len(Currencies) \in Nat /\ DOMAIN Currencies = 1 .. Len(Currencies)
    BY FeedAssumption
  <1>2. IsFiniteSet(DOMAIN Currencies) /\ Cardinality(DOMAIN Currencies) = Len(Currencies)
    <2>1. \A n \in Nat : IsFiniteSet(1 .. n) /\ Cardinality(1 .. n) = n
      <3> SUFFICES ASSUME NEW n \in Nat PROVE IsFiniteSet(1 .. n) /\ Cardinality(1 .. n) = n
        OBVIOUS
      <3>1. 1 \in Int /\ n \in Int /\ (IF 1 > n THEN 0 ELSE n - 1 + 1) = n
        OBVIOUS
      <3> QED BY <3>1, FS_Interval
    <2> QED BY <1>1, <2>1
  <1>3. Currencies \in Surjection(DOMAIN Currencies, Currency)
    BY <1>1, FeedAssumption DEF Surjection, Currency, Range
  <1>4. IsFiniteSet(Currency)
    BY <1>2, <1>3, FS_Surjection
  <1>5. Currencies \in Injection(DOMAIN Currencies, Currency)
    BY <1>2, <1>3, FeedAssumption, FS_SurjSameCardinalityImpliesInj
  <1> QED BY <1>4, <1>5 DEF Injection, IsInjective

LEMMA ProductMonotone ==
    ASSUME NEW a \in Nat, NEW b \in Nat, NEW k \in Nat, a <= b
    PROVE  a * k <= b * k
  <1>1. PICK d \in Nat : b = a + d
    <2>1. b - a \in Nat /\ b = a + (b - a)
      OBVIOUS
    <2> QED BY <2>1
  <1>2. (a + d) * k = a * k + d * k /\ d * k \in Nat /\ a * k \in Nat
    BY SMT
  <1> QED BY <1>1, <1>2

LEMMA DivMonotone ==
    ASSUME NEW a \in Nat, NEW b \in Nat, NEW d \in Nat \ {0}, a <= b
    PROVE  a \div d <= b \div d
  BY SMT

\* A quotient taken back to its divisor is no more than what was divided.
LEMMA DivBack ==
    ASSUME NEW a \in Int, NEW d \in Nat \ {0}
    PROVE  a \div d \in Int /\ (a \div d) * d <= a /\ d * (a \div d) <= a
  BY SMT

LEMMA TotalReservesNat ==
    ASSUME TypeOK
    PROVE  TotalReserves \in Nat
  <1>1. \A c \in Currency : reserves[c] \in Nat
    BY DEF TypeOK, ReserveTypeOK
  <1> QED BY <1>1, CurrencyFinite, SumNat DEF TotalReserves

\* A supply within the one the reserves were asked about is backed as well.
LEMMA GateBacks ==
    ASSUME TypeOK, BasketRate \in Nat \ {0}, NEW asked \in Nat, NEW issued \in Nat,
           issued <= asked, asked > 0, IsReserveSufficient(asked)
    PROVE  TotalReserves * BasisPoints >= MinReserveRatio * SupplyUsd(issued)
  <1> DEFINE value == TotalReserves * BasisPoints
             usdAsked == SupplyUsd(asked)
             usdIssued == SupplyUsd(issued)
             quotient == value \div usdAsked
  <1>1. value \in Nat
    BY TotalReservesNat, TimesNat, ScaleAssumption
  <1>2. usdAsked \in Nat /\ usdIssued \in Nat /\ usdIssued <= usdAsked
    <2>1. asked * BasketRate \in Nat /\ issued * BasketRate \in Nat
      BY TimesNat
    <2>2. issued * BasketRate <= asked * BasketRate
      BY ProductMonotone
    <2> QED BY <2>1, <2>2, DivNat, DivMonotone, ScaleAssumption DEF SupplyUsd
  <1>3. usdAsked # 0 /\ quotient >= MinReserveRatio
    BY DEF IsReserveSufficient, RatioMet
  <1> HIDE DEF value, usdAsked, usdIssued
  <1>4. quotient \in Nat /\ quotient * usdAsked <= value
    BY <1>1, <1>2, <1>3, DivNat, DivBack
  <1>5. MinReserveRatio \in Int
    BY ReserveAssumption
  <1> HIDE DEF quotient
  <1>6. CASE MinReserveRatio >= 0
    <2>1. MinReserveRatio \in Nat
      BY <1>5, <1>6
    <2>2. usdIssued * MinReserveRatio <= usdAsked * MinReserveRatio
      BY <1>2, <2>1, ProductMonotone
    <2>3. MinReserveRatio * usdAsked <= quotient * usdAsked
      BY <1>2, <1>3, <1>4, <2>1, ProductMonotone
    <2>4. MinReserveRatio * usdIssued = usdIssued * MinReserveRatio
          /\ MinReserveRatio * usdAsked = usdAsked * MinReserveRatio
      BY <1>2, <2>1
    <2>5. usdIssued * MinReserveRatio \in Nat /\ usdAsked * MinReserveRatio \in Nat
          /\ quotient * usdAsked \in Nat
      BY <1>2, <1>4, <2>1, TimesNat
    <2>6. value >= MinReserveRatio * usdIssued
      BY <1>1, <1>4, <2>2, <2>3, <2>4, <2>5
    <2> QED BY <2>6 DEF value, usdIssued
  <1>7. CASE MinReserveRatio < 0
    <2>1. -MinReserveRatio \in Nat
      BY <1>5, <1>7
    <2>2. (-MinReserveRatio) * usdIssued \in Nat
      BY <1>2, <2>1, TimesNat
    <2>3. MinReserveRatio * usdIssued = -((-MinReserveRatio) * usdIssued)
      BY <1>2, <1>5
    <2>4. value >= MinReserveRatio * usdIssued
      BY <1>1, <2>2, <2>3
    <2> QED BY <2>4 DEF value, usdIssued
  <1> QED BY <1>5, <1>6, <1>7

\* Every mint asks about at least what circulates after it.
LEMMA MintStepBacked ==
    ASSUME TypeOK, SupplyTracked, MintStep, Rises
    PROVE  /\ ~paused["reserve"]
           /\ AttestationFresh
           /\ TotalReserves * BasisPoints >= MinReserveRatio * SupplyUsd(supply')
  <1>1. /\ supply \in Nat /\ supply' \in Nat /\ tracked \in Nat
        /\ supply <= tracked /\ supply' > supply
    BY MintStepType DEF TypeOK, TokenTypeOK, MintingTypeOK, SupplyTracked, Rises
  <1>2. SUFFICES \E asked \in Nat : /\ BasketRate \in Nat \ {0}
                                    /\ supply' <= asked
                                    /\ IsReserveSufficient(asked)
    <2> PICK asked \in Nat : /\ BasketRate \in Nat \ {0}
                             /\ supply' <= asked
                             /\ IsReserveSufficient(asked)
      BY <1>2
    <2>1. asked > 0
      BY <1>1
    <2>2. TotalReserves * BasisPoints >= MinReserveRatio * SupplyUsd(supply')
      BY <1>1, <2>1, GateBacks
    <2> QED BY <2>2 DEF IsReserveSufficient, IsPaused
  <1> DEFINE Asked == \E asked \in Nat : /\ BasketRate \in Nat \ {0}
                                         /\ supply' <= asked
                                         /\ IsReserveSufficient(asked)
  <1>3. ASSUME NEW usd, NEW bps, IssueForUsd(usd, bps) PROVE Asked
    <2> DEFINE acbu == AcbuFor(CalculateAmountAfterFee(usd, bps))
               fee == AcbuFor(CalculateFee(usd, bps))
    <2>1. /\ acbu \in Nat /\ fee \in Nat
          /\ supply' = supply + acbu + fee
          /\ IsReserveSufficient(tracked + acbu + fee)
          /\ BasketRate \in Nat \ {0}
      BY <1>3 DEF IssueForUsd, TokenMint, CanIssue, BasketPriced
    <2> HIDE DEF acbu, fee
    <2>2. tracked + acbu + fee \in Nat /\ supply' <= tracked + acbu + fee
      BY <1>1, <2>1
    <2> QED BY <2>1, <2>2
  <1>4. ASSUME NEW n \in MintAmounts, NEW p \in ProofIds, MintFromBasket(n, p) PROVE Asked
    <2> DEFINE fee == CalculateFee(n, feeRate)
    <2>1. /\ n - fee \in Nat /\ fee \in Nat
          /\ supply' = supply + (n - fee) + fee
          /\ IsReserveSufficient(tracked + n)
          /\ BasketRate \in Nat \ {0}
      BY <1>4 DEF MintFromBasket, TokenMint, CanIssue, BasketPriced
    <2>2. n \in Nat
      BY MintingAssumption
    <2> HIDE DEF fee
    <2>3. tracked + n \in Nat /\ supply' <= tracked + n
      BY <1>1, <2>1, <2>2
    <2> QED BY <2>1, <2>3
  <1> HIDE DEF Asked
  <1>5. Asked
    BY <1>3, <1>4 DEF MintStep, MintFromUsdc, MintFromSingle, MintFromDemoFiat, MintFromFiat
  <1> QED BY <1>5 DEF Asked

\* Only a mint lets circulation grow.
LEMMA WhoIssues ==
    ASSUME TypeOK, SupplyTracked, [Next]_vars, Rises
    PROVE  MintStep
  <1>1. supply \in Nat /\ supply' > supply
    BY DEF TypeOK, TokenTypeOK, Rises
  <1>2. ~RedeemStep /\ ~HolderBurnStep
    BY <1>1, RedeemStepCounts, HolderBurnStepCounts
  <1>3. ~MintAdminStep
    BY <1>1, MintAdminStepCounts
  <1>4. ~(OracleStep \/ BreakerStep \/ ReserveStep \/ BurnAdminStep \/ UNCHANGED vars)
    BY <1>1, OtherStepCounts
  <1> QED BY <1>2, <1>3, <1>4 DEF Next

\* is_reserve_sufficient, asked by every mint about the tracked supply as it
\* will be: after any step that issues, the reserves on the books back all
\* that circulates, at the ratio and the rate of that moment.
THEOREM IssuanceIsBacked == Spec => IssuanceBacked
  <1>1. TypeOK /\ SupplyTracked /\ [Next]_vars =>
          [Rises => /\ ~paused["reserve"]
                    /\ AttestationFresh
                    /\ TotalReserves * BasisPoints >= MinReserveRatio * SupplyUsd(supply')]_vars
    BY WhoIssues, MintStepBacked
  <1> QED BY <1>1, TypeCorrect, SupplyIsTracked, PTL DEF Spec, IssuanceBacked

-----------------------------------------------------------------------------
(* What is issued is paid for. *)

\* The ACBU a value buys is worth no more than the value.
LEMMA AcbuForBack ==
    ASSUME BasketRate \in Nat \ {0}, NEW usd \in Int
    PROVE  AcbuFor(usd) \in Int /\ AcbuFor(usd) * BasketRate <= usd * Decimals
  <1>1. usd * Decimals \in Int
    BY ScaleAssumption
  <1> QED BY <1>1, DivBack DEF AcbuFor

\* What recipient and treasury get together is worth no more than the
\* deposit: fee and net amount are rounded down apart.
LEMMA IssueForUsdPaid ==
    ASSUME TypeOK, NEW usd \in Nat, NEW bps \in Nat, IssueForUsd(usd, bps)
    PROVE  (supply' - supply) * BasketRate <= usd * Decimals
  <1> DEFINE fee == CalculateFee(usd, bps)
             net == CalculateAmountAfterFee(usd, bps)
             acbu == AcbuFor(net)
             acbuFee == AcbuFor(fee)
  <1>1. fee \in Int
    <2>1. usd * bps \in Nat
      BY TimesNat
    <2> QED BY <2>1, DivNat, ScaleAssumption DEF CalculateFee
  <1>2. net = usd - fee
    BY DEF CalculateAmountAfterFee
  <1>3. BasketRate \in Nat \ {0} /\ supply' = supply + acbu + acbuFee
    BY DEF IssueForUsd, TokenMint, BasketPriced
  <1> HIDE DEF fee, net
  <1>4. net \in Int
    BY <1>1, <1>2
  <1>5. /\ acbu \in Int /\ acbu * BasketRate <= net * Decimals
        /\ acbuFee \in Int /\ acbuFee * BasketRate <= fee * Decimals
    BY <1>1, <1>3, <1>4, AcbuForBack
  <1> HIDE DEF acbu, acbuFee
  <1>6. supply \in Nat /\ supply' - supply = acbu + acbuFee
    BY <1>3, <1>5 DEF TypeOK, TokenTypeOK
  <1>7. (acbu + acbuFee) * BasketRate = acbu * BasketRate + acbuFee * BasketRate
    BY <1>3, <1>5
  <1>8. net * Decimals + fee * Decimals = usd * Decimals
    <2>1. \A x, y \in Int : x * Decimals + y * Decimals = (x + y) * Decimals
      BY ScaleAssumption
    <2>2. net + fee = usd
      BY <1>1, <1>2
    <2> QED BY <1>1, <1>4, <2>1, <2>2
  <1>9. /\ acbu * BasketRate \in Int /\ acbuFee * BasketRate \in Int
        /\ net * Decimals \in Int /\ fee * Decimals \in Int
    BY <1>1, <1>3, <1>4, <1>5, ScaleAssumption
  <1> QED BY <1>5, <1>6, <1>7, <1>8, <1>9

\* What the vault receives of one currency, at that currency's rate.
LEMMA OnePaidIn ==
    ASSUME TypeOK, NEW c \in Currency, NEW n \in Nat, vault' = [vault EXCEPT ![c] = @ + n]
    PROVE  SumOver([d \in Currency |-> PaidIn(d) * quotes[d].rate], Currency)
             = n * quotes[c].rate
  <1> DEFINE value == [d \in Currency |-> PaidIn(d) * quotes[d].rate]
  <1>1. vault \in [Currency -> Nat]
    BY DEF TypeOK, MintingTypeOK
  <1>2. \A d \in Currency : quotes[d].rate \in Nat
    BY QuoteRateNat DEF TypeOK
  <1>3. PaidIn(c) = n /\ \A d \in Currency : d # c => PaidIn(d) = 0
    BY <1>1 DEF PaidIn
  <1>4. value[c] = n * quotes[c].rate /\ value[c] \in Int
    BY <1>2, <1>3, TimesNat
  <1>5. \A d \in Currency : d # c => value[d] = 0
    BY <1>2, <1>3
  <1>6. \A d \in Currency : value[d] \in Int
    BY <1>4, <1>5
  <1> HIDE DEF value
  <1>7. SumOver(value, Currency) = value[c]
    BY <1>5, <1>6, CurrencyFinite, SumSingle
  <1> QED BY <1>4, <1>7 DEF value

LEMMA NonePaidIn ==
    ASSUME TypeOK, UNCHANGED vault
    PROVE  SumOver([d \in Currency |-> PaidIn(d) * quotes[d].rate], Currency) = 0
  <1> DEFINE value == [d \in Currency |-> PaidIn(d) * quotes[d].rate]
  <1>1. vault \in [Currency -> Nat]
    BY DEF TypeOK, MintingTypeOK
  <1>2. \A d \in Currency : quotes[d].rate \in Nat
    BY QuoteRateNat DEF TypeOK
  <1>3. \A d \in Currency : value[d] = 0
    BY <1>1, <1>2 DEF PaidIn
  <1> HIDE DEF value
  <1>4. SumOver(value, Currency) = 0
    BY <1>3, CurrencyFinite, SumZero
  <1> QED BY <1>4 DEF value

\* What a mint takes in, in units of a rate: USDC, and S-tokens at their rate.
Received == Decimals * (usdcHeld' - usdcHeld)
              + SumOver([c \in Currency |-> PaidIn(c) * quotes[c].rate], Currency)

\* A mint that moves S-tokens of one currency into the vault is paid in it.
LEMMA PaidInSTokens ==
    ASSUME TypeOK, NEW c \in Currency, NEW n \in Nat,
           vault' = [vault EXCEPT ![c] = @ + n], UNCHANGED usdcHeld,
           NEW bps \in Nat, IssueForUsd(UsdGross(c, n), bps)
    PROVE  (supply' - supply) * BasketRate <= Received
  <1> DEFINE usd == UsdGross(c, n)
             value == n * quotes[c].rate
  <1>1. value \in Nat
    BY QuoteRateNat, TimesNat DEF TypeOK
  <1>2. usd \in Nat /\ usd * Decimals <= value
    BY <1>1, DivNat, DivBack, ScaleAssumption DEF UsdGross
  <1>3. usdcHeld' - usdcHeld = 0 /\ Decimals * 0 = 0
    BY ScaleAssumption DEF TypeOK, MintingTypeOK
  <1>4. Received = value
    <2>1. SumOver([d \in Currency |-> PaidIn(d) * quotes[d].rate], Currency) = value
      BY OnePaidIn
    <2> HIDE DEF value
    <2> QED BY <1>1, <1>3, <2>1 DEF Received
  <1> HIDE DEF usd, value
  <1>5. (supply' - supply) * BasketRate <= usd * Decimals
    BY <1>2, IssueForUsdPaid DEF usd
  <1>6. (supply' - supply) * BasketRate \in Int /\ usd * Decimals \in Int
    <2>1. BasketRate \in Nat /\ supply \in Nat /\ supply' \in Nat
      BY IssueForUsdType DEF IssueForUsd, BasketPriced, TypeOK, TokenTypeOK
    <2> QED BY <1>2, <2>1, ScaleAssumption
  <1> QED BY <1>1, <1>2, <1>4, <1>5, <1>6

LEMMA MintStepPaid ==
    ASSUME TypeOK, MintStep, credited' = credited, usedProofs' = usedProofs \/ custody' # custody
    PROVE  (supply' - supply) * BasketRate <= Received
  <1> DEFINE Paid == (supply' - supply) * BasketRate <= Received
  <1>1. PICK n \in MintAmounts :
          \/ MintFromUsdc(n)
          \/ \E p \in ProofIds : MintFromBasket(n, p)
          \/ \E c \in Currency : MintFromSingle(c, n)
          \/ \E c \in Currency, p \in ProofIds : MintFromDemoFiat(c, n, p)
          \/ \E c \in Currency, id \in FintechIds : MintFromFiat(c, n, id)
    BY DEF MintStep
  <1>2. n \in Nat /\ feeRate \in Nat /\ feeSingle \in Nat
    BY MintingAssumption, ScaleAssumption DEF TypeOK, MintingTypeOK
  <1>3. ASSUME MintFromUsdc(n) PROVE Paid
    <2>1. (supply' - supply) * BasketRate <= n * Decimals
      BY <1>2, <1>3, IssueForUsdPaid DEF MintFromUsdc
    <2>2. usdcHeld' - usdcHeld = n
      BY <1>2, <1>3 DEF MintFromUsdc, TypeOK, MintingTypeOK
    <2>3. Received = Decimals * n + 0
      BY <1>3, <2>2, NonePaidIn DEF MintFromUsdc, Received
    <2>4. Decimals * n + 0 = n * Decimals
      BY <1>2, ScaleAssumption
    <2> QED BY <2>1, <2>3, <2>4
  <1>4. ASSUME NEW c \in Currency, MintFromSingle(c, n) PROVE Paid
    BY <1>2, <1>4, PaidInSTokens DEF MintFromSingle
  <1>5. ASSUME NEW c \in Currency, NEW p \in ProofIds, MintFromDemoFiat(c, n, p) PROVE Paid
    BY <1>2, <1>5, PaidInSTokens DEF MintFromDemoFiat
  <1>6. ASSUME NEW p \in ProofIds, MintFromBasket(n, p) PROVE FALSE
    BY <1>6 DEF MintFromBasket
  <1>7. ASSUME NEW c \in Currency, NEW id \in FintechIds, MintFromFiat(c, n, id) PROVE FALSE
    <2>1. credited \in [Deposits -> Nat] /\ Lowercase[id] \in Deposits
      BY MintingAssumption DEF TypeOK, MintingTypeOK, Deposits, Range
    <2>2. credited' = [credited EXCEPT ![Lowercase[id]] = @ + 1]
      BY <1>7 DEF MintFromFiat
    <2>3. credited'[Lowercase[id]] = credited[Lowercase[id]] + 1
          /\ credited[Lowercase[id]] \in Nat
      BY <2>1, <2>2
    <2> QED BY <2>3
  <1> HIDE DEF Paid
  <1>8. Paid
    BY <1>1, <1>3, <1>4, <1>5, <1>6, <1>7
  <1> QED BY <1>8 DEF Paid

\* mint_from_usdc, mint_from_single, mint_from_demo_fiat: whatever fee, rates
\* and scale, the ACBU issued is worth no more than what came in.
THEOREM IssuanceIsPaid == Spec => IssuancePaid
  <1> DEFINE Paid ==
        Rises /\ credited' = credited /\ (usedProofs' = usedProofs \/ custody' # custody) =>
          LET received == Decimals * (usdcHeld' - usdcHeld)
                  + SumOver([c \in Currency |-> PaidIn(c) * quotes[c].rate], Currency)
          IN  (supply' - supply) * BasketRate <= received
  <1>1. TypeOK /\ SupplyTracked /\ [Next]_vars => [Paid]_vars
    BY WhoIssues, MintStepPaid DEF Received
  <1> QED BY <1>1, TypeCorrect, SupplyIsTracked, PTL DEF Spec, IssuancePaid

-----------------------------------------------------------------------------
(* What a redemption pays out is covered by what it burns. *)

LEMMA IndexFinite ==
    /\ IsFiniteSet(Index)
    /\ Index = 1 .. Len(Currencies) /\ Len(Currencies) \in Nat
    /\ Currency = {Currencies[i] : i \in Index}
    /\ \A i \in Index : BasketWeight(i) \in Nat
  <1>1. Len(Currencies) \in Nat /\ Index = 1 .. Len(Currencies)
    BY FeedAssumption DEF Index
  <1>2. Currency = {Currencies[i] : i \in Index}
    BY DEF Currency, Range, Index
  <1>3. \A i \in Index : BasketWeight(i) \in Nat
    BY <1>2, FeedAssumption DEF BasketWeight
  <1>4. IsFiniteSet(Index)
    <2>1. \A n \in Nat : IsFiniteSet(1 .. n)
      <3> SUFFICES ASSUME NEW n \in Nat PROVE IsFiniteSet(1 .. n)
        OBVIOUS
      <3>1. 1 \in Int /\ n \in Int
        OBVIOUS
      <3> QED BY <3>1, FS_Interval
    <2> QED BY <1>1, <2>1
  <1> QED BY <1>1, <1>2, <1>3, <1>4

LEMMA TotalBasketWeightNat == TotalBasketWeight \in Nat
  <1> DEFINE weights == [i \in Index |-> BasketWeight(i)]
  <1>1. \A i \in Index : weights[i] \in Nat
    BY IndexFinite
  <1> HIDE DEF weights
  <1>2. SumOver(weights, Index) \in Nat
    BY <1>1, IndexFinite, SumNat
  <1> QED BY <1>2 DEF TotalBasketWeight, weights

\* What each leg gets before the remainder is handed out.
Floors(total) == [j \in Index |-> WeightedFloor(total, BasketWeight(j), TotalBasketWeight)]

\* The floors of any legs together are at most the total.
LEMMA FloorsBounded ==
    ASSUME NEW t \in Nat, TotalBasketWeight # 0, NEW Legs \in SUBSET Index
    PROVE  /\ \A j \in Index : Floors(t)[j] \in Nat
           /\ SumOver(Floors(t), Legs) \in Nat
           /\ SumOver(Floors(t), Legs) <= t
  <1> DEFINE W == TotalBasketWeight
             weights == [i \in Index |-> BasketWeight(i)]
             floors == Floors(t)
             scaled == [i \in Index |-> W * floors[i]]
             exact == [i \in Index |-> t * weights[i]]
  <1>1. W \in Nat \ {0} /\ W \in Int
    BY TotalBasketWeightNat
  <1>2. \A i \in Index : weights[i] \in Nat /\ weights[i] = BasketWeight(i)
    BY IndexFinite
  <1>3. SumOver(weights, Index) = W
    BY DEF TotalBasketWeight
  <1>4. \A i \in Index : floors[i] = (t * weights[i]) \div W
    BY <1>2 DEF Floors, WeightedFloor
  <1> HIDE DEF W, weights, floors
  <1>5. \A i \in Index : t * weights[i] \in Nat
    BY <1>2, TimesNat
  <1>6. \A i \in Index : floors[i] \in Nat
    BY <1>1, <1>4, <1>5, DivNat
  <1>7. \A i \in Index : W * floors[i] <= t * weights[i]
    <2> TAKE i \in Index
    <2>1. t * weights[i] \in Int
      BY <1>5
    <2> QED BY <1>1, <1>4, <2>1, DivBack
  <1>8. \A i \in Index : scaled[i] \in Int /\ exact[i] \in Int /\ scaled[i] <= exact[i]
    <2> TAKE i \in Index
    <2>1. W * floors[i] \in Nat
      BY <1>1, <1>6, TimesNat
    <2> QED BY <1>5, <1>7, <2>1
  <1>9. IsFiniteSet(Index) /\ W \in Int /\ t \in Int
    BY <1>1, IndexFinite
  <1>10. SumOver(scaled, Index) = W * SumOver(floors, Index)
    <2>1. \A i \in Index : floors[i] \in Int /\ scaled[i] = W * floors[i]
      BY <1>6
    <2> HIDE DEF scaled
    <2> QED BY <1>9, <2>1, SumScaled
  <1>11. SumOver(exact, Index) = t * SumOver(weights, Index)
    <2>1. \A i \in Index : weights[i] \in Int /\ exact[i] = t * weights[i]
      BY <1>2
    <2> HIDE DEF exact
    <2> QED BY <1>9, <2>1, SumScaled
  <1>12. SumOver(scaled, Index) <= SumOver(exact, Index)
    <2> HIDE DEF scaled, exact
    <2> QED BY <1>8, IndexFinite, SumMonotone
  <1>13. SumOver(floors, Index) \in Nat
    BY <1>6, IndexFinite, SumNat
  <1> HIDE DEF scaled, exact
  <1>14. SumOver(floors, Index) <= t
    <2>1. W * SumOver(floors, Index) <= t * W
      <3>1. W * SumOver(floors, Index) \in Nat /\ t * W \in Nat
        BY <1>1, <1>13, TimesNat
      <3> QED BY <1>3, <1>10, <1>11, <1>12, <3>1
    <2>2. SUFFICES ASSUME t + 1 <= SumOver(floors, Index) PROVE FALSE
      BY <1>13
    <2>3. (t + 1) * W <= SumOver(floors, Index) * W
      <3>1. t + 1 \in Nat /\ W \in Nat
        BY <1>1
      <3> QED BY <1>13, <2>2, <3>1, ProductMonotone
    <2>4. (t + 1) * W = t * W + W /\ SumOver(floors, Index) * W = W * SumOver(floors, Index)
      BY <1>1, <1>13
    <2>5. t * W \in Nat /\ W * SumOver(floors, Index) \in Nat
      BY <1>1, <1>13, TimesNat
    <2> QED BY <1>1, <2>1, <2>3, <2>4, <2>5
  <1>15. SumOver(floors, Legs) <= SumOver(floors, Index)
    BY <1>6, IndexFinite, SumSubset
  <1>16. SumOver(floors, Legs) \in Nat
    BY <1>6, IndexFinite, FS_Subset, SumNat
  <1>17. SumOver(floors, Legs) <= t
    BY <1>13, <1>14, <1>15, <1>16
  <1> QED BY <1>6, <1>16, <1>17 DEF floors

\* Some currency has a weight, and the remainder goes to the last of them.
LEMMA LastWeightExists ==
    ASSUME TotalBasketWeight # 0
    PROVE  /\ LastPositiveWeight \in Index
           /\ \A i \in Index : i > LastPositiveWeight => BasketWeight(i) = 0
           /\ BasketWeight(LastPositiveWeight) # 0
  <1> DEFINE Weighted == {i \in Index : BasketWeight(i) > 0}
             weights == [i \in Index |-> BasketWeight(i)]
  <1>1. Weighted # {}
    <2> SUFFICES ASSUME Weighted = {} PROVE FALSE
      OBVIOUS
    <2>1. \A i \in Index : weights[i] = 0
      BY IndexFinite
    <2>2. SumOver(weights, Index) = 0
      <3> HIDE DEF weights, Weighted
      <3> QED BY <2>1, IndexFinite, SumZero
    <2> QED BY <2>2 DEF TotalBasketWeight
  <1>2. Weighted \in SUBSET (0 .. Len(Currencies)) /\ Len(Currencies) \in Nat
    BY IndexFinite
  <1> DEFINE L == LastPositiveWeight
  <1>3. L \in Weighted /\ \A i \in Weighted : i <= L
    <2>1. L = Max(Weighted)
      BY DEF LastPositiveWeight
    <2> HIDE DEF L, Weighted
    <2> QED BY <1>1, <1>2, <2>1, LargestNatural
  <1>4. L \in Index /\ BasketWeight(L) # 0
    BY <1>3, IndexFinite
  <1>5. ASSUME NEW i \in Index, i > L PROVE BasketWeight(i) = 0
    <2>1. i \in Int /\ L \in Int /\ BasketWeight(i) \in Nat
      BY <1>4, IndexFinite
    <2>2. i \notin Weighted
      <3> HIDE DEF L
      <3> QED BY <1>3, <1>5, <2>1
    <2> HIDE DEF L
    <2> QED BY <2>1, <2>2
  <1> QED BY <1>4, <1>5

\* The legs split a total exactly: none is negative, a currency without a
\* weight gets nothing, and nothing is left over.
LEMMA LegsSplitTotal ==
    ASSUME NEW t \in Nat, TotalBasketWeight # 0
    PROVE  /\ \A i \in Index : LegShare(t, i) \in Nat
           /\ SumOver([i \in Index |-> LegShare(t, i)], Index) = t
  <1> DEFINE L == LastPositiveWeight
             Before == {j \in Index : j < L}
             share == [i \in Index |-> LegShare(t, i)]
  <1>1. L \in Index /\ Before \in SUBSET Index /\ L \notin Before
    BY LastWeightExists, IndexFinite
  <1>2. /\ \A j \in Index : Floors(t)[j] \in Nat
        /\ SumOver(Floors(t), Before) \in Nat
        /\ SumOver(Floors(t), Before) <= t
    BY <1>1, FloorsBounded
  <1>3. \A i \in Index : LegShare(t, i) =
            IF i = L THEN t - SumOver(Floors(t), Before) ELSE Floors(t)[i]
    BY DEF LegShare, Floors
  <1> HIDE DEF L, Before
  <1>4. \A i \in Index : LegShare(t, i) \in Nat
    BY <1>2, <1>3
  <1>5. \A i \in Index \ Before : i # L => share[i] = 0
    <2> TAKE i \in Index \ Before
    <2> HAVE i # L
    <2>1. i > L
      BY <1>1, IndexFinite DEF Before
    <2>2. BasketWeight(i) = 0
      BY <2>1, LastWeightExists DEF L
    <2>3. t * 0 = 0 /\ TotalBasketWeight \in Nat \ {0}
      BY TotalBasketWeightNat
    <2>4. 0 \div TotalBasketWeight = 0
      BY <2>3, SMT
    <2>5. Floors(t)[i] = 0
      BY <2>2, <2>3, <2>4 DEF Floors, WeightedFloor
    <2> QED BY <1>3, <2>5
  <1>6. \A i \in Index : share[i] = LegShare(t, i) /\ share[i] \in Int
    BY <1>4
  <1> HIDE DEF share
  <1>7. SumOver(share, Index) = SumOver(share, Before) + SumOver(share, Index \ Before)
    BY <1>1, <1>6, IndexFinite, SumPartition
  <1>8. SumOver(share, Before) = SumOver(Floors(t), Before)
    <2>1. \A i \in Before : share[i] \in Int /\ share[i] = Floors(t)[i]
      BY <1>1, <1>3, <1>6
    <2>2. IsFiniteSet(Before)
      BY <1>1, IndexFinite, FS_Subset
    <2> QED BY <2>1, <2>2, SumCongruent
  <1>9. SumOver(share, Index \ Before) = share[L]
    <2>1. IsFiniteSet(Index \ Before) /\ L \in Index \ Before
      BY <1>1, IndexFinite, FS_Subset
    <2>2. \A i \in Index \ Before : share[i] \in Int
      BY <1>6
    <2> QED BY <1>5, <2>1, <2>2, SumSingle
  <1>10. share[L] = t - SumOver(Floors(t), Before)
    BY <1>1, <1>3, <1>6
  <1>11. SumOver(share, Index) = t
    BY <1>2, <1>7, <1>8, <1>9, <1>10
  <1> QED BY <1>4, <1>11 DEF share

\* A positive payment is worth no more than the ACBU it is paid for.
LEMMA STokenOutBack ==
    ASSUME BasketRate \in Nat, NEW c \in Currency, quotes[c].rate \in Nat \ {0},
           NEW net \in Int
    PROVE  /\ STokenOut(net, c) \in Int
           /\ net <= 0 => STokenOut(net, c) <= 0
           /\ net >= 0 => STokenOut(net, c) * quotes[c].rate <= net * BasketRate
  <1> DEFINE value == net * BasketRate
             rate == quotes[c].rate
  <1>1. value \in Int /\ rate \in Nat \ {0}
    OBVIOUS
  <1>2. (net <= 0 => value <= 0) /\ (net >= 0 => value >= 0)
    BY SMT
  <1>3. STokenOut(net, c) = TruncDiv(value, rate)
    BY DEF STokenOut
  <1> HIDE DEF value, rate
  <1>4. CASE value >= 0
    <2>1. TruncDiv(value, rate) = value \div rate
      BY <1>1, <1>4 DEF TruncDiv, AbsDiff
    <2>2. value \div rate \in Int /\ (value \div rate) * rate <= value
      BY <1>1, DivBack
    <2>3. value = 0 => value \div rate = 0
      BY <1>1, SMT
    <2> QED BY <1>1, <1>2, <1>3, <1>4, <2>1, <2>2, <2>3 DEF value, rate
  <1>5. CASE value < 0
    <2>1. TruncDiv(value, rate) = -((0 - value) \div rate)
      BY <1>1, <1>5 DEF TruncDiv, AbsDiff
    <2>2. (0 - value) \div rate \in Nat
      <3>1. 0 - value \in Nat
        BY <1>1, <1>5
      <3> QED BY <1>1, <3>1, DivNat
    <2> QED BY <1>1, <1>2, <1>3, <1>5, <2>1, <2>2
  <1> QED BY <1>1, <1>4, <1>5

\* What is redeemed pays the vault's S-tokens out, each currency its leg.
LEMMA LegsPaidOut ==
    ASSUME TypeOK, NEW paid \in [Currency -> Int], PayOut(paid)
    PROVE  \A c \in Currency : PaidOut(c) = paid[c]
  <1>1. vault \in [Currency -> Nat]
    BY DEF TypeOK, MintingTypeOK
  <1>2. \A c \in Currency : vault'[c] = vault[c] - paid[c]
    BY DEF PayOut
  <1> QED BY <1>1, <1>2 DEF PaidOut

\* A redemption lowers the supply by all it was given.
LEMMA RedeemedSupply ==
    ASSUME TypeOK, NEW n, TokenBurn(n)
    PROVE  n \in Nat /\ supply - supply' = n
  BY DEF TypeOK, TokenTypeOK, TokenBurn

\* The fee is part of what is redeemed.
LEMMA FeeWithin ==
    ASSUME NEW n \in Nat, NEW bps \in 0 .. BasisPoints
    PROVE  CalculateFee(n, bps) \in 0 .. n
  <1>1. BasisPoints \in Nat \ {0} /\ bps \in Nat /\ bps <= BasisPoints
    BY ScaleAssumption
  <1>2. n * bps \in Nat /\ bps * n <= BasisPoints * n /\ bps * n = n * bps
    BY <1>1, TimesNat, ProductMonotone
  <1> DEFINE fee == (n * bps) \div BasisPoints
  <1>3. fee \in Nat /\ fee * BasisPoints <= n * bps
    BY <1>1, <1>2, DivNat, DivBack
  <1> HIDE DEF fee
  <1>4. fee * BasisPoints <= n * BasisPoints
    <2>1. fee * BasisPoints \in Nat /\ BasisPoints * n = n * BasisPoints
          /\ n * BasisPoints \in Nat
      BY <1>1, <1>3, TimesNat
    <2> QED BY <1>2, <1>3, <2>1
  <1>5. SUFFICES ASSUME n + 1 <= fee PROVE FALSE
    BY <1>3 DEF CalculateFee, fee
  <1>6. (n + 1) * BasisPoints <= fee * BasisPoints
    BY <1>1, <1>3, <1>5, ProductMonotone
  <1>7. (n + 1) * BasisPoints = n * BasisPoints + BasisPoints
        /\ n * BasisPoints \in Nat /\ fee * BasisPoints \in Nat
    BY <1>1, <1>3, TimesNat
  <1> QED BY <1>1, <1>4, <1>6, <1>7

\* What the vault pays out, at the rate of each currency.
PaidValue == SumOver([c \in Currency |-> PaidOut(c) * quotes[c].rate], Currency)

LEMMA RedeemSingleBounded ==
    ASSUME TypeOK, NEW c \in Currency, NEW n, RedeemSingle(c, n)
    PROVE  PaidValue <= (supply - supply') * BasketRate
  <1> DEFINE fee == CalculateFee(n, BurnFeeSingle)
             out == STokenOut(n - fee, c)
             paid == [d \in Currency |-> IF d = c THEN out ELSE 0]
             value == [d \in Currency |-> PaidOut(d) * quotes[d].rate]
  <1>1. n \in Nat /\ supply - supply' = n
    BY RedeemedSupply DEF RedeemSingle
  <1>2. fee \in 0 .. n
    BY <1>1, FeeWithin, BurningAssumption
  <1>3. BasketRate \in Nat /\ quotes[c].rate \in Nat \ {0}
    <2>1. BasketRate \in Nat \ {0} /\ quotes[c].rate > 0
      BY DEF RedeemSingle, BasketPriced
    <2>2. quotes[c].rate \in Nat
      BY QuoteRateNat DEF TypeOK
    <2> QED BY <2>1, <2>2
  <1>4. PayOut(paid)
    BY DEF RedeemSingle
  <1> HIDE DEF fee
  <1>5. out \in Int /\ out * quotes[c].rate <= (n - fee) * BasketRate
    <2>1. n - fee \in Int /\ n - fee >= 0
      BY <1>1, <1>2
    <2> QED BY <1>3, <2>1, STokenOutBack
  <1> HIDE DEF out
  <1>6. \A d \in Currency : PaidOut(d) = IF d = c THEN out ELSE 0
    <2>1. paid \in [Currency -> Int]
      BY <1>5
    <2>2. \A d \in Currency : PaidOut(d) = paid[d]
      <3> HIDE DEF paid
      <3> QED BY <1>4, <2>1, LegsPaidOut
    <2> QED BY <2>2
  <1>7. \A d \in Currency : quotes[d].rate \in Nat
    BY QuoteRateNat DEF TypeOK
  <1>8. value[c] = out * quotes[c].rate /\ value[c] \in Int
    BY <1>3, <1>5, <1>6
  <1>9. \A d \in Currency : d # c => value[d] = 0
    BY <1>6, <1>7
  <1>10. PaidValue = value[c]
    <2>1. \A d \in Currency : value[d] \in Int
      BY <1>8, <1>9
    <2>2. PaidValue = SumOver(value, Currency)
      BY DEF PaidValue
    <2> HIDE DEF value
    <2> QED BY <1>9, <2>1, <2>2, CurrencyFinite, SumSingle
  <1>11. (n - fee) * BasketRate <= n * BasketRate
    <2>1. n - fee \in Nat /\ n - fee <= n
      BY <1>1, <1>2
    <2> QED BY <1>1, <1>3, <2>1, ProductMonotone
  <1>12. n * BasketRate \in Int /\ (n - fee) * BasketRate \in Int
    BY <1>1, <1>2, <1>3
  <1> HIDE DEF value
  <1> QED BY <1>1, <1>5, <1>8, <1>10, <1>11, <1>12

\* Each leg of a basket redemption pays at most its share of what is burned.
LEMMA LegBounded ==
    ASSUME TypeOK, NEW n \in Nat, NEW i \in Index, BasketRate \in Nat,
           TotalBasketWeight # 0,
           Weight[Currencies[i]] # 0 => quotes[Currencies[i]].rate > 0
    PROVE  /\ RedemptionLeg(n, Currencies[i]) \in Int
           /\ RedemptionLeg(n, Currencies[i]) * quotes[Currencies[i]].rate
                <= LegShare(n, i) * BasketRate
  <1> DEFINE c == Currencies[i]
             fee == CalculateFee(n, BurnFeeRate)
             net == LegShare(n, i) - LegShare(fee, i)
             native == STokenOut(net, c)
  <1>1. c \in Currency /\ quotes[c].rate \in Nat
    BY IndexFinite, QuoteRateNat DEF TypeOK
  <1>2. fee \in Nat
    <2>1. fee \in 0 .. n
      BY FeeWithin, BurningAssumption
    <2> QED BY <2>1
  <1>3. LegShare(n, i) \in Nat /\ LegShare(fee, i) \in Nat
    <2> HIDE DEF fee
    <2> QED BY <1>2, LegsSplitTotal
  <1>4. i = CHOOSE j \in Index : Currencies[j] = c
    BY CurrencyFinite DEF Index
  <1>5. RedemptionLeg(n, c) = IF Weight[c] = 0 \/ native <= 0 THEN 0 ELSE native
    BY <1>4, Zenon DEF RedemptionLeg
  <1> HIDE DEF c, fee
  <1>6. net \in Int /\ net <= LegShare(n, i)
    BY <1>3
  <1>7. LegShare(n, i) * BasketRate \in Nat
    BY <1>3, TimesNat
  <1>8. CASE Weight[c] = 0 \/ native <= 0
    <2>1. RedemptionLeg(n, c) = 0
      BY <1>5, <1>8
    <2>2. 0 * quotes[c].rate = 0
      BY <1>1
    <2> QED BY <1>7, <2>1, <2>2 DEF c
  <1>9. CASE Weight[c] # 0 /\ ~(native <= 0)
    <2>1. quotes[c].rate \in Nat \ {0}
      BY <1>1, <1>9 DEF c
    <2> HIDE DEF net
    <2>2. /\ native \in Int
          /\ net <= 0 => native <= 0
          /\ net >= 0 => native * quotes[c].rate <= net * BasketRate
      BY <1>1, <1>6, <2>1, STokenOutBack
    <2>3. net >= 0 /\ native * quotes[c].rate <= net * BasketRate
      BY <1>6, <1>9, <2>2
    <2>4. net * BasketRate <= LegShare(n, i) * BasketRate
      BY <1>3, <1>6, <2>3, ProductMonotone
    <2>5. RedemptionLeg(n, c) = native
      BY <1>5, <1>9 DEF net
    <2>6. native * quotes[c].rate \in Int /\ net * BasketRate \in Int
      BY <1>1, <1>6, <2>2
    <2> HIDE DEF native
    <2>7. native * quotes[c].rate <= LegShare(n, i) * BasketRate
      BY <1>7, <2>3, <2>4, <2>6
    <2> QED BY <2>2, <2>5, <2>7 DEF c
  <1> QED BY <1>8, <1>9

LEMMA RedeemBasketBounded ==
    ASSUME TypeOK, NEW n, RedeemBasket(n)
    PROVE  PaidValue <= (supply - supply') * BasketRate
  <1> DEFINE paid == [c \in Currency |-> RedemptionLeg(n, c)]
             value == [c \in Currency |-> PaidOut(c) * quotes[c].rate]
             share == [i \in Index |-> LegShare(n, i)]
             leg == [i \in Index |-> value[Currencies[i]]]
             worth == [i \in Index |-> BasketRate * share[i]]
  <1>1. n \in Nat /\ supply - supply' = n
    BY RedeemedSupply DEF RedeemBasket
  <1>2. /\ BasketRate \in Nat /\ TotalBasketWeight # 0
        /\ \A c \in Currency : Weight[c] # 0 => quotes[c].rate > 0
    BY DEF RedeemBasket, BasketPriced
  <1>3. PayOut(paid)
    BY DEF RedeemBasket
  <1>4. \A i \in Index : Currencies[i] \in Currency
    BY IndexFinite
  <1>5. \A i \in Index :
          /\ RedemptionLeg(n, Currencies[i]) \in Int
          /\ RedemptionLeg(n, Currencies[i]) * quotes[Currencies[i]].rate
                <= LegShare(n, i) * BasketRate
    BY <1>1, <1>2, <1>4, LegBounded
  <1>6. \A c \in Currency : PaidOut(c) = RedemptionLeg(n, c) /\ PaidOut(c) \in Int
    <2>1. \A c \in Currency : RedemptionLeg(n, c) \in Int
      BY <1>5, IndexFinite
    <2>2. paid \in [Currency -> Int]
      BY <2>1
    <2>3. \A c \in Currency : PaidOut(c) = paid[c]
      <3> HIDE DEF paid
      <3> QED BY <1>3, <2>2, LegsPaidOut
    <2> QED BY <2>1, <2>3
  <1>7. \A i \in Index : LegShare(n, i) \in Nat
    BY <1>1, <1>2, LegsSplitTotal
  <1>8. \A c \in Currency : quotes[c].rate \in Nat
    BY QuoteRateNat DEF TypeOK
  <1>9. \A i \in Index : leg[i] \in Int /\ worth[i] \in Int /\ leg[i] <= worth[i]
    <2> TAKE i \in Index
    <2>1. leg[i] = RedemptionLeg(n, Currencies[i]) * quotes[Currencies[i]].rate
      BY <1>4, <1>6
    <2>2. worth[i] = BasketRate * LegShare(n, i)
      OBVIOUS
    <2>3. BasketRate * LegShare(n, i) = LegShare(n, i) * BasketRate
      BY <1>2, <1>7
    <2>4. leg[i] \in Int /\ worth[i] \in Int
      BY <1>2, <1>4, <1>5, <1>7, <1>8, <2>1, <2>2
    <2> HIDE DEF leg, worth
    <2> QED BY <1>5, <2>1, <2>2, <2>3, <2>4
  <1>10. SumOver(value, Currency) = SumOver(leg, Index)
    <2>1. \A i \in Index : leg[i] \in Int /\ value[Currencies[i]] = leg[i]
      BY <1>9
    <2>2. \A i, j \in Index : Currencies[i] = Currencies[j] => i = j
      BY CurrencyFinite DEF Index
    <2> HIDE DEF value, leg
    <2>3. SumOver(value, {Currencies[i] : i \in Index}) = SumOver(leg, Index)
      BY <2>1, <2>2, IndexFinite, SumReindex
    <2> QED BY <2>3, IndexFinite
  <1>11. SumOver(leg, Index) <= SumOver(worth, Index)
    <2> HIDE DEF leg, worth
    <2> QED BY <1>9, IndexFinite, SumMonotone
  <1>12. SumOver(worth, Index) = BasketRate * SumOver(share, Index)
    <2>1. \A i \in Index : share[i] \in Int /\ worth[i] = BasketRate * share[i]
      BY <1>7
    <2>2. BasketRate \in Int
      BY <1>2
    <2> HIDE DEF share, worth
    <2> QED BY <2>1, <2>2, IndexFinite, SumScaled
  <1>13. SumOver(share, Index) = n
    BY <1>1, <1>2, LegsSplitTotal
  <1>14. PaidValue = SumOver(value, Currency) /\ BasketRate * n = n * BasketRate
    BY <1>1, <1>2 DEF PaidValue
  <1> HIDE DEF value, share, leg, worth
  <1> QED BY <1>1, <1>10, <1>11, <1>12, <1>13, <1>14

\* Only a redemption takes S-tokens out of the vault.
LEMMA WhoPaysOut ==
    ASSUME TypeOK, SupplyTracked, [Next]_vars, NEW c \in Currency, PaidOut(c) > 0
    PROVE  RedeemStep
  <1>1. vault \in [Currency -> Nat] /\ vault' \in [Currency -> Nat]
    BY NextType DEF TypeOK, MintingTypeOK
  <1>2. ~(vault'[c] >= vault[c])
    BY <1>1 DEF PaidOut
  <1>3. vault' # vault
    BY <1>1, <1>2
  <1>4. ~MintStep /\ ~MintAdminStep
    BY <1>2, <1>3, MintStepFillsVault, MintAdminStepCustody
  <1>5. ~(OracleStep \/ BreakerStep \/ ReserveStep \/ BurnAdminStep \/ HolderBurnStep
            \/ UNCHANGED vars)
    BY <1>3, OtherStepHolds
  <1> QED BY <1>4, <1>5 DEF Next

\* redeem_single, redeem_basket: whatever fee, weights, rates and amount, the
\* S-tokens that leave the vault are worth no more than the ACBU burned for
\* them; the remainder a basket's last leg takes is what the floors left.
THEOREM RedemptionsAreBounded == Spec => RedemptionBounded
  <1> DEFINE Bounded ==
        (\E c \in Currency : PaidOut(c) > 0) =>
          SumOver([c \in Currency |-> PaidOut(c) * quotes[c].rate], Currency)
              <= (supply - supply') * BasketRate
  <1>1. ASSUME TypeOK, SupplyTracked, [Next]_vars, NEW c \in Currency, PaidOut(c) > 0
        PROVE  PaidValue <= (supply - supply') * BasketRate
    <2>1. PICK n \in BurnAmounts :
            (\E d \in Currency : RedeemSingle(d, n)) \/ RedeemBasket(n)
      BY <1>1, WhoPaysOut DEF RedeemStep
    <2> QED BY <1>1, <2>1, RedeemSingleBounded, RedeemBasketBounded
  <1>2. TypeOK /\ SupplyTracked /\ [Next]_vars => [Bounded]_vars
    BY <1>1 DEF PaidValue
  <1> QED BY <1>2, TypeCorrect, SupplyIsTracked, PTL DEF Spec, RedemptionBounded

-----------------------------------------------------------------------------
(* The system implements the abstract supply ledger. *)

\* Only the breakers decide what is frozen.
LEMMA FrozenKept ==
    ASSUME UNCHANGED breakerVars
    PROVE  UNCHANGED Frozen
  BY DEF breakerVars, Frozen, IsHalted, AnyCircuitPeerPaused, IsPaused

\* Every step of the system is a step of the ledger or invisible to it.
LEMMA LedgerStep ==
    ASSUME TypeOK, SupplyTracked, [Next]_vars
    PROVE  [Ledger!Next]_(Ledger!ledgerVars)
  <1> USE DEF Ledger!ledgerVars
  <1>1. CASE MintStep
    <2>1. UNCHANGED <<maxSupply, Frozen>>
      BY <1>1, MintStepCounts, FrozenKept DEF MintStep
    <2>2. supply \in Nat /\ supply' \in Nat
      BY <1>1, MintStepType DEF TypeOK, TokenTypeOK
    <2>3. supply' >= supply /\ supply' <= maxSupply /\ ~Frozen
      BY <1>1, MintStepCounts
    <2>4. CASE supply' = supply
      BY <2>1, <2>4
    <2>5. CASE supply' > supply
      BY <2>1, <2>2, <2>3, <2>5 DEF Ledger!Next, Ledger!Issue
    <2> QED BY <2>2, <2>3, <2>4, <2>5
  <1>2. CASE RedeemStep
    <2>1. UNCHANGED Frozen
      BY <1>2, FrozenKept DEF RedeemStep
    <2> QED BY <1>2, <2>1, RedeemStepCounts DEF Ledger!Next, Ledger!Destroy
  <1>3. CASE HolderBurnStep
    <2>1. UNCHANGED Frozen
      BY <1>3, FrozenKept DEF HolderBurnStep
    <2> QED BY <1>3, <2>1, HolderBurnStepCounts DEF Ledger!Next, Ledger!Destroy
  <1>4. CASE MintAdminStep
    <2>1. UNCHANGED <<supply, Frozen>>
      BY <1>4, FrozenKept DEF MintAdminStep
    <2>2. maxSupply' \in Int
      BY <1>4, MintAdminStepType DEF TypeOK, MintingTypeOK
    <2> QED BY <2>1, <2>2 DEF Ledger!Next, Ledger!SetCap
  <1>5. CASE BreakerStep
    <2>1. UNCHANGED <<supply, maxSupply>>
      BY <1>5, OtherStepCounts
    <2>2. Frozen' \in BOOLEAN
      BY <1>5, BreakerStepType DEF TypeOK, BreakerTypeOK, Frozen, IsHalted, IsPaused,
          AnyCircuitPeerPaused, Breakers
    <2> QED BY <2>1, <2>2 DEF Ledger!Next, Ledger!Freeze
  <1>6. CASE OracleStep \/ ReserveStep \/ BurnAdminStep \/ UNCHANGED vars
    <2>1. UNCHANGED <<supply, maxSupply>>
      BY <1>6, OtherStepCounts
    <2>2. UNCHANGED breakerVars
      BY <1>6 DEF OracleStep, ReserveStep, BurnAdminStep, vars, breakerVars
    <2>3. UNCHANGED Frozen
      BY <2>2, FrozenKept
    <2> QED BY <2>1, <2>3
  <1> QED BY <1>1, <1>2, <1>3, <1>4, <1>5, <1>6 DEF Next

\* A fresh deployment is an empty, running ledger.
LEMMA LedgerInit == Init => Ledger!Init
  <1> SUFFICES ASSUME Init PROVE Ledger!Init
    OBVIOUS
  <1>1. supply = 0 /\ maxSupply \in Int
    BY MintingAssumption DEF Init, TokenInit, MintingInit
  <1>2. paused = [k \in Breakers |-> FALSE] /\ peers = [k \in Linked |-> {}]
    BY DEF Init, BreakerInit
  <1>3. Frozen = FALSE
    BY <1>2 DEF Frozen, IsHalted, IsPaused, AnyCircuitPeerPaused, Breakers, Linked
  <1> QED BY <1>1, <1>3 DEF Ledger!Init

\* Circulation only ever grows within the cap, through a minting contract
\* that is neither paused nor tripped by a peer or by the reserve tracker.
THEOREM SystemImplementsLedger == Spec => LedgerSpec
  <1>1. TypeOK /\ SupplyTracked /\ [Next]_vars => [Ledger!Next]_(Ledger!ledgerVars)
    BY LedgerStep
  <1> QED BY <1>1, LedgerInit, TypeCorrect, SupplyIsTracked, PTL
        DEF Spec, LedgerSpec, Ledger!Spec
=============================================================================
