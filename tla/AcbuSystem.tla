----------------------------- MODULE AcbuSystem -----------------------------
(***************************************************************************)
(* The value contracts together: any account, the operator, the custodian, *)
(* the validators and the admins call entry points in any order, tokens    *)
(* move outside the contracts, and ledgers close in between.               *)
(*                                                                         *)
(* Entrypoints is the set of calls the environment of an instance makes;   *)
(* the theorems hold for every value of it.                                *)
(***************************************************************************)
EXTENDS Burning

CONSTANT Entrypoints

Called(name) == name \in Entrypoints

vars == <<rateVars, breakerVars, supply, reserveVars, mintingVars, burningVars>>

TypeOK ==
    /\ RateTypeOK
    /\ BreakerTypeOK
    /\ TokenTypeOK
    /\ ReserveTypeOK
    /\ MintingTypeOK
    /\ BurningTypeOK

Init ==
    /\ RateInit
    /\ BreakerInit
    /\ TokenInit
    /\ ReserveInit
    /\ MintingInit
    /\ BurningInit

-----------------------------------------------------------------------------
(* The steps of each contract, with the rest of the system standing still. *)

OracleStep ==
    /\ \/ Called("publish") /\ \E c \in Currency, r \in Rates : PublishRate(c, r)
       \/ Called("clear_rates") /\ ClearRates
       \/ Called("ledger_close") /\ LedgerClose
    /\ UNCHANGED <<breakerVars, supply, reserveVars, mintingVars, burningVars>>

BreakerStep ==
    /\ \/ Called("pause") /\ \E k \in Breakers : Pause(k)
       \/ Called("unpause") /\ \E k \in Breakers : Unpause(k)
       \/ Called("set_circuit_peers")
            /\ \E k \in Linked, list \in PeerLists : SetCircuitPeers(k, list)
    /\ UNCHANGED <<rateVars, supply, reserveVars, mintingVars, burningVars>>

ReserveStep ==
    /\ \/ Called("update_reserve")
            /\ \E c \in Currency, report \in ReserveReports : UpdateReserve(c, report)
       \/ Called("reset_reserves") /\ ResetReserves
       \/ Called("submit_attestation") /\ SubmitAttestation
       \/ Called("verify_reserves") /\ VerifyReserves
    /\ UNCHANGED <<rateVars, breakerVars, supply, mintingVars, burningVars>>

MintStep ==
    /\ \E n \in MintAmounts :
         \/ Called("mint_from_usdc") /\ MintFromUsdc(n)
         \/ Called("mint_from_basket") /\ \E p \in ProofIds : MintFromBasket(n, p)
         \/ Called("mint_from_single") /\ \E c \in Currency : MintFromSingle(c, n)
         \/ Called("mint_from_demo_fiat")
              /\ \E c \in Currency, p \in ProofIds : MintFromDemoFiat(c, n, p)
         \/ Called("mint_from_fiat")
              /\ \E c \in Currency, id \in FintechIds : MintFromFiat(c, n, id)
    /\ UNCHANGED <<rateVars, breakerVars, reserveVars, burningVars>>

MintAdminStep ==
    /\ \/ Called("sync_supply") /\ SyncSupply
       \/ Called("set_burning_contract") /\ SetBurningContract
       \/ Called("set_max_supply") /\ \E n \in MaxSupplies : SetMaxSupply(n)
       \/ Called("set_max_drip") /\ \E n \in MintAmounts : SetMaxDrip(n)
       \/ Called("set_fee_rate") /\ \E b \in FeeRates : SetFeeRate(b)
       \/ Called("set_fee_single") /\ \E b \in FeeRates : SetFeeSingle(b)
       \/ Called("fund_custody") /\ \E c \in Currency, n \in MintAmounts : FundCustody(c, n)
       \/ Called("admin_drip_fiat")
            /\ \E c \in Currency, n \in MintAmounts : AdminDripFiat(c, n)
    /\ UNCHANGED <<rateVars, breakerVars, supply, reserveVars, burningVars>>

RedeemStep ==
    /\ \E n \in BurnAmounts :
         \/ Called("redeem_single") /\ \E c \in Currency : RedeemSingle(c, n)
         \/ Called("redeem_basket") /\ RedeemBasket(n)
    /\ UNCHANGED <<rateVars, breakerVars, reserveVars>>

BurnAdminStep ==
    /\ \/ Called("set_minting_contract") /\ SetMintingContract
       \/ Called("vault_approve")
            /\ \E c \in Currency, n \in Allowances : VaultApprove(c, n)
    /\ UNCHANGED <<rateVars, breakerVars, supply, reserveVars>>

\* External: a holder burns at the token itself; no contract hears of it.
HolderBurnStep ==
    /\ Called("holder_burn")
    /\ \E n \in BurnAmounts : TokenBurn(n)
    /\ UNCHANGED <<rateVars, breakerVars, reserveVars, mintingVars, burningVars>>

Next ==
    \/ OracleStep
    \/ BreakerStep
    \/ ReserveStep
    \/ MintStep
    \/ MintAdminStep
    \/ RedeemStep
    \/ BurnAdminStep
    \/ HolderBurnStep

Spec == Init /\ [][Next]_vars

-----------------------------------------------------------------------------
(* Safety *)

\* The counter that minting judges its cap and its reserves on never falls
\* below what circulates: mints count at least what they issue, a burn is
\* recorded at most once, and sync_supply accepts only the token's figure.
SupplyTracked == supply <= tracked

\* A fiat deposit is credited at most once, however its id is capitalised
\* and however often the operator retries (mint_from_fiat).
DepositCreditedOnce == \A d \in Deposits : credited[d] <= 1

(* Action properties *)

Rises == supply' > supply
PaidIn(c) == vault'[c] - vault[c]
PaidOut(c) == vault[c] - vault'[c]

\* Whenever circulation grows, the tracker's books back the supply as it is
\* after the mint, at the rate the mint used, under an attestation that is
\* not expired; the gate itself only ever sees the tracked supply.
IssuanceBacked ==
    [][Rises => /\ ~paused["reserve"]
                /\ AttestationFresh
                /\ TotalReserves * BasisPoints >= MinReserveRatio * SupplyUsd(supply')]_vars

\* ACBU issued against USDC or one S-token is paid for: what the contract and
\* the vault receive is worth what recipient and treasury get, every rounding
\* being in the system's favour.  (A basket deposit loses dust in each leg and
\* is not covered; a fiat deposit is paid for off chain, see credited.)
IssuancePaid ==
    [][Rises /\ credited' = credited /\ (usedProofs' = usedProofs \/ custody' # custody) =>
        LET received == Decimals * (usdcHeld' - usdcHeld)
                + SumOver([c \in Currency |-> PaidIn(c) * quotes[c].rate], Currency)
        IN  (supply' - supply) * BasketRate <= received]_vars

\* A redemption never pays out more than the ACBU it burns is worth: fees,
\* floors and the remainder leg of a basket included.
RedemptionBounded ==
    [][(\E c \in Currency : PaidOut(c) > 0) =>
        SumOver([c \in Currency |-> PaidOut(c) * quotes[c].rate], Currency)
            <= (supply - supply') * BasketRate]_vars

\* Once both contracts are linked, a redemption moves the counter and the
\* token alike: record_burn never saturates and never reports a net amount.
LinkedBurnRecorded ==
    [][(mintingLinked /\ vault' # vault /\ supply' < supply) =>
        tracked - tracked' = supply - supply']_vars

\* A tripped breaker stops value: nothing leaves the vault or the custody,
\* and nothing is issued, through a contract that is halted; a tripped
\* reserve tracker stops mint and redeem without being anybody's peer.
HaltStopsValue ==
    [][/\ IsHalted("minting") => ~Rises /\ \A c \in Currency : custody'[c] >= custody[c]
       /\ IsHalted("burning") => \A c \in Currency : PaidOut(c) <= 0
       /\ IsPaused("reserve") => ~Rises /\ \A c \in Currency : PaidOut(c) <= 0]_vars

(* Refinement *)

\* The system implements the abstract ledger: circulation grows only within
\* the cap and never while minting is halted or the reserve breaker tripped.
Frozen == IsHalted("minting") \/ IsPaused("reserve")

Ledger == INSTANCE SupplyLedger WITH
    circulating <- supply, cap <- maxSupply, frozen <- Frozen

LedgerSpec == Ledger!Spec
=============================================================================
