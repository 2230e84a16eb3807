SPECIFICATION Spec
PROPERTIES IssuancePaid RedemptionBounded LinkedBurnRecorded
CHECK_DEADLOCK FALSE
CONSTANTS
    BasisPoints = 4
    Decimals = 4
    Currencies <- MCCurrencies
    Weight <- MCWeight
    ReserveReports <- MCOneReport
    FintechIds <- MCFintechIds
    Lowercase <- MCLowercase
    MaxPeers = 2
    MinReserveRatio = 4
    ToleranceBps = 1
    MinTolerance = 1
    MinBurn = 2
    BurnFeeRate = 1
    BurnFeeSingle = 0
    InitFeeRate = 1
    InitFeeSingle = 1
    InitMaxDrip = 1
    MinMint = 4
    MaxMint = 12
    PeerLists = {{}}
    Rates = {16, 32}
    StaleLedgers = 1
    UpdateInterval = 2
    LedgerGaps = {1, 2}
    MaxNow = 1
    AttestationMaxAge = 1
    VerifyCooldown = 1
    InitMaxSupply = 16
    ProofIds = {"p1"}
    MintAmounts = {1, 8}
    UsdcSupply = 8
    STokenSupply = 2
    MaxSupplies = {8}
    FeeRates = {0, 5}
    BurnAmounts = {7}
    Allowances = {2}
    Entrypoints = {"publish", "update_reserve", "submit_attestation", "mint_from_usdc", "mint_from_basket", "mint_from_single", "redeem_single", "redeem_basket", "set_minting_contract", "set_burning_contract", "vault_approve"}
