SPECIFICATION Spec
INVARIANTS TypeOK SupplyTracked
PROPERTIES IssuanceBacked LedgerSpec
CHECK_DEADLOCK FALSE
CONSTANTS
    BasisPoints = 4
    Decimals = 4
    Currencies <- MCOneCurrency
    Weight <- MCOneWeight
    ReserveReports <- MCReports
    FintechIds <- MCFintechIds
    Lowercase <- MCLowercase
    MaxPeers = 2
    MinReserveRatio = 4
    ToleranceBps = 1
    MinTolerance = 1
    MinBurn = 2
    BurnFeeRate = 1
    BurnFeeSingle = 1
    InitFeeRate = 1
    InitFeeSingle = 1
    InitMaxDrip = 1
    MinMint = 4
    MaxMint = 12
    PeerLists = {{}}
    Rates = {16, 32}
    StaleLedgers = 1
    UpdateInterval = 2
    LedgerGaps = {1}
    MaxNow = 3
    AttestationMaxAge = 1
    VerifyCooldown = 1
    InitMaxSupply = 12
    ProofIds = {"p1"}
    MintAmounts = {1, 4, 8}
    UsdcSupply = 8
    STokenSupply = 3
    MaxSupplies = {8}
    FeeRates = {0, 5}
    BurnAmounts = {2}
    Allowances = {4}
    Entrypoints = {"publish", "ledger_close", "update_reserve", "reset_reserves", "submit_attestation", "mint_from_usdc", "mint_from_basket", "mint_from_single", "mint_from_fiat", "holder_burn", "sync_supply", "set_max_supply", "set_fee_rate"}
