SPECIFICATION Spec
INVARIANT DepositCreditedOnce
PROPERTY HaltStopsValue
CHECK_DEADLOCK FALSE
CONSTANTS
    BasisPoints = 4
    Decimals = 4
    Currencies <- MCOneCurrency
    Weight <- MCOneWeight
    ReserveReports <- MCReports
    FintechIds <- MCFintechIds
    Lowercase <- MCLowercase
    MaxPeers = 2
    MinReserveRatio = 4
    ToleranceBps = 1
    MinTolerance = 1
    MinBurn = 2
    BurnFeeRate = 1
    BurnFeeSingle = 1
    InitFeeRate = 1
    InitFeeSingle = 1
    InitMaxDrip = 1
    MinMint = 4
    MaxMint = 12
    PeerLists <- MCPeerLists
    Rates = {16}
    StaleLedgers = 1
    UpdateInterval = 2
    LedgerGaps = {1, 2}
    MaxNow = 1
    AttestationMaxAge = 1
    VerifyCooldown = 1
    InitMaxSupply = 8
    ProofIds = {"p1"}
    MintAmounts = {1, 4}
    UsdcSupply = 8
    STokenSupply = 3
    MaxSupplies = {8}
    FeeRates = {0, 5}
    BurnAmounts = {6}
    Allowances = {4}
    Entrypoints = {"publish", "update_reserve", "submit_attestation", "mint_from_usdc", "mint_from_fiat", "mint_from_demo_fiat", "fund_custody", "admin_drip_fiat", "pause", "unpause", "set_circuit_peers", "redeem_single", "vault_approve", "set_max_drip", "verify_reserves", "set_fee_single", "clear_rates"}
