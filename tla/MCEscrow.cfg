SPECIFICATION Spec
INVARIANTS EscrowTypeOK Solvent KeptForTerm
PROPERTIES AnnouncementsTimelocked
CHECK_DEADLOCK FALSE
CONSTANTS
    Addresses = {"admin", "user"}
    InitAdmin = "admin"
    AdminTimelock = 3
    WasmHashes = {"v1", "v2"}
    InitWasm = "v1"
    UpgradeTimelock = 3
    EscrowIds = {1}
    Tokens = {"acbu", "acbu2"}
    InitToken = "acbu"
    Amounts = {1, 2}
    MinEscrowAmount = 2
    MaxEscrowLifetime = 4
    EntryTtl = 2
    NominalGap = 2
    LedgerGaps = {2, 3}
    TokenSupply = 4
    MaxNow = 8
