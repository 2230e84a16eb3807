SPECIFICATION GovernanceSpec
INVARIANTS GovernanceTypeOK ConfigSound UpgradesTakeEffect
PROPERTIES ExecutionAuthorised GovernedOnly UpgradesKeepState
CHECK_DEADLOCK FALSE
CONSTANTS
    a = a
    b = b
    c = c
    k = k
    l = l
    safe = safe
    acbu = acbu
    other = other
    Addresses <- MCAddresses
    InitSigners <- MCSigners
    InitThreshold = 2
    Configs <- MCConfigs
    Calls <- MCCalls
    UpgradeVersions = {1}
    MaxSigners = 3
    ProposalTtl = 1
    ProposeUpgradeAllowed = TRUE
    MaxProposals = 3
    MaxNow = 3
    Keys <- MCKeys
    Safe = safe
    Tokens <- MCTokens
    InitToken = acbu
    InitOperator = l
    Deployments <- MCDeployments
    StagedVersions = {2, 7}
    OracleVersion = 9
    AdminTimelock = 1
