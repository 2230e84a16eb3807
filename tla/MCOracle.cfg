SPECIFICATION Spec
INVARIANTS OracleTypeOK RoundBelowQuorum RefreshableWhenUnusable QuorumWithinRepeats BackersAuthorised
PROPERTIES EmergencyVotesPostdateRate FeedSpec CommitBacked
CHECK_DEADLOCK FALSE
SYMMETRY MCSymmetry
CONSTANTS
    BasisPoints = 4
    Decimals = 4
    v1 = v1
    v2 = v2
    v3 = v3
    Currencies <- MCCurrencies
    Weight <- MCWeight
    Rates = {8, 12, 16}
    ValidatorPool <- MCPool
    InitLists <- MCInitLists
    OutlierThreshold = 1
    DefaultThreshold = 1
    MinSourceFeeds = 3
    MaxValidators = 3
    SubmissionTtl = 1
    VoteTtl = 1
    Cooldown = 1
    UpdateInterval = 3
    StaleLedgers = 1
    LedgerGaps = {1, 2}
    MaxNow = 4
    InitMinSigs = 2
    MinSigChoices = {0, 1, 2}
    SourceFeeds <- MCOddFeeds
    RateArgs = {16}
    AdminRates = {12}
    Thresholds = {0}
    AdminTimelock = 1
    Entrypoints = {"update_rate", "cast_emergency_vote", "set_rate_admin", "set_min_signatures", "set_emergency_threshold", "schedule_validator_change", "execute_validator_change", "cancel_validator_change"}
