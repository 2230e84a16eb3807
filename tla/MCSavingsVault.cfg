SPECIFICATION Spec
INVARIANTS VaultTypeOK BooksAddUp MaturedReturnable
PROPERTY PendingYieldKept
CHECK_DEADLOCK FALSE
CONSTANTS
    u1 = u1
    u2 = u2
    Users <- MCUsers
    Terms = {1}
    Amounts = {1, 3}
    BasisPoints = 2
    SecondsPerYear = 2
    InitFeeRate = 0
    InitYieldRate = 2
    RateArgs = {1, 3}
    TokenSupply = 5
    MaxLots = 2
    MaxNow = 3
