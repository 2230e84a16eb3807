SPECIFICATION Spec
INVARIANT TotalsMatchHoldings
CHECK_DEADLOCK FALSE
CONSTANTS
    l1 = l1
    l2 = l2
    b1 = b1
    Lenders <- MCLenders
    Borrowers <- MCBorrowers
    LoanIds = {1, 2}
    Amounts = {1, 2}
    BasisPoints = 2
    SecondsPerYear = 2
    LoanTerm = 1
    MinPoolBalance = 2
    InitRate = 1
    RateArgs = {2, 3}
    Donations = {}
    TokenSupply = 3
    MaxDonated = 1
    MaxNow = 5
