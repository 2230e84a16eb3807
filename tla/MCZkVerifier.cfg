SPECIFICATION Spec
INVARIANTS NullifierSpentOnce StandingEarned
SYMMETRY MCSymmetry
CHECK_DEADLOCK FALSE
CONSTANTS
    w1 = w1
    w2 = w2
    c1 = c1
    c2 = c2
    n1 = n1
    n2 = n2
    Wallets <- MCWallets
    Commitments <- MCCommitments
    Nullifiers <- MCNullifiers
    Policies <- MCPolicies
    Tiers = {1, 2}
    Countries = {"NG", "KE"}
    Validity = 2
    EntryTtl = 2
    MinTtl = 1
    MaxEvents = 5
    MaxLedger = 4
