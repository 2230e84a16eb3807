SPECIFICATION SelectSpec
INVARIANT SelectionCorrect
PROPERTY Terminates
CHECK_DEADLOCK FALSE
CONSTANTS
    BasisPoints = 10000
    Decimals = 10000000
    Numbers <- MCNumbers
    MaxLength = 5
