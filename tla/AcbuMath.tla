------------------------------ MODULE AcbuMath ------------------------------
(***************************************************************************)
(* The fixed-point arithmetic every ACBU contract shares (crate shared/):  *)
(* basis-point fees, truncating division, the median of a bag of rates and *)
(* the deviation of one rate from another.  The Rust constants             *)
(* BASIS_POINTS = 10_000 and DECIMALS = 10_000_000 are parameters, so that *)
(* an instance can count in small units.  i128 overflow panics and rolls   *)
(* the call back; the amounts of an instance are far below it.             *)
(***************************************************************************)
EXTENDS Sums, FiniteSets, Functions

CONSTANTS
    BasisPoints,    \* units of one whole in a fee, weight or threshold
    Decimals        \* units of one whole in an amount or a rate

ASSUME ScaleAssumption ==
    /\ BasisPoints \in Nat \ {0}
    /\ Decimals \in Nat \ {0}

AbsDiff(a, b) == IF a > b THEN a - b ELSE b - a

\* i128 division: the quotient is truncated towards zero.
TruncDiv(a, b) ==
    LET magnitude == AbsDiff(a, 0) \div AbsDiff(b, 0)
    IN  IF (a < 0) # (b < 0) THEN -magnitude ELSE magnitude

-----------------------------------------------------------------------------
CalculateFee(amount, feeBps) == (amount * feeBps) \div BasisPoints

CalculateAmountAfterFee(amount, feeBps) == amount - CalculateFee(amount, feeBps)

WeightedFloor(total, weight, totalWeight) == (total * weight) \div totalWeight

\* A value that saturates to i128::MAX: larger than any threshold.
Saturated == 1000000000

\* Deviation of a from the base b in basis points; a zero base is maximally
\* deviant.  The base is signed in the code, and so is the quotient.
CalculateDeviation(a, b) ==
    IF b = 0 THEN Saturated ELSE TruncDiv(AbsDiff(a, b) * BasisPoints, b)

-----------------------------------------------------------------------------
(* A bag of rates is a function from a finite index set (positions of a    *)
(* Vec, or the submission records of a round) to integers.                 *)

\* The k-th smallest value of the bag f, 1 <= k <= Cardinality(DOMAIN f).
KthSmallest(f, k) ==
    CHOOSE v \in Range(f) :
        /\ Cardinality({i \in DOMAIN f : f[i] < v}) < k
        /\ Cardinality({i \in DOMAIN f : f[i] <= v}) >= k

\* The middle value, or the truncated mean of the two middle values.
Median(f) ==
    LET n == Cardinality(DOMAIN f)
        mid == n \div 2
    IN  IF n % 2 = 1
        THEN KthSmallest(f, mid + 1)
        ELSE TruncDiv(KthSmallest(f, mid) + KthSmallest(f, mid + 1), 2)
=============================================================================
