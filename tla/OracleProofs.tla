---------------------------- MODULE OracleProofs ----------------------------
(***************************************************************************)
(* Proofs about how a rate comes to be.  Of the median: a majority of      *)
(* values holds it between its extremes, whatever the others are.          *)
(* Of Oracle, for every validator list, quorum, clock and lifetime its     *)
(* assumptions admit: its state is well typed and implements RateFeed,     *)
(* rounds stay below the quorum, no rate outlives the authority behind it, *)
(* and neither a submission nor an emergency vote is carried over a commit.*)
(* Of Quickselect, which computes the medians Oracle aggregates with, for  *)
(* every vector of every length: each swap keeps the bag of values, each   *)
(* partition keeps the rank bracketed, and a bracketed rank whose window   *)
(* is one element wide holds the value the median asks for.                *)
(***************************************************************************)
EXTENDS Oracle, Quickselect, FiniteSums

-----------------------------------------------------------------------------
(* The median of any bag of rates. *)

LEMMA LargestAt ==
    ASSUME NEW D, IsFiniteSet(D), D # {}, NEW f, \A x \in D : f[x] \in Int
    PROVE  \E u \in D : \A x \in D : f[x] <= f[u]
  <1> DEFINE Above(u) == {x \in D : f[x] > f[u]}
             Family == {Above(u) : u \in D}
  <1>1. Family \in SUBSET SUBSET D /\ Family # {}
    OBVIOUS
  <1>2. PICK T \in Family : \A U \in Family : U \subseteq T => U = T
    <2> HIDE DEF Family
    <2> QED BY <1>1, MinimalSubset
  <1>3. PICK u \in D : T = Above(u)
    BY <1>2
  <1>4. ASSUME NEW y \in D, f[y] > f[u] PROVE FALSE
    <2>1. Above(y) \subseteq Above(u) /\ Above(y) \in Family
      BY <1>4
    <2>2. y \in Above(u) /\ y \notin Above(y)
      BY <1>4
    <2> HIDE DEF Above, Family
    <2> QED BY <1>2, <1>3, <2>1, <2>2
  <1> QED BY <1>4

\* Every rank of a bag is taken by one of its values.
LEMMA KthExists ==
    ASSUME NEW D, IsFiniteSet(D), NEW f \in [D -> Int],
           NEW k \in Nat, 1 <= k, k <= Cardinality(D)
    PROVE  LET v == KthSmallest(f, k)
           IN  /\ v \in Int /\ \E x \in D : v = f[x]
               /\ Cardinality({x \in D : f[x] < v}) < k
               /\ Cardinality({x \in D : f[x] <= v}) >= k
  <1> DEFINE Below(v) == {x \in D : f[x] < v}
             UpTo(v) == {x \in D : f[x] <= v}
             Family == {T \in SUBSET D : Cardinality(T) >= k /\ \E u \in D : T = UpTo(f[u])}
  <1>1. \A T \in SUBSET D : IsFiniteSet(T) /\ Cardinality(T) \in Nat
    BY FS_Subset, FS_CardinalityType
  <1>2. D # {}
    BY FS_EmptySet
  <1>3. PICK top \in D : \A x \in D : f[x] <= f[top]
    BY <1>2, LargestAt
  <1>4. D \in Family
    <2>1. UpTo(f[top]) = D
      BY <1>3
    <2> QED BY <2>1
  <1>5. PICK T \in Family : \A U \in Family : U \subseteq T => U = T
    <2>1. Family \in SUBSET SUBSET D
      OBVIOUS
    <2> HIDE DEF Family
    <2> QED BY <1>4, <2>1, MinimalSubset
  <1>6. PICK z \in D : T = UpTo(f[z])
    BY <1>5
  <1>7. Cardinality(UpTo(f[z])) >= k
    BY <1>5, <1>6
  <1>8. Cardinality(Below(f[z])) < k
    <2> SUFFICES ASSUME Cardinality(Below(f[z])) >= k PROVE FALSE
      BY <1>1
    <2>1. Below(f[z]) # {} /\ IsFiniteSet(Below(f[z]))
      BY <1>1, FS_EmptySet
    <2>2. PICK u \in Below(f[z]) : \A x \in Below(f[z]) : f[x] <= f[u]
      <3>1. \A x \in Below(f[z]) : f[x] \in Int
        OBVIOUS
      <3> HIDE DEF Below
      <3> QED BY <2>1, <3>1, LargestAt
    <2>3. UpTo(f[u]) = Below(f[z])
      <3>1. f[u] < f[z] /\ u \in D
        OBVIOUS
      <3> QED BY <2>2, <3>1
    <2>4. UpTo(f[u]) \in Family
      BY <2>3
    <2>5. UpTo(f[u]) \subseteq UpTo(f[z])
      BY <2>3
    <2>6. z \in UpTo(f[z]) /\ z \notin Below(f[z])
      OBVIOUS
    <2> HIDE DEF Family, UpTo, Below
    <2> QED BY <1>5, <1>6, <2>3, <2>4, <2>5, <2>6
  <1>9. KthSmallest(f, k) = CHOOSE v \in Range(f) :
            Cardinality(Below(v)) < k /\ Cardinality(UpTo(v)) >= k
    BY DEF KthSmallest
  <1>10. f[z] \in Range(f)
    BY DEF Range
  <1> DEFINE v == KthSmallest(f, k)
  <1> HIDE DEF Below, UpTo
  <1>11. v \in Range(f) /\ Cardinality(Below(v)) < k /\ Cardinality(UpTo(v)) >= k
    BY <1>7, <1>8, <1>9, <1>10
  <1>12. \E x \in D : v = f[x]
    BY <1>11 DEF Range
  <1> QED BY <1>11, <1>12 DEF Below, UpTo

\* A value with fewer than k values below lo and k up to hi is between them.
LEMMA KthBetween ==
    ASSUME NEW D, IsFiniteSet(D), NEW f \in [D -> Int],
           NEW k \in Nat, 1 <= k, k <= Cardinality(D), NEW lo \in Int, NEW hi \in Int,
           Cardinality({x \in D : f[x] < lo}) < k,
           Cardinality({x \in D : f[x] <= hi}) >= k
    PROVE  KthSmallest(f, k) \in lo .. hi
  <1> DEFINE v == KthSmallest(f, k)
  <1>1. /\ v \in Int
        /\ Cardinality({x \in D : f[x] < v}) < k
        /\ Cardinality({x \in D : f[x] <= v}) >= k
    BY KthExists
  <1> HIDE DEF v
  <1>2. ASSUME NEW a \in Int, NEW b \in Int, a < b,
               Cardinality({x \in D : f[x] < b}) < k, Cardinality({x \in D : f[x] <= a}) >= k
        PROVE  FALSE
    <2>1. {x \in D : f[x] <= a} \subseteq {x \in D : f[x] < b}
      BY <1>2
    <2>2. IsFiniteSet({x \in D : f[x] < b})
      BY FS_Subset
    <2> DEFINE A == {x \in D : f[x] <= a}
               B == {x \in D : f[x] < b}
    <2>3. Cardinality(A) <= Cardinality(B) /\ Cardinality(A) \in Nat /\ Cardinality(B) \in Nat
      <3> HIDE DEF A, B
      <3> QED BY <2>1, <2>2, FS_Subset, FS_CardinalityType DEF A, B
    <2> HIDE DEF A, B
    <2> QED BY <1>2, <2>3 DEF A, B
  <1>3. ~(v < lo) /\ ~(hi < v)
    BY <1>1, <1>2
  <1> QED BY <1>1, <1>3 DEF v

\* The truncated mean of two numbers of an interval is in the interval.
LEMMA MeanBetween ==
    ASSUME NEW lo \in Int, NEW hi \in Int, NEW a \in lo .. hi, NEW b \in lo .. hi
    PROVE  TruncDiv(a + b, 2) \in lo .. hi
  <1> DEFINE s == a + b
  <1>1. s \in Int /\ 2 * lo <= s /\ s <= 2 * hi
    OBVIOUS
  <1> HIDE DEF s
  <1>2. CASE s >= 0
    <2>1. TruncDiv(s, 2) = s \div 2
      BY <1>1, <1>2 DEF TruncDiv, AbsDiff
    <2> QED BY <1>1, <2>1, SMT DEF s
  <1>3. CASE s < 0
    <2>1. TruncDiv(s, 2) = -((0 - s) \div 2)
      BY <1>1, <1>3 DEF TruncDiv, AbsDiff
    <2> QED BY <1>1, <2>1, SMT DEF s
  <1> QED BY <1>1, <1>2, <1>3

\* The median the rates are aggregated with, over the sources of a validator
\* and over the validators of a round: a majority of the values holds it
\* between its extremes, whatever the others are.
THEOREM MajorityHoldsMedian ==
    ASSUME NEW D, IsFiniteSet(D), NEW f \in [D -> Int], NEW lo \in Int, NEW hi \in Int,
           2 * Cardinality({x \in D : f[x] \in lo .. hi}) > Cardinality(D)
    PROVE  Median(f) \in lo .. hi
  <1> DEFINE n == Cardinality(D)
             Inside == {x \in D : f[x] \in lo .. hi}
             Below == {x \in D : f[x] < lo}
             UpTo == {x \in D : f[x] <= hi}
  <1>1. /\ IsFiniteSet(Inside) /\ IsFiniteSet(Below) /\ IsFiniteSet(UpTo)
        /\ n \in Nat /\ Cardinality(Inside) \in Nat
        /\ Cardinality(Below) \in Nat /\ Cardinality(UpTo) \in Nat
    BY FS_Subset, FS_CardinalityType
  <1>2. Cardinality(Inside) <= Cardinality(UpTo)
    <2>1. Inside \subseteq UpTo
      OBVIOUS
    <2> HIDE DEF Inside, UpTo
    <2> QED BY <1>1, <2>1, FS_Subset
  <1>3. Cardinality(Below) + Cardinality(Inside) <= n
    <2>1. Below \cap Inside = {} /\ Below \cup Inside \subseteq D
      OBVIOUS
    <2> HIDE DEF Inside, Below
    <2>2. Cardinality(Below \cup Inside) = Cardinality(Below) + Cardinality(Inside)
      <3>1. Cardinality(Below \cap Inside) = 0
        BY <2>1, FS_EmptySet
      <3>2. Cardinality(Below \cup Inside)
              = Cardinality(Below) + Cardinality(Inside) - Cardinality(Below \cap Inside)
        BY <1>1, FS_Union
      <3> QED BY <1>1, <3>1, <3>2
    <2>3. Cardinality(Below \cup Inside) <= n
      BY <2>1, FS_Subset
    <2> QED BY <2>2, <2>3
  <1>4. 2 * Cardinality(Inside) > n
    OBVIOUS
  <1> DEFINE half == n \div 2
  <1>5. half \in Nat /\ (n = 2 * half \/ n = 2 * half + 1) /\ (n % 2 = 1 <=> n = 2 * half + 1)
    BY <1>1, SMT
  <1> HIDE DEF half
  <1>6. ASSUME NEW k \in Nat, 1 <= k, k <= half + 1, n = 2 * half => k >= half,
               n = 2 * half + 1 => k = half + 1
        PROVE  KthSmallest(f, k) \in lo .. hi
    <2>1. Cardinality(Below) < k /\ Cardinality(UpTo) >= k /\ k <= n
      <3> HIDE DEF n, Inside, Below, UpTo
      <3> QED BY <1>1, <1>2, <1>3, <1>4, <1>5, <1>6
    <2> QED BY <1>6, <2>1, KthBetween
  <1>7. n % 2 = 1 => KthSmallest(f, half + 1) \in lo .. hi
    <2> HIDE DEF n
    <2> QED BY <1>5, <1>6
  <1>8. n % 2 # 1 => KthSmallest(f, half) \in lo .. hi /\ KthSmallest(f, half + 1) \in lo .. hi
    <2>1. n % 2 # 1 => half >= 1
      <3> HIDE DEF n, Inside, Below, UpTo
      <3> QED BY <1>1, <1>2, <1>3, <1>4, <1>5
    <2> HIDE DEF n
    <2> QED BY <1>5, <1>6, <2>1
  <1>9. Median(f) = IF n % 2 = 1 THEN KthSmallest(f, half + 1)
                    ELSE TruncDiv(KthSmallest(f, half) + KthSmallest(f, half + 1), 2)
    BY DEF Median, half
  <1> HIDE DEF n
  <1>10. CASE n % 2 = 1
    BY <1>7, <1>9, <1>10
  <1>11. CASE n % 2 # 1
    BY <1>8, <1>9, <1>11, MeanBetween
  <1> QED BY <1>10, <1>11

\* So the median is within the extremes of any bag that is not empty.
LEMMA MedianWithin ==
    ASSUME NEW D, IsFiniteSet(D), D # {}, NEW f \in [D -> Int],
           NEW lo \in Int, NEW hi \in Int, \A x \in D : f[x] \in lo .. hi
    PROVE  Median(f) \in lo .. hi
  <1>1. {x \in D : f[x] \in lo .. hi} = D
    OBVIOUS
  <1>2. Cardinality(D) \in Nat /\ Cardinality(D) # 0
    BY FS_CardinalityType, FS_EmptySet
  <1>3. 2 * Cardinality(D) > Cardinality(D)
    BY <1>2
  <1> QED BY <1>1, <1>3, MajorityHoldsMedian

LEMMA MedianInt ==
    ASSUME NEW D, IsFiniteSet(D), D # {}, NEW f \in [D -> Int]
    PROVE  Median(f) \in Int
  <1>1. PICK u \in D : \A x \in D : f[x] <= f[u]
    BY LargestAt
  <1> DEFINE g == [x \in D |-> -f[x]]
  <1>2. \A x \in D : g[x] \in Int
    OBVIOUS
  <1>3. PICK w \in D : \A x \in D : g[x] <= g[w]
    <2> HIDE DEF g
    <2> QED BY <1>2, LargestAt
  <1>4. \A x \in D : f[x] \in f[w] .. f[u]
    <2> TAKE x \in D
    <2>1. -f[x] <= -f[w] /\ f[x] \in Int /\ f[w] \in Int
      BY <1>3
    <2> QED BY <1>1, <2>1
  <1>5. Median(f) \in f[w] .. f[u]
    BY <1>4, MedianWithin
  <1> QED BY <1>5

-----------------------------------------------------------------------------
(* The inductive invariant. *)

\* Every map has one entry per currency.
Shape ==
    /\ DOMAIN quotes = Currency
    /\ DOMAIN submissions = Currency
    /\ DOMAIN votes = Currency
    /\ DOMAIN backers = Currency

\* A stored rate is at least as many seconds old as ledgers.
ClockInv ==
    /\ now \in Nat /\ ledger \in Nat
    /\ \A c \in Currency :
         /\ quotes[c].timestamp \in Nat /\ quotes[c].ledger \in Nat
         /\ quotes[c].set => ledger - quotes[c].ledger <= now - quotes[c].timestamp

\* Rounds and ballots are stamped maps over validators that ever were.
RoundInv ==
    \A c \in Currency :
        /\ DOMAIN submissions[c] \subseteq ValidatorPool
        /\ \A v \in DOMAIN submissions[c] : submissions[c][v].timestamp \in Nat
        /\ DOMAIN votes[c] \subseteq ValidatorPool
        /\ \A v \in DOMAIN votes[c] : votes[c][v] \in Nat

\* The list is longer than it has validators by no more than it was at first.
ListInv ==
    /\ listed \in [ValidatorPool -> Nat] /\ repeated \in Nat
    /\ ListLength <= Cardinality(validators) + repeated

QuorumInv ==
    /\ ListInv
    /\ validators \subseteq ValidatorPool
    /\ minSigs \in Nat \ {0}
    /\ pendingChange # NoChange => pendingChange.validator \in ValidatorPool
    /\ QuorumWithinRepeats
    /\ RoundBelowQuorum
    /\ BackersAuthorised

IInv == Shape /\ ClockInv /\ RoundInv /\ QuorumInv

-----------------------------------------------------------------------------
\* The empty round has nobody in it, which is below any quorum.
LEMMA EmptyRound ==
    /\ DOMAIN Empty = {}
    /\ Cardinality(DOMAIN Empty) = 0
  <1>1. DOMAIN Empty = {}
    BY DEF Empty
  <1> QED BY <1>1, FS_EmptySet

\* Validator sets are finite, so they can be counted.
LEMMA PoolCounted ==
    ASSUME NEW S, S \subseteq ValidatorPool
    PROVE  IsFiniteSet(S) /\ Cardinality(S) \in Nat
  BY FS_Subset, FS_CardinalityType, OracleAssumption

\* A list has at least one entry for each validator it names.
LEMMA NamedAtMostLength ==
    ASSUME NEW f \in [ValidatorPool -> Nat]
    PROVE  Cardinality({v \in ValidatorPool : f[v] > 0}) <= SumOver(f, ValidatorPool)
  <1> DEFINE Named(T) == {v \in T : f[v] > 0}
             Bad == {T \in SUBSET ValidatorPool : ~(Cardinality(Named(T)) <= SumOver(f, T))}
  <1> SUFFICES ASSUME Bad # {} PROVE FALSE
    OBVIOUS
  <1>1. PICK T \in Bad : \A U \in Bad : U \subseteq T => U = T
    <2>1. Bad \in SUBSET SUBSET ValidatorPool /\ IsFiniteSet(ValidatorPool)
      BY OracleAssumption
    <2> HIDE DEF Bad
    <2> QED BY <2>1, MinimalSubset
  <1>2. T \in SUBSET ValidatorPool /\ IsFiniteSet(T)
    BY PoolCounted
  <1>3. T # {}
    <2> SUFFICES ASSUME T = {} PROVE FALSE
      OBVIOUS
    <2>1. SumOver(f, T) = 0 /\ Cardinality(Named(T)) = 0
      BY SumEmpty, FS_EmptySet
    <2> HIDE DEF Named
    <2> QED BY <1>1, <2>1
  <1>4. PICK x \in T : TRUE
    BY <1>3
  <1> DEFINE U == T \ {x}
  <1>5. U \in SUBSET ValidatorPool /\ IsFiniteSet(U)
    BY PoolCounted
  <1>6. Cardinality(Named(U)) <= SumOver(f, U)
    <2>1. U \notin Bad
      BY <1>1, <1>4
    <2> HIDE DEF Named, U
    <2> QED BY <1>5, <2>1
  <1>7. SumOver(f, T) = f[x] + SumOver(f, U) /\ SumOver(f, U) \in Int
    <2>1. \A y \in T : f[y] \in Int
      BY <1>2
    <2> QED BY <1>2, <1>5, <2>1, SumRemove, SumInt
  <1>8. f[x] \in Nat /\ IsFiniteSet(Named(U)) /\ Cardinality(Named(U)) \in Nat
    BY <1>2, PoolCounted
  <1>9. Cardinality(Named(T)) <= Cardinality(Named(U)) + f[x]
    <2>1. CASE f[x] = 0
      <3>1. Named(T) = Named(U)
        BY <2>1
      <3> HIDE DEF Named, U
      <3> QED BY <1>8, <3>1
    <2>2. CASE f[x] # 0
      <3>1. Named(T) = Named(U) \cup {x} /\ x \notin Named(U)
        BY <1>8, <2>2
      <3>2. Cardinality(Named(U) \cup {x}) = Cardinality(Named(U)) + 1
        <4> HIDE DEF Named, U
        <4> QED BY <1>8, <3>1, FS_AddElement
      <3> HIDE DEF Named, U
      <3> QED BY <1>8, <2>2, <3>1, <3>2
    <2> QED BY <2>1, <2>2
  <1>10. Cardinality(Named(T)) \in Nat
    BY <1>2, PoolCounted
  <1>11. ~(Cardinality(Named(T)) <= SumOver(f, T))
    <2> HIDE DEF Named
    <2> QED BY <1>1
  <1> HIDE DEF Named, U, Bad
  <1> QED BY <1>6, <1>7, <1>8, <1>9, <1>10, <1>11

\* What a change of one validator's entries does to the list and the index.
LEMMA ListChange ==
    ASSUME listed \in [ValidatorPool -> Nat], NEW v \in ValidatorPool, NEW n \in Nat,
           listed' = [listed EXCEPT ![v] = n]
    PROVE  /\ listed' \in [ValidatorPool -> Nat]
           /\ listed[v] \in Nat /\ ListLength \in Nat /\ ListLength' \in Nat
           /\ ListLength' = ListLength - listed[v] + n
           /\ validators \subseteq ValidatorPool /\ validators' \subseteq ValidatorPool
           /\ v \in validators <=> listed[v] > 0
           /\ n > 0 => validators' = validators \cup {v}
           /\ n = 0 => validators' = validators \ {v}
  <1>1. listed' \in [ValidatorPool -> Nat] /\ listed'[v] = n
        /\ \A w \in ValidatorPool : w # v => listed[w] = listed'[w]
    OBVIOUS
  <1>2. IsFiniteSet(ValidatorPool)
    BY OracleAssumption
  <1>3. ListLength \in Nat /\ ListLength' \in Nat
    BY <1>1, <1>2, SumNat DEF ListLength
  <1>4. ListLength' = ListLength - listed[v] + n
    <2>1. PICK f : f = listed
      OBVIOUS
    <2>2. PICK g : g = listed'
      OBVIOUS
    <2>3. /\ \A w \in ValidatorPool : f[w] \in Int /\ g[w] \in Int
          /\ \A w \in ValidatorPool : w # v => f[w] = g[w]
      BY <1>1, <2>1, <2>2
    <2>4. SumOver(g, ValidatorPool) = SumOver(f, ValidatorPool) - f[v] + g[v]
      BY <1>2, <2>3, SumUpdate
    <2> QED BY <1>1, <2>1, <2>2, <2>4 DEF ListLength
  <1>5. /\ n > 0 => validators' = validators \cup {v}
        /\ n = 0 => validators' = validators \ {v}
    BY <1>1 DEF validators
  <1> QED BY <1>1, <1>3, <1>4, <1>5 DEF validators

\* Publishing a rate stamps it with both clocks of the moment.
LEMMA PublishKeepsClock ==
    ASSUME Shape, ClockInv, NEW c \in Currency, NEW r, PublishRate(c, r)
    PROVE  DOMAIN quotes' = Currency /\ ClockInv'
  <1>1. DOMAIN quotes' = Currency
    BY DEF PublishRate, Shape
  <1>2. now' = now /\ ledger' = ledger
    BY DEF PublishRate
  <1>3. ASSUME NEW d \in Currency
        PROVE  /\ quotes'[d].timestamp \in Nat /\ quotes'[d].ledger \in Nat
               /\ quotes'[d].set => ledger - quotes'[d].ledger <= now - quotes'[d].timestamp
    <2>1. CASE d = c
      <3>1. quotes'[d] = [rate |-> r, timestamp |-> now, ledger |-> ledger, set |-> TRUE]
        BY <2>1 DEF PublishRate, Shape
      <3> QED BY <3>1 DEF ClockInv
    <2>2. CASE d # c
      <3>1. quotes'[d] = quotes[d]
        BY <2>2 DEF PublishRate, Shape
      <3> QED BY <3>1 DEF ClockInv
    <2> QED BY <2>1, <2>2
  <1> QED BY <1>1, <1>2, <1>3 DEF ClockInv

\* A round holds validators only, each stamped, the newcomer with now.
LEMMA RoundShape ==
    ASSUME IInv, NEW c \in Currency, NEW v \in validators, NEW r
    PROVE  LET round == Round(c, v, r)
           IN  /\ DOMAIN round \subseteq validators
               /\ DOMAIN round \subseteq ValidatorPool
               /\ v \in DOMAIN round
               /\ \A w \in DOMAIN round : round[w].timestamp \in Nat
               /\ \A w \in DOMAIN round \ {v} :
                    /\ w \in DOMAIN submissions[c]
                    /\ now - submissions[c][w].timestamp <= SubmissionTtl
  <1> DEFINE others == {w \in DOMAIN submissions[c] \ {v} :
                     w \in validators /\ now - submissions[c][w].timestamp <= SubmissionTtl}
             round == Round(c, v, r)
  <1>1. DOMAIN round = others \cup {v}
    BY DEF Round
  <1>2. \A w \in DOMAIN round :
            round[w] = IF w = v THEN [rate |-> r, timestamp |-> now] ELSE submissions[c][w]
    BY DEF Round
  <1>3. \A w \in DOMAIN round : round[w].timestamp \in Nat
    <2>1. ASSUME NEW w \in DOMAIN round PROVE round[w].timestamp \in Nat
      <3>1. CASE w = v
        BY <1>2, <2>1, <3>1 DEF IInv, ClockInv
      <3>2. CASE w # v
        <4>1. w \in DOMAIN submissions[c] /\ round[w] = submissions[c][w]
          BY <1>1, <1>2, <3>2
        <4> QED BY <4>1 DEF IInv, RoundInv
      <3> QED BY <3>1, <3>2
    <2> QED BY <2>1
  <1> QED BY <1>1, <1>3 DEF IInv, QuorumInv
-----------------------------------------------------------------------------
(* The invariant holds initially and is preserved, one lemma per handler. *)

\* Nothing has been published, submitted or voted for at the start.
LEMMA InitInv == Init => IInv
  <1> SUFFICES ASSUME Init PROVE IInv
    OBVIOUS
  <1>1. Shape
    BY DEF Init, RateInit, Shape
  <1>2. ClockInv
    BY DEF Init, RateInit, NoQuote, ClockInv
  <1>3. RoundInv
    BY EmptyRound DEF Init, RoundInv
  <1>4. QuorumInv
    <2>1. listed \in [ValidatorPool -> Nat] /\ minSigs \in 1 .. ListLength
          /\ repeated = ListLength - Cardinality(validators)
      BY OracleAssumption DEF Init
    <2>2. /\ validators \subseteq ValidatorPool /\ Cardinality(validators) \in Nat
          /\ Cardinality(validators) <= ListLength /\ ListLength \in Nat
      BY <2>1, PoolCounted, NamedAtMostLength, SumNat, OracleAssumption
         DEF validators, ListLength
    <2>3. ListInv /\ QuorumWithinRepeats /\ minSigs \in Nat \ {0}
      BY <2>1, <2>2 DEF ListInv, QuorumWithinRepeats
    <2>4. RoundBelowQuorum
      BY <2>3, EmptyRound DEF Init, RoundBelowQuorum
    <2> QED BY <2>2, <2>3, <2>4 DEF Init, QuorumInv, BackersAuthorised
  <1> QED BY <1>1, <1>2, <1>3, <1>4 DEF IInv

\* A submission short of the quorum only grows the round.
LEMMA StoreRoundInv ==
    ASSUME IInv, NEW c \in Currency, NEW v \in validators, NEW r,
           ~QuorumMet(Round(c, v, r)), StoreRound(c, Round(c, v, r)),
           UNCHANGED governanceVars
    PROVE  IInv'
  <1> DEFINE round == Round(c, v, r)
  <1>1. /\ DOMAIN round \subseteq ValidatorPool
        /\ \A w \in DOMAIN round : round[w].timestamp \in Nat
    BY RoundShape
  <1>2. Cardinality(DOMAIN round) < minSigs
    BY <1>1, PoolCounted DEF QuorumMet, IInv, QuorumInv
  <1> HIDE DEF round
  <1>3. submissions' = [submissions EXCEPT ![c] = round]
    BY DEF StoreRound, round
  <1>4. \A d \in Currency :
            submissions'[d] = IF d = c THEN round ELSE submissions[d]
    BY <1>3 DEF IInv, Shape
  <1>5. Shape' /\ ClockInv'
    BY <1>3 DEF StoreRound, rateVars, IInv, Shape, ClockInv
  <1>6. RoundInv'
    BY <1>1, <1>4 DEF StoreRound, IInv, RoundInv
  <1>7. RoundBelowQuorum'
    BY <1>2, <1>4 DEF governanceVars, IInv, QuorumInv, RoundBelowQuorum
  <1>8. QuorumInv'
    BY <1>7 DEF StoreRound, governanceVars, IInv, QuorumInv, QuorumWithinRepeats,
        BackersAuthorised, ListInv, ListLength, listVars, validators
  <1> QED BY <1>5, <1>6, <1>8 DEF IInv

\* A commit empties the round; its backers are validators of the moment.
LEMMA CommitRoundInv ==
    ASSUME IInv, NEW c \in Currency, NEW v \in validators, NEW r,
           CommitRound(c, Round(c, v, r)), UNCHANGED governanceVars
    PROVE  IInv'
  <1> DEFINE round == Round(c, v, r)
             committed == Median([w \in DOMAIN round |-> round[w].rate])
  <1>1. DOMAIN round \subseteq validators
    BY RoundShape
  <1> HIDE DEF round, committed
  <1>2. PublishRate(c, committed)
    BY DEF CommitRound, round, committed
  <1>3. /\ submissions' = [submissions EXCEPT ![c] = Empty]
        /\ backers' = [backers EXCEPT ![c] = DOMAIN round]
        /\ votes' = [votes EXCEPT ![c] = Empty] \/ votes' = votes
    BY DEF CommitRound, round
  <1>4. Shape' /\ ClockInv'
    <2>1. DOMAIN quotes' = Currency /\ ClockInv'
      BY <1>2, PublishKeepsClock DEF IInv
    <2> QED BY <1>3, <2>1 DEF IInv, Shape
  <1>5. \A d \in Currency :
            /\ submissions'[d] = IF d = c THEN Empty ELSE submissions[d]
            /\ backers'[d] = IF d = c THEN DOMAIN round ELSE backers[d]
            /\ votes'[d] = Empty \/ votes'[d] = votes[d]
    BY <1>3 DEF IInv, Shape
  <1>6. RoundInv'
    BY <1>5, EmptyRound DEF IInv, RoundInv
  <1>7. RoundBelowQuorum'
    BY <1>5, EmptyRound DEF governanceVars, IInv, QuorumInv, RoundBelowQuorum
  <1>8. BackersAuthorised'
    BY <1>1, <1>5 DEF governanceVars, listVars, validators, IInv, QuorumInv,
        BackersAuthorised
  <1>9. QuorumInv'
    BY <1>7, <1>8 DEF governanceVars, IInv, QuorumInv, QuorumWithinRepeats, ListInv,
        ListLength, listVars, validators
  <1> QED BY <1>4, <1>6, <1>9 DEF IInv

\* update_rate either stores the round or commits it.
LEMMA UpdateRateInv ==
    ASSUME IInv, NEW v, NEW c \in Currency, NEW rate, NEW s, UpdateRate(v, c, rate, s)
    PROVE  IInv'
  BY StoreRoundInv, CommitRoundInv DEF UpdateRate

\* A vote is a stamp by a validator.
LEMMA CastEmergencyVoteInv ==
    ASSUME IInv, NEW v, NEW c \in Currency, CastEmergencyVote(v, c)
    PROVE  IInv'
  <1> DEFINE others == EmergencyVoters(c) \ {v}
             ballot == [w \in others \cup {v} |-> IF w = v THEN now ELSE votes[c][w]]
  <1>1. v \in ValidatorPool
    BY DEF CastEmergencyVote, IInv, QuorumInv
  <1>2. others \subseteq DOMAIN votes[c]
    BY DEF EmergencyVoters
  <1>3. DOMAIN ballot \subseteq ValidatorPool
    BY <1>1, <1>2 DEF IInv, RoundInv
  <1>4. \A w \in DOMAIN ballot : ballot[w] \in Nat
    BY <1>2 DEF IInv, RoundInv, ClockInv
  <1>5. votes' = [votes EXCEPT ![c] = ballot]
    BY DEF CastEmergencyVote
  <1> HIDE DEF ballot
  <1>6. \A d \in Currency : votes'[d] = IF d = c THEN ballot ELSE votes[d]
    BY <1>5 DEF IInv, Shape
  <1>7. RoundInv'
    BY <1>3, <1>4, <1>6 DEF CastEmergencyVote, IInv, RoundInv
  <1>8. Shape' /\ ClockInv' /\ QuorumInv'
    BY <1>5 DEF CastEmergencyVote, rateVars, governanceVars, IInv, Shape, ClockInv,
        QuorumInv, QuorumWithinRepeats, RoundBelowQuorum, BackersAuthorised,
        ListInv, ListLength, listVars, validators
  <1> QED BY <1>7, <1>8 DEF IInv

\* The override has no backers.
LEMMA SetRateAdminInv ==
    ASSUME IInv, NEW c \in Currency, NEW rate, SetRateAdmin(c, rate)
    PROVE  IInv'
  <1>1. DOMAIN quotes' = Currency /\ ClockInv'
    BY PublishKeepsClock DEF SetRateAdmin, IInv
  <1>2. \A d \in Currency : backers'[d] = IF d = c THEN {} ELSE backers[d]
    BY DEF SetRateAdmin, IInv, Shape
  <1>3. Shape'
    BY <1>1 DEF SetRateAdmin, IInv, Shape
  <1>4. RoundInv'
    BY DEF SetRateAdmin, IInv, RoundInv
  <1>5. QuorumInv'
    BY <1>2 DEF SetRateAdmin, governanceVars, IInv, QuorumInv, QuorumWithinRepeats,
        RoundBelowQuorum, BackersAuthorised, ListInv, ListLength, listVars, validators
  <1> QED BY <1>1, <1>3, <1>4, <1>5 DEF IInv

\* A new quorum starts with empty rounds.
LEMMA SetMinSignaturesInv ==
    ASSUME IInv, NEW n \in Nat, SetMinSignatures(n)
    PROVE  IInv'
  <1>1. /\ minSigs' = n /\ n \in Nat \ {0} /\ n <= ListLength
        /\ submissions' = [c \in Currency |-> Empty]
        /\ votes' = [c \in Currency |-> Empty]
        /\ UNCHANGED <<rateVars, backers, listVars, threshold, pendingChange>>
    BY DEF SetMinSignatures, QuorumValid
  <1>2. Shape' /\ ClockInv'
    BY <1>1 DEF rateVars, IInv, Shape, ClockInv
  <1>3. RoundInv'
    BY <1>1, EmptyRound DEF RoundInv
  <1>4. RoundBelowQuorum'
    BY <1>1, EmptyRound DEF RoundBelowQuorum
  <1>5. ListInv' /\ validators' = validators
    BY <1>1 DEF listVars, IInv, QuorumInv, ListInv, ListLength, validators
  <1>6. QuorumWithinRepeats'
    <2>1. /\ ListLength <= Cardinality(validators) + repeated /\ repeated \in Nat
          /\ ListLength \in Nat /\ Cardinality(validators) \in Nat
      BY PoolCounted, SumNat, OracleAssumption DEF IInv, QuorumInv, ListInv, ListLength
    <2> QED BY <1>1, <1>5, <2>1 DEF listVars, QuorumWithinRepeats
  <1>7. QuorumInv'
    BY <1>1, <1>4, <1>5, <1>6 DEF IInv, QuorumInv, BackersAuthorised
  <1> QED BY <1>2, <1>3, <1>7 DEF IInv

\* Adding a validator makes list and index one longer, and unseats no backer.
LEMMA ExecuteAdditionInv ==
    ASSUME IInv, ExecuteAddition
    PROVE  IInv'
  <1>0. PICK v, n : v = pendingChange.validator /\ n = 1
    OBVIOUS
  <1>1. /\ listed' = [listed EXCEPT ![v] = n] /\ v \notin validators
        /\ pendingChange' = NoChange
        /\ UNCHANGED <<rateVars, consensusVars, repeated, minSigs, threshold>>
    BY <1>0 DEF ExecuteAddition
  <1>2. /\ v \in ValidatorPool /\ listed \in [ValidatorPool -> Nat] /\ repeated \in Nat
        /\ ListLength <= Cardinality(validators) + repeated
        /\ minSigs \in Nat /\ minSigs <= Cardinality(validators) + repeated
    BY <1>0 DEF ExecuteAddition, ChangeDue, IInv, QuorumInv, ListInv, QuorumWithinRepeats
  <1>3. /\ listed' \in [ValidatorPool -> Nat]
        /\ listed[v] \in Nat /\ ListLength \in Nat /\ ListLength' \in Nat
        /\ ListLength' = ListLength - listed[v] + n
        /\ validators \subseteq ValidatorPool /\ validators' \subseteq ValidatorPool
        /\ v \in validators <=> listed[v] > 0
        /\ n > 0 => validators' = validators \cup {v}
        /\ n = 0 => validators' = validators \ {v}
    BY <1>0, <1>1, <1>2, ListChange
  <1>4. /\ Cardinality(validators') = Cardinality(validators) + 1
        /\ Cardinality(validators) \in Nat
    BY <1>0, <1>1, <1>3, PoolCounted, FS_AddElement
  <1>5. ListInv' /\ QuorumWithinRepeats'
    BY <1>0, <1>1, <1>2, <1>3, <1>4 DEF ListInv, QuorumWithinRepeats
  <1>6. BackersAuthorised'
    BY <1>0, <1>1, <1>3 DEF consensusVars, IInv, QuorumInv, BackersAuthorised
  <1> QED BY <1>0, <1>1, <1>3, <1>5, <1>6 DEF rateVars, consensusVars, IInv, Shape, ClockInv,
        RoundInv, QuorumInv, RoundBelowQuorum

\* Removing one takes one from the index and at least as much from the list,
\* and leaves no rate that anybody backed.
LEMMA ExecuteRemovalInv ==
    ASSUME IInv, ExecuteRemoval
    PROVE  IInv'
  <1>0. PICK v, n : v = pendingChange.validator /\ n = 0
    OBVIOUS
  <1>1. /\ listed' = [listed EXCEPT ![v] = n]
        /\ pendingChange' = NoChange
        /\ quotes' = [c \in Currency |-> NoQuote]
        /\ backers' = [c \in Currency |-> {}]
        /\ UNCHANGED <<now, ledger, submissions, votes, repeated, minSigs, threshold>>
    BY <1>0 DEF ExecuteRemoval, ClearRates
  <1>2. /\ v \in ValidatorPool /\ listed \in [ValidatorPool -> Nat] /\ repeated \in Nat
        /\ ListLength <= Cardinality(validators) + repeated
        /\ minSigs \in Nat /\ minSigs < ListLength
    BY <1>0 DEF ExecuteRemoval, ChangeDue, Removable, IInv, QuorumInv, ListInv
  <1>3. /\ listed' \in [ValidatorPool -> Nat]
        /\ listed[v] \in Nat /\ ListLength \in Nat /\ ListLength' \in Nat
        /\ ListLength' = ListLength - listed[v] + n
        /\ validators \subseteq ValidatorPool /\ validators' \subseteq ValidatorPool
        /\ v \in validators <=> listed[v] > 0
        /\ n > 0 => validators' = validators \cup {v}
        /\ n = 0 => validators' = validators \ {v}
    BY <1>0, <1>1, <1>2, ListChange
  <1>4. Cardinality(validators) \in Nat /\ Cardinality(validators') \in Nat
        /\ IsFiniteSet(validators)
    BY <1>0, <1>3, PoolCounted
  <1>5. Cardinality(validators')
          = IF v \in validators THEN Cardinality(validators) - 1 ELSE Cardinality(validators)
    <2>1. CASE v \in validators
      BY <1>0, <1>3, <1>4, <2>1, FS_RemoveElement
    <2>2. CASE v \notin validators
      <3>1. validators' = validators
        BY <1>0, <1>3, <2>2
      <3> QED BY <2>2, <3>1
    <2> QED BY <2>1, <2>2
  <1>6. ListInv' /\ QuorumWithinRepeats'
    BY <1>0, <1>1, <1>2, <1>3, <1>4, <1>5 DEF ListInv, QuorumWithinRepeats
  <1>7. Shape' /\ ClockInv'
    BY <1>1 DEF NoQuote, IInv, Shape, ClockInv
  <1>8. RoundInv'
    BY <1>1 DEF IInv, RoundInv
  <1>9. QuorumInv'
    BY <1>0, <1>1, <1>3, <1>6 DEF IInv, QuorumInv, RoundBelowQuorum, BackersAuthorised
  <1> QED BY <1>7, <1>8, <1>9 DEF IInv

\* Thresholds, scheduling and cancelling touch nothing a round depends on.
LEMMA OtherGovernanceInv ==
    ASSUME IInv, UNCHANGED <<rateVars, consensusVars, listVars, minSigs>>,
           pendingChange' # NoChange => pendingChange'.validator \in ValidatorPool
    PROVE  IInv'
  BY DEF rateVars, consensusVars, IInv, Shape, ClockInv, RoundInv, QuorumInv,
      QuorumWithinRepeats, RoundBelowQuorum, BackersAuthorised, ListInv, ListLength,
      listVars, validators

\* A ledger close adds at least as many seconds as ledgers.
LEMMA LedgerStepInv ==
    ASSUME IInv, LedgerStep
    PROVE  IInv'
  <1>1. PICK gap \in LedgerGaps :
            now' = now + gap /\ ledger' = ledger + 1 /\ UNCHANGED quotes
    BY DEF LedgerStep, LedgerClose
  <1>2. gap \in Nat \ {0}
    BY FeedAssumption
  <1>3. ClockInv'
    BY <1>1, <1>2 DEF IInv, ClockInv
  <1> QED BY <1>1, <1>3 DEF LedgerStep, consensusVars, governanceVars, IInv, Shape,
        RoundInv, QuorumInv, QuorumWithinRepeats, RoundBelowQuorum, BackersAuthorised,
        ListInv, ListLength, listVars, validators

\* Every step preserves the invariant.
LEMMA NextInv == IInv /\ [Next]_oracleVars => IInv'
  <1> SUFFICES ASSUME IInv, [Next]_oracleVars PROVE IInv'
    OBVIOUS
  <1>1. CASE RateStep
    BY <1>1, UpdateRateInv, CastEmergencyVoteInv, SetRateAdminInv DEF RateStep
  <1>2. CASE GovernanceStep
    <2>1. ASSUME NEW c \in Currency, NEW bps \in Thresholds, SetEmergencyThreshold(c, bps)
          PROVE  IInv'
      BY <2>1, OtherGovernanceInv DEF SetEmergencyThreshold, IInv, QuorumInv
    <2>2. ASSUME NEW n \in MinSigChoices, SetMinSignatures(n)
          PROVE  IInv'
      BY <2>2, SetMinSignaturesInv, OracleAssumption
    <2>3. ASSUME NEW v \in ValidatorPool, NEW add \in BOOLEAN,
                 ScheduleValidatorChange(v, add)
          PROVE  IInv'
      BY <2>3, OtherGovernanceInv DEF ScheduleValidatorChange
    <2>4. ASSUME CancelValidatorChange
          PROVE  IInv'
      BY <2>4, OtherGovernanceInv DEF CancelValidatorChange
    <2> QED BY <1>2, <2>1, <2>2, <2>3, <2>4, ExecuteAdditionInv, ExecuteRemovalInv
         DEF GovernanceStep
  <1>3. CASE LedgerStep
    BY <1>3, LedgerStepInv
  <1>4. CASE UNCHANGED oracleVars
    BY <1>4 DEF oracleVars, rateVars, consensusVars, governanceVars, IInv, Shape,
        ClockInv, RoundInv, QuorumInv, QuorumWithinRepeats, RoundBelowQuorum,
        BackersAuthorised, ListInv, ListLength, listVars, validators
  <1> QED BY <1>1, <1>2, <1>3, <1>4 DEF Next
-----------------------------------------------------------------------------
(* Invariants. *)

\* The inductive invariant holds throughout.
LEMMA Invariant == Spec => []IInv
  <1>1. Init => IInv
    BY InitInv
  <1>2. IInv /\ [Next]_oracleVars => IInv'
    BY NextInv
  <1> QED BY <1>1, <1>2, PTL DEF Spec

\* AC-003: no stored round ever reaches the quorum of the moment, however
\* the admin moves min_signatures.
THEOREM RoundsStayBelowQuorum == Spec => []RoundBelowQuorum
  <1>1. IInv => RoundBelowQuorum
    BY DEF IInv, QuorumInv
  <1> QED BY <1>1, Invariant, PTL

\* However validators come and go, and whatever list initialize was given,
\* the quorum exceeds the validators by no more than the entries it repeated.
THEOREM QuorumShortByRepeatsOnly == Spec => []QuorumWithinRepeats
  <1>1. IInv => QuorumWithinRepeats
    BY DEF IInv, QuorumInv
  <1> QED BY <1>1, Invariant, PTL

\* Where no list names a validator twice, a quorum can always be reached, as
\* execute_validator_change documents it.
THEOREM DistinctListsKeepQuorum ==
    ASSUME \A list \in InitLists :
             SumOver(list, ValidatorPool) = Cardinality({v \in ValidatorPool : list[v] > 0})
    PROVE  Spec => []QuorumAttainable
  <1> DEFINE NoRepeats == repeated = 0
  <1>1. Init => NoRepeats
    <2> SUFFICES ASSUME Init PROVE NoRepeats
      OBVIOUS
    <2>1. listed \in InitLists /\ repeated = ListLength - Cardinality(validators)
      BY DEF Init
    <2>2. ListLength = Cardinality(validators)
      BY <2>1 DEF ListLength, validators
    <2>3. Cardinality(validators) \in Nat
      BY PoolCounted DEF validators
    <2> QED BY <2>1, <2>2, <2>3
  <1>2. NoRepeats /\ [Next]_oracleVars => NoRepeats'
    <2>1. [Next]_oracleVars => repeated' = repeated
      BY DEF Next, RateStep, GovernanceStep, LedgerStep, oracleVars, governanceVars,
          listVars, UpdateRate, CastEmergencyVote, SetRateAdmin, SetEmergencyThreshold,
          SetMinSignatures, ScheduleValidatorChange, ExecuteAddition, ExecuteRemoval,
          CancelValidatorChange
    <2> QED BY <2>1
  <1>3. IInv /\ NoRepeats => QuorumAttainable
    <2> SUFFICES ASSUME IInv, NoRepeats PROVE QuorumAttainable
      OBVIOUS
    <2>1. minSigs <= Cardinality(validators) + 0 /\ Cardinality(validators) \in Nat
      BY PoolCounted DEF IInv, QuorumInv, QuorumWithinRepeats
    <2> QED BY <2>1 DEF QuorumAttainable
  <1> HIDE DEF NoRepeats
  <1> QED BY <1>1, <1>2, <1>3, Invariant, PTL DEF Spec

\* FIX #342: every validator behind a stored rate is a validator still.
THEOREM RatesHaveCurrentBackers == Spec => []BackersAuthorised
  <1>1. IInv => BackersAuthorised
    BY DEF IInv, QuorumInv
  <1> QED BY <1>1, Invariant, PTL

\* AC-027: what readers reject, validators may replace without an emergency,
\* whatever rate they pass: an unusable rate is stale by its ledger, or its
\* interval is over by the clock.
THEOREM UnusableIsRefreshable == Spec => []RefreshableWhenUnusable
  <1>1. ASSUME IInv, NEW c \in Currency, quotes[c].set,
               ~(LedgerFresh(quotes[c]) /\ CheckOracleFreshness(quotes[c].timestamp)),
               NEW r \in RateArgs
        PROVE  MayUpdate(c, r)
    <2>1. now \in Nat /\ quotes[c].timestamp \in Nat /\ UpdateInterval \in Nat
      BY <1>1, FeedAssumption DEF IInv, ClockInv
    <2>2. ~(LedgerFresh(quotes[c]) /\ now < quotes[c].timestamp + UpdateInterval)
      BY <1>1, <2>1 DEF CheckOracleFreshness
    <2> QED BY <2>2 DEF MayUpdate, WithinInterval
  <1>2. IInv => RefreshableWhenUnusable
    BY <1>1 DEF RefreshableWhenUnusable
  <1> QED BY <1>2, Invariant, PTL

-----------------------------------------------------------------------------
(* Types, and the refinement of the feed the other contracts read. *)

\* What is stored about a currency: rounds of what validators may submit.
TypeInv ==
    /\ quotes \in [Currency -> Quote]
    /\ threshold \in [Currency -> Int]
    /\ pendingChange \in [validator : ValidatorPool, add : BOOLEAN, eligibleAt : Nat]
                            \cup {NoChange}
    /\ \A c \in Currency :
         /\ submissions[c] \in [DOMAIN submissions[c] -> [rate : Aggregates, timestamp : Nat]]
         /\ votes[c] \in [DOMAIN votes[c] -> Nat]

\* A validator's sources come to an integer.
LEMMA AggregatesInt == Aggregates \subseteq Int
  <1> SUFFICES ASSUME NEW s \in SourceFeeds, Len(s) >= MinSourceFeeds
               PROVE  Aggregate(s) \in Int
    BY DEF Aggregates
  <1> DEFINE raw == Median(s)
             clean == {x \in DOMAIN s : CalculateDeviation(s[x], raw) <= OutlierThreshold}
             kept == [x \in clean |-> s[x]]
  <1>1. s \in Seq(Int) /\ Len(s) \in Nat /\ Len(s) >= 1
    BY OracleAssumption
  <1>2. DOMAIN s = 1 .. Len(s) /\ s \in [DOMAIN s -> Int] /\ DOMAIN s # {}
    <2>1. DOMAIN s = 1 .. Len(s) /\ s \in [DOMAIN s -> Int]
      BY <1>1
    <2>2. 1 \in 1 .. Len(s)
      BY <1>1
    <2> QED BY <2>1, <2>2
  <1>3. IsFiniteSet(DOMAIN s)
    <2>1. \A n \in Nat : IsFiniteSet(1 .. n)
      <3> SUFFICES ASSUME NEW n \in Nat PROVE IsFiniteSet(1 .. n)
        OBVIOUS
      <3>1. 1 \in Int /\ n \in Int
        OBVIOUS
      <3> QED BY <3>1, FS_Interval
    <2> QED BY <1>1, <1>2, <2>1
  <1>4. raw \in Int
    BY <1>2, <1>3, MedianInt
  <1>5. clean # {} => Median(kept) \in Int
    <2>1. IsFiniteSet(clean)
      BY <1>3, FS_Subset
    <2>2. kept \in [clean -> Int]
      BY <1>2
    <2> HIDE DEF clean, kept
    <2> QED BY <2>1, <2>2, MedianInt
  <1>6. Aggregate(s) = IF clean = {} THEN raw ELSE Median(kept)
    BY DEF Aggregate
  <1> HIDE DEF raw, clean, kept
  <1> QED BY <1>4, <1>5, <1>6

\* What EnoughSources lets through has sources enough.
LEMMA AcceptedAggregate ==
    ASSUME IInv, NEW s \in SourceFeeds, EnoughSources(s)
    PROVE  Aggregate(s) \in Aggregates
  <1>1. minSigs \in Nat /\ MinSourceFeeds \in Nat
    BY OracleAssumption DEF IInv, QuorumInv
  <1> DEFINE Bounds == {minSigs, MinSourceFeeds}
             most == minSigs + MinSourceFeeds
  <1>2. Bounds \in SUBSET (0 .. most) /\ most \in Nat /\ Bounds # {}
    BY <1>1
  <1>3. \A x \in Bounds : x <= Max(Bounds)
    <2> HIDE DEF Bounds, most
    <2> QED BY <1>2, LargestNatural
  <1>4. MinSourceFeeds <= Max(Bounds) /\ Max(Bounds) \in Nat
    <2>1. Max(Bounds) \in Bounds
      <3> HIDE DEF Bounds, most
      <3> QED BY <1>2, LargestNatural
    <2> QED BY <1>1, <1>3, <2>1
  <1>5. Len(s) >= Max(Bounds) /\ Len(s) \in Nat
    BY OracleAssumption DEF EnoughSources
  <1> HIDE DEF Bounds
  <1>6. Len(s) >= MinSourceFeeds
    BY <1>1, <1>4, <1>5
  <1> QED BY <1>6 DEF Aggregates

\* A round with a new submission maps validators to what they submitted.
LEMMA RoundTyped ==
    ASSUME IInv, TypeInv, NEW c \in Currency, NEW v \in validators, NEW r \in Aggregates
    PROVE  LET round == Round(c, v, r)
               sent == [w \in DOMAIN round |-> round[w].rate]
           IN  /\ round \in [DOMAIN round -> [rate : Aggregates, timestamp : Nat]]
               /\ Median(sent) \in Rates
  <1> DEFINE others == {w \in DOMAIN submissions[c] \ {v} :
                     w \in validators /\ now - submissions[c][w].timestamp <= SubmissionTtl}
             round == Round(c, v, r)
             sent == [w \in DOMAIN round |-> round[w].rate]
             Stamped == [rate : Aggregates, timestamp : Nat]
  <1>1. round = [w \in others \cup {v} |->
                   IF w = v THEN [rate |-> r, timestamp |-> now] ELSE submissions[c][w]]
    BY DEF Round
  <1>2. DOMAIN round = others \cup {v}
    BY <1>1
  <1>3. \A w \in others : submissions[c][w] \in Stamped
    BY DEF TypeInv
  <1>4. [rate |-> r, timestamp |-> now] \in Stamped
    BY DEF IInv, ClockInv
  <1> HIDE DEF others, Stamped
  <1>5. \A w \in DOMAIN round : round[w] \in Stamped
    BY <1>1, <1>2, <1>3, <1>4
  <1>6. round \in [DOMAIN round -> Stamped]
    BY <1>1, <1>2, <1>5
  <1>7. DOMAIN round \in (SUBSET ValidatorPool) \ {{}}
    <2>1. DOMAIN round \subseteq ValidatorPool /\ v \in DOMAIN round
      BY RoundShape
    <2> HIDE DEF round
    <2> QED BY <2>1
  <1> HIDE DEF round
  <1>8. sent \in [DOMAIN round -> Aggregates]
    BY <1>5 DEF Stamped
  <1> HIDE DEF sent
  <1>9. Median(sent) \in Rates
    BY <1>7, <1>8, RatesAssumption
  <1> QED BY <1>6, <1>9 DEF round, sent, Stamped

LEMMA PublishTyped ==
    ASSUME IInv, TypeInv, NEW c \in Currency, NEW r \in Rates, PublishRate(c, r)
    PROVE  quotes' \in [Currency -> Quote]
  <1>1. [rate |-> r, timestamp |-> now, ledger |-> ledger, set |-> TRUE] \in Quote
    BY DEF Quote, IInv, ClockInv
  <1> QED BY <1>1 DEF PublishRate, TypeInv

\* A map changed at one currency keeps its entries in their type.
LEMMA EmptyTyped == ASSUME NEW X PROVE Empty \in [DOMAIN Empty -> X]
  BY DEF Empty

LEMMA InitTyped == Init => TypeInv
  <1> SUFFICES ASSUME Init PROVE TypeInv
    OBVIOUS
  <1>1. quotes \in [Currency -> Quote] /\ threshold \in [Currency -> Int]
    BY OracleAssumption DEF Init, RateInit, Quote
  <1>2. \A c \in Currency : submissions[c] = Empty /\ votes[c] = Empty
    BY DEF Init
  <1>3. pendingChange = NoChange
    BY DEF Init
  <1> QED BY <1>1, <1>2, <1>3, EmptyTyped DEF TypeInv

LEMMA UpdateRateTyped ==
    ASSUME IInv, TypeInv, NEW v, NEW c \in Currency, NEW rate, NEW s \in SourceFeeds,
           UpdateRate(v, c, rate, s)
    PROVE  TypeInv' /\ ((\E r \in Rates : PublishRate(c, r)) \/ UNCHANGED rateVars)
  <1> DEFINE a == Aggregate(s)
             round == Round(c, v, a)
             sent == [w \in DOMAIN round |-> round[w].rate]
             Stamped == [rate : Aggregates, timestamp : Nat]
  <1>1. v \in validators /\ a \in Aggregates /\ UNCHANGED governanceVars
    BY AcceptedAggregate DEF UpdateRate
  <1>2. (~QuorumMet(round) /\ StoreRound(c, round)) \/ CommitRound(c, round)
    BY DEF UpdateRate
  <1> HIDE DEF a
  <1>3. round \in [DOMAIN round -> Stamped] /\ Median(sent) \in Rates
    BY <1>1, RoundTyped
  <1>4. CommitRound(c, round) => PublishRate(c, Median(sent))
    BY DEF CommitRound
  <1> HIDE DEF round, sent, Stamped
  <1>5. quotes' \in [Currency -> Quote]
        /\ ((\E r \in Rates : PublishRate(c, r)) \/ UNCHANGED rateVars)
    BY <1>2, <1>3, <1>4, PublishTyped DEF StoreRound, rateVars, TypeInv
  <1>6. \/ submissions' = [submissions EXCEPT ![c] = round]
        \/ submissions' = [submissions EXCEPT ![c] = Empty]
    BY <1>2 DEF StoreRound, CommitRound
  <1>7. \/ votes' = votes
        \/ votes' = [votes EXCEPT ![c] = Empty]
    BY <1>2 DEF StoreRound, CommitRound
  <1>8. \A d \in Currency : submissions'[d] \in [DOMAIN submissions'[d] -> Stamped]
    <2> TAKE d \in Currency
    <2>1. submissions'[d] = submissions[d] \/ submissions'[d] = round \/ submissions'[d] = Empty
      BY <1>6 DEF IInv, Shape
    <2>2. submissions[d] \in [DOMAIN submissions[d] -> Stamped]
      BY DEF TypeInv, Stamped
    <2>3. Empty \in [DOMAIN Empty -> Stamped]
      BY EmptyTyped
    <2> QED BY <1>3, <2>1, <2>2, <2>3
  <1>9. \A d \in Currency : votes'[d] \in [DOMAIN votes'[d] -> Nat]
    <2> TAKE d \in Currency
    <2>1. votes'[d] = votes[d] \/ votes'[d] = Empty
      BY <1>7 DEF IInv, Shape
    <2>2. votes[d] \in [DOMAIN votes[d] -> Nat] /\ Empty \in [DOMAIN Empty -> Nat]
      BY EmptyTyped DEF TypeInv
    <2> QED BY <2>1, <2>2
  <1>10. threshold' = threshold /\ pendingChange' = pendingChange
    BY <1>1 DEF governanceVars
  <1> QED BY <1>5, <1>8, <1>9, <1>10 DEF TypeInv, Stamped

LEMMA CastEmergencyVoteTyped ==
    ASSUME IInv, TypeInv, NEW v, NEW c \in Currency, CastEmergencyVote(v, c)
    PROVE  TypeInv' /\ UNCHANGED rateVars
  <1> DEFINE others == EmergencyVoters(c) \ {v}
             ballot == [w \in others \cup {v} |-> IF w = v THEN now ELSE votes[c][w]]
  <1>1. others \subseteq DOMAIN votes[c]
    BY DEF EmergencyVoters
  <1>2. ballot \in [DOMAIN ballot -> Nat]
    BY <1>1 DEF IInv, RoundInv, ClockInv
  <1>3. votes' = [votes EXCEPT ![c] = ballot]
        /\ UNCHANGED <<rateVars, submissions, backers, governanceVars>>
    BY DEF CastEmergencyVote
  <1> HIDE DEF ballot
  <1>4. \A d \in Currency : votes'[d] = votes[d] \/ votes'[d] = ballot
    BY <1>3 DEF IInv, Shape
  <1>5. \A d \in Currency : votes'[d] \in [DOMAIN votes'[d] -> Nat]
    <2> TAKE d \in Currency
    <2>1. votes[d] \in [DOMAIN votes[d] -> Nat]
      BY DEF TypeInv
    <2> QED BY <1>2, <1>4, <2>1
  <1> QED BY <1>3, <1>5 DEF TypeInv, rateVars, governanceVars

LEMMA GovernanceTyped ==
    ASSUME IInv, TypeInv, GovernanceStep
    PROVE  TypeInv' /\ (ClearRates \/ UNCHANGED rateVars)
  <1>1. ASSUME NEW c \in Currency, NEW bps \in Thresholds, SetEmergencyThreshold(c, bps)
        PROVE  TypeInv' /\ UNCHANGED rateVars
    <2>1. bps \in Int /\ DefaultThreshold \in Int
      BY OracleAssumption
    <2>2. threshold' \in [Currency -> Int]
      BY <1>1, <2>1 DEF SetEmergencyThreshold, TypeInv
    <2> QED BY <1>1, <2>2 DEF SetEmergencyThreshold, rateVars, consensusVars, TypeInv
  <1>2. ASSUME NEW n, SetMinSignatures(n)
        PROVE  TypeInv' /\ UNCHANGED rateVars
    <2>1. \A c \in Currency : submissions'[c] = Empty /\ votes'[c] = Empty
      BY <1>2 DEF SetMinSignatures
    <2> QED BY <1>2, <2>1, EmptyTyped DEF SetMinSignatures, rateVars, TypeInv
  <1>3. ASSUME NEW v \in ValidatorPool, NEW add \in BOOLEAN, ScheduleValidatorChange(v, add)
        PROVE  TypeInv' /\ UNCHANGED rateVars
    <2>1. now + AdminTimelock \in Nat
      BY OracleAssumption DEF IInv, ClockInv
    <2> QED BY <1>3, <2>1 DEF ScheduleValidatorChange, rateVars, consensusVars, TypeInv
  <1>4. ASSUME CancelValidatorChange \/ ExecuteAddition
        PROVE  TypeInv' /\ UNCHANGED rateVars
    BY <1>4 DEF CancelValidatorChange, ExecuteAddition, rateVars, consensusVars, TypeInv
  <1>5. ASSUME ExecuteRemoval
        PROVE  TypeInv' /\ ClearRates
    <2>1. ClearRates /\ quotes' \in [Currency -> Quote]
      BY <1>5 DEF ExecuteRemoval, ClearRates, Quote
    <2> QED BY <1>5, <2>1 DEF ExecuteRemoval, TypeInv
  <1> QED BY <1>1, <1>2, <1>3, <1>4, <1>5 DEF GovernanceStep

\* Every step keeps the types, and is a step of the feed or none.
LEMMA NextTyped ==
    ASSUME IInv, TypeInv, [Next]_oracleVars
    PROVE  TypeInv' /\ [FeedNext]_rateVars
  <1>1. ASSUME NEW c \in Currency, NEW rate \in AdminRates, SetRateAdmin(c, rate)
        PROVE  TypeInv' /\ FeedNext
    <2>1. rate \in Rates /\ PublishRate(c, rate)
      BY <1>1, RatesAssumption DEF SetRateAdmin
    <2>2. quotes' \in [Currency -> Quote]
      BY <2>1, PublishTyped
    <2> QED BY <1>1, <2>1, <2>2 DEF SetRateAdmin, governanceVars, TypeInv, FeedNext
  <1>2. CASE RateStep
    <2>1. PICK c \in Currency :
            \/ \E v \in ValidatorPool, r \in RateArgs, s \in SourceFeeds :
                  UpdateRate(v, c, r, s)
            \/ \E v \in ValidatorPool : CastEmergencyVote(v, c)
            \/ \E r \in AdminRates : SetRateAdmin(c, r)
      BY <1>2 DEF RateStep
    <2>2. CASE \E v \in ValidatorPool, r \in RateArgs, s \in SourceFeeds : UpdateRate(v, c, r, s)
      BY <2>2, UpdateRateTyped DEF FeedNext
    <2>3. CASE \E v \in ValidatorPool : CastEmergencyVote(v, c)
      BY <2>3, CastEmergencyVoteTyped
    <2>4. CASE \E r \in AdminRates : SetRateAdmin(c, r)
      BY <2>4, <1>1
    <2> QED BY <2>1, <2>2, <2>3, <2>4
  <1>3. CASE GovernanceStep
    BY <1>3, GovernanceTyped DEF FeedNext
  <1>4. CASE LedgerStep
    <2>1. UNCHANGED <<quotes, submissions, votes, threshold, pendingChange>> /\ LedgerClose
      BY <1>4 DEF LedgerStep, LedgerClose, consensusVars, governanceVars
    <2> QED BY <2>1 DEF TypeInv, FeedNext
  <1>5. CASE UNCHANGED oracleVars
    BY <1>5 DEF oracleVars, rateVars, consensusVars, governanceVars, TypeInv
  <1> QED BY <1>2, <1>3, <1>4, <1>5 DEF Next

LEMMA TypesKept == Spec => [](IInv /\ TypeInv)
  <1>1. Init => IInv /\ TypeInv
    BY InitInv, InitTyped
  <1>2. (IInv /\ TypeInv) /\ [Next]_oracleVars => (IInv /\ TypeInv)'
    BY NextInv, NextTyped
  <1> QED BY <1>1, <1>2, PTL DEF Spec

\* Every stored rate, round, ballot and scheduled change is well typed; what
\* validators submit is an integer whatever their sources are.
THEOREM OracleTypeCorrect == Spec => []OracleTypeOK
  <1>1. ASSUME IInv, TypeInv PROVE OracleTypeOK
    <2>1. RateTypeOK
      BY <1>1 DEF IInv, ClockInv, TypeInv, RateTypeOK
    <2>2. ASSUME NEW c \in Currency
          PROVE  /\ \E S \in SUBSET ValidatorPool : submissions[c] \in [S -> Submission]
                 /\ \E S \in SUBSET ValidatorPool : votes[c] \in [S -> Nat]
                 /\ backers[c] \subseteq ValidatorPool
                 /\ threshold[c] \in Int
      <3>1. /\ DOMAIN submissions[c] \in SUBSET ValidatorPool
            /\ DOMAIN votes[c] \in SUBSET ValidatorPool
        BY <1>1 DEF IInv, RoundInv
      <3>2. submissions[c] \in [DOMAIN submissions[c] -> [rate : Aggregates, timestamp : Nat]]
        BY <1>1 DEF TypeInv
      <3>3. [rate : Aggregates, timestamp : Nat] \subseteq Submission
        BY AggregatesInt DEF Submission
      <3>4. submissions[c] \in [DOMAIN submissions[c] -> Submission]
        BY <3>2, <3>3
      <3>5. votes[c] \in [DOMAIN votes[c] -> Nat] /\ threshold[c] \in Int
        BY <1>1 DEF TypeInv
      <3>6. backers[c] \subseteq ValidatorPool
        BY <1>1 DEF IInv, QuorumInv, BackersAuthorised
      <3> QED BY <3>1, <3>4, <3>5, <3>6
    <2>3. /\ listed \in [ValidatorPool -> Nat] /\ repeated \in Nat
          /\ minSigs \in Nat \ {0}
      BY <1>1 DEF IInv, QuorumInv, ListInv
    <2> QED BY <1>1, <2>1, <2>2, <2>3 DEF OracleTypeOK, TypeInv
  <1>2. IInv /\ TypeInv => OracleTypeOK
    BY <1>1
  <1> QED BY <1>2, TypesKept, PTL

\* The oracle implements the feed its readers rely on: a quote only changes
\* by a publication stamped with both clocks of the moment or by a wipe.
THEOREM OracleImplementsFeed == Spec => FeedSpec
  <1>1. Init => RateInit
    BY DEF Init
  <1>2. (IInv /\ TypeInv) /\ [Next]_oracleVars => [FeedNext]_rateVars
    BY NextTyped
  <1> QED BY <1>1, <1>2, TypesKept, PTL DEF Spec, FeedSpec

\* Where no source is below zero the rates may be all naturals: then
\* RatesAssumption asks nothing of the feeds.
THEOREM MediansOfNaturals ==
    ASSUME NEW D, IsFiniteSet(D), D # {}, NEW f \in [D -> Nat]
    PROVE  Median(f) \in Nat
  <1>1. f \in [D -> Int]
    OBVIOUS
  <1>2. PICK u \in D : \A x \in D : f[x] <= f[u]
    BY <1>1, LargestAt
  <1>3. \A x \in D : f[x] \in 0 .. f[u]
    BY <1>2
  <1>4. Median(f) \in 0 .. f[u]
    <2>1. 0 \in Int /\ f[u] \in Int
      OBVIOUS
    <2> QED BY <1>1, <1>3, <2>1, MedianWithin
  <1> QED BY <1>4

-----------------------------------------------------------------------------
(* Action properties. *)

\* Only a commit or the override of c replaces the rate of c.
LEMMA WhoReplaces ==
    ASSUME IInv, [Next]_oracleVars, NEW c \in Currency, Replaced(c)
    PROVE  \/ \E v \in validators, rate \in RateArgs : \E r :
                 MayUpdate(c, rate) /\ QuorumMet(Round(c, v, r))
                 /\ CommitRound(c, Round(c, v, r))
           \/ \E r : SetRateAdmin(c, r)
  <1>1. quotes' # quotes /\ quotes'[c] # quotes[c] /\ quotes'[c].set
    BY DEF Replaced
  <1>2. ASSUME NEW d \in Currency, NEW r, PublishRate(d, r)
        PROVE  d = c
    BY <1>1, <1>2 DEF PublishRate, IInv, Shape
  <1>3. ~LedgerStep /\ UNCHANGED oracleVars => FALSE
    BY <1>1 DEF oracleVars, rateVars
  <1>4. ~LedgerStep
    BY <1>1 DEF LedgerStep, LedgerClose
  <1>5. ~GovernanceStep
    <2>1. ~ExecuteRemoval
      BY <1>1 DEF ExecuteRemoval, ClearRates, NoQuote
    <2> QED BY <1>1, <2>1 DEF GovernanceStep, SetEmergencyThreshold, SetMinSignatures,
          ScheduleValidatorChange, ExecuteAddition, CancelValidatorChange, rateVars
  <1>6. RateStep
    BY <1>3, <1>4, <1>5 DEF Next
  <1>7. ASSUME NEW d \in Currency, NEW v \in ValidatorPool, NEW rate \in RateArgs,
               NEW s \in SourceFeeds, UpdateRate(v, d, rate, s)
        PROVE  \E w \in validators, q \in RateArgs : \E r :
                 MayUpdate(c, q) /\ QuorumMet(Round(c, w, r))
                 /\ CommitRound(c, Round(c, w, r))
    <2> DEFINE round == Round(d, v, Aggregate(s))
    <2>1. QuorumMet(round) /\ CommitRound(d, round)
      BY <1>1, <1>7 DEF UpdateRate, StoreRound, rateVars
    <2>2. d = c
      BY <1>2, <2>1 DEF CommitRound
    <2> QED BY <1>7, <2>1, <2>2 DEF UpdateRate
  <1>8. ASSUME NEW d \in Currency, NEW v \in ValidatorPool, CastEmergencyVote(v, d)
        PROVE  FALSE
    BY <1>1, <1>8 DEF CastEmergencyVote, rateVars
  <1>9. ASSUME NEW d \in Currency, NEW r \in AdminRates, SetRateAdmin(d, r)
        PROVE  \E q : SetRateAdmin(c, q)
    BY <1>2, <1>9 DEF SetRateAdmin
  <1> QED BY <1>6, <1>7, <1>8, <1>9 DEF RateStep

\* When a rate may be replaced, everything that still counts towards a
\* round is younger than it: by the interval, the cooldown or the age in
\* ledgers, which is at most the age in seconds.
LEMMA OldEnough ==
    ASSUME IInv, NEW c \in Currency, NEW rate, MayUpdate(c, rate), quotes[c].set
    PROVE  quotes[c].timestamp + SubmissionTtl <= now
  <1>1. /\ quotes[c].timestamp \in Nat /\ quotes[c].ledger \in Nat
        /\ now \in Nat /\ ledger \in Nat
        /\ ledger - quotes[c].ledger <= now - quotes[c].timestamp
    BY DEF IInv, ClockInv
  <1>2. /\ SubmissionTtl \in Nat /\ Cooldown \in Nat
        /\ UpdateInterval \in Nat /\ StaleLedgers \in Nat
        /\ SubmissionTtl <= Cooldown /\ Cooldown <= UpdateInterval
        /\ SubmissionTtl <= StaleLedgers
    BY OracleAssumption, FeedAssumption
  <1>3. \/ now >= quotes[c].timestamp + UpdateInterval
        \/ ledger - quotes[c].ledger > StaleLedgers
        \/ now >= quotes[c].timestamp + Cooldown
    BY <1>1, <1>2 DEF MayUpdate, WithinInterval, LedgerFresh
  <1> QED BY <1>1, <1>2, <1>3

\* AC-003: a rate validators commit is backed by a quorum of current
\* validators, none of whose submissions carries over from before the rate
\* it replaces.
THEOREM CommitsAreBacked == Spec => CommitBacked
  <1> DEFINE Backed(c) ==
        /\ backers'[c] \subseteq validators
        /\ Cardinality(backers'[c]) >= minSigs
        /\ \E v \in backers'[c] : \A w \in backers'[c] \ {v} :
             /\ w \in DOMAIN submissions[c]
             /\ quotes[c].set => submissions[c][w].timestamp >= quotes[c].timestamp
  <1>1. ASSUME IInv, [Next]_oracleVars, NEW c \in Currency, Replaced(c), backers'[c] # {}
        PROVE  Backed(c)
    <2>1. ~\E r : SetRateAdmin(c, r)
      BY <1>1 DEF SetRateAdmin, IInv, Shape
    <2>0. PICK v \in validators, rate \in RateArgs : \E r :
              MayUpdate(c, rate) /\ QuorumMet(Round(c, v, r))
              /\ CommitRound(c, Round(c, v, r))
      BY <1>1, <2>1, WhoReplaces
    <2>2. PICK r :
              MayUpdate(c, rate) /\ QuorumMet(Round(c, v, r))
              /\ CommitRound(c, Round(c, v, r))
      BY <2>0
    <2> DEFINE round == Round(c, v, r)
    <2>3. /\ DOMAIN round \subseteq validators
          /\ v \in DOMAIN round
          /\ \A w \in DOMAIN round \ {v} :
               /\ w \in DOMAIN submissions[c]
               /\ now - submissions[c][w].timestamp <= SubmissionTtl
      BY <1>1, RoundShape
    <2>4. backers'[c] = DOMAIN round
      BY <1>1, <2>2 DEF CommitRound, IInv, Shape
    <2>5. Cardinality(DOMAIN round) >= minSigs
      BY <2>2 DEF QuorumMet
    <2> HIDE DEF round
    <2>6. ASSUME NEW w \in DOMAIN round \ {v}, quotes[c].set
          PROVE  submissions[c][w].timestamp >= quotes[c].timestamp
      <3>1. quotes[c].timestamp + SubmissionTtl <= now
        BY <1>1, <2>2, <2>6, OldEnough
      <3>2. /\ now - submissions[c][w].timestamp <= SubmissionTtl
            /\ submissions[c][w].timestamp \in Nat
        BY <1>1, <2>3, <2>6 DEF IInv, RoundInv
      <3>3. now \in Nat /\ quotes[c].timestamp \in Nat /\ SubmissionTtl \in Nat
        BY <1>1, OracleAssumption DEF IInv, ClockInv
      <3> QED BY <3>1, <3>2, <3>3
    <2> QED BY <2>3, <2>4, <2>5, <2>6
  <1>2. IInv /\ [Next]_oracleVars =>
          [\A c \in Currency : (Replaced(c) /\ backers'[c] # {}) => Backed(c)]_oracleVars
    BY <1>1
  <1> QED BY <1>2, Invariant, PTL DEF Spec, CommitBacked

\* SC-025, AC-029: within its interval a rate is replaced after the cooldown
\* only, and by a quorum of votes cast since it was stored.
THEOREM EmergenciesAreVotedAnew == Spec => EmergencyVotesPostdateRate
  <1> DEFINE Since(c) == {v \in DOMAIN votes[c] : votes[c][v] >= quotes[c].timestamp}
  <1>1. ASSUME IInv, [Next]_oracleVars, NEW c \in Currency, Replaced(c), WithinInterval(c)
        PROVE  now >= quotes[c].timestamp + Cooldown /\ Cardinality(Since(c)) >= minSigs
    <2>1. /\ now \in Nat /\ quotes[c].timestamp \in Nat /\ quotes[c].set
          /\ VoteTtl \in Nat /\ Cooldown \in Nat /\ VoteTtl <= Cooldown
          /\ UpdateInterval \in Nat /\ minSigs \in Nat
      BY <1>1, OracleAssumption, FeedAssumption
         DEF IInv, ClockInv, QuorumInv, WithinInterval
    <2>2. ~\E r : SetRateAdmin(c, r)
      BY <1>1, <2>1 DEF SetRateAdmin, WithinInterval
    <2>3. PICK rate \in RateArgs : MayUpdate(c, rate)
      BY <1>1, <2>2, WhoReplaces
    <2>4. /\ now >= quotes[c].timestamp + Cooldown
          /\ Cardinality(EmergencyVoters(c)) >= minSigs
      BY <1>1, <2>3 DEF MayUpdate
    <2>5. EmergencyVoters(c) \subseteq Since(c)
      <3>1. ASSUME NEW v \in EmergencyVoters(c) PROVE votes[c][v] >= quotes[c].timestamp
        <4>1. v \in DOMAIN votes[c] /\ votes[c][v] \in Nat /\ now - votes[c][v] <= VoteTtl
          BY <1>1, <3>1 DEF EmergencyVoters, IInv, RoundInv
        <4> QED BY <2>1, <2>4, <4>1
      <3> QED BY <3>1 DEF EmergencyVoters
    <2>6. Since(c) \subseteq ValidatorPool
      BY <1>1 DEF IInv, RoundInv
    <2> HIDE DEF Since
    <2>7. /\ Cardinality(EmergencyVoters(c)) <= Cardinality(Since(c))
          /\ Cardinality(EmergencyVoters(c)) \in Nat /\ Cardinality(Since(c)) \in Nat
      BY <2>5, <2>6, PoolCounted, FS_Subset
    <2> QED BY <2>1, <2>4, <2>7
  <1>2. IInv /\ [Next]_oracleVars =>
          [\A c \in Currency : (Replaced(c) /\ WithinInterval(c)) =>
            /\ now >= quotes[c].timestamp + Cooldown
            /\ Cardinality({v \in DOMAIN votes[c] : votes[c][v] >= quotes[c].timestamp})
                 >= minSigs]_oracleVars
    BY <1>1
  <1> QED BY <1>2, Invariant, PTL DEF Spec, EmergencyVotesPostdateRate

-----------------------------------------------------------------------------
(* The median by selection: what holds of Quickselect!SelectSpec. *)

\* Two vectors hold the same values, each as often.
Hits(f, S) == {x \in DOMAIN f : f[x] \in S}
SameBag(f, g) ==
    /\ Range(f) = Range(g)
    /\ \A S \in SUBSET Int : Cardinality(Hits(f, S)) = Cardinality(Hits(g, S))

Exchanged(f, a, b) == [f EXCEPT ![a] = f[b], ![b] = f[a]]

-----------------------------------------------------------------------------
(* Bags and ranks. *)

\* Exchanging two elements maps the places of every value one to one.
LEMMA SwapKeepsHits ==
    ASSUME NEW D, IsFiniteSet(D), NEW f \in [D -> Int], NEW a \in D, NEW b \in D,
           NEW S
    PROVE  Cardinality(Hits(Exchanged(f, a, b), S)) = Cardinality(Hits(f, S))
  <1> DEFINE g == Exchanged(f, a, b)
             other(x) == IF x = a THEN b ELSE IF x = b THEN a ELSE x
             T == Hits(f, S)
             U == Hits(g, S)
             swap == [x \in T |-> other(x)]
  <1>1. DOMAIN g = D /\ \A x \in D : g[x] = f[other(x)]
    BY DEF Exchanged
  <1>2. \A x \in D : other(x) \in D /\ other(other(x)) = x
    OBVIOUS
  <1>3. \A x \in D : x \in T <=> f[x] \in S
    BY DEF Hits
  <1>4. \A x \in D : x \in U <=> f[other(x)] \in S
    BY <1>1 DEF Hits
  <1>5. T \subseteq D /\ U \subseteq D
    BY <1>1 DEF Hits
  <1> HIDE DEF g, other, T, U
  <1>6. \A x \in T : other(x) \in U
    BY <1>2, <1>3, <1>4, <1>5
  <1>7. \A y \in U : other(y) \in T /\ other(other(y)) = y
    BY <1>2, <1>3, <1>4, <1>5
  <1>8. swap \in [T -> U]
    BY <1>6
  <1>9. \A x, y \in T : swap[x] = swap[y] => x = y
    <2>1. ASSUME NEW x \in T, NEW y \in T, swap[x] = swap[y] PROVE x = y
      <3>1. other(x) = other(y)
        BY <2>1
      <3> QED BY <1>2, <1>5, <3>1
    <2> QED BY <2>1
  <1>10. \A y \in U : \E x \in T : swap[x] = y
    BY <1>7
  <1>11. swap \in Bijection(T, U)
    BY <1>8, <1>9, <1>10 DEF Bijection, Injection, Surjection, IsInjective
  <1>12. IsFiniteSet(T)
    BY <1>5, FS_Subset
  <1> QED BY <1>11, <1>12, FS_Bijection DEF ExistsBijection, T, U, g

\* So a swap keeps the bag.
LEMMA SwapKeepsBag ==
    ASSUME NEW D, IsFiniteSet(D), NEW f \in [D -> Int], NEW a \in D, NEW b \in D
    PROVE  SameBag(Exchanged(f, a, b), f)
  <1> DEFINE g == Exchanged(f, a, b)
  <1>1. g \in [D -> Int]
    BY DEF Exchanged
  <1>2. \A x \in D : \E y \in D : g[x] = f[y]
    BY DEF Exchanged
  <1>3. \A x \in D : \E y \in D : g[y] = f[x]
    <2>1. ASSUME NEW x \in D PROVE \E y \in D : g[y] = f[x]
      <3>1. CASE x = a
        <4>1. g[b] = f[x]
          BY <3>1 DEF Exchanged
        <4> QED BY <4>1
      <3>2. CASE x = b
        <4>1. g[a] = f[x]
          BY <3>2 DEF Exchanged
        <4> QED BY <4>1
      <3>3. CASE x # a /\ x # b
        <4>1. g[x] = f[x]
          BY <3>3 DEF Exchanged
        <4> QED BY <4>1
      <3> QED BY <3>1, <3>2, <3>3
    <2> QED BY <2>1
  <1>4. ASSUME NEW S PROVE Cardinality(Hits(g, S)) = Cardinality(Hits(f, S))
    BY SwapKeepsHits
  <1> HIDE DEF g
  <1>5. Range(g) = Range(f)
    <2>1. DOMAIN g = D /\ DOMAIN f = D
      BY <1>1
    <2>2. \A y : y \in Range(g) <=> \E x \in D : y = g[x]
      BY <2>1 DEF Range
    <2>3. \A y : y \in Range(f) <=> \E x \in D : y = f[x]
      BY <2>1 DEF Range
    <2>4. \A y : y \in Range(g) <=> y \in Range(f)
      BY <1>2, <1>3, <2>2, <2>3
    <2> QED BY <2>4
  <1> QED BY <1>4, <1>5 DEF SameBag, g

\* A value with fewer than k values below it and at least k up to it is the
\* k-th smallest, of any vector with the same bag.
LEMMA KthOfBag ==
    ASSUME NEW D, IsFiniteSet(D), NEW f \in [D -> Int], NEW g \in [D -> Int], SameBag(f, g),
           NEW k \in Nat, NEW v \in Range(f),
           NEW below, below = {x \in D : f[x] < v}, Cardinality(below) < k,
           NEW upTo, upTo = {x \in D : f[x] <= v}, Cardinality(upTo) >= k
    PROVE  KthSmallest(g, k) = v
  <1> DEFINE Below(w) == {x \in D : g[x] < w}
             UpTo(w) == {x \in D : g[x] <= w}
             IsKth(w) == Cardinality(Below(w)) < k /\ Cardinality(UpTo(w)) >= k
  <1>1. v \in Int /\ Range(g) \subseteq Int /\ v \in Range(g)
    BY DEF Range, SameBag
  <1>2. ASSUME NEW S \in SUBSET Int
        PROVE  Cardinality({x \in D : f[x] \in S}) = Cardinality({x \in D : g[x] \in S})
    <2>1. Hits(f, S) = {x \in D : f[x] \in S} /\ Hits(g, S) = {x \in D : g[x] \in S}
      BY DEF Hits
    <2> QED BY <2>1 DEF SameBag
  <1>3. Cardinality(Below(v)) < k
    <2> DEFINE S == {u \in Int : u < v}
    <2>1. {x \in D : f[x] \in S} = {x \in D : f[x] < v}
      OBVIOUS
    <2>2. {x \in D : g[x] \in S} = Below(v)
      OBVIOUS
    <2>3. S \in SUBSET Int
      OBVIOUS
    <2> HIDE DEF S, Below
    <2> QED BY <1>2, <2>1, <2>2, <2>3
  <1>4. Cardinality(UpTo(v)) >= k
    <2> DEFINE S == {u \in Int : u <= v}
    <2>1. {x \in D : f[x] \in S} = {x \in D : f[x] <= v}
      OBVIOUS
    <2>2. {x \in D : g[x] \in S} = UpTo(v)
      OBVIOUS
    <2>3. S \in SUBSET Int
      OBVIOUS
    <2> HIDE DEF S, UpTo
    <2> QED BY <1>2, <2>1, <2>2, <2>3
  <1>5. ASSUME NEW u \in Int, NEW w \in Int, u < w, IsKth(u), IsKth(w)
        PROVE  FALSE
    <2>1. UpTo(u) \subseteq Below(w)
      BY <1>5
    <2>2. Below(w) \subseteq D
      OBVIOUS
    <2> HIDE DEF UpTo, Below
    <2>3. IsFiniteSet(Below(w)) /\ Cardinality(Below(w)) \in Nat
      BY <2>2, FS_Subset, FS_CardinalityType
    <2>4. Cardinality(UpTo(u)) <= Cardinality(Below(w)) /\ Cardinality(UpTo(u)) \in Nat
      BY <2>1, <2>3, FS_Subset, FS_CardinalityType
    <2> QED BY <1>5, <2>3, <2>4
  <1>6. KthSmallest(g, k) = CHOOSE w \in Range(g) : IsKth(w)
    BY DEF KthSmallest
  <1> HIDE DEF Below, UpTo, IsKth
  <1>7. IsKth(v)
    BY <1>3, <1>4 DEF IsKth
  <1>8. KthSmallest(g, k) \in Range(g) /\ IsKth(KthSmallest(g, k))
    BY <1>1, <1>6, <1>7
  <1>9. KthSmallest(g, k) \in Int
    BY <1>1, <1>8
  <1> QED BY <1>1, <1>5, <1>7, <1>8, <1>9

\* There are n numbers below n.
LEMMA Places ==
    ASSUME NEW n \in Nat
    PROVE  IsFiniteSet(0 .. n - 1) /\ Cardinality(0 .. n - 1) = n
  <1>1. 0 \in Int /\ n - 1 \in Int
    OBVIOUS
  <1>2. /\ IsFiniteSet(0 .. n - 1)
        /\ Cardinality(0 .. n - 1) = IF 0 > n - 1 THEN 0 ELSE (n - 1) - 0 + 1
    BY <1>1, FS_Interval
  <1> QED BY <1>2

\* A value between what is before it and what is after it has its rank.
LEMMA SettledIsKth ==
    ASSUME NEW n \in Nat, NEW f \in [0 .. n - 1 -> Int], NEW g \in [0 .. n - 1 -> Int],
           SameBag(f, g), NEW r \in 0 .. n - 1,
           \A a \in 0 .. n - 1 : /\ a < r => f[a] <= f[r]
                                 /\ r < a => f[r] <= f[a]
    PROVE  KthSmallest(g, r + 1) = f[r]
  <1> DEFINE D == 0 .. n - 1
             below == {x \in D : f[x] < f[r]}
             upTo == {x \in D : f[x] <= f[r]}
  <1>1. IsFiniteSet(D)
    BY Places
  <1>2. IsFiniteSet(0 .. r - 1) /\ Cardinality(0 .. r - 1) = r
    BY Places
  <1>3. Cardinality(0 .. r) = r + 1
    <2>1. r + 1 \in Nat /\ 0 .. r = 0 .. (r + 1) - 1
      OBVIOUS
    <2> QED BY <2>1, Places
  <1>4. below \subseteq 0 .. r - 1
    OBVIOUS
  <1>5. 0 .. r \subseteq upTo
    OBVIOUS
  <1>6. f[r] \in Range(f)
    BY DEF Range
  <1>7. upTo \subseteq D /\ r + 1 \in Nat /\ r \in Nat
    OBVIOUS
  <1>8. Cardinality(below) < r + 1
    <2> HIDE DEF below
    <2>1. IsFiniteSet(below) /\ Cardinality(below) <= Cardinality(0 .. r - 1)
      BY <1>2, <1>4, FS_Subset
    <2>2. Cardinality(below) \in Nat
      BY <2>1, FS_CardinalityType
    <2> QED BY <1>2, <1>7, <2>1, <2>2
  <1>9. Cardinality(upTo) >= r + 1
    <2> HIDE DEF upTo, D
    <2>1. IsFiniteSet(upTo)
      BY <1>1, <1>7, FS_Subset
    <2>2. Cardinality(upTo) >= Cardinality(0 .. r)
      <3>1. Cardinality(0 .. r) <= Cardinality(upTo)
        BY <1>5, <2>1, FS_Subset
      <3>2. Cardinality(upTo) \in Nat
        BY <2>1, FS_CardinalityType
      <3> QED BY <1>3, <1>7, <3>1, <3>2
    <2> QED BY <1>3, <2>2
  <1>10. f \in [D -> Int] /\ g \in [D -> Int]
    OBVIOUS
  <1>11. below = {x \in D : f[x] < f[r]} /\ upTo = {x \in D : f[x] <= f[r]}
    OBVIOUS
  <1> HIDE DEF D, below, upTo
  <1> QED BY <1>1, <1>6, <1>7, <1>8, <1>9, <1>10, <1>11, KthOfBag

-----------------------------------------------------------------------------
(* The inductive invariant. *)

SelectShape ==
    /\ Size \in Nat \ {0}
    /\ DOMAIN values = 0 .. Size - 1
    /\ values \in [0 .. Size - 1 -> Int] /\ original \in [0 .. Size - 1 -> Int]
    /\ SameBag(values, original)
    /\ rank = Mid \/ (EvenSize /\ rank = Mid - 1)
    /\ left \in Int /\ right \in Int /\ i \in Int /\ j \in Int
    /\ pc \in {"select", "partition", "selected", "done"}

\* The window is inside the vector, holds the rank, and is no smaller than
\* what is before it and no larger than what is after it.
Bracketed ==
    /\ 0 <= left /\ left <= rank /\ rank <= right /\ right <= Size - 1
    /\ \A a, b \in 0 .. Size - 1 :
         (a < left /\ left <= b) \/ (a <= right /\ right < b) => values[a] <= values[b]

\* The value at the rank is the one the rank asks for.
Settled ==
    \A a \in 0 .. Size - 1 : /\ a < rank => values[a] <= values[rank]
                             /\ rank < a => values[rank] <= values[a]

\* The lower middle value of a vector of even length is kept.
LowerKept == (EvenSize /\ rank = Mid) => val1 = KthSmallest(original, Mid)

SelectInv ==
    /\ SelectShape
    /\ pc \in {"select", "partition"} => Bracketed
    /\ PartitionSplit
    /\ pc = "selected" => Settled
    /\ LowerKept
    /\ MedianCorrect

\* The length decides which elements are in the middle.
LEMMA Middle ==
    ASSUME Size \in Nat \ {0}
    PROVE  /\ Mid \in 0 .. Size - 1
           /\ EvenSize => Mid - 1 \in 0 .. Size - 1
  <1> DEFINE n == Size
  <1>1. n \in Nat \ {0}
    OBVIOUS
  <1> HIDE DEF n
  <1>2. n \div 2 \in 0 .. n - 1 /\ (n % 2 = 0 => n \div 2 - 1 \in 0 .. n - 1)
    BY <1>1
  <1> QED BY <1>2 DEF Mid, EvenSize, n

\* A vector that keeps its places keeps its length.
LEMMA LengthKept ==
    ASSUME DOMAIN values' = DOMAIN values
    PROVE  UNCHANGED <<Size, Mid, EvenSize>>
  BY DEF Size, Mid, EvenSize

LEMMA SelectInitInv == SelectInit => SelectInv
  <1> SUFFICES ASSUME SelectInit PROVE SelectInv
    OBVIOUS
  <1>1. PICK n \in 1 .. MaxLength : original \in [0 .. n - 1 -> Numbers]
    BY DEF SelectInit
  <1>2. n \in Nat \ {0}
    BY <1>1, QuickselectAssumption
  <1>3. Size = n
    BY <1>1, <1>2, FS_Interval DEF SelectInit, Size
  <1>4. /\ DOMAIN values = 0 .. Size - 1
        /\ values \in [0 .. Size - 1 -> Int] /\ original \in [0 .. Size - 1 -> Int]
    BY <1>1, <1>3, QuickselectAssumption DEF SelectInit
  <1>5. SameBag(values, original)
    BY DEF SelectInit, SameBag
  <1>6. SelectShape
    BY <1>2, <1>3, <1>4, <1>5, Middle DEF SelectInit, SelectShape
  <1>7. Bracketed
    <2>1. rank \in 0 .. Size - 1
      BY <1>2, <1>3, Middle DEF SelectInit
    <2> QED BY <1>2, <1>3, <2>1 DEF SelectInit, Bracketed
  <1>8. LowerKept
    <2>1. EvenSize => rank # Mid
      BY <1>2, <1>3, Middle DEF SelectInit
    <2> QED BY <2>1 DEF LowerKept
  <1> QED BY <1>6, <1>7, <1>8 DEF SelectInit, SelectInv, PartitionSplit, MedianCorrect

-----------------------------------------------------------------------------
(* Every step keeps the invariant. *)

\* A swap inside the vector keeps its length and its bag.
LEMMA SwapKeepsShape ==
    ASSUME SelectShape, NEW a \in 0 .. Size - 1, NEW b \in 0 .. Size - 1,
           values' = Swapped(a, b), UNCHANGED original
    PROVE  /\ UNCHANGED <<Size, Mid, EvenSize>>
           /\ DOMAIN values' = 0 .. Size - 1
           /\ values' \in [0 .. Size - 1 -> Int]
           /\ SameBag(values', original')
           /\ \A x \in 0 .. Size - 1 :
                values'[x] = IF x = a THEN values[b] ELSE IF x = b THEN values[a] ELSE values[x]
  <1> DEFINE D == 0 .. Size - 1
  <1>1. values \in [D -> Int]
    BY DEF SelectShape
  <1>2. values' = Exchanged(values, a, b)
    BY DEF Swapped, Exchanged
  <1>3. IsFiniteSet(D)
    BY Places DEF SelectShape
  <1> HIDE DEF D
  <1>4. /\ DOMAIN values' = D /\ values' \in [D -> Int]
        /\ \A x \in D : values'[x] = IF x = a THEN values[b]
                                     ELSE IF x = b THEN values[a] ELSE values[x]
    BY <1>1 DEF Swapped, D
  <1>5. SameBag(values', values)
    <2>1. SameBag(Exchanged(values, a, b), values)
      BY <1>1, <1>3, SwapKeepsBag DEF D
    <2> QED BY <1>2, <2>1
  <1>6. SameBag(values', original')
    BY <1>5 DEF SelectShape, SameBag
  <1>7. UNCHANGED <<Size, Mid, EvenSize>>
    BY <1>1, <1>4, LengthKept
  <1> QED BY <1>4, <1>6, <1>7 DEF D

\* A partition starts with nothing scanned.
LEMMA StartPartitionInv ==
    ASSUME SelectInv, StartPartition
    PROVE  SelectInv'
  <1>1. UNCHANGED <<Size, Mid, EvenSize>>
    BY LengthKept DEF StartPartition
  <1>2. SelectShape' /\ Bracketed'
    BY <1>1 DEF StartPartition, SelectInv, SelectShape, Bracketed
  <1>3. PartitionSplit'
    BY <1>1 DEF StartPartition, SelectInv, SelectShape, Bracketed, PartitionSplit, Pivot
  <1> QED BY <1>1, <1>2, <1>3 DEF StartPartition, SelectInv, LowerKept, MedianCorrect

\* A window of one element is the rank.
LEMMA WindowClosedInv ==
    ASSUME SelectInv, WindowClosed
    PROVE  SelectInv'
  <1>1. UNCHANGED <<Size, Mid, EvenSize>>
    BY LengthKept DEF WindowClosed
  <1>2. SelectShape'
    BY <1>1 DEF WindowClosed, SelectInv, SelectShape
  <1>3. left = rank /\ right = rank /\ Size \in Nat /\ left \in Int /\ right \in Int
    BY Middle DEF WindowClosed, SelectInv, Bracketed, SelectShape
  <1>4. Settled'
    BY <1>1, <1>3 DEF WindowClosed, SelectInv, Bracketed, Settled
  <1> QED BY <1>1, <1>2, <1>4 DEF WindowClosed, SelectInv, PartitionSplit, LowerKept, MedianCorrect

\* An element that is not smaller than the pivot extends the larger part.
LEMMA KeepLargerInv ==
    ASSUME SelectInv, KeepLarger
    PROVE  SelectInv'
  <1>1. UNCHANGED <<Size, Mid, EvenSize, Pivot>>
    BY LengthKept DEF KeepLarger, Pivot
  <1>2. SelectShape' /\ Bracketed'
    BY <1>1 DEF KeepLarger, SelectInv, SelectShape, Bracketed
  <1>3. PartitionSplit'
    BY <1>1 DEF KeepLarger, SelectInv, SelectShape, PartitionSplit
  <1> QED BY <1>1, <1>2, <1>3 DEF KeepLarger, SelectInv, LowerKept, MedianCorrect

\* A smaller one changes places with the first of the larger part.
LEMMA MoveSmallerInv ==
    ASSUME SelectInv, MoveSmaller
    PROVE  SelectInv'
  <1>1. /\ Size \in Nat /\ i \in Int /\ j \in Int /\ left \in Int /\ right \in Int
        /\ 0 <= left /\ left - 1 <= i /\ i < j /\ j < right /\ right < Size
        /\ \A a \in left .. i : values[a] < values[right]
        /\ \A a \in i + 1 .. j - 1 : values[a] >= values[right]
        /\ values[j] < values[right]
    BY DEF MoveSmaller, SelectInv, SelectShape, PartitionSplit, Pivot
  <1>2. i + 1 \in 0 .. Size - 1 /\ j \in 0 .. Size - 1
    BY <1>1
  <1>3. /\ UNCHANGED <<Size, Mid, EvenSize>>
        /\ DOMAIN values' = 0 .. Size - 1
        /\ values' \in [0 .. Size - 1 -> Int]
        /\ SameBag(values', original')
        /\ \A x \in 0 .. Size - 1 :
             values'[x] = IF x = i + 1 THEN values[j]
                          ELSE IF x = j THEN values[i + 1] ELSE values[x]
    BY <1>2, SwapKeepsShape DEF MoveSmaller, SelectInv
  <1>4. SelectShape'
    BY <1>1, <1>3 DEF MoveSmaller, SelectInv, SelectShape
  <1>5. Bracketed'
    BY <1>1, <1>3 DEF MoveSmaller, SelectInv, Bracketed
  <1>6. values'[right] = values[right]
    BY <1>1, <1>3
  <1>7. \A a \in left .. i + 1 : values'[a] < values'[right]
    BY <1>1, <1>3, <1>6
  <1>8. \A a \in i + 2 .. j : values'[a] >= values'[right]
    BY <1>1, <1>3, <1>6
  <1>9. PartitionSplit'
    BY <1>1, <1>3, <1>7, <1>8 DEF MoveSmaller, PartitionSplit, Pivot
  <1> QED BY <1>3, <1>4, <1>5, <1>9 DEF MoveSmaller, SelectInv, LowerKept, MedianCorrect

\* The pivot between the parts: all before it are smaller, none after it is.
LEMMA PlacePivotInv ==
    ASSUME SelectInv, PlacePivot
    PROVE  SelectInv'
  <1> DEFINE place == i + 1
  <1>1. /\ Size \in Nat /\ i \in Int /\ left \in Int /\ right \in Int /\ rank \in Int
        /\ 0 <= left /\ left <= place /\ place <= right /\ right < Size
        /\ left <= rank /\ rank <= right
        /\ \A a \in left .. place - 1 : values[a] < values[right]
        /\ \A a \in place .. right - 1 : values[a] >= values[right]
    BY Middle DEF PlacePivot, SelectInv, SelectShape, PartitionSplit, Bracketed, Pivot
  <1>2. place \in 0 .. Size - 1 /\ right \in 0 .. Size - 1
    BY <1>1
  <1>3. /\ UNCHANGED <<Size, Mid, EvenSize>>
        /\ DOMAIN values' = 0 .. Size - 1
        /\ values' \in [0 .. Size - 1 -> Int]
        /\ SameBag(values', original')
        /\ \A x \in 0 .. Size - 1 :
             values'[x] = IF x = place THEN values[right]
                          ELSE IF x = right THEN values[place] ELSE values[x]
    BY <1>2, SwapKeepsShape DEF PlacePivot, PivotPlace, SelectInv
  <1> DEFINE pivot == values[right]
  <1>4. pivot \in Int /\ values'[place] = pivot
    BY <1>2, <1>3 DEF SelectInv, SelectShape
  <1>5. \A a \in left .. place - 1 : values'[a] < pivot
    BY <1>1, <1>3
  <1>6. \A a \in place .. right : values'[a] >= pivot
    BY <1>1, <1>2, <1>3, <1>4
  <1>7. \A a, b \in 0 .. Size - 1 :
            (a < left /\ left <= b) \/ (a <= right /\ right < b) => values'[a] <= values'[b]
    <2>1. \A a, b \in 0 .. Size - 1 :
              (a < left /\ left <= b) \/ (a <= right /\ right < b) => values[a] <= values[b]
      BY DEF PlacePivot, SelectInv, Bracketed
    <2> HIDE DEF place, pivot
    <2>2. \A x \in 0 .. Size - 1 :
              \E y \in 0 .. Size - 1 : /\ values'[x] = values[y]
                                       /\ x < left => y < left
                                       /\ left <= x => left <= y
                                       /\ x <= right => y <= right
                                       /\ right < x => right < y
      BY <1>1, <1>2, <1>3
    <2> QED BY <1>1, <2>1, <2>2
  <1>8. /\ right' = (IF rank < place THEN place - 1 ELSE right)
        /\ left' = (IF rank > place THEN place + 1 ELSE left)
        /\ pc' = (IF rank = place THEN "selected" ELSE "select")
        /\ UNCHANGED <<original, rank, i, j, val1, answer>>
    BY DEF PlacePivot, PivotPlace, UpperWindow
  <1> HIDE DEF place, pivot
  <1>9. \A a, b \in 0 .. Size - 1 : a < place /\ place <= b => values'[a] <= values'[b]
    BY <1>1, <1>2, <1>3, <1>4, <1>5, <1>6, <1>7
  <1>10. \A a, b \in 0 .. Size - 1 : a <= place /\ place < b => values'[a] <= values'[b]
    BY <1>1, <1>2, <1>3, <1>4, <1>5, <1>6, <1>7
  <1>11. SelectShape'
    BY <1>1, <1>2, <1>3, <1>8 DEF SelectInv, SelectShape
  <1>12. pc' = "select" => Bracketed'
    BY <1>1, <1>2, <1>3, <1>7, <1>8, <1>9, <1>10 DEF Bracketed
  <1>13. pc' = "selected" => Settled'
    BY <1>1, <1>2, <1>3, <1>8, <1>9, <1>10 DEF Settled
  <1> QED BY <1>3, <1>8, <1>11, <1>12, <1>13 DEF SelectInv, PartitionSplit, LowerKept, MedianCorrect

\* A settled rank holds the value the median's definition asks for.
LEMMA SelectedIsKth ==
    ASSUME SelectInv, pc = "selected"
    PROVE  /\ rank \in 0 .. Size - 1
           /\ values[rank] = KthSmallest(original, rank + 1)
  <1>1. rank \in 0 .. Size - 1
    BY Middle DEF SelectInv, SelectShape
  <1>2. /\ Size \in Nat
        /\ values \in [0 .. Size - 1 -> Int] /\ original \in [0 .. Size - 1 -> Int]
        /\ SameBag(values, original)
        /\ \A a \in 0 .. Size - 1 : /\ a < rank => values[a] <= values[rank]
                                    /\ rank < a => values[rank] <= values[a]
    BY DEF SelectInv, SelectShape, Settled
  <1> QED BY <1>1, <1>2, SettledIsKth

\* The second selection starts on the whole vector, as the first left it.
LEMMA SelectUpperInv ==
    ASSUME SelectInv, SelectUpper
    PROVE  SelectInv'
  <1>1. UNCHANGED <<Size, Mid, EvenSize>>
    BY LengthKept DEF SelectUpper
  <1>2. Size \in Nat \ {0} /\ Mid \in 0 .. Size - 1
    BY Middle DEF SelectInv, SelectShape
  <1>3. SelectShape' /\ Bracketed'
    BY <1>1, <1>2 DEF SelectUpper, SelectInv, SelectShape, Bracketed
  <1>4. LowerKept'
    <2>1. values[Mid - 1] = KthSmallest(original, (Mid - 1) + 1)
      BY SelectedIsKth DEF SelectUpper
    <2>2. (Mid - 1) + 1 = Mid
      BY <1>2
    <2> QED BY <1>1, <2>1, <2>2 DEF SelectUpper, LowerKept
  <1> QED BY <1>3, <1>4 DEF SelectUpper, SelectInv, PartitionSplit, MedianCorrect

\* The answer is the median as it is defined.
LEMMA AnswerInv ==
    ASSUME SelectInv, Answer
    PROVE  SelectInv'
  <1>1. UNCHANGED <<Size, Mid, EvenSize>>
    BY LengthKept DEF Answer
  <1>2. SelectShape' /\ LowerKept'
    BY <1>1 DEF Answer, SelectInv, SelectShape, LowerKept
  <1>3. values[Mid] = KthSmallest(original, Mid + 1)
    BY SelectedIsKth DEF Answer
  <1>4. EvenSize => val1 = KthSmallest(original, Mid)
    BY DEF Answer, SelectInv, LowerKept
  <1>5. Cardinality(DOMAIN original) = Size /\ Size \in Nat
    BY DEF SelectInv, SelectShape, Size
  <1>6. EvenSize <=> ~(Size % 2 = 1)
    <2>1. \A n \in Nat : n % 2 = 0 <=> ~(n % 2 = 1)
      OBVIOUS
    <2> QED BY <1>5, <2>1 DEF EvenSize
  <1>7. answer' = Median(original)
    <2>1. Median(original) = IF Size % 2 = 1 THEN KthSmallest(original, Mid + 1)
                             ELSE TruncDiv(KthSmallest(original, Mid)
                                             + KthSmallest(original, Mid + 1), 2)
      BY <1>5 DEF Median, Mid
    <2>2. CASE EvenSize
      BY <1>3, <1>4, <1>6, <2>1, <2>2 DEF Answer
    <2>3. CASE ~EvenSize
      BY <1>3, <1>6, <2>1, <2>3 DEF Answer
    <2> QED BY <2>2, <2>3
  <1> QED BY <1>2, <1>7 DEF Answer, SelectInv, PartitionSplit, MedianCorrect

\* One step of the loop keeps the invariant.
LEMMA SelectNextInv == SelectInv /\ [SelectNext]_selectVars => SelectInv'
  <1> SUFFICES ASSUME SelectInv, [SelectNext]_selectVars PROVE SelectInv'
    OBVIOUS
  <1>1. CASE UNCHANGED selectVars
    BY <1>1, LengthKept DEF selectVars, SelectInv, SelectShape, Bracketed, PartitionSplit, Settled, LowerKept,
        MedianCorrect, Pivot
  <1> QED BY <1>1, StartPartitionInv, WindowClosedInv, KeepLargerInv, MoveSmallerInv,
             PlacePivotInv, SelectUpperInv, AnswerInv DEF SelectNext

\* shared::median, quickselect_inplace, partition_inplace: on every vector of
\* integers the window brackets the rank, no access leaves the window, and
\* what is returned is the median by definition.
THEOREM SelectionIsCorrect == SelectSpec => []SelectionCorrect
  <1>1. SelectInv => SelectionCorrect
    <2> SUFFICES ASSUME SelectInv PROVE RankBracketed
      BY DEF SelectInv, SelectionCorrect
    <2> QED BY DEF SelectInv, SelectShape, Bracketed, RankBracketed
  <1>2. SelectInv /\ [SelectNext]_selectVars => SelectInv'
    BY SelectNextInv
  <1> QED BY <1>1, <1>2, SelectInitInv, PTL DEF SelectSpec
=============================================================================
