------------------------- MODULE SavingsVaultProofs --------------------------
(***************************************************************************)
(* Proofs about SavingsVault, for any finite sets of users and terms, any  *)
(* amounts, rates and scales, and lots of any number, size and age.        *)
(***************************************************************************)
EXTENDS SavingsVault, FiniteSums

(* What the first m lots of a list come to: all of them, those unlocked,   *)
(* and the yield of those unlocked.                                        *)

Ready(list, m, term) == {n \in 1 .. m : Unlocked(list[n], term)}

Whole(list, m) == SumOver(AmountsOf(list), 1 .. m)

Ripe(list, m, term) == SumOver(AmountsOf(list), Ready(list, m, term))

Earned(list, m, term) == SumOver(YieldsOf(list), Ready(list, m, term))

\* The same of a whole list, as the entry points read it.
LEMMA ListMeasures ==
    ASSUME NEW k \in Buckets, NEW list \in Seq(DepositLot), lots[k] = list
    PROVE  /\ SumLots(list) = Whole(list, Len(list))
           /\ UnlockedBalance(k) = Ripe(list, Len(list), k[2])
           /\ PendingYield(k) = Earned(list, Len(list), k[2])
  <1>1. DOMAIN list = 1 .. Len(list)
    OBVIOUS
  <1>2. UnlockedAt(k) = Ready(list, Len(list), k[2])
    BY <1>1 DEF UnlockedAt, Ready
  <1> QED BY <1>1, <1>2 DEF SumLots, UnlockedBalance, PendingYield, Whole, Ripe, Earned

-----------------------------------------------------------------------------
(* Yields. *)

LEMMA DivNat ==
    ASSUME NEW a \in Nat, NEW d \in Nat, d > 0
    PROVE  a \div d \in Nat
  OBVIOUS

\* Two quotients are no more than the quotient of the sum.
LEMMA DivSplit ==
    ASSUME NEW a \in Nat, NEW b \in Nat, NEW d \in Nat, d > 0
    PROVE  a \div d + b \div d <= (a + b) \div d
  <1> DEFINE p == a \div d
             q == b \div d
             r == (a + b) \div d
  <1>1. p \in Nat /\ q \in Nat /\ r \in Nat
    BY DivNat
  <1>2. p * d <= a /\ q * d <= b /\ a + b < (r + 1) * d
    OBVIOUS
  <1> HIDE DEF p, q, r
  <1>3. (p + q) * d <= a + b
    BY <1>1, <1>2
  <1>4. (p + q) * d < (r + 1) * d
    BY <1>1, <1>2, <1>3
  <1>5. p + q < r + 1
    <2> SUFFICES ASSUME p + q >= r + 1 PROVE FALSE
      BY <1>1
    <2>1. (p + q) * d >= (r + 1) * d
      BY <1>1
    <2> QED BY <1>1, <1>4, <2>1
  <1> QED BY <1>1, <1>5 DEF p, q, r

\* A yield is a natural number, none accrues on nothing, and the yields of
\* two parts are no more than the yield of the whole.
LEMMA YieldParts ==
    ASSUME VaultTypeOK, NEW p \in Nat, NEW q \in Nat, NEW elapsed \in Nat
    PROVE  /\ CalculateYield(p, elapsed) \in Nat
           /\ CalculateYield(p, elapsed) + CalculateYield(q, elapsed)
                <= CalculateYield(p + q, elapsed)
  <1> DEFINE year == BasisPoints * SecondsPerYear
             a == p * yieldRate * elapsed
             b == q * yieldRate * elapsed
  <1>1. year \in Nat /\ year > 0
    BY VaultAssumption
  <1>2. yieldRate \in Nat
    BY VaultAssumption DEF VaultTypeOK
  <1>3. a \in Nat /\ b \in Nat
    <2>1. p * yieldRate \in Nat /\ q * yieldRate \in Nat
      BY <1>2
    <2> QED BY <2>1
  <1>4. (p + q) * yieldRate * elapsed = a + b
    BY <1>2
  <1> HIDE DEF year, a, b
  <1>5. a \div year \in Nat /\ a \div year + b \div year <= (a + b) \div year
    BY <1>1, <1>3, DivNat, DivSplit
  <1> QED BY <1>4, <1>5 DEF CalculateYield, year, a, b

LEMMA NoYieldOnNothing ==
    ASSUME VaultTypeOK, NEW elapsed \in Int
    PROVE  CalculateYield(0, elapsed) = 0
  <1> DEFINE year == BasisPoints * SecondsPerYear
  <1>1. year \in Nat /\ year > 0
    BY VaultAssumption
  <1>2. yieldRate \in Nat
    BY VaultAssumption DEF VaultTypeOK
  <1>3. 0 * yieldRate * elapsed = 0
    BY <1>2
  <1> HIDE DEF year
  <1>4. 0 \div year = 0
    BY <1>1
  <1> QED BY <1>3, <1>4 DEF CalculateYield, year

\* A lot is unlocked only once some time has passed since its deposit.
LEMMA UnlockedIsPast ==
    ASSUME VaultTypeOK, NEW lot \in DepositLot, NEW term \in Nat, Unlocked(lot, term)
    PROVE  now - lot.timestamp \in Nat
  BY DEF VaultTypeOK, DepositLot, Unlocked

-----------------------------------------------------------------------------
(* Lists of lots. *)

LEMMA MeasuresOfNone ==
    ASSUME NEW list, NEW term
    PROVE  Whole(list, 0) = 0 /\ Ripe(list, 0, term) = 0 /\ Earned(list, 0, term) = 0
  <1>1. 1 .. 0 = {} /\ Ready(list, 0, term) = {}
    BY DEF Ready
  <1> QED BY <1>1, SumEmpty DEF Whole, Ripe, Earned

\* The values added up are natural numbers, over finitely many positions.
LEMMA MeasuresTyped ==
    ASSUME VaultTypeOK, NEW list \in Seq(DepositLot), NEW term \in Nat,
           NEW m \in 0 .. Len(list)
    PROVE  /\ IsFiniteSet(1 .. m) /\ IsFiniteSet(Ready(list, m, term))
           /\ \A n \in 1 .. m : AmountsOf(list)[n] = list[n].amount /\ list[n].amount \in Nat
           /\ \A n \in Ready(list, m, term) :
                /\ n \in 1 .. m
                /\ YieldsOf(list)[n] = CalculateYield(list[n].amount, now - list[n].timestamp)
                /\ YieldsOf(list)[n] \in Nat
           /\ Whole(list, m) \in Nat /\ Ripe(list, m, term) \in Nat
           /\ Earned(list, m, term) \in Nat
           /\ Ripe(list, m, term) <= Whole(list, m)
  <1>1. IsFiniteSet(1 .. m) /\ Ready(list, m, term) \subseteq 1 .. m
    BY FS_Interval DEF Ready
  <1>2. IsFiniteSet(Ready(list, m, term))
    BY <1>1, FS_Subset
  <1>3. \A n \in 1 .. m : n \in DOMAIN list /\ list[n] \in DepositLot
    OBVIOUS
  <1>4. \A n \in 1 .. m : AmountsOf(list)[n] = list[n].amount /\ list[n].amount \in Nat
    BY <1>3 DEF AmountsOf, DepositLot
  <1>5. ASSUME NEW n \in Ready(list, m, term)
        PROVE  /\ n \in 1 .. m
               /\ YieldsOf(list)[n] = CalculateYield(list[n].amount, now - list[n].timestamp)
               /\ YieldsOf(list)[n] \in Nat
    <2>1. n \in 1 .. m /\ Unlocked(list[n], term)
      BY DEF Ready
    <2>2. now - list[n].timestamp \in Nat
      BY <1>3, <2>1, UnlockedIsPast
    <2>3. YieldsOf(list)[n] = CalculateYield(list[n].amount, now - list[n].timestamp)
      BY <1>3, <2>1 DEF YieldsOf
    <2> QED BY <1>4, <2>1, <2>2, <2>3, YieldParts
  <1>6. Whole(list, m) \in Nat
    BY <1>1, <1>4, SumNat DEF Whole
  <1>7. Ripe(list, m, term) \in Nat /\ Ripe(list, m, term) <= Whole(list, m)
    <2>1. \A n \in Ready(list, m, term) : AmountsOf(list)[n] \in Nat
      BY <1>1, <1>4
    <2>2. Ripe(list, m, term) \in Nat
      BY <1>2, <2>1, SumNat DEF Ripe
    <2>3. Ripe(list, m, term) <= Whole(list, m)
      BY <1>1, <1>4, SumSubset DEF Ripe, Whole
    <2> QED BY <2>2, <2>3
  <1>8. Earned(list, m, term) \in Nat
    BY <1>2, <1>5, SumNat DEF Earned
  <1> QED BY <1>1, <1>2, <1>4, <1>5, <1>6, <1>7, <1>8

\* One more lot adds its amount, and its yield, if it counts.
LEMMA MeasuresGrow ==
    ASSUME VaultTypeOK, NEW list \in Seq(DepositLot), NEW term \in Nat,
           NEW m \in Nat, m < Len(list)
    PROVE  LET lot == list[m + 1]
           IN  /\ Whole(list, m + 1) = Whole(list, m) + lot.amount
               /\ Unlocked(lot, term) =>
                    /\ Ripe(list, m + 1, term) = Ripe(list, m, term) + lot.amount
                    /\ Earned(list, m + 1, term) = Earned(list, m, term)
                         + CalculateYield(lot.amount, now - lot.timestamp)
               /\ ~Unlocked(lot, term) =>
                    /\ Ripe(list, m + 1, term) = Ripe(list, m, term)
                    /\ Earned(list, m + 1, term) = Earned(list, m, term)
  <1>1. m \in 0 .. Len(list) /\ m + 1 \in 0 .. Len(list) /\ m + 1 \in 1 .. m + 1
    OBVIOUS
  <1>2. 1 .. m + 1 = (1 .. m) \cup {m + 1} /\ m + 1 \notin 1 .. m
    OBVIOUS
  <1>3. IsFiniteSet(1 .. m) /\ IsFiniteSet(Ready(list, m, term))
    BY <1>1, MeasuresTyped
  <1>4. /\ \A n \in 1 .. m + 1 : AmountsOf(list)[n] = list[n].amount /\ list[n].amount \in Nat
        /\ \A n \in Ready(list, m + 1, term) :
             /\ n \in 1 .. m + 1
             /\ YieldsOf(list)[n] = CalculateYield(list[n].amount, now - list[n].timestamp)
             /\ YieldsOf(list)[n] \in Nat
    BY <1>1, MeasuresTyped
  <1>5. Whole(list, m + 1) = Whole(list, m) + list[m + 1].amount
    <2>1. /\ \A n \in (1 .. m) \cup {m + 1} : AmountsOf(list)[n] \in Int
          /\ AmountsOf(list)[m + 1] = list[m + 1].amount
      BY <1>1, <1>2, <1>4
    <2> DEFINE next == m + 1
               amounts == AmountsOf(list)
               before == 1 .. m
    <2>2. next \notin before /\ IsFiniteSet(before)
          /\ \A n \in before \cup {next} : amounts[n] \in Int
      BY <1>2, <1>3, <2>1
    <2> HIDE DEF next, amounts, before
    <2>3. SumOver(amounts, before \cup {next}) = SumOver(amounts, before) + amounts[next]
      BY <2>2, SumAddMember
    <2> QED BY <1>2, <2>1, <2>3 DEF Whole, next, amounts, before
  <1>6. ASSUME Unlocked(list[m + 1], term)
        PROVE  /\ Ripe(list, m + 1, term) = Ripe(list, m, term) + list[m + 1].amount
               /\ Earned(list, m + 1, term) = Earned(list, m, term)
                    + CalculateYield(list[m + 1].amount, now - list[m + 1].timestamp)
    <2>1. Ready(list, m + 1, term) = Ready(list, m, term) \cup {m + 1}
      BY <1>2, <1>6 DEF Ready
    <2>2. m + 1 \notin Ready(list, m, term)
      BY <1>2 DEF Ready
    <2>3. m + 1 \in Ready(list, m + 1, term)
      BY <2>1
    <2>4. /\ \A n \in Ready(list, m, term) \cup {m + 1} :
               AmountsOf(list)[n] \in Int /\ YieldsOf(list)[n] \in Int
          /\ AmountsOf(list)[m + 1] = list[m + 1].amount
          /\ YieldsOf(list)[m + 1]
               = CalculateYield(list[m + 1].amount, now - list[m + 1].timestamp)
      BY <1>1, <1>4, <2>1, <2>3
    <2> DEFINE next == m + 1
               amounts == AmountsOf(list)
               yields == YieldsOf(list)
               before == Ready(list, m, term)
    <2>5. /\ next \notin before /\ IsFiniteSet(before)
          /\ \A n \in before \cup {next} : amounts[n] \in Int
          /\ \A n \in before \cup {next} : yields[n] \in Int
      BY <1>3, <2>2, <2>4
    <2> HIDE DEF next, amounts, yields, before
    <2>6. /\ SumOver(amounts, before \cup {next}) = SumOver(amounts, before) + amounts[next]
          /\ SumOver(yields, before \cup {next}) = SumOver(yields, before) + yields[next]
      BY <2>5, SumAddMember
    <2>7. /\ Ripe(list, m + 1, term) = Ripe(list, m, term) + AmountsOf(list)[m + 1]
          /\ Earned(list, m + 1, term) = Earned(list, m, term) + YieldsOf(list)[m + 1]
      BY <2>1, <2>6 DEF Ripe, Earned, next, amounts, yields, before
    <2> QED BY <2>4, <2>7
  <1>7. ASSUME ~Unlocked(list[m + 1], term)
        PROVE  Ready(list, m + 1, term) = Ready(list, m, term)
    BY <1>2, <1>7 DEF Ready
  <1> QED BY <1>5, <1>6, <1>7 DEF Ripe, Earned

\* The lots before an appended one count as before.
LEMMA MeasuresAppended ==
    ASSUME VaultTypeOK, NEW list \in Seq(DepositLot), NEW term \in Nat,
           NEW lot \in DepositLot
    PROVE  LET longer == Append(list, lot)
           IN  /\ longer \in Seq(DepositLot) /\ Len(longer) = Len(list) + 1
               /\ longer[Len(list) + 1] = lot
               /\ Whole(longer, Len(list)) = Whole(list, Len(list))
               /\ Ripe(longer, Len(list), term) = Ripe(list, Len(list), term)
               /\ Earned(longer, Len(list), term) = Earned(list, Len(list), term)
  <1> DEFINE longer == Append(list, lot)
             m == Len(list)
  <1>1. /\ longer \in Seq(DepositLot) /\ Len(longer) = m + 1 /\ m \in Nat
        /\ longer[m + 1] = lot
        /\ \A n \in 1 .. m : longer[n] = list[n]
    OBVIOUS
  <1> HIDE DEF longer, m
  <1>2. m \in 0 .. Len(list) /\ m \in 0 .. Len(longer)
    BY <1>1 DEF m
  <1>3. Ready(longer, m, term) = Ready(list, m, term)
    BY <1>1 DEF Ready
  <1>4. Whole(longer, m) = Whole(list, m)
    <2>1. /\ IsFiniteSet(1 .. m)
          /\ \A n \in 1 .. m : AmountsOf(list)[n] = list[n].amount /\ list[n].amount \in Nat
      BY <1>2, MeasuresTyped
    <2>2. \A n \in 1 .. m : AmountsOf(longer)[n] = longer[n].amount
      BY <1>1, <1>2, MeasuresTyped
    <2>3. \A n \in 1 .. m : AmountsOf(longer)[n] \in Int
                            /\ AmountsOf(longer)[n] = AmountsOf(list)[n]
      BY <1>1, <2>1, <2>2
    <2> QED BY <2>1, <2>3, SumCongruent DEF Whole
  <1>5. /\ Ripe(longer, m, term) = Ripe(list, m, term)
        /\ Earned(longer, m, term) = Earned(list, m, term)
    <2>1. /\ IsFiniteSet(Ready(list, m, term))
          /\ \A n \in 1 .. m : AmountsOf(list)[n] = list[n].amount /\ list[n].amount \in Nat
          /\ \A n \in Ready(list, m, term) :
               /\ n \in 1 .. m
               /\ YieldsOf(list)[n] = CalculateYield(list[n].amount, now - list[n].timestamp)
               /\ YieldsOf(list)[n] \in Nat
      BY <1>2, MeasuresTyped
    <2>2. /\ \A n \in 1 .. m : AmountsOf(longer)[n] = longer[n].amount
          /\ \A n \in Ready(longer, m, term) :
               YieldsOf(longer)[n] = CalculateYield(longer[n].amount, now - longer[n].timestamp)
      BY <1>1, <1>2, MeasuresTyped
    <2>3. \A n \in Ready(list, m, term) :
               /\ AmountsOf(longer)[n] \in Int /\ AmountsOf(longer)[n] = AmountsOf(list)[n]
               /\ YieldsOf(longer)[n] \in Int /\ YieldsOf(longer)[n] = YieldsOf(list)[n]
      BY <1>1, <1>3, <2>1, <2>2
    <2> QED BY <1>3, <2>1, <2>3, SumCongruent DEF Ripe, Earned
  <1> QED BY <1>1, <1>4, <1>5 DEF longer, m

-----------------------------------------------------------------------------
(* The loop of a withdrawal. *)

\* One unfolding of the loop, over the first m lots.
LoopBody(f, m, k, amount) ==
    [n \in 0 .. m |-> IF n = 0 THEN [left |-> amount, yield |-> 0, kept |-> <<>>]
                      ELSE ConsumeLot(f[n - 1], lots[k][n], k[2])]

\* A loop over m lots goes on to the next one.
LEMMA LoopGoesOn ==
    ASSUME NEW k, NEW amount, NEW m \in Nat, NEW f, f = LoopBody(f, m, k, amount)
    PROVE  LET g == LoopBody(f, m + 1, k, amount)
           IN  g = LoopBody(g, m + 1, k, amount)
  <1> DEFINE g == LoopBody(f, m + 1, k, amount)
             h == LoopBody(g, m + 1, k, amount)
  <1>1. g = [n \in 0 .. m + 1 |-> g[n]] /\ h = [n \in 0 .. m + 1 |-> h[n]]
    BY DEF LoopBody
  <1>2. ASSUME NEW n \in 0 .. m PROVE g[n] = f[n]
    <2>1. n \in 0 .. m + 1
      OBVIOUS
    <2>2. g[n] = LoopBody(f, m, k, amount)[n]
      BY <2>1 DEF LoopBody
    <2> QED BY <2>2
  <1>3. ASSUME NEW n \in 0 .. m + 1 PROVE g[n] = h[n]
    <2>1. CASE n = 0
      BY <2>1 DEF LoopBody
    <2>2. CASE n # 0
      <3>1. n - 1 \in 0 .. m
        BY <2>2
      <3>2. g[n - 1] = f[n - 1]
        BY <1>2, <3>1
      <3>3. g[n] = ConsumeLot(f[n - 1], lots[k][n], k[2])
        BY <2>2 DEF LoopBody
      <3>4. h[n] = ConsumeLot(g[n - 1], lots[k][n], k[2])
        <4> HIDE DEF g
        <4> QED BY <2>2 DEF LoopBody
      <3> HIDE DEF g, h
      <3> QED BY <3>2, <3>3, <3>4
    <2> QED BY <2>1, <2>2
  <1> HIDE DEF g, h
  <1>4. g = h
    BY <1>1, <1>3
  <1> QED BY <1>4 DEF g, h

\* The loop is defined for every list: each lot is taken from once, in order.
LEMMA ConsumingIsLoop ==
    ASSUME NEW k, NEW amount, Len(lots[k]) \in Nat
    PROVE  Consuming(k, amount) = LoopBody(Consuming(k, amount), Len(lots[k]), k, amount)
  <1> DEFINE length == Len(lots[k])
             Solvable == {m \in 0 .. length : \E f : f = LoopBody(f, m, k, amount)}
  <1>1. 0 \in Solvable
    <2> DEFINE f == LoopBody(0, 0, k, amount)
    <2>1. f = LoopBody(f, 0, k, amount)
      BY DEF LoopBody
    <2> HIDE DEF f
    <2>2. 0 \in 0 .. length
      OBVIOUS
    <2> QED BY <2>1, <2>2
  <1>2. ASSUME NEW m \in 0 .. length - 1, m \in Solvable PROVE m + 1 \in Solvable
    <2>1. PICK f : f = LoopBody(f, m, k, amount)
      BY <1>2
    <2>2. m \in Nat /\ m + 1 \in 0 .. length
      OBVIOUS
    <2>3. \E g : g = LoopBody(g, m + 1, k, amount)
      BY <2>1, <2>2, LoopGoesOn
    <2> QED BY <2>2, <2>3
  <1> HIDE DEF Solvable
  <1>3. \A m \in 0 .. length : m \in Solvable
    <2>1. length \in Nat
      OBVIOUS
    <2> HIDE DEF length
    <2> QED BY <1>1, <1>2, <2>1, CountingUp
  <1>4. \E f : f = LoopBody(f, length, k, amount)
    BY <1>3 DEF Solvable
  <1>5. Consuming(k, amount) = CHOOSE f : f = LoopBody(f, length, k, amount)
    BY DEF Consuming, LoopBody
  <1> QED BY <1>4, <1>5

Withdrawal(amount) == [left : 0 .. amount, yield : Nat, kept : Seq(DepositLot)]

\* A withdrawal after the first n lots of a list: what it has taken, from all
\* lots and from the unlocked ones, is what is missing from the lots it kept;
\* the yields of what it took and of what it kept are no more than that of
\* the lots before; once it has taken all that is unlocked, the yield is that
\* of the lots before; and it passes by an unlocked lot only when done.
Accounted(acc, list, n, term, amount) ==
    /\ acc \in Withdrawal(amount)
    /\ Whole(acc.kept, Len(acc.kept)) + amount = Whole(list, n) + acc.left
    /\ Ripe(acc.kept, Len(acc.kept), term) + amount = Ripe(list, n, term) + acc.left
    /\ acc.yield + Earned(acc.kept, Len(acc.kept), term) <= Earned(list, n, term)
    /\ Ripe(acc.kept, Len(acc.kept), term) = 0 => acc.yield = Earned(list, n, term)
    /\ acc.left > 0 => Ripe(acc.kept, Len(acc.kept), term) = 0

\* The three measures of a list with one more lot.
LEMMA MeasuresOfAppend ==
    ASSUME VaultTypeOK, NEW list \in Seq(DepositLot), NEW term \in Nat,
           NEW lot \in DepositLot
    PROVE  LET longer == Append(list, lot)
           IN  /\ longer \in Seq(DepositLot)
               /\ Whole(longer, Len(longer)) = Whole(list, Len(list)) + lot.amount
               /\ Unlocked(lot, term) =>
                    /\ Ripe(longer, Len(longer), term)
                         = Ripe(list, Len(list), term) + lot.amount
                    /\ Earned(longer, Len(longer), term) = Earned(list, Len(list), term)
                         + CalculateYield(lot.amount, now - lot.timestamp)
               /\ ~Unlocked(lot, term) =>
                    /\ Ripe(longer, Len(longer), term) = Ripe(list, Len(list), term)
                    /\ Earned(longer, Len(longer), term) = Earned(list, Len(list), term)
  <1> DEFINE longer == Append(list, lot)
             m == Len(list)
  <1>1. m \in Nat
    OBVIOUS
  <1>2. /\ longer \in Seq(DepositLot) /\ Len(longer) = m + 1
        /\ longer[m + 1] = lot
        /\ Whole(longer, m) = Whole(list, m)
        /\ Ripe(longer, m, term) = Ripe(list, m, term)
        /\ Earned(longer, m, term) = Earned(list, m, term)
    BY MeasuresAppended
  <1> HIDE DEF longer, m
  <1>3. m < Len(longer)
    BY <1>1, <1>2
  <1>4. /\ Whole(longer, m + 1) = Whole(longer, m) + lot.amount
        /\ Unlocked(lot, term) =>
             /\ Ripe(longer, m + 1, term) = Ripe(longer, m, term) + lot.amount
             /\ Earned(longer, m + 1, term) = Earned(longer, m, term)
                  + CalculateYield(lot.amount, now - lot.timestamp)
        /\ ~Unlocked(lot, term) =>
             /\ Ripe(longer, m + 1, term) = Ripe(longer, m, term)
             /\ Earned(longer, m + 1, term) = Earned(longer, m, term)
    BY <1>1, <1>2, <1>3, MeasuresGrow
  <1> QED BY <1>2, <1>4 DEF longer, m

\* A lot that is not unlocked is passed by.
LEMMA LockedLotKept ==
    ASSUME VaultTypeOK, NEW list \in Seq(DepositLot), NEW term \in Nat, NEW amount \in Nat,
           NEW n \in Nat, n < Len(list), NEW acc, Accounted(acc, list, n, term, amount),
           ~Unlocked(list[n + 1], term)
    PROVE  Accounted(ConsumeLot(acc, list[n + 1], term), list, n + 1, term, amount)
  <1> DEFINE lot == list[n + 1]
             next == ConsumeLot(acc, lot, term)
             kept == Append(acc.kept, lot)
  <1>1. lot \in DepositLot
    OBVIOUS
  <1>2. acc \in Withdrawal(amount)
    BY DEF Accounted
  <1>3. next = [left |-> acc.left, yield |-> acc.yield, kept |-> kept]
    <2>1. CalculateYield(0, now - lot.timestamp) = 0
      BY <1>1, NoYieldOnNothing DEF DepositLot, VaultTypeOK
    <2>2. lot.amount \in Nat \ {0} /\ [lot EXCEPT !.amount = @ - 0] = lot
      BY <1>1 DEF DepositLot
    <2>3. acc.left - 0 = acc.left /\ acc.yield + 0 = acc.yield
      BY <1>2 DEF Withdrawal
    <2> QED BY <2>1, <2>2, <2>3 DEF ConsumeLot
  <1> HIDE DEF lot
  <1>4. /\ Whole(list, n + 1) = Whole(list, n) + lot.amount
        /\ Ripe(list, n + 1, term) = Ripe(list, n, term)
        /\ Earned(list, n + 1, term) = Earned(list, n, term)
    BY MeasuresGrow DEF lot
  <1>5. /\ kept \in Seq(DepositLot)
        /\ Whole(kept, Len(kept)) = Whole(acc.kept, Len(acc.kept)) + lot.amount
        /\ Ripe(kept, Len(kept), term) = Ripe(acc.kept, Len(acc.kept), term)
        /\ Earned(kept, Len(kept), term) = Earned(acc.kept, Len(acc.kept), term)
    <2>1. acc.kept \in Seq(DepositLot)
      BY <1>2 DEF Withdrawal
    <2> QED BY <1>1, <2>1, MeasuresOfAppend DEF lot
  <1>6. /\ Whole(acc.kept, Len(acc.kept)) \in Nat /\ Whole(list, n) \in Nat
        /\ lot.amount \in Nat /\ acc.left \in Nat
    <2>1. acc.kept \in Seq(DepositLot) /\ acc.left \in Nat
      BY <1>2 DEF Withdrawal
    <2>2. lot.amount \in Nat
      BY <1>1 DEF DepositLot
    <2>3. Len(acc.kept) \in 0 .. Len(acc.kept) /\ n \in 0 .. Len(list)
      BY <2>1
    <2> QED BY <2>1, <2>2, <2>3, MeasuresTyped
  <1> HIDE DEF next, kept
  <1>7. next \in Withdrawal(amount)
    BY <1>2, <1>3, <1>5 DEF Withdrawal
  <1>8. next.left = acc.left /\ next.yield = acc.yield /\ next.kept = kept
    BY <1>3
  <1>9. Whole(kept, Len(kept)) + amount = Whole(list, n + 1) + acc.left
    <2>1. Whole(acc.kept, Len(acc.kept)) + amount = Whole(list, n) + acc.left
      BY DEF Accounted
    <2> DEFINE w == Whole(acc.kept, Len(acc.kept))
               v == Whole(list, n)
               a == lot.amount
               left == acc.left
    <2>2. w \in Nat /\ v \in Nat /\ a \in Nat /\ left \in Nat /\ w + amount = v + left
      BY <1>6, <2>1
    <2> HIDE DEF w, v, a, left
    <2>3. (w + a) + amount = (v + a) + left
      BY <2>2
    <2> QED BY <1>4, <1>5, <2>3 DEF w, v, a, left
  <1> QED BY <1>4, <1>5, <1>7, <1>8, <1>9 DEF Accounted, next, lot

\* What is added up in an account are natural numbers.
LEMMA AccountTyped ==
    ASSUME VaultTypeOK, NEW list \in Seq(DepositLot), NEW term \in Nat, NEW amount \in Nat,
           NEW n \in 0 .. Len(list), NEW acc, Accounted(acc, list, n, term, amount)
    PROVE  /\ acc.left \in 0 .. amount /\ acc.yield \in Nat /\ acc.kept \in Seq(DepositLot)
           /\ Whole(acc.kept, Len(acc.kept)) \in Nat
           /\ Ripe(acc.kept, Len(acc.kept), term) \in Nat
           /\ Earned(acc.kept, Len(acc.kept), term) \in Nat
           /\ Whole(list, n) \in Nat /\ Ripe(list, n, term) \in Nat
           /\ Earned(list, n, term) \in Nat
  <1>1. acc.left \in 0 .. amount /\ acc.yield \in Nat /\ acc.kept \in Seq(DepositLot)
    BY DEF Accounted, Withdrawal
  <1>2. Len(acc.kept) \in 0 .. Len(acc.kept)
    BY <1>1
  <1> QED BY <1>1, <1>2, MeasuresTyped

\* An unlocked lot of no more than what is left to take is taken whole.
LEMMA LotTakenWhole ==
    ASSUME VaultTypeOK, NEW list \in Seq(DepositLot), NEW term \in Nat, NEW amount \in Nat,
           NEW n \in Nat, n < Len(list), NEW acc, Accounted(acc, list, n, term, amount),
           Unlocked(list[n + 1], term), list[n + 1].amount <= acc.left
    PROVE  Accounted(ConsumeLot(acc, list[n + 1], term), list, n + 1, term, amount)
  <1> DEFINE lot == list[n + 1]
             next == ConsumeLot(acc, lot, term)
             part == lot.amount
             gain == CalculateYield(part, now - lot.timestamp)
             w == Whole(acc.kept, Len(acc.kept))
             r == Ripe(acc.kept, Len(acc.kept), term)
             e == Earned(acc.kept, Len(acc.kept), term)
             wn == Whole(list, n)
             rn == Ripe(list, n, term)
             en == Earned(list, n, term)
             left == acc.left
             yield == acc.yield
  <1>1. lot \in DepositLot /\ part \in Nat /\ n \in 0 .. Len(list)
    <2>1. n + 1 \in 1 .. Len(list) /\ n \in 0 .. Len(list)
      OBVIOUS
    <2>2. lot \in DepositLot
      BY <2>1
    <2> HIDE DEF lot
    <2> QED BY <2>1, <2>2 DEF DepositLot
  <1>2. gain \in Nat
    BY <1>1, UnlockedIsPast, YieldParts
  <1>3. /\ left \in 0 .. amount /\ yield \in Nat /\ acc.kept \in Seq(DepositLot)
        /\ w \in Nat /\ r \in Nat /\ e \in Nat /\ wn \in Nat /\ rn \in Nat /\ en \in Nat
    BY <1>1, AccountTyped
  <1>4. /\ w + amount = wn + left /\ r + amount = rn + left /\ yield + e <= en
        /\ r = 0 => yield = en
        /\ left > 0 => r = 0
    BY DEF Accounted
  <1>5. /\ Whole(list, n + 1) = wn + part
        /\ Ripe(list, n + 1, term) = rn + part
        /\ Earned(list, n + 1, term) = en + gain
    BY MeasuresGrow
  <1>6. part <= left /\ part > 0
    BY <1>1 DEF DepositLot
  <1>7. next = [left |-> left - part, yield |-> yield + gain, kept |-> acc.kept]
    <2>1. ~(acc.left < lot.amount)
      BY <1>1, <1>3, <1>6
    <2> QED BY <2>1 DEF ConsumeLot
  <1>8. next.left = left - part /\ next.yield = yield + gain /\ next.kept = acc.kept
    BY <1>7
  <1> HIDE DEF lot, next, part, gain, w, r, e, wn, rn, en, left, yield
  <1>9. /\ left - part \in 0 .. amount /\ yield + gain \in Nat
        /\ w + amount = (wn + part) + (left - part)
        /\ r + amount = (rn + part) + (left - part)
        /\ (yield + gain) + e <= en + gain
        /\ r = 0 => yield + gain = en + gain
        /\ left - part > 0 => r = 0
    BY <1>1, <1>2, <1>3, <1>4, <1>6
  <1>10. next \in Withdrawal(amount)
    BY <1>3, <1>7, <1>9 DEF Withdrawal
  <1>11. Accounted(next, list, n + 1, term, amount)
    BY <1>5, <1>8, <1>9, <1>10 DEF Accounted, w, r, e
  <1> QED BY <1>11 DEF next, lot

\* Of a larger one what is left to take is taken, and the rest is kept.
LEMMA LotTakenInPart ==
    ASSUME VaultTypeOK, NEW list \in Seq(DepositLot), NEW term \in Nat, NEW amount \in Nat,
           NEW n \in Nat, n < Len(list), NEW acc, Accounted(acc, list, n, term, amount),
           Unlocked(list[n + 1], term), acc.left < list[n + 1].amount
    PROVE  Accounted(ConsumeLot(acc, list[n + 1], term), list, n + 1, term, amount)
  <1> DEFINE lot == list[n + 1]
             next == ConsumeLot(acc, lot, term)
             left == acc.left
             yield == acc.yield
             size == lot.amount
             rest == size - left
             restLot == [lot EXCEPT !.amount = @ - left]
             kept == Append(acc.kept, restLot)
             elapsed == now - lot.timestamp
             gain == CalculateYield(left, elapsed)
             restGain == CalculateYield(rest, elapsed)
             sizeGain == CalculateYield(size, elapsed)
             w == Whole(acc.kept, Len(acc.kept))
             r == Ripe(acc.kept, Len(acc.kept), term)
             e == Earned(acc.kept, Len(acc.kept), term)
             wn == Whole(list, n)
             rn == Ripe(list, n, term)
             en == Earned(list, n, term)
  <1>1. lot \in DepositLot /\ size \in Nat /\ n \in 0 .. Len(list)
    <2>1. n + 1 \in 1 .. Len(list) /\ n \in 0 .. Len(list)
      OBVIOUS
    <2>2. lot \in DepositLot
      BY <2>1
    <2> HIDE DEF lot
    <2> QED BY <2>1, <2>2 DEF DepositLot
  <1>2. /\ left \in 0 .. amount /\ yield \in Nat /\ acc.kept \in Seq(DepositLot)
        /\ w \in Nat /\ r \in Nat /\ e \in Nat /\ wn \in Nat /\ rn \in Nat /\ en \in Nat
    BY <1>1, AccountTyped
  <1>3. /\ w + amount = wn + left /\ r + amount = rn + left /\ yield + e <= en
        /\ left > 0 => r = 0
    BY DEF Accounted
  <1>4. rest \in Nat /\ rest > 0 /\ left \in Nat /\ left + rest = size
    <2>1. left < size /\ left \in Nat /\ size \in Nat
      BY <1>1, <1>2
    <2>2. \A x, y \in Nat : x < y => y - x \in Nat /\ y - x > 0 /\ x + (y - x) = y
      OBVIOUS
    <2> HIDE DEF lot, next, left, yield, size, restLot, kept, elapsed, gain, restGain, sizeGain,
                 w, r, e, wn, rn, en
    <2> QED BY <2>1, <2>2
  <1>5. gain \in Nat /\ restGain \in Nat /\ gain + restGain <= sizeGain /\ sizeGain \in Nat
    <2>1. elapsed \in Nat
      BY <1>1, UnlockedIsPast
    <2> HIDE DEF left, rest, size, elapsed
    <2> QED BY <1>1, <1>4, <2>1, YieldParts
  <1>6. /\ restLot \in DepositLot /\ restLot.amount = rest
        /\ restLot.timestamp = lot.timestamp
    <2>1. rest \in Nat \ {0}
      BY <1>4
    <2> QED BY <1>1, <2>1 DEF DepositLot
  <1>7. Unlocked(restLot, term)
    BY <1>6 DEF Unlocked
  <1>8. next = [left |-> left - left, yield |-> yield + gain, kept |-> kept]
    <2>1. left # size
      BY <1>1, <1>2
    <2> QED BY <2>1 DEF ConsumeLot
  <1>9. left - left = 0
    BY <1>2
  <1>10. next.left = 0 /\ next.yield = yield + gain /\ next.kept = kept
    BY <1>8, <1>9
  <1>11. /\ Whole(list, n + 1) = wn + size
         /\ Ripe(list, n + 1, term) = rn + size
         /\ Earned(list, n + 1, term) = en + sizeGain
    BY MeasuresGrow
  <1> HIDE DEF restLot
  <1>12. /\ kept \in Seq(DepositLot)
         /\ Whole(kept, Len(kept)) = w + rest
         /\ Ripe(kept, Len(kept), term) = r + rest
         /\ Earned(kept, Len(kept), term) = e + restGain
    <2> HIDE DEF lot, left, rest, size, elapsed, gain, sizeGain
    <2>1. CalculateYield(restLot.amount, now - restLot.timestamp) = restGain
      BY <1>6 DEF elapsed
    <2> HIDE DEF restGain
    <2> QED BY <1>2, <1>6, <1>7, <2>1, MeasuresOfAppend
  <1> HIDE DEF lot, next, left, yield, size, rest, kept, elapsed, gain, restGain, sizeGain,
               w, r, e, wn, rn, en
  <1>13. /\ 0 \in 0 .. amount /\ yield + gain \in Nat
         /\ (w + rest) + amount = (wn + size) + 0
         /\ (r + rest) + amount = (rn + size) + 0
         /\ (yield + gain) + (e + restGain) <= en + sizeGain
         /\ r + rest # 0
    <2>1. 0 \in 0 .. amount /\ yield + gain \in Nat /\ r + rest # 0
      BY <1>2, <1>4, <1>5
    <2>2. /\ (w + rest) + amount = (wn + size) + 0
          /\ (r + rest) + amount = (rn + size) + 0
      BY <1>1, <1>2, <1>3, <1>4
    <2>3. (yield + gain) + (e + restGain) <= en + sizeGain
      BY <1>2, <1>3, <1>5
    <2> QED BY <2>1, <2>2, <2>3
  <1>14. next \in Withdrawal(amount)
    BY <1>8, <1>9, <1>12, <1>13 DEF Withdrawal
  <1>15. Accounted(next, list, n + 1, term, amount)
    BY <1>10, <1>11, <1>12, <1>13, <1>14 DEF Accounted
  <1> QED BY <1>15 DEF next, lot

\* Every stage of a withdrawal is accounted for.
LEMMA WithdrawalAccounted ==
    ASSUME VaultTypeOK, NEW k \in Buckets, NEW amount \in Nat
    PROVE  Accounted(Consumed(k, amount), lots[k], Len(lots[k]), k[2], amount)
  <1> DEFINE list == lots[k]
             length == Len(list)
             term == k[2]
             after == Consuming(k, amount)
             Good == {n \in 0 .. length : Accounted(after[n], list, n, term, amount)}
  <1>1. list \in Seq(DepositLot) /\ length \in Nat
    BY DEF VaultTypeOK
  <1>2. term \in Nat
    BY VaultAssumption DEF Buckets
  <1>3. after = LoopBody(after, length, k, amount)
    BY <1>1, ConsumingIsLoop
  <1>4. 0 \in Good
    <2>1. 0 \in 0 .. length
      BY <1>1
    <2>2. after[0] = [left |-> amount, yield |-> 0, kept |-> <<>>]
      BY <1>3, <2>1 DEF LoopBody
    <2>3. <<>> \in Seq(DepositLot) /\ Len(<<>>) = 0
      OBVIOUS
    <2>4. after[0] \in Withdrawal(amount)
      BY <2>2, <2>3 DEF Withdrawal
    <2>5. after[0].left = amount /\ after[0].yield = 0 /\ after[0].kept = <<>>
      BY <2>2
    <2> HIDE DEF after, list, term
    <2>6. Accounted(after[0], list, 0, term, amount)
      BY <2>3, <2>4, <2>5, MeasuresOfNone DEF Accounted
    <2> QED BY <2>1, <2>6
  <1>5. ASSUME NEW n \in 0 .. length - 1, n \in Good PROVE n + 1 \in Good
    <2>1. n \in Nat /\ n < length /\ n + 1 \in 0 .. length /\ (n + 1) - 1 = n /\ n + 1 # 0
      BY <1>1
    <2>2. after[n + 1] = ConsumeLot(after[n], list[n + 1], term)
      BY <1>3, <2>1 DEF LoopBody
    <2>3. Accounted(after[n], list, n, term, amount)
      BY <1>5
    <2> DEFINE acc == after[n]
    <2>4. acc.left \in 0 .. amount /\ list[n + 1].amount \in Nat
      <3>1. n \in 0 .. length /\ list[n + 1] \in DepositLot
        BY <1>1, <2>1
      <3> HIDE DEF after, list, term, length
      <3> QED BY <1>1, <1>2, <2>3, <3>1, AccountTyped DEF length, DepositLot
    <2> HIDE DEF after, list, term, acc
    <2>5. Accounted(ConsumeLot(acc, list[n + 1], term), list, n + 1, term, amount)
      <3>1. CASE ~Unlocked(list[n + 1], term)
        BY <1>1, <1>2, <2>1, <2>3, <3>1, LockedLotKept DEF acc
      <3>2. CASE Unlocked(list[n + 1], term) /\ list[n + 1].amount <= acc.left
        BY <1>1, <1>2, <2>1, <2>3, <3>2, LotTakenWhole DEF acc
      <3>3. CASE Unlocked(list[n + 1], term) /\ acc.left < list[n + 1].amount
        BY <1>1, <1>2, <2>1, <2>3, <3>3, LotTakenInPart DEF acc
      <3> QED BY <2>4, <3>1, <3>2, <3>3
    <2> QED BY <2>1, <2>2, <2>5 DEF acc
  <1> HIDE DEF Good
  <1>6. \A n \in 0 .. length : n \in Good
    <2> HIDE DEF length
    <2> QED BY <1>1, <1>4, <1>5, CountingUp
  <1>7. length \in Good
    BY <1>1, <1>6
  <1> QED BY <1>7 DEF Good, Consumed

\* What a withdrawal of no more than the unlocked balance comes to: it takes
\* all that was asked for, and the lots and their yields lose that much.
LEMMA WithdrawalComesTo ==
    ASSUME VaultTypeOK, NEW k \in Buckets, NEW amount \in Nat, amount <= UnlockedBalance(k)
    PROVE  LET result == Consumed(k, amount)
               m == Len(result.kept)
           IN  /\ result.left = 0
               /\ result.yield \in Nat
               /\ result.kept \in Seq(DepositLot)
               /\ Whole(result.kept, m) + amount = SumLots(lots[k])
               /\ Whole(result.kept, m) \in Nat
               /\ Ripe(result.kept, m, k[2]) + amount = UnlockedBalance(k)
               /\ Ripe(result.kept, m, k[2]) \in Nat
               /\ Earned(result.kept, m, k[2]) \in Nat
               /\ result.yield + Earned(result.kept, m, k[2]) <= PendingYield(k)
               /\ Ripe(result.kept, m, k[2]) = 0 => result.yield = PendingYield(k)
  <1> DEFINE list == lots[k]
             term == k[2]
             result == Consumed(k, amount)
             left == result.left
             w == Whole(result.kept, Len(result.kept))
             r == Ripe(result.kept, Len(result.kept), term)
             wn == Whole(list, Len(list))
             rn == Ripe(list, Len(list), term)
  <1>1. list \in Seq(DepositLot) /\ term \in Nat /\ Len(list) \in 0 .. Len(list)
    <2>1. list \in Seq(DepositLot)
      BY DEF VaultTypeOK
    <2>2. term \in Nat
      BY VaultAssumption DEF Buckets
    <2> QED BY <2>1, <2>2
  <1>2. Accounted(result, list, Len(list), term, amount)
    BY WithdrawalAccounted
  <1>3. /\ SumLots(list) = wn
        /\ UnlockedBalance(k) = rn
        /\ PendingYield(k) = Earned(list, Len(list), term)
    BY <1>1, ListMeasures
  <1> HIDE DEF result, list, term
  <1>4. /\ left \in 0 .. amount /\ result.yield \in Nat /\ result.kept \in Seq(DepositLot)
        /\ w \in Nat /\ r \in Nat /\ wn \in Nat /\ rn \in Nat
        /\ Earned(result.kept, Len(result.kept), term) \in Nat
    BY <1>1, <1>2, AccountTyped
  <1>5. /\ w + amount = wn + left /\ r + amount = rn + left
        /\ left > 0 => r = 0
    BY <1>2 DEF Accounted
  <1>6. amount <= rn
    BY <1>3
  <1>7. left = 0 /\ w + amount = wn /\ r + amount = rn
    <2> HIDE DEF left, w, r, wn, rn
    <2> QED BY <1>4, <1>5, <1>6
  <1> QED BY <1>2, <1>3, <1>4, <1>7 DEF Accounted, result, list, term

-----------------------------------------------------------------------------
(* Types. *)

LEMMA BucketsFinite ==
    /\ IsFiniteSet(Buckets)
    /\ \A k \in Buckets : k[1] \in Users /\ k[2] \in Nat
  BY VaultAssumption, FS_Product DEF Buckets

\* The fee takes part of a deposit.
LEMMA CreditedInt ==
    ASSUME VaultTypeOK, NEW amount \in Nat
    PROVE  Credited(amount) \in Int
  <1>1. feeRate \in Nat /\ BasisPoints \in Nat /\ BasisPoints > 0
    BY VaultAssumption DEF VaultTypeOK
  <1>2. amount * feeRate \in Nat
    BY <1>1
  <1>3. (amount * feeRate) \div BasisPoints \in Nat
    BY <1>1, <1>2, DivNat
  <1> QED BY <1>3 DEF Credited

\* The reserve pays what it has.
LEMMA PaidWithin ==
    ASSUME VaultTypeOK, NEW amount \in Nat
    PROVE  /\ PayFromReserve(amount) \in Nat
           /\ PayFromReserve(amount) <= amount
           /\ PayFromReserve(amount) <= yieldReserve
  BY DEF PayFromReserve, VaultTypeOK

LEMMA TypeInit == Init => VaultTypeOK
  <1> SUFFICES ASSUME Init PROVE VaultTypeOK
    OBVIOUS
  <1>1. InitFeeRate \in 0 .. BasisPoints /\ InitYieldRate \in 0 .. BasisPoints
    BY VaultAssumption
  <1>2. <<>> \in Seq(DepositLot)
    OBVIOUS
  <1> QED BY <1>1, <1>2 DEF Init, VaultTypeOK

LEMMA DepositTyped ==
    ASSUME VaultTypeOK, NEW k \in Buckets, NEW amount \in Amounts, Deposit(k, amount)
    PROVE  VaultTypeOK'
  <1> DEFINE lot == [amount |-> Credited(amount), timestamp |-> now]
  <1>1. amount \in Nat /\ Credited(amount) \in Int /\ Credited(amount) > 0
    <2>1. amount \in Nat
      BY VaultAssumption DEF Deposit
    <2> QED BY <2>1, CreditedInt DEF Deposit
  <1>2. lot \in DepositLot
    BY <1>1 DEF DepositLot, VaultTypeOK
  <1>3. lots' = [lots EXCEPT ![k] = Append(@, lot)]
    BY DEF Deposit
  <1>4. Append(lots[k], lot) \in Seq(DepositLot)
    <2>1. lots[k] \in Seq(DepositLot)
      BY DEF VaultTypeOK
    <2> HIDE DEF lot
    <2> QED BY <1>2, <2>1
  <1> HIDE DEF lot
  <1>5. DOMAIN lots' = Buckets /\ \A j \in Buckets : lots'[j] \in Seq(DepositLot)
    BY <1>3, <1>4 DEF VaultTypeOK
  <1>6. held' \in Nat /\ totalPrincipal' \in Nat
    <2>1. held' = held + Credited(amount) /\ totalPrincipal' = totalPrincipal + Credited(amount)
      <3>1. held' = held + amount - (amount * feeRate) \div BasisPoints
            /\ totalPrincipal' = totalPrincipal + Credited(amount)
        BY DEF Deposit
      <3>2. feeRate \in Nat /\ BasisPoints \in Nat /\ BasisPoints > 0 /\ held \in Nat
        BY VaultAssumption DEF VaultTypeOK
      <3>3. amount * feeRate \in Nat
        BY <1>1, <3>2
      <3>4. (amount * feeRate) \div BasisPoints \in Nat
        BY <3>2, <3>3, DivNat
      <3> QED BY <1>1, <3>1, <3>2, <3>4 DEF Credited
    <2> QED BY <1>1, <2>1 DEF VaultTypeOK
  <1> QED BY <1>5, <1>6 DEF Deposit, VaultTypeOK, rateVars, yieldVars

\* A withdrawal that goes through takes no more than is unlocked.
LEMMA WithdrawIs ==
    ASSUME VaultTypeOK, NEW k \in Buckets, NEW amount \in Amounts, Withdraw(k, amount)
    PROVE  LET result == Consumed(k, amount)
               paid == PayFromReserve(result.yield)
           IN  /\ amount \in Nat /\ amount > 0 /\ amount <= UnlockedBalance(k)
               /\ result.yield \in Nat /\ paid \in Nat
               /\ paid <= result.yield /\ paid <= yieldReserve
               /\ amount + paid <= held
               /\ result.kept \in Seq(DepositLot)
               /\ lots' = [lots EXCEPT ![k] = result.kept]
               /\ yieldReserve' = yieldReserve - paid
               /\ owed' = [owed EXCEPT ![k[1]] = @ + (result.yield - paid)]
               /\ totalOwed' = totalOwed + (result.yield - paid)
               /\ held' = held - (amount + paid)
               /\ totalPrincipal' =
                    IF amount < totalPrincipal THEN totalPrincipal - amount ELSE 0
  <1> DEFINE result == Consumed(k, amount)
             paid == PayFromReserve(result.yield)
  <1>1. /\ amount > 0 /\ amount <= UnlockedBalance(k) /\ amount + paid <= held
        /\ lots' = [lots EXCEPT ![k] = result.kept]
        /\ yieldReserve' = yieldReserve - paid
        /\ owed' = [owed EXCEPT ![k[1]] = @ + (result.yield - paid)]
        /\ totalOwed' = totalOwed + (result.yield - paid)
        /\ held' = held - (amount + paid)
        /\ totalPrincipal' = IF amount < totalPrincipal THEN totalPrincipal - amount ELSE 0
    BY DEF Withdraw, Withdrawable
  <1>2. amount \in Nat
    <2>1. amount \in Int
      BY VaultAssumption
    <2> QED BY <1>1, <2>1
  <1>3. result.yield \in Nat /\ result.kept \in Seq(DepositLot)
    BY <1>1, <1>2, WithdrawalComesTo
  <1>4. paid \in Nat /\ paid <= result.yield /\ paid <= yieldReserve
    <2> HIDE DEF result
    <2> QED BY <1>3, PaidWithin
  <1> QED BY <1>1, <1>2, <1>3, <1>4

LEMMA WithdrawTyped ==
    ASSUME VaultTypeOK, NEW k \in Buckets, NEW amount \in Amounts, Withdraw(k, amount)
    PROVE  VaultTypeOK'
  <1> DEFINE result == Consumed(k, amount)
             paid == PayFromReserve(result.yield)
             short == result.yield - paid
  <1>1. /\ amount \in Nat /\ amount + paid <= held
        /\ result.yield \in Nat /\ paid \in Nat
        /\ paid <= result.yield /\ paid <= yieldReserve
        /\ result.kept \in Seq(DepositLot)
        /\ lots' = [lots EXCEPT ![k] = result.kept]
        /\ yieldReserve' = yieldReserve - paid
        /\ owed' = [owed EXCEPT ![k[1]] = @ + short]
        /\ totalOwed' = totalOwed + short
        /\ held' = held - (amount + paid)
        /\ totalPrincipal' = IF amount < totalPrincipal THEN totalPrincipal - amount ELSE 0
    BY WithdrawIs
  <1>2. UNCHANGED <<now, rateVars, donated>>
    BY DEF Withdraw
  <1> HIDE DEF result, paid
  <1>3. short \in Nat
    BY <1>1
  <1> HIDE DEF short
  <1>4. DOMAIN lots' = Buckets /\ \A j \in Buckets : lots'[j] \in Seq(DepositLot)
    BY <1>1 DEF VaultTypeOK
  <1>5. owed' \in [Users -> Nat] /\ totalOwed' \in Nat
    <2>1. k[1] \in Users
      BY BucketsFinite
    <2> QED BY <1>1, <1>3, <2>1 DEF VaultTypeOK
  <1>6. held' \in Nat /\ yieldReserve' \in Nat /\ totalPrincipal' \in Nat
    BY <1>1 DEF VaultTypeOK
  <1> QED BY <1>2, <1>4, <1>5, <1>6 DEF VaultTypeOK, rateVars

LEMMA ClaimTyped ==
    ASSUME VaultTypeOK, NEW u \in Users, ClaimYield(u)
    PROVE  VaultTypeOK'
  <1> DEFINE paid == PayFromReserve(owed[u])
  <1>1. owed[u] \in Nat
    BY DEF VaultTypeOK
  <1>2. paid \in Nat /\ paid <= owed[u] /\ paid <= yieldReserve
    BY <1>1, PaidWithin
  <1>3. /\ paid <= held
        /\ owed' = [owed EXCEPT ![u] = @ - paid]
        /\ totalOwed' = IF paid < totalOwed THEN totalOwed - paid ELSE 0
        /\ yieldReserve' = yieldReserve - paid
        /\ held' = held - paid
        /\ UNCHANGED <<now, rateVars, lots, totalPrincipal, donated>>
    BY DEF ClaimYield
  <1> HIDE DEF paid
  <1>4. owed[u] - paid \in Nat
    BY <1>1, <1>2
  <1>5. owed' \in [Users -> Nat]
    BY <1>3, <1>4 DEF VaultTypeOK
  <1>6. totalOwed' \in Nat /\ yieldReserve' \in Nat /\ held' \in Nat
    BY <1>2, <1>3 DEF VaultTypeOK
  <1> QED BY <1>3, <1>5, <1>6 DEF VaultTypeOK, rateVars

LEMMA TypeNext == VaultTypeOK /\ [Next]_vars => VaultTypeOK'
  <1> SUFFICES ASSUME VaultTypeOK, [Next]_vars PROVE VaultTypeOK'
    OBVIOUS
  <1>1. ASSUME NEW k \in Buckets, NEW amount \in Amounts, Deposit(k, amount)
        PROVE  VaultTypeOK'
    BY <1>1, DepositTyped
  <1>2. ASSUME NEW k \in Buckets, NEW amount \in Amounts, Withdraw(k, amount)
        PROVE  VaultTypeOK'
    BY <1>2, WithdrawTyped
  <1>3. ASSUME NEW u \in Users, ClaimYield(u)
        PROVE  VaultTypeOK'
    BY <1>3, ClaimTyped
  <1>4. ASSUME NEW amount \in Amounts, FundYieldReserve(amount)
        PROVE  VaultTypeOK'
    <2>1. amount \in Nat
      BY <1>4, VaultAssumption DEF FundYieldReserve
    <2> QED BY <1>4, <2>1 DEF FundYieldReserve, VaultTypeOK, rateVars
  <1>5. ASSUME NEW amount \in Amounts, WithdrawYieldReserve(amount)
        PROVE  VaultTypeOK'
    <2>1. amount \in Nat
      BY <1>5, VaultAssumption DEF WithdrawYieldReserve
    <2>2. yieldReserve' \in Nat /\ held' \in Nat
      BY <1>5, <2>1 DEF WithdrawYieldReserve, VaultTypeOK
    <2> QED BY <1>5, <2>2 DEF WithdrawYieldReserve, VaultTypeOK, rateVars
  <1>6. ASSUME NEW amount \in Amounts, Donate(amount)
        PROVE  VaultTypeOK'
    <2>1. amount \in Nat
      BY <1>6, VaultAssumption DEF Donate
    <2> QED BY <1>6, <2>1 DEF Donate, VaultTypeOK, rateVars, yieldVars
  <1>7. ASSUME NEW value \in BOOLEAN, SetPaused(value)
        PROVE  VaultTypeOK'
    BY <1>7 DEF SetPaused, VaultTypeOK, yieldVars
  <1>8. ASSUME NEW newRate \in RateArgs, SetFeeRate(newRate)
        PROVE  VaultTypeOK'
    BY <1>8 DEF SetFeeRate, VaultTypeOK, yieldVars
  <1>9. ASSUME NEW newRate \in RateArgs, SetYieldRate(newRate)
        PROVE  VaultTypeOK'
    BY <1>9 DEF SetYieldRate, VaultTypeOK, yieldVars
  <1>10. CASE TimePasses
    BY <1>10 DEF TimePasses, VaultTypeOK, rateVars, yieldVars
  <1>11. CASE UNCHANGED vars
    BY <1>11 DEF vars, VaultTypeOK, rateVars, yieldVars
  <1> QED BY <1>1, <1>2, <1>3, <1>4, <1>5, <1>6, <1>7, <1>8, <1>9, <1>10, <1>11
          DEF Next, UserStep, ReserveStep, AdminStep

\* The vault keeps its lots, books and rates as their types say: no counter is
\* ever taken below zero and no lot is kept empty, whatever part of it a
\* withdrawal takes.
THEOREM VaultTypeCorrect == Spec => []VaultTypeOK
  BY TypeInit, TypeNext, PTL DEF Spec

-----------------------------------------------------------------------------
(* The books. *)

Principals == [k \in Buckets |-> SumLots(lots[k])]

\* The sums are of natural numbers over finite sets.
LEMMA BooksTyped ==
    ASSUME VaultTypeOK
    PROVE  /\ IsFiniteSet(Users) /\ \A u \in Users : owed[u] \in Nat
           /\ IsFiniteSet(Buckets)
           /\ \A k \in Buckets : Principals[k] = SumLots(lots[k]) /\ Principals[k] \in Nat
           /\ \A k \in Buckets :
                /\ UnlockedBalance(k) \in Nat /\ UnlockedBalance(k) <= SumLots(lots[k])
                /\ PendingYield(k) \in Nat
           /\ SumOver(Principals, Buckets) \in Nat
           /\ \A k \in Buckets : Principals[k] <= SumOver(Principals, Buckets)
           /\ SumOver(owed, Users) \in Nat
           /\ \A u \in Users : owed[u] <= SumOver(owed, Users)
  <1>1. IsFiniteSet(Users) /\ \A u \in Users : owed[u] \in Nat
    BY VaultAssumption DEF VaultTypeOK
  <1>2. IsFiniteSet(Buckets)
    BY BucketsFinite
  <1>3. ASSUME NEW k \in Buckets
        PROVE  /\ Principals[k] = SumLots(lots[k]) /\ Principals[k] \in Nat
               /\ UnlockedBalance(k) \in Nat /\ UnlockedBalance(k) <= SumLots(lots[k])
               /\ PendingYield(k) \in Nat
    <2>1. lots[k] \in Seq(DepositLot) /\ k[2] \in Nat
      BY BucketsFinite DEF VaultTypeOK
    <2> DEFINE list == lots[k]
               n == Len(list)
    <2>2. n \in 0 .. n
      BY <2>1
    <2>3. /\ SumLots(list) = Whole(list, n)
          /\ UnlockedBalance(k) = Ripe(list, n, k[2])
          /\ PendingYield(k) = Earned(list, n, k[2])
      BY <2>1, ListMeasures
    <2>4. /\ Whole(list, n) \in Nat /\ Ripe(list, n, k[2]) \in Nat
          /\ Earned(list, n, k[2]) \in Nat /\ Ripe(list, n, k[2]) <= Whole(list, n)
      <3> HIDE DEF list
      <3> QED BY <2>1, <2>2, MeasuresTyped DEF list
    <2>5. Principals[k] = SumLots(list)
      BY DEF Principals
    <2> QED BY <2>3, <2>4, <2>5
  <1> QED BY <1>1, <1>2, <1>3, SumNat

\* Lots replaced in one bucket change the sum by the difference.
LEMMA PrincipalsUpdate ==
    ASSUME VaultTypeOK, NEW k \in Buckets, NEW list \in Seq(DepositLot),
           SumLots(list) \in Int, lots' = [lots EXCEPT ![k] = list]
    PROVE  SumOver(Principals, Buckets)'
             = SumOver(Principals, Buckets) - SumLots(lots[k]) + SumLots(list)
  <1> DEFINE after == [j \in Buckets |-> SumLots(lots'[j])]
  <1>1. SumOver(Principals, Buckets)' = SumOver(after, Buckets)
    BY DEF Principals, SumLots, AmountsOf
  <1>2. /\ \A j \in Buckets : j # k => Principals[j] = after[j]
        /\ after[k] = SumLots(list)
    BY BooksTyped DEF VaultTypeOK
  <1>3. \A j \in Buckets : Principals[j] \in Int /\ after[j] \in Int
    BY <1>2, BooksTyped
  <1>4. IsFiniteSet(Buckets) /\ Principals[k] = SumLots(lots[k])
    BY BooksTyped
  <1> HIDE DEF after
  <1>5. SumOver(after, Buckets) = SumOver(Principals, Buckets) - Principals[k] + after[k]
    BY <1>2, <1>3, <1>4, SumUpdate
  <1> QED BY <1>1, <1>2, <1>4, <1>5

\* A change of what one user is owed changes the sum by as much.
LEMMA OwedUpdate ==
    ASSUME VaultTypeOK, NEW u \in Users, NEW amount \in Int,
           owed' = [owed EXCEPT ![u] = amount]
    PROVE  SumOver(owed, Users)' = SumOver(owed, Users) - owed[u] + amount
  <1>1. /\ \A j \in Users : j # u => owed[j] = owed'[j]
        /\ owed'[u] = amount
    BY DEF VaultTypeOK
  <1>2. \A j \in Users : owed[j] \in Int /\ owed'[j] \in Int
    BY <1>1 DEF VaultTypeOK
  <1>3. IsFiniteSet(Users)
    BY VaultAssumption
  <1>4. SumOver(owed', Users) = SumOver(owed, Users) - owed[u] + owed'[u]
    <2>1. ASSUME NEW f, NEW g,
                 \A j \in Users : f[j] \in Int /\ g[j] \in Int,
                 \A j \in Users : j # u => f[j] = g[j]
          PROVE  SumOver(g, Users) = SumOver(f, Users) - f[u] + g[u]
      BY <1>3, <2>1, SumUpdate
    <2> QED BY <1>1, <1>2, <2>1
  <1> QED BY <1>1, <1>4

BooksIInv == VaultTypeOK /\ BooksAddUp

\* The three totals, in the terms of the sums.
LEMMA BooksAre ==
    BooksAddUp <=> /\ totalPrincipal = SumOver(Principals, Buckets)
                   /\ totalOwed = SumOver(owed, Users)
                   /\ held = totalPrincipal + yieldReserve + donated
  BY DEF BooksAddUp, Principals

\* A step after which the totals are those sums.
LEMMA BooksAfter ==
    ASSUME totalPrincipal' = SumOver(Principals, Buckets)',
           totalOwed' = SumOver(owed, Users)',
           held' = totalPrincipal' + yieldReserve' + donated'
    PROVE  BooksAddUp'
  BY DEF BooksAddUp, Principals

LEMMA BooksInit == Init => BooksAddUp
  <1> SUFFICES ASSUME Init PROVE BooksAddUp
    OBVIOUS
  <1>1. \A k \in Buckets : Principals[k] = 0
    <2> SUFFICES ASSUME NEW k \in Buckets PROVE Principals[k] = 0
      OBVIOUS
    <2>1. lots[k] = <<>> /\ DOMAIN lots[k] = {}
      BY DEF Init
    <2> QED BY <2>1, SumEmpty DEF Principals, SumLots
  <1>2. SumOver(Principals, Buckets) = 0
    BY <1>1, BucketsFinite, SumZero
  <1>3. SumOver(owed, Users) = 0
    BY VaultAssumption, SumZero DEF Init
  <1> QED BY <1>2, <1>3, BooksAre DEF Init

\* Steps that leave lots and owed yields alone leave their sums alone.
LEMMA SumsKept ==
    /\ lots' = lots => SumOver(Principals, Buckets)' = SumOver(Principals, Buckets)
    /\ owed' = owed => SumOver(owed, Users)' = SumOver(owed, Users)
  BY DEF Principals, SumLots, AmountsOf

LEMMA DepositBooks ==
    ASSUME BooksIInv, NEW k \in Buckets, NEW amount \in Amounts, Deposit(k, amount)
    PROVE  BooksAddUp'
  <1> DEFINE lot == [amount |-> Credited(amount), timestamp |-> now]
             longer == Append(lots[k], lot)
  <1>1. amount \in Nat /\ Credited(amount) \in Int /\ Credited(amount) > 0
    <2>1. amount \in Nat
      BY VaultAssumption DEF Deposit
    <2> QED BY <2>1, CreditedInt DEF Deposit, BooksIInv
  <1>2. lot \in DepositLot /\ lots[k] \in Seq(DepositLot) /\ lots' = [lots EXCEPT ![k] = longer]
        /\ lot.amount = Credited(amount) /\ k[2] \in Nat
    BY <1>1, BucketsFinite DEF DepositLot, VaultTypeOK, BooksIInv, Deposit
  <1> HIDE DEF lot
  <1>3. /\ longer \in Seq(DepositLot)
        /\ SumLots(longer) = SumLots(lots[k]) + Credited(amount)
    <2>1. /\ longer \in Seq(DepositLot)
          /\ Whole(longer, Len(longer)) = Whole(lots[k], Len(lots[k])) + lot.amount
      BY <1>2, MeasuresOfAppend DEF BooksIInv
    <2>2. SumLots(longer) = Whole(longer, Len(longer))
      BY <2>1 DEF SumLots, Whole
    <2>3. SumLots(lots[k]) = Whole(lots[k], Len(lots[k]))
      BY <1>2, ListMeasures
    <2> QED BY <1>2, <2>1, <2>2, <2>3
  <1>4. SumLots(lots[k]) \in Nat /\ SumOver(Principals, Buckets) \in Nat
    BY BooksTyped DEF BooksIInv
  <1>5. SumOver(Principals, Buckets)' = SumOver(Principals, Buckets) + Credited(amount)
    <2>1. SumOver(Principals, Buckets)'
            = SumOver(Principals, Buckets) - SumLots(lots[k]) + SumLots(longer)
      <3>1. SumLots(longer) \in Int /\ VaultTypeOK
        BY <1>1, <1>3, <1>4 DEF BooksIInv
      <3> HIDE DEF longer
      <3> QED BY <1>2, <1>3, <3>1, PrincipalsUpdate
    <2> QED BY <1>1, <1>3, <1>4, <2>1
  <1>6. held' = held + Credited(amount) /\ totalPrincipal' = totalPrincipal + Credited(amount)
    <2>1. held' = held + amount - (amount * feeRate) \div BasisPoints
          /\ totalPrincipal' = totalPrincipal + Credited(amount)
      BY DEF Deposit
    <2>2. feeRate \in Nat /\ BasisPoints \in Nat /\ BasisPoints > 0 /\ held \in Nat
      BY VaultAssumption DEF VaultTypeOK, BooksIInv
    <2>3. amount * feeRate \in Nat
      BY <1>1, <2>2
    <2>4. (amount * feeRate) \div BasisPoints \in Nat
      BY <2>2, <2>3, DivNat
    <2> QED BY <1>1, <2>1, <2>2, <2>4 DEF Credited
  <1>7. UNCHANGED <<yieldReserve, owed, totalOwed, donated>>
    BY DEF Deposit, yieldVars
  <1>8. /\ totalPrincipal \in Nat /\ held \in Nat /\ yieldReserve \in Nat /\ donated \in Nat
        /\ totalPrincipal = SumOver(Principals, Buckets)
        /\ totalOwed = SumOver(owed, Users)
        /\ held = totalPrincipal + yieldReserve + donated
    BY BooksAre DEF BooksIInv, VaultTypeOK
  <1>9. held' = totalPrincipal' + yieldReserve' + donated'
    BY <1>1, <1>6, <1>7, <1>8
  <1> QED BY <1>5, <1>6, <1>7, <1>8, <1>9, BooksAfter, SumsKept

LEMMA WithdrawBooks ==
    ASSUME BooksIInv, NEW k \in Buckets, NEW amount \in Amounts, Withdraw(k, amount)
    PROVE  BooksAddUp'
  <1> DEFINE result == Consumed(k, amount)
             paid == PayFromReserve(result.yield)
             short == result.yield - paid
             list == result.kept
  <1>1. /\ amount \in Nat /\ amount <= UnlockedBalance(k) /\ amount + paid <= held
        /\ result.yield \in Nat /\ paid \in Nat
        /\ paid <= result.yield /\ paid <= yieldReserve
        /\ list \in Seq(DepositLot)
        /\ lots' = [lots EXCEPT ![k] = list]
        /\ yieldReserve' = yieldReserve - paid
        /\ owed' = [owed EXCEPT ![k[1]] = @ + short]
        /\ totalOwed' = totalOwed + short
        /\ held' = held - (amount + paid)
        /\ totalPrincipal' = IF amount < totalPrincipal THEN totalPrincipal - amount ELSE 0
    BY WithdrawIs DEF BooksIInv
  <1>2. donated' = donated
    BY DEF Withdraw
  <1>3. /\ SumLots(list) + amount = SumLots(lots[k]) /\ SumLots(list) \in Nat
    <2>1. /\ Whole(list, Len(list)) + amount = SumLots(lots[k])
          /\ Whole(list, Len(list)) \in Nat
      BY <1>1, WithdrawalComesTo DEF BooksIInv
    <2>2. SumLots(list) = Whole(list, Len(list))
      BY <1>1 DEF SumLots, Whole
    <2> QED BY <2>1, <2>2
  <1> HIDE DEF result, paid, list
  <1>4. /\ SumLots(lots[k]) \in Nat /\ UnlockedBalance(k) <= SumLots(lots[k])
        /\ UnlockedBalance(k) \in Nat
        /\ SumLots(lots[k]) <= SumOver(Principals, Buckets)
        /\ SumOver(Principals, Buckets) \in Nat /\ SumOver(owed, Users) \in Nat
    BY BooksTyped DEF BooksIInv
  <1>5. SumOver(Principals, Buckets)' = SumOver(Principals, Buckets) - amount
    <2>1. SumOver(Principals, Buckets)'
            = SumOver(Principals, Buckets) - SumLots(lots[k]) + SumLots(list)
      <3>1. SumLots(list) \in Int /\ VaultTypeOK
        BY <1>3 DEF BooksIInv
      <3> QED BY <1>1, <3>1, PrincipalsUpdate
    <2> QED BY <1>1, <1>3, <1>4, <2>1
  <1>6. short \in Nat
    BY <1>1
  <1> HIDE DEF short
  <1>7. SumOver(owed, Users)' = SumOver(owed, Users) + short
    <2>1. k[1] \in Users /\ owed[k[1]] \in Nat /\ VaultTypeOK
      BY BucketsFinite DEF VaultTypeOK, BooksIInv
    <2>2. owed' = [owed EXCEPT ![k[1]] = owed[k[1]] + short] /\ owed[k[1]] + short \in Int
      BY <1>1, <1>6, <2>1
    <2>3. SumOver(owed, Users)' = SumOver(owed, Users) - owed[k[1]] + (owed[k[1]] + short)
      BY <2>1, <2>2, OwedUpdate
    <2> QED BY <1>4, <1>6, <2>1, <2>3
  <1>8. /\ totalPrincipal \in Nat /\ held \in Nat /\ yieldReserve \in Nat /\ donated \in Nat
        /\ totalPrincipal = SumOver(Principals, Buckets)
        /\ totalOwed = SumOver(owed, Users)
        /\ held = totalPrincipal + yieldReserve + donated
    BY BooksAre DEF BooksIInv, VaultTypeOK
  <1>9. totalPrincipal' = totalPrincipal - amount
    <2>1. amount <= totalPrincipal
      BY <1>1, <1>4, <1>8
    <2> QED BY <1>1, <1>8, <2>1
  <1>10. held' = totalPrincipal' + yieldReserve' + donated'
    <2>1. held' = held - (amount + paid) /\ yieldReserve' = yieldReserve - paid
          /\ amount \in Nat /\ paid \in Nat
      BY <1>1
    <2> QED BY <1>2, <1>8, <1>9, <2>1
  <1> QED BY <1>1, <1>5, <1>7, <1>8, <1>9, <1>10, BooksAfter

LEMMA ClaimBooks ==
    ASSUME BooksIInv, NEW u \in Users, ClaimYield(u)
    PROVE  BooksAddUp'
  <1> DEFINE paid == PayFromReserve(owed[u])
  <1>1. /\ owed[u] \in Nat /\ owed[u] <= SumOver(owed, Users) /\ SumOver(owed, Users) \in Nat
        /\ VaultTypeOK
    BY BooksTyped DEF BooksIInv
  <1>2. paid \in Nat /\ paid <= owed[u] /\ paid <= yieldReserve
    BY <1>1, PaidWithin
  <1>3. /\ paid <= held
        /\ owed' = [owed EXCEPT ![u] = owed[u] - paid]
        /\ totalOwed' = IF paid < totalOwed THEN totalOwed - paid ELSE 0
        /\ yieldReserve' = yieldReserve - paid
        /\ held' = held - paid
        /\ UNCHANGED <<lots, totalPrincipal, donated>>
    BY DEF ClaimYield
  <1> HIDE DEF paid
  <1>4. SumOver(owed, Users)' = SumOver(owed, Users) - paid
    <2>1. owed[u] - paid \in Int
      BY <1>1, <1>2
    <2>2. SumOver(owed, Users)' = SumOver(owed, Users) - owed[u] + (owed[u] - paid)
      BY <1>1, <1>3, <2>1, OwedUpdate
    <2> QED BY <1>1, <1>2, <2>2
  <1>5. /\ totalPrincipal \in Nat /\ held \in Nat /\ yieldReserve \in Nat /\ donated \in Nat
        /\ totalPrincipal = SumOver(Principals, Buckets)
        /\ totalOwed = SumOver(owed, Users)
        /\ held = totalPrincipal + yieldReserve + donated
    BY BooksAre DEF BooksIInv, VaultTypeOK
  <1>6. totalOwed' = totalOwed - paid
    BY <1>1, <1>2, <1>3, <1>5
  <1>7. held' = totalPrincipal' + yieldReserve' + donated'
    BY <1>2, <1>3, <1>5
  <1> QED BY <1>3, <1>4, <1>5, <1>6, <1>7, BooksAfter, SumsKept

LEMMA BooksNext == BooksIInv /\ [Next]_vars => BooksAddUp'
  <1> SUFFICES ASSUME BooksIInv, [Next]_vars PROVE BooksAddUp'
    OBVIOUS
  <1>1. /\ totalPrincipal \in Nat /\ held \in Nat /\ yieldReserve \in Nat /\ donated \in Nat
        /\ totalPrincipal = SumOver(Principals, Buckets)
        /\ totalOwed = SumOver(owed, Users)
        /\ held = totalPrincipal + yieldReserve + donated
    BY BooksAre DEF BooksIInv, VaultTypeOK
  <1>2. ASSUME NEW k \in Buckets, NEW amount \in Amounts, Deposit(k, amount)
        PROVE  BooksAddUp'
    BY <1>2, DepositBooks
  <1>3. ASSUME NEW k \in Buckets, NEW amount \in Amounts, Withdraw(k, amount)
        PROVE  BooksAddUp'
    BY <1>3, WithdrawBooks
  <1>4. ASSUME NEW u \in Users, ClaimYield(u)
        PROVE  BooksAddUp'
    BY <1>4, ClaimBooks
  <1>5. ASSUME NEW amount \in Amounts,
               FundYieldReserve(amount) \/ WithdrawYieldReserve(amount) \/ Donate(amount)
        PROVE  BooksAddUp'
    <2>1. amount \in Int
      BY VaultAssumption
    <2>2. /\ UNCHANGED <<lots, totalPrincipal, owed, totalOwed>>
          /\ \/ held' = held + amount /\ yieldReserve' = yieldReserve + amount /\ donated' = donated
             \/ held' = held - amount /\ yieldReserve' = yieldReserve - amount /\ donated' = donated
             \/ held' = held + amount /\ yieldReserve' = yieldReserve /\ donated' = donated + amount
      BY <1>5 DEF FundYieldReserve, WithdrawYieldReserve, Donate, yieldVars
    <2>3. held' = totalPrincipal' + yieldReserve' + donated'
      BY <1>1, <2>1, <2>2
    <2> QED BY <1>1, <2>2, <2>3, BooksAfter, SumsKept
  <1>6. CASE UNCHANGED <<lots, totalPrincipal, yieldReserve, owed, totalOwed, held, donated>>
    BY <1>1, <1>6, BooksAfter, SumsKept
  <1>7. ASSUME \/ \E value \in BOOLEAN : SetPaused(value)
               \/ \E newRate \in RateArgs : SetFeeRate(newRate) \/ SetYieldRate(newRate)
               \/ TimePasses \/ UNCHANGED vars
        PROVE  UNCHANGED <<lots, totalPrincipal, yieldReserve, owed, totalOwed, held, donated>>
    BY <1>7 DEF SetPaused, SetFeeRate, SetYieldRate, TimePasses, vars, yieldVars
  <1> QED BY <1>2, <1>3, <1>4, <1>5, <1>6, <1>7 DEF Next, UserStep, ReserveStep, AdminStep

\* AC-007: whatever is deposited, withdrawn in part, funded, claimed in part
\* and given away, the totals the vault keeps are what the lots and the owed
\* yields of all users add up to, and every token in the vault is principal,
\* yield reserve or a plain transfer.
THEOREM VaultBooksAddUp == Spec => []BooksAddUp
  <1>1. Init => BooksIInv
    BY TypeInit, BooksInit DEF BooksIInv
  <1>2. BooksIInv /\ [Next]_vars => BooksIInv'
    BY TypeNext, BooksNext DEF BooksIInv
  <1>3. BooksIInv => BooksAddUp
    BY DEF BooksIInv
  <1> QED BY <1>1, <1>2, <1>3, PTL DEF Spec

-----------------------------------------------------------------------------
(* What users can count on. *)

\* AC-007, "principal is always returned in full": a call that takes out all
\* that is unlocked in a bucket passes every check of withdraw, for the vault
\* holds the principal of everybody and the reserve besides.
THEOREM MaturedIsReturnable == Spec => []MaturedReturnable
  <1>1. BooksIInv => MaturedReturnable
    <2> SUFFICES ASSUME BooksIInv, ~paused, NEW k \in Buckets, UnlockedBalance(k) > 0
                 PROVE  Withdrawable(k, UnlockedBalance(k))
      BY DEF MaturedReturnable
    <2> DEFINE amount == UnlockedBalance(k)
               result == Consumed(k, amount)
               paid == PayFromReserve(result.yield)
    <2>1. /\ amount \in Nat /\ amount <= SumLots(lots[k]) /\ SumLots(lots[k]) \in Nat
          /\ SumLots(lots[k]) <= SumOver(Principals, Buckets)
          /\ SumOver(Principals, Buckets) \in Nat
      BY BooksTyped DEF BooksIInv
    <2>2. result.left = 0 /\ result.yield \in Nat
      <3>1. amount <= UnlockedBalance(k)
        BY <2>1
      <3> HIDE DEF amount
      <3> QED BY <2>1, <3>1, WithdrawalComesTo DEF BooksIInv
    <2>3. paid \in Nat /\ paid <= yieldReserve
      <3> HIDE DEF result
      <3> QED BY <2>2, PaidWithin DEF BooksIInv
    <2>4. /\ held = totalPrincipal + yieldReserve + donated
          /\ totalPrincipal = SumOver(Principals, Buckets)
          /\ totalPrincipal \in Nat /\ yieldReserve \in Nat /\ donated \in Nat
      BY BooksAre DEF BooksIInv, VaultTypeOK
    <2>5. amount + paid <= held
      <3> HIDE DEF amount, paid
      <3> QED BY <2>1, <2>3, <2>4
    <2>6. amount <= UnlockedBalance(k) /\ amount > 0
      BY <2>1
    <2> QED BY <2>2, <2>5, <2>6 DEF Withdrawable
  <1>2. Init => BooksIInv
    BY TypeInit, BooksInit DEF BooksIInv
  <1>3. BooksIInv /\ [Next]_vars => BooksIInv'
    BY TypeNext, BooksNext DEF BooksIInv
  <1> QED BY <1>1, <1>2, <1>3, PTL DEF Spec

\* The unlocked balance and pending yield of a bucket after a step, by the
\* lots it has then.
LEMMA BalanceAfter ==
    ASSUME NEW k \in Buckets, NEW list \in Seq(DepositLot), lots'[k] = list, now' = now
    PROVE  /\ UnlockedBalance(k)' = Ripe(list, Len(list), k[2])
           /\ yieldRate' = yieldRate => PendingYield(k)' = Earned(list, Len(list), k[2])
  <1>1. DOMAIN list = 1 .. Len(list)
    OBVIOUS
  <1>2. UnlockedAt(k)' = Ready(list, Len(list), k[2])
    BY <1>1 DEF UnlockedAt, Ready, Unlocked
  <1>3. AmountsOf(lots[k])' = AmountsOf(list)
    BY DEF AmountsOf
  <1>4. yieldRate' = yieldRate => YieldsOf(lots[k])' = YieldsOf(list)
    BY DEF YieldsOf, CalculateYield
  <1> QED BY <1>2, <1>3, <1>4 DEF UnlockedBalance, PendingYield, Ripe, Earned

\* Only a withdrawal from a bucket takes from its unlocked balance.
LEMMA BalanceTakenByWithdraw ==
    ASSUME VaultTypeOK, [Next]_vars, NEW k \in Buckets,
           UnlockedBalance(k)' < UnlockedBalance(k)
    PROVE  \E amount \in Amounts : Withdraw(k, amount)
  <1> DEFINE list == lots[k]
             balance == UnlockedBalance(k)
  <1>1. list \in Seq(DepositLot) /\ k[2] \in Nat /\ balance \in Nat
    BY BooksTyped, BucketsFinite DEF VaultTypeOK
  <1>2. balance = Ripe(list, Len(list), k[2])
    BY <1>1, ListMeasures
  <1>3. ASSUME now' = now, lots'[k] = lots[k] PROVE FALSE
    <2>1. UnlockedBalance(k)' = balance
      BY <1>1, <1>2, <1>3, BalanceAfter
    <2> QED BY <1>1, <2>1
  <1>4. ASSUME NEW j \in Buckets, NEW amount \in Amounts, Deposit(j, amount) PROVE FALSE
    <2> DEFINE lot == [amount |-> Credited(amount), timestamp |-> now]
    <2>1. lots' = [lots EXCEPT ![j] = Append(@, lot)] /\ now' = now
      BY <1>4 DEF Deposit
    <2>2. CASE j # k
      BY <1>3, <2>1, <2>2 DEF VaultTypeOK
    <2>3. CASE j = k
      <3>1. amount \in Nat /\ Credited(amount) \in Int /\ Credited(amount) > 0
        <4>1. amount \in Nat
          BY <1>4, VaultAssumption DEF Deposit
        <4> QED BY <1>4, <4>1, CreditedInt DEF Deposit
      <3>2. lot \in DepositLot
        BY <3>1 DEF DepositLot, VaultTypeOK
      <3> DEFINE longer == Append(list, lot)
      <3>3. lots'[k] = longer
        BY <2>1, <2>3 DEF VaultTypeOK
      <3> HIDE DEF lot, list
      <3>4. /\ longer \in Seq(DepositLot)
            /\ \/ Ripe(longer, Len(longer), k[2]) = Ripe(list, Len(list), k[2]) + lot.amount
               \/ Ripe(longer, Len(longer), k[2]) = Ripe(list, Len(list), k[2])
        BY <1>1, <3>2, MeasuresOfAppend
      <3>5. UnlockedBalance(k)' = Ripe(longer, Len(longer), k[2])
        <4> HIDE DEF longer
        <4> QED BY <2>1, <3>3, <3>4, BalanceAfter
      <3>6. lot.amount \in Nat
        BY <3>2 DEF DepositLot
      <3>7. UnlockedBalance(k)' < balance
        OBVIOUS
      <3> HIDE DEF longer, balance
      <3> QED BY <1>1, <1>2, <3>4, <3>5, <3>6, <3>7
    <2> QED BY <2>2, <2>3
  <1>5. ASSUME TimePasses PROVE FALSE
    <2>1. lots' = lots /\ now' = now + 1 /\ now \in Nat
      BY <1>5 DEF TimePasses, VaultTypeOK
    <2>2. UnlockedAt(k) \subseteq UnlockedAt(k)'
      <3> SUFFICES ASSUME NEW n \in UnlockedAt(k) PROVE n \in UnlockedAt(k)'
        OBVIOUS
      <3>1. n \in DOMAIN lots[k] /\ now >= lots[k][n].timestamp + k[2]
        BY DEF UnlockedAt, Unlocked
      <3>2. lots[k][n].timestamp \in Nat
        <4>1. lots[k][n] \in DepositLot
          BY <1>1, <3>1
        <4> QED BY <4>1 DEF DepositLot
      <3>3. now' >= lots[k][n].timestamp + k[2]
        BY <1>1, <2>1, <3>1, <3>2
      <3> QED BY <2>1, <3>1, <3>3 DEF UnlockedAt, Unlocked
    <2> DEFINE f == AmountsOf(list)
               S == UnlockedAt(k)'
    <2>3. IsFiniteSet(S) /\ \A n \in S : f[n] \in Nat
      <3>1. S \subseteq 1 .. Len(list)
        BY <1>1, <2>1 DEF UnlockedAt
      <3>2. /\ IsFiniteSet(1 .. Len(list))
            /\ \A n \in 1 .. Len(list) : f[n] \in Nat
        <4>1. Len(list) \in 0 .. Len(list)
          BY <1>1
        <4> HIDE DEF list
        <4> QED BY <1>1, <4>1, MeasuresTyped
      <3> QED BY <3>1, <3>2, FS_Subset
    <2>4. UnlockedBalance(k)' = SumOver(f, S)
      BY <2>1 DEF UnlockedBalance, AmountsOf
    <2> HIDE DEF S
    <2>5. UnlockedAt(k) \in SUBSET S
      BY <2>2 DEF S
    <2>6. SumOver(f, UnlockedAt(k)) <= SumOver(f, S)
      <3> HIDE DEF f
      <3> QED BY <2>3, <2>5, SumSubset
    <2>7. SumOver(f, S) \in Nat
      <3> HIDE DEF f
      <3> QED BY <2>3, SumNat
    <2>8. balance = SumOver(f, UnlockedAt(k))
      BY DEF UnlockedBalance
    <2>9. UnlockedBalance(k)' < balance
      OBVIOUS
    <2> HIDE DEF balance, f
    <2> QED BY <1>1, <2>4, <2>6, <2>7, <2>8, <2>9
  <1>6. ASSUME NEW j \in Buckets, NEW amount \in Amounts, Withdraw(j, amount), j # k
        PROVE  FALSE
    BY <1>3, <1>6 DEF Withdraw, VaultTypeOK
  <1>7. ASSUME NEW u \in Users, ClaimYield(u) PROVE FALSE
    BY <1>3, <1>7 DEF ClaimYield
  <1>8. ASSUME NEW amount \in Amounts,
               FundYieldReserve(amount) \/ WithdrawYieldReserve(amount) \/ Donate(amount)
        PROVE  FALSE
    BY <1>3, <1>8 DEF FundYieldReserve, WithdrawYieldReserve, Donate
  <1>9. ASSUME \/ \E value \in BOOLEAN : SetPaused(value)
               \/ \E newRate \in RateArgs : SetFeeRate(newRate) \/ SetYieldRate(newRate)
               \/ UNCHANGED vars
        PROVE  FALSE
    BY <1>3, <1>9 DEF SetPaused, SetFeeRate, SetYieldRate, vars
  <1> QED BY <1>4, <1>5, <1>6, <1>7, <1>8, <1>9
          DEF Next, UserStep, ReserveStep, AdminStep

\* withdraw and get_pending_yield: however a bucket is taken out, whole or
\* piece by piece, a withdrawal earns no more than was pending before it, and
\* one that takes out the rest earns all of it.
THEOREM PendingYieldIsKept == Spec => PendingYieldKept
  <1> DEFINE accrued == yieldReserve - yieldReserve' + totalOwed' - totalOwed
             Kept == \A k \in Buckets :
                       UnlockedBalance(k)' < UnlockedBalance(k)
                         => /\ accrued + PendingYield(k)' <= PendingYield(k)
                            /\ UnlockedBalance(k)' = 0 => accrued = PendingYield(k)
  <1>1. ASSUME VaultTypeOK, [Next]_vars PROVE Kept
    <2> SUFFICES ASSUME NEW k \in Buckets, UnlockedBalance(k)' < UnlockedBalance(k)
                 PROVE  /\ accrued + PendingYield(k)' <= PendingYield(k)
                        /\ UnlockedBalance(k)' = 0 => accrued = PendingYield(k)
      OBVIOUS
    <2>1. PICK amount \in Amounts : Withdraw(k, amount)
      BY <1>1, BalanceTakenByWithdraw
    <2> DEFINE result == Consumed(k, amount)
               paid == PayFromReserve(result.yield)
               list == result.kept
    <2>2. /\ amount \in Nat /\ amount <= UnlockedBalance(k)
          /\ result.yield \in Nat /\ paid \in Nat
          /\ list \in Seq(DepositLot)
          /\ lots' = [lots EXCEPT ![k] = list]
          /\ yieldReserve' = yieldReserve - paid
          /\ totalOwed' = totalOwed + (result.yield - paid)
      BY <1>1, <2>1, WithdrawIs
    <2>3. now' = now /\ yieldRate' = yieldRate
      BY <2>1 DEF Withdraw, rateVars
    <2>4. /\ result.yield + Earned(list, Len(list), k[2]) <= PendingYield(k)
          /\ Ripe(list, Len(list), k[2]) = 0 => result.yield = PendingYield(k)
      BY <1>1, <2>2, WithdrawalComesTo
    <2> HIDE DEF result, paid, list
    <2>5. /\ UnlockedBalance(k)' = Ripe(list, Len(list), k[2])
          /\ PendingYield(k)' = Earned(list, Len(list), k[2])
      <3>1. lots'[k] = list
        BY <1>1, <2>2 DEF VaultTypeOK
      <3> QED BY <2>2, <2>3, <3>1, BalanceAfter
    <2>6. accrued = result.yield
      BY <1>1, <2>2 DEF VaultTypeOK
    <2> QED BY <2>4, <2>5, <2>6
  <1>2. PendingYieldKept <=> [][Kept]_vars
    BY DEF PendingYieldKept
  <1> HIDE DEF Kept
  <1> QED BY <1>1, <1>2, VaultTypeCorrect, PTL DEF Spec
=============================================================================
