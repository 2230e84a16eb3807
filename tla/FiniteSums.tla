---------------------------- MODULE FiniteSums ------------------------------
(***************************************************************************)
(* Facts about SumOver, the sum of a function over a finite set, which the *)
(* accounting invariants of the contracts add balances up with.  The       *)
(* library states such facts with operator parameters; here they are about *)
(* one summation operator and every function, so that first-order provers  *)
(* can use them.  The induction is over the subsets of a finite set: of a  *)
(* non-empty family of subsets, one has no strict subset in the family.    *)
(***************************************************************************)
EXTENDS Sums, Functions, FiniteSetTheorems, WellFoundedInduction, TLAPS

\* A non-empty family of subsets of a finite set has a minimal member.
LEMMA MinimalSubset ==
    ASSUME NEW S, IsFiniteSet(S), NEW Family \in SUBSET SUBSET S, Family # {}
    PROVE  \E T \in Family : \A U \in Family : U \subseteq T => U = T
<1>1. IsWellFoundedOn(StrictSubsetOrdering(S), SUBSET S)
  BY FS_StrictSubsetOrderingWellFounded, FS_FiniteSubsetsOfFinite
<1>2. PICK T \in Family : \A U \in Family : ~(<<U, T>> \in StrictSubsetOrdering(S))
  BY <1>1, WFMin
<1>3. ASSUME NEW U \in Family, U \subseteq T, U # T
      PROVE  FALSE
  <2>1. <<U, T>> \in StrictSubsetOrdering(S)
    BY <1>3 DEF StrictSubsetOrdering
  <2> QED BY <2>1, <1>2
<1> QED BY <1>3

\* A non-empty set of naturals has a least member.
LEMMA LeastNatural ==
    ASSUME NEW B \in SUBSET Nat, B # {}
    PROVE  \E n \in B : \A m \in B : n <= m
<1> DEFINE Less == {pair \in Nat \X Nat : pair[1] < pair[2]}
<1>1. Less = OpToRel(<, Nat)
  BY Zenon DEF OpToRel
<1>2. IsWellFoundedOn(Less, Nat)
  BY <1>1, NatLessThanWellFounded
<1>3. PICK n \in B : \A m \in B : ~(<<m, n>> \in Less)
  BY <1>2, WFMin
<1>4. ASSUME NEW m \in B PROVE n <= m
  <2>1. <<m, n>> \notin Less
    BY <1>3
  <2> QED BY <2>1
<1> QED BY <1>4

\* What holds at 0 and is kept by counting holds as far as one counts.
LEMMA CountingUp ==
    ASSUME NEW bound \in Nat, NEW Good, 0 \in Good,
           \A n \in 0 .. bound - 1 : n \in Good => n + 1 \in Good
    PROVE  \A n \in 0 .. bound : n \in Good
<1> DEFINE Bad == {n \in 0 .. bound : n \notin Good}
<1> SUFFICES ASSUME Bad # {} PROVE FALSE
  OBVIOUS
<1>1. PICK n \in Bad : \A m \in Bad : n <= m
  <2>1. Bad \in SUBSET Nat
    OBVIOUS
  <2> HIDE DEF Bad
  <2> QED BY <2>1, LeastNatural
<1>2. n \in 0 .. bound /\ n \notin Good
  OBVIOUS
<1>3. n \in 1 .. bound
  BY <1>2
<1>4. n - 1 \in 0 .. bound - 1 /\ n - 1 \in 0 .. bound /\ (n - 1) + 1 = n /\ ~(n <= n - 1)
  BY <1>3
<1>5. n - 1 \in Good
  BY <1>1, <1>4
<1> HIDE DEF Bad
<1>6. (n - 1) + 1 \in Good
  BY <1>4, <1>5
<1> QED BY <1>2, <1>4, <1>6

-----------------------------------------------------------------------------
(* The recursion behind SumOver *)

\* The element of T that the summation takes first.
Chosen(T) == CHOOSE x \in T : TRUE

\* One unfolding of the recursion, on the family D of sets.
Unfolded(f, g, D) ==
    [T \in D |-> IF T = {} THEN 0 ELSE f[Chosen(T)] + g[T \ {Chosen(T)}]]

SmallSubsets(S, n) == {T \in SUBSET S : Cardinality(T) <= n}

LEMMA ChosenIn == ASSUME NEW T, T # {} PROVE Chosen(T) \in T
BY DEF Chosen

LEMMA SubsetsOfFinite ==
    ASSUME NEW S, IsFiniteSet(S), NEW T \in SUBSET S
    PROVE  /\ IsFiniteSet(T)
           /\ Cardinality(T) \in Nat
           /\ Cardinality(T) <= Cardinality(S)
           /\ \A x \in T : Cardinality(T \ {x}) = Cardinality(T) - 1
           /\ Cardinality(T) = 0 <=> T = {}
BY FS_Subset, FS_CardinalityType, FS_RemoveElement, FS_EmptySet

\* The recursion has a solution on the subsets of a finite set.
LEMMA RecursionSolvable ==
    ASSUME NEW S, IsFiniteSet(S), NEW f
    PROVE  \E g : g = Unfolded(f, g, SUBSET S)
<1> DEFINE Solvable(n) == \E g : g = Unfolded(f, g, SmallSubsets(S, n))
           Bad == {n \in Nat : ~Solvable(n)}
<1>1. Solvable(0)
  <2> DEFINE g == [T \in SmallSubsets(S, 0) |-> 0]
  <2>1. \A T \in SmallSubsets(S, 0) : T = {}
    BY SubsetsOfFinite DEF SmallSubsets
  <2>2. g = Unfolded(f, g, SmallSubsets(S, 0))
    BY <2>1 DEF Unfolded
  <2> QED BY <2>2
<1>2. ASSUME NEW n \in Nat, Solvable(n) PROVE Solvable(n + 1)
  <2>1. PICK g : g = Unfolded(f, g, SmallSubsets(S, n))
    BY <1>2
  <2> DEFINE h == Unfolded(f, g, SmallSubsets(S, n + 1))
  <2>2. ASSUME NEW T \in SmallSubsets(S, n + 1), T # {}
        PROVE  T \ {Chosen(T)} \in SmallSubsets(S, n) \cap SmallSubsets(S, n + 1)
    BY <2>2, ChosenIn, SubsetsOfFinite DEF SmallSubsets
  <2>3. ASSUME NEW T \in SmallSubsets(S, n)
        PROVE  T \in SmallSubsets(S, n + 1)
    BY SubsetsOfFinite DEF SmallSubsets
  <2>4. \A T \in SmallSubsets(S, n) : h[T] = g[T]
    BY <2>1, <2>3 DEF Unfolded
  <2>5. h = Unfolded(f, h, SmallSubsets(S, n + 1))
    BY <2>2, <2>4 DEF Unfolded
  <2> QED BY <2>5
<1>3. Bad = {}
  <2> SUFFICES ASSUME Bad # {} PROVE FALSE
    OBVIOUS
  <2>1. PICK n \in Bad : \A m \in Bad : n <= m
    BY LeastNatural
  <2>2. n # 0 /\ n \in Nat /\ ~Solvable(n)
    BY <1>1
  <2>3. n - 1 \in Nat /\ Solvable(n - 1) /\ (n - 1) + 1 = n
    BY <2>1, <2>2
  <2> QED BY <1>2, <2>2, <2>3
<1>4. Cardinality(S) \in Nat /\ SmallSubsets(S, Cardinality(S)) = SUBSET S
  BY SubsetsOfFinite, FS_CardinalityType DEF SmallSubsets
<1> HIDE DEF Solvable
<1>5. Solvable(Cardinality(S))
  BY <1>3, <1>4
<1> QED BY <1>4, <1>5 DEF Solvable

\* Any two solutions agree wherever both are defined.
LEMMA RecursionUnique ==
    ASSUME NEW S, NEW R, IsFiniteSet(S), NEW f, NEW g, NEW h,
           g = Unfolded(f, g, SUBSET S), h = Unfolded(f, h, SUBSET R)
    PROVE  \A T \in SUBSET (S \cap R) : g[T] = h[T]
<1> DEFINE Bad == {T \in SUBSET (S \cap R) : g[T] # h[T]}
<1> SUFFICES ASSUME Bad # {} PROVE FALSE
  OBVIOUS
<1>1. IsFiniteSet(S \cap R)
  BY FS_Subset
<1>2. PICK T \in Bad : \A U \in Bad : U \subseteq T => U = T
  <2>1. Bad \in SUBSET SUBSET (S \cap R)
    OBVIOUS
  <2> HIDE DEF Bad
  <2> QED BY <1>1, <2>1, MinimalSubset
<1>3. T # {}
  BY DEF Unfolded
<1> DEFINE U == T \ {Chosen(T)}
<1>4. U \subseteq T /\ U # T /\ U \in SUBSET (S \cap R)
  BY <1>3, ChosenIn
<1>5. g[U] = h[U]
  BY <1>2, <1>4
<1>6. g[T] = f[Chosen(T)] + g[U] /\ h[T] = f[Chosen(T)] + h[U]
  BY <1>3 DEF Unfolded
<1> QED BY <1>5, <1>6

\* SumOver satisfies its own recursion.
LEMMA SumOverRecursion ==
    ASSUME NEW S, IsFiniteSet(S), NEW f
    PROVE  /\ SumOver(f, {}) = 0
           /\ S # {} => SumOver(f, S) = f[Chosen(S)] + SumOver(f, S \ {Chosen(S)})
<1> DEFINE G(R) == CHOOSE g : g = Unfolded(f, g, SUBSET R)
<1>1. \A R : SumOver(f, R) = G(R)[R]
  BY DEF SumOver, MapThenSumSet, MapThenFoldSet, Unfolded, Chosen
<1>2. ASSUME NEW R, IsFiniteSet(R) PROVE G(R) = Unfolded(f, G(R), SUBSET R)
  BY <1>2, RecursionSolvable
<1> HIDE DEF G
<1>3. SumOver(f, {}) = 0
  BY <1>1, <1>2, FS_EmptySet DEF Unfolded
<1>4. ASSUME S # {}
      PROVE  SumOver(f, S) = f[Chosen(S)] + SumOver(f, S \ {Chosen(S)})
  <2> DEFINE R == S \ {Chosen(S)}
  <2>1. IsFiniteSet(R) /\ R \subseteq S
    BY FS_RemoveElement
  <2>2. G(S)[S] = f[Chosen(S)] + G(S)[R]
    BY <1>2, <1>4 DEF Unfolded
  <2>3. G(S)[R] = G(R)[R]
    <3>1. /\ G(S) = Unfolded(f, G(S), SUBSET S)
          /\ G(R) = Unfolded(f, G(R), SUBSET R)
      BY <1>2, <2>1
    <3>2. R \in SUBSET (S \cap R)
      BY <2>1
    <3> HIDE DEF R
    <3> QED BY <3>1, <3>2, RecursionUnique
  <2> QED BY <1>1, <2>2, <2>3
<1> QED BY <1>3, <1>4

-----------------------------------------------------------------------------
(* What a sum is worth, and how it changes *)

\* A sum of integers is an integer, and any member may be taken first.
LEMMA SumRemove ==
    ASSUME NEW S, IsFiniteSet(S), NEW f, \A x \in S : f[x] \in Int
    PROVE  /\ SumOver(f, S) \in Int
           /\ \A x \in S : SumOver(f, S) = f[x] + SumOver(f, S \ {x})
<1> DEFINE Good(T) == /\ SumOver(f, T) \in Int
                      /\ \A x \in T : SumOver(f, T) = f[x] + SumOver(f, T \ {x})
           Bad == {T \in SUBSET S : ~Good(T)}
<1> SUFFICES ASSUME Bad # {} PROVE FALSE
  OBVIOUS
<1>1. PICK T \in Bad : \A U \in Bad : U \subseteq T => U = T
  <2>1. Bad \in SUBSET SUBSET S
    OBVIOUS
  <2> HIDE DEF Bad
  <2> QED BY <2>1, MinimalSubset
<1>2. T \in SUBSET S /\ IsFiniteSet(T)
  BY FS_Subset
<1>3. ASSUME NEW U, U \subseteq T, U # T PROVE Good(U)
  BY <1>1, <1>2, <1>3
<1> HIDE DEF Good
<1>4. T # {}
  <2>1. Good({})
    BY SumOverRecursion, FS_EmptySet DEF Good
  <2> QED BY <2>1
<1> DEFINE c == Chosen(T)
<1>5. c \in T
  BY <1>4, ChosenIn
<1>6. SumOver(f, T) = f[c] + SumOver(f, T \ {c})
  BY <1>2, <1>4, SumOverRecursion
<1> HIDE DEF c
<1>7. Good(T \ {c})
  BY <1>3, <1>5
<1>8. SumOver(f, T) \in Int
  BY <1>2, <1>5, <1>6, <1>7 DEF Good
<1>9. ASSUME NEW x \in T PROVE SumOver(f, T) = f[x] + SumOver(f, T \ {x})
  <2>1. CASE x = c
    BY <2>1, <1>6
  <2>2. CASE x # c
    <3> DEFINE R == (T \ {c}) \ {x}
    <3>1. x \in T \ {c} /\ c \in T \ {x} /\ R = (T \ {x}) \ {c}
      BY <2>2, <1>5
    <3>2. Good(T \ {x}) /\ Good(R)
      BY <1>3
    <3>3. SumOver(f, T \ {c}) = f[x] + SumOver(f, R)
      BY <3>1, <1>7 DEF Good
    <3>4. SumOver(f, T \ {x}) = f[c] + SumOver(f, R)
      BY <3>1, <3>2 DEF Good
    <3>5. f[x] \in Int /\ f[c] \in Int /\ SumOver(f, R) \in Int
      BY <3>2, <1>2, <1>5 DEF Good
    <3> QED BY <3>3, <3>4, <3>5, <1>6
  <2> QED BY <2>1, <2>2
<1>10. Good(T)
  BY <1>8, <1>9 DEF Good
<1> QED BY <1>10

LEMMA SumInt ==
    ASSUME NEW S, IsFiniteSet(S), NEW f, \A x \in S : f[x] \in Int
    PROVE  SumOver(f, S) \in Int
BY SumRemove

LEMMA SumEmpty == ASSUME NEW f PROVE SumOver(f, {}) = 0
BY SumOverRecursion, FS_EmptySet

\* A sum is monotone in the function.
LEMMA SumMonotone ==
    ASSUME NEW S, IsFiniteSet(S), NEW f, NEW g,
           \A x \in S : f[x] \in Int /\ g[x] \in Int /\ f[x] <= g[x]
    PROVE  SumOver(f, S) <= SumOver(g, S)
<1> DEFINE Bad == {T \in SUBSET S : ~(SumOver(f, T) <= SumOver(g, T))}
<1> SUFFICES ASSUME Bad # {} PROVE FALSE
  OBVIOUS
<1>1. PICK T \in Bad : \A U \in Bad : U \subseteq T => U = T
  <2>1. Bad \in SUBSET SUBSET S
    OBVIOUS
  <2> HIDE DEF Bad
  <2> QED BY <2>1, MinimalSubset
<1>2. T \in SUBSET S /\ IsFiniteSet(T)
  BY FS_Subset
<1>3. T # {}
  <2> SUFFICES ASSUME T = {} PROVE FALSE
    OBVIOUS
  <2>1. SumOver(f, T) = 0 /\ SumOver(g, T) = 0
    BY SumEmpty
  <2>2. ~(SumOver(f, T) <= SumOver(g, T))
    BY <1>1
  <2> HIDE DEF Bad
  <2> QED BY <2>1, <2>2
<1>4. PICK x \in T : TRUE
  BY <1>3
<1> DEFINE U == T \ {x}
<1>5. IsFiniteSet(U) /\ U \in SUBSET S
  BY <1>2, FS_Subset
<1>6. SumOver(f, U) <= SumOver(g, U)
  BY <1>1, <1>2
<1>7. SumOver(f, T) = f[x] + SumOver(f, U) /\ SumOver(g, T) = g[x] + SumOver(g, U)
  BY <1>2, SumRemove
<1>8. SumOver(f, U) \in Int /\ SumOver(g, U) \in Int
  BY <1>5, SumInt
<1>9. f[x] \in Int /\ g[x] \in Int /\ f[x] <= g[x]
  BY <1>2
<1> HIDE DEF U
<1>10. SumOver(f, T) <= SumOver(g, T)
  BY <1>6, <1>7, <1>8, <1>9
<1> QED BY <1>10

\* Only the values on S matter.
LEMMA SumCongruent ==
    ASSUME NEW S, IsFiniteSet(S), NEW f, NEW g,
           \A x \in S : f[x] \in Int /\ f[x] = g[x]
    PROVE  SumOver(f, S) = SumOver(g, S)
<1>1. SumOver(f, S) <= SumOver(g, S)
  BY SumMonotone
<1>2. SumOver(g, S) <= SumOver(f, S)
  BY SumMonotone
<1>3. SumOver(f, S) \in Int /\ SumOver(g, S) \in Int
  BY SumInt
<1> QED BY <1>1, <1>2, <1>3

\* Two functions that differ at one member of S differ by that much in sum.
LEMMA SumUpdate ==
    ASSUME NEW S, IsFiniteSet(S), NEW x \in S, NEW f, NEW g,
           \A y \in S : f[y] \in Int /\ g[y] \in Int,
           \A y \in S : y # x => f[y] = g[y]
    PROVE  SumOver(g, S) = SumOver(f, S) - f[x] + g[x]
<1> DEFINE U == S \ {x}
<1>1. IsFiniteSet(U) /\ U \subseteq S
  BY FS_RemoveElement
<1>2. SumOver(f, U) = SumOver(g, U)
  BY <1>1, SumCongruent
<1>3. SumOver(f, S) = f[x] + SumOver(f, U) /\ SumOver(g, S) = g[x] + SumOver(g, U)
  BY SumRemove
<1>4. SumOver(f, U) \in Int /\ f[x] \in Int /\ g[x] \in Int
  BY <1>1, SumInt
<1> HIDE DEF U
<1> QED BY <1>2, <1>3, <1>4

\* One more member adds its value.
LEMMA SumAddMember ==
    ASSUME NEW S, IsFiniteSet(S), NEW f, NEW x, x \notin S,
           \A y \in S \cup {x} : f[y] \in Int
    PROVE  SumOver(f, S \cup {x}) = SumOver(f, S) + f[x]
<1>1. IsFiniteSet(S \cup {x}) /\ (S \cup {x}) \ {x} = S
  BY FS_AddElement
<1>2. SumOver(f, S \cup {x}) = f[x] + SumOver(f, S)
  BY <1>1, SumRemove
<1>3. SumOver(f, S) \in Int /\ f[x] \in Int
  BY SumInt
<1> QED BY <1>2, <1>3

\* A sum of zeros is zero.
LEMMA SumZero ==
    ASSUME NEW S, IsFiniteSet(S), NEW f, \A x \in S : f[x] = 0
    PROVE  SumOver(f, S) = 0
<1> DEFINE Bad == {T \in SUBSET S : SumOver(f, T) # 0}
<1> SUFFICES ASSUME Bad # {} PROVE FALSE
  OBVIOUS
<1>1. PICK T \in Bad : \A U \in Bad : U \subseteq T => U = T
  <2>1. Bad \in SUBSET SUBSET S
    OBVIOUS
  <2> HIDE DEF Bad
  <2> QED BY <2>1, MinimalSubset
<1>2. T \in SUBSET S /\ IsFiniteSet(T)
  BY FS_Subset
<1>3. T # {}
  BY <1>1, SumEmpty
<1>4. PICK y \in T : TRUE
  BY <1>3
<1>5. SumOver(f, T) = f[y] + SumOver(f, T \ {y})
  BY <1>2, SumRemove
<1>6. SumOver(f, T \ {y}) = 0
  BY <1>1, <1>2
<1> QED BY <1>2, <1>5, <1>6

\* A sum in which only x counts.
LEMMA SumSingle ==
    ASSUME NEW S, IsFiniteSet(S), NEW f, NEW x \in S,
           \A y \in S : f[y] \in Int, \A y \in S : y # x => f[y] = 0
    PROVE  SumOver(f, S) = f[x]
<1> DEFINE zero == [y \in S |-> 0]
<1>1. SumOver(zero, S) = 0
  BY SumZero
<1>2. SumOver(f, S) = SumOver(zero, S) - zero[x] + f[x]
  BY SumUpdate
<1>3. zero[x] = 0 /\ f[x] \in Int
  OBVIOUS
<1> HIDE DEF zero
<1> QED BY <1>1, <1>2, <1>3

\* A sum of naturals is a natural, and at least each of its terms.
LEMMA SumNat ==
    ASSUME NEW S, IsFiniteSet(S), NEW f, \A x \in S : f[x] \in Nat
    PROVE  /\ SumOver(f, S) \in Nat
           /\ \A x \in S : f[x] <= SumOver(f, S)
<1>1. ASSUME NEW T \in SUBSET S PROVE SumOver(f, T) \in Nat
  <2> DEFINE zero == [y \in S |-> 0]
  <2>1. IsFiniteSet(T) /\ SumOver(zero, T) = 0
    BY FS_Subset, SumZero
  <2>2. SumOver(zero, T) <= SumOver(f, T)
    BY <2>1, SumMonotone
  <2>3. SumOver(f, T) \in Int
    BY <2>1, SumInt
  <2> QED BY <2>1, <2>2, <2>3
<1>2. ASSUME NEW x \in S PROVE f[x] <= SumOver(f, S)
  <2>1. SumOver(f, S) = f[x] + SumOver(f, S \ {x})
    BY SumRemove
  <2>2. SumOver(f, S \ {x}) \in Nat
    BY <1>1
  <2> QED BY <2>1, <2>2
<1> QED BY <1>1, <1>2

\* Sums add up and scale.
LEMMA SumLinear ==
    ASSUME NEW S, IsFiniteSet(S), NEW f, NEW g, NEW h, NEW k \in Int,
           \A x \in S : f[x] \in Int /\ g[x] \in Int /\ h[x] = k * f[x] + g[x]
    PROVE  SumOver(h, S) = k * SumOver(f, S) + SumOver(g, S)
<1> DEFINE Bad == {T \in SUBSET S :
                     SumOver(h, T) # k * SumOver(f, T) + SumOver(g, T)}
<1> SUFFICES ASSUME Bad # {} PROVE FALSE
  OBVIOUS
<1>1. PICK T \in Bad : \A U \in Bad : U \subseteq T => U = T
  <2>1. Bad \in SUBSET SUBSET S
    OBVIOUS
  <2> HIDE DEF Bad
  <2> QED BY <2>1, MinimalSubset
<1>2. T \in SUBSET S /\ IsFiniteSet(T)
  BY FS_Subset
<1>3. T # {}
  <2> SUFFICES ASSUME T = {} PROVE FALSE
    OBVIOUS
  <2>1. SumOver(f, T) = 0 /\ SumOver(g, T) = 0 /\ SumOver(h, T) = 0
    BY SumEmpty
  <2>2. SumOver(h, T) # k * SumOver(f, T) + SumOver(g, T)
    BY <1>1
  <2>3. k * 0 + 0 = 0
    OBVIOUS
  <2> HIDE DEF Bad
  <2> QED BY <2>1, <2>2, <2>3
<1>4. PICK x \in T : TRUE
  BY <1>3
<1> DEFINE U == T \ {x}
<1>5. IsFiniteSet(U) /\ U \in SUBSET S
  BY <1>2, FS_Subset
<1>6. SumOver(h, U) = k * SumOver(f, U) + SumOver(g, U)
  BY <1>1, <1>2
<1>7. \A y \in T : h[y] \in Int
  BY <1>2
<1>8. /\ SumOver(f, T) = f[x] + SumOver(f, U)
      /\ SumOver(g, T) = g[x] + SumOver(g, U)
      /\ SumOver(h, T) = h[x] + SumOver(h, U)
  BY <1>2, <1>7, SumRemove
<1>9. SumOver(f, U) \in Int /\ SumOver(g, U) \in Int
  BY <1>5, SumInt
<1>10. f[x] \in Int /\ g[x] \in Int /\ h[x] = k * f[x] + g[x]
  BY <1>2
<1> HIDE DEF U
<1>11. k * (f[x] + SumOver(f, U)) = k * f[x] + k * SumOver(f, U)
  BY <1>9, <1>10
<1>12. SumOver(h, T) = k * SumOver(f, T) + SumOver(g, T)
  BY <1>6, <1>8, <1>9, <1>10, <1>11
<1> QED BY <1>12

\* A common factor comes before the sum.
LEMMA SumScaled ==
    ASSUME NEW S, IsFiniteSet(S), NEW f, NEW h, NEW k \in Int,
           \A x \in S : f[x] \in Int /\ h[x] = k * f[x]
    PROVE  SumOver(h, S) = k * SumOver(f, S)
<1> DEFINE zero == [x \in S |-> 0]
<1>1. SumOver(zero, S) = 0
  BY SumZero
<1>2. \A x \in S : f[x] \in Int /\ zero[x] \in Int /\ h[x] = k * f[x] + zero[x]
  OBVIOUS
<1> HIDE DEF zero
<1>3. SumOver(h, S) = k * SumOver(f, S) + SumOver(zero, S)
  BY <1>2, SumLinear
<1>4. k * SumOver(f, S) + 0 = k * SumOver(f, S)
  BY SumInt
<1> QED BY <1>1, <1>3, <1>4

\* The sums over two parts of a set add up to the sum over the set.
LEMMA SumPartition ==
    ASSUME NEW S, IsFiniteSet(S), NEW T \in SUBSET S, NEW f, \A x \in S : f[x] \in Int
    PROVE  SumOver(f, S) = SumOver(f, T) + SumOver(f, S \ T)
<1> DEFINE R == S \ T
           Bad == {U \in SUBSET T : SumOver(f, U \cup R) # SumOver(f, U) + SumOver(f, R)}
<1>1. IsFiniteSet(T) /\ IsFiniteSet(R) /\ T \cup R = S /\ T \cap R = {}
  BY FS_Subset
<1>2. SumOver(f, R) \in Int
  BY <1>1, SumInt
<1>3. SUFFICES ASSUME Bad # {} PROVE FALSE
  <2>1. T \notin Bad
    BY <1>3
  <2> QED BY <1>1, <2>1
<1>4. PICK U \in Bad : \A V \in Bad : V \subseteq U => V = U
  <2>1. Bad \in SUBSET SUBSET T
    OBVIOUS
  <2> HIDE DEF Bad
  <2> QED BY <1>1, <1>3, <2>1, MinimalSubset
<1>5. U \in SUBSET T /\ IsFiniteSet(U) /\ IsFiniteSet(U \cup R)
  BY <1>1, FS_Subset
<1>6. U # {}
  <2> SUFFICES ASSUME U = {} PROVE FALSE
    OBVIOUS
  <2>1. SumOver(f, U) = 0 /\ U \cup R = R
    BY SumEmpty
  <2>2. SumOver(f, U \cup R) # SumOver(f, U) + SumOver(f, R)
    BY <1>4
  <2> HIDE DEF Bad, R
  <2> QED BY <1>2, <2>1, <2>2
<1>7. PICK x \in U : TRUE
  BY <1>6
<1> DEFINE V == U \ {x}
<1>8. (U \cup R) \ {x} = V \cup R /\ V \in SUBSET T /\ IsFiniteSet(V)
  BY <1>1, <1>5, FS_Subset
<1>9. SumOver(f, V \cup R) = SumOver(f, V) + SumOver(f, R)
  BY <1>4, <1>8
<1>10. SumOver(f, U) = f[x] + SumOver(f, V)
  BY <1>5, SumRemove
<1>11. SumOver(f, U \cup R) = f[x] + SumOver(f, V \cup R)
  <2>1. x \in U \cup R /\ \A y \in U \cup R : f[y] \in Int
    BY <1>1, <1>5
  <2>2. SumOver(f, U \cup R) = f[x] + SumOver(f, (U \cup R) \ {x})
    BY <1>5, <2>1, SumRemove
  <2> QED BY <1>8, <2>2
<1>12. SumOver(f, V) \in Int /\ f[x] \in Int
  BY <1>5, <1>8, SumInt
<1>13. SumOver(f, U \cup R) # SumOver(f, U) + SumOver(f, R)
  BY <1>4
<1> HIDE DEF Bad, R, V
<1> QED BY <1>2, <1>9, <1>10, <1>11, <1>12, <1>13

\* Fewer naturals add up to no more.
LEMMA SumSubset ==
    ASSUME NEW S, IsFiniteSet(S), NEW T \in SUBSET S, NEW f, \A x \in S : f[x] \in Nat
    PROVE  SumOver(f, T) <= SumOver(f, S)
<1>1. IsFiniteSet(T) /\ IsFiniteSet(S \ T)
  BY FS_Subset
<1>2. SumOver(f, T) \in Nat /\ SumOver(f, S \ T) \in Nat
  BY <1>1, SumNat
<1>3. SumOver(f, S) = SumOver(f, T) + SumOver(f, S \ T)
  BY SumPartition
<1> QED BY <1>2, <1>3

\* A sum may be taken over other names of the same members.
LEMMA SumReindex ==
    ASSUME NEW S, IsFiniteSet(S), NEW m, NEW f, NEW g,
           \A x, y \in S : m[x] = m[y] => x = y,
           \A x \in S : f[x] \in Int /\ g[m[x]] = f[x]
    PROVE  SumOver(g, {m[x] : x \in S}) = SumOver(f, S)
<1> DEFINE Image(T) == {m[x] : x \in T}
           Bad == {T \in SUBSET S : SumOver(g, Image(T)) # SumOver(f, T)}
<1> SUFFICES ASSUME Bad # {} PROVE FALSE
  OBVIOUS
<1>1. PICK T \in Bad : \A U \in Bad : U \subseteq T => U = T
  <2>1. Bad \in SUBSET SUBSET S
    OBVIOUS
  <2> HIDE DEF Bad
  <2> QED BY <2>1, MinimalSubset
<1>2. T \in SUBSET S /\ IsFiniteSet(T)
  BY FS_Subset
<1>3. T # {}
  <2> SUFFICES ASSUME T = {} PROVE FALSE
    OBVIOUS
  <2>1. Image(T) = {}
    OBVIOUS
  <2>2. SumOver(f, {}) = 0 /\ SumOver(g, {}) = 0
    BY SumEmpty
  <2> QED BY <1>1, <2>1, <2>2
<1>4. PICK x \in T : TRUE
  BY <1>3
<1> DEFINE U == T \ {x}
<1>5. SumOver(g, Image(U)) = SumOver(f, U)
  BY <1>1, <1>2
<1>6. IsFiniteSet(Image(T))
  <2> DEFINE rename == [y \in T |-> m[y]]
  <2>1. rename \in Surjection(T, Image(T))
    BY DEF Surjection
  <2> HIDE DEF rename, Image
  <2> QED BY <1>2, <2>1, FS_Surjection
<1>7. Image(U) = Image(T) \ {m[x]} /\ m[x] \in Image(T)
  BY <1>2
<1>8. SumOver(f, T) = f[x] + SumOver(f, U)
  BY <1>2, SumRemove
<1>9. SumOver(g, Image(T)) = g[m[x]] + SumOver(g, Image(T) \ {m[x]})
  <2>1. \A y \in Image(T) : g[y] \in Int
    BY <1>2
  <2> HIDE DEF Image
  <2> QED BY <1>6, <1>7, <2>1, SumRemove
<1> HIDE DEF Image
<1> QED BY <1>1, <1>2, <1>5, <1>7, <1>8, <1>9

\* A non-empty set of naturals below a bound has a largest member.
LEMMA LargestNatural ==
    ASSUME NEW bound \in Nat, NEW B \in SUBSET (0 .. bound), B # {}
    PROVE  Max(B) \in B /\ \A x \in B : x <= Max(B)
<1> DEFINE Gap == {bound - x : x \in B}
<1>1. Gap \in SUBSET Nat /\ Gap # {}
  OBVIOUS
<1>2. PICK n \in Gap : \A k \in Gap : n <= k
  <2> HIDE DEF Gap
  <2> QED BY <1>1, LeastNatural
<1>3. PICK top \in B : n = bound - top
  BY <1>2
<1>4. \A x \in B : top >= x
  <2> TAKE x \in B
  <2>1. bound - x \in Gap
    OBVIOUS
  <2>2. n <= bound - x
    BY <1>2, <2>1
  <2> HIDE DEF Gap
  <2> QED BY <1>3, <2>2
<1>5. \E x \in B : \A y \in B : x >= y
  BY <1>4
<1>6. Max(B) \in B /\ \A y \in B : Max(B) >= y
  BY <1>5 DEF Max
<1> HIDE DEF Gap
<1> QED BY <1>6

\* The library's sum of a function is the sum over its domain.
LEMMA SumOfFunction == ASSUME NEW f PROVE SumFunction(f) = SumOver(f, DOMAIN f)
BY DEF SumFunction, SumFunctionOnSet, FoldFunctionOnSet, SumOver, MapThenSumSet,
       MapThenFoldSet
=============================================================================
