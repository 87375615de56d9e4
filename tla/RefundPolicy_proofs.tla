------------------------ MODULE RefundPolicy_proofs ------------------------
(***************************************************************************)
(* The arithmetic of refunds for all amounts and any number of events:     *)
(* what a sum over a finite set does when its terms change, that the       *)
(* largest-remainder shares of a full cancellation add up to the order's   *)
(* credits, and that a refund is never more than what is left to pay back. *)
(*                                                                         *)
(* A statement about every subset of a finite set is proved from its least *)
(* counterexample under strict inclusion, which is well-founded.           *)
(***************************************************************************)
EXTENDS RefundPolicy, FiniteSetTheorems, TLAPS

\* Every non-empty family of subsets of a finite set has a least member.
LEMMA LeastBad ==
  ASSUME NEW S, IsFiniteSet(S), NEW B \in SUBSET SUBSET S, B # {}
  PROVE  \E T \in B : \A x \in T : T \ {x} \notin B
  <1>1. IsWellFoundedOn(StrictSubsetOrdering(S), SUBSET S)
    BY FS_StrictSubsetOrderingWellFounded, FS_FiniteSubsetsOfFinite
  <1>2. PICK T \in B : \A U \in B : <<U, T>> \notin StrictSubsetOrdering(S)
    BY <1>1, WFMin
  <1>3. \A x \in T : T \ {x} \in B => <<T \ {x}, T>> \in StrictSubsetOrdering(S)
    BY DEF StrictSubsetOrdering
  <1> QED BY <1>2, <1>3

\* Induction on the naturals, for a set of them.
LEMMA NatSet ==
  ASSUME NEW G, 0 \in G, \A n \in Nat : n \in G => n + 1 \in G
  PROVE  Nat \subseteq G
  <1> DEFINE B == Nat \ G
  <1>1. SUFFICES ASSUME B # {} PROVE FALSE
    OBVIOUS
  <1>2. IsWellFoundedOn(OpToRel(<, Nat), Nat)
    BY NatLessThanWellFounded
  <1>3. PICK n \in B : \A m \in B : <<m, n>> \notin OpToRel(<, Nat)
    BY <1>1, <1>2, WFMin
  <1>4. n \in Nat /\ n \notin G /\ \A m \in Nat : m \notin G => ~(m < n)
    BY <1>3 DEF OpToRel
  <1>5. n # 0
    BY <1>4
  <1>6. n - 1 \in Nat /\ (n - 1) + 1 = n /\ n - 1 < n
    BY <1>4, <1>5
  <1>7. n - 1 \in G
    BY <1>4, <1>6
  <1>8. (n - 1) + 1 \in G
    BY <1>6, <1>7
  <1> QED BY <1>4, <1>6, <1>8

---------------------------------------------------------------------------
(* Sums.                                                                   *)

\* SumFunctionOnSet is a fold: it takes the elements one at a time, in an order
\* fixed by CHOOSE, with a recursive function on the subsets of the domain.
One(S) == CHOOSE x \in S : TRUE
Next1(g, f, T) == IF T = {} THEN 0 ELSE f[One(T)] + g[T \ {One(T)}]
IsSum(g, f, D) == g = [T \in D |-> Next1(g, f, T)]


\* The element a fold takes first is one of the set.
LEMMA OneIn == \A T : T # {} => One(T) \in T
  BY DEF One

\* A sum is the value of the chosen recursive function at the whole set.
LEMMA SumIsChosen ==
  ASSUME NEW f, NEW S
  PROVE  SumFunctionOnSet(f, S) = (CHOOSE g : IsSum(g, f, SUBSET S))[S]
  BY DEF SumFunctionOnSet, FoldFunctionOnSet, MapThenFoldSet, IsSum, Next1, One

\* On the subsets of a finite set that function exists: it is built one
\* cardinality at a time.
LEMMA SumExists ==
  ASSUME NEW f, NEW S, IsFiniteSet(S)
  PROVE  \E g : IsSum(g, f, SUBSET S)
  <1> DEFINE Level(n) == {T \in SUBSET S : Cardinality(T) <= n}
             G == {n \in Nat : \E g : IsSum(g, f, Level(n))}
  <1>0. \A T \in SUBSET S : IsFiniteSet(T) /\ Cardinality(T) \in Nat
    BY FS_Subset, FS_CardinalityType
  <1>1. 0 \in G
    <2>1. Level(0) = {{}}
      BY <1>0, FS_EmptySet
    <2>2. IsSum([T \in {{}} |-> 0], f, {{}})
      BY DEF IsSum, Next1
    <2> QED BY <2>1, <2>2
  <1>2. ASSUME NEW n \in Nat, n \in G PROVE n + 1 \in G
    <2>1. PICK g : IsSum(g, f, Level(n))
      BY <1>2
    <2> DEFINE h == [T \in Level(n + 1) |-> Next1(g, f, T)]
    <2>2. ASSUME NEW T \in Level(n + 1), T # {}
          PROVE  T \ {One(T)} \in Level(n) /\ T \ {One(T)} \in Level(n + 1)
      <3>1. Cardinality(T \ {One(T)}) = Cardinality(T) - 1
        BY <1>0, <2>2, OneIn, FS_RemoveElement
      <3> QED BY <1>0, <3>1
    <2>3. \A T \in Level(n) : T \in Level(n + 1)
      BY <1>0
    <2>4. \A T \in Level(n) : g[T] = Next1(g, f, T)
      BY <2>1 DEF IsSum
    <2>5. \A T \in Level(n) : h[T] = g[T]
      BY <2>3, <2>4
    <2>6. \A T \in Level(n + 1) : Next1(g, f, T) = Next1(h, f, T)
      BY <2>2, <2>5 DEF Next1
    <2>7. h = [T \in Level(n + 1) |-> Next1(h, f, T)]
      BY <2>6
    <2>8. IsSum(h, f, Level(n + 1))
      BY <2>7 DEF IsSum
    <2> HIDE DEF h, Level
    <2>9. n + 1 \in Nat
      OBVIOUS
    <2> QED BY <2>8, <2>9
  <1>3. Cardinality(S) \in G
    <2> HIDE DEF G
    <2> QED BY <1>0, <1>1, <1>2, NatSet
  <1>4. Level(Cardinality(S)) = SUBSET S
    BY <1>0, FS_Subset
  <1> QED BY <1>3, <1>4

\* The sum over nothing is 0; over more, that of an element and the rest.
LEMMA SumUnfolds ==
  ASSUME NEW f, NEW S, IsFiniteSet(S)
  PROVE  /\ SumFunctionOnSet(f, {}) = 0
         /\ S # {} => SumFunctionOnSet(f, S) = f[One(S)] + SumFunctionOnSet(f, S \ {One(S)})
  <1> DEFINE g(T) == CHOOSE h : IsSum(h, f, SUBSET T)
  <1>0. ASSUME NEW T \in SUBSET S
        PROVE  /\ \A U \in SUBSET T : g(T)[U] = Next1(g(T), f, U)
               /\ SumFunctionOnSet(f, T) = g(T)[T]
    <2>1. IsFiniteSet(T)
      BY FS_Subset
    <2>2. IsSum(g(T), f, SUBSET T)
      BY <2>1, SumExists
    <2>3. PICK h : h = g(T)
      OBVIOUS
    <2>4. \A U \in SUBSET T : h[U] = Next1(h, f, U)
      BY <2>2, <2>3 DEF IsSum
    <2> QED BY <2>3, <2>4, SumIsChosen
  <1> HIDE DEF g
  <1>1. SumFunctionOnSet(f, {}) = 0
    BY <1>0 DEF Next1
  <1>2. ASSUME NEW T \in SUBSET S PROVE \A U \in SUBSET T : g(S)[U] = g(T)[U]
    <2> DEFINE B == {U \in SUBSET T : g(S)[U] # g(T)[U]}
    <2>1. SUFFICES ASSUME B # {} PROVE FALSE
      OBVIOUS
    <2>2. PICK U \in B : \A x \in U : U \ {x} \notin B
      <3>1. IsFiniteSet(T)
        BY FS_Subset
      <3> QED BY <2>1, <3>1, LeastBad
    <2>3. U # {} => g(S)[U \ {One(U)}] = g(T)[U \ {One(U)}]
      BY <2>2, OneIn
    <2>4. Next1(g(S), f, U) = Next1(g(T), f, U)
      BY <2>3 DEF Next1
    <2> QED BY <1>0, <2>2, <2>4
  <1>3. ASSUME S # {} PROVE SumFunctionOnSet(f, S) = f[One(S)] + SumFunctionOnSet(f, S \ {One(S)})
    <2>1. PICK T : T = S \ {One(S)} /\ T \in SUBSET S
      OBVIOUS
    <2>2. g(S)[S] = f[One(S)] + g(S)[T]
      BY <1>0, <1>3, <2>1 DEF Next1
    <2>3. g(S)[T] = g(T)[T]
      BY <1>2, <2>1
    <2>4. SumFunctionOnSet(f, T) = g(T)[T] /\ SumFunctionOnSet(f, S) = g(S)[S]
      BY <1>0, <2>1
    <2> QED BY <2>1, <2>2, <2>3, <2>4
  <1> QED BY <1>1, <1>3

\* A finite sum of integers is an integer.
LEMMA SumIsInt ==
  ASSUME NEW f, NEW S, IsFiniteSet(S), \A x \in S : f[x] \in Int
  PROVE  SumFunctionOnSet(f, S) \in Int
  <1> DEFINE B == {T \in SUBSET S : SumFunctionOnSet(f, T) \notin Int}
  <1>1. SUFFICES ASSUME B # {} PROVE FALSE
    OBVIOUS
  <1>2. PICK T \in B : \A x \in T : T \ {x} \notin B
    BY <1>1, LeastBad
  <1>3. IsFiniteSet(T)
    BY FS_Subset
  <1>4. T # {} => One(T) \in T /\ SumFunctionOnSet(f, T \ {One(T)}) \in Int
    BY <1>2, OneIn
  <1>5. /\ SumFunctionOnSet(f, {}) = 0
        /\ T # {} => SumFunctionOnSet(f, T) = f[One(T)] + SumFunctionOnSet(f, T \ {One(T)})
    BY <1>3, SumUnfolds
  <1>6. CASE T = {}
    BY <1>2, <1>5, <1>6
  <1>7. CASE T # {}
    <2>1. f[One(T)] \in Int
      BY <1>4, <1>7
    <2> QED BY <1>2, <1>4, <1>5, <1>7, <2>1
  <1> QED BY <1>6, <1>7

\* Any element may be taken out first.
LEMMA SumRemove ==
  ASSUME NEW f, NEW S, IsFiniteSet(S), \A x \in S : f[x] \in Int, NEW x \in S
  PROVE  SumFunctionOnSet(f, S) = f[x] + SumFunctionOnSet(f, S \ {x})
  <1> DEFINE Sum(T) == SumFunctionOnSet(f, T)
             B == {T \in SUBSET S : \E y \in T : Sum(T) # f[y] + Sum(T \ {y})}
  <1>0. \A T \in SUBSET S : IsFiniteSet(T)
    BY FS_Subset
  <1>1. \A T \in SUBSET S : Sum(T) \in Int
    BY <1>0, SumIsInt
  <1>2. \A T \in SUBSET S : T # {} => One(T) \in T /\ Sum(T) = f[One(T)] + Sum(T \ {One(T)})
    BY <1>0, SumUnfolds, OneIn
  <1> HIDE DEF Sum
  <1>3. B = {}
    <2>1. SUFFICES ASSUME B # {} PROVE FALSE
      OBVIOUS
    <2>2. PICK T \in B : \A y \in T : T \ {y} \notin B
      BY <2>1, LeastBad
    <2>3. PICK y \in T : Sum(T) # f[y] + Sum(T \ {y})
      BY <2>2
    <2>4. PICK z \in T : z = One(T) /\ Sum(T) = f[z] + Sum(T \ {z})
      BY <1>2, <2>3
    <2>5. y # z
      BY <2>3, <2>4
    <2>6. Sum(T \ {z}) = f[y] + Sum((T \ {z}) \ {y}) /\ Sum(T \ {y}) = f[z] + Sum((T \ {y}) \ {z})
      BY <2>2, <2>5
    <2>7. (T \ {z}) \ {y} = (T \ {y}) \ {z}
      OBVIOUS
    <2>8. PICK U \in SUBSET S : U = (T \ {y}) \ {z}
      OBVIOUS
    <2>9. Sum(U) \in Int /\ f[y] \in Int /\ f[z] \in Int
      BY <1>1
    <2>10. Sum(T \ {z}) = f[y] + Sum(U) /\ Sum(T \ {y}) = f[z] + Sum(U)
      BY <2>6, <2>7, <2>8
    <2>11. Sum(T) = f[z] + (f[y] + Sum(U)) /\ Sum(T) # f[y] + (f[z] + Sum(U))
      BY <2>3, <2>4, <2>10
    <2> QED BY <2>9, <2>11
  <1> QED BY <1>3 DEF Sum

\* The sum over a set with one element more.
LEMMA SumInsert ==
  ASSUME NEW f, NEW S, IsFiniteSet(S), NEW x, x \notin S, f[x] \in Int, \A y \in S : f[y] \in Int
  PROVE  SumFunctionOnSet(f, S \cup {x}) = f[x] + SumFunctionOnSet(f, S)
  <1>1. IsFiniteSet(S \cup {x}) /\ (S \cup {x}) \ {x} = S
    BY FS_AddElement
  <1> QED BY <1>1, SumRemove

\* The sum is that of its terms.
LEMMA SumSame ==
  ASSUME NEW f, NEW g, NEW S, IsFiniteSet(S), \A x \in S : f[x] = g[x]
  PROVE  SumFunctionOnSet(f, S) = SumFunctionOnSet(g, S)
  <1> DEFINE B == {T \in SUBSET S : SumFunctionOnSet(f, T) # SumFunctionOnSet(g, T)}
  <1>1. SUFFICES ASSUME B # {} PROVE FALSE
    OBVIOUS
  <1>2. PICK T \in B : \A x \in T : T \ {x} \notin B
    BY <1>1, LeastBad
  <1>3. IsFiniteSet(T)
    BY FS_Subset
  <1>4. T # {} => One(T) \in T /\ SumFunctionOnSet(f, T \ {One(T)}) = SumFunctionOnSet(g, T \ {One(T)})
    BY <1>2, OneIn
  <1> QED BY <1>2, <1>3, <1>4, SumUnfolds

\* One term changes.
LEMMA SumChange ==
  ASSUME NEW f, NEW g, NEW S, IsFiniteSet(S), NEW x \in S,
         \A y \in S : f[y] \in Int /\ g[y] \in Int,
         \A y \in S : y # x => g[y] = f[y]
  PROVE  SumFunctionOnSet(g, S) = SumFunctionOnSet(f, S) - f[x] + g[x]
  <1> DEFINE T == S \ {x}
  <1>1. IsFiniteSet(T) /\ T \subseteq S
    BY FS_Subset
  <1>2. SumFunctionOnSet(f, T) = SumFunctionOnSet(g, T) /\ SumFunctionOnSet(f, T) \in Int
    BY <1>1, SumSame, SumIsInt
  <1>3. /\ SumFunctionOnSet(f, S) = f[x] + SumFunctionOnSet(f, T)
        /\ SumFunctionOnSet(g, S) = g[x] + SumFunctionOnSet(g, T)
    BY SumRemove
  <1> HIDE DEF T
  <1> QED BY <1>2, <1>3

\* Terms add up.
LEMMA SumPlus ==
  ASSUME NEW f, NEW g, NEW h, NEW S, IsFiniteSet(S),
         \A x \in S : f[x] \in Int /\ g[x] \in Int /\ h[x] = f[x] + g[x]
  PROVE  SumFunctionOnSet(h, S) = SumFunctionOnSet(f, S) + SumFunctionOnSet(g, S)
  <1> DEFINE B == {T \in SUBSET S :
                     SumFunctionOnSet(h, T) # SumFunctionOnSet(f, T) + SumFunctionOnSet(g, T)}
  <1>1. SUFFICES ASSUME B # {} PROVE FALSE
    OBVIOUS
  <1>2. PICK T \in B : \A x \in T : T \ {x} \notin B
    BY <1>1, LeastBad
  <1>3. IsFiniteSet(T)
    BY FS_Subset
  <1>4. PICK U : U = T \ {One(T)}
    OBVIOUS
  <1>5. IsFiniteSet(U) /\ U \subseteq T
    BY <1>3, <1>4, FS_Subset
  <1>6. SumFunctionOnSet(f, U) \in Int /\ SumFunctionOnSet(g, U) \in Int
    BY <1>5, SumIsInt
  <1>7. T # {} => /\ One(T) \in T
                  /\ SumFunctionOnSet(h, U) = SumFunctionOnSet(f, U) + SumFunctionOnSet(g, U)
    BY <1>2, <1>4, OneIn
  <1>8. \A k \in {f, g, h} : /\ SumFunctionOnSet(k, {}) = 0
                             /\ T # {} => SumFunctionOnSet(k, T) = k[One(T)] + SumFunctionOnSet(k, U)
    BY <1>3, <1>4, SumUnfolds
  <1>9. CASE T = {}
    BY <1>2, <1>8, <1>9
  <1>10. CASE T # {}
    <2>1. PICK x \in T : x = One(T)
      BY <1>7, <1>10
    <2>2. f[x] \in Int /\ g[x] \in Int /\ h[x] = f[x] + g[x]
      OBVIOUS
    <2>3. \A k \in {f, g, h} : SumFunctionOnSet(k, T) = k[x] + SumFunctionOnSet(k, U)
      BY <1>8, <1>10, <2>1
    <2>4. SumFunctionOnSet(h, T) = SumFunctionOnSet(f, T) + SumFunctionOnSet(g, T)
      BY <1>6, <1>7, <1>10, <2>2, <2>3
    <2> QED BY <1>2, <2>4
  <1> QED BY <1>9, <1>10

\* Terms are at least, and at most, what bounds them: nothing here is negative.
LEMMA SumIsNat ==
  ASSUME NEW f, NEW S, IsFiniteSet(S), \A x \in S : f[x] \in Nat
  PROVE  /\ SumFunctionOnSet(f, S) \in Nat
         /\ \A x \in S : f[x] <= SumFunctionOnSet(f, S)
  <1> DEFINE B == {T \in SUBSET S : SumFunctionOnSet(f, T) \notin Nat}
  <1>0. B = {}
    <2>1. SUFFICES ASSUME B # {} PROVE FALSE
      OBVIOUS
    <2>2. PICK T \in B : \A x \in T : T \ {x} \notin B
      BY <2>1, LeastBad
    <2>3. IsFiniteSet(T)
      BY FS_Subset
    <2>4. T # {} => One(T) \in T /\ SumFunctionOnSet(f, T \ {One(T)}) \in Nat
      BY <2>2, OneIn
    <2>5. /\ SumFunctionOnSet(f, {}) = 0
          /\ T # {} => SumFunctionOnSet(f, T) = f[One(T)] + SumFunctionOnSet(f, T \ {One(T)})
      BY <2>3, SumUnfolds
    <2>6. CASE T = {}
      BY <2>2, <2>5, <2>6
    <2>7. CASE T # {}
      <3>1. f[One(T)] \in Nat
        BY <2>4, <2>7
      <3> QED BY <2>2, <2>4, <2>5, <2>7, <3>1
    <2> QED BY <2>6, <2>7
  <1>1. \A T \in SUBSET S : SumFunctionOnSet(f, T) \in Nat
    BY <1>0
  <1>2. ASSUME NEW x \in S PROVE f[x] <= SumFunctionOnSet(f, S)
    <2>1. SumFunctionOnSet(f, S) = f[x] + SumFunctionOnSet(f, S \ {x})
      BY SumRemove
    <2>2. SumFunctionOnSet(f, S \ {x}) \in Nat
      BY <1>1
    <2> QED BY <2>1, <2>2
  <1> QED BY <1>1, <1>2

\* Zero terms may be left out.
LEMMA SumOfSome ==
  ASSUME NEW f, NEW S, IsFiniteSet(S), NEW U \in SUBSET S,
         \A x \in U : f[x] \in Int, \A x \in S \ U : f[x] = 0
  PROVE  SumFunctionOnSet(f, S) = SumFunctionOnSet(f, U)
  <1> DEFINE B == {T \in SUBSET S : SumFunctionOnSet(f, T) # SumFunctionOnSet(f, T \cap U)}
  <1>1. SUFFICES ASSUME B # {} PROVE FALSE
    <2>1. S \cap U = U
      OBVIOUS
    <2> QED BY <2>1
  <1>2. PICK T \in B : \A x \in T : T \ {x} \notin B
    BY <1>1, LeastBad
  <1>3. IsFiniteSet(T) /\ IsFiniteSet(T \cap U)
    BY FS_Subset
  <1>4. T # {}
    <2>1. T = {} => T \cap U = T
      OBVIOUS
    <2> QED BY <1>2, <2>1
  <1>5. PICK x \in T : TRUE
    BY <1>4
  <1>6. SumFunctionOnSet(f, T) = f[x] + SumFunctionOnSet(f, T \ {x})
    BY <1>3, SumRemove
  <1>7. SumFunctionOnSet(f, T \ {x}) = SumFunctionOnSet(f, (T \ {x}) \cap U)
    BY <1>2
  <1>8. CASE x \in U
    <2>1. (T \ {x}) \cap U = (T \cap U) \ {x} /\ x \in T \cap U
      BY <1>8
    <2>2. SumFunctionOnSet(f, T \cap U) = f[x] + SumFunctionOnSet(f, (T \cap U) \ {x})
      BY <1>3, <2>1, SumRemove
    <2> QED BY <1>2, <1>6, <1>7, <2>1, <2>2
  <1>9. CASE x \notin U
    <2>1. (T \ {x}) \cap U = T \cap U /\ f[x] = 0
      BY <1>9
    <2>2. SumFunctionOnSet(f, T \cap U) \in Int
      BY <1>3, SumIsInt
    <2> QED BY <1>2, <1>6, <1>7, <2>1, <2>2
  <1> QED BY <1>8, <1>9

\* Zeros sum to zero.
LEMMA SumOfZeros ==
  ASSUME NEW f, NEW S, IsFiniteSet(S), \A x \in S : f[x] = 0
  PROVE  SumFunctionOnSet(f, S) = 0
  <1>1. PICK U : U = {}
    OBVIOUS
  <1>2. U \in SUBSET S /\ \A x \in U : f[x] \in Int
    BY <1>1
  <1>3. SumFunctionOnSet(f, S) = SumFunctionOnSet(f, U)
    BY <1>2, SumOfSome
  <1>4. SumFunctionOnSet(f, {}) = 0
    BY SumUnfolds
  <1> QED BY <1>1, <1>3, <1>4

\* A sum of ones counts.
LEMMA SumCounts ==
  ASSUME NEW f, NEW S, IsFiniteSet(S), \A x \in S : f[x] = 1
  PROVE  SumFunctionOnSet(f, S) = Cardinality(S)
  <1> DEFINE B == {T \in SUBSET S : SumFunctionOnSet(f, T) # Cardinality(T)}
  <1>1. SUFFICES ASSUME B # {} PROVE FALSE
    OBVIOUS
  <1>2. PICK T \in B : \A x \in T : T \ {x} \notin B
    BY <1>1, LeastBad
  <1>3. IsFiniteSet(T)
    BY FS_Subset
  <1>4. Cardinality({}) = 0 /\ SumFunctionOnSet(f, {}) = 0
    BY <1>3, FS_EmptySet, SumUnfolds
  <1>5. PICK x \in T : TRUE
    BY <1>2, <1>4
  <1>6. Cardinality(T \ {x}) = Cardinality(T) - 1 /\ Cardinality(T) \in Nat
    BY <1>3, FS_RemoveElement, FS_CardinalityType
  <1>7. SumFunctionOnSet(f, T) = f[x] + SumFunctionOnSet(f, T \ {x})
    BY <1>3, SumRemove
  <1>8. SumFunctionOnSet(f, T \ {x}) = Cardinality(T \ {x})
    BY <1>2
  <1> QED BY <1>2, <1>6, <1>7, <1>8

\* Multiplication distributes; stated alone, the prover finds it.
LEMMA Distribute ==
  ASSUME NEW a \in Int, NEW b \in Int, NEW k \in Int
  PROVE  (a + b) * k = a * k + b * k /\ a * k \in Int /\ k * a = a * k
  OBVIOUS

\* Equal multiples, greater multiples.
LEMMA Multiples ==
  ASSUME NEW k \in Nat \ {0}, NEW a \in Int, NEW b \in Int
  PROVE  a * k < b * k <=> a < b
  <1>1. CASE a < b
    <2>1. (b - a) * k >= 1 * k
      <3>1. PICK d \in Nat : d = b - a - 1
        BY <1>1
      <3>2. d * k \in Nat
        OBVIOUS
      <3>3. (d + 1) * k = d * k + 1 * k
        BY Distribute
      <3> QED BY <3>1, <3>2, <3>3
    <2>2. (b - a) * k + a * k = b * k
      <3>1. ((b - a) + a) * k = (b - a) * k + a * k
        BY Distribute
      <3> QED BY <3>1
    <2>3. a * k \in Int /\ b * k \in Int /\ (b - a) * k \in Int
      OBVIOUS
    <2> QED BY <1>1, <2>1, <2>2, <2>3
  <1>2. CASE ~(a < b)
    <2>1. PICK d \in Nat : d = a - b
      BY <1>2
    <2>2. d * k \in Nat /\ b * k \in Int
      OBVIOUS
    <2>3. (d + b) * k = d * k + b * k
      BY Distribute
    <2>4. d + b = a
      BY <2>1
    <2> QED BY <1>2, <2>2, <2>3, <2>4
  <1> QED BY <1>1, <1>2

\* A common factor may be taken out of a sum.
LEMMA SumScaled ==
  ASSUME NEW f, NEW g, NEW S, NEW k \in Int, IsFiniteSet(S),
         \A x \in S : f[x] \in Int /\ g[x] = f[x] * k
  PROVE  SumFunctionOnSet(g, S) = SumFunctionOnSet(f, S) * k
  <1> DEFINE B == {T \in SUBSET S : SumFunctionOnSet(g, T) # SumFunctionOnSet(f, T) * k}
  <1>1. SUFFICES ASSUME B # {} PROVE FALSE
    OBVIOUS
  <1>2. PICK T \in B : \A x \in T : T \ {x} \notin B
    BY <1>1, LeastBad
  <1>3. IsFiniteSet(T)
    BY FS_Subset
  <1>4. CASE T = {}
    <2>1. SumFunctionOnSet(g, {}) = 0 /\ SumFunctionOnSet(f, {}) = 0
      BY <1>3, SumUnfolds
    <2> QED BY <1>2, <1>4, <2>1
  <1>5. CASE T # {}
    <2>1. PICK x \in T : TRUE
      BY <1>5
    <2>2. PICK U : U = T \ {x}
      OBVIOUS
    <2>3. IsFiniteSet(U) /\ U \subseteq T
      BY <1>3, <2>2, FS_Subset
    <2>4. SumFunctionOnSet(f, U) \in Int /\ f[x] \in Int /\ g[x] = f[x] * k
      BY <2>3, SumIsInt
    <2>5. SumFunctionOnSet(g, U) = SumFunctionOnSet(f, U) * k
      BY <1>2, <2>2
    <2>6. \A y \in T : f[y] \in Int /\ g[y] \in Int
      BY Distribute
    <2>7. SumFunctionOnSet(f, T) = f[x] + SumFunctionOnSet(f, U)
      BY <1>3, <2>2, <2>6, SumRemove
    <2>8. SumFunctionOnSet(g, T) = g[x] + SumFunctionOnSet(g, U)
      BY <1>3, <2>2, <2>6, SumRemove
    <2>9. (f[x] + SumFunctionOnSet(f, U)) * k = f[x] * k + SumFunctionOnSet(f, U) * k
      BY <2>4, Distribute
    <2> QED BY <1>2, <2>4, <2>5, <2>7, <2>8, <2>9
  <1> QED BY <1>4, <1>5

\* Quotient and remainder of two naturals.
LEMMA Divided ==
  ASSUME NEW p \in Nat, NEW q \in Nat \ {0}
  PROVE  /\ p \div q \in Nat /\ p % q \in Nat /\ p % q < q
         /\ p = ((p \div q) * q) + (p % q)
  OBVIOUS

---------------------------------------------------------------------------
(* The left-over credits are served in a strict order.                     *)

\* There are m naturals below m.
LEMMA FirstNaturals ==
  ASSUME NEW m \in Nat
  PROVE  IsFiniteSet(0 .. m - 1) /\ Cardinality(0 .. m - 1) = m
  <1>1. m - 1 \in Int /\ (0 > m - 1 => m = 0) /\ (m - 1) - 0 + 1 = m
    OBVIOUS
  <1> QED BY <1>1, FS_Interval

\* The events are served in a strict order, so exactly the first "left" of them
\* have fewer than "left" events before them.
LEMMA Ranks ==
  ASSUME NEW S \in SUBSET Nat, IsFiniteSet(S), NEW amount \in [S -> Nat], NEW price \in Nat \ {0},
         NEW credits \in Nat, NEW left \in 0 .. Cardinality(S)
  PROVE  Cardinality({c \in S : Cardinality(ServedBefore(amount, price, credits, c)) < left}) = left
  <1> DEFINE Before(c) == ServedBefore(amount, price, credits, c)
             n == Cardinality(S)
             rank == [c \in S |-> Cardinality(Before(c))]
             first == {c \in S : rank[c] < left}
             place == [c \in first |-> rank[c]]
  <1>0. n \in Nat
    BY FS_CardinalityType
  <1>1. PICK fr \in [S -> Nat] : fr = [c \in S |-> Fraction(amount, price, credits, c)]
    <2>1. \A c \in S : amount[c] * credits \in Nat
      OBVIOUS
    <2>2. \A c \in S : Fraction(amount, price, credits, c) \in Nat
      BY <2>1, Divided DEF Fraction
    <2> QED BY <2>2
  <1>2. \A c \in S : Before(c) = {d \in S : fr[d] > fr[c] \/ (fr[d] = fr[c] /\ d < c)}
    BY <1>1 DEF ServedBefore
  <1> HIDE DEF Before
  <1>3. \A c \in S : Before(c) \in SUBSET S /\ IsFiniteSet(Before(c)) /\ c \notin Before(c)
    BY <1>2, FS_Subset
  <1>4. \A c \in S : rank[c] \in 0 .. n - 1
    <2>1. ASSUME NEW c \in S PROVE Cardinality(Before(c)) \in Nat /\ Cardinality(Before(c)) < n
      <3>1. /\ Cardinality(Before(c)) \in Nat /\ Cardinality(Before(c)) <= n
            /\ n = Cardinality(Before(c)) => S = Before(c)
        BY <1>3, FS_Subset, FS_CardinalityType
      <3> QED BY <1>0, <1>3, <3>1
    <2> QED BY <1>0, <2>1
  <1>5. ASSUME NEW c \in S, NEW d \in Before(c) PROVE rank[d] < rank[c]
    <2>1. d \in S
      BY <1>3
    <2>2. Before(d) \in SUBSET Before(c) /\ d \notin Before(d)
      <3>1. \A e \in S : fr[e] \in Nat /\ e \in Nat
        OBVIOUS
      <3>2. fr[d] > fr[c] \/ (fr[d] = fr[c] /\ d < c)
        BY <1>2
      <3>3. ASSUME NEW e \in Before(d) PROVE e \in Before(c)
        <4>1. e \in S /\ (fr[e] > fr[d] \/ (fr[e] = fr[d] /\ e < d))
          BY <1>2, <2>1
        <4>2. fr[e] > fr[c] \/ (fr[e] = fr[c] /\ e < c)
          BY <2>1, <3>1, <3>2, <4>1
        <4> QED BY <1>2, <4>1, <4>2
      <3> QED BY <1>3, <2>1, <3>3
    <2>3. /\ Cardinality(Before(d)) <= Cardinality(Before(c))
          /\ Cardinality(Before(c)) = Cardinality(Before(d)) => Before(c) = Before(d)
      BY <1>3, <2>2, FS_Subset
    <2>4. Cardinality(Before(d)) \in Nat /\ Cardinality(Before(c)) \in Nat
      BY <1>3, <2>1, FS_CardinalityType
    <2> QED BY <2>1, <2>2, <2>3, <2>4
  <1>6. \A c, d \in S : c # d => c \in Before(d) \/ d \in Before(c)
    <2>1. \A e \in S : fr[e] \in Nat /\ e \in Nat
      OBVIOUS
    <2>2. ASSUME NEW c \in S, NEW d \in S, c # d PROVE c \in Before(d) \/ d \in Before(c)
      <3>1. /\ fr[c] \in Nat /\ fr[d] \in Nat /\ c \in Nat /\ d \in Nat
            /\ c \in Before(d) <=> (fr[c] > fr[d] \/ (fr[c] = fr[d] /\ c < d))
            /\ d \in Before(c) <=> (fr[d] > fr[c] \/ (fr[d] = fr[c] /\ d < c))
        BY <1>2, <2>1
      <3> QED BY <2>2, <3>1
    <2> QED BY <2>2
  <1>7. ASSUME NEW c \in S, NEW d \in S, rank[c] = rank[d] PROVE c = d
    <2>1. rank[c] \in Int /\ ~(rank[c] < rank[d]) /\ ~(rank[d] < rank[c])
      <3>1. rank[c] \in 0 .. n - 1
        BY <1>4
      <3> HIDE DEF n, rank
      <3> QED BY <1>0, <1>7, <3>1
    <2> QED BY <1>5, <1>6, <2>1
  <1> HIDE DEF rank
  <1>8. rank \in Surjection(S, 0 .. n - 1)
    <2>1. rank \in Injection(S, 0 .. n - 1)
      BY <1>4, <1>7 DEF Injection, IsInjective, rank
    <2>2. IsFiniteSet(0 .. n - 1) /\ Cardinality(0 .. n - 1) = n
      BY <1>0, FirstNaturals
    <2> QED BY <2>1, <2>2, FS_Injection
  <1>9. place \in Bijection(first, 0 .. left - 1)
    <2>1. place \in Injection(first, 0 .. left - 1)
      <3>1. \A c \in first : c \in S /\ rank[c] \in 0 .. left - 1
        BY <1>0, <1>4
      <3>2. place \in [first -> 0 .. left - 1]
        BY <3>1
      <3>3. \A c, d \in first : place[c] = place[d] => c = d
        BY <1>7, <3>1
      <3> QED BY <3>2, <3>3 DEF Injection, IsInjective
    <2>2. \A i \in 0 .. left - 1 : \E c \in first : place[c] = i
      BY <1>0, <1>8 DEF Surjection
    <2> QED BY <2>1, <2>2 DEF Bijection, Surjection, Injection
  <1>10. IsFiniteSet(first) /\ Cardinality(0 .. left - 1) = left
    <2>1. first \in SUBSET S /\ left \in Nat
      BY <1>0
    <2> QED BY <2>1, FS_Subset, FirstNaturals
  <1>11. Cardinality(first) = left
    BY <1>9, <1>10, FS_Bijection DEF ExistsBijection
  <1>12. first = {c \in S : Cardinality(ServedBefore(amount, price, credits, c)) < left}
    BY DEF rank, Before
  <1> QED BY <1>11, <1>12

\* The credits left over by the base shares are fewer than the events.
LEMMA LeftOver ==
  ASSUME NEW S, IsFiniteSet(S), NEW amount \in [S -> Nat], NEW price \in Nat \ {0},
         NEW credits \in Nat, SumFunctionOnSet(amount, S) = price,
         NEW base, base = [c \in S |-> BaseShare(amount, price, credits, c)]
  PROVE  base \in [S -> Nat] /\ credits - SumFunctionOnSet(base, S) \in 0 .. Cardinality(S)
  <1> DEFINE fraction == [c \in S |-> Fraction(amount, price, credits, c)]
             rest == [c \in S |-> price - fraction[c]]
             whole == [c \in S |-> price]
             one == [c \in S |-> 1]
             exact == [c \in S |-> amount[c] * credits]
             even == [c \in S |-> base[c] * price]
             B == SumFunctionOnSet(base, S)
             F == SumFunctionOnSet(fraction, S)
             n == Cardinality(S)
             left == credits - B
  <1>1. ASSUME NEW c \in S
        PROVE  /\ exact[c] \in Nat /\ base[c] \in Nat /\ fraction[c] \in Nat
               /\ even[c] \in Int /\ rest[c] \in Nat /\ rest[c] >= 1
               /\ exact[c] = even[c] + fraction[c] /\ whole[c] = fraction[c] + rest[c]
               /\ exact[c] = amount[c] * credits /\ even[c] = base[c] * price
               /\ whole[c] = one[c] * price /\ one[c] = 1 /\ one[c] \in Int
    <2>1. amount[c] * credits \in Nat
      OBVIOUS
    <2>2. PICK p \in Nat : p = amount[c] * credits
      BY <2>1
    <2>3. base[c] = p \div price /\ fraction[c] = p % price /\ exact[c] = p
      BY <2>2 DEF BaseShare, Fraction
    <2>4. /\ p \div price \in Nat /\ p % price \in Nat /\ p % price < price
          /\ p = ((p \div price) * price) + (p % price)
      BY Divided
    <2>5. PICK b \in Nat, f \in Nat : b = p \div price /\ f = p % price
      BY <2>4
    <2>6. base[c] = b /\ fraction[c] = f /\ exact[c] = p /\ p = (b * price) + f /\ f < price
      BY <2>3, <2>4, <2>5
    <2>7. even[c] = b * price /\ b * price \in Int /\ rest[c] = price - f /\ whole[c] = price
          /\ one[c] = 1 /\ 1 * price = price
      BY <2>6
    <2> HIDE DEF fraction, rest, whole, one, exact, even
    <2> QED BY <2>2, <2>6, <2>7
  <1>2. base \in [S -> Nat]
    BY <1>1
  <1> HIDE DEF fraction, rest, whole, one, exact, even
  <1>3. B \in Nat /\ F \in Nat
    BY <1>1, SumIsNat
  <1>4. SumFunctionOnSet(exact, S) = price * credits
    <2>1. credits \in Int /\ \A c \in S : amount[c] \in Int /\ exact[c] = amount[c] * credits
      BY <1>1
    <2>2. PICK f : f = amount
      OBVIOUS
    <2>3. credits \in Int /\ \A c \in S : f[c] \in Int /\ exact[c] = f[c] * credits
      BY <2>1, <2>2
    <2>4. SumFunctionOnSet(exact, S) = SumFunctionOnSet(f, S) * credits
      BY <2>3, SumScaled
    <2> QED BY <2>2, <2>4
  <1>5. SumFunctionOnSet(even, S) = B * price
    <2>1. price \in Int /\ \A c \in S : base[c] \in Int /\ even[c] = base[c] * price
      BY <1>1
    <2> QED BY <2>1, SumScaled
  <1>6. price * credits = (B * price) + F
    BY <1>1, <1>4, <1>5, SumPlus
  <1>7. F = left * price
    <2>1. left \in Int /\ B * price \in Int /\ left * price \in Int /\ price * credits = credits * price
      BY <1>3, Distribute
    <2>2. (left + B) * price = left * price + B * price /\ left + B = credits
      BY <1>3, Distribute
    <2> HIDE DEF left, B, F
    <2> QED BY <1>3, <1>6, <2>1, <2>2
  <1>8. SumFunctionOnSet(whole, S) = n * price /\ n \in Nat
    <2>1. SumFunctionOnSet(one, S) = n
      BY <1>1, SumCounts
    <2>2. price \in Int /\ \A c \in S : one[c] \in Int /\ whole[c] = one[c] * price
      BY <1>1
    <2>3. SumFunctionOnSet(whole, S) = SumFunctionOnSet(one, S) * price
      BY <2>2, SumScaled
    <2> QED BY <2>1, <2>3, FS_CardinalityType
  <1>9. F < n * price
    <2>1. PICK x \in S : TRUE
      <3>1. S # {}
        BY SumUnfolds
      <3> QED BY <3>1
    <2>2. /\ SumFunctionOnSet(rest, S) \in Nat /\ rest[x] <= SumFunctionOnSet(rest, S)
          /\ rest[x] \in Nat /\ rest[x] >= 1
      BY <1>1, SumIsNat
    <2>3. SumFunctionOnSet(whole, S) = F + SumFunctionOnSet(rest, S)
      BY <1>1, SumPlus
    <2> HIDE DEF F, n
    <2> QED BY <1>3, <1>8, <2>2, <2>3
  <1>10. left < n
    <2>1. left * price < n * price /\ left \in Int /\ n \in Int
      BY <1>3, <1>7, <1>8, <1>9
    <2> HIDE DEF left, n
    <2> QED BY <2>1, Multiples
  <1>11. left >= 0
    <2>1. left \in Int /\ left * price = F
      BY <1>3, <1>7
    <2>2. left < 0 <=> left * price < 0 * price
      <3> HIDE DEF left
      <3> QED BY <2>1, Multiples
    <2>3. 0 * price = 0 /\ ~(F < 0)
      BY <1>3
    <2> HIDE DEF left, F
    <2> QED BY <2>1, <2>2, <2>3
  <1>12. left \in 0 .. n
    BY <1>3, <1>8, <1>10, <1>11
  <1> QED BY <1>2, <1>12

\* The shares of a full cancellation are natural numbers that add up to the credits.
THEOREM AllocationExact ==
  ASSUME NEW S \in SUBSET Nat, IsFiniteSet(S), NEW amount \in [S -> Nat], NEW price \in Nat \ {0},
         NEW credits \in Nat, SumFunctionOnSet(amount, S) = price
  PROVE  SumFunctionOnSet(Allocation(amount, price, credits), S) = credits
  <1>0. PICK base : base = [c \in S |-> BaseShare(amount, price, credits, c)]
    OBVIOUS
  <1> DEFINE left == credits - SumFunctionOnSet(base, S)
             served == {c \in S : Cardinality(ServedBefore(amount, price, credits, c)) < left}
             extra == [c \in S |-> IF c \in served THEN 1 ELSE 0]
  <1>1. base \in [S -> Nat] /\ left \in 0 .. Cardinality(S)
    <2>1. PICK T, a : T = S /\ a = amount
      OBVIOUS
    <2>2. /\ IsFiniteSet(T) /\ a \in [T -> Nat] /\ SumFunctionOnSet(a, T) = price
          /\ base = [c \in T |-> BaseShare(a, price, credits, c)]
      BY <1>0, <2>1
    <2>3. base \in [T -> Nat] /\ credits - SumFunctionOnSet(base, T) \in 0 .. Cardinality(T)
      BY <2>2, LeftOver
    <2> QED BY <2>1, <2>3
  <1>2. SumFunctionOnSet(extra, S) = left
    <2>1. Cardinality(served) = left
      <3> HIDE DEF left
      <3> QED BY <1>1, Ranks
    <2>2. served \in SUBSET S /\ IsFiniteSet(served)
      BY FS_Subset
    <2>3. (\A c \in served : extra[c] = 1 /\ extra[c] \in Int) /\ \A c \in S \ served : extra[c] = 0
      BY <2>2
    <2> HIDE DEF served, extra
    <2>4. SumFunctionOnSet(extra, S) = SumFunctionOnSet(extra, served)
      BY <2>2, <2>3, SumOfSome
    <2>5. SumFunctionOnSet(extra, served) = Cardinality(served)
      BY <2>2, <2>3, SumCounts
    <2> QED BY <2>1, <2>4, <2>5
  <1>3. \A c \in S : /\ base[c] \in Int /\ extra[c] \in Int
                     /\ Allocation(amount, price, credits)[c] = base[c] + extra[c]
    <2>1. DOMAIN amount = S /\ SumFunction(base) = SumFunctionOnSet(base, S)
      BY <1>0 DEF SumFunction
    <2>2. Allocation(amount, price, credits) =
            [c \in S |-> BaseShare(amount, price, credits, c)
               + IF Cardinality(ServedBefore(amount, price, credits, c)) < left THEN 1 ELSE 0]
      BY <1>0, <2>1 DEF Allocation
    <2> QED BY <1>0, <1>1, <2>2
  <1>4. SumFunctionOnSet(Allocation(amount, price, credits), S)
          = SumFunctionOnSet(base, S) + SumFunctionOnSet(extra, S)
    <2>1. PICK share : share = Allocation(amount, price, credits)
      OBVIOUS
    <2>2. \A c \in S : base[c] \in Int /\ extra[c] \in Int /\ share[c] = base[c] + extra[c]
      BY <1>3, <2>1
    <2> HIDE DEF extra
    <2>3. PICK T, b, e : T = S /\ b = base /\ e = extra
      OBVIOUS
    <2>4. IsFiniteSet(T) /\ \A c \in T : b[c] \in Int /\ e[c] \in Int /\ share[c] = b[c] + e[c]
      BY <2>2, <2>3
    <2>5. SumFunctionOnSet(share, T) = SumFunctionOnSet(b, T) + SumFunctionOnSet(e, T)
      BY <2>4, SumPlus
    <2> QED BY <2>1, <2>3, <2>5
  <1>5. SumFunctionOnSet(base, S) \in Nat
    <2> QED BY <1>1, SumIsNat
  <1> HIDE DEF extra
  <1> QED BY <1>2, <1>4, <1>5

---------------------------------------------------------------------------
(* Refund amounts.                                                         *)

\* A quotient of naturals is a natural.
LEMMA QuotientNat ==
  ASSUME NEW p \in Nat, NEW q \in Nat \ {0}
  PROVE  p \div q \in Nat
  OBVIOUS

\* A product of naturals is a natural.
LEMMA ProductNat ==
  ASSUME NEW p \in Nat, NEW q \in Nat
  PROVE  p * q \in Nat
  OBVIOUS

\* The denominator of a refund amount is not zero.
LEMMA ProductPositive ==
  ASSUME NEW p \in Nat \ {0}
  PROVE  p * 10000 \in Nat \ {0}
  OBVIOUS

\* A refund never exceeds what the order has not paid back yet.
LEMMA RefundAmountBound ==
  ASSUME NEW price \in Nat, NEW credits \in Nat \ {0}, NEW qty \in Nat, NEW rate \in Nat,
         NEW remaining \in Nat
  PROVE  /\ RefundAmount(price, credits, qty, rate, remaining) \in Nat
         /\ RefundAmount(price, credits, qty, rate, remaining) <= remaining
  <1> DEFINE p == price * qty * rate
             q == credits * 10000
  <1>1. p \in Nat
    <2>1. price * qty \in Nat
      BY ProductNat
    <2> QED BY <2>1, ProductNat
  <1>2. q \in Nat \ {0}
    BY ProductPositive
  <1> HIDE DEF p, q
  <1>3. p + q - 1 \in Nat
    BY <1>1, <1>2
  <1>4. CeilDiv(p, q) \in Nat
    BY <1>2, <1>3, QuotientNat DEF CeilDiv
  <1> QED BY <1>4 DEF RefundAmount, Least, p, q

\* Refund rates are naturals.
LEMMA RatesAreNat == \A rate \in Rates : rate \in Nat
  BY DEF Rates, RefundRateBps, FullRate, LateRate

\* The share of an event in a full external cancellation is a natural.
LEMMA ShareNat ==
  ASSUME NEW S, NEW amount \in [S -> Nat], NEW price \in Nat \ {0}, NEW credits \in Nat, NEW c \in S
  PROVE  Allocation(amount, price, credits)[c] \in Nat
  <1> DEFINE left == credits - SumFunction([d \in S |-> BaseShare(amount, price, credits, d)])
             extra == IF Cardinality(ServedBefore(amount, price, credits, c)) < left THEN 1 ELSE 0
  <1>1. amount[c] * credits \in Nat
    BY ProductNat
  <1>2. BaseShare(amount, price, credits, c) \in Nat
    BY <1>1, QuotientNat DEF BaseShare
  <1>3. DOMAIN amount = S
    OBVIOUS
  <1>4. extra \in Nat
    OBVIOUS
  <1>5. Allocation(amount, price, credits)[c] = BaseShare(amount, price, credits, c) + extra
    BY <1>3 DEF Allocation
  <1> QED BY <1>2, <1>4, <1>5
=============================================================================
