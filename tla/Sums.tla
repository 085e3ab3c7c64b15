--------------------------------- MODULE Sums ---------------------------------
(***************************************************************************)
(* What the proofs need to know of SumFunctionOnSet(f, S), the sum of f[x] *)
(* over a finite S.  It is defined by a recursive function that takes the  *)
(* elements in an order of its own; that the order does not matter is      *)
(* SumRemove, on which all else rests.  The library's induction theorems   *)
(* have an operator as parameter; MinimalSubset, which has none, takes     *)
(* their place: a set of subsets that fail a claim has a smallest one.     *)
(***************************************************************************)
EXTENDS Integers, FiniteSets, Functions, FiniteSetTheorems,
        WellFoundedInduction, TLAPS

\* Of any subsets of a finite set one is minimal.
LEMMA MinimalSubset ==
    ASSUME NEW S, IsFiniteSet(S), NEW Bad, Bad \subseteq SUBSET S, Bad # {}
    PROVE  \E T \in Bad : \A U \in Bad : U \subseteq T => U = T
<1>1. IsWellFoundedOn(StrictSubsetOrdering(S), SUBSET S)
  BY FS_StrictSubsetOrderingWellFounded, FS_FiniteSubsetsOfFinite
<1>2. PICK T \in Bad : \A U \in Bad : <<U, T>> \notin StrictSubsetOrdering(S)
  BY <1>1, WFMin
<1> QED
  BY <1>2 DEF StrictSubsetOrdering

-----------------------------------------------------------------------------
(* The recursive function *)

First(T) == CHOOSE x \in T : TRUE
Rest(T)  == T \ {First(T)}

\* g sums f over every subset of S.
SumsUp(g, f, S) ==
    g = [T \in SUBSET S |-> IF T = {} THEN 0 ELSE f[First(T)] + g[Rest(T)]]

\* The community module's sum is the value at S of such a function.
LEMMA SumIsChosen ==
    ASSUME NEW f, NEW S
    PROVE  SumFunctionOnSet(f, S) = (CHOOSE g : SumsUp(g, f, S))[S]
BY DEF SumFunctionOnSet, FoldFunctionOnSet, MapThenFoldSet, SumsUp, First, Rest

\* What is left is smaller.
LEMMA FirstAndRest ==
    ASSUME NEW T, T # {}
    PROVE  First(T) \in T /\ Rest(T) \subseteq T /\ Rest(T) # T
BY DEF First, Rest

\* Two such functions agree where both are defined.
LEMMA SumsAgree ==
    ASSUME NEW f, NEW S, IsFiniteSet(S), NEW U, U \subseteq S,
           NEW g, SumsUp(g, f, S), NEW h, SumsUp(h, f, U)
    PROVE  g[U] = h[U]
<1> DEFINE Bad == {T \in SUBSET U : g[T] # h[T]}
<1>1. SUFFICES ASSUME Bad # {} PROVE FALSE
  OBVIOUS
<1>2. IsFiniteSet(U)
  BY FS_Subset
<1>3. PICK T \in Bad : \A V \in Bad : V \subseteq T => V = T
  <2>1. Bad \subseteq SUBSET U
    OBVIOUS
  <2> HIDE DEF Bad
  <2> QED
    BY <1>1, <1>2, <2>1, MinimalSubset
<1>4. /\ g[T] = IF T = {} THEN 0 ELSE f[First(T)] + g[Rest(T)]
      /\ h[T] = IF T = {} THEN 0 ELSE f[First(T)] + h[Rest(T)]
  BY DEF SumsUp
<1>5. T # {}
  BY <1>4
<1>6. g[Rest(T)] = h[Rest(T)]
  BY <1>3, <1>5, FirstAndRest
<1> QED
  BY <1>4, <1>5, <1>6

\* There is one for every finite set.
LEMMA SumsExist ==
    ASSUME NEW f, NEW S, IsFiniteSet(S)
    PROVE  \E g : SumsUp(g, f, S)
<1> DEFINE Bad == {T \in SUBSET S : ~ \E g : SumsUp(g, f, T)}
<1>1. SUFFICES ASSUME Bad # {} PROVE FALSE
  OBVIOUS
<1>2. PICK T \in Bad : \A V \in Bad : V \subseteq T => V = T
  <2>1. Bad \subseteq SUBSET S
    OBVIOUS
  <2> HIDE DEF Bad
  <2> QED
    BY <1>1, <2>1, MinimalSubset
<1> DEFINE sum(V) == (CHOOSE g : SumsUp(g, f, V))[V]
           h == [V \in SUBSET T |-> IF V = {} THEN 0 ELSE f[First(V)] + sum(Rest(V))]
<1>3. ASSUME NEW V \in SUBSET T, V # T
      PROVE  h[V] = sum(V)
  <2>1. PICK g : SumsUp(g, f, V) /\ sum(V) = g[V]
    BY <1>2, <1>3
  <2>2. CASE V = {}
    BY <2>1, <2>2 DEF SumsUp
  <2>3. CASE V # {}
    <3>1. Rest(V) \in SUBSET V /\ Rest(V) # T
      BY <1>3, <2>3, FirstAndRest
    <3>2. PICK e : SumsUp(e, f, Rest(V)) /\ sum(Rest(V)) = e[Rest(V)]
      BY <1>2, <3>1
    <3>3. IsFiniteSet(V)
      BY FS_Subset
    <3>4. g[Rest(V)] = e[Rest(V)]
      BY <2>1, <3>1, <3>2, <3>3, SumsAgree
    <3>5. g[V] = f[First(V)] + g[Rest(V)]
      BY <2>1, <2>3 DEF SumsUp
    <3> QED
      BY <2>1, <2>3, <3>2, <3>4, <3>5
  <2> QED
    BY <2>2, <2>3
<1>4. h = [V \in SUBSET T |-> IF V = {} THEN 0 ELSE f[First(V)] + h[Rest(V)]]
  <2>1. ASSUME NEW V \in SUBSET T, V # {}
        PROVE  h[Rest(V)] = sum(Rest(V))
    <3>1. Rest(V) \in SUBSET T /\ Rest(V) # T
      BY <2>1, FirstAndRest
    <3> HIDE DEF h, sum
    <3> QED
      BY <1>3, <3>1
  <2> HIDE DEF sum
  <2> DEFINE e == [V \in SUBSET T |-> IF V = {} THEN 0 ELSE f[First(V)] + h[Rest(V)]]
  <2>2. \A V \in SUBSET T : h[V] = e[V]
    BY <2>1
  <2> QED
    BY <2>2
<1>5. SumsUp(h, f, T)
  BY <1>4 DEF SumsUp
<1> QED
  BY <1>5

\* An empty set adds up to 0, any other to its first element and its rest.
LEMMA SumSteps ==
    ASSUME NEW f, NEW S, IsFiniteSet(S)
    PROVE  SumFunctionOnSet(f, S) =
              IF S = {} THEN 0 ELSE f[First(S)] + SumFunctionOnSet(f, Rest(S))
<1>1. PICK g : SumsUp(g, f, S) /\ SumFunctionOnSet(f, S) = g[S]
  BY SumsExist, SumIsChosen
<1>2. g[S] = IF S = {} THEN 0 ELSE f[First(S)] + g[Rest(S)]
  BY <1>1 DEF SumsUp
<1>3. ASSUME S # {}
      PROVE  SumFunctionOnSet(f, Rest(S)) = g[Rest(S)]
  <2>1. Rest(S) \subseteq S /\ IsFiniteSet(Rest(S))
    BY <1>3, FirstAndRest, FS_Subset
  <2>2. PICK e : SumsUp(e, f, Rest(S)) /\ SumFunctionOnSet(f, Rest(S)) = e[Rest(S)]
    BY <2>1, SumsExist, SumIsChosen
  <2> QED
    BY <1>1, <2>1, <2>2, SumsAgree
<1> QED
  BY <1>1, <1>2, <1>3

-----------------------------------------------------------------------------
(* Sums of integers *)

\* Nothing adds up to 0.
LEMMA SumEmpty == \A f : SumFunctionOnSet(f, {}) = 0
BY SumSteps, FS_EmptySet

\* Integers have an integer for a sum.
LEMMA SumType ==
    ASSUME NEW S, IsFiniteSet(S), NEW f, \A x \in S : f[x] \in Int
    PROVE  SumFunctionOnSet(f, S) \in Int
<1> DEFINE Bad == {T \in SUBSET S : SumFunctionOnSet(f, T) \notin Int}
<1>1. SUFFICES ASSUME Bad # {} PROVE FALSE
  OBVIOUS
<1>2. PICK T \in Bad : \A V \in Bad : V \subseteq T => V = T
  <2>1. Bad \subseteq SUBSET S
    OBVIOUS
  <2> HIDE DEF Bad
  <2> QED
    BY <1>1, <2>1, MinimalSubset
<1>3. T # {}
  BY SumEmpty
<1>4. SumFunctionOnSet(f, Rest(T)) \in Int
  BY <1>2, <1>3, FirstAndRest
<1>5. SumFunctionOnSet(f, T) = f[First(T)] + SumFunctionOnSet(f, Rest(T))
  BY <1>3, SumSteps, FS_Subset
<1> QED
  BY <1>3, <1>4, <1>5, FirstAndRest

\* Any element may be taken first.
LEMMA SumRemove ==
    ASSUME NEW S, IsFiniteSet(S), NEW f, \A x \in S : f[x] \in Int, NEW a \in S
    PROVE  SumFunctionOnSet(f, S) = f[a] + SumFunctionOnSet(f, S \ {a})
<1> DEFINE Sum(T) == SumFunctionOnSet(f, T)
           Bad == {T \in SUBSET S : \E x \in T : Sum(T) # f[x] + Sum(T \ {x})}
<1>1. SUFFICES ASSUME Bad # {} PROVE FALSE
  OBVIOUS
<1>2. PICK T \in Bad : \A V \in Bad : V \subseteq T => V = T
  <2>1. Bad \subseteq SUBSET S
    OBVIOUS
  <2> HIDE DEF Bad
  <2> QED
    BY <1>1, <2>1, MinimalSubset
<1>3. PICK x \in T : Sum(T) # f[x] + Sum(T \ {x})
  OBVIOUS
<1> DEFINE y == First(T)
<1>4. /\ y \in T /\ Rest(T) = T \ {y}
      /\ Sum(T) = f[y] + Sum(T \ {y})
  BY FirstAndRest, SumSteps, FS_Subset DEF Rest
<1>5. x # y
  BY <1>3, <1>4
<1>6. Sum(T \ {y}) = f[x] + Sum((T \ {y}) \ {x})
  <2>1. T \ {y} \notin Bad /\ T \ {y} \in SUBSET S /\ x \in T \ {y}
    BY <1>2, <1>4, <1>5
  <2> QED
    BY <2>1
<1>7. Sum(T \ {x}) = f[y] + Sum((T \ {x}) \ {y})
  <2>1. T \ {x} \notin Bad /\ T \ {x} \in SUBSET S /\ y \in T \ {x}
    BY <1>2, <1>4, <1>5
  <2> QED
    BY <2>1
<1> DEFINE z == Sum((T \ {x}) \ {y})
<1>8. Sum((T \ {y}) \ {x}) = z
  <2>1. (T \ {y}) \ {x} = (T \ {x}) \ {y}
    OBVIOUS
  <2> QED
    BY <2>1
<1>9. f[x] \in Int /\ f[y] \in Int /\ z \in Int
  BY <1>4, SumType, FS_Subset
<1>10. Sum(T) = f[y] + (f[x] + z) /\ Sum(T \ {x}) = f[y] + z
  BY <1>4, <1>6, <1>7, <1>8
<1>11. f[y] + (f[x] + z) = f[x] + (f[y] + z)
  <2> HIDE DEF z, y
  <2> QED
    BY <1>9
<1> QED
  BY <1>3, <1>10, <1>11

\* Only the values on S count.
LEMMA SumSame ==
    ASSUME NEW S, IsFiniteSet(S), NEW f, NEW g, \A x \in S : f[x] = g[x]
    PROVE  SumFunctionOnSet(f, S) = SumFunctionOnSet(g, S)
<1> DEFINE Bad == {T \in SUBSET S : SumFunctionOnSet(f, T) # SumFunctionOnSet(g, T)}
<1>1. SUFFICES ASSUME Bad # {} PROVE FALSE
  OBVIOUS
<1>2. PICK T \in Bad : \A V \in Bad : V \subseteq T => V = T
  <2>1. Bad \subseteq SUBSET S
    OBVIOUS
  <2> HIDE DEF Bad
  <2> QED
    BY <1>1, <2>1, MinimalSubset
<1>3. T # {}
  BY SumEmpty
<1>4. SumFunctionOnSet(f, Rest(T)) = SumFunctionOnSet(g, Rest(T))
  BY <1>2, <1>3, FirstAndRest
<1>5. /\ SumFunctionOnSet(f, T) = f[First(T)] + SumFunctionOnSet(f, Rest(T))
      /\ SumFunctionOnSet(g, T) = g[First(T)] + SumFunctionOnSet(g, Rest(T))
  BY <1>3, SumSteps, FS_Subset
<1> QED
  BY <1>3, <1>4, <1>5, FirstAndRest

\* A change of one value changes the sum by as much.
LEMMA SumChange ==
    ASSUME NEW S, IsFiniteSet(S), NEW a \in S,
           NEW f, \A x \in S : f[x] \in Int, NEW g, g[a] \in Int,
           \A x \in S \ {a} : g[x] = f[x]
    PROVE  SumFunctionOnSet(g, S) = SumFunctionOnSet(f, S) - f[a] + g[a]
<1>1. IsFiniteSet(S \ {a}) /\ \A x \in S : g[x] \in Int
  BY FS_Subset
<1>2. SumFunctionOnSet(g, S \ {a}) = SumFunctionOnSet(f, S \ {a})
  BY <1>1, SumSame
<1>3. SumFunctionOnSet(f, S \ {a}) \in Int
  BY <1>1, SumType
<1> QED
  BY <1>1, <1>2, <1>3, SumRemove

\* Zeros add up to 0.
LEMMA SumZero ==
    ASSUME NEW S, IsFiniteSet(S), NEW f, \A x \in S : f[x] = 0
    PROVE  SumFunctionOnSet(f, S) = 0
<1> DEFINE Bad == {T \in SUBSET S : SumFunctionOnSet(f, T) # 0}
<1>1. SUFFICES ASSUME Bad # {} PROVE FALSE
  OBVIOUS
<1>2. PICK T \in Bad : \A V \in Bad : V \subseteq T => V = T
  <2>1. Bad \subseteq SUBSET S
    OBVIOUS
  <2> HIDE DEF Bad
  <2> QED
    BY <1>1, <2>1, MinimalSubset
<1>3. T # {}
  BY SumEmpty
<1>4. SumFunctionOnSet(f, Rest(T)) = 0
  BY <1>2, <1>3, FirstAndRest
<1> QED
  BY <1>3, <1>4, SumSteps, FS_Subset, FirstAndRest

\* One value is the sum when all others are 0.
LEMMA SumSingle ==
    ASSUME NEW S, IsFiniteSet(S), NEW a \in S, NEW f, f[a] \in Int,
           \A x \in S \ {a} : f[x] = 0
    PROVE  SumFunctionOnSet(f, S) = f[a]
<1>1. \A x \in S : f[x] \in Int
  OBVIOUS
<1>2. SumFunctionOnSet(f, S \ {a}) = 0
  BY SumZero, FS_Subset
<1> QED
  BY <1>1, <1>2, SumRemove

\* Values that are not negative have a sum that is not.
LEMMA SumNat ==
    ASSUME NEW S, IsFiniteSet(S), NEW f, \A x \in S : f[x] \in Nat
    PROVE  SumFunctionOnSet(f, S) \in Nat
<1> DEFINE Bad == {T \in SUBSET S : SumFunctionOnSet(f, T) \notin Nat}
<1>1. SUFFICES ASSUME Bad # {} PROVE FALSE
  OBVIOUS
<1>2. PICK T \in Bad : \A V \in Bad : V \subseteq T => V = T
  <2>1. Bad \subseteq SUBSET S
    OBVIOUS
  <2> HIDE DEF Bad
  <2> QED
    BY <1>1, <2>1, MinimalSubset
<1>3. T # {}
  BY SumEmpty
<1>4. SumFunctionOnSet(f, Rest(T)) \in Nat
  BY <1>2, <1>3, FirstAndRest
<1>5. SumFunctionOnSet(f, T) = f[First(T)] + SumFunctionOnSet(f, Rest(T))
  BY <1>3, SumSteps, FS_Subset
<1> QED
  BY <1>3, <1>4, <1>5, FirstAndRest

\* Two sums over the same set are taken together.
LEMMA SumPlus ==
    ASSUME NEW S, IsFiniteSet(S), NEW f, NEW g, NEW h,
           \A x \in S : f[x] \in Int /\ g[x] \in Int /\ h[x] = f[x] + g[x]
    PROVE  SumFunctionOnSet(h, S) = SumFunctionOnSet(f, S) + SumFunctionOnSet(g, S)
<1> DEFINE Bad == {T \in SUBSET S : SumFunctionOnSet(h, T) #
                      SumFunctionOnSet(f, T) + SumFunctionOnSet(g, T)}
<1>1. SUFFICES ASSUME Bad # {} PROVE FALSE
  OBVIOUS
<1>2. PICK T \in Bad : \A V \in Bad : V \subseteq T => V = T
  <2>1. Bad \subseteq SUBSET S
    OBVIOUS
  <2> HIDE DEF Bad
  <2> QED
    BY <1>1, <2>1, MinimalSubset
<1>3. T # {}
  <2>1. SumFunctionOnSet(h, {}) = SumFunctionOnSet(f, {}) + SumFunctionOnSet(g, {})
    BY SumEmpty
  <2> QED
    BY <2>1
<1> DEFINE x == First(T)
           R == Rest(T)
<1>4. x \in S /\ R \subseteq T /\ R # T /\ IsFiniteSet(R) /\ IsFiniteSet(T)
  BY <1>3, FirstAndRest, FS_Subset
<1>5. SumFunctionOnSet(h, R) = SumFunctionOnSet(f, R) + SumFunctionOnSet(g, R)
  BY <1>2, <1>4
<1>6. /\ SumFunctionOnSet(f, T) = f[x] + SumFunctionOnSet(f, R)
      /\ SumFunctionOnSet(g, T) = g[x] + SumFunctionOnSet(g, R)
      /\ SumFunctionOnSet(h, T) = h[x] + SumFunctionOnSet(h, R)
  BY <1>3, <1>4, SumSteps
<1>7. /\ SumFunctionOnSet(f, R) \in Int /\ SumFunctionOnSet(g, R) \in Int
      /\ f[x] \in Int /\ g[x] \in Int /\ h[x] = f[x] + g[x]
  BY <1>4, SumType
<1>8. SumFunctionOnSet(h, T) = SumFunctionOnSet(f, T) + SumFunctionOnSet(g, T)
  <2> HIDE DEF x, R
  <2> QED
    BY <1>5, <1>6, <1>7
<1> QED
  BY <1>8

\* Elements whose value is 0 can be left out, whatever they are worth elsewhere.
LEMMA SumOutside ==
    ASSUME NEW S, IsFiniteSet(S), NEW T, T \subseteq S, NEW f, NEW g,
           \A x \in T : f[x] \in Int /\ g[x] = f[x], \A x \in S \ T : g[x] = 0
    PROVE  SumFunctionOnSet(g, S) = SumFunctionOnSet(f, T)
<1> DEFINE Bad == {U \in SUBSET S : SumFunctionOnSet(g, U) # SumFunctionOnSet(f, U \cap T)}
<1>1. S \cap T = T
  OBVIOUS
<1>2. SUFFICES ASSUME Bad # {} PROVE FALSE
  BY <1>1
<1>3. PICK U \in Bad : \A V \in Bad : V \subseteq U => V = U
  <2>1. Bad \subseteq SUBSET S
    OBVIOUS
  <2> HIDE DEF Bad
  <2> QED
    BY <1>2, <2>1, MinimalSubset
<1>4. {} \cap T = {}
  OBVIOUS
<1>5. U # {}
  BY <1>4, SumEmpty
<1>6. PICK x \in U : TRUE
  BY <1>5
<1> DEFINE V == U \ {x}
<1>7. x \in S /\ IsFiniteSet(U) /\ IsFiniteSet(U \cap T) /\ \A y \in S : g[y] \in Int
  BY FS_Subset
<1>8. SumFunctionOnSet(g, V) = SumFunctionOnSet(f, V \cap T)
  BY <1>3, <1>6
<1>9. SumFunctionOnSet(g, U) = g[x] + SumFunctionOnSet(g, V)
  BY <1>7, SumRemove
<1>10. CASE x \in T
  <2>1. (U \cap T) \ {x} = V \cap T
    OBVIOUS
  <2>2. x \in U \cap T /\ \A y \in U \cap T : f[y] \in Int
    BY <1>10
  <2>3. SumFunctionOnSet(f, U \cap T) = f[x] + SumFunctionOnSet(f, (U \cap T) \ {x})
    <3> HIDE DEF Bad, V
    <3> QED
      BY <1>7, <2>2, SumRemove
  <2> QED
    BY <1>8, <1>9, <1>10, <2>1, <2>3
<1>11. CASE x \notin T
  <2>1. V \cap T = U \cap T
    BY <1>11
  <2>2. SumFunctionOnSet(g, V) \in Int
    BY <1>7, SumType, FS_Subset
  <2>3. SumFunctionOnSet(g, U) = SumFunctionOnSet(g, V)
    BY <1>7, <1>9, <1>11, <2>2
  <2> QED
    BY <1>8, <2>1, <2>3
<1> QED
  BY <1>10, <1>11

\* The sum over two disjoint sets is the sum of their sums.
LEMMA SumUnion ==
    ASSUME NEW S, IsFiniteSet(S), NEW T, IsFiniteSet(T), S \cap T = {},
           NEW f, \A x \in S \cup T : f[x] \in Int
    PROVE  SumFunctionOnSet(f, S \cup T) = SumFunctionOnSet(f, S) + SumFunctionOnSet(f, T)
<1> DEFINE g == [x \in S \cup T |-> IF x \in S THEN f[x] ELSE 0]
           h == [x \in S \cup T |-> IF x \in T THEN f[x] ELSE 0]
           Sum(e, U) == SumFunctionOnSet(e, U)
<1>1. IsFiniteSet(S \cup T) /\ (S \cup T) \ S = T /\ (S \cup T) \ T = S
  BY FS_Union
<1>2. \A x \in S \cup T : g[x] \in Int /\ h[x] \in Int /\ f[x] = g[x] + h[x]
  OBVIOUS
<1>3. Sum(f, S \cup T) = Sum(g, S \cup T) + Sum(h, S \cup T)
  <2> HIDE DEF g, h
  <2> QED
    BY <1>1, <1>2, SumPlus
<1>4. Sum(g, S \cup T) = Sum(f, S)
  BY <1>1, SumOutside
<1>5. Sum(h, S \cup T) = Sum(f, T)
  BY <1>1, SumOutside
<1> QED
  BY <1>3, <1>4, <1>5

\* Of values that are not negative, fewer add up to less.
LEMMA SumMonotone ==
    ASSUME NEW S, IsFiniteSet(S), NEW T, T \subseteq S, NEW f, \A x \in S : f[x] \in Nat
    PROVE  SumFunctionOnSet(f, T) <= SumFunctionOnSet(f, S)
<1>1. IsFiniteSet(T) /\ IsFiniteSet(S \ T) /\ T \cap (S \ T) = {} /\ T \cup (S \ T) = S
  BY FS_Subset
<1>2. \A x \in T \cup (S \ T) : f[x] \in Int
  BY <1>1
<1>3. SumFunctionOnSet(f, S) = SumFunctionOnSet(f, T) + SumFunctionOnSet(f, S \ T)
  BY <1>1, <1>2, SumUnion
<1>4. SumFunctionOnSet(f, T) \in Nat /\ SumFunctionOnSet(f, S \ T) \in Nat
  BY <1>1, SumNat
<1> QED
  BY <1>3, <1>4

\* Equal values add up to their number times the value.
LEMMA SumConstant ==
    ASSUME NEW S, IsFiniteSet(S), NEW c \in Int, NEW f, \A x \in S : f[x] = c
    PROVE  SumFunctionOnSet(f, S) = Cardinality(S) * c
<1> DEFINE Bad == {T \in SUBSET S : SumFunctionOnSet(f, T) # Cardinality(T) * c}
<1>1. SUFFICES ASSUME Bad # {} PROVE FALSE
  OBVIOUS
<1>2. PICK T \in Bad : \A V \in Bad : V \subseteq T => V = T
  <2>1. Bad \subseteq SUBSET S
    OBVIOUS
  <2> HIDE DEF Bad
  <2> QED
    BY <1>1, <2>1, MinimalSubset
<1>3. T # {}
  BY SumEmpty, FS_EmptySet
<1> DEFINE x == First(T)
           n == Cardinality(Rest(T))
<1>4. x \in S /\ x \in T /\ Rest(T) \subseteq T /\ Rest(T) # T /\ IsFiniteSet(T)
  BY <1>3, FirstAndRest, FS_Subset
<1>5. Cardinality(T) = n + 1 /\ n \in Nat
  BY <1>4, FS_RemoveElement, FS_CardinalityType, FS_Subset DEF Rest
<1>6. SumFunctionOnSet(f, Rest(T)) = n * c
  BY <1>2, <1>4
<1>7. SumFunctionOnSet(f, T) = c + n * c
  BY <1>3, <1>4, <1>6, SumSteps
<1>8. c + n * c = (n + 1) * c
  <2> HIDE DEF n
  <2> QED
    BY <1>5
<1>9. SumFunctionOnSet(f, T) = Cardinality(T) * c
  BY <1>5, <1>7, <1>8
<1> QED
  BY <1>9
=============================================================================
